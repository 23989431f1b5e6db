SPECIFICATION FairSpec
CONSTANTS
    c1 = c1
    c2 = c2
    Cpus = {c1, c2}
    Stream <- TwoStreams
    InstrEntries = 4
    RegEntries = 4
    RequestEntries = 4
    WarmupChunk = 2
    ExecuteChunk = 1
    SdvMayDie = TRUE
    AsimMayStop = TRUE
INVARIANTS
    LinkSound
    StreamIntact
    NoSharedEntry
PROPERTIES
    RingsAreQueues
    SimulationEnds
CHECK_DEADLOCK FALSE
