SPECIFICATION Spec
CONSTANTS
    Streams <- OneStream
    Trace <- Loop
    BufSize = 4
    NumHWC = 1
    Window = 4
    Warmup = 1
    SkipCounts = {1, 2}
    Refetches = TRUE
    PalFlows = TRUE
    PredictsZero = TRUE
    Switches = TRUE
    MtInstLimit = 2
INVARIANTS
    SlotStable
