SPECIFICATION FairSpec
CONSTANTS
    Stream <- Machine
    WarmupChunk = 5
    ExecuteChunk = 2
    Window = 4
    MaxEvents = 3
    LateTraps = FALSE
INVARIANTS
    FeederInvariant
    InterruptIsPrecise
    InterruptIsRaised
PROPERTIES
    RetiresInOrder
    StreamCompletes
