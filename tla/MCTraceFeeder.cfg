SPECIFICATION Spec
CONSTANTS
    Streams <- OneStream
    Trace <- Loop
    BufSize = 8
    NumHWC = 1
    Window = 3
    Warmup = 1
    SkipCounts = {}
    Refetches = TRUE
    PalFlows = FALSE
    PredictsZero = FALSE
    Switches = TRUE
    MtInstLimit = 0
INVARIANTS
    FeederInvariant
    StartupOnPath
PROPERTIES
    RetiresInOrder
