SPECIFICATION FairSpec
CONSTANTS
    Streams <- OneStream
    Trace <- Loop
    BufSize = 8
    NumHWC = 1
    Window = 3
    Warmup = 1
    SkipCounts = {}
    Refetches = FALSE
    PalFlows = FALSE
    PredictsZero = FALSE
    Switches = FALSE
    MtInstLimit = 0
PROPERTIES
    TraceCompletes
