SPECIFICATION FairSpec
CONSTANTS
    a = a
    b = b
    c = c
    d = d
    NONE = NONE
    SWC = {a, b, c, d}
    NumHWC = 1
    Priority <- EqualPriority
    MAX_NUM_SWCS = 3
    INTERVAL_TIMER = 1
    CORE_SWAP_FEEDER_ENABLE = FALSE
    PipeDepth = 2
PROPERTIES
    NoStarvation
    EndedStreamLeaves
    ImplementsDispatch
