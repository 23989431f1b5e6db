SPECIFICATION Spec
CONSTANTS
    a = a
    b = b
    c = c
    d = d
    NONE = NONE
    SWC = {a, b, c}
    NumHWC = 2
    Priority <- SecondPreferred
    MAX_NUM_SWCS = 3
    INTERVAL_TIMER = 1
    CORE_SWAP_FEEDER_ENABLE = TRUE
    PipeDepth = 2
SYMMETRY SWCSymmetry
INVARIANTS
    MappingConsistent
    SwitchConsistent
    ListConsistent
    WorkConserving
    RestartsAfterSwitch
    NoSchedulerError
PROPERTIES
    NoTheft
    NoResurrection
