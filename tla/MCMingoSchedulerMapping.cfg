SPECIFICATION Spec
CONSTANTS
    NThreads = 3
    Program <- ThreeThreads
    NumHwcs = 2
    MAX_NUM_SWCS = 3
    Polls <- DefaultPolls
    Setups <- OnlyOneStage
    MaxTimers = 1
    PromptStart = FALSE
INVARIANTS
    MappedOneToOne
