SPECIFICATION FairSpec
CONSTANTS
    NThreads = 3
    Program <- ThreeThreads
    NumHwcs = 2
    MAX_NUM_SWCS = 3
    Polls <- DefaultPolls
    Setups <- OneOrTwoStages
    MaxTimers = 1
    PromptStart = TRUE
INVARIANTS
    SchedulerSound
    MappedOneToOne
    PassedOverIsPickedLater
    AnsweredByCommit
PROPERTIES
    AllStreamsEnd
