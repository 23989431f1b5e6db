SPECIFICATION FairSpec
CONSTANTS
    Program <- Mixed
    QueueSize = 6
    GroupSize = 2
    OsMode = TRUE
    Window = 3
    MaxEvents = 2
    SkipCounts = {2}
    Switches = "clean"
    LateTraps = FALSE
INVARIANTS
    FeederInvariant
PROPERTIES
    RetiresInOrder
    ProgramCompletes
