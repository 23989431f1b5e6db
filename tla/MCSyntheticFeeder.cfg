SPECIFICATION FairSpec
CONSTANTS
    t1 = t1
    t2 = t2
    Cpus = {t1, t2}
    CellBytes = 4
    Values = {0, 1}
    Window = 3
    History = 3
    Wraps = FALSE
    WrongPathLimit = 4
    NumToCommit <- OneLimited
    MaxTraps = 1
    MaxLocal = 1
CHECK_DEADLOCK FALSE
INVARIANTS
    FeederInvariant
    BranchFollowsItsTest
    LockHeldByOne
PROPERTIES
    HolderReleases
