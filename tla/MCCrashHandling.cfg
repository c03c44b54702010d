SPECIFICATION FairSpec
CONSTANTS
    Thread = {1, 3}
    Worker = 2
    Server = 4
    MaxFailures = 2
    MayRefuse = TRUE
CHECK_DEADLOCK FALSE
INVARIANTS
    TypeOK
    NobodyIsLeftSuspended
    OneCrashIsReported
    HandlesOnce
PROPERTIES
    DidCrashIsTrue
    CrashEnds
