SPECIFICATION FairSpec
CONSTANTS
    Calls = {c1, c2, c3}
    ActivityCounts = {0, 1}
    MaxActivityUpdates = 2
    None = None
CHECK_DEADLOCK FALSE
INVARIANTS
    UsersShareLiveRuntime
    NoProcessLeaks
PROPERTIES
    RetiredAfterFullIdlePeriod
    IdleRuntimeRetires
    CloseEndsEveryProcess
    WaitersWake
