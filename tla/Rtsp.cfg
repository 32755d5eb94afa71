CONSTANTS
    c1 = c1
    c2 = c2
    Clients = {c1}
    Works <- SomeWorks
    Formats = {"generic", "all"}
    Wrap = 8
    Backward = 4
    MaxForwardJump = 2
    RestartAdvance = 1
    RestartDetectCount = 2
    Ceiling = 100
    BurstCap = 2
    Intervals = {2}
    QueueCap = 1
    MaxEvents = 4
    Steps = {0, 1, 3, 7}
    CanPause = {TRUE, FALSE}
SPECIFICATION Spec
INVARIANTS RateKept TracksWereTried
PROPERTIES TimeGrows FollowsMotion LeavesNothing
CONSTRAINT Small
CHECK_DEADLOCK FALSE
