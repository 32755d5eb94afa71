SPECIFICATION FairSpec
\* A camera nobody uses may rest.
CHECK_DEADLOCK FALSE
CONSTANTS
    NotiCap = 1
    MaxEvents = 1
    Tasks = {t1}
    Holders = {h1}
    MaxAsks = 2
    CmdCap = 1
INVARIANTS
    CountIsExact
PROPERTIES
    TaskEnds
    ConfigTakenUp
    OnlineUnlessIdle
    AllTold
