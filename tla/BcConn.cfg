SPECIFICATION FairSpec
CONSTANTS
    Rpcs = {r1}
    Groups = {{v1}, {r1, p1}}
    Videos = {v1}
    Snaps = {p1}
    CmdCap = 1
    SubCap = 1
    SinkCap = 1
    BufCap = 1
    MaxFrames = 1
    Parts = 2
    MaxAlive = 1
    MaxHandlers = 2
INVARIANTS
    Delivered
    OnlyOwn
PROPERTIES
    EveryoneTold
