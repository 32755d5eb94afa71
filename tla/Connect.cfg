SPECIFICATION Spec
CONSTANTS
    Dests = {d1}
    Servers = {s1, s2}
    Regs = {r1, r2}
    Tids = {1, 2}
    MaxTcp = 1
    MaxRetry = 1
    Options <- MCOptions
    MaxNums = 4
    MaxEnc = "aes"
INVARIANTS
    PermitExact
    Understood
PROPERTIES
    ConnectEnds
CHECK_DEADLOCK FALSE
