SPECIFICATION Spec
CONSTANTS
    Types = {"people", "zone"}
    Zones = {"zone"}
    Alarms <- MCAlarms
    QueueCap = 1
    MaxAlarms = 2
    MaxLosses = 1
    Subs = {s1}
    MaxSubs = 1
    PendingCap = 2
    NoTopic = {}
    MaxSyncs = 1
INVARIANTS
    Mirrors
    Latest
    OnvifFollows
CHECK_DEADLOCK FALSE
