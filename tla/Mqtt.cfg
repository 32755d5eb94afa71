SPECIFICATION Spec
CONSTANTS
    Senders <- MCSenders
    Handlers <- MCHandlers
    Topics <- MCTopics
    Values <- MCValues
    Configs = {"all", "less"}
    EnabledIn = {"all"}
    Requests = {"siren on", "bogus"}
    ClientCap = 1
    InboxCap = 1
    MaxDrops = 1
    MaxRequests = 2
    MaxChanges = 2
INVARIANTS StatusFollows ConfigPosted
PROPERTY Implements
CHECK_DEADLOCK FALSE
CONSTRAINT Bounded
