SPECIFICATION FairSpec
CONSTANTS
    Readers = {r1, r2}
    Limit = 1
    GopLimit = 2
    MaxChunks = 4
CHECK_DEADLOCK FALSE
INVARIANTS
    NoGap
    NoLostWakeup
PROPERTIES
    ProducerContract
    ReaderGetsCamera
    
