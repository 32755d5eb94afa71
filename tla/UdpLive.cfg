SPECIFICATION FairSpec
CONSTANTS
    MaxSend = 1
    MaxRecv = 1
    MaxChunks = 1
    SinkCap = 1
    StreamCap = 1
    InCap = 1
    OutCap = 1
    NetCap = 3
    SocketDies = TRUE
    Strays = FALSE
PROPERTIES
    DeathReported
    WritesArrive
    ReadsArrive
