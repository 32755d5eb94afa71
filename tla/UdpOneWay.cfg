SPECIFICATION UdpSpec
CONSTANTS
    MaxSend = 3
    MaxRecv = 3
    MaxChunks = 2
    SinkCap = 1
    StreamCap = 1
    InCap = 1
    OutCap = 1
    NetCap = 2
    SocketDies = TRUE
    Strays = TRUE
INVARIANTS
    SendNoLoss
    InOrder
    RecvNoLoss
CONSTRAINT OneWay
