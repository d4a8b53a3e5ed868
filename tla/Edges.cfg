SPECIFICATION EdgesSpec
CONSTANTS
    Peers = {p1, p2}
    None = None
    Fds = {f1, f2}
    MaxReads = 2
    OutBufSize = 2
    MaxSize = 2
    MaxPackets = 2
    MaxConns = 2
    MaxRecords = 3
    Paces = FALSE
    Base = 2
    LengthBytes = 4
    MaxBodySize = 2
    MaxStream = 6
    Range = 12
    Durations = {0, 3}
    KeepAlives = {0, 1}
    MaxGap = 2
INVARIANTS
    FrameExact
    EdgesAgree
    NeverLate
PROPERTIES
    NeverEarly
    PipeImplements
    PipeFlushed
    TlsImplements
    TlsHeldLeaves
CHECK_DEADLOCK FALSE
