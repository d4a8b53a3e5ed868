SPECIFICATION FairSpec
CONSTANTS
    Peers = {1, 2}
    None = None
    MaxConns = 2
    MaxReads = 2
    OutBufSize = 2
    MaxSize = 2
    MaxPackets = 2
    MaxTotal = 2
INVARIANTS
    Agreement
PROPERTIES
    Implements
    Flushed
    TickRuns
    Served
