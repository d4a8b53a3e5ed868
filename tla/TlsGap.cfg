SPECIFICATION Spec
CONSTANTS
    Peers = {p1}
    None = None
    MaxConns = 1
    MaxRecords = 3
    Paces = TRUE
INVARIANTS
    RecordsUnbroken
CHECK_DEADLOCK FALSE
