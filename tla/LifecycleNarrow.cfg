SPECIFICATION Spec
CONSTANTS
    MaxConnections = 3
    MaxSessions = 2
    ClientIds = {a, b}
    NoClient = NoClient
    AutoRange = 3
    OrderRange = 4
    MaxWills = 0
    MaxPackets = 1
SYMMETRY ClientSymmetry
INVARIANTS
    OldestIsLongestGone
PROPERTIES
    LiveSessionsKept
    GivenUpForReason
