SPECIFICATION FairSpec
CONSTANTS
    MaxConnections = 2
    MaxSessions = 2
    ClientIds = {a}
    NoClient = NoClient
    AutoRange = 3
    OrderRange = 2
    MaxWills = 2
    MaxPackets = 1
INVARIANTS
    Linked
    UniqueIds
    WillOnce
    SlotAgreement
    IdleClean
    NeverUnavailable
PROPERTIES CallReturns
