SPECIFICATION FairSpec
CONSTANTS
    MaxPending = 2
    MaxId = 3
    RingSize = 3
    PublishSize = 2
    QoSs = {1}
    MaxMessages = 2
    MaxLosses = 1
PROPERTIES
    Drains
