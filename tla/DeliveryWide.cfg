SPECIFICATION EitherSpec
CONSTANTS
    MaxPending = 3
    MaxId = 4
    RingSize = 4
    PublishSize = 1
    QoSs = {1, 2}
    MaxMessages = 3
    MaxLosses = 2
INVARIANTS
    InOrder
PROPERTIES
    Drains
