SPECIFICATION Spec
CONSTANTS
    MaxPending = 3
    MaxId = 4
    RingSize = 3
    PublishSize = 2
    QoSs = {1, 2}
    MaxMessages = 4
    MaxLosses = 1
INVARIANTS
    IdsDistinct
    QueuedLast
    NoneLost
    ExactlyOnce
PROPERTIES
    DupIfSentBefore
