SPECIFICATION E2ESpec
CONSTANTS
    MaxInbound = 2
    MaxWindow = 3
    PublisherIds = {1, 2, 3}
    MaxMessages = 4
    MaxLosses = 3
    MaxPending = 2
    MaxId = 3
    RingSize = 4
    MaxRouted = 2
    MaxParted = 1
INVARIANTS
    TrackedOpen
    RoutedOnce
    OnceEndToEnd
PROPERTIES
    Arrives
CHECK_DEADLOCK FALSE
