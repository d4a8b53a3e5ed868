SPECIFICATION FairSpec
CONSTANTS
    MaxRetained = 2
    Topics = {a, b, c}
    NoTopic = NoTopic
    Filters = {{a, b}, {b}}
    MaxSubs = 2
    QoSs = {0, 1}
    RingSize = 2
    MaxVersions = 1
    MaxSubscribes = 2
    MaxLosses = 1
INVARIANTS
    LastValue
    ReplayedOnce
PROPERTIES
    ReplayResumes
