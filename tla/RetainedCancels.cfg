SPECIFICATION FairSpec
CONSTANTS
    MaxRetained = 2
    Topics = {a, b}
    NoTopic = NoTopic
    Filters = {{a}, {b}}
    MaxSubs = 2
    QoSs = {0}
    RingSize = 1
    MaxVersions = 0
    MaxSubscribes = 2
    MaxLosses = 0
PROPERTIES
    ReplayCompletes
