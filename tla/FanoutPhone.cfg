CONSTANTS
    Viewers = {v1, v2, v3}
    Out = Out
    Cap = 3
    HeaderCacheSize = 2
    MaxHttpClients = 2
    MaxMsg = 2
    MaxTotal = 5
    MaxSessions = 1
SYMMETRY ViewerSymmetry
SPECIFICATION Spec
INVARIANTS BootstrapReleases
PROPERTY ImplementsFanout
CHECK_DEADLOCK FALSE
