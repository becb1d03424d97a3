CONSTANTS
    Viewers = {v1, v2, v3}
    Out = Out
    Cap = 3
    HeaderCacheSize = 2
    MaxHttpClients = 2
    MaxMsg = 2
    MaxTotal = 4
    MaxSessions = 2
SYMMETRY ViewerSymmetry
SPECIFICATION Spec
INVARIANTS SlotsMatchConnections CursorsInWindow
PROPERTY ImplementsFanout
CHECK_DEADLOCK FALSE
