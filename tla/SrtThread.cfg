\* Viewers, a changing public address, updates good and rejected, and liveness
\* when threads, server and source all make progress.
CONSTANTS
    a = a
    b = b
    Values = {a, b, lo}
    Empty = Empty
    Loopback = lo
    Payloads <- TwoConfigsAndWipe
    Fds = {f1, f2}
    Peers = {p1}
    None = None
    Addrs = {n1, n2}
    RefreshTicks = 1
SPECIFICATION FairSpec
INVARIANTS
    TypeOK
    FdOwnership
    PendingCancels
    ActiveIsLive
    RegisteredIsCurrent
    ReloadNotLost
PROPERTIES
    RequestIsTaken
    ConfigIsUsed
    ShutdownCompletes
