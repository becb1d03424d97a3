\* A camera that reconnects, a viewer that asks for it, descriptor numbers reused.
CONSTANTS
    Conns = {c1, c2, c3}
    Fds = {f1, f2, f3}
    Cameras = {cam1}
    Viewers = {v1}
    Addrs = {n1}
    None = None
SPECIFICATION FairSpec
INVARIANTS
    OwnsItsSocket
    EntriesAreOpen
PROPERTIES
    CleanupKeepsNewer
    GoneIsUnlisted
