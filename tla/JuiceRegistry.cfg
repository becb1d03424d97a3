\* A camera with a subscriber that leaves, with a subscriber and a requester, or
\* with two requesters; every connection has a descriptor number of its own.
CONSTANTS
    p1 = p1
    p2 = p2
    k1 = k1
    k2 = k2
    s1 = s1
    s2 = s2
    Cams = {p1}
    Consumers = {k1, k2}
    Fds = {1, 2, 3}
    Services = {s1}
    ServiceOf <- OneCamera
    None = None
    MaxMissedPongs = 2
    MaxProviders = 0
    Recycle = FALSE
    RoleMixes <- Roles
SPECIFICATION FairSpec
CHECK_DEADLOCK FALSE
INVARIANTS SubscriberKnows AnsweringIsKept AloneIsFresh
PROPERTIES RequestAnswered DeadIsUnlisted
