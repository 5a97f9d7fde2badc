\* Two processes with an object each; one of them makes all the calls, the
\* other may die, or the daemon.
CONSTANTS
    s = s
    c = c
    o = o
    p = p
    i1 = i1
    i2 = i2
    l1 = l1
    None = None
    Buses = {s, c}
    Objects = {o, p}
    Serves <- ServesEach
    Calls = {i1, i2, l1}
    Caller <- ClientCalls
    Target <- MixedTarget
    Kind <- MixedKind
    NoPing = {c}
    MayCrash = {s}
    Overlap = FALSE
    Fds = {1, 2, 3}
    MaxFailures = 1
SPECIFICATION FairSpec
INVARIANTS
    RegistrySound
    OwnReply
PROPERTIES
    CallReturns
    EventuallyServed
CHECK_DEADLOCK FALSE
