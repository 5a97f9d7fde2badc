\* One user thread with two workers; descriptors 2 and 3 above the notifier's
\* so that maxfdp rises and falls, and closed descriptors are reused.
CONSTANTS
    u1 = u1
    w1 = w1
    w2 = w2
    Actors = {u1}
    Workers = {w1, w2}
    Owner <- OneOwner
    Fds = {2, 3}
    NotifierFd = 1
    NotifierRoom = 2
    None = None
    SleepSuffices = TRUE
SPECIFICATION FairSpec
INVARIANTS
    NoMissedWakeup
    NoStaleDescriptor
PROPERTIES
    DataIsReceived
    StopCompletes
