\* One user thread destroys its worker while the event thread may be running
\* the worker's callback.
CONSTANTS
    u1 = u1
    w1 = w1
    w2 = w2
    Actors = {u1}
    Workers = {w1, w2}
    Owner <- OneOwner
    Fds = {2, 3}
    NotifierFd = 1
    NotifierRoom = 2
    None = None
    SleepSuffices = TRUE
SPECIFICATION Spec
INVARIANT WorkerOutlivesCallback
