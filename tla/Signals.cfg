SPECIFICATION FairSpec
CONSTANTS
    Apps = {"poll", "node", "call", "own"}
    Users = {"u", "v"}
    OneShot = {"v"}
    SocketRoom = 2
    MaxSignals = 3
INVARIANTS
    ShutdownInOrder
PROPERTIES
    SignalSeen
    ProcessEnds
CHECK_DEADLOCK FALSE
