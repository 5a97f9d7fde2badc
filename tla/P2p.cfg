CONSTANTS
    a = a
    b = b
    c = c
    None = None
    Node = {a, b, c}
    Setups <- MCSetups
SPECIFICATION FairSpec
INVARIANTS
    PortsOwned
    ConnectedBothWays
PROPERTIES
    CallConnects
CHECK_DEADLOCK FALSE
