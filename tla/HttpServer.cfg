SPECIFICATION FairSpec
CONSTANTS
    a = a
    b = b
    None = None
    Client = {a, b}
    Cap = 2
    Setups <- TheSetups
INVARIANTS
    PoolSound
    OwnResponses
PROPERTIES
    EveryoneAnswered
CHECK_DEADLOCK FALSE
