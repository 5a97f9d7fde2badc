CONSTANTS
    d1 = d1
    d2 = d2
    d3 = d3
    Dialer = {d1, d2, d3}
    MaxLinks = 2
    BadRounds = 2
    LocalNet <- MCLocalNet
    Setups <- MCSetups
SPECIFICATION FairSpec
INVARIANTS
    PoolBalanced
    AddressAgreed
PROPERTIES
    DialerComesUp
    TickCatchesUp
CHECK_DEADLOCK FALSE
