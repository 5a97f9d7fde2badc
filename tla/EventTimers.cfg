CONSTANTS
    MaxKey = 5
    Copies = 2
    MaxLag = 1
    Setups <- MCSetups
SPECIFICATION FairSpec
INVARIANTS
    MapSound
    ArmedOnce
PROPERTIES
    RefinesOrderedMap
    FiresUnlessClash
CHECK_DEADLOCK FALSE
