SPECIFICATION Spec
CONSTANTS
    SlabMax = 3
    DataMin = 1
    Capacity = 8
    Header = 2
    Sizes = {1, 2, 3, 4, 5}
    MaxPools = 3
    MaxHuge = 1
    MaxFails = 1
INVARIANTS
    SlabsApart
    Accounted
PROPERTIES
    GrowsOnlyIfFull
    IsHeap
CHECK_DEADLOCK FALSE
