\* Two publishers race, the socket holds one byte so bytes do get lost, and
\* four messages let a later byte fetch an earlier message.
CONSTANTS
    Publishers = {p1, p2}
    Subscribers = {s1, s2}
    CentorRoom = 1
    MaxMessages = 4
    MaxSubs = 2
SPECIFICATION CentorFairSpec
INVARIANTS
    CentorTypeOK
    NeverRemovesNothing
    DeliveredInOrder
PROPERTIES
    EveryMessageTaken
CHECK_DEADLOCK FALSE
