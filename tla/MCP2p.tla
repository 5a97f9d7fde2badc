------------------------------- MODULE MCP2p -------------------------------
(* P2p for model checking: the arrangements.                               *)
EXTENDS P2p

CONSTANTS a, b, c

Base ==
    [online |-> {}, offline |-> {}, calls |-> {<<a, b>>},
     pool |-> [n \in Node |-> <<>>], stun2 |-> FALSE, closers |-> {}, signins |-> 1,
     sockets |-> 2, creates |-> 1, sends |-> 0, closes |-> 0, faults |-> 0]

\* a and b sign in, a calls b, gives up at any time and calls again.
Again ==
    [Base EXCEPT !.online = {b}, !.offline = {a}, !.closers = {a}, !.creates = 2, !.closes = 1]

\* a calls b while one thing goes wrong, the death of b included; some data is sent.
Faulty ==
    [Base EXCEPT !.online = {a, b}, !.stun2 = TRUE, !.closers = {b}, !.sends = 1, !.faults = 1]

\* a and c call b, which has one port and closes what it was given.
Crowded ==
    [Base EXCEPT !.online = {a, b, c}, !.calls = {<<a, b>>, <<c, b>>}, !.creates = 2,
                 !.pool[b] = <<7>>, !.closers = {b}, !.closes = 1]

\* b goes away and comes back while a calls it.
Return ==
    [Base EXCEPT !.online = {a, b}, !.closers = {b}, !.signins = 2, !.closes = 1]

MCSetups == {Again, Faulty, Crowded, Return}
=============================================================================
