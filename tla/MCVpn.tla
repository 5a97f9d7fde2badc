------------------------------- MODULE MCVpn -------------------------------
(* Vpn for model checking: the arrangements.                               *)
EXTENDS Vpn

CONSTANTS d1, d2, d3

Ten == 167772160   \* 10.0.0.0

\* d1 has a network of its own, d2 a part of it, d3 none.
MCLocalNet ==
    [d \in Dialer |-> IF d = d1 THEN [net |-> Ten + 65536, prefix |-> 16]
                      ELSE IF d = d2 THEN [net |-> Ten + 65536 + 256, prefix |-> 24]
                      ELSE [net |-> 0, prefix |-> 0]]

Base == [tunnel_ip |-> Ten + 254, prefix |-> 24, dialers |-> {d1}, runs |-> 1,
         stops |-> {}, retry |-> 2, faults |-> 0]

\* Two dialers, room for both; one thing goes wrong.
Pair   == [Base EXCEPT !.dialers = {d1, d2}]
Faulty == [Base EXCEPT !.faults = 2]
PairFaulty == [Base EXCEPT !.dialers = {d1, d2}, !.retry = 1, !.faults = 1]
\* The hub's own address is in the way: one address for two dialers.
Short  == [Base EXCEPT !.tunnel_ip = Ten + 1, !.dialers = {d1, d3}]
\* d1 is stopped at any time and started again.
Again  == [Base EXCEPT !.runs = 2, !.stops = {d1}, !.faults = 1]
\* More dialers than links.
Crowd  == [Base EXCEPT !.dialers = {d1, d2, d3}, !.retry = 1]

MCSetups == {Pair, Faulty, PairFaulty, Short, Again, Crowd}
=============================================================================
