--------------------------- MODULE MCEventTimers ---------------------------
(* EventTimers for model checking: the arrangements.                       *)
EXTENDS EventTimers

Periods(a, b, c) == [e \in Key |-> IF e = 1 THEN a ELSE IF e = 2 THEN b ELSE IF e = 3 THEN c ELSE 0]

Base == [mode |-> "timer", events |-> {1, 2, 3}, tv |-> Periods(2, 5, 3), once |-> {},
         io |-> {}, deletes |-> {}, adds |-> 3]

\* The tree as a map.
Table == [Base EXCEPT !.mode = "map", !.events = {}]
\* Three periodic events, one of them deleted and added again.
Periodic3 == [Base EXCEPT !.deletes = {2}, !.adds = 4]
\* A one-shot event, one with a descriptor and a timeout, one without timeout.
Mixed == [Base EXCEPT !.tv = Periods(2, 4, 0), !.once = {1}, !.io = {2, 3}, !.deletes = {2, 3}]
\* A one-shot event that is called, deleted and added again, with a descriptor,
\* beside a periodic one.
OneShot == [Base EXCEPT !.events = {1, 2}, !.tv = Periods(2, 3, 0), !.once = {1}, !.io = {1, 2},
                        !.deletes = {1, 2}, !.adds = 4]

MCSetups == {Table, Periodic3, Mixed, OneShot}
=============================================================================
