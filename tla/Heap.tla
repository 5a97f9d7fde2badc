-------------------------------- MODULE Heap --------------------------------
(* What an allocator promises: a block handed out overlaps no block that is *)
(* still in use, and a block given back is out of use.                      *)
EXTENDS Integers

VARIABLE
    live      \* the blocks in use: [area, at, len], len bytes from at

Overlap(x, y) ==
    /\ x.area = y.area
    /\ x.at < y.at + y.len
    /\ y.at < x.at + x.len

Init == live = {}

Alloc ==
    \E b \in live' :
        /\ live' = live \cup {b}
        /\ \A x \in live : ~Overlap(b, x)

Free == \E b \in live : live' = live \ {b}

Destroy == live' = {}

Next == Alloc \/ Free \/ Destroy

Spec == Init /\ [][Next]_live
=============================================================================
