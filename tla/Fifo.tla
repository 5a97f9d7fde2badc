-------------------------------- MODULE Fifo --------------------------------
(***************************************************************************)
(* What a Ring_Buffer promises its callers: a bounded queue of bytes.      *)
(* A write is accepted up to the room there is, a read returns up to the   *)
(* bytes there are, in the order they were written; nothing is invented,   *)
(* lost, duplicated or reordered.                                          *)
(***************************************************************************)
EXTENDS Integers, Sequences

CONSTANTS
    Byte,     \* the bytes callers write
    MaxCall   \* the longest write or read a caller asks for

VARIABLES
    queue,    \* the bytes held, oldest first
    cap,      \* how many fit
    reply     \* what the last call returned: a byte count and the bytes

fifoVars == <<queue, cap, reply>>

Least(a, b) == IF a > b THEN b ELSE a

FifoInit ==
    /\ queue = << >>
    /\ cap \in Nat \ {0}
    /\ reply = [n |-> 0, bytes |-> << >>]

\* A write takes the longest prefix that fits and says how long it was.
Put(src) ==
    LET l == Least(cap - Len(queue), Len(src))
    IN  /\ queue' = queue \o SubSeq(src, 1, l)
        /\ reply' = [n |-> l, bytes |-> << >>]
        /\ UNCHANGED cap

\* A read removes the oldest bytes and hands them over.
Take(n) ==
    LET l == Least(Len(queue), n)
    IN  /\ queue' = SubSeq(queue, l + 1, Len(queue))
        /\ reply' = [n |-> l, bytes |-> SubSeq(queue, 1, l)]
        /\ UNCHANGED cap

\* A peek hands the oldest bytes over and leaves them in place.
Look(n) ==
    LET l == Least(Len(queue), n)
    IN  /\ reply' = [n |-> l, bytes |-> SubSeq(queue, 1, l)]
        /\ UNCHANGED <<queue, cap>>

\* The capacity may change while nothing is held.
Resize ==
    /\ queue = << >>
    /\ cap' \in Nat \ {0}
    /\ UNCHANGED <<queue, reply>>

FifoNext ==
    \/ \E k \in 1 .. MaxCall : \E src \in [1 .. k -> Byte] : Put(src)
    \/ \E n \in 1 .. MaxCall : Take(n) \/ Look(n)
    \/ Resize

FifoSpec == FifoInit /\ [][FifoNext]_fifoVars
=============================================================================
