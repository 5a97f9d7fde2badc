----------------------------- MODULE RingBuffer -----------------------------
(***************************************************************************)
(* The Ring_Buffer class as a state machine: one action per method that    *)
(* changes it, and the claim that it implements the byte queue of Fifo.    *)
(***************************************************************************)
EXTENDS RingBufferOps

CONSTANTS
    Byte,     \* the bytes callers write
    Sizes,    \* the sizes a caller may choose with set_size
    MaxCall   \* bound: the longest write or read one call asks for

ASSUME SizesAssumption   == Sizes \subseteq Nat \ {0} /\ Sizes # {}
ASSUME JunkAssumption    == Junk \notin Byte
ASSUME MaxCallAssumption == MaxCall \in Nat \ {0}

VARIABLES
    rb,       \* the ring
    reply     \* what the last call returned: a byte count and the bytes

ringVars == <<rb, reply>>

\* Callers never pass an empty buffer: bus.c and busd.c return early on
\* buf_len <= 0, Request.c and Response.c always read len + 2 bytes.
Writable == UNION {[1 .. n -> Byte] : n \in 1 .. MaxCall}

Init ==
    /\ rb \in {NewRing(n) : n \in Sizes}
    /\ reply = [n |-> 0, bytes |-> << >>]

\* rb->write(rb, src, len)
Write(src) ==
    /\ rb'    = RingWrite(rb, src)
    /\ reply' = [n |-> WriteCount(rb, src), bytes |-> << >>]

\* rb->read(rb, dst, len), rb->read_to_string(rb, str, len)
Read(n) ==
    /\ rb'    = RingRead(rb, n)
    /\ reply' = [n |-> ReadCount(rb, n), bytes |-> PeekBytes(rb, n)]

\* rb->read_to_buffer(rb, buffer, len)
ReadToBuffer(n) ==
    /\ rb'    = RingReadToBuffer(rb, n)
    /\ reply' = [n |-> ReadCount(rb, n), bytes |-> PeekBytes(rb, n)]

\* rb->peek(rb, dst, len)
Peek(n) ==
    /\ reply' = [n |-> ReadCount(rb, n), bytes |-> PeekBytes(rb, n)]
    /\ UNCHANGED rb

\* rb->set_size(rb, size): every caller sizes the ring before it uses it.
SetSize(n) ==
    /\ rb.last = "na"
    /\ rb' = RingSetSize(rb, n)
    /\ UNCHANGED reply

Next ==
    \/ \E src \in Writable : Write(src)
    \/ \E n \in 1 .. MaxCall : Read(n) \/ ReadToBuffer(n) \/ Peek(n)
    \/ \E n \in Sizes : SetSize(n)

Spec == Init /\ [][Next]_ringVars

-----------------------------------------------------------------------------
Ring == [size : Sizes, addr : UNION {[0 .. (n - 1) -> Byte \cup {Junk}] : n \in Sizes},
         r_offset : Nat, w_offset : Nat, last : {"na", "write", "read"}]

\* Type invariant: the memory has the ring's size, both offsets point into it,
\* and a caller is only ever handed bytes that some caller wrote.
TypeOK ==
    /\ rb \in Ring
    /\ rb.addr \in [0 .. (rb.size - 1) -> Byte \cup {Junk}]
    /\ rb.r_offset \in 0 .. (rb.size - 1)
    /\ rb.w_offset \in 0 .. (rb.size - 1)
    /\ reply \in [n : Nat, bytes : Seq(Byte)]

\* Between the read and the write offset lie only bytes a caller wrote:
\* no read ever reaches uninitialised memory, whichever of the three flag
\* values and the two wrap branches got us here.
NoJunkReadable == \A k \in 1 .. Readable(rb) : Contents(rb)[k] \in Byte

\* Nothing is pending in a ring never written.
FreshIsEmpty == rb.last = "na" => rb.r_offset = 0 /\ rb.w_offset = 0

\* The length callers are told is the number of bytes they can read.  A ring
\* never used is the exception: __get_len answers its size.
GetLenExact == rb.last # "na" => GetLen(rb) = Readable(rb)

\* __get_needle_offset, with its three memcmp cases, finds the first
\* occurrence in the bytes held, wherever the wrap falls.
NeedleOffsetExact ==
    rb.last # "na" =>
        LET held == Contents(rb)
            At(needle, i) == SubSeq(held, i + 1, i + Len(needle)) = needle
        IN  \A needle \in Writable :
              LET hits == {i \in 0 .. (Len(held) - Len(needle)) : At(needle, i)}
              IN  GetNeedleOffset(rb, needle) =
                    IF hits = {} THEN -1
                    ELSE CHOOSE i \in hits : \A j \in hits : i <= j

\* The ring implements the queue: the bytes between the offsets are the
\* queue, and every method call is a queue operation with the same reply.
Queue == INSTANCE Fifo WITH queue <- Contents(rb), cap <- rb.size, reply <- reply
RefinesFifo == Queue!FifoSpec
=============================================================================
