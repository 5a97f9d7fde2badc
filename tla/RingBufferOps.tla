--------------------------- MODULE RingBufferOps ---------------------------
(***************************************************************************)
(* The arithmetic of src/core/io/Ring_Buffer.c: a byte ring addressed by a *)
(* read offset and a write offset.  Equal offsets mean "empty" or "full";  *)
(* which of the two is decided by the last operation alone, so every       *)
(* operator below branches on last_operation_flag as its C function does.  *)
(*                                                                         *)
(* A ring is a record:                                                     *)
(*   size      the number of bytes at addr                                 *)
(*   addr      the memory, a function from 0..size-1 to bytes              *)
(*   r_offset  where the next read starts                                  *)
(*   w_offset  where the next write starts                                 *)
(*   last      last_operation_flag: "na", "write" or "read"                *)
(* Bytes are opaque; Junk is what malloc left in a byte never written.     *)
(***************************************************************************)
EXTENDS Integers, Sequences

CONSTANT Junk

MinOf(a, b) == IF a > b THEN b ELSE a

\* The memory after memcpy(addr + at, bytes, Len(bytes)).
Copy(addr, at, bytes) ==
    [i \in DOMAIN addr |->
        IF i \in at .. (at + Len(bytes) - 1) THEN bytes[i - at + 1] ELSE addr[i]]

\* The n bytes that memcpy(dst, addr + at, n) delivers.
Slice(addr, at, n) == [k \in 1 .. n |-> addr[at + k - 1]]

\* A ring just constructed and sized: nothing written, no operation yet.
NewRing(n) ==
    [size |-> n, addr |-> [i \in 0 .. (n - 1) |-> Junk],
     r_offset |-> 0, w_offset |-> 0, last |-> "na"]

(***************************************************************************)
(* The lengths the operations compute.                                     *)
(***************************************************************************)

\* Mutant: the flag that tells empty from full is not looked at.
GetLenNoFlag(rb) ==
    IF rb.w_offset > rb.r_offset THEN rb.w_offset - rb.r_offset
    ELSE rb.w_offset - rb.r_offset + rb.size

\* __get_len: the length callers see.
GetLen(rb) ==
    IF rb.w_offset > rb.r_offset THEN rb.w_offset - rb.r_offset
    ELSE IF rb.last = "read" /\ rb.w_offset = rb.r_offset THEN 0
    ELSE rb.w_offset - rb.r_offset + rb.size

\* The length __read, __peek and __read_to_string start from.
Readable(rb) ==
    IF rb.w_offset # rb.r_offset
    THEN (rb.w_offset - rb.r_offset + rb.size) % rb.size
    ELSE IF rb.last # "write" THEN 0 ELSE rb.size

\* The room __write starts from.
Room(rb) ==
    IF rb.w_offset # rb.r_offset
    THEN (rb.r_offset - rb.w_offset + rb.size) % rb.size
    ELSE IF rb.last = "write" THEN 0 ELSE rb.size

(***************************************************************************)
(* The bytes copied, in the one or two pieces of the C code.               *)
(***************************************************************************)

\* The memcpy branches shared by __read, __peek and the read_to functions:
\* one piece, or the tail of the memory followed by its beginning.
FetchBytes(rb, l) ==
    IF rb.w_offset > rb.r_offset \/ l < rb.size - rb.r_offset
    THEN Slice(rb.addr, rb.r_offset, l)
    ELSE Slice(rb.addr, rb.r_offset, rb.size - rb.r_offset)
         \o Slice(rb.addr, 0, l - rb.size + rb.r_offset)

\* Mutant: the copy is one byte short.
StoreBytesShort(rb, src, l) == Copy(rb.addr, rb.w_offset, SubSeq(src, 1, l - 1))

\* The memcpy branches of __write.
StoreBytes(rb, src, l) ==
    IF rb.w_offset + l <= rb.size
    THEN Copy(rb.addr, rb.w_offset, SubSeq(src, 1, l))
    ELSE LET k == rb.size - rb.w_offset
         IN  Copy(Copy(rb.addr, rb.w_offset, SubSeq(src, 1, k)),
                  0, SubSeq(src, k + 1, l))

(***************************************************************************)
(* The operations: the ring after the call, and what the call returns.     *)
(***************************************************************************)

WriteCount(rb, src) == MinOf(Room(rb), Len(src))

\* __write: a full ring is left alone, flag included.
RingWrite(rb, src) ==
    LET l == WriteCount(rb, src)
    IN  IF rb.last = "write" /\ rb.w_offset = rb.r_offset THEN rb
        ELSE [rb EXCEPT !.addr     = StoreBytes(rb, src, l),
                        !.w_offset = (rb.w_offset + l) % rb.size,
                        !.last     = "write"]

ReadCount(rb, n) == MinOf(Readable(rb), n)

\* The bytes __read and __peek hand to the caller.
PeekBytes(rb, n) ==
    IF rb.w_offset = rb.r_offset /\ rb.last # "write" THEN << >>
    ELSE FetchBytes(rb, ReadCount(rb, n))

\* Mutants: the read offset is not wrapped; the flag is not set.
ConsumeNoWrap(rb, l)   == [rb EXCEPT !.r_offset = rb.r_offset + l, !.last = "read"]
ConsumeKeepFlag(rb, l) == [rb EXCEPT !.r_offset = (rb.r_offset + l) % rb.size]

\* The end of __read, __read_to_string and __read_to_buffer.
Consume(rb, l) == [rb EXCEPT !.r_offset = (rb.r_offset + l) % rb.size,
                             !.last     = "read"]

\* __read and __read_to_string: an empty ring is left alone, flag included.
RingRead(rb, n) ==
    IF rb.w_offset = rb.r_offset /\ rb.last # "write" THEN rb
    ELSE Consume(rb, ReadCount(rb, n))

\* __read_to_buffer tests for the "read" flag only, so a ring never used is
\* not left alone: it consumes zero bytes and becomes "read".
RingReadToBuffer(rb, n) ==
    IF rb.w_offset = rb.r_offset /\ rb.last = "read" THEN rb
    ELSE Consume(rb, ReadCount(rb, n))

\* __set_size: new memory when the size differs; the offsets are kept.
RingSetSize(rb, n) ==
    IF n = rb.size THEN rb
    ELSE [rb EXCEPT !.size = n, !.addr = [i \in 0 .. (n - 1) |-> Junk]]

(***************************************************************************)
(* Searching.                                                              *)
(***************************************************************************)

\* One iteration of the loop of __find: does the needle start cnt bytes
\* after the read offset?  Three cases: before the wrap, after it, across it.
FindAt(rb, needle, cnt) ==
    LET at == rb.r_offset + cnt
        n  == Len(needle)
        k  == rb.size - at
    IN  IF at + n <= rb.size THEN Slice(rb.addr, at, n) = needle
        ELSE IF at >= rb.size THEN Slice(rb.addr, at % rb.size, n) = needle
        ELSE /\ Slice(rb.addr, at, k) = SubSeq(needle, 1, k)
             /\ Slice(rb.addr, 0, n - k) = SubSeq(needle, k + 1, n)

\* __find: the address of the first occurrence, -1 for NULL.
Find(rb, needle) ==
    LET hits == {cnt \in 0 .. (GetLen(rb) - Len(needle)) : FindAt(rb, needle, cnt)}
        cnt  == CHOOSE c \in hits : \A d \in hits : c <= d
    IN  IF hits = {} THEN -1
        ELSE (rb.r_offset + cnt) % rb.size

\* Mutant: an occurrence beyond the wrap is not brought back into range.
NeedleOffsetNoWrap(rb, needle) ==
    IF Find(rb, needle) = -1 THEN -1 ELSE Find(rb, needle) - rb.r_offset

\* __get_needle_offset: from an address back to a distance.
GetNeedleOffset(rb, needle) ==
    LET a == Find(rb, needle)
        d == a - rb.r_offset
    IN  IF a = -1 THEN -1
        ELSE IF d > 0 THEN d ELSE (d + rb.size) % rb.size

(***************************************************************************)
(* What the ring is meant to hold: the Readable(rb) bytes found from the   *)
(* read offset onwards, modulo the size.                                   *)
(***************************************************************************)
Contents(rb) ==
    [k \in 1 .. Readable(rb) |-> rb.addr[(rb.r_offset + k - 1) % rb.size]]
============================================================================
