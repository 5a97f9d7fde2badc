-------------------------- MODULE RingBufferProofs --------------------------
(***************************************************************************)
(* Ring_Buffer is correct for every size, every byte alphabet and every    *)
(* call length: proofs of the properties that RingBuffer.cfg checks on     *)
(* small instances; and what the bus makes of it, BusReceive.              *)
(***************************************************************************)
EXTENDS RingBuffer, BusReceive, SequenceTheorems, WellFoundedInduction, TLAPS

\* A ring whose memory has its size and whose offsets lie in it.
IsRing(r) ==
    /\ r \in Ring
    /\ r.addr \in [0 .. (r.size - 1) -> Byte \cup {Junk}]
    /\ r.r_offset \in 0 .. (r.size - 1)
    /\ r.w_offset \in 0 .. (r.size - 1)

-----------------------------------------------------------------------------
\* Every offset computation of Ring_Buffer.c reduces a sum of two numbers of
\* at most the size modulo the size: it subtracts the size at most once.
LEMMA WrapLow ==
    \A s \in Nat \ {0} : \A x \in 0 .. (s - 1) : x % s = x
  BY Z3

\* The other case: the sum has passed the size, which is subtracted once.
LEMMA WrapHigh ==
    \A s \in Nat \ {0} : \A x \in s .. (2 * s - 1) : x % s = x - s
  BY Z3

\* The fields of a ring, with the facts every later step needs.
LEMMA RingFields ==
    ASSUME NEW r, IsRing(r)
    PROVE  /\ r.size \in Nat \ {0} /\ r.size \in Sizes
           /\ r.addr \in [0 .. (r.size - 1) -> Byte \cup {Junk}]
           /\ r.r_offset \in 0 .. (r.size - 1)
           /\ r.w_offset \in 0 .. (r.size - 1)
           /\ r.last \in {"na", "write", "read"}
  BY SizesAssumption DEF IsRing, Ring

\* The two lengths __read and __write start from always add up to the size.
LEMMA ReadablePlusRoom ==
    ASSUME NEW r, IsRing(r)
    PROVE  /\ Readable(r) \in 0 .. r.size
           /\ Room(r) = r.size - Readable(r)
           /\ r.w_offset > r.r_offset => Readable(r) = r.w_offset - r.r_offset
           /\ r.w_offset < r.r_offset => Readable(r) = r.w_offset - r.r_offset + r.size
           /\ r.w_offset = r.r_offset /\ r.last = "write" => Readable(r) = r.size
           /\ r.w_offset = r.r_offset /\ r.last # "write" => Readable(r) = 0
<1>f. /\ r.size \in Nat \ {0} /\ r.last \in {"na", "write", "read"}
      /\ r.r_offset \in 0 .. (r.size - 1) /\ r.w_offset \in 0 .. (r.size - 1)
  BY RingFields
<1>1. CASE r.w_offset > r.r_offset
  <2>1. (r.w_offset - r.r_offset + r.size) % r.size = r.w_offset - r.r_offset
    <3>1. r.w_offset - r.r_offset + r.size \in r.size .. (2 * r.size - 1)
      BY <1>f, <1>1
    <3> QED BY <1>f, <3>1, WrapHigh
  <2>2. (r.r_offset - r.w_offset + r.size) % r.size = r.r_offset - r.w_offset + r.size
    <3>1. r.r_offset - r.w_offset + r.size \in 0 .. (r.size - 1)
      BY <1>f, <1>1
    <3> QED BY <1>f, <3>1, WrapLow
  <2>3. /\ Readable(r) = r.w_offset - r.r_offset
        /\ Room(r) = r.r_offset - r.w_offset + r.size
    BY <1>f, <1>1, <2>1, <2>2 DEF Readable, Room
  <2> QED BY <1>f, <1>1, <2>3
<1>2. CASE r.w_offset < r.r_offset
  <2>1. (r.w_offset - r.r_offset + r.size) % r.size = r.w_offset - r.r_offset + r.size
    <3>1. r.w_offset - r.r_offset + r.size \in 0 .. (r.size - 1)
      BY <1>f, <1>2
    <3> QED BY <1>f, <3>1, WrapLow
  <2>2. (r.r_offset - r.w_offset + r.size) % r.size = r.r_offset - r.w_offset
    <3>1. r.r_offset - r.w_offset + r.size \in r.size .. (2 * r.size - 1)
      BY <1>f, <1>2
    <3> QED BY <1>f, <3>1, WrapHigh
  <2>3. /\ Readable(r) = r.w_offset - r.r_offset + r.size
        /\ Room(r) = r.r_offset - r.w_offset
    BY <1>f, <1>2, <2>1, <2>2 DEF Readable, Room
  <2> QED BY <1>f, <1>2, <2>3
<1>3. CASE r.w_offset = r.r_offset
  BY <1>f, <1>3 DEF Readable, Room
<1> QED BY <1>f, <1>1, <1>2, <1>3

-----------------------------------------------------------------------------
Memory == Byte \cup {Junk}

\* Where the k-th byte held is found.
Place(r, k) == (r.r_offset + k - 1) % r.size

\* A function on 1 .. n is a sequence of length n.
LEMMA Tabulated ==
    ASSUME NEW S, NEW n \in Nat, NEW f \in [1 .. n -> S]
    PROVE  f \in Seq(S) /\ Len(f) = n
<1>1. f \in Seq(S)
  BY SeqDef
<1> QED BY <1>1, LenProperties

\* The i-th byte held lies i - 1 places behind the read offset, wrapped once.
LEMMA PlaceValue ==
    ASSUME NEW r, IsRing(r), NEW k \in 1 .. r.size
    PROVE  /\ Place(r, k) \in 0 .. (r.size - 1)
           /\ Place(r, k) = IF r.r_offset + k - 1 < r.size
                            THEN r.r_offset + k - 1 ELSE r.r_offset + k - 1 - r.size
<1>f. r.size \in Nat \ {0} /\ r.r_offset \in 0 .. (r.size - 1)
  BY RingFields
<1>1. CASE r.r_offset + k - 1 < r.size
  <2>1. r.r_offset + k - 1 \in 0 .. (r.size - 1)
    BY <1>f, <1>1
  <2> QED BY <1>f, <1>1, <2>1, WrapLow DEF Place
<1>2. CASE ~(r.r_offset + k - 1 < r.size)
  <2>1. r.r_offset + k - 1 \in r.size .. (2 * r.size - 1)
    BY <1>f, <1>2
  <2>2. Place(r, k) = r.r_offset + k - 1 - r.size
    BY <1>f, <2>1, WrapHigh DEF Place
  <2> QED BY <1>f, <1>2, <2>1, <2>2
<1> QED BY <1>1, <1>2

\* What a ring holds, as a sequence.
LEMMA ContentsSeq ==
    ASSUME NEW r, IsRing(r)
    PROVE  /\ Contents(r) \in Seq(Memory)
           /\ Len(Contents(r)) = Readable(r)
           /\ \A k \in 1 .. Readable(r) : Contents(r)[k] = r.addr[Place(r, k)]
<1>1. Readable(r) \in Nat /\ Readable(r) <= r.size /\ r.size \in Nat
  BY ReadablePlusRoom, RingFields
<1>2. \A k \in 1 .. Readable(r) : Place(r, k) \in 0 .. (r.size - 1)
  BY <1>1, PlaceValue
<1>3. Contents(r) = [k \in 1 .. Readable(r) |-> r.addr[Place(r, k)]]
  BY DEF Contents, Place
<1>4. Contents(r) \in [1 .. Readable(r) -> Memory]
  BY <1>2, <1>3, RingFields DEF Memory
<1> QED BY <1>1, <1>3, <1>4, Tabulated

\* A memcpy out of the memory delivers a sequence.
LEMMA SliceSeq ==
    ASSUME NEW r, IsRing(r), NEW at \in Nat, NEW n \in Nat, at + n <= r.size
    PROVE  /\ Slice(r.addr, at, n) \in Seq(Memory)
           /\ Len(Slice(r.addr, at, n)) = n
           /\ \A k \in 1 .. n : Slice(r.addr, at, n)[k] = r.addr[at + k - 1]
<1>1. \A k \in 1 .. n : at + k - 1 \in 0 .. (r.size - 1)
  BY RingFields
<1>2. Slice(r.addr, at, n) \in [1 .. n -> Memory]
  BY <1>1, RingFields DEF Slice, Memory
<1>3. \A k \in 1 .. n : Slice(r.addr, at, n)[k] = r.addr[at + k - 1]
  BY DEF Slice
<1> QED BY <1>2, <1>3, Tabulated

\* The one- or two-piece copy of __read and __peek is the beginning of what
\* the ring holds.
LEMMA FetchIsPrefix ==
    ASSUME NEW r, IsRing(r), NEW l \in 0 .. Readable(r)
    PROVE  FetchBytes(r, l) = SubSeq(Contents(r), 1, l)
<1>f. /\ r.size \in Nat \ {0} /\ r.r_offset \in 0 .. (r.size - 1)
      /\ r.w_offset \in 0 .. (r.size - 1)
      /\ Readable(r) \in 0 .. r.size /\ l \in Nat
      /\ r.w_offset > r.r_offset => Readable(r) = r.w_offset - r.r_offset
  BY RingFields, ReadablePlusRoom
<1>s. /\ SubSeq(Contents(r), 1, l) \in Seq(Memory)
      /\ Len(SubSeq(Contents(r), 1, l)) = l
      /\ \A k \in 1 .. l : SubSeq(Contents(r), 1, l)[k] = r.addr[Place(r, k)]
  <2>1. \A k \in 1 .. l : Contents(r)[k] \in Memory /\ Contents(r)[k] = r.addr[Place(r, k)]
    BY <1>f, ContentsSeq, ElementOfSeq
  <2>2. /\ SubSeq(Contents(r), 1, l) \in Seq(Memory)
        /\ Len(SubSeq(Contents(r), 1, l)) = IF 1 <= l THEN l - 1 + 1 ELSE 0
        /\ \A k \in 1 .. l - 1 + 1 : SubSeq(Contents(r), 1, l)[k] = Contents(r)[1 + k - 1]
    BY <1>f, <2>1, SubSeqProperties
  <2> QED BY <1>f, <2>1, <2>2
<1>p. \A k \in 1 .. l : Place(r, k) = IF r.r_offset + k - 1 < r.size
                            THEN r.r_offset + k - 1 ELSE r.r_offset + k - 1 - r.size
  BY <1>f, PlaceValue
<1>1. CASE r.w_offset > r.r_offset \/ l < r.size - r.r_offset
  <2>1. FetchBytes(r, l) = Slice(r.addr, r.r_offset, l)
    BY <1>1 DEF FetchBytes
  <2>2. r.r_offset + l <= r.size /\ r.r_offset \in Nat /\ l \in Nat
    BY <1>1, <1>f
  <2>3. /\ Slice(r.addr, r.r_offset, l) \in Seq(Memory)
        /\ Len(Slice(r.addr, r.r_offset, l)) = l
        /\ \A k \in 1 .. l : Slice(r.addr, r.r_offset, l)[k] = r.addr[r.r_offset + k - 1]
    BY <2>2, SliceSeq, Zenon
  <2>4. \A k \in 1 .. l : Place(r, k) = r.r_offset + k - 1
    BY <1>f, <1>p, <2>2
  <2> QED BY <1>s, <2>1, <2>3, <2>4, SeqEqual
<1>2. CASE ~(r.w_offset > r.r_offset \/ l < r.size - r.r_offset)
  <2> DEFINE m == r.size - r.r_offset
             A == Slice(r.addr, r.r_offset, m)
             B == Slice(r.addr, 0, l - m)
  <2>1. FetchBytes(r, l) = A \o B
    <3>1. l - r.size + r.r_offset = l - m
      BY <1>f
    <3> QED BY <1>2, <3>1 DEF FetchBytes
  <2>2. /\ r.r_offset \in Nat /\ m \in Nat /\ r.r_offset + m <= r.size
        /\ 0 \in Nat /\ l - m \in Nat /\ 0 + (l - m) <= r.size
    BY <1>2, <1>f
  <2>3. /\ A \in Seq(Memory) /\ Len(A) = m
        /\ \A k \in 1 .. m : A[k] = r.addr[r.r_offset + k - 1]
    BY <2>2, SliceSeq, Zenon
  <2>4. /\ B \in Seq(Memory) /\ Len(B) = l - m
        /\ \A k \in 1 .. (l - m) : B[k] = r.addr[0 + k - 1]
    BY <2>2, SliceSeq, Zenon
  <2>m. m = r.size - r.r_offset
    BY DEF m
  <2> HIDE DEF m, A, B
  <2>5. /\ A \o B \in Seq(Memory) /\ Len(A \o B) = l
        /\ \A k \in 1 .. l : (A \o B)[k] = IF k <= m THEN A[k] ELSE B[k - m]
    <3>1. /\ A \o B \in Seq(Memory) /\ Len(A \o B) = Len(A) + Len(B)
          /\ \A k \in 1 .. Len(A) + Len(B) :
                (A \o B)[k] = IF k <= Len(A) THEN A[k] ELSE B[k - Len(A)]
      BY <2>3, <2>4, ConcatProperties
    <3>2. Len(A) + Len(B) = l
      BY <1>f, <2>2, <2>3, <2>4
    <3> QED BY <2>3, <3>1, <3>2
  <2>6. ASSUME NEW k \in 1 .. l PROVE (A \o B)[k] = r.addr[Place(r, k)]
    <3>1. CASE k <= m
      <4>1. Place(r, k) = r.r_offset + k - 1
        BY <1>f, <1>p, <3>1, <2>m
      <4>2. k \in 1 .. m /\ k \in 1 .. l
        BY <2>2, <3>1
      <4>3. A[k] = r.addr[Place(r, k)]
        BY <2>3, <4>1, <4>2
      <4> QED BY <2>5, <3>1, <4>2, <4>3
    <3>2. CASE ~(k <= m)
      <4>1. Place(r, k) = r.r_offset + k - 1 - r.size
        BY <1>f, <1>p, <3>2, <2>m
      <4>2. k - m \in 1 .. (l - m) /\ 0 + (k - m) - 1 = r.r_offset + k - 1 - r.size
        BY <1>f, <2>2, <3>2, <2>m
      <4>3. B[k - m] = r.addr[Place(r, k)]
        BY <2>4, <4>1, <4>2
      <4> QED BY <1>f, <2>2, <2>5, <3>2, <4>3
    <3> QED BY <3>1, <3>2
  <2> QED BY <1>s, <2>1, <2>5, <2>6, SeqEqual
<1> QED BY <1>1, <1>2

-----------------------------------------------------------------------------
\* Advancing the read offset by l removes the first l bytes held, and nothing
\* else: the case analysis over empty, full and wrapped rings.
LEMMA ConsumeStep ==
    ASSUME NEW r, IsRing(r), NEW l \in 0 .. Readable(r), l > 0 \/ Readable(r) = 0
    PROVE  /\ IsRing(Consume(r, l)) /\ Consume(r, l).size = r.size
           /\ Consume(r, l).last = "read"
           /\ Contents(Consume(r, l)) = SubSeq(Contents(r), l + 1, Len(Contents(r)))
           /\ \A k \in 1 .. Readable(Consume(r, l)) :
                  Contents(Consume(r, l))[k] = Contents(r)[k + l]
           /\ Readable(Consume(r, l)) = Readable(r) - l
<1> DEFINE q == Consume(r, l)
           R == Readable(r)
<1>f. /\ r.size \in Nat \ {0} /\ r.r_offset \in 0 .. (r.size - 1)
      /\ r.w_offset \in 0 .. (r.size - 1) /\ r.size \in Sizes
      /\ R \in 0 .. r.size /\ l \in Nat /\ l <= R
      /\ r.w_offset > r.r_offset => R = r.w_offset - r.r_offset
      /\ r.w_offset < r.r_offset => R = r.w_offset - r.r_offset + r.size
      /\ r.w_offset = r.r_offset => R = r.size \/ R = 0
  BY RingFields, ReadablePlusRoom
<1>1. /\ q.size = r.size /\ q.addr = r.addr /\ q.w_offset = r.w_offset
      /\ q.r_offset = (r.r_offset + l) % r.size /\ q.last = "read"
  BY DEF Consume, IsRing, Ring
<1>2. /\ q.r_offset \in 0 .. (r.size - 1)
      /\ q.r_offset = IF r.r_offset + l < r.size THEN r.r_offset + l
                      ELSE r.r_offset + l - r.size
  <2>1. CASE r.r_offset + l < r.size
    <3>1. r.r_offset + l \in 0 .. (r.size - 1)
      BY <1>f, <2>1
    <3> QED BY <1>f, <1>1, <2>1, <3>1, WrapLow
  <2>2. CASE ~(r.r_offset + l < r.size)
    <3>1. r.r_offset + l \in r.size .. (2 * r.size - 1)
      BY <1>f, <2>2
    <3>2. q.r_offset = r.r_offset + l - r.size
      BY <1>f, <1>1, <3>1, WrapHigh
    <3> QED BY <1>f, <2>2, <3>1, <3>2
  <2> QED BY <2>1, <2>2
<1>3. IsRing(q)
  <2>1. q \in Ring
    <3>1. q.r_offset \in Nat
      BY <1>f, <1>2
    <3>2. q = [r EXCEPT !.r_offset = q.r_offset, !.last = "read"]
      BY <1>1 DEF Consume
    <3> HIDE DEF q
    <3> QED BY <3>1, <3>2 DEF IsRing, Ring
  <2> HIDE DEF q
  <2> QED BY <1>1, <1>2, <1>f, <2>1 DEF IsRing
<1>4. Readable(q) = R - l
  <2>1. /\ q.w_offset > q.r_offset => Readable(q) = q.w_offset - q.r_offset
        /\ q.w_offset < q.r_offset => Readable(q) = q.w_offset - q.r_offset + q.size
        /\ q.w_offset = q.r_offset => Readable(q) = 0
    <3> HIDE DEF q
    <3>1. q.last # "write"
      BY <1>1
    <3> QED BY <1>3, <3>1, ReadablePlusRoom
  <2>2. l > 0 \/ R = 0
    OBVIOUS
  <2> HIDE DEF q, R
  <2>3. CASE r.r_offset + l < r.size
    <3>1. q.r_offset = r.r_offset + l /\ q.w_offset = r.w_offset /\ q.size = r.size
      BY <1>1, <1>2, <2>3
    <3> QED BY <1>f, <2>1, <2>2, <2>3, <3>1
  <2>4. CASE ~(r.r_offset + l < r.size)
    <3>1. q.r_offset = r.r_offset + l - r.size /\ q.w_offset = r.w_offset /\ q.size = r.size
      BY <1>1, <1>2, <2>4
    <3> QED BY <1>f, <2>1, <2>2, <2>4, <3>1
  <2> QED BY <2>3, <2>4
<1>5. ASSUME NEW k \in 1 .. Readable(q)
      PROVE  Contents(q)[k] = Contents(r)[k + l]
  <2>1. k \in 1 .. r.size /\ k + l \in 1 .. r.size /\ k + l \in 1 .. R
    <3> HIDE DEF q, R
    <3> QED BY <1>f, <1>4
  <2>2. Place(r, k + l) = IF r.r_offset + (k + l) - 1 < r.size
                          THEN r.r_offset + (k + l) - 1 ELSE r.r_offset + (k + l) - 1 - r.size
    BY <2>1, PlaceValue
  <2>3. Place(q, k) = IF q.r_offset + k - 1 < q.size
                      THEN q.r_offset + k - 1 ELSE q.r_offset + k - 1 - q.size
    <3> HIDE DEF q
    <3> QED BY <1>1, <1>3, <2>1, PlaceValue
  <2>4. Place(q, k) = Place(r, k + l)
    <3> HIDE DEF q, R
    <3> QED BY <1>f, <1>1, <1>2, <2>1, <2>2, <2>3
  <2>5. Contents(q)[k] = q.addr[Place(q, k)]
    <3> HIDE DEF q
    <3> QED BY <1>3, ContentsSeq
  <2>6. Contents(r)[k + l] = r.addr[Place(r, k + l)]
    BY <2>1, ContentsSeq
  <2> QED BY <1>1, <2>4, <2>5, <2>6
<1>6. Contents(q) = SubSeq(Contents(r), l + 1, Len(Contents(r)))
  <2> HIDE DEF q
  <2>1. /\ Contents(r) \in Seq(Memory) /\ Len(Contents(r)) = R
        /\ Contents(q) \in Seq(Memory) /\ Len(Contents(q)) = R - l
    BY <1>3, <1>4, ContentsSeq
  <2>2. \A i \in l + 1 .. R : Contents(r)[i] \in Memory
    BY <1>f, <2>1, ElementOfSeq
  <2> HIDE DEF R
  <2>3. /\ SubSeq(Contents(r), l + 1, R) \in Seq(Memory)
        /\ Len(SubSeq(Contents(r), l + 1, R)) = IF l + 1 <= R THEN R - (l + 1) + 1 ELSE 0
        /\ \A i \in 1 .. R - (l + 1) + 1 :
              SubSeq(Contents(r), l + 1, R)[i] = Contents(r)[l + 1 + i - 1]
    <3>1. l + 1 \in Int /\ R \in Int
      BY <1>f
    <3> QED BY <2>2, <3>1, SubSeqProperties
  <2>4. Len(SubSeq(Contents(r), l + 1, R)) = R - l
    BY <1>f, <2>3
  <2>5. \A i \in 1 .. R - l : Contents(q)[i] = SubSeq(Contents(r), l + 1, R)[i]
    <3>1. \A i \in 1 .. R - l : Contents(q)[i] = Contents(r)[i + l]
      BY <1>4, <1>5
    <3>2. \A i \in 1 .. R - l : SubSeq(Contents(r), l + 1, R)[i] = Contents(r)[i + l]
      BY <1>f, <2>3
    <3> QED BY <3>1, <3>2
  <2> QED BY <2>1, <2>3, <2>4, <2>5, SeqEqual
<1> QED BY <1>1, <1>3, <1>4, <1>5, <1>6

-----------------------------------------------------------------------------
\* Which byte a memcpy of l bytes leaves at place j.
LEMMA CopiedByte ==
    ASSUME NEW n \in Nat, NEW m \in [0 .. (n - 1) -> Memory], NEW at \in Nat,
           NEW l \in Nat, NEW b, \A i \in 1 .. l : b[i] \in Memory, NEW j \in 0 .. (n - 1)
    PROVE  /\ (IF j \in at .. (at + l - 1) THEN b[j - at + 1] ELSE m[j])
                 = (IF at <= j /\ j < at + l THEN b[j - at + 1] ELSE m[j])
           /\ (IF at <= j /\ j < at + l THEN b[j - at + 1] ELSE m[j]) \in Memory
<1>1. CASE at <= j /\ j < at + l
  <2>1. j - at + 1 \in 1 .. l /\ j \in at .. (at + l - 1)
    BY <1>1
  <2> QED BY <1>1, <2>1
<1>2. CASE ~(at <= j /\ j < at + l)
  <2>1. j \notin at .. (at + l - 1) /\ m[j] \in Memory
    BY <1>2
  <2> QED BY <1>2, <2>1
<1> QED BY <1>1, <1>2

\* A memcpy into the memory.
LEMMA CopyAt ==
    ASSUME NEW n \in Nat, NEW m \in [0 .. (n - 1) -> Memory],
           NEW at \in Nat, NEW b \in Seq(Memory)
    PROVE  /\ Copy(m, at, b) \in [0 .. (n - 1) -> Memory]
           /\ \A j \in 0 .. (n - 1) :
                Copy(m, at, b)[j] = IF at <= j /\ j < at + Len(b) THEN b[j - at + 1] ELSE m[j]
<1>1. DOMAIN m = 0 .. (n - 1) /\ Len(b) \in Nat /\ \A i \in 1 .. Len(b) : b[i] \in Memory
  BY LenProperties, ElementOfSeq
<1>2. \A j \in 0 .. (n - 1) :
             /\ (IF j \in at .. (at + Len(b) - 1) THEN b[j - at + 1] ELSE m[j])
                 = (IF at <= j /\ j < at + Len(b) THEN b[j - at + 1] ELSE m[j])
             /\ (IF at <= j /\ j < at + Len(b) THEN b[j - at + 1] ELSE m[j]) \in Memory
  BY <1>1, CopiedByte
<1>3. Copy(m, at, b) = [j \in 0 .. (n - 1) |->
          IF j \in at .. (at + Len(b) - 1) THEN b[j - at + 1] ELSE m[j]]
  BY <1>1 DEF Copy
<1> QED BY <1>2, <1>3

\* Which piece of a write that wraps covers place j, on bare numbers: s is the
\* size, w the write offset, l the bytes written, k those before the wrap.
LEMMA SplitArithmetic ==
    \A s \in Nat \ {0} : \A w \in 0 .. (s - 1), j \in 0 .. (s - 1) : \A l \in 1 .. s :
      ~(w + l <= s) =>
        /\ j < l - (s - w) =>
              /\ ~(w <= j) /\ j + s < w + l /\ j - 0 + 1 \in 1 .. l - (s - w)
              /\ (s - w) + (j - 0 + 1) = j + s - w + 1
        /\ ~(j < l - (s - w)) /\ w <= j =>
              j < w + l /\ j < w + (s - w) /\ j - w + 1 \in 1 .. (s - w)
        /\ ~(j < l - (s - w)) /\ ~(w <= j) => ~(j + s < w + l)
  OBVIOUS

\* The one- or two-piece copy of __write: the i-th byte goes to the i-th place
\* from the write offset on, past the end of the memory to its beginning.
LEMMA StoreAt ==
    ASSUME NEW r, IsRing(r), NEW src \in Seq(Memory), NEW l \in 1 .. Len(src), l <= r.size
    PROVE  /\ StoreBytes(r, src, l) \in [0 .. (r.size - 1) -> Memory]
           /\ \A j \in 0 .. (r.size - 1) :
                StoreBytes(r, src, l)[j] =
                  IF r.w_offset <= j /\ j < r.w_offset + l THEN src[j - r.w_offset + 1]
                  ELSE IF j + r.size < r.w_offset + l THEN src[j + r.size - r.w_offset + 1]
                  ELSE r.addr[j]
<1>f. /\ r.size \in Nat \ {0} /\ r.w_offset \in 0 .. (r.size - 1) /\ r.w_offset \in Nat
      /\ r.size \in Nat /\ r.addr \in [0 .. (r.size - 1) -> Memory]
      /\ l \in Nat /\ Len(src) \in Nat
  BY RingFields, LenProperties DEF Memory
<1>g. r.size \in Nat /\ r.w_offset \in Nat /\ r.addr \in [0 .. (r.size - 1) -> Memory]
  BY <1>f
<1>s. ASSUME NEW a \in 1 .. (l + 1), NEW c \in 0 .. l, a <= c + 1
      PROVE  /\ SubSeq(src, a, c) \in Seq(Memory)
             /\ Len(SubSeq(src, a, c)) = c - a + 1
             /\ \A i \in 1 .. c - a + 1 : SubSeq(src, a, c)[i] = src[a + i - 1]
  <2>1. \A i \in a .. c : src[i] \in Memory
    <3>1. \A i \in a .. c : i \in 1 .. Len(src)
      BY <1>f
    <3> QED BY <3>1, ElementOfSeq
  <2>2. a \in Int /\ c \in Int
    BY <1>f
  <2>3. /\ SubSeq(src, a, c) \in Seq(Memory)
        /\ Len(SubSeq(src, a, c)) = IF a <= c THEN c - a + 1 ELSE 0
        /\ \A i \in 1 .. c - a + 1 : SubSeq(src, a, c)[i] = src[a + i - 1]
    BY <2>1, <2>2, SubSeqProperties
  <2> QED BY <1>f, <1>s, <2>2, <2>3
<1>1. CASE r.w_offset + l <= r.size
  <2> DEFINE b == SubSeq(src, 1, l)
  <2>1. StoreBytes(r, src, l) = Copy(r.addr, r.w_offset, b)
    BY <1>1 DEF StoreBytes
  <2>2. b \in Seq(Memory) /\ Len(b) = l /\ \A i \in 1 .. l : b[i] = src[i]
    <3>1. 1 \in 1 .. (l + 1) /\ l \in 0 .. l /\ 1 <= l + 1 /\ l - 1 + 1 = l
      BY <1>f
    <3>2. /\ b \in Seq(Memory) /\ Len(b) = l - 1 + 1
          /\ \A i \in 1 .. l - 1 + 1 : b[i] = src[1 + i - 1]
      BY <3>1, <1>s
    <3> QED BY <1>f, <3>1, <3>2
  <2> HIDE DEF b
  <2>b. b \in Seq(Memory)
    BY <2>2
  <2>3. /\ Copy(r.addr, r.w_offset, b) \in [0 .. (r.size - 1) -> Memory]
        /\ \A j \in 0 .. (r.size - 1) :
              Copy(r.addr, r.w_offset, b)[j] =
                IF r.w_offset <= j /\ j < r.w_offset + Len(b)
                THEN b[j - r.w_offset + 1] ELSE r.addr[j]
    BY <1>g, <2>b, CopyAt
  <2>4. ASSUME NEW j \in 0 .. (r.size - 1)
        PROVE  /\ ~(j + r.size < r.w_offset + l)
               /\ r.w_offset <= j /\ j < r.w_offset + l => j - r.w_offset + 1 \in 1 .. l
    BY <1>f, <1>1
  <2> QED BY <2>1, <2>2, <2>3, <2>4
<1>2. CASE ~(r.w_offset + l <= r.size)
  <2> DEFINE k == r.size - r.w_offset
             b == SubSeq(src, 1, k)
             c == SubSeq(src, k + 1, l)
             m == Copy(r.addr, r.w_offset, b)
  <2>1. StoreBytes(r, src, l) = Copy(m, 0, c)
    BY <1>2 DEF StoreBytes
  <2>k. k \in 1 .. l /\ k \in Nat /\ k = r.size - r.w_offset
    BY <1>f, <1>2
  <2>2. b \in Seq(Memory) /\ Len(b) = k /\ \A i \in 1 .. k : b[i] = src[i]
    <3>1. 1 \in 1 .. (l + 1) /\ k \in 0 .. l /\ 1 <= k + 1 /\ k - 1 + 1 = k
      BY <1>f, <2>k
    <3> HIDE DEF k
    <3>2. /\ b \in Seq(Memory) /\ Len(b) = k - 1 + 1
          /\ \A i \in 1 .. k - 1 + 1 : b[i] = src[1 + i - 1]
      BY <3>1, <1>s
    <3> QED BY <2>k, <3>1, <3>2
  <2>3. c \in Seq(Memory) /\ Len(c) = l - k /\ \A i \in 1 .. l - k : c[i] = src[k + i]
    <3>1. k + 1 \in 1 .. (l + 1) /\ l \in 0 .. l /\ k + 1 <= l + 1 /\ l - (k + 1) + 1 = l - k
      BY <1>f, <2>k, SMTT(40)
    <3> HIDE DEF k
    <3>2. /\ c \in Seq(Memory) /\ Len(c) = l - (k + 1) + 1
          /\ \A i \in 1 .. l - (k + 1) + 1 : c[i] = src[(k + 1) + i - 1]
      BY <3>1, <1>s
    <3>3. \A i \in 1 .. l - k : (k + 1) + i - 1 = k + i
      BY <1>f, <2>k
    <3> QED BY <3>1, <3>2, <3>3
  <2>n. Len(b) = k /\ Len(c) = l - k
    BY <2>2, <2>3
  <2> HIDE DEF k, b, c
  <2>b. b \in Seq(Memory)
    BY <2>2
  <2>4. /\ m \in [0 .. (r.size - 1) -> Memory]
        /\ \A j \in 0 .. (r.size - 1) :
              m[j] = IF r.w_offset <= j /\ j < r.w_offset + Len(b)
                     THEN b[j - r.w_offset + 1] ELSE r.addr[j]
    BY <1>g, <2>b, CopyAt DEF m
  <2>z. 0 \in Nat /\ c \in Seq(Memory) /\ m \in [0 .. (r.size - 1) -> Memory]
    BY <2>3, <2>4
  <2> HIDE DEF m
  <2>5. /\ Copy(m, 0, c) \in [0 .. (r.size - 1) -> Memory]
        /\ \A j \in 0 .. (r.size - 1) :
              Copy(m, 0, c)[j] = IF 0 <= j /\ j < 0 + Len(c) THEN c[j - 0 + 1] ELSE m[j]
    BY <1>g, <2>z, CopyAt
  <2>6. ASSUME NEW j \in 0 .. (r.size - 1)
        PROVE  Copy(m, 0, c)[j] =
                  IF r.w_offset <= j /\ j < r.w_offset + l THEN src[j - r.w_offset + 1]
                  ELSE IF j + r.size < r.w_offset + l THEN src[j + r.size - r.w_offset + 1]
                  ELSE r.addr[j]
    <3>a. /\ j < l - k => /\ ~(r.w_offset <= j) /\ j + r.size < r.w_offset + l
                          /\ j - 0 + 1 \in 1 .. l - k
                          /\ k + (j - 0 + 1) = j + r.size - r.w_offset + 1
          /\ ~(j < l - k) /\ r.w_offset <= j =>
                /\ j < r.w_offset + l /\ j < r.w_offset + k
                /\ j - r.w_offset + 1 \in 1 .. k
          /\ ~(j < l - k) /\ ~(r.w_offset <= j) => ~(j + r.size < r.w_offset + l)
      <4>1. l \in 1 .. r.size
        BY <1>f
      <4> QED BY <1>f, <1>2, <4>1, SplitArithmetic, SMTT(40) DEF k
    <3>n. (j < 0 + Len(c)) <=> (j < l - k)
      BY <1>f, <2>k, <2>n
    <3>1. CASE j < l - k
      <4>1. Copy(m, 0, c)[j] = c[j - 0 + 1] /\ c[j - 0 + 1] = src[k + (j - 0 + 1)]
        BY <2>3, <2>5, <3>a, <3>n, <3>1
      <4> QED BY <3>a, <3>1, <4>1
    <3>2. CASE ~(j < l - k) /\ r.w_offset <= j
      <4>1. Copy(m, 0, c)[j] = m[j] /\ m[j] = b[j - r.w_offset + 1]
        BY <2>n, <2>4, <2>5, <3>a, <3>n, <3>2
      <4> QED BY <2>2, <3>a, <3>2, <4>1
    <3>3. CASE ~(j < l - k) /\ ~(r.w_offset <= j)
      <4>1. Copy(m, 0, c)[j] = m[j] /\ m[j] = r.addr[j]
        BY <2>4, <2>5, <3>n, <3>3
      <4> QED BY <3>a, <3>3, <4>1
    <3> QED BY <3>1, <3>2, <3>3
  <2> QED BY <2>1, <2>5, <2>6
<1> QED BY <1>1, <1>2

\* The sources callers pass are non-empty sequences of bytes.
LEMMA WritableSeq ==
    ASSUME NEW src \in Writable
    PROVE  /\ src \in Seq(Byte) /\ src \in Seq(Memory)
           /\ Len(src) \in 1 .. MaxCall
<1>1. PICK n \in 1 .. MaxCall : src \in [1 .. n -> Byte]
  BY DEF Writable
<1>2. n \in Nat
  BY MaxCallAssumption
<1>3. src \in Seq(Byte) /\ Len(src) = n
  BY <1>1, <1>2, Tabulated
<1>4. src \in [1 .. n -> Memory]
  BY <1>1 DEF Memory
<1>5. src \in Seq(Memory)
  BY <1>2, <1>4, Tabulated
<1> QED BY <1>3, <1>5

\* The arithmetic of a write, on bare numbers: s is the size, ro and w the
\* offsets, R the bytes held, l the bytes written and v the new write offset.
LEMMA WriteArithmetic ==
    ASSUME NEW s \in Nat \ {0}, NEW ro \in 0 .. (s - 1), NEW w \in 0 .. (s - 1),
           NEW R \in 0 .. (s - 1), ro + R = w \/ ro + R = w + s,
           NEW l \in 1 .. (s - R),
           NEW v \in Int, v = IF w + l < s THEN w + l ELSE w + l - s
    PROVE  /\ v \in 0 .. (s - 1)
           /\ v > ro => v - ro = R + l
           /\ v < ro => v - ro + s = R + l
           /\ v = ro => s = R + l
           /\ \A k \in 1 .. R, p \in Int :
                p = (IF ro + k - 1 < s THEN ro + k - 1 ELSE ro + k - 1 - s)
                => ~(w <= p /\ p < w + l) /\ ~(p + s < w + l)
           /\ \A i \in 1 .. l, p \in Int :
                p = (IF ro + (R + i) - 1 < s THEN ro + (R + i) - 1 ELSE ro + (R + i) - 1 - s)
                => \/ w <= p /\ p < w + l /\ p - w + 1 = i
                   \/ ~(w <= p /\ p < w + l) /\ p + s < w + l /\ p + s - w + 1 = i
<1>1. CASE w + l < s
  BY <1>1
<1>2. CASE ~(w + l < s)
  BY <1>2
<1> QED BY <1>1, <1>2

\* __write appends the bytes it accepts to what the ring held and disturbs
\* none of the bytes held before.
LEMMA WriteStep ==
    ASSUME NEW r, IsRing(r), NEW src \in Writable
    PROVE  /\ IsRing(RingWrite(r, src)) /\ RingWrite(r, src).size = r.size
           /\ RingWrite(r, src).last # "na"
           /\ Readable(RingWrite(r, src)) = Readable(r) + WriteCount(r, src)
           /\ WriteCount(r, src) \in 0 .. Len(src)
           /\ \A k \in 1 .. Readable(r) :
                  Contents(RingWrite(r, src))[k] = Contents(r)[k]
           /\ \A i \in 1 .. WriteCount(r, src) :
                  Contents(RingWrite(r, src))[Readable(r) + i] = src[i]
<1> DEFINE q == RingWrite(r, src)
           R == Readable(r)
           l == WriteCount(r, src)
<1>f. /\ r.size \in Nat \ {0} /\ r.r_offset \in 0 .. (r.size - 1)
      /\ r.w_offset \in 0 .. (r.size - 1) /\ r.last \in {"na", "write", "read"}
      /\ R \in 0 .. r.size /\ Room(r) = r.size - R
      /\ r.w_offset > r.r_offset => R = r.w_offset - r.r_offset
      /\ r.w_offset < r.r_offset => R = r.w_offset - r.r_offset + r.size
      /\ r.w_offset = r.r_offset /\ r.last = "write" => R = r.size
      /\ r.w_offset = r.r_offset /\ r.last # "write" => R = 0
  BY RingFields, ReadablePlusRoom
<1>s. src \in Seq(Memory) /\ Len(src) \in Nat \ {0}
  BY WritableSeq, MaxCallAssumption
<1>n. /\ r.size \in Nat \ {0} /\ r.r_offset \in 0 .. (r.size - 1)
      /\ r.w_offset \in 0 .. (r.size - 1) /\ R \in 0 .. r.size
  BY <1>f
<1>l. /\ l = IF r.size - R > Len(src) THEN Len(src) ELSE r.size - R
      /\ l \in Nat /\ l \in 0 .. Len(src) /\ l + R <= r.size
  <2>1. l = IF r.size - R > Len(src) THEN Len(src) ELSE r.size - R
    BY <1>f DEF WriteCount, MinOf
  <2> HIDE DEF l, R
  <2> QED BY <1>n, <1>s, <2>1
<1>1. CASE r.last = "write" /\ r.w_offset = r.r_offset
  <2>1. q = r /\ R = r.size /\ l = 0
    BY <1>1, <1>f, <1>s, <1>l DEF RingWrite
  <2> QED BY <1>1, <1>f, <1>s, <2>1
<1>2. CASE ~(r.last = "write" /\ r.w_offset = r.r_offset)
  <2> HIDE DEF R, l
  <2>g. /\ R < r.size
        /\ r.r_offset + R = r.w_offset \/ r.r_offset + R = r.w_offset + r.size
    <3>1. CASE r.w_offset > r.r_offset
      BY <1>f, <3>1
    <3>2. CASE r.w_offset < r.r_offset
      BY <1>f, <3>2
    <3>3. CASE r.w_offset = r.r_offset
      BY <1>2, <1>f, <3>3
    <3> QED BY <1>n, <3>1, <3>2, <3>3
  <2>1. l \in 1 .. Len(src) /\ l <= r.size /\ l \in Nat \ {0}
    BY <2>g, <1>n, <1>s, <1>l
  <2>2. /\ q.size = r.size /\ q.r_offset = r.r_offset /\ q.last = "write"
        /\ q.addr = StoreBytes(r, src, l) /\ q.w_offset = (r.w_offset + l) % r.size
    BY <1>2 DEF RingWrite, l, IsRing, Ring
  <2>a. l \in 1 .. (r.size - R) /\ R \in 0 .. (r.size - 1)
    BY <1>n, <1>l, <2>1, <2>g
  <2>3. /\ q.w_offset \in Int
        /\ q.w_offset = IF r.w_offset + l < r.size THEN r.w_offset + l
                        ELSE r.w_offset + l - r.size
    <3> DEFINE x == r.w_offset + l
    <3>1. x \in 0 .. (r.size - 1) \/ x \in r.size .. (2 * r.size - 1)
      BY <1>n, <2>1, SMTT(40)
    <3>2. q.w_offset = x % r.size
      BY <2>2
    <3> HIDE DEF x, q
    <3>3. ASSUME x \in 0 .. (r.size - 1)
          PROVE  q.w_offset \in Int /\ q.w_offset = IF x < r.size THEN x ELSE x - r.size
      <4>1. q.w_offset = x /\ x < r.size /\ x \in Int
        BY <1>n, <3>2, <3>3, WrapLow
      <4> QED BY <4>1
    <3>4. ASSUME x \in r.size .. (2 * r.size - 1)
          PROVE  q.w_offset \in Int /\ q.w_offset = IF x < r.size THEN x ELSE x - r.size
      <4>1. q.w_offset = x - r.size /\ ~(x < r.size) /\ x \in Int /\ x - r.size \in Int
        BY <1>n, <3>2, <3>4, WrapHigh
      <4> QED BY <4>1
    <3>5. q.w_offset \in Int /\ q.w_offset = IF x < r.size THEN x ELSE x - r.size
      BY <3>1, <3>3, <3>4
    <3> QED BY <1>n, <2>1, <3>5 DEF x
  <2>w. /\ q.w_offset \in 0 .. (r.size - 1)
        /\ q.w_offset > r.r_offset => q.w_offset - r.r_offset = R + l
        /\ q.w_offset < r.r_offset => q.w_offset - r.r_offset + r.size = R + l
        /\ q.w_offset = r.r_offset => r.size = R + l
        /\ \A k \in 1 .. R, p \in Int :
             p = (IF r.r_offset + k - 1 < r.size THEN r.r_offset + k - 1
                  ELSE r.r_offset + k - 1 - r.size)
             => /\ ~(r.w_offset <= p /\ p < r.w_offset + l)
                /\ ~(p + r.size < r.w_offset + l)
        /\ \A i \in 1 .. l, p \in Int :
             p = (IF r.r_offset + (R + i) - 1 < r.size THEN r.r_offset + (R + i) - 1
                  ELSE r.r_offset + (R + i) - 1 - r.size)
             => \/ r.w_offset <= p /\ p < r.w_offset + l /\ p - r.w_offset + 1 = i
                \/ /\ ~(r.w_offset <= p /\ p < r.w_offset + l)
                   /\ p + r.size < r.w_offset + l /\ p + r.size - r.w_offset + 1 = i
    <3> HIDE DEF q
    <3> QED BY <1>n, <2>g, <2>a, <2>3, WriteArithmetic, SMTT(40)
  <2>4. /\ q.addr \in [0 .. (r.size - 1) -> Memory]
        /\ \A j \in 0 .. (r.size - 1) :
             q.addr[j] = IF r.w_offset <= j /\ j < r.w_offset + l THEN src[j - r.w_offset + 1]
                         ELSE IF j + r.size < r.w_offset + l THEN src[j + r.size - r.w_offset + 1]
                         ELSE r.addr[j]
    <3> HIDE DEF q
    <3> QED BY <1>s, <2>1, <2>2, StoreAt
  <2>5. IsRing(q)
    <3>1. q = [r EXCEPT !.addr = q.addr, !.w_offset = q.w_offset, !.last = "write"]
      BY <1>2, <2>2 DEF RingWrite, l
    <3>2. /\ q.w_offset \in Nat /\ r.size \in Sizes
          /\ q.addr \in UNION {[0 .. (n - 1) -> Byte \cup {Junk}] : n \in Sizes}
      BY <1>n, <2>w, <2>4, RingFields DEF Memory
    <3> HIDE DEF q
    <3>3. q \in Ring
      BY <3>1, <3>2 DEF IsRing, Ring
    <3> QED BY <1>n, <2>2, <2>w, <2>4, <3>3 DEF IsRing, Memory
  <2> HIDE DEF q
  <2>6. Readable(q) = R + l
    <3>1. /\ q.w_offset > q.r_offset => Readable(q) = q.w_offset - q.r_offset
          /\ q.w_offset < q.r_offset => Readable(q) = q.w_offset - q.r_offset + q.size
          /\ q.w_offset = q.r_offset => Readable(q) = q.size
      BY <2>2, <2>5, ReadablePlusRoom
    <3>2. q.w_offset \in Int /\ r.r_offset \in Int
      BY <1>n, <2>w
    <3> QED BY <2>2, <2>w, <3>1, <3>2
  <2>7. \A k \in 1 .. R + l : Contents(q)[k] = q.addr[Place(r, k)]
    <3>1. \A k \in 1 .. R + l : Contents(q)[k] = q.addr[Place(q, k)]
      BY <2>5, <2>6, ContentsSeq
    <3>2. \A k \in 1 .. R + l : Place(q, k) = Place(r, k)
      BY <2>2 DEF Place
    <3> QED BY <3>1, <3>2
  <2>8. \A k \in 1 .. R + l :
           /\ Place(r, k) \in 0 .. (r.size - 1)
           /\ Place(r, k) = IF r.r_offset + k - 1 < r.size
                            THEN r.r_offset + k - 1 ELSE r.r_offset + k - 1 - r.size
    <3>1. \A k \in 1 .. R + l : k \in 1 .. r.size
      BY <1>f, <1>l
    <3> QED BY <3>1, PlaceValue
  <2>9. ASSUME NEW k \in 1 .. R PROVE Contents(q)[k] = Contents(r)[k]
    <3>1. k \in 1 .. R + l
      BY <1>f, <1>l
    <3>2. /\ ~(r.w_offset <= Place(r, k) /\ Place(r, k) < r.w_offset + l)
          /\ ~(Place(r, k) + r.size < r.w_offset + l)
      <4>1. /\ Place(r, k) \in Int
            /\ Place(r, k) = IF r.r_offset + k - 1 < r.size
                            THEN r.r_offset + k - 1 ELSE r.r_offset + k - 1 - r.size
        BY <2>8, <3>1
      <4> QED BY <2>w, <4>1
    <3>3. q.addr[Place(r, k)] = r.addr[Place(r, k)]
      BY <2>4, <2>8, <3>1, <3>2
    <3>4. Contents(r)[k] = r.addr[Place(r, k)]
      BY ContentsSeq DEF R
    <3> QED BY <2>7, <3>1, <3>3, <3>4
  <2>10. ASSUME NEW i \in 1 .. l PROVE Contents(q)[R + i] = src[i]
    <3>1. R + i \in 1 .. R + l /\ i \in Nat /\ R \in Nat
      BY <1>f, <1>l
    <3>2. /\ Place(r, R + i) \in 0 .. (r.size - 1)
          /\ Place(r, R + i) = IF r.r_offset + (R + i) - 1 < r.size
               THEN r.r_offset + (R + i) - 1 ELSE r.r_offset + (R + i) - 1 - r.size
      BY <2>8, <3>1
    <3> DEFINE p == Place(r, R + i)
    <3>3. \/ r.w_offset <= p /\ p < r.w_offset + l /\ p - r.w_offset + 1 = i
          \/ /\ ~(r.w_offset <= p /\ p < r.w_offset + l)
             /\ p + r.size < r.w_offset + l /\ p + r.size - r.w_offset + 1 = i
      <4>1. p \in Int
        BY <3>2
      <4> QED BY <2>w, <3>2, <4>1
    <3>4. Contents(q)[R + i] = q.addr[p]
      BY <2>7, <3>1
    <3>5. q.addr[p] = IF r.w_offset <= p /\ p < r.w_offset + l THEN src[p - r.w_offset + 1]
                      ELSE IF p + r.size < r.w_offset + l THEN src[p + r.size - r.w_offset + 1]
                      ELSE r.addr[p]
      BY <2>4, <3>2
    <3> HIDE DEF p
    <3> QED BY <3>3, <3>4, <3>5
  <2>11. q.last # "na"
    BY <2>2
  <2> QED BY <1>l, <2>2, <2>5, <2>6, <2>9, <2>10, <2>11 DEF q, R, l
<1> QED BY <1>1, <1>2

-----------------------------------------------------------------------------
(***************************************************************************)
(* The operations in the terms of Fifo.                                    *)
(***************************************************************************)

OnlyBytes(r) == \A k \in 1 .. Readable(r) : Contents(r)[k] \in Byte

\* What __write does to a queue.
LEMMA WriteIsPut ==
    ASSUME NEW r, IsRing(r), NEW src \in Writable
    PROVE  /\ WriteCount(r, src) = MinOf(r.size - Len(Contents(r)), Len(src))
           /\ Contents(RingWrite(r, src)) =
                 Contents(r) \o SubSeq(src, 1, WriteCount(r, src))
<1> DEFINE q == RingWrite(r, src)
           l == WriteCount(r, src)
           t == SubSeq(src, 1, l)
<1>1. /\ IsRing(q) /\ Readable(q) = Readable(r) + l /\ l \in 0 .. Len(src)
      /\ \A k \in 1 .. Readable(r) : Contents(q)[k] = Contents(r)[k]
      /\ \A i \in 1 .. l : Contents(q)[Readable(r) + i] = src[i]
  BY WriteStep
<1>2. /\ Contents(r) \in Seq(Memory) /\ Len(Contents(r)) = Readable(r)
      /\ Readable(r) \in Nat /\ Room(r) = r.size - Readable(r)
  BY ContentsSeq, ReadablePlusRoom, RingFields
<1>3. src \in Seq(Memory) /\ Len(src) \in Nat
  BY WritableSeq, LenProperties
<1>4. WriteCount(r, src) = MinOf(r.size - Len(Contents(r)), Len(src))
  BY <1>2 DEF WriteCount
<1> HIDE DEF q, l
<1>5. Contents(q) \in Seq(Memory) /\ Len(Contents(q)) = Readable(r) + l /\ l \in Nat
  BY <1>1, <1>3, ContentsSeq
<1>6. t \in Seq(Memory) /\ Len(t) = l /\ \A i \in 1 .. l : t[i] = src[i]
  <2>1. \A i \in 1 .. l : src[i] \in Memory
    BY <1>1, <1>3, ElementOfSeq
  <2>2. /\ t \in Seq(Memory) /\ Len(t) = IF 1 <= l THEN l - 1 + 1 ELSE 0
        /\ \A i \in 1 .. l - 1 + 1 : t[i] = src[1 + i - 1]
    BY <1>5, <2>1, SubSeqProperties
  <2> QED BY <1>5, <2>2
<1> HIDE DEF t
<1>7. /\ Contents(r) \o t \in Seq(Memory) /\ Len(Contents(r) \o t) = Readable(r) + l
      /\ \A i \in 1 .. Readable(r) + l : (Contents(r) \o t)[i] =
            IF i <= Readable(r) THEN Contents(r)[i] ELSE t[i - Readable(r)]
  <2>1. /\ Contents(r) \o t \in Seq(Memory)
        /\ Len(Contents(r) \o t) = Len(Contents(r)) + Len(t)
        /\ \A i \in 1 .. Len(Contents(r)) + Len(t) : (Contents(r) \o t)[i] =
              IF i <= Len(Contents(r)) THEN Contents(r)[i] ELSE t[i - Len(Contents(r))]
    BY <1>2, <1>6, ConcatProperties
  <2> QED BY <1>2, <1>6, <2>1
<1>8. ASSUME NEW i \in 1 .. Readable(r) + l
      PROVE  Contents(q)[i] = (Contents(r) \o t)[i]
  <2>1. CASE i <= Readable(r)
    BY <1>1, <1>2, <1>5, <1>7, <2>1
  <2>2. CASE ~(i <= Readable(r))
    <3>1. i - Readable(r) \in 1 .. l /\ Readable(r) + (i - Readable(r)) = i
      BY <1>2, <1>5, <2>2
    <3>2. Contents(q)[i] = src[i - Readable(r)]
      BY <1>1, <3>1
    <3> QED BY <1>6, <1>7, <2>2, <3>1, <3>2
  <2> QED BY <2>1, <2>2
<1>9. Contents(q) = Contents(r) \o t
  BY <1>5, <1>7, <1>8, SeqEqual
<1> QED BY <1>4, <1>9 DEF q, l, t

\* What __read, __read_to_buffer and __peek do to a queue.
LEMMA ReadIsTake ==
    ASSUME NEW r, IsRing(r), NEW n \in 1 .. MaxCall
    PROVE  LET l == ReadCount(r, n)
           IN  /\ l = MinOf(Len(Contents(r)), n) /\ l \in 0 .. Readable(r)
               /\ PeekBytes(r, n) = SubSeq(Contents(r), 1, l)
               /\ IsRing(RingRead(r, n)) /\ RingRead(r, n).size = r.size
               /\ Contents(RingRead(r, n)) = SubSeq(Contents(r), l + 1, Len(Contents(r)))
               /\ RingRead(r, n).last = "na" => RingRead(r, n) = r
               /\ IsRing(RingReadToBuffer(r, n)) /\ RingReadToBuffer(r, n).size = r.size
               /\ Contents(RingReadToBuffer(r, n)) =
                     SubSeq(Contents(r), l + 1, Len(Contents(r)))
               /\ RingReadToBuffer(r, n).last # "na"
<1> DEFINE l == ReadCount(r, n)
<1>1. /\ Contents(r) \in Seq(Memory) /\ Len(Contents(r)) = Readable(r)
      /\ Readable(r) \in Nat /\ n \in Nat \ {0}
      /\ r.w_offset = r.r_offset /\ r.last # "write" => Readable(r) = 0
  BY ContentsSeq, ReadablePlusRoom, RingFields, MaxCallAssumption
<1>2. /\ l = MinOf(Readable(r), n) /\ l \in 0 .. Readable(r)
      /\ l > 0 \/ Readable(r) = 0
  BY <1>1 DEF ReadCount, MinOf
<1> HIDE DEF l
<1>3. FetchBytes(r, l) = SubSeq(Contents(r), 1, l)
  BY <1>2, FetchIsPrefix
<1>4. /\ IsRing(Consume(r, l)) /\ Consume(r, l).size = r.size
      /\ Consume(r, l).last = "read"
      /\ Contents(Consume(r, l)) = SubSeq(Contents(r), l + 1, Len(Contents(r)))
  BY <1>2, ConsumeStep
<1>5. ASSUME Readable(r) = 0
      PROVE  /\ l = 0 /\ SubSeq(Contents(r), 1, l) = << >>
             /\ SubSeq(Contents(r), l + 1, Len(Contents(r))) = Contents(r)
  <2>1. l = 0
    BY <1>2, <1>5
  <2>2. Contents(r) = << >>
    BY <1>1, <1>5, EmptySeq, SeqEqual
  <2>3. SubSeq(Contents(r), 1, 0) = << >> /\ SubSeq(Contents(r), 0 + 1, 0) = << >>
    BY SubSeqEmpty
  <2> QED BY <1>1, <1>5, <2>1, <2>2, <2>3
<1>6. PeekBytes(r, n) = SubSeq(Contents(r), 1, l)
  BY <1>1, <1>3, <1>5 DEF PeekBytes, l
<1>7. /\ IsRing(RingRead(r, n)) /\ RingRead(r, n).size = r.size
      /\ Contents(RingRead(r, n)) = SubSeq(Contents(r), l + 1, Len(Contents(r)))
      /\ RingRead(r, n).last = "na" => RingRead(r, n) = r
  <2>1. CASE r.w_offset = r.r_offset /\ r.last # "write"
    <3>1. RingRead(r, n) = r
      BY <2>1 DEF RingRead
    <3> QED BY <1>1, <1>5, <2>1, <3>1
  <2>2. CASE ~(r.w_offset = r.r_offset /\ r.last # "write")
    <3>1. RingRead(r, n) = Consume(r, l)
      BY <2>2 DEF RingRead, l
    <3> QED BY <1>4, <3>1
  <2> QED BY <2>1, <2>2
<1>8. /\ IsRing(RingReadToBuffer(r, n)) /\ RingReadToBuffer(r, n).size = r.size
      /\ Contents(RingReadToBuffer(r, n)) = SubSeq(Contents(r), l + 1, Len(Contents(r)))
      /\ RingReadToBuffer(r, n).last # "na"
  <2>1. CASE r.w_offset = r.r_offset /\ r.last = "read"
    <3>1. RingReadToBuffer(r, n) = r
      BY <2>1 DEF RingReadToBuffer
    <3> QED BY <1>1, <1>5, <2>1, <3>1
  <2>2. CASE ~(r.w_offset = r.r_offset /\ r.last = "read")
    <3>1. RingReadToBuffer(r, n) = Consume(r, l)
      BY <2>2 DEF RingReadToBuffer, l
    <3> QED BY <1>4, <3>1
  <2> QED BY <2>1, <2>2
<1> QED BY <1>1, <1>2, <1>6, <1>7, <1>8 DEF l

-----------------------------------------------------------------------------
(***************************************************************************)
(* The theorems.                                                           *)
(***************************************************************************)

\* The inductive invariant.  That a ring holds only written bytes is not
\* inductive alone: a set_size gives the ring uninitialised memory, which is
\* harmless only because the ring is still unused and its offsets equal.
IInv == TypeOK /\ FreshIsEmpty /\ NoJunkReadable

\* The type invariant in the form the lemmas about rings use.
LEMMA TypeOKIsRing == TypeOK <=> IsRing(rb) /\ reply \in [n : Nat, bytes : Seq(Byte)]
  BY DEF TypeOK, IsRing

\* A ring that holds only bytes hands out only bytes.
LEMMA PrefixOfBytes ==
    ASSUME NEW r, IsRing(r), OnlyBytes(r), NEW l \in 0 .. Readable(r)
    PROVE  SubSeq(Contents(r), 1, l) \in Seq(Byte)
<1>1. Readable(r) \in Nat /\ l \in Int /\ 1 \in Int
  BY ReadablePlusRoom, RingFields
<1>2. \A i \in 1 .. l : Contents(r)[i] \in Byte
  BY <1>1 DEF OnlyBytes
<1> QED BY <1>1, <1>2, SubSeqProperties

\* A read leaves only bytes behind.
LEMMA SuffixOfBytes ==
    ASSUME NEW r, IsRing(r), OnlyBytes(r), NEW q, IsRing(q), NEW l \in 0 .. Readable(r),
           Contents(q) = SubSeq(Contents(r), l + 1, Len(Contents(r)))
    PROVE  OnlyBytes(q)
<1>1. /\ Readable(r) \in Nat /\ l \in Nat /\ Len(Contents(r)) = Readable(r)
      /\ Len(Contents(q)) = Readable(q)
  BY ReadablePlusRoom, RingFields, ContentsSeq
<1>2. \A i \in l + 1 .. Readable(r) : Contents(r)[i] \in Byte
  BY <1>1 DEF OnlyBytes
<1>3. Contents(q) \in Seq(Byte)
  BY <1>1, <1>2, SubSeqProperties
<1> QED BY <1>1, <1>3, ElementOfSeq DEF OnlyBytes

\* __construct makes an empty ring in range.
LEMMA FreshRing ==
    ASSUME NEW n \in Sizes
    PROVE  /\ IsRing(NewRing(n)) /\ NewRing(n).size = n /\ Readable(NewRing(n)) = 0
           /\ NewRing(n).last = "na" /\ NewRing(n).r_offset = 0 /\ NewRing(n).w_offset = 0
<1>1. n \in Nat \ {0}
  BY SizesAssumption
<1>2. /\ NewRing(n).size = n /\ NewRing(n).addr = [i \in 0 .. (n - 1) |-> Junk]
      /\ NewRing(n).r_offset = 0 /\ NewRing(n).w_offset = 0 /\ NewRing(n).last = "na"
  BY DEF NewRing
<1>3. [i \in 0 .. (n - 1) |-> Junk] \in [0 .. (n - 1) -> Byte \cup {Junk}]
  OBVIOUS
<1>4. NewRing(n) \in Ring
  BY <1>1, <1>3 DEF NewRing, Ring
<1>5. IsRing(NewRing(n))
  BY <1>1, <1>2, <1>3, <1>4 DEF IsRing
<1> QED BY <1>2, <1>5, ReadablePlusRoom

\* Resizing an unused ring makes a new unused ring.
LEMMA ResizeFresh ==
    ASSUME NEW r, IsRing(r), r.last = "na", r.r_offset = 0, r.w_offset = 0, NEW n \in Sizes
    PROVE  /\ IsRing(RingSetSize(r, n)) /\ RingSetSize(r, n).size = n
           /\ Readable(RingSetSize(r, n)) = 0 /\ RingSetSize(r, n).last = "na"
           /\ RingSetSize(r, n).r_offset = 0 /\ RingSetSize(r, n).w_offset = 0
<1>1. CASE n = r.size
  <2>1. RingSetSize(r, n) = r
    BY <1>1 DEF RingSetSize
  <2> QED BY <1>1, <2>1, ReadablePlusRoom
<1>2. CASE n # r.size
  <2>1. RingSetSize(r, n) = NewRing(n)
    BY <1>2 DEF RingSetSize, NewRing, IsRing, Ring
  <2> QED BY <2>1, FreshRing
<1> QED BY <1>1, <1>2

\* Every call of Ring_Buffer.c preserves the inductive invariant.
THEOREM Inductive == Spec => []IInv
<1>1. Init => IInv
  <2> SUFFICES ASSUME Init PROVE IInv
    OBVIOUS
  <2>1. PICK n \in Sizes : rb = NewRing(n)
    BY DEF Init
  <2>2. /\ IsRing(rb) /\ Readable(rb) = 0 /\ rb.r_offset = 0 /\ rb.w_offset = 0
    BY <2>1, FreshRing
  <2>3. reply \in [n : Nat, bytes : Seq(Byte)]
    BY EmptySeq DEF Init
  <2>4. NoJunkReadable
    BY <2>2 DEF NoJunkReadable
  <2> QED BY <2>2, <2>3, <2>4, TypeOKIsRing DEF IInv, FreshIsEmpty
<1>2. IInv /\ [Next]_ringVars => IInv'
  <2> SUFFICES ASSUME IInv, [Next]_ringVars PROVE IInv'
    OBVIOUS
  <2>i. /\ IsRing(rb) /\ OnlyBytes(rb) /\ FreshIsEmpty
        /\ reply \in [n : Nat, bytes : Seq(Byte)]
    BY TypeOKIsRing DEF IInv, NoJunkReadable, OnlyBytes
  <2>s. SUFFICES /\ IsRing(rb') /\ OnlyBytes(rb')
                 /\ rb'.last = "na" => rb'.r_offset = 0 /\ rb'.w_offset = 0
                 /\ reply' \in [n : Nat, bytes : Seq(Byte)]
    BY DEF IInv, TypeOK, FreshIsEmpty, NoJunkReadable, IsRing, OnlyBytes, Contents,
           Readable, Ring
  <2>1. ASSUME NEW src \in Writable, Write(src)
        PROVE  /\ IsRing(rb') /\ OnlyBytes(rb')
               /\ rb'.last = "na" => rb'.r_offset = 0 /\ rb'.w_offset = 0
               /\ reply' \in [n : Nat, bytes : Seq(Byte)]
    <3>1. rb' = RingWrite(rb, src) /\ reply' = [n |-> WriteCount(rb, src), bytes |-> << >>]
      BY <2>1 DEF Write
    <3>2. /\ IsRing(rb') /\ rb'.last # "na" /\ WriteCount(rb, src) \in 0 .. Len(src)
          /\ Readable(rb') = Readable(rb) + WriteCount(rb, src)
          /\ \A k \in 1 .. Readable(rb) : Contents(rb')[k] = Contents(rb)[k]
          /\ \A i \in 1 .. WriteCount(rb, src) : Contents(rb')[Readable(rb) + i] = src[i]
      BY <2>i, <3>1, WriteStep
    <3>3. src \in Seq(Byte) /\ Len(src) \in Nat /\ Readable(rb) \in Nat
      BY <2>i, WritableSeq, LenProperties, ReadablePlusRoom, RingFields
    <3>4. WriteCount(rb, src) \in Nat
      BY <3>2, <3>3
    <3>5. ASSUME NEW k \in 1 .. Readable(rb') PROVE Contents(rb')[k] \in Byte
      <4>1. CASE k <= Readable(rb)
        BY <2>i, <3>2, <3>3, <3>4, <4>1 DEF OnlyBytes
      <4>2. CASE ~(k <= Readable(rb))
        <5> DEFINE i == k - Readable(rb)
        <5>1. i \in 1 .. WriteCount(rb, src) /\ Readable(rb) + i = k /\ i \in 1 .. Len(src)
          BY <3>2, <3>3, <3>4, <4>2
        <5>2. src[i] \in Byte
          BY <3>3, <5>1, ElementOfSeq
        <5> HIDE DEF i
        <5> QED BY <3>2, <5>1, <5>2
      <4> QED BY <4>1, <4>2
    <3>6. reply' \in [n : Nat, bytes : Seq(Byte)]
      BY <3>1, <3>4, EmptySeq
    <3> QED BY <3>2, <3>5, <3>6 DEF OnlyBytes
  <2>2. ASSUME NEW n \in 1 .. MaxCall, Read(n) \/ ReadToBuffer(n) \/ Peek(n)
        PROVE  /\ IsRing(rb') /\ OnlyBytes(rb')
               /\ rb'.last = "na" => rb'.r_offset = 0 /\ rb'.w_offset = 0
               /\ reply' \in [n : Nat, bytes : Seq(Byte)]
    <3> DEFINE l == ReadCount(rb, n)
    <3>1. /\ l \in 0 .. Readable(rb)
          /\ PeekBytes(rb, n) = SubSeq(Contents(rb), 1, l)
          /\ IsRing(RingRead(rb, n))
          /\ Contents(RingRead(rb, n)) = SubSeq(Contents(rb), l + 1, Len(Contents(rb)))
          /\ RingRead(rb, n).last = "na" => RingRead(rb, n) = rb
          /\ IsRing(RingReadToBuffer(rb, n))
          /\ Contents(RingReadToBuffer(rb, n)) = SubSeq(Contents(rb), l + 1, Len(Contents(rb)))
          /\ RingReadToBuffer(rb, n).last # "na"
      BY <2>i, ReadIsTake
    <3>2. reply' = [n |-> l, bytes |-> PeekBytes(rb, n)]
      BY <2>2 DEF Read, ReadToBuffer, Peek
    <3>3. l \in Nat
      BY <2>i, <3>1, ReadablePlusRoom, RingFields
    <3>4. PeekBytes(rb, n) \in Seq(Byte)
      BY <2>i, <3>1, PrefixOfBytes
    <3>5. reply' \in [n : Nat, bytes : Seq(Byte)]
      BY <3>2, <3>3, <3>4
    <3>6. \/ rb' = rb
          \/ rb' = RingRead(rb, n)
          \/ rb' = RingReadToBuffer(rb, n)
      BY <2>2 DEF Read, ReadToBuffer, Peek
    <3>7. IsRing(rb')
      BY <2>i, <3>1, <3>6
    <3>8. OnlyBytes(rb')
      <4>1. CASE rb' = rb
        BY <2>i, <4>1
      <4>2. CASE rb' = RingRead(rb, n)
        BY <2>i, <3>1, <4>2, SuffixOfBytes
      <4>3. CASE rb' = RingReadToBuffer(rb, n)
        BY <2>i, <3>1, <4>3, SuffixOfBytes
      <4> QED BY <3>6, <4>1, <4>2, <4>3
    <3>9. rb'.last = "na" => rb'.r_offset = 0 /\ rb'.w_offset = 0
      BY <2>i, <3>1, <3>6 DEF FreshIsEmpty
    <3> QED BY <3>5, <3>7, <3>8, <3>9
  <2>3. ASSUME NEW n \in Sizes, SetSize(n)
        PROVE  /\ IsRing(rb') /\ OnlyBytes(rb')
               /\ rb'.last = "na" => rb'.r_offset = 0 /\ rb'.w_offset = 0
               /\ reply' \in [n : Nat, bytes : Seq(Byte)]
    <3>1. rb.last = "na" /\ rb' = RingSetSize(rb, n) /\ reply' = reply
      BY <2>3 DEF SetSize
    <3>2. rb.r_offset = 0 /\ rb.w_offset = 0
      BY <2>i, <3>1 DEF FreshIsEmpty
    <3>3. IsRing(rb') /\ Readable(rb') = 0 /\ rb'.r_offset = 0 /\ rb'.w_offset = 0
      BY <2>i, <3>1, <3>2, ResizeFresh
    <3>4. OnlyBytes(rb')
      BY <3>3 DEF OnlyBytes
    <3> QED BY <2>i, <3>1, <3>3, <3>4
  <2>4. CASE UNCHANGED ringVars
    <3>1. rb' = rb /\ reply' = reply
      BY <2>4 DEF ringVars
    <3> QED BY <2>i, <3>1 DEF FreshIsEmpty
  <2> QED BY <2>1, <2>2, <2>3, <2>4 DEF Next
<1> QED BY <1>1, <1>2, PTL DEF Spec

\* Type correctness and freedom from uninitialised bytes, for every size,
\* alphabet and call length: no sequence of write, read, peek and set_size
\* calls makes Ring_Buffer.c hand out a byte that nobody wrote.
THEOREM RingBufferSafe == Spec => [](TypeOK /\ NoJunkReadable)
<1>1. IInv => TypeOK /\ NoJunkReadable
  BY DEF IInv
<1> QED BY <1>1, Inductive, PTL

\* __get_len and __read agree on the length of a ring that has been used,
\* although they compute it with different case distinctions.
LEMMA LengthExact ==
    ASSUME NEW r, IsRing(r), r.last # "na"
    PROVE  GetLen(r) = Readable(r)
<1>1. /\ r.last \in {"write", "read"}
      /\ r.size \in Nat /\ r.w_offset \in Int /\ r.r_offset \in Int
  BY RingFields
<1>2. /\ r.w_offset > r.r_offset => Readable(r) = r.w_offset - r.r_offset
      /\ r.w_offset < r.r_offset => Readable(r) = r.w_offset - r.r_offset + r.size
      /\ r.w_offset = r.r_offset /\ r.last = "write" => Readable(r) = r.size
      /\ r.w_offset = r.r_offset /\ r.last # "write" => Readable(r) = 0
  BY ReadablePlusRoom
<1>3. CASE r.w_offset = r.r_offset
  BY <1>1, <1>2, <1>3 DEF GetLen
<1>4. CASE r.w_offset # r.r_offset
  BY <1>1, <1>2, <1>4 DEF GetLen
<1> QED BY <1>3, <1>4

\* The length callers are told is the length they can read, in every state.
THEOREM LengthsAgree == Spec => []GetLenExact
<1>1. IInv => GetLenExact
  BY TypeOKIsRing, LengthExact DEF IInv, GetLenExact
<1> QED BY <1>1, Inductive, PTL

-----------------------------------------------------------------------------
\* Searching.

\* A needle s of n bytes is looked for c bytes after the read offset ro of a
\* ring of z bytes.
Search(r, z, ro, s, n, c) ==
    /\ IsRing(r) /\ r.size = z /\ r.r_offset = ro
    /\ s \in Seq(Memory) /\ Len(s) = n /\ n \in Nat /\ c \in Nat /\ c + n <= Readable(r)

\* It is there in what the ring holds; its bytes are there in the memory.
HeldFrom(r, s, n, c)   == SubSeq(Contents(r), c + 1, c + n) = s
StoredFrom(r, s, n, c) == \A i \in 1 .. n : r.addr[Place(r, c + i)] = s[i]

\* The m bytes at a place of the memory are compared with u.
Compares(r, at, m, u) ==
    /\ IsRing(r) /\ at \in Nat /\ m \in Nat /\ at + m <= r.size
    /\ u \in Seq(Memory) /\ Len(u) = m

\* Two sequences of the same length are equal iff they agree everywhere.
LEMMA SameEverywhere ==
    ASSUME NEW S, NEW s \in Seq(S), NEW t \in Seq(S), NEW n \in Nat, Len(s) = n, Len(t) = n
    PROVE  s = t <=> \A i \in 1 .. n : s[i] = t[i]
  BY SeqEqual

\* A piece of the memory that memcmp looks at.
LEMMA SliceMatches ==
    ASSUME NEW r, NEW at, NEW n, NEW s, Compares(r, at, n, s)
    PROVE  Slice(r.addr, at, n) = s <=> \A i \in 1 .. n : r.addr[at + i - 1] = s[i]
<1> DEFINE u == Slice(r.addr, at, n)
<1>0. s \in Seq(Memory) /\ Len(s) = n /\ n \in Nat
  BY DEF Compares
<1>1. u \in Seq(Memory) /\ Len(u) = n /\ \A i \in 1 .. n : u[i] = r.addr[at + i - 1]
  <2>1. IsRing(r) /\ at \in Nat /\ n \in Nat /\ at + n <= r.size
    BY DEF Compares
  <2> QED BY <2>1, SliceSeq
<1> HIDE DEF u
<1>2. u = s <=> \A i \in 1 .. n : u[i] = s[i]
  BY <1>0, <1>1, SameEverywhere
<1>3. u = s <=> \A i \in 1 .. n : r.addr[at + i - 1] = s[i]
  BY <1>1, <1>2
<1> QED BY <1>3 DEF u

\* The part of a sequence after its first a elements, up to e.
LEMMA Part ==
    ASSUME NEW S, NEW s, NEW a \in Nat, NEW e \in Nat, a <= e, \A i \in a + 1 .. e : s[i] \in S
    PROVE  /\ SubSeq(s, a + 1, e) \in Seq(S) /\ Len(SubSeq(s, a + 1, e)) = e - a
           /\ \A i \in 1 .. e - a : SubSeq(s, a + 1, e)[i] = s[a + i]
<1> DEFINE m == a + 1
           u == SubSeq(s, m, e)
<1>1. m \in Int /\ e - m + 1 = e - a /\ \A i \in 1 .. e - a : m + i - 1 = a + i
  OBVIOUS
<1> HIDE DEF m
<1>2. \A i \in m .. e : s[i] \in S
  BY DEF m
<1>3. /\ u \in Seq(S) /\ Len(u) = IF m <= e THEN e - m + 1 ELSE 0
      /\ \A i \in 1 .. e - m + 1 : u[i] = s[m + i - 1]
  BY <1>1, <1>2, SubSeqProperties
<1> HIDE DEF u
<1>4. Len(u) = e - a
  BY <1>1, <1>3 DEF m
<1>5. \A i \in 1 .. e - a : u[i] = s[a + i]
  BY <1>1, <1>3
<1> QED BY <1>3, <1>4, <1>5 DEF u, m

\* A piece of what the ring holds.
LEMMA HeldMatches ==
    ASSUME NEW r, NEW z, NEW ro, NEW s, NEW n, NEW c, Search(r, z, ro, s, n, c)
    PROVE  HeldFrom(r, s, n, c) <=> StoredFrom(r, s, n, c)
<1> DEFINE u == SubSeq(Contents(r), c + 1, c + n)
<1>0. /\ IsRing(r) /\ s \in Seq(Memory) /\ n \in Nat /\ Len(s) = n
      /\ c \in Nat /\ c + n <= Readable(r)
  BY DEF Search
<1>1. Readable(r) \in Nat
  BY <1>0, ReadablePlusRoom, RingFields
<1>2. /\ Contents(r) \in Seq(Memory) /\ Len(Contents(r)) = Readable(r)
      /\ \A k \in 1 .. Readable(r) : Contents(r)[k] = r.addr[Place(r, k)]
  BY <1>0, ContentsSeq
<1>3. \A k \in c + 1 .. c + n : Contents(r)[k] \in Memory
  BY <1>0, <1>1, <1>2, ElementOfSeq
<1>4. u \in Seq(Memory) /\ Len(u) = n /\ \A i \in 1 .. n : u[i] = Contents(r)[c + i]
  <2> DEFINE e == c + n
             v == SubSeq(Contents(r), c + 1, e)
  <2>1. e \in Nat /\ c <= e /\ e - c = n
    BY <1>0
  <2> HIDE DEF e
  <2>2. \A k \in c + 1 .. e : Contents(r)[k] \in Memory
    BY <1>3 DEF e
  <2>3. v \in Seq(Memory) /\ Len(v) = e - c /\ \A i \in 1 .. e - c : v[i] = Contents(r)[c + i]
    BY <1>0, <2>1, <2>2, Part
  <2>4. v = u
    BY DEF e
  <2> HIDE DEF u, v
  <2> QED BY <2>1, <2>3, <2>4
<1> HIDE DEF u
<1>5. \A i \in 1 .. n : c + i \in 1 .. Readable(r)
  BY <1>0, <1>1
<1>6. \A i \in 1 .. n : u[i] = r.addr[Place(r, c + i)]
  BY <1>2, <1>4, <1>5
<1>7. u = s <=> \A i \in 1 .. n : u[i] = s[i]
  BY <1>0, <1>4, SameEverywhere
<1>8. u = s <=> \A i \in 1 .. n : r.addr[Place(r, c + i)] = s[i]
  BY <1>6, <1>7
<1> QED BY <1>8 DEF u, HeldFrom, StoredFrom

\* Where such a search looks.
LEMMA Placed ==
    ASSUME NEW r, NEW z, NEW ro, NEW s, NEW n, NEW c, Search(r, z, ro, s, n, c), NEW k \in 1 .. z
    PROVE  Place(r, k) = IF ro + k - 1 < z THEN ro + k - 1 ELSE ro + k - 1 - z
  BY PlaceValue DEF Search

\* A piece of the memory that lies within the ring can be compared.
LEMMA Piece ==
    ASSUME NEW r, NEW z \in Nat, NEW ro, NEW s, NEW n, NEW c, Search(r, z, ro, s, n, c),
           NEW at \in Nat, NEW m \in Nat, at + m <= z, NEW u \in Seq(Memory), Len(u) = m
    PROVE  Compares(r, at, m, u)
  BY DEF Search, Compares

\* One iteration of __find, in whichever of its three cases, compares the
\* needle with the bytes held from there on.
LEMMA FindAtExact ==
    ASSUME NEW z \in Nat, NEW ro \in Nat, ro < z, NEW n \in Nat, n > 0, NEW c \in Nat, c + n <= z,
           NEW at \in Nat, at = ro + c, NEW r, NEW s, Search(r, z, ro, s, n, c)
    PROVE  FindAt(r, s, c) <=> SubSeq(Contents(r), c + 1, c + n) = s
<1> DEFINE k == z - at
<1>1. z \in Nat \ {0}
  OBVIOUS
<1>2. at + n < z + z
  OBVIOUS
<1>3. s \in Seq(Memory) /\ Len(s) = n
  BY DEF Search
<1>4. ASSUME NEW i \in 1 .. n
      PROVE  Place(r, c + i) = IF at + i - 1 < z THEN at + i - 1 ELSE at + i - 1 - z
  <2> DEFINE j == c + i
  <2>1. j \in 1 .. z /\ ro + j - 1 = at + i - 1
    BY <1>1, <1>2
  <2> HIDE DEF j
  <2>2. Place(r, j) = IF ro + j - 1 < z
                      THEN ro + j - 1 ELSE ro + j - 1 - z
    BY <2>1, Placed
  <2>3. Place(r, j) = IF at + i - 1 < z THEN at + i - 1 ELSE at + i - 1 - z
    BY <2>1, <2>2
  <2> QED BY <2>3 DEF j
<1>5. SubSeq(Contents(r), c + 1, c + n) = s <=> \A i \in 1 .. n : r.addr[Place(r, c + i)] = s[i]
  <2>1. HeldFrom(r, s, n, c) <=> StoredFrom(r, s, n, c)
    BY HeldMatches
  <2> QED BY <2>1 DEF HeldFrom, StoredFrom
<1>6. CASE at + n <= z
  <2>1. FindAt(r, s, c) <=> Slice(r.addr, at, n) = s
    BY <1>6 DEF FindAt, Search
  <2>2. Slice(r.addr, at, n) = s <=> \A i \in 1 .. n : r.addr[at + i - 1] = s[i]
    <3>1. Compares(r, at, n, s)
      BY <1>6, <1>3, Piece
    <3> QED BY <3>1, SliceMatches
  <2>3. \A i \in 1 .. n : Place(r, c + i) = at + i - 1
    <3>1. \A i \in 1 .. n : at + i - 1 < z
      BY <1>1, <1>2, <1>6
    <3> QED BY <1>4, <3>1
  <2> QED BY <1>5, <2>1, <2>2, <2>3
<1>7. CASE at >= z
  <2> DEFINE b == at - z
  <2>1. at % z = b
    <3>1. at \in z .. (2 * z - 1)
      BY <1>1, <1>2, <1>7
    <3> QED BY <1>1, <3>1, WrapHigh
  <2>2. FindAt(r, s, c) <=> Slice(r.addr, b, n) = s
    <3>1. ~(at + n <= z)
      BY <1>1, <1>2, <1>7
    <3> QED BY <1>7, <2>1, <3>1 DEF FindAt, Search
  <2>3. b \in Nat /\ b + n <= z
    BY <1>1, <1>2, <1>7
  <2>4. \A i \in 1 .. n : Place(r, c + i) = b + i - 1
    <3>1. \A i \in 1 .. n : ~(at + i - 1 < z) /\ at + i - 1 - z = b + i - 1
      BY <1>1, <1>2, <1>7
    <3> HIDE DEF b
    <3> QED BY <1>4, <3>1
  <2> HIDE DEF b
  <2>5. Slice(r.addr, b, n) = s <=> \A i \in 1 .. n : r.addr[b + i - 1] = s[i]
    <3>1. Compares(r, b, n, s)
      BY <2>3, <1>3, Piece
    <3> QED BY <3>1, SliceMatches
  <2> QED BY <1>5, <2>2, <2>4, <2>5
<1>8. CASE ~(at + n <= z) /\ ~(at >= z)
  <2> DEFINE s1 == SubSeq(s, 1, k)
             s2 == SubSeq(s, k + 1, n)
  <2>1. FindAt(r, s, c) <=> Slice(r.addr, at, k) = s1 /\ Slice(r.addr, 0, n - k) = s2
    BY <1>8 DEF FindAt, Search
  <2>2. /\ k \in Nat /\ at + k <= z /\ n - k \in Nat /\ 0 + (n - k) <= z
        /\ k >= 1 /\ k < n /\ at + k = z
    BY <1>1, <1>2, <1>8
  <2> HIDE DEF k
  <2>3. \A i \in 1 .. n : s[i] \in Memory
    BY <1>3, ElementOfSeq
  <2>4. s1 \in Seq(Memory) /\ Len(s1) = k /\ \A i \in 1 .. k : s1[i] = s[i]
    <3>1. \A i \in 1 .. k : s[i] \in Memory
      BY <2>2, <2>3
    <3>2. /\ s1 \in Seq(Memory) /\ Len(s1) = IF 1 <= k THEN k - 1 + 1 ELSE 0
          /\ \A i \in 1 .. k - 1 + 1 : s1[i] = s[1 + i - 1]
      BY <2>2, <3>1, <1>3, SubSeqProperties
    <3> HIDE DEF s1
    <3>3. k - 1 + 1 = k /\ \A i \in 1 .. k : 1 + i - 1 = i
      BY <2>2
    <3> QED BY <2>2, <3>2, <3>3
  <2>5. s2 \in Seq(Memory) /\ Len(s2) = n - k /\ \A i \in 1 .. n - k : s2[i] = s[k + i]
    <3>1. \A i \in k + 1 .. n : s[i] \in Memory
      BY <2>2, <2>3
    <3> QED BY <2>2, <3>1, Part
  <2> HIDE DEF s1, s2
  <2>6. Slice(r.addr, at, k) = s1 <=> \A i \in 1 .. k : r.addr[at + i - 1] = s1[i]
    <3>1. Compares(r, at, k, s1)
      BY <2>2, <2>4, Piece
    <3> QED BY <3>1, SliceMatches
  <2>7. Slice(r.addr, 0, n - k) = s2 <=> \A i \in 1 .. n - k : r.addr[0 + i - 1] = s2[i]
    <3>1. Compares(r, 0, n - k, s2)
      BY <2>2, <2>5, Piece
    <3> QED BY <3>1, SliceMatches
  <2>8. \A i \in 1 .. k : i \in 1 .. n /\ Place(r, c + i) = at + i - 1
    <3>1. \A i \in 1 .. k : i \in 1 .. n /\ at + i - 1 < z
      BY <1>1, <1>2, <2>2
    <3> QED BY <1>4, <3>1
  <2>9. \A i \in 1 .. n - k : k + i \in 1 .. n /\ Place(r, c + (k + i)) = 0 + i - 1
    <3>1. ASSUME NEW i \in 1 .. n - k PROVE k + i \in 1 .. n /\ Place(r, c + (k + i)) = 0 + i - 1
      <4>1. k + i \in 1 .. n /\ ~(at + (k + i) - 1 < z) /\ at + (k + i) - 1 - z = 0 + i - 1
        BY <1>1, <1>2, <2>2
      <4> QED BY <1>4, <4>1
    <3> QED BY <3>1
  <2>10. \A i \in 1 .. n : i \in 1 .. k \/ (i - k \in 1 .. n - k /\ i = k + (i - k))
    BY <2>2
  <2>11. (\A i \in 1 .. n : r.addr[Place(r, c + i)] = s[i]) <=>
            /\ \A i \in 1 .. k : r.addr[Place(r, c + i)] = s[i]
            /\ \A i \in 1 .. n - k : r.addr[Place(r, c + (k + i))] = s[k + i]
    <3>1. ASSUME \A i \in 1 .. n : r.addr[Place(r, c + i)] = s[i]
          PROVE  /\ \A i \in 1 .. k : r.addr[Place(r, c + i)] = s[i]
                 /\ \A i \in 1 .. n - k : r.addr[Place(r, c + (k + i))] = s[k + i]
      BY <2>8, <2>9, <3>1
    <3>2. ASSUME \A i \in 1 .. k : r.addr[Place(r, c + i)] = s[i],
                 \A i \in 1 .. n - k : r.addr[Place(r, c + (k + i))] = s[k + i],
                 NEW i \in 1 .. n
          PROVE  r.addr[Place(r, c + i)] = s[i]
      <4>1. CASE i \in 1 .. k
        BY <3>2, <4>1
      <4>2. ASSUME NEW j \in 1 .. n - k, i = k + j PROVE r.addr[Place(r, c + i)] = s[i]
        BY <3>2, <4>2
      <4> QED BY <2>10, <4>1, <4>2
    <3> QED BY <3>1, <3>2
  <2>12. (\A i \in 1 .. k : r.addr[at + i - 1] = s1[i]) <=>
            \A i \in 1 .. k : r.addr[Place(r, c + i)] = s[i]
    BY <2>4, <2>8
  <2>13. (\A i \in 1 .. n - k : r.addr[0 + i - 1] = s2[i]) <=>
            \A i \in 1 .. n - k : r.addr[Place(r, c + (k + i))] = s[k + i]
    BY <2>5, <2>9
  <2> QED BY <1>5, <2>1, <2>6, <2>7, <2>11, <2>12, <2>13
<1> QED BY <1>6, <1>7, <1>8

\* A set of numbers that is not empty has a least one.
LEMMA LeastNumber ==
    ASSUME NEW S, S \subseteq Nat, S # {}
    PROVE  (CHOOSE x \in S : \A y \in S : x <= y) \in S
<1>1. PICK x \in S : \A y \in S : ~(<<y, x>> \in OpToRel(<, Nat))
  BY NatLessThanWellFounded, WFMin
<1>2. ASSUME NEW y \in S PROVE x <= y
  <2>1. ~(y < x)
    BY <1>1 DEF OpToRel
  <2> QED BY <2>1
<1> QED BY <1>2

\* __get_needle_offset turns the place of an occurrence back into its distance.
LEMMA DistanceBack ==
    ASSUME NEW sz \in Nat \ {0}, NEW ro \in 0 .. (sz - 1), NEW c \in 0 .. (sz - 1),
           NEW a, a = (ro + c) % sz
    PROVE  a # -1 /\ (IF a - ro > 0 THEN a - ro ELSE (a - ro + sz) % sz) = c
<1>1. CASE ro + c < sz
  <2>1. a = ro + c
    BY <1>1, WrapLow
  <2>2. CASE c = 0
    <3>1. a - ro + sz = sz /\ ~(a - ro > 0)
      BY <2>1, <2>2
    <3>2. sz \in sz .. (2 * sz - 1)
      OBVIOUS
    <3>3. sz % sz = 0
      BY <3>2, WrapHigh
    <3> QED BY <2>1, <2>2, <3>1, <3>3
  <2>3. CASE c # 0
    BY <2>1, <2>3
  <2> QED BY <2>2, <2>3
<1>2. CASE ~(ro + c < sz)
  <2>1. a = ro + c - sz
    <3>1. ro + c \in sz .. (2 * sz - 1)
      BY <1>2
    <3> QED BY <3>1, WrapHigh
  <2>2. ~(a - ro > 0) /\ a - ro + sz = c
    BY <2>1
  <2>3. c % sz = c
    BY WrapLow
  <2> QED BY <1>2, <2>1, <2>2, <2>3
<1> QED BY <1>1, <1>2

\* __find and __get_needle_offset give the first occurrence in what the ring
\* holds, for every size and needle and wherever the wrap falls.
THEOREM NeedleIsFound == Spec => []NeedleOffsetExact
<1>1. ASSUME IInv, GetLenExact PROVE NeedleOffsetExact
  <2> DEFINE held == Contents(rb)
             Hits(s) == {i \in 0 .. (Len(held) - Len(s)) : SubSeq(held, i + 1, i + Len(s)) = s}
             Seen(s) == {cnt \in 0 .. (GetLen(rb) - Len(s)) : FindAt(rb, s, cnt)}
  <2> SUFFICES ASSUME rb.last # "na", NEW s \in Writable
               PROVE  GetNeedleOffset(rb, s) =
                        IF Hits(s) = {} THEN -1 ELSE CHOOSE i \in Hits(s) : \A j \in Hits(s) : i <= j
    BY DEF NeedleOffsetExact
  <2>1. IsRing(rb)
    BY <1>1, TypeOKIsRing DEF IInv
  <2>2. /\ s \in Seq(Memory) /\ Len(s) \in Nat \ {0}
    BY WritableSeq, MaxCallAssumption
  <2>3. /\ GetLen(rb) = Readable(rb) /\ Len(held) = Readable(rb)
        /\ Readable(rb) \in 0 .. rb.size /\ rb.size \in Nat \ {0} /\ rb.r_offset \in 0 .. (rb.size - 1)
    BY <1>1, <2>1, ContentsSeq, ReadablePlusRoom, RingFields DEF GetLenExact
  <2>4. Seen(s) = Hits(s)
    <3>1. ASSUME NEW c \in 0 .. (Readable(rb) - Len(s))
          PROVE  FindAt(rb, s, c) <=> SubSeq(held, c + 1, c + Len(s)) = s
      <4>1. c \in Nat /\ c + Len(s) <= Readable(rb)
        BY <2>2, <2>3
      <4>2. Search(rb, rb.size, rb.r_offset, s, Len(s), c)
        BY <2>1, <2>2, <4>1 DEF Search
      <4>3. rb.r_offset + c \in Nat /\ rb.r_offset < rb.size /\ c + Len(s) <= rb.size
        BY <2>2, <2>3, <4>1
      <4>4. ASSUME NEW z \in Nat, z = rb.size, NEW ro \in Nat, ro = rb.r_offset,
                   NEW n \in Nat, n = Len(s), NEW d \in Nat, d = c
            PROVE  FindAt(rb, s, d) <=> SubSeq(held, d + 1, d + n) = s
        <5>1. Search(rb, z, ro, s, n, d)
          BY <4>2, <4>4
        <5>2. ro + d \in Nat /\ ro < z /\ d + n <= z /\ n > 0
          BY <2>2, <4>3, <4>4
        <5> QED BY <5>1, <5>2, FindAtExact
      <4> QED BY <2>2, <2>3, <4>1, <4>4, SMTT(40)
    <3> QED BY <2>3, <3>1
  <2> DEFINE h == Hits(s)
             c == CHOOSE i \in h : \A j \in h : i <= j
  <2>5. h \subseteq 0 .. (rb.size - 1)
    BY <2>2, <2>3
  <2>6. Find(rb, s) = IF h = {} THEN -1 ELSE (rb.r_offset + c) % rb.size
    <3>1. Find(rb, s) = IF Seen(s) = {} THEN -1
                        ELSE (rb.r_offset + (CHOOSE i \in Seen(s) : \A j \in Seen(s) : i <= j)) % rb.size
      BY Zenon DEF Find
    <3> HIDE DEF Seen, Hits
    <3> QED BY <2>4, <3>1, Zenon
  <2> HIDE DEF h
  <2>7. h # {} => c \in h
    <3>1. h \subseteq Nat
      BY <2>3, <2>5
    <3> QED BY <3>1, LeastNumber
  <2> HIDE DEF c
  <2>8. CASE h = {}
    BY <2>6, <2>8 DEF GetNeedleOffset, h
  <2>9. CASE h # {}
    <3> DEFINE a == (rb.r_offset + c) % rb.size
    <3>1. c \in 0 .. (rb.size - 1)
      BY <2>5, <2>7, <2>9
    <3>2. a # -1 /\ (IF a - rb.r_offset > 0 THEN a - rb.r_offset
                     ELSE (a - rb.r_offset + rb.size) % rb.size) = c
      BY <2>3, <3>1, DistanceBack
    <3>3. Find(rb, s) = a
      BY <2>6, <2>9
    <3> HIDE DEF a
    <3>4. GetNeedleOffset(rb, s) = c
      BY <3>2, <3>3 DEF GetNeedleOffset
    <3> QED BY <2>9, <3>4 DEF h, c
  <2> QED BY <2>8, <2>9
<1> QED BY <1>1, Inductive, LengthsAgree, PTL

-----------------------------------------------------------------------------
\* The ring starts as an empty queue.
LEMMA InitRefines == Init => Queue!FifoInit
<1> SUFFICES ASSUME Init PROVE Queue!FifoInit
  OBVIOUS
<1>1. PICK n \in Sizes : rb = NewRing(n)
  BY DEF Init
<1>2. IsRing(rb) /\ Readable(rb) = 0 /\ rb.size \in Nat \ {0}
  BY <1>1, FreshRing, RingFields
<1>3. Contents(rb) = << >>
  BY <1>2, ContentsSeq, EmptySeq, SeqEqual
<1> QED BY <1>2, <1>3 DEF Init, Queue!FifoInit

\* Every call on the ring is a call on the queue, or changes nothing.
LEMMA StepRefines == IInv /\ IInv' /\ [Next]_ringVars => [Queue!FifoNext]_(Queue!fifoVars)
<1> SUFFICES ASSUME IInv, IInv', [Next]_ringVars
             PROVE  [Queue!FifoNext]_(Queue!fifoVars)
  OBVIOUS
<1>i. IsRing(rb) /\ FreshIsEmpty
  BY TypeOKIsRing DEF IInv
<1>p. Contents(rb)' = Contents(rb') /\ (rb.size)' = rb'.size
  BY DEF Contents, Readable
<1>l. \A x, y : Queue!Least(x, y) = MinOf(x, y)
  BY DEF Queue!Least, MinOf
<1>1. ASSUME NEW src \in Writable, Write(src) PROVE Queue!FifoNext
  <2>1. rb' = RingWrite(rb, src) /\ reply' = [n |-> WriteCount(rb, src), bytes |-> << >>]
    BY <1>1 DEF Write
  <2>2. /\ WriteCount(rb, src) = MinOf(rb.size - Len(Contents(rb)), Len(src))
        /\ Contents(rb') = Contents(rb) \o SubSeq(src, 1, WriteCount(rb, src))
        /\ rb'.size = rb.size
    BY <1>i, <2>1, WriteIsPut, WriteStep
  <2>3. Queue!Put(src)
    BY <1>p, <1>l, <2>1, <2>2 DEF Queue!Put
  <2>4. PICK k \in 1 .. MaxCall : src \in [1 .. k -> Byte]
    BY DEF Writable
  <2> QED BY <2>3, <2>4 DEF Queue!FifoNext
<1>2. ASSUME NEW n \in 1 .. MaxCall, Read(n) \/ ReadToBuffer(n) \/ Peek(n)
      PROVE  Queue!FifoNext
  <2> DEFINE l == ReadCount(rb, n)
  <2>1. /\ l = MinOf(Len(Contents(rb)), n)
        /\ PeekBytes(rb, n) = SubSeq(Contents(rb), 1, l)
        /\ RingRead(rb, n).size = rb.size
        /\ Contents(RingRead(rb, n)) = SubSeq(Contents(rb), l + 1, Len(Contents(rb)))
        /\ RingReadToBuffer(rb, n).size = rb.size
        /\ Contents(RingReadToBuffer(rb, n)) = SubSeq(Contents(rb), l + 1, Len(Contents(rb)))
    BY <1>i, ReadIsTake
  <2>2. reply' = [n |-> l, bytes |-> SubSeq(Contents(rb), 1, l)]
    BY <1>2, <2>1 DEF Read, ReadToBuffer, Peek
  <2>3. Queue!Least(Len(Contents(rb)), n) = l
    BY <1>l, <2>1
  <2> HIDE DEF l
  <2>4. CASE Read(n) \/ ReadToBuffer(n)
    <3>1. /\ Contents(rb') = SubSeq(Contents(rb), l + 1, Len(Contents(rb)))
          /\ rb'.size = rb.size
      BY <2>1, <2>4 DEF Read, ReadToBuffer
    <3>2. Queue!Take(n)
      BY <1>p, <2>2, <2>3, <3>1 DEF Queue!Take
    <3> QED BY <3>2 DEF Queue!FifoNext
  <2>5. CASE Peek(n)
    <3>1. rb' = rb
      BY <2>5 DEF Peek
    <3>2. Queue!Look(n)
      BY <1>p, <2>2, <2>3, <3>1 DEF Queue!Look
    <3> QED BY <3>2 DEF Queue!FifoNext
  <2> QED BY <1>2, <2>4, <2>5
<1>3. ASSUME NEW n \in Sizes, SetSize(n) PROVE Queue!FifoNext
  <2>1. /\ rb' = RingSetSize(rb, n) /\ reply' = reply /\ rb.last = "na"
        /\ rb.r_offset = 0 /\ rb.w_offset = 0
    BY <1>i, <1>3 DEF SetSize, FreshIsEmpty
  <2>2. IsRing(rb') /\ rb'.size = n /\ Readable(rb') = 0
    BY <1>i, <2>1, ResizeFresh
  <2>3. Contents(rb') = << >>
    BY <2>2, ContentsSeq, EmptySeq, SeqEqual
  <2>4. Readable(rb) = 0
    BY <1>i, <2>1, ReadablePlusRoom
  <2>5. Contents(rb) = << >>
    BY <1>i, <2>4, ContentsSeq, EmptySeq, SeqEqual
  <2>6. n \in Nat \ {0}
    BY SizesAssumption
  <2>7. Queue!Resize
    BY <1>p, <2>1, <2>2, <2>3, <2>5, <2>6 DEF Queue!Resize
  <2> QED BY <2>7 DEF Queue!FifoNext
<1>4. CASE UNCHANGED ringVars
  <2>1. rb' = rb /\ reply' = reply
    BY <1>4 DEF ringVars
  <2> QED BY <1>p, <2>1 DEF Queue!fifoVars
<1> QED BY <1>1, <1>2, <1>3, <1>4 DEF Next

\* Ring_Buffer.c implements the bounded byte queue of Fifo, for every size,
\* alphabet and call length: the replies of write, read and peek are those of
\* a queue, whatever the wrap-around and the last_operation_flag.
THEOREM RingBufferRefinesFifo == Spec => RefinesFifo
<1>1. Init => Queue!FifoInit
  BY InitRefines
<1>2. IInv /\ IInv' /\ [Next]_ringVars => [Queue!FifoNext]_(Queue!fifoVars)
  BY StepRefines
<1> QED BY <1>1, <1>2, Inductive, PTL DEF Spec, RefinesFifo, Queue!FifoSpec

-----------------------------------------------------------------------------
(***************************************************************************)
(* The receiving callbacks of the bus, on a ring of one of these sizes.    *)
(* First their streams of bytes: fr holds m frames, s is z bytes long.     *)
(***************************************************************************)
\* The length of the frame that a byte is of.
SizeOf(fr, b) == 1 + fr[b.f].len

\* Every byte is one of a frame that was sent.
Sent(fr, m, s, z) ==
    \A i \in 1 .. z : s[i].f \in 1 .. m /\ s[i].p \in 1 .. SizeOf(fr, s[i])

\* Byte c comes right after byte b; byte c comes d bytes after byte b, at least.
Follows(fr, b, c) ==
    IF b.p < SizeOf(fr, b) THEN c.f = b.f /\ c.p = b.p + 1 ELSE c.f = b.f + 1 /\ c.p = 1
Spaced(fr, b, c, d) ==
    IF b.f = c.f THEN c.p = b.p + d ELSE b.f < c.f /\ d >= SizeOf(fr, b) - b.p + c.p

\* The bytes continue behind frame n, without a gap.
OnTrack(fr, n, s, z) ==
    /\ z > 0 => s[1].f = n + 1 /\ s[1].p = 1
    /\ \A i \in 1 .. z - 1 : Follows(fr, s[i], s[i + 1])
    /\ \A i, j \in 1 .. z : i <= j => Spaced(fr, s[i], s[j], j - i)

\* They end where the last frame that was sent does.
Whole(fr, m, n, s, z) ==
    /\ z = 0 => n = m
    /\ z > 0 => s[z].f = m
    /\ \A i \in 1 .. z : z - i >= SizeOf(fr, s[i]) - s[i].p

AreFrames(fr, m) == m \in Nat /\ \A k \in 1 .. m : fr[k].len \in Nat \ {0}

\* The beginning of a stream is one.
LEMMA TrackCut ==
    ASSUME NEW fr, NEW m, AreFrames(fr, m), NEW n, NEW s, NEW t, NEW z \in Nat, NEW y \in 0 .. z,
           \A i \in 1 .. y : t[i] = s[i]
    PROVE  /\ Sent(fr, m, s, z) => Sent(fr, m, t, y)
           /\ OnTrack(fr, n, s, z) => OnTrack(fr, n, t, y)
<1>1. Sent(fr, m, s, z) => Sent(fr, m, t, y)
  BY DEF Sent
<1>2. ASSUME OnTrack(fr, n, s, z) PROVE OnTrack(fr, n, t, y)
  <2>1. y > 0 => t[1].f = n + 1 /\ t[1].p = 1
    BY <1>2 DEF OnTrack
  <2>2. ASSUME NEW i \in 1 .. y - 1 PROVE Follows(fr, t[i], t[i + 1])
    <3>1. i \in 1 .. z - 1 /\ i \in 1 .. y /\ i + 1 \in 1 .. y
      OBVIOUS
    <3> QED BY <1>2, <3>1 DEF OnTrack
  <2>3. ASSUME NEW i \in 1 .. y, NEW j \in 1 .. y, i <= j PROVE Spaced(fr, t[i], t[j], j - i)
    BY <1>2, <2>3 DEF OnTrack
  <2> QED BY <2>1, <2>2, <2>3 DEF OnTrack
<1> QED BY <1>1, <1>2

\* The first frame of a stream: where it ends and where the next one begins.
LEMMA FirstFrame ==
    ASSUME NEW fr, NEW m, AreFrames(fr, m), NEW n \in Nat, NEW s, NEW z \in Nat \ {0},
           Sent(fr, m, s, z), OnTrack(fr, n, s, z)
    PROVE  /\ n + 1 \in 1 .. m
           /\ \A i \in 1 .. z : i <= 1 + fr[n + 1].len => s[i].f = n + 1 /\ s[i].p = i
           /\ \A i \in 1 .. z : i = 1 + fr[n + 1].len + 1 => s[i].f = n + 2 /\ s[i].p = 1
<1> DEFINE L == fr[n + 1].len
<1>1. s[1].f = n + 1 /\ s[1].p = 1 /\ 1 \in 1 .. z
  BY DEF OnTrack
<1>2. n + 1 \in 1 .. m
  BY <1>1 DEF Sent
<1>3. L \in Nat \ {0} /\ SizeOf(fr, s[1]) = 1 + L
  BY <1>1, <1>2 DEF AreFrames, SizeOf
<1>4. ASSUME NEW i \in 1 .. z, i <= 1 + L PROVE s[i].f = n + 1 /\ s[i].p = i
  <2>1. Spaced(fr, s[1], s[i], i - 1)
    BY <1>1 DEF OnTrack
  <2>2. s[i].f \in 1 .. m /\ SizeOf(fr, s[i]) \in Nat
    BY DEF Sent, AreFrames, SizeOf
  <2>3. s[i].p \in Nat \ {0}
    BY <2>2 DEF Sent
  <2> HIDE DEF L
  <2> QED BY <1>1, <1>3, <1>4, <2>1, <2>2, <2>3 DEF Spaced
<1>5. ASSUME NEW i \in 1 .. z, i = 1 + L + 1 PROVE s[i].f = n + 2 /\ s[i].p = 1
  <2>1. i - 1 \in 1 .. z - 1 /\ i - 1 \in 1 .. z /\ i - 1 <= 1 + L /\ i = (i - 1) + 1
    BY <1>3, <1>5
  <2>2. s[i - 1].f = n + 1 /\ s[i - 1].p = 1 + L
    BY <1>3, <1>4, <1>5, <2>1
  <2>3. Follows(fr, s[i - 1], s[i])
    BY <2>1 DEF OnTrack
  <2>4. SizeOf(fr, s[i - 1]) = 1 + L
    BY <2>2 DEF SizeOf
  <2> QED BY <1>3, <2>2, <2>3, <2>4 DEF Follows
<1> QED BY <1>2, <1>4, <1>5

\* What is behind the first k bytes of a stream.
LEMMA SentBehind ==
    ASSUME NEW fr, NEW m, NEW s, NEW t, NEW z \in Nat, NEW k \in 0 .. z,
           NEW y, y = z - k, \A i \in 1 .. y : t[i] = s[k + i], Sent(fr, m, s, z)
    PROVE  Sent(fr, m, t, y)
<1>1. \A i \in 1 .. y : k + i \in 1 .. z
  OBVIOUS
<1> QED BY <1>1 DEF Sent

\* Behind the first frame the stream is on track for the next one.
LEMMA TrackBehind ==
    ASSUME NEW fr, NEW m, AreFrames(fr, m), NEW n \in Nat, NEW s, NEW t, NEW z \in Nat \ {0},
           Sent(fr, m, s, z), OnTrack(fr, n, s, z),
           NEW k \in 0 .. z, k = 1 + fr[n + 1].len,
           NEW y, y = z - k, \A i \in 1 .. y : t[i] = s[k + i]
    PROVE  /\ OnTrack(fr, n + 1, t, y)
           /\ Whole(fr, m, n, s, z) => Whole(fr, m, n + 1, t, y)
<1>1. /\ \A i \in 1 .. z : i <= k => s[i].f = n + 1 /\ s[i].p = i
      /\ \A i \in 1 .. z : i = k + 1 => s[i].f = n + 2 /\ s[i].p = 1
      /\ n + 1 \in 1 .. m
  BY FirstFrame
<1>2. /\ y \in Nat /\ k \in Nat \ {0}
      /\ \A i \in 1 .. y : k + i \in 1 .. z
  BY <1>1 DEF AreFrames
<1>3. y > 0 => t[1].f = n + 1 + 1 /\ t[1].p = 1
  BY <1>1, <1>2
<1>4. ASSUME NEW i \in 1 .. y - 1 PROVE Follows(fr, t[i], t[i + 1])
  <2>1. k + i \in 1 .. z - 1 /\ k + (i + 1) = (k + i) + 1 /\ i \in 1 .. y /\ i + 1 \in 1 .. y
    BY <1>2
  <2>2. t[i] = s[k + i] /\ t[i + 1] = s[(k + i) + 1]
    BY <2>1
  <2> QED BY <2>1, <2>2 DEF OnTrack
<1>5. ASSUME NEW i \in 1 .. y, NEW j \in 1 .. y, i <= j PROVE Spaced(fr, t[i], t[j], j - i)
  <2>1. k + i \in 1 .. z /\ k + j \in 1 .. z /\ k + i <= k + j /\ (k + j) - (k + i) = j - i
    BY <1>2, <1>5
  <2>2. Spaced(fr, s[k + i], s[k + j], j - i)
    BY <2>1 DEF OnTrack
  <2> QED BY <2>2
<1>6. ASSUME Whole(fr, m, n, s, z) PROVE Whole(fr, m, n + 1, t, y)
  <2>1. y = 0 => n + 1 = m
    <3> SUFFICES ASSUME y = 0 PROVE n + 1 = m
      OBVIOUS
    <3>1. z = k /\ z \in 1 .. z
      BY <1>2
    <3> QED BY <1>1, <1>6, <3>1 DEF Whole
  <2>2. y > 0 => t[y].f = m
    <3>1. y > 0 => t[y] = s[z]
      BY <1>2
    <3> QED BY <1>6, <3>1 DEF Whole
  <2>3. ASSUME NEW i \in 1 .. y PROVE y - i >= SizeOf(fr, t[i]) - t[i].p
    <3>1. z - (k + i) >= SizeOf(fr, s[k + i]) - s[k + i].p
      BY <1>2, <1>6 DEF Whole
    <3>2. z - (k + i) = y - i /\ t[i] = s[k + i]
      BY <1>2
    <3> QED BY <3>1, <3>2
  <2> QED BY <2>1, <2>2, <2>3 DEF Whole
<1> QED BY <1>3, <1>4, <1>5, <1>6 DEF OnTrack

\* The frames gr have a frame of length L more than the m frames fr, and the
\* stream t of length y has its bytes behind the stream s of length z.
Extends(fr, m, gr, L, s, z, t, y) ==
    /\ AreFrames(fr, m) /\ L \in Nat \ {0} /\ z \in Nat /\ y = z + 1 + L
    /\ \A i \in 1 .. m : gr[i].len = fr[i].len
    /\ gr[m + 1].len = L
    /\ \A i \in 1 .. z : t[i] = s[i]
    /\ \A i \in z + 1 .. y : t[i].f = m + 1 /\ t[i].p = i - z

\* The bytes of one more frame behind a stream.
LEMMA SentExtended ==
    ASSUME NEW fr, NEW m, NEW gr, NEW L, NEW s, NEW z, NEW t, NEW y,
           Extends(fr, m, gr, L, s, z, t, y), Sent(fr, m, s, z)
    PROVE  /\ Sent(gr, m + 1, t, y)
           /\ \A i \in 1 .. z : /\ t[i].f \in 1 .. m /\ t[i].p \in Nat
                                /\ SizeOf(gr, t[i]) = SizeOf(fr, s[i]) /\ SizeOf(fr, s[i]) \in Nat
           /\ \A i \in z + 1 .. y : SizeOf(gr, t[i]) = 1 + L
<1>e. /\ AreFrames(fr, m) /\ L \in Nat \ {0} /\ z \in Nat /\ y = z + 1 + L
      /\ \A i \in 1 .. m : gr[i].len = fr[i].len
      /\ gr[m + 1].len = L
      /\ \A i \in 1 .. z : t[i] = s[i]
      /\ \A i \in z + 1 .. y : t[i].f = m + 1 /\ t[i].p = i - z
  BY DEF Extends
<1> USE <1>e
<1>1. m \in Nat /\ \A i \in 1 .. y : i \in 1 .. z \/ i \in z + 1 .. y
  BY DEF AreFrames
<1>2. ASSUME NEW i \in 1 .. z
      PROVE  /\ t[i].f \in 1 .. m /\ t[i].p \in 1 .. SizeOf(gr, t[i])
             /\ SizeOf(gr, t[i]) = SizeOf(fr, s[i]) /\ SizeOf(fr, s[i]) \in Nat
  <2>1. t[i] = s[i] /\ s[i].f \in 1 .. m /\ s[i].p \in 1 .. SizeOf(fr, s[i])
    BY DEF Sent
  <2>2. SizeOf(gr, s[i]) = SizeOf(fr, s[i]) /\ SizeOf(fr, s[i]) \in Nat
    BY <2>1 DEF SizeOf, AreFrames
  <2> QED BY <2>1, <2>2
<1>3. ASSUME NEW i \in z + 1 .. y
      PROVE  /\ t[i].f = m + 1 /\ t[i].p \in 1 .. SizeOf(gr, t[i])
             /\ SizeOf(gr, t[i]) = 1 + L
  <2>1. t[i].f = m + 1 /\ t[i].p = i - z /\ i - z \in 1 .. 1 + L
    OBVIOUS
  <2>2. SizeOf(gr, t[i]) = 1 + L
    BY <2>1 DEF SizeOf
  <2> QED BY <2>1, <2>2
<1>4. Sent(gr, m + 1, t, y)
  <2> SUFFICES ASSUME NEW i \in 1 .. y
               PROVE  t[i].f \in 1 .. m + 1 /\ t[i].p \in 1 .. SizeOf(gr, t[i])
    BY DEF Sent
  <2>1. CASE i \in 1 .. z
    BY <1>1, <1>2, <2>1
  <2>2. CASE i \in z + 1 .. y
    <3>1. t[i].f = m + 1 /\ m + 1 \in 1 .. m + 1
      BY <1>1, <1>3, <2>2
    <3> QED BY <1>3, <2>2, <3>1
  <2> QED BY <1>1, <2>1, <2>2
<1>5. \A i \in 1 .. z : t[i].p \in Nat
  BY <1>2
<1> QED BY <1>2, <1>3, <1>4, <1>5

\* A stream that ends with a frame goes on with the next one.
LEMMA TrackExtended ==
    ASSUME NEW fr, NEW m, NEW gr, NEW L, NEW s, NEW z, NEW t, NEW y, NEW n,
           Extends(fr, m, gr, L, s, z, t, y), Sent(fr, m, s, z),
           OnTrack(fr, n, s, z), Whole(fr, m, n, s, z)
    PROVE  OnTrack(gr, n, t, y) /\ Whole(gr, m + 1, n, t, y)
<1>e. /\ AreFrames(fr, m) /\ L \in Nat \ {0} /\ z \in Nat /\ y = z + 1 + L
      /\ \A i \in 1 .. m : gr[i].len = fr[i].len
      /\ gr[m + 1].len = L
      /\ \A i \in 1 .. z : t[i] = s[i]
      /\ \A i \in z + 1 .. y : t[i].f = m + 1 /\ t[i].p = i - z
  BY DEF Extends
<1> USE <1>e
<1>1. /\ \A i \in 1 .. z : /\ t[i].f \in 1 .. m /\ t[i].p \in Nat
                           /\ SizeOf(gr, t[i]) = SizeOf(fr, s[i]) /\ SizeOf(fr, s[i]) \in Nat
      /\ \A i \in z + 1 .. y : SizeOf(gr, t[i]) = 1 + L
  BY SentExtended
<1>2. /\ m \in Nat /\ y \in Nat /\ y > 0
      /\ \A i \in 1 .. y : i \in 1 .. z \/ i \in z + 1 .. y
  BY DEF AreFrames
<1>3. t[1].f = n + 1 /\ t[1].p = 1
  <2>1. CASE z = 0
    <3>1. 1 \in z + 1 .. y /\ 1 - z = 1 /\ n = m
      BY <2>1 DEF Whole
    <3> QED BY <3>1
  <2>2. CASE z > 0
    BY <2>2 DEF OnTrack
  <2> QED BY <2>1, <2>2
<1>4. ASSUME NEW i \in 1 .. y - 1 PROVE Follows(gr, t[i], t[i + 1])
  <2>1. CASE i < z
    <3>1. i \in 1 .. z - 1 /\ i \in 1 .. z /\ i + 1 \in 1 .. z
      BY <2>1
    <3>2. Follows(fr, s[i], s[i + 1])
      BY <3>1 DEF OnTrack
    <3>3. t[i] = s[i] /\ t[i + 1] = s[i + 1] /\ SizeOf(gr, t[i]) = SizeOf(fr, s[i])
      BY <1>1, <3>1
    <3> QED BY <3>2, <3>3 DEF Follows
  <2>2. CASE i = z
    <3>1. i \in 1 .. z /\ i + 1 \in z + 1 .. y /\ (i + 1) - z = 1 /\ z > 0
      BY <2>2
    <3>2. t[i].f = m /\ z - z >= SizeOf(fr, s[i]) - s[i].p /\ t[i] = s[i]
      BY <2>2, <3>1 DEF Whole
    <3>3. ~(t[i].p < SizeOf(gr, t[i]))
      BY <1>1, <3>1, <3>2
    <3>4. t[i + 1].f = m + 1 /\ t[i + 1].p = 1
      BY <3>1
    <3> QED BY <3>2, <3>3, <3>4 DEF Follows
  <2>3. CASE i > z
    <3>1. i \in z + 1 .. y /\ i + 1 \in z + 1 .. y /\ i - z < 1 + L /\ (i + 1) - z = (i - z) + 1
      BY <2>3
    <3>2. /\ t[i].f = m + 1 /\ t[i].p = i - z /\ SizeOf(gr, t[i]) = 1 + L
          /\ t[i + 1].f = m + 1 /\ t[i + 1].p = (i - z) + 1
      BY <1>1, <3>1
    <3> QED BY <3>1, <3>2 DEF Follows
  <2> QED BY <2>1, <2>2, <2>3
<1>5. ASSUME NEW i \in 1 .. y, NEW j \in 1 .. y, i <= j PROVE Spaced(gr, t[i], t[j], j - i)
  <2>1. CASE j <= z
    <3>1. i \in 1 .. z /\ j \in 1 .. z
      BY <1>5, <2>1
    <3>2. Spaced(fr, s[i], s[j], j - i)
      BY <1>5, <3>1 DEF OnTrack
    <3>3. t[i] = s[i] /\ t[j] = s[j] /\ SizeOf(gr, t[i]) = SizeOf(fr, s[i])
      BY <1>1, <3>1
    <3> QED BY <3>2, <3>3 DEF Spaced
  <2>2. CASE i <= z /\ z < j
    <3>1. i \in 1 .. z /\ j \in z + 1 .. y
      BY <2>2
    <3>2. /\ t[i].f \in 1 .. m /\ t[i].p \in Nat /\ t[i] = s[i]
          /\ SizeOf(gr, t[i]) = SizeOf(fr, s[i]) /\ SizeOf(fr, s[i]) \in Nat
          /\ t[j].f = m + 1 /\ t[j].p = j - z
      BY <1>1, <3>1
    <3>3. z - i >= SizeOf(gr, t[i]) - t[i].p
      BY <3>1, <3>2 DEF Whole
    <3>4. j - i >= SizeOf(gr, t[i]) - t[i].p + (j - z)
      BY <3>1, <3>2, <3>3
    <3>5. t[i].f < m + 1 /\ t[i].f # m + 1
      BY <1>2, <3>2
    <3> QED BY <3>2, <3>4, <3>5 DEF Spaced
  <2>3. CASE z < i
    <3>1. i \in z + 1 .. y /\ j \in z + 1 .. y /\ j - z = (i - z) + (j - i)
      BY <1>5, <2>3
    <3>2. t[i].f = t[j].f /\ t[i].p = i - z /\ t[j].p = j - z
      BY <3>1
    <3> QED BY <3>1, <3>2 DEF Spaced
  <2> QED BY <2>1, <2>2, <2>3
<1>6. Whole(gr, m + 1, n, t, y)
  <2>1. t[y].f = m + 1
    <3>1. y \in z + 1 .. y
      BY <1>2
    <3> QED BY <3>1
  <2>2. ASSUME NEW i \in 1 .. y PROVE y - i >= SizeOf(gr, t[i]) - t[i].p
    <3>1. CASE i \in 1 .. z
      <4>1. z - i >= SizeOf(fr, s[i]) - s[i].p /\ t[i] = s[i]
        BY <3>1 DEF Whole
      <4> QED BY <1>1, <3>1, <4>1
    <3>2. CASE i \in z + 1 .. y
      <4>1. t[i].p = i - z /\ SizeOf(gr, t[i]) = 1 + L
        BY <1>1, <3>2
      <4> QED BY <3>2, <4>1
    <3> QED BY <1>2, <3>1, <3>2
  <2> QED BY <1>2, <2>1, <2>2 DEF Whole
<1> QED BY <1>2, <1>3, <1>4, <1>5, <1>6 DEF OnTrack

-----------------------------------------------------------------------------
(***************************************************************************)
(* A ring as a cache.                                                      *)
(***************************************************************************)
\* Reading n of the bytes that a ring holds leaves the others.
LEMMA RingTaken ==
    ASSUME NEW r, IsRing(r), OnlyBytes(r), NEW n \in 1 .. Readable(r)
    PROVE  /\ IsRing(RingRead(r, n)) /\ OnlyBytes(RingRead(r, n))
           /\ RingRead(r, n).size = r.size /\ RingRead(r, n).last = "read"
           /\ Readable(RingRead(r, n)) = Readable(r) - n
           /\ \A i \in 1 .. Readable(r) - n : Contents(RingRead(r, n))[i] = Contents(r)[n + i]
           /\ \A i \in 1 .. n : PeekBytes(r, n)[i] = Contents(r)[i]
<1>1. /\ Readable(r) \in Nat /\ Readable(r) > 0 /\ n \in Nat \ {0} /\ n \in 0 .. Readable(r)
      /\ r.w_offset = r.r_offset /\ r.last # "write" => Readable(r) = 0
  BY ReadablePlusRoom, RingFields
<1>2. ReadCount(r, n) = n /\ ~(r.w_offset = r.r_offset /\ r.last # "write")
  BY <1>1 DEF ReadCount, MinOf
<1>3. RingRead(r, n) = Consume(r, n) /\ PeekBytes(r, n) = SubSeq(Contents(r), 1, n)
  BY <1>1, <1>2, FetchIsPrefix DEF RingRead, PeekBytes
<1>4. /\ IsRing(Consume(r, n)) /\ Consume(r, n).size = r.size /\ Consume(r, n).last = "read"
      /\ Contents(Consume(r, n)) = SubSeq(Contents(r), n + 1, Len(Contents(r)))
      /\ \A k \in 1 .. Readable(Consume(r, n)) : Contents(Consume(r, n))[k] = Contents(r)[k + n]
      /\ Readable(Consume(r, n)) = Readable(r) - n
  BY <1>1, ConsumeStep
<1>5. OnlyBytes(Consume(r, n))
  BY <1>1, <1>4, SuffixOfBytes
<1>6. \A i \in 1 .. n : SubSeq(Contents(r), 1, n)[i] = Contents(r)[i]
  <2>1. \A i \in 1 .. n : Contents(r)[i] \in Byte
    BY <1>1 DEF OnlyBytes
  <2>2. 1 \in Int /\ n \in Int /\ n - 1 + 1 = n /\ \A i \in 1 .. n : 1 + i - 1 = i
    BY <1>1
  <2> HIDE DEF IsRing, OnlyBytes
  <2> QED BY <2>1, <2>2, SubSeqProperties
<1>7. \A i \in 1 .. Readable(r) - n : n + i = i + n
  BY <1>1
<1> QED BY <1>3, <1>4, <1>5, <1>6, <1>7

-----------------------------------------------------------------------------
(***************************************************************************)
(* The receiving callbacks.                                                *)
(***************************************************************************)
Places == [f : Nat, p : Nat]

\* The hypothesis of the theorem, which only says for which constants of the
\* lemmas about rings it is stated: the cache has one of their sizes, a chunk
\* the length of one of their calls, and the bytes are places.
Receiving == RingSize \in Sizes /\ ChunkMax \in 1 .. MaxCall /\ Byte = Places

CacheOK(c) ==
    c = NoCache \/ (IsRing(c) /\ OnlyBytes(c) /\ c.last # "na" /\ c.size = RingSize)
HeldLen(c)  == IF c = NoCache THEN 0 ELSE Readable(c)
HeldOf(c)   == IF c = NoCache THEN << >> ELSE Contents(c)
Ahead(c, w) == HeldOf(c) \o w

\* What comes next on a connection: bytes of frames that were sent, and as
\* long as none was lost they go on behind frame n, up to the end of the last
\* frame if the peer has not closed.
Coming(fr, a, e, n, ls) ==
    /\ Sent(fr, Len(fr), a, Len(a))
    /\ ls = 0 => /\ OnTrack(fr, n, a, Len(a))
                 /\ ~e => Whole(fr, Len(fr), n, a, Len(a))

RxTypes ==
    /\ side \in Sides /\ frames \in Seq([len : TableLens, ok : BOOLEAN])
    /\ wire \in Seq(Places) /\ eof \in BOOLEAN /\ pc \in {"wait", "parse"} /\ lost \in Nat
    /\ handled \in Seq(0 .. Len(frames))
    /\ CacheOK(cache) /\ (pc = "parse" => cache # NoCache)

\* The inductive invariant.  That the stream continues at a header is not
\* inductive: to know where the next frame begins one has to know how far
\* apart any two bytes of the stream are, and that it ends with a frame.
RxInv ==
    /\ RxTypes
    /\ Coming(frames, Ahead(cache, wire), eof, Len(handled), lost)
    /\ InOrder

\* The bytes that a connection still has to handle, one by one.
LEMMA AheadBytes ==
    ASSUME Receiving, NEW c, CacheOK(c), NEW w \in Seq(Places)
    PROVE  /\ HeldOf(c) \in Seq(Places) /\ Len(HeldOf(c)) = HeldLen(c) /\ HeldLen(c) \in Nat
           /\ Ahead(c, w) \in Seq(Places) /\ Len(Ahead(c, w)) = HeldLen(c) + Len(w)
           /\ \A i \in 1 .. HeldLen(c) : Ahead(c, w)[i] = HeldOf(c)[i]
           /\ \A i \in 1 .. Len(w) : Ahead(c, w)[HeldLen(c) + i] = w[i]
           /\ c # NoCache => HeldOf(c) = Contents(c) /\ HeldLen(c) = Readable(c)
<1>1. /\ HeldOf(c) \in Seq(Places) /\ Len(HeldOf(c)) = HeldLen(c) /\ HeldLen(c) \in Nat
  <2>1. CASE c = NoCache
    <3>1. HeldOf(c) = << >> /\ HeldLen(c) = 0
      BY <2>1 DEF HeldOf, HeldLen
    <3> QED BY <3>1, EmptySeq
  <2>2. CASE c # NoCache
    <3>1. HeldOf(c) = Contents(c) /\ HeldLen(c) = Readable(c) /\ IsRing(c) /\ OnlyBytes(c)
      BY <2>2 DEF HeldOf, HeldLen, CacheOK
    <3>2. Readable(c) \in Nat /\ Readable(c) \in 0 .. Readable(c)
      BY <3>1, ReadablePlusRoom, RingFields
    <3>3. Len(Contents(c)) = Readable(c) /\ Contents(c) \in Seq(Memory)
      BY <3>1, ContentsSeq
    <3>4. SubSeq(Contents(c), 1, Readable(c)) \in Seq(Byte)
      BY <3>1, <3>2, PrefixOfBytes
    <3>5. SubSeq(Contents(c), 1, Readable(c)) = Contents(c)
      BY <3>3, SubSeqFull
    <3> QED BY <3>1, <3>2, <3>3, <3>4, <3>5 DEF Receiving
  <2> QED BY <2>1, <2>2
<1> DEFINE h == HeldOf(c)
           n == HeldLen(c)
<1>2. c # NoCache => h = Contents(c) /\ n = Readable(c)
  BY DEF HeldOf, HeldLen
<1>3. Ahead(c, w) = h \o w
  BY DEF Ahead
<1> HIDE DEF h, n
<1>4. h \in Seq(Places) /\ Len(h) = n /\ n \in Nat
  BY <1>1 DEF h, n
<1>5. /\ h \o w \in Seq(Places) /\ Len(h \o w) = n + Len(w)
      /\ \A i \in 1 .. n + Len(w) : (h \o w)[i] = IF i <= n THEN h[i] ELSE w[i - n]
  BY <1>4, ConcatProperties
<1>6. Len(w) \in Nat
  BY LenProperties
<1>7. \A i \in 1 .. n : (h \o w)[i] = h[i]
  BY <1>4, <1>5, <1>6
<1>8. ASSUME NEW i \in 1 .. Len(w) PROVE (h \o w)[n + i] = w[i]
  <2>1. n + i \in 1 .. n + Len(w) /\ ~(n + i <= n) /\ (n + i) - n = i
    BY <1>4, <1>6
  <2> QED BY <1>5, <2>1
<1> QED BY <1>1, <1>2, <1>3, <1>5, <1>7, <1>8 DEF h, n

\* The frames have lengths.
LEMMA FramesAre ==
    ASSUME Receiving, NEW fr \in Seq([len : TableLens, ok : BOOLEAN])
    PROVE  /\ AreFrames(fr, Len(fr)) /\ Len(fr) \in Nat
           /\ \A i \in 1 .. Len(fr) : fr[i].len \in TableLens /\ fr[i].ok \in BOOLEAN
<1>1. /\ Len(fr) \in Nat
      /\ \A i \in 1 .. Len(fr) : fr[i] \in [len : TableLens, ok : BOOLEAN]
  BY LenProperties, ElementOfSeq
<1>2. \A i \in 1 .. Len(fr) : fr[i].len \in TableLens /\ fr[i].ok \in BOOLEAN
  BY <1>1
<1> QED BY <1>1, <1>2, FramesAssumption DEF AreFrames

\* A connection that has not been used.
LEMMA NothingComes ==
    ASSUME Receiving, NEW e, NEW fr, fr = << >>, NEW w, w = << >>
    PROVE  CacheOK(NoCache) /\ Coming(fr, Ahead(NoCache, w), e, 0, 0)
<1>1. CacheOK(NoCache) /\ HeldLen(NoCache) = 0
  BY DEF CacheOK, HeldLen
<1>2. w \in Seq(Places) /\ Len(w) = 0 /\ Len(fr) = 0
  BY EmptySeq
<1>3. Len(Ahead(NoCache, w)) = 0
  <2>1. PICK c : c = NoCache
    OBVIOUS
  <2>2. Len(Ahead(c, w)) = HeldLen(c) + Len(w)
    BY <1>1, <1>2, <2>1, AheadBytes
  <2> QED BY <1>1, <1>2, <2>1, <2>2
<1>4. /\ \A m, a : Sent(fr, m, a, 0) /\ OnTrack(fr, 0, a, 0)
      /\ \A a : Whole(fr, 0, 0, a, 0)
  BY DEF Sent, OnTrack, Whole
<1> QED BY <1>1, <1>2, <1>3, <1>4 DEF Coming

\* A connection starts like that.
LEMMA RxStarts ==
    ASSUME Receiving, RxInit
    PROVE  RxInv
<1>1. /\ side \in Sides /\ frames = << >> /\ wire = << >> /\ eof = FALSE
      /\ cache = NoCache /\ pc = "wait" /\ handled = << >> /\ lost = 0
  BY DEF RxInit, NoCache
<1>2. CacheOK(NoCache) /\ Coming(frames, Ahead(NoCache, wire), eof, 0, 0)
  BY <1>1, NothingComes
<1>3. /\ frames \in Seq([len : TableLens, ok : BOOLEAN]) /\ wire \in Seq(Places)
      /\ handled \in Seq(0 .. Len(frames)) /\ Len(handled) = 0
  BY <1>1, EmptySeq
<1>4. RxTypes
  BY <1>1, <1>2, <1>3 DEF RxTypes
<1>5. InOrder
  BY <1>3 DEF InOrder
<1> QED BY <1>1, <1>2, <1>3, <1>4, <1>5 DEF RxInv

\* The bytes of a frame.
LEMMA BytesOfFrame ==
    ASSUME NEW f \in Nat, NEW len \in Nat
    PROVE  /\ FrameBytes(f, len) \in Seq(Places) /\ Len(FrameBytes(f, len)) = 1 + len
           /\ \A i \in 1 .. 1 + len : /\ FrameBytes(f, len)[i].f = f
                                      /\ FrameBytes(f, len)[i].p = i
<1>1. FrameBytes(f, len) = [i \in 1 .. (1 + len) |-> [f |-> f, p |-> i]]
  BY DEF FrameBytes, Hdr
<1>2. [i \in 1 .. (1 + len) |-> [f |-> f, p |-> i]] \in [1 .. (1 + len) -> Places]
  BY DEF Places
<1>3. 1 + len \in Nat
  OBVIOUS
<1>4. /\ FrameBytes(f, len) \in Seq(Places) /\ Len(FrameBytes(f, len)) = 1 + len
  BY <1>1, <1>2, <1>3, Tabulated
<1>5. \A i \in 1 .. 1 + len : FrameBytes(f, len)[i] = [f |-> f, p |-> i]
  BY <1>1
<1> QED BY <1>4, <1>5

\* The peer sends a frame.
LEMMA SendKeeps ==
    ASSUME Receiving, RxInv, NEW len \in TableLens, NEW ok \in Results, Send(len, ok)
    PROVE  RxInv'
<1> DEFINE m  == Len(frames)
           fb == FrameBytes(m + 1, len)
           r  == [len |-> len, ok |-> ok]
           gr == Append(frames, r)
           w  == wire \o fb
           s  == Ahead(cache, wire)
           t  == Ahead(cache, w)
           z  == Len(s)
           y  == Len(t)
           k  == Len(handled)
<1>1. /\ ~eof /\ frames' = gr /\ wire' = w /\ side' = side /\ eof' = eof /\ cache' = cache
      /\ pc' = pc /\ handled' = handled /\ lost' = lost
  BY DEF Send
<1>2. RxTypes /\ Coming(frames, s, eof, k, lost) /\ InOrder
  BY DEF RxInv
<1>3. /\ frames \in Seq([len : TableLens, ok : BOOLEAN]) /\ wire \in Seq(Places) /\ CacheOK(cache)
      /\ handled \in Seq(0 .. m)
  BY <1>2 DEF RxTypes
<1>4. /\ AreFrames(frames, m) /\ m \in Nat /\ len \in Nat \ {0} /\ ok \in BOOLEAN
  BY <1>3, FramesAre, FramesAssumption
<1>5. r \in [len : TableLens, ok : BOOLEAN] /\ r.len = len
  BY <1>4
<1>6. /\ gr \in Seq([len : TableLens, ok : BOOLEAN]) /\ Len(gr) = m + 1
      /\ \A i \in 1 .. m : gr[i] = frames[i]
      /\ gr[m + 1] = r
  <2> HIDE DEF r
  <2> QED BY <1>3, <1>5, AppendProperties
<1>7. (\A i \in 1 .. m : gr[i].len = frames[i].len) /\ gr[m + 1].len = len
  BY <1>5, <1>6
<1>8. /\ fb \in Seq(Places) /\ Len(fb) = 1 + len
      /\ \A i \in 1 .. 1 + len : fb[i].f = m + 1 /\ fb[i].p = i
  <2>1. m + 1 \in Nat /\ len \in Nat
    BY <1>4
  <2> QED BY <2>1, BytesOfFrame
<1> HIDE DEF fb, m, gr, r
<1>9. /\ w \in Seq(Places) /\ Len(w) = Len(wire) + (1 + len) /\ Len(wire) \in Nat
      /\ \A i \in 1 .. Len(wire) : w[i] = wire[i]
      /\ \A i \in 1 .. 1 + len : w[Len(wire) + i] = fb[i]
  <2>1. /\ w \in Seq(Places) /\ Len(w) = Len(wire) + Len(fb) /\ Len(wire) \in Nat
        /\ \A i \in 1 .. Len(wire) + Len(fb) :
              w[i] = IF i <= Len(wire) THEN wire[i] ELSE fb[i - Len(wire)]
    BY <1>3, <1>8, ConcatProperties, LenProperties
  <2>2. \A i \in 1 .. Len(wire) : i \in 1 .. Len(wire) + Len(fb) /\ i <= Len(wire)
    BY <1>4, <1>8, <2>1
  <2>3. \A i \in 1 .. 1 + len : /\ Len(wire) + i \in 1 .. Len(wire) + Len(fb)
                                /\ ~(Len(wire) + i <= Len(wire)) /\ (Len(wire) + i) - Len(wire) = i
    BY <1>4, <1>8, <2>1
  <2> HIDE DEF w
  <2> QED BY <1>8, <2>1, <2>2, <2>3
<1> HIDE DEF w
<1>10. /\ HeldLen(cache) \in Nat /\ z = HeldLen(cache) + Len(wire) /\ s \in Seq(Places)
       /\ \A i \in 1 .. HeldLen(cache) : s[i] = HeldOf(cache)[i]
       /\ \A i \in 1 .. Len(wire) : s[HeldLen(cache) + i] = wire[i]
  BY <1>3, AheadBytes
<1>11. /\ y = HeldLen(cache) + Len(w) /\ t \in Seq(Places)
       /\ \A i \in 1 .. HeldLen(cache) : t[i] = HeldOf(cache)[i]
       /\ \A i \in 1 .. Len(w) : t[HeldLen(cache) + i] = w[i]
  BY <1>3, <1>9, AheadBytes
<1> HIDE DEF s, t, z, y
<1>12. y = z + 1 + len /\ z \in Nat
  BY <1>4, <1>9, <1>10, <1>11
<1>13. ASSUME NEW i \in 1 .. z PROVE t[i] = s[i]
  <2>1. CASE i <= HeldLen(cache)
    BY <1>10, <1>11, <2>1
  <2>2. CASE i > HeldLen(cache)
    <3>1. /\ i - HeldLen(cache) \in 1 .. Len(wire) /\ i - HeldLen(cache) \in 1 .. Len(w)
          /\ HeldLen(cache) + (i - HeldLen(cache)) = i
      BY <1>4, <1>9, <1>10, <2>2
    <3>2. s[i] = wire[i - HeldLen(cache)] /\ t[i] = w[i - HeldLen(cache)]
      BY <1>10, <1>11, <3>1
    <3> QED BY <1>9, <3>1, <3>2
  <2> QED BY <1>10, <2>1, <2>2
<1>14. ASSUME NEW i \in z + 1 .. y PROVE t[i].f = m + 1 /\ t[i].p = i - z
  <2>0. /\ z = HeldLen(cache) + Len(wire) /\ Len(w) = Len(wire) + (1 + len)
        /\ HeldLen(cache) \in Nat /\ Len(wire) \in Nat
    BY <1>9, <1>10
  <2>1. /\ i - z \in 1 .. 1 + len /\ Len(wire) + (i - z) \in 1 .. Len(w)
        /\ HeldLen(cache) + (Len(wire) + (i - z)) = i
    <3>1. i \in Int /\ len \in Nat /\ i > z /\ i <= z + 1 + len
      BY <1>4, <1>12
    <3>2. i - z \in 1 .. 1 + len
      BY <1>4, <1>12, <3>1
    <3>3. ASSUME NEW h \in Nat, NEW v \in Nat, z = h + v
          PROVE  v + (i - z) \in 1 .. v + (1 + len) /\ h + (v + (i - z)) = i
      BY <3>1, <3>2, <3>3
    <3> QED BY <2>0, <3>2, <3>3
  <2>2. t[i] = w[Len(wire) + (i - z)] /\ w[Len(wire) + (i - z)] = fb[i - z]
    BY <1>9, <1>11, <2>1
  <2> QED BY <1>8, <2>1, <2>2
<1>15. /\ Sent(frames, m, s, z)
       /\ lost = 0 => OnTrack(frames, k, s, z) /\ Whole(frames, m, k, s, z)
  BY <1>1, <1>2 DEF Coming, m, z
<1>b. Extends(frames, m, gr, len, s, z, t, y)
  BY <1>4, <1>7, <1>12, <1>13, <1>14 DEF Extends
<1>16. Sent(gr, m + 1, t, y)
  BY <1>b, <1>15, SentExtended
<1>17. lost = 0 => OnTrack(gr, k, t, y) /\ Whole(gr, m + 1, k, t, y)
  BY <1>b, <1>15, TrackExtended
<1>18. Coming(gr, t, eof, k, lost)
  BY <1>6, <1>16, <1>17 DEF Coming, y
<1>19. handled \in Seq(0 .. m + 1)
  <2>1. 0 .. m \subseteq 0 .. m + 1
    BY <1>4
  <2> QED BY <1>3, <2>1, SeqMonotonic
<1>20. RxTypes'
  BY <1>1, <1>2, <1>6, <1>9, <1>19 DEF RxTypes
<1>21. InOrder'
  BY <1>1, <1>2 DEF InOrder
<1> QED BY <1>1, <1>18, <1>20, <1>21 DEF RxInv, t

\* The peer closes.
LEMMA PeerCloseKeeps ==
    ASSUME Receiving, RxInv, NEW d \in 0 .. Len(wire), PeerClose(d)
    PROVE  RxInv'
<1> DEFINE m == Len(frames)
           w == SubSeq(wire, 1, Len(wire) - d)
           s == Ahead(cache, wire)
           t == Ahead(cache, w)
           z == Len(s)
           y == Len(t)
           k == Len(handled)
<1>1. /\ frames' = frames /\ wire' = w /\ side' = side /\ eof' = TRUE /\ cache' = cache
      /\ pc' = pc /\ handled' = handled /\ lost' = lost
  BY DEF PeerClose
<1>2. RxTypes /\ Coming(frames, s, eof, k, lost) /\ InOrder
  BY DEF RxInv
<1>3. /\ frames \in Seq([len : TableLens, ok : BOOLEAN]) /\ wire \in Seq(Places) /\ CacheOK(cache)
  BY <1>2 DEF RxTypes
<1>4. AreFrames(frames, m)
  BY <1>3, FramesAre
<1>5. /\ w \in Seq(Places) /\ Len(w) = Len(wire) - d /\ Len(wire) \in Nat
      /\ \A i \in 1 .. Len(wire) - d : w[i] = wire[i]
  <2>1. Len(wire) \in Nat /\ \A i \in 1 .. Len(wire) : wire[i] \in Places
    BY <1>3, LenProperties, ElementOfSeq
  <2>2. PICK e : e = Len(wire) - d
    OBVIOUS
  <2>3. e \in Nat /\ \A i \in 0 + 1 .. e : wire[i] \in Places
    BY <2>1, <2>2
  <2>4. /\ SubSeq(wire, 0 + 1, e) \in Seq(Places) /\ Len(SubSeq(wire, 0 + 1, e)) = e - 0
        /\ \A i \in 1 .. e - 0 : SubSeq(wire, 0 + 1, e)[i] = wire[0 + i]
    BY <2>3, Part
  <2>5. 0 + 1 = 1 /\ e - 0 = e /\ \A i \in 1 .. e : 0 + i = i
    BY <2>3
  <2>6. w = SubSeq(wire, 0 + 1, e)
    BY <2>2, <2>5
  <2>7. \A i \in 1 .. e : SubSeq(wire, 0 + 1, e)[i] = wire[i]
    BY <2>4, <2>5
  <2> HIDE DEF w
  <2> QED BY <2>1, <2>2, <2>4, <2>5, <2>6, <2>7
<1> HIDE DEF w
<1>6. /\ HeldLen(cache) \in Nat /\ z = HeldLen(cache) + Len(wire)
      /\ \A i \in 1 .. HeldLen(cache) : s[i] = HeldOf(cache)[i]
      /\ \A i \in 1 .. Len(wire) : s[HeldLen(cache) + i] = wire[i]
  BY <1>3, AheadBytes
<1>7. /\ y = HeldLen(cache) + Len(w)
      /\ \A i \in 1 .. HeldLen(cache) : t[i] = HeldOf(cache)[i]
      /\ \A i \in 1 .. Len(w) : t[HeldLen(cache) + i] = w[i]
  BY <1>3, <1>5, AheadBytes
<1> HIDE DEF s, t, z, y
<1>8. y \in 0 .. z /\ z \in Nat
  BY <1>5, <1>6, <1>7
<1>9. ASSUME NEW i \in 1 .. y PROVE t[i] = s[i]
  <2>1. CASE i <= HeldLen(cache)
    BY <1>6, <1>7, <2>1
  <2>2. CASE i > HeldLen(cache)
    <3>1. /\ i - HeldLen(cache) \in 1 .. Len(wire) /\ i - HeldLen(cache) \in 1 .. Len(w)
          /\ i - HeldLen(cache) \in 1 .. Len(wire) - d /\ HeldLen(cache) + (i - HeldLen(cache)) = i
      BY <1>5, <1>6, <1>7, <2>2
    <3>2. s[i] = wire[i - HeldLen(cache)] /\ t[i] = w[i - HeldLen(cache)]
      BY <1>6, <1>7, <3>1
    <3> QED BY <1>5, <3>1, <3>2
  <2> QED BY <1>6, <1>7, <2>1, <2>2
<1>10. /\ Sent(frames, m, s, z)
       /\ lost = 0 => OnTrack(frames, k, s, z)
  BY <1>2 DEF Coming, z
<1>11. Sent(frames, m, t, y) /\ (lost = 0 => OnTrack(frames, k, t, y))
  BY <1>4, <1>8, <1>9, <1>10, TrackCut
<1>12. Coming(frames, t, TRUE, k, lost)
  BY <1>11 DEF Coming, y
<1>13. RxTypes'
  BY <1>1, <1>2, <1>5 DEF RxTypes
<1>14. InOrder'
  BY <1>1, <1>2 DEF InOrder
<1> QED BY <1>1, <1>12, <1>13, <1>14 DEF RxInv, t

\* recv returned 0.
LEMMA ClosedKeeps ==
    ASSUME Receiving, RxInv, Closed
    PROVE  RxInv'
<1>1. /\ pc = "wait" /\ wire = << >> /\ cache' = NoCache /\ frames' = << >> /\ eof' = FALSE
      /\ handled' = << >> /\ lost' = 0 /\ side' = side /\ wire' = wire /\ pc' = pc
  BY DEF Closed, DropCache, NoCache
<1>2. side \in Sides
  BY DEF RxInv, RxTypes
<1>3. CacheOK(NoCache) /\ Coming(frames', Ahead(NoCache, wire'), eof', 0, 0)
  BY <1>1, NothingComes
<1>4. /\ frames' \in Seq([len : TableLens, ok : BOOLEAN]) /\ wire' \in Seq(Places)
      /\ handled' \in Seq(0 .. Len(frames')) /\ Len(handled') = 0
  BY <1>1, EmptySeq
<1>5. RxTypes'
  BY <1>1, <1>2, <1>3, <1>4 DEF RxTypes
<1>6. InOrder'
  BY <1>4 DEF InOrder
<1> QED BY <1>1, <1>3, <1>4, <1>5, <1>6 DEF RxInv

\* Too little for a frame.
LEMMA IncompleteKeeps ==
    ASSUME RxInv, Incomplete
    PROVE  RxInv'
<1>1. /\ pc' = "wait" /\ side' = side /\ frames' = frames /\ wire' = wire /\ eof' = eof
      /\ cache' = cache /\ handled' = handled /\ lost' = lost
  BY DEF Incomplete
<1>2. RxTypes'
  BY <1>1 DEF RxInv, RxTypes
<1>3. Coming(frames', Ahead(cache', wire'), eof', Len(handled'), lost')
  BY <1>1 DEF RxInv
<1>4. InOrder'
  BY <1>1 DEF RxInv, InOrder
<1> QED BY <1>2, <1>3, <1>4 DEF RxInv

\* A chunk leaves the wire.
LEMMA WireSplit ==
    ASSUME Receiving, NEW w \in Seq(Places), NEW n \in 1 .. ChunkMax, n <= Len(w)
    PROVE  /\ SubSeq(w, 1, n) \in Writable /\ Len(SubSeq(w, 1, n)) = n
           /\ \A i \in 1 .. n : SubSeq(w, 1, n)[i] = w[i]
           /\ SubSeq(w, n + 1, Len(w)) \in Seq(Places)
           /\ Len(SubSeq(w, n + 1, Len(w))) = Len(w) - n
           /\ \A i \in 1 .. Len(w) - n : SubSeq(w, n + 1, Len(w))[i] = w[n + i]
<1>1. /\ Len(w) \in Nat /\ n \in Nat \ {0} /\ n \in 1 .. MaxCall
      /\ \A i \in 1 .. Len(w) : w[i] \in Places
  BY LenProperties, ElementOfSeq, MaxCallAssumption DEF Receiving
<1>2. PICK z : z = Len(w)
  OBVIOUS
<1>3. z \in Nat /\ n <= z /\ \A i \in n + 1 .. z : w[i] \in Places
  BY <1>1, <1>2
<1>4. /\ SubSeq(w, n + 1, z) \in Seq(Places) /\ Len(SubSeq(w, n + 1, z)) = z - n
      /\ \A i \in 1 .. z - n : SubSeq(w, n + 1, z)[i] = w[n + i]
  BY <1>1, <1>3, Part
<1>5. PICK o : o = 0
  OBVIOUS
<1>6. o \in Nat /\ o <= n /\ n \in Nat /\ \A i \in o + 1 .. n : w[i] \in Places
  BY <1>1, <1>3, <1>5, <1>2
<1>7. /\ SubSeq(w, o + 1, n) \in Seq(Places) /\ Len(SubSeq(w, o + 1, n)) = n - o
      /\ \A i \in 1 .. n - o : SubSeq(w, o + 1, n)[i] = w[o + i]
  BY <1>6, Part
<1>8. o + 1 = 1 /\ n - o = n /\ \A i \in 1 .. n : o + i = i
  BY <1>1, <1>5
<1>9. /\ SubSeq(w, 1, n) \in Seq(Places) /\ Len(SubSeq(w, 1, n)) = n
      /\ \A i \in 1 .. n : SubSeq(w, 1, n)[i] = w[i]
  BY <1>7, <1>8
<1>10. SubSeq(w, 1, n) \in Writable
  <2>1. SubSeq(w, 1, n) \in [1 .. n -> Places]
    BY <1>9, LenProperties
  <2> QED BY <1>1, <2>1 DEF Writable, Receiving
<1> QED BY <1>2, <1>4, <1>9, <1>10

\* A chunk goes into the cache, as much of it as there is room for.
LEMMA CacheWritten ==
    ASSUME Receiving, NEW c, CacheOK(c), NEW src \in Writable, NEW r,
           r = IF c = NoCache THEN NewRing(RingSize) ELSE c
    PROVE  /\ CacheOK(RingWrite(r, src)) /\ RingWrite(r, src) # NoCache
           /\ WriteCount(r, src) \in 0 .. Len(src)
           /\ HeldLen(RingWrite(r, src)) = HeldLen(c) + WriteCount(r, src)
           /\ \A i \in 1 .. HeldLen(c) : HeldOf(RingWrite(r, src))[i] = HeldOf(c)[i]
           /\ \A i \in 1 .. WriteCount(r, src) :
                  HeldOf(RingWrite(r, src))[HeldLen(c) + i] = src[i]
<1> DEFINE q == RingWrite(r, src)
           l == WriteCount(r, src)
<1>1. /\ IsRing(r) /\ OnlyBytes(r) /\ r.size = RingSize /\ Readable(r) = HeldLen(c)
      /\ \A i \in 1 .. HeldLen(c) : Contents(r)[i] = HeldOf(c)[i]
  <2>1. CASE c = NoCache
    <3>1. IsRing(r) /\ r.size = RingSize /\ Readable(r) = 0
      BY <2>1, FreshRing DEF Receiving
    <3>2. HeldLen(c) = 0 /\ 1 .. 0 = {}
      BY <2>1 DEF HeldLen
    <3> QED BY <3>1, <3>2 DEF OnlyBytes
  <2>2. CASE c # NoCache
    BY <2>2 DEF CacheOK, HeldLen, HeldOf
  <2> QED BY <2>1, <2>2
<1>2. /\ IsRing(q) /\ q.size = r.size /\ q.last # "na"
      /\ Readable(q) = Readable(r) + l /\ l \in 0 .. Len(src)
      /\ \A k \in 1 .. Readable(r) : Contents(q)[k] = Contents(r)[k]
      /\ \A i \in 1 .. l : Contents(q)[Readable(r) + i] = src[i]
  BY <1>1, WriteStep
<1>3. /\ Readable(r) \in Nat /\ src \in Seq(Byte) /\ Len(src) \in Nat /\ q.size \in Nat \ {0}
  BY <1>1, <1>2, ReadablePlusRoom, RingFields, WritableSeq, LenProperties
<1> HIDE DEF q, l
<1>4. OnlyBytes(q)
  <2> SUFFICES ASSUME NEW k \in 1 .. Readable(q) PROVE Contents(q)[k] \in Byte
    BY DEF OnlyBytes
  <2>1. CASE k <= Readable(r)
    <3>1. k \in 1 .. Readable(r)
      BY <1>2, <1>3, <2>1
    <3> QED BY <1>1, <1>2, <3>1 DEF OnlyBytes
  <2>2. CASE k > Readable(r)
    <3>1. k - Readable(r) \in 1 .. l /\ Readable(r) + (k - Readable(r)) = k
      BY <1>2, <1>3, <2>2
    <3>2. k - Readable(r) \in 1 .. Len(src)
      BY <1>2, <1>3, <3>1
    <3>3. src[k - Readable(r)] \in Byte
      BY <1>3, <3>2, ElementOfSeq
    <3> QED BY <1>2, <3>1, <3>3
  <2> QED BY <1>2, <1>3, <2>1, <2>2
<1>5. q # NoCache
  BY <1>1, <1>2 DEF CacheOK, NoCache, IsRing, Ring
<1>6. HeldLen(q) = Readable(q) /\ HeldOf(q) = Contents(q)
  BY <1>5 DEF HeldLen, HeldOf
<1>7. CacheOK(q)
  BY <1>1, <1>2, <1>4 DEF CacheOK
<1> QED BY <1>1, <1>2, <1>5, <1>6, <1>7 DEF q, l

\* A chunk arrives: nothing changes in what comes, unless bytes are lost.
LEMMA ReceiveKeeps ==
    ASSUME Receiving, RxInv, NEW n \in 1 .. ChunkMax, Receive(n)
    PROVE  RxInv'
<1> DEFINE r   == IF cache = NoCache THEN NewRing(RingSize) ELSE cache
           src == SubSeq(wire, 1, n)
           w   == SubSeq(wire, n + 1, Len(wire))
           q   == RingWrite(r, src)
           l   == WriteCount(r, src)
           m   == Len(frames)
           s   == Ahead(cache, wire)
           t   == Ahead(q, w)
           k   == Len(handled)
           h   == HeldLen(cache)
           v   == Len(wire)
<1>1. /\ n <= Len(wire) /\ cache' = q /\ lost' = lost + (n - l) /\ wire' = w /\ pc' = "parse"
      /\ side' = side /\ frames' = frames /\ eof' = eof /\ handled' = handled
  BY DEF Receive, CacheInUse, NoCache
<1>2. RxTypes /\ Coming(frames, s, eof, k, lost) /\ InOrder
  BY DEF RxInv
<1>3. wire \in Seq(Places) /\ CacheOK(cache) /\ lost \in Nat /\ n \in Nat /\ ChunkMax \in Nat
  BY <1>2, MaxCallAssumption DEF RxTypes, Receiving
<1>4. /\ src \in Writable /\ Len(src) = n /\ w \in Seq(Places) /\ Len(w) = v - n
      /\ \A i \in 1 .. n : src[i] = wire[i]
      /\ \A i \in 1 .. v - n : w[i] = wire[n + i]
  BY <1>1, <1>3, WireSplit
<1> HIDE DEF src, w
<1>5. /\ CacheOK(q) /\ q # NoCache /\ l \in 0 .. n /\ HeldLen(q) = h + l
      /\ \A i \in 1 .. h : HeldOf(q)[i] = HeldOf(cache)[i]
      /\ \A i \in 1 .. l : HeldOf(q)[h + i] = src[i]
  <2>1. r = IF cache = NoCache THEN NewRing(RingSize) ELSE cache
    OBVIOUS
  <2> HIDE DEF r
  <2> QED BY <1>3, <1>4, <2>1, CacheWritten
<1> HIDE DEF q, l, r
<1>6. /\ h \in Nat /\ Len(s) = h + v /\ s \in Seq(Places)
      /\ \A i \in 1 .. h : s[i] = HeldOf(cache)[i]
      /\ \A i \in 1 .. v : s[h + i] = wire[i]
  BY <1>3, AheadBytes
<1>7. /\ Len(t) = h + l + (v - n) /\ t \in Seq(Places)
      /\ \A i \in 1 .. h + l : t[i] = HeldOf(q)[i]
      /\ \A i \in 1 .. v - n : t[h + l + i] = w[i]
  <2>1. /\ Len(t) = HeldLen(q) + Len(w) /\ t \in Seq(Places)
        /\ \A i \in 1 .. HeldLen(q) : t[i] = HeldOf(q)[i]
        /\ \A i \in 1 .. Len(w) : t[HeldLen(q) + i] = w[i]
    <3>1. CacheOK(q) /\ w \in Seq(Places)
      BY <1>4, <1>5
    <3> QED BY <3>1, AheadBytes
  <2> HIDE DEF t
  <2> QED BY <1>4, <1>5, <2>1
<1>8. v \in Nat /\ n <= v /\ l \in Nat /\ l <= n
  BY <1>1, <1>3, <1>5, LenProperties
<1> HIDE DEF s, t, h, v
<1>9. ASSUME NEW i \in 1 .. h + l PROVE t[i] = s[i]
  <2>1. CASE i <= h
    <3>1. i \in 1 .. h
      BY <1>6, <1>8, <2>1
    <3> QED BY <1>5, <1>6, <1>7, <3>1
  <2>2. CASE i > h
    <3>1. i - h \in 1 .. l /\ i - h \in 1 .. n /\ i - h \in 1 .. v /\ h + (i - h) = i
      BY <1>6, <1>8, <2>2
    <3>2. t[i] = src[i - h]
      BY <1>5, <1>7, <3>1
    <3> QED BY <1>4, <1>6, <3>1, <3>2
  <2> QED BY <1>6, <1>8, <2>1, <2>2
<1>10. ASSUME NEW i \in 1 .. v - n PROVE t[h + l + i] = s[h + n + i]
  <2>1. n + i \in 1 .. v /\ h + (n + i) = h + n + i
    BY <1>6, <1>8
  <2>2. t[h + l + i] = w[i] /\ w[i] = wire[n + i]
    BY <1>4, <1>7
  <2> QED BY <1>6, <2>1, <2>2
<1>11. Sent(frames, m, s, h + v)
  BY <1>2, <1>6 DEF Coming, m
<1>12. Sent(frames, m, t, h + l + (v - n))
  <2> SUFFICES ASSUME NEW i \in 1 .. h + l + (v - n)
               PROVE  t[i].f \in 1 .. m /\ t[i].p \in 1 .. SizeOf(frames, t[i])
    BY DEF Sent
  <2>1. CASE i \in 1 .. h + l
    <3>1. i \in 1 .. h + v
      BY <1>6, <1>8, <2>1
    <3> QED BY <1>9, <1>11, <2>1, <3>1 DEF Sent
  <2>2. CASE i \notin 1 .. h + l
    <3>1. PICK j : j = i - (h + l)
      OBVIOUS
    <3>2. j \in 1 .. v - n /\ h + l + j = i /\ h + n + j \in 1 .. h + v
      BY <1>6, <1>8, <2>2, <3>1
    <3>3. t[i] = s[h + n + j]
      BY <1>10, <3>2
    <3> QED BY <1>11, <3>2, <3>3 DEF Sent
  <2> QED BY <2>1, <2>2
<1>13. ASSUME l = n PROVE t = s
  <2>1. h + l + (v - n) = h + v
    BY <1>6, <1>8, <1>13
  <2>2. ASSUME NEW i \in 1 .. h + v PROVE t[i] = s[i]
    <3>1. CASE i \in 1 .. h + l
      BY <1>9, <3>1
    <3>2. CASE i \notin 1 .. h + l
      <4>1. PICK j : j = i - (h + l)
        OBVIOUS
      <4>2. j \in 1 .. v - n /\ h + l + j = i
        BY <1>6, <1>8, <1>13, <3>2, <4>1
      <4>3. t[h + l + j] = s[h + n + j]
        BY <1>10, <4>2
      <4> QED BY <1>13, <4>2, <4>3
    <3> QED BY <3>1, <3>2
  <2> QED BY <1>6, <1>7, <2>1, <2>2, SeqEqual
<1>14. lost' \in Nat /\ (lost' = 0 => lost = 0 /\ l = n)
  BY <1>1, <1>3, <1>8
<1>15. Coming(frames, t, eof, k, lost')
  <2>1. Sent(frames, Len(frames), t, Len(t))
    BY <1>7, <1>12 DEF m
  <2>2. ASSUME lost' = 0
        PROVE  /\ OnTrack(frames, k, t, Len(t))
               /\ ~eof => Whole(frames, Len(frames), k, t, Len(t))
    BY <1>2, <1>13, <1>14, <2>2 DEF Coming
  <2> QED BY <2>1, <2>2 DEF Coming
<1>16. RxTypes'
  BY <1>1, <1>2, <1>4, <1>5, <1>14 DEF RxTypes
<1>17. InOrder'
  BY <1>1, <1>2, <1>14 DEF InOrder
<1> QED BY <1>1, <1>15, <1>16, <1>17 DEF RxInv, t

\* A cache that is parsed: its length, its first two bytes.
LEMMA HeadOfCache ==
    ASSUME Receiving, RxInv, pc = "parse"
    PROVE  /\ IsRing(cache) /\ OnlyBytes(cache) /\ cache.size = RingSize /\ cache # NoCache
           /\ GetLen(cache) = HeldLen(cache)
           /\ HeldLen(cache) = Readable(cache) /\ HeldOf(cache) = Contents(cache)
           /\ HeldLen(cache) >= 1 => PeekBytes(cache, 1)[1] = Ahead(cache, wire)[1]
           /\ HeldLen(cache) >= 2 => PeekBytes(cache, 2)[2] = Ahead(cache, wire)[2]
<1>1. CacheOK(cache) /\ cache # NoCache /\ wire \in Seq(Places)
  BY DEF RxInv, RxTypes
<1>2. /\ IsRing(cache) /\ OnlyBytes(cache) /\ cache.size = RingSize /\ cache.last # "na"
      /\ HeldLen(cache) = Readable(cache) /\ HeldOf(cache) = Contents(cache)
  BY <1>1 DEF CacheOK, HeldLen, HeldOf
<1>3. GetLen(cache) = Readable(cache)
  BY <1>2, LengthExact
<1>4. /\ HeldLen(cache) \in Nat
      /\ \A i \in 1 .. HeldLen(cache) : Ahead(cache, wire)[i] = HeldOf(cache)[i]
  BY <1>1, AheadBytes
<1>5. ASSUME NEW n \in 1 .. Readable(cache) PROVE PeekBytes(cache, n)[n] = Contents(cache)[n]
  <2>1. n \in 1 .. n
    BY <1>2, <1>4
  <2> QED BY <1>2, <2>1, RingTaken
<1>6. ASSUME HeldLen(cache) >= 1 PROVE PeekBytes(cache, 1)[1] = Ahead(cache, wire)[1]
  BY <1>2, <1>4, <1>5, <1>6
<1>7. ASSUME HeldLen(cache) >= 2 PROVE PeekBytes(cache, 2)[2] = Ahead(cache, wire)[2]
  BY <1>2, <1>4, <1>5, <1>7
<1> QED BY <1>1, <1>2, <1>3, <1>6, <1>7

\* The cache goes, with bytes in it or not: the bytes on the wire were sent.
LEMMA WireSent ==
    ASSUME Receiving, RxInv
    PROVE  /\ CacheOK(NoCache)
           /\ Sent(frames, Len(frames), Ahead(NoCache, wire), Len(Ahead(NoCache, wire)))
<1> DEFINE m == Len(frames)
           s == Ahead(cache, wire)
           t == Ahead(NoCache, wire)
           h == HeldLen(cache)
           v == Len(wire)
<1>1. /\ CacheOK(cache) /\ wire \in Seq(Places) /\ Sent(frames, m, s, Len(s))
  BY DEF RxInv, RxTypes, Coming
<1>2. CacheOK(NoCache) /\ HeldLen(NoCache) = 0
  BY DEF CacheOK, HeldLen
<1>3. /\ h \in Nat /\ Len(s) = h + v /\ \A i \in 1 .. v : s[h + i] = wire[i]
  BY <1>1, AheadBytes
<1>4. PICK c : c = NoCache
  OBVIOUS
<1>5. /\ Len(Ahead(c, wire)) = HeldLen(c) + v
      /\ \A i \in 1 .. v : Ahead(c, wire)[HeldLen(c) + i] = wire[i]
  BY <1>1, <1>2, <1>4, AheadBytes
<1>6. v \in Nat
  BY <1>1, LenProperties
<1>7. Len(t) = v /\ \A i \in 1 .. v : t[i] = wire[i]
  BY <1>2, <1>4, <1>5, <1>6
<1> HIDE DEF s, t, h, v, m
<1>8. h + v \in Nat /\ h \in 0 .. h + v /\ v = (h + v) - h
  BY <1>3, <1>6
<1>9. \A i \in 1 .. v : t[i] = s[h + i]
  BY <1>3, <1>7
<1>10. Sent(frames, m, s, h + v)
  BY <1>1, <1>3
<1>11. Sent(frames, m, t, v)
  BY <1>8, <1>9, <1>10, SentBehind
<1> QED BY <1>2, <1>7, <1>11 DEF t, m

\* The header check fails.
LEMMA BadHeaderKeeps ==
    ASSUME Receiving, RxInv, BadHeader
    PROVE  RxInv'
<1>1. /\ pc = "parse" /\ GetLen(cache) >= 2 /\ lost' = lost + GetLen(cache) /\ cache' = NoCache
      /\ pc' = "wait" /\ side' = side /\ frames' = frames /\ wire' = wire /\ eof' = eof
      /\ handled' = handled
  BY DEF BadHeader, DropCache, NoCache, Hdr, Attr
<1>2. GetLen(cache) \in Nat
  <2>1. IsRing(cache) /\ GetLen(cache) = HeldLen(cache) /\ HeldLen(cache) = Readable(cache)
    BY <1>1, HeadOfCache
  <2> QED BY <2>1, ReadablePlusRoom, RingFields
<1>3. lost' \in Nat /\ lost' # 0
  <2>1. lost \in Nat
    BY DEF RxInv, RxTypes
  <2> QED BY <1>1, <1>2, <2>1
<1>4. /\ CacheOK(NoCache)
      /\ Sent(frames, Len(frames), Ahead(NoCache, wire), Len(Ahead(NoCache, wire)))
  BY WireSent
<1>5. RxTypes'
  BY <1>1, <1>3, <1>4 DEF RxInv, RxTypes
<1>6. Coming(frames, Ahead(NoCache, wire), eof, Len(handled), lost')
  BY <1>3, <1>4 DEF Coming
<1>7. InOrder'
  BY <1>3 DEF InOrder
<1> QED BY <1>1, <1>5, <1>6, <1>7 DEF RxInv

\* What is left of the cache behind a frame of k bytes.
LEMMA RestAhead ==
    ASSUME Receiving, RxInv, pc = "parse", NEW k \in 1 .. Readable(cache), NEW r,
           r = RingRead(cache, k)
    PROVE  /\ CacheOK(r) /\ r # NoCache /\ GetLen(r) = HeldLen(r)
           /\ HeldLen(r) = HeldLen(cache) - k /\ HeldLen(r) \in Nat
           /\ Len(Ahead(r, wire)) = Len(Ahead(cache, wire)) - k
           /\ \A i \in 1 .. Len(Ahead(r, wire)) : Ahead(r, wire)[i] = Ahead(cache, wire)[k + i]
<1> DEFINE s == Ahead(cache, wire)
           t == Ahead(r, wire)
           h == HeldLen(cache)
           v == Len(wire)
<1>1. /\ IsRing(cache) /\ OnlyBytes(cache) /\ cache.size = RingSize /\ h = Readable(cache)
      /\ HeldOf(cache) = Contents(cache) /\ CacheOK(cache) /\ wire \in Seq(Places)
  BY HeadOfCache DEF RxInv, RxTypes
<1>2. /\ IsRing(r) /\ OnlyBytes(r) /\ r.size = RingSize /\ r.last = "read"
      /\ Readable(r) = Readable(cache) - k
      /\ \A i \in 1 .. Readable(cache) - k : Contents(r)[i] = Contents(cache)[k + i]
  BY <1>1, RingTaken
<1>3. r # NoCache
  BY <1>2 DEF NoCache, IsRing, Ring, Receiving
<1>4. CacheOK(r)
  BY <1>2 DEF CacheOK
<1>5. HeldLen(r) = Readable(r) /\ HeldOf(r) = Contents(r)
  BY <1>3 DEF HeldLen, HeldOf
<1>6. GetLen(r) = Readable(r)
  BY <1>2, LengthExact
<1>7. v \in Nat /\ h \in Nat /\ k \in Nat /\ k <= h
  BY <1>1, LenProperties, ReadablePlusRoom, RingFields
<1>8. /\ Len(s) = h + v
      /\ \A i \in 1 .. h : s[i] = HeldOf(cache)[i]
      /\ \A i \in 1 .. v : s[h + i] = wire[i]
  BY <1>1, AheadBytes
<1>9. /\ Len(t) = (h - k) + v
      /\ \A i \in 1 .. h - k : t[i] = HeldOf(r)[i]
      /\ \A i \in 1 .. v : t[(h - k) + i] = wire[i]
  <2>1. /\ Len(t) = HeldLen(r) + v
        /\ \A i \in 1 .. HeldLen(r) : t[i] = HeldOf(r)[i]
        /\ \A i \in 1 .. v : t[HeldLen(r) + i] = wire[i]
    BY <1>1, <1>4, AheadBytes
  <2> HIDE DEF t
  <2> QED BY <1>1, <1>2, <1>5, <2>1
<1> HIDE DEF s, t, h, v
<1>10. ASSUME NEW i \in 1 .. (h - k) + v PROVE t[i] = s[k + i]
  <2>1. CASE i <= h - k
    <3>1. i \in 1 .. h - k /\ k + i \in 1 .. h
      BY <1>7, <2>1
    <3>2. t[i] = Contents(r)[i] /\ s[k + i] = Contents(cache)[k + i]
      BY <1>1, <1>5, <1>8, <1>9, <3>1
    <3> QED BY <1>1, <1>2, <3>1, <3>2
  <2>2. CASE i > h - k
    <3>1. PICK j : j = i - (h - k)
      OBVIOUS
    <3>2. j \in 1 .. v /\ (h - k) + j = i /\ h + j = k + i
      BY <1>7, <2>2, <3>1
    <3>3. t[(h - k) + j] = wire[j] /\ s[h + j] = wire[j]
      BY <1>8, <1>9, <3>2
    <3> QED BY <3>2, <3>3
  <2> QED BY <1>7, <2>1, <2>2
<1>11. h - k \in Nat /\ (h - k) + v = (h + v) - k
  BY <1>7
<1>12. Len(t) = Len(s) - k
  BY <1>8, <1>9, <1>11
<1>13. \A i \in 1 .. Len(t) : t[i] = s[k + i]
  BY <1>9, <1>10
<1> QED BY <1>1, <1>2, <1>3, <1>4, <1>5, <1>6, <1>11, <1>12, <1>13 DEF s, t, h

\* Handing one more frame to its handler.
LEMMA OneMoreHandled ==
    ASSUME NEW b \in Nat, NEW hd \in Seq(0 .. b), NEW f \in 0 .. b
    PROVE  /\ Append(hd, f) \in Seq(0 .. b) /\ Len(Append(hd, f)) = Len(hd) + 1
           /\ (\A i \in 1 .. Len(hd) : hd[i] = i) /\ f = Len(hd) + 1
                 => \A i \in 1 .. Len(Append(hd, f)) : Append(hd, f)[i] = i
<1>1. /\ Append(hd, f) \in Seq(0 .. b) /\ Len(Append(hd, f)) = Len(hd) + 1 /\ Len(hd) \in Nat
      /\ \A i \in 1 .. Len(hd) : Append(hd, f)[i] = hd[i]
      /\ Append(hd, f)[Len(hd) + 1] = f
  BY AppendProperties, LenProperties
<1> QED BY <1>1

\* A whole frame is handled.
LEMMA HandleKeeps ==
    ASSUME Receiving, RxInv, Handle
    PROVE  RxInv'
<1> DEFINE m  == Len(frames)
           s  == Ahead(cache, wire)
           z  == Len(s)
           n  == Len(handled)
           hb == PeekBytes(cache, 1)[1]
           lb == PeekBytes(cache, 2)[2]
           f  == IF hb.p = 1 THEN hb.f ELSE 0
<1>1. /\ pc = "parse" /\ GetLen(cache) >= 2 /\ side' = side /\ frames' = frames
      /\ wire' = wire /\ eof' = eof
  BY DEF Handle, Hdr, Attr
<1>2. PICK tab \in IF lb.p = 2 THEN {frames[lb.f].len} ELSE 0 .. RingSize :
        /\ GetLen(cache) - 1 >= tab
        /\ handled' = Append(handled, f)
        /\ \/ /\ lost' = lost + GetLen(RingRead(cache, 1 + tab))
              /\ cache' = NoCache
              /\ pc' = "wait"
           \/ /\ pc' = IF GetLen(RingRead(cache, 1 + tab)) > 0 THEN "parse" ELSE "wait"
              /\ IF GetLen(RingRead(cache, 1 + tab)) = 0 /\ side = "bus" THEN cache' = NoCache
                 ELSE cache' = RingRead(cache, 1 + tab)
              /\ lost' = lost
  <2>1. HeadByte = hb /\ Hdr = 1
    BY DEF HeadByte, Hdr
  <2>2. LengthByte = lb
    <3>1. Hdr + Attr = 2
      BY DEF Hdr, Attr
    <3> QED BY <3>1 DEF LengthByte
  <2>3. TableLen = IF lb.p = 2 THEN {frames[lb.f].len} ELSE 0 .. RingSize
    BY <2>2 DEF TableLen
  <2>4. (IF HeadByte.p = 1 THEN HeadByte.f ELSE Garbage) = f
    BY <2>1 DEF Garbage
  <2>5. /\ \A x : GetLen(x) = GetLen(x)
        /\ \A x : RingRead(cache, FrameLen(x)) = RingRead(cache, 1 + x)
    BY <2>1 DEF FrameLen
  <2>6. /\ DropCache <=> cache' = NoCache
        /\ \A x : LoopAgain(x) = IF GetLen(x) > 0 THEN "parse" ELSE "wait"
    BY <2>5 DEF DropCache, NoCache, LoopAgain
  <2> HIDE DEF hb, lb, f
  <2> QED BY <2>1, <2>3, <2>4, <2>5, <2>6 DEF Handle
<1>3. /\ IsRing(cache) /\ GetLen(cache) = HeldLen(cache) /\ HeldLen(cache) = Readable(cache)
      /\ HeldLen(cache) >= 2 /\ hb = s[1] /\ lb = s[2]
  <2>1. /\ IsRing(cache) /\ GetLen(cache) = HeldLen(cache) /\ HeldLen(cache) = Readable(cache)
        /\ HeldLen(cache) >= 1 => hb = s[1]
        /\ HeldLen(cache) >= 2 => lb = s[2]
    BY <1>1, HeadOfCache
  <2>2. HeldLen(cache) \in Nat
    BY <2>1, ReadablePlusRoom, RingFields
  <2> QED BY <1>1, <2>1, <2>2
<1> HIDE DEF hb, lb
<1>4. /\ RxTypes /\ Sent(frames, m, s, z) /\ InOrder
      /\ lost = 0 => OnTrack(frames, n, s, z) /\ (~eof => Whole(frames, m, n, s, z))
  BY DEF RxInv, Coming
<1>5. /\ frames \in Seq([len : TableLens, ok : BOOLEAN]) /\ wire \in Seq(Places) /\ CacheOK(cache)
      /\ handled \in Seq(0 .. m) /\ lost \in Nat
  BY <1>4 DEF RxTypes
<1>6. /\ AreFrames(frames, m) /\ m \in Nat /\ RingSize \in Nat
  BY <1>5, FramesAre, SizesAssumption DEF Receiving
<1>7. z \in Nat /\ z >= HeldLen(cache) /\ HeldLen(cache) \in Nat
  <2>1. z = HeldLen(cache) + Len(wire) /\ Len(wire) \in Nat /\ HeldLen(cache) \in Nat
    BY <1>5, AheadBytes, LenProperties
  <2> HIDE DEF z
  <2> QED BY <2>1
<1> HIDE DEF z, s, m
<1>8. s[1].f \in 1 .. m /\ s[2].f \in 1 .. m /\ 1 \in 1 .. z /\ 2 \in 1 .. z
  <2>1. 1 \in 1 .. z /\ 2 \in 1 .. z
    BY <1>3, <1>7
  <2> QED BY <1>4, <2>1 DEF Sent
<1>9. tab \in Nat
  <2>1. CASE lb.p = 2
    BY <1>2, <1>3, <1>6, <1>8, <2>1 DEF AreFrames
  <2>2. CASE lb.p # 2
    BY <1>2, <1>6, <2>2
  <2> QED BY <2>1, <2>2
<1>10. f \in 0 .. m
  BY <1>3, <1>6, <1>8
\* Without a loss, this is the frame that comes next, and all of it.
<1>11. ASSUME lost = 0
       PROVE  f = n + 1 /\ tab = frames[n + 1].len
  <2>1. n \in Nat
    BY <1>5, LenProperties
  <2>2. OnTrack(frames, n, s, z) /\ Sent(frames, m, s, z) /\ z \in Nat \ {0}
    BY <1>4, <1>7, <1>8, <1>11
  <2> HIDE DEF n
  <2>3. /\ n + 1 \in 1 .. m
        /\ \A i \in 1 .. z : i <= 1 + frames[n + 1].len => s[i].f = n + 1 /\ s[i].p = i
    BY <1>6, <2>1, <2>2, FirstFrame
  <2>4. 1 <= 1 + frames[n + 1].len /\ 2 <= 1 + frames[n + 1].len
    BY <1>6, <2>3 DEF AreFrames
  <2>5. s[1].f = n + 1 /\ s[1].p = 1 /\ s[2].f = n + 1 /\ s[2].p = 2
    BY <1>8, <2>3, <2>4
  <2> QED BY <1>2, <1>3, <2>5
<1> HIDE DEF f
<1> DEFINE k == 1 + tab
           r == RingRead(cache, k)
           t == Ahead(r, wire)
<1>12. k \in 1 .. Readable(cache) /\ k \in 0 .. z
  BY <1>2, <1>3, <1>7, <1>9
<1>13. /\ CacheOK(r) /\ r # NoCache /\ GetLen(r) = HeldLen(r) /\ HeldLen(r) \in Nat
       /\ Len(t) = z - k /\ \A i \in 1 .. Len(t) : t[i] = s[k + i]
  <2>1. r = RingRead(cache, k)
    OBVIOUS
  <2> HIDE DEF r, k
  <2> QED BY <1>1, <1>12, <2>1, RestAhead DEF s, z
<1> HIDE DEF t
<1>14. Sent(frames, m, t, Len(t))
  <2> HIDE DEF k
  <2> QED BY <1>4, <1>7, <1>12, <1>13, SentBehind
<1>15. lost = 0 => /\ OnTrack(frames, n + 1, t, Len(t))
                   /\ ~eof => Whole(frames, m, n + 1, t, Len(t))
  <2> SUFFICES ASSUME lost = 0
               PROVE  /\ OnTrack(frames, n + 1, t, Len(t))
                      /\ ~eof => Whole(frames, m, n + 1, t, Len(t))
    OBVIOUS
  <2>1. k = 1 + frames[n + 1].len /\ n \in Nat /\ z \in Nat \ {0}
    BY <1>5, <1>7, <1>8, <1>11, LenProperties
  <2> HIDE DEF k, n
  <2>2. /\ OnTrack(frames, n + 1, t, Len(t))
        /\ Whole(frames, m, n, s, z) => Whole(frames, m, n + 1, t, Len(t))
    BY <1>4, <1>6, <1>12, <1>13, <2>1, TrackBehind
  <2> QED BY <1>4, <2>2
<1>16. /\ handled' = Append(handled, f) /\ handled' \in Seq(0 .. m) /\ Len(handled') = n + 1
       /\ lost = 0 => \A i \in 1 .. Len(handled') : handled'[i] = i
  <2>1. lost = 0 => (\A i \in 1 .. Len(handled) : handled[i] = i) /\ f = n + 1
    BY <1>4, <1>11 DEF InOrder
  <2> QED BY <1>2, <1>5, <1>6, <1>10, <2>1, OneMoreHandled
<1>17. /\ lost' \in Nat /\ (lost' = 0 => lost = 0)
       /\ \/ cache' = r
          \/ cache' = NoCache /\ pc' = "wait" /\ (HeldLen(r) = 0 \/ lost' # 0)
       /\ pc' \in {"wait", "parse"}
  <2> HIDE DEF r, n
  <2>1. CASE lost' = lost + GetLen(r) /\ cache' = NoCache /\ pc' = "wait"
    BY <1>5, <1>13, <2>1
  <2>2. CASE /\ pc' = IF GetLen(r) > 0 THEN "parse" ELSE "wait"
             /\ IF GetLen(r) = 0 /\ side = "bus" THEN cache' = NoCache ELSE cache' = r
             /\ lost' = lost
    BY <1>5, <1>13, <2>2
  <2> QED BY <1>2, <2>1, <2>2 DEF r
<1>18. CASE cache' = r
  <2>1. Coming(frames, t, eof, Len(handled'), lost')
    BY <1>14, <1>15, <1>16, <1>17 DEF Coming, m
  <2>2. RxTypes'
    BY <1>1, <1>4, <1>5, <1>13, <1>16, <1>17, <1>18 DEF RxTypes, m
  <2>3. InOrder'
    BY <1>16, <1>17 DEF InOrder
  <2> QED BY <1>1, <1>18, <2>1, <2>2, <2>3 DEF RxInv, t
<1>19. CASE cache' = NoCache /\ pc' = "wait" /\ (HeldLen(r) = 0 \/ lost' # 0)
  <2>1. /\ CacheOK(NoCache)
        /\ Sent(frames, m, Ahead(NoCache, wire), Len(Ahead(NoCache, wire)))
    BY WireSent DEF m
  <2>2. Coming(frames, Ahead(NoCache, wire), eof, Len(handled'), lost')
    <3>1. CASE lost' # 0
      BY <2>1, <3>1 DEF Coming, m
    <3>2. CASE HeldLen(r) = 0
      <4> HIDE DEF r
      <4>1. HeldOf(r) \in Seq(Places) /\ Len(HeldOf(r)) = 0
        BY <1>5, <1>13, <3>2, AheadBytes
      <4>2. HeldOf(r) = << >> /\ HeldOf(NoCache) = << >>
        BY <4>1, EmptySeq, SeqEqual DEF HeldOf
      <4>3. Ahead(NoCache, wire) = t
        BY <4>2 DEF Ahead, t
      <4> QED BY <1>14, <1>15, <1>16, <1>17, <4>3 DEF Coming, m
    <3> QED BY <1>19, <3>1, <3>2
  <2>3. RxTypes'
    BY <1>1, <1>4, <1>5, <1>16, <1>17, <1>19, <2>1 DEF RxTypes, m
  <2>4. InOrder'
    BY <1>16, <1>17 DEF InOrder
  <2> QED BY <1>1, <1>19, <2>2, <2>3, <2>4 DEF RxInv
<1> QED BY <1>17, <1>18, <1>19

\* Every callback and everything the peer does keeps the stream on track.
LEMMA RxStep == ASSUME Receiving, RxInv, [RxNext]_rxVars PROVE RxInv'
<1>1. ASSUME NEW len \in TableLens, NEW ok \in Results, Send(len, ok) PROVE RxInv'
  BY <1>1, SendKeeps
<1>2. ASSUME NEW k \in 0 .. Len(wire), PeerClose(k) PROVE RxInv'
  BY <1>2, PeerCloseKeeps
<1>3. ASSUME NEW n \in 1 .. ChunkMax, Receive(n) PROVE RxInv'
  BY <1>3, ReceiveKeeps
<1>4. CASE Closed
  BY <1>4, ClosedKeeps
<1>5. CASE Incomplete
  BY <1>5, IncompleteKeeps
<1>6. CASE BadHeader
  BY <1>6, BadHeaderKeeps
<1>7. CASE Handle
  BY <1>7, HandleKeeps
<1>8. CASE UNCHANGED rxVars
  <2>1. /\ side' = side /\ frames' = frames /\ wire' = wire /\ eof' = eof /\ cache' = cache
        /\ pc' = pc /\ handled' = handled /\ lost' = lost
    BY <1>8 DEF rxVars
  <2> QED BY <2>1 DEF RxInv, RxTypes, InOrder
<1> QED BY <1>1, <1>2, <1>3, <1>4, <1>5, <1>6, <1>7, <1>8 DEF RxNext

\* Fields that agree make equal places.
LEMMA PlaceIs ==
    ASSUME NEW b \in Places, NEW x, NEW y, b.f = x, b.p = y
    PROVE  b = [f |-> x, p |-> y]
  BY DEF Places

\* The next place of the same frame.
LEMMA PlaceNext ==
    ASSUME NEW b \in Places, NEW c \in Places, c.f = b.f, c.p = b.p + 1
    PROVE  c = [b EXCEPT !.p = @ + 1]
  BY DEF Places

\* The inductive invariant says what the property does.
LEMMA RxSays ==
    ASSUME Receiving, RxInv
    PROVE  StreamInStep
<1> DEFINE s == Ahead(cache, wire)
           n == Len(handled)
<1>1. /\ RxTypes /\ InOrder /\ wire \in Seq(Places) /\ CacheOK(cache)
      /\ lost = 0 => OnTrack(frames, n, s, Len(s))
  BY DEF RxInv, RxTypes, Coming
<1>2. Held \o wire = s
  BY DEF Held, NoCache, Ahead, HeldOf
<1>3. s \in Seq(Places) /\ Len(s) \in Nat /\ \A i \in 1 .. Len(s) : s[i] \in Places
  <2>1. s \in Seq(Places)
    BY <1>1, AheadBytes
  <2> HIDE DEF s
  <2> QED BY <2>1, LenProperties, ElementOfSeq
<1>4. RxTypeOK
  BY <1>1 DEF RxTypes, CacheOK, RxTypeOK, NoCache
<1> HIDE DEF s
<1>5. ASSUME lost = 0, s # << >> PROVE Head(s) = [f |-> n + 1, p |-> 1]
  <2>1. 1 \in 1 .. Len(s) /\ Head(s) = s[1]
    <3>1. Len(s) # 0
      BY <1>3, <1>5, EmptySeq
    <3> QED BY <1>3, <3>1
  <2>2. s[1].f = n + 1 /\ s[1].p = 1 /\ s[1] \in Places
    BY <1>1, <1>3, <1>5, <2>1 DEF OnTrack
  <2>3. s[1] = [f |-> n + 1, p |-> 1]
    BY <2>2, PlaceIs
  <2> QED BY <2>1, <2>3
<1>6. ASSUME lost = 0, NEW i \in 1 .. (Len(s) - 1)
      PROVE  IF s[i].p < Hdr + frames[s[i].f].len THEN s[i + 1] = [s[i] EXCEPT !.p = @ + 1]
             ELSE s[i + 1] = [f |-> s[i].f + 1, p |-> 1]
  <2>1. s[i] \in Places /\ s[i + 1] \in Places
    BY <1>3
  <2>2. Follows(frames, s[i], s[i + 1])
    BY <1>1, <1>6 DEF OnTrack
  <2>3. Hdr + frames[s[i].f].len = SizeOf(frames, s[i])
    BY DEF Hdr, SizeOf
  <2>4. CASE s[i].p < SizeOf(frames, s[i])
    <3>1. s[i + 1].f = s[i].f /\ s[i + 1].p = s[i].p + 1
      BY <2>2, <2>4 DEF Follows
    <3>2. s[i + 1] = [s[i] EXCEPT !.p = @ + 1]
      BY <2>1, <3>1, PlaceNext
    <3> QED BY <2>3, <2>4, <3>2
  <2>5. CASE ~(s[i].p < SizeOf(frames, s[i]))
    <3>1. s[i + 1].f = s[i].f + 1 /\ s[i + 1].p = 1
      BY <2>2, <2>5 DEF Follows
    <3>2. s[i + 1] = [f |-> s[i].f + 1, p |-> 1]
      BY <2>1, <3>1, PlaceIs
    <3> QED BY <2>3, <2>5, <3>2
  <2> QED BY <2>4, <2>5
<1>7. CacheAligned
  BY <1>2, <1>5, <1>6 DEF CacheAligned
<1> QED BY <1>1, <1>4, <1>7 DEF StreamInStep

\* The bus cuts a TCP stream into frames at the right places, whatever the
\* lengths of frames and chunks and wherever the ring wraps: until bytes were
\* thrown away, frames are handled once each and in order, and what is held
\* and on the wire continues with a header.
THEOREM BusStreamInStep == ASSUME Receiving PROVE RxSpec => []StreamInStep
<1>1. RxInit => RxInv
  BY RxStarts
<1>2. RxInv /\ [RxNext]_rxVars => RxInv'
  BY RxStep
<1>3. RxInv => StreamInStep
  BY RxSays
<1> QED BY <1>1, <1>2, <1>3, PTL DEF RxSpec
=============================================================================
