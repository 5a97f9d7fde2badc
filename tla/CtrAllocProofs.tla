--------------------------- MODULE CtrAllocProofs ---------------------------
(***************************************************************************)
(* The default allocator for every number of classes, every capacity of a  *)
(* pool, every header and any sizes asked for: the properties that         *)
(* CtrAlloc.cfg checks on a small configuration, proved.                   *)
(***************************************************************************)
EXTENDS CtrAlloc, FiniteSetTheorems, SequenceTheorems, WellFoundedInduction, TLAPS

-----------------------------------------------------------------------------
\* Facts about numbers.

\* A set of numbers that is not empty has a least one.
LEMMA LeastNumber ==
    ASSUME NEW S, S \subseteq Nat, S # {}
    PROVE  \E x \in S : \A y \in S : x <= y
<1>1. PICK x \in S : \A y \in S : ~(<<y, x>> \in OpToRel(<, Nat))
  BY NatLessThanWellFounded, WFMin
<1>2. ASSUME NEW y \in S PROVE x <= y
  <2>1. ~(y < x)
    BY <1>1 DEF OpToRel
  <2> QED BY <2>1
<1> QED BY <1>2

\* A set of numbers up to n that is not empty has a greatest one.
LEMMA GreatestNumber ==
    ASSUME NEW n \in Nat, NEW S, S \subseteq 1 .. n, S # {}
    PROVE  \E x \in S : \A y \in S : y <= x
<1> DEFINE T == {k \in Nat : n - k \in S}
<1>1. PICK s \in S : TRUE
  OBVIOUS
<1>2. n - s \in T
  BY <1>1
<1>3. PICK k \in T : \A l \in T : k <= l
  BY <1>2, LeastNumber
<1>4. ASSUME NEW y \in S PROVE y <= n - k
  <2>1. n - y \in T
    OBVIOUS
  <2>2. k <= n - y /\ k \in Nat /\ y \in Nat
    BY <1>3, <2>1
  <2> QED BY <2>2
<1> QED BY <1>3, <1>4

\* Quotient and remainder of a division by a positive number.
LEMMA Division ==
    ASSUME NEW a \in Nat, NEW c \in Nat \ {0}
    PROVE  /\ a \div c = 0 <=> a < c
           /\ (a \div c = 1 /\ a % c = 0) <=> a = c
  BY Z3

-----------------------------------------------------------------------------
\* The classes.

\* A request fits into a class iff it is not larger (slab_get_slab_index asks
\* for quotient and remainder).
LEMMA FitsIffSmall ==
    ASSUME NEW i \in Classes, NEW size \in Nat
    PROVE  Fits(i, size) <=> size <= Class(i)
<1>1. Class(i) \in Nat \ {0}
  BY ConfigAssumption
<1> HIDE DEF Class
<1> QED BY <1>1, Division DEF Fits

\* The least class that fits, when one does, else -1.
LEMMA IndexLeast ==
    ASSUME NEW size
    PROVE  \/ /\ Index(size) \in Classes /\ Fits(Index(size), size)
              /\ \A j \in Classes : Fits(j, size) => Index(size) <= j
           \/ Index(size) = -1 /\ \A j \in Classes : ~Fits(j, size)
<1> DEFINE S == {i \in Classes : Fits(i, size)}
<1>1. CASE S # {}
  <2>1. S \subseteq Nat
    BY ConfigAssumption DEF Classes
  <2>2. PICK i \in S : \A j \in S : i <= j
    BY <1>1, <2>1, LeastNumber
  <2>3. \E k \in Classes : Fits(k, size) /\ \A j \in Classes : Fits(j, size) => k <= j
    BY <2>2
  <2>4. Index(size) = CHOOSE k \in Classes : Fits(k, size) /\ \A j \in Classes : Fits(j, size) => k <= j
    BY <1>1 DEF Index
  <2> QED BY <2>3, <2>4
<1>2. CASE S = {}
  BY <1>2 DEF Index
<1> QED BY <1>1, <1>2

\* A request for the size of a class is served from that class, so that a slab
\* goes back to the list it was taken from.
LEMMA IndexOfClass ==
    ASSUME NEW i \in Classes
    PROVE  Index(Class(i)) = i /\ ~FreedAsHuge(Class(i))
<1>1. Class(i) \in Nat \ {0} /\ Class(i) < Capacity /\ Capacity \in Nat
  BY ConfigAssumption
<1>2. Fits(i, Class(i))
  BY <1>1, FitsIffSmall
<1>3. /\ Index(Class(i)) \in Classes /\ Fits(Index(Class(i)), Class(i))
      /\ Index(Class(i)) <= i
  BY <1>2, IndexLeast
<1>4. Class(i) <= Class(Index(Class(i)))
  BY <1>1, <1>3, FitsIffSmall
<1>5. ~(Index(Class(i)) < i)
  BY <1>1, <1>3, <1>4, ConfigAssumption
<1>6. Index(Class(i)) = i /\ i \in Nat
  BY <1>3, <1>5 DEF Classes
<1> QED BY <1>1, <1>6 DEF FreedAsHuge

-----------------------------------------------------------------------------
\* The lists of slabs, for any free lists f and used slabs u.

Elems(s)       == {s[k] : k \in DOMAIN s}
SlabsOf(f, u)  == u \cup UNION {Elems(f[i]) : i \in Classes}
Listed(f, u)   ==
    \A i \in Classes : \A k \in DOMAIN f[i] :
        /\ f[i][k].size = Class(i)
        /\ f[i][k] \notin u
        /\ \A l \in DOMAIN f[i] : f[i][k] = f[i][l] => k = l
FreeLists == [Classes -> Seq(SlabType)]

\* What it means to be a slab.
LEMMA InSlabs ==
    ASSUME NEW f, NEW u, NEW y
    PROVE  y \in SlabsOf(f, u) <=> y \in u \/ \E i \in Classes : y \in Elems(f[i])
<1> DEFINE T == {Elems(f[i]) : i \in Classes}
           U == UNION T
<1>1. y \in U <=> \E e \in T : y \in e
  OBVIOUS
<1>2. (\E e \in T : y \in e) <=> \E i \in Classes : y \in Elems(f[i])
  OBVIOUS
<1>3. SlabsOf(f, u) = u \cup U
  BY DEF SlabsOf
<1> HIDE DEF T, U
<1>4. y \in U <=> \E i \in Classes : y \in Elems(f[i])
  BY <1>1, <1>2
<1> QED BY <1>3, <1>4

\* A slab that is taken from the front of a list moves from the free to the
\* used ones: none is lost, none is in both.
LEMMA TakeFront ==
    ASSUME NEW f \in FreeLists, NEW u, Listed(f, u), NEW i \in Classes, f[i] # <<>>
    PROVE  LET x  == Head(f[i])
               f2 == [f EXCEPT ![i] = Tail(@)]
           IN  /\ x \in SlabType /\ x \notin u /\ x.size = Class(i)
               /\ f2 \in FreeLists /\ Listed(f2, u \cup {x})
               /\ x \in SlabsOf(f, u) /\ SlabsOf(f2, u \cup {x}) = SlabsOf(f, u)
<1> DEFINE x  == Head(f[i])
           t  == Tail(f[i])
           f2 == [f EXCEPT ![i] = Tail(@)]
<1>s. f[i] \in Seq(SlabType)
  BY DEF FreeLists
<1>l. Len(f[i]) \in Nat \ {0} /\ DOMAIN f[i] = 1 .. Len(f[i])
  BY <1>s, LenProperties, EmptySeq
<1>t. /\ x \in SlabType /\ t \in Seq(SlabType) /\ x = f[i][1]
      /\ DOMAIN t = 1 .. Len(f[i]) - 1
      /\ \A k \in 1 .. Len(f[i]) - 1 : t[k] = f[i][k + 1]
  BY <1>s, HeadTailProperties, LenProperties
<1>1. f2 \in FreeLists /\ f2[i] = t /\ \A j \in Classes : j # i => f2[j] = f[j]
  BY <1>t DEF FreeLists
<1>2. 1 \in DOMAIN f[i]
  BY <1>l
<1>3. x \notin u /\ x.size = Class(i) /\ x \in Elems(f[i])
  BY <1>2, <1>t DEF Listed, Elems
<1>4. ASSUME NEW k \in DOMAIN t
      PROVE  k + 1 \in DOMAIN f[i] /\ k \in Nat /\ k + 1 # 1 /\ t[k] = f[i][k + 1] /\ t[k] # x
  <2>1. k + 1 \in DOMAIN f[i] /\ k \in Nat /\ k + 1 # 1 /\ t[k] = f[i][k + 1]
    BY <1>l, <1>t
  <2> QED BY <1>2, <1>t, <2>1 DEF Listed
<1>5. Elems(t) = Elems(f[i]) \ {x}
  <2>1. ASSUME NEW y \in Elems(f[i]), y # x PROVE y \in Elems(t)
    <3>1. PICK k \in DOMAIN f[i] : y = f[i][k]
      BY DEF Elems
    <3>2. k # 1 /\ k - 1 \in DOMAIN t /\ (k - 1) + 1 = k
      BY <1>l, <1>t, <2>1, <3>1
    <3> QED BY <1>4, <3>1, <3>2 DEF Elems
  <2>2. ASSUME NEW y \in Elems(t) PROVE y \in Elems(f[i]) /\ y # x
    BY <1>4 DEF Elems
  <2> QED BY <2>1, <2>2
<1> HIDE DEF t, f2, x
<1>6. Listed(f2, u \cup {x})
  <2> SUFFICES ASSUME NEW j \in Classes, NEW k \in DOMAIN f2[j]
               PROVE  /\ f2[j][k].size = Class(j) /\ f2[j][k] \notin u \cup {x}
                      /\ \A l \in DOMAIN f2[j] : f2[j][k] = f2[j][l] => k = l
    BY DEF Listed
  <2>1. CASE j = i
    <3>1. \A l \in DOMAIN t : l + 1 \in DOMAIN f[i] /\ l \in Nat /\ t[l] = f[i][l + 1] /\ t[l] # x
      BY <1>4
    <3>2. k \in DOMAIN t /\ f2[j] = t
      BY <1>1, <2>1
    <3>3. \A l \in DOMAIN t : t[k] = t[l] => k + 1 = l + 1
      BY <3>1, <3>2 DEF Listed
    <3>4. \A l \in DOMAIN t : t[k] = t[l] => k = l
      BY <3>1, <3>2, <3>3
    <3> QED BY <2>1, <3>1, <3>2, <3>4 DEF Listed
  <2>2. CASE j # i
    <3>1. f2[j] = f[j] /\ f[j][k].size = Class(j)
      BY <1>1, <2>2 DEF Listed
    <3>2. Class(j) # Class(i)
      <4>1. j < i \/ i < j
        BY <2>2 DEF Classes
      <4>2. Class(j) \in Nat /\ Class(i) \in Nat
        BY ConfigAssumption
      <4> QED BY <4>1, <4>2, ConfigAssumption
    <3> QED BY <1>3, <3>1, <3>2 DEF Listed
  <2> QED BY <2>1, <2>2
<1>7. SlabsOf(f2, u \cup {x}) = SlabsOf(f, u)
  <2>1. \A j \in Classes : Elems(f2[j]) = IF j = i THEN Elems(f[i]) \ {x} ELSE Elems(f[j])
    BY <1>1, <1>5
  <2>2. ASSUME NEW y PROVE y \in SlabsOf(f2, u \cup {x}) <=> y \in SlabsOf(f, u)
    <3>1. (y \in u \cup {x} \/ \E j \in Classes : y \in Elems(f2[j]))
            <=> (y \in u \/ \E j \in Classes : y \in Elems(f[j]))
      BY <1>3, <2>1
    <3> QED BY <3>1, InSlabs
  <2> QED BY <2>2
<1> QED BY <1>1, <1>3, <1>6, <1>7, <1>t DEF x, f2, SlabsOf

\* A used slab that is put in front of the list of its class: none is lost,
\* none is in both.
LEMMA PutFront ==
    ASSUME NEW f \in FreeLists, NEW u, Listed(f, u), NEW i \in Classes,
           NEW x \in SlabType, x \in u, x.size = Class(i)
    PROVE  LET f2 == [f EXCEPT ![i] = <<x>> \o @]
           IN  /\ f2 \in FreeLists /\ Listed(f2, u \ {x})
               /\ SlabsOf(f2, u \ {x}) = SlabsOf(f, u)
<1> DEFINE t  == <<x>> \o f[i]
           f2 == [f EXCEPT ![i] = <<x>> \o @]
<1>s. f[i] \in Seq(SlabType) /\ <<x>> \in Seq(SlabType) /\ Len(<<x>>) = 1 /\ <<x>>[1] = x
  BY DEF FreeLists
<1>l. Len(f[i]) \in Nat /\ DOMAIN f[i] = 1 .. Len(f[i])
  BY <1>s, LenProperties
<1>t. /\ t \in Seq(SlabType) /\ DOMAIN t = 1 .. Len(f[i]) + 1
      /\ t[1] = x
      /\ \A k \in 1 .. Len(f[i]) : t[k + 1] = f[i][k]
  <2>1. /\ t \in Seq(SlabType) /\ Len(t) = 1 + Len(f[i])
        /\ \A k \in 1 .. 1 + Len(f[i]) : t[k] = IF k <= 1 THEN <<x>>[k] ELSE f[i][k - 1]
    BY <1>s, ConcatProperties
  <2> HIDE DEF t
  <2>2. DOMAIN t = 1 .. Len(f[i]) + 1
    BY <1>l, <2>1, LenProperties
  <2>3. ASSUME NEW k \in 1 .. Len(f[i]) PROVE t[k + 1] = f[i][k]
    <3>1. k + 1 \in 1 .. 1 + Len(f[i]) /\ ~(k + 1 <= 1) /\ (k + 1) - 1 = k
      BY <1>l
    <3> QED BY <2>1, <3>1
  <2>4. t[1] = x
    BY <1>l, <1>s, <2>1
  <2> QED BY <2>1, <2>2, <2>3, <2>4
<1>1. f2 \in FreeLists /\ f2[i] = t /\ \A j \in Classes : j # i => f2[j] = f[j]
  BY <1>t DEF FreeLists
<1> HIDE DEF t, f2
<1>2. \A k \in DOMAIN f[i] : f[i][k] # x
  BY DEF Listed
<1>3. ASSUME NEW k \in DOMAIN t, k # 1
      PROVE  k - 1 \in DOMAIN f[i] /\ k \in Nat /\ t[k] = f[i][k - 1] /\ t[k] # x
  <2>1. k - 1 \in 1 .. Len(f[i]) /\ k \in Nat /\ (k - 1) + 1 = k
    BY <1>l, <1>t, <1>3
  <2> QED BY <1>2, <1>l, <1>t, <2>1
<1>4. Elems(t) = Elems(f[i]) \cup {x}
  <2>1. ASSUME NEW y \in Elems(f[i]) PROVE y \in Elems(t)
    <3>1. PICK k \in DOMAIN f[i] : y = f[i][k]
      BY DEF Elems
    <3>2. k + 1 \in DOMAIN t
      BY <1>l, <1>t
    <3> QED BY <1>l, <1>t, <3>1, <3>2 DEF Elems
  <2>2. 1 \in DOMAIN t
    BY <1>l, <1>t
  <2>3. ASSUME NEW y \in Elems(t) PROVE y \in Elems(f[i]) \cup {x}
    <3>1. PICK k \in DOMAIN t : y = t[k]
      BY DEF Elems
    <3>2. CASE k = 1
      BY <1>t, <3>1, <3>2
    <3>3. CASE k # 1
      BY <1>3, <3>1, <3>3 DEF Elems
    <3> QED BY <3>2, <3>3
  <2> QED BY <1>t, <2>1, <2>2, <2>3 DEF Elems
<1>6. Listed(f2, u \ {x})
  <2> SUFFICES ASSUME NEW j \in Classes, NEW k \in DOMAIN f2[j]
               PROVE  /\ f2[j][k].size = Class(j) /\ f2[j][k] \notin u \ {x}
                      /\ \A l \in DOMAIN f2[j] : f2[j][k] = f2[j][l] => k = l
    BY DEF Listed
  <2>1. CASE j = i
    <3>1. k \in DOMAIN t /\ f2[j] = t
      BY <1>1, <2>1
    <3>2. CASE k = 1
      <4>1. \A l \in DOMAIN t : l # 1 => t[l] # x
        BY <1>3
      <4> QED BY <1>t, <2>1, <3>1, <3>2, <4>1
    <3>3. CASE k # 1
      <4>1. k - 1 \in DOMAIN f[i] /\ k \in Nat /\ t[k] = f[i][k - 1] /\ t[k] # x
        BY <1>3, <3>1, <3>3
      <4>2. ASSUME NEW l \in DOMAIN t, t[k] = t[l] PROVE k = l
        <5>1. l # 1
          BY <1>t, <4>1, <4>2
        <5>2. l - 1 \in DOMAIN f[i] /\ l \in Nat /\ t[l] = f[i][l - 1]
          BY <1>3, <5>1
        <5>3. k - 1 = l - 1
          BY <4>1, <4>2, <5>2 DEF Listed
        <5> QED BY <4>1, <5>2, <5>3
      <4> QED BY <2>1, <3>1, <4>1, <4>2 DEF Listed
    <3> QED BY <3>2, <3>3
  <2>2. CASE j # i
    BY <1>1, <2>2 DEF Listed
  <2> QED BY <2>1, <2>2
<1>7. SlabsOf(f2, u \ {x}) = SlabsOf(f, u)
  <2>1. \A j \in Classes : Elems(f2[j]) = IF j = i THEN Elems(f[i]) \cup {x} ELSE Elems(f[j])
    BY <1>1, <1>4
  <2>2. ASSUME NEW y PROVE y \in SlabsOf(f2, u \ {x}) <=> y \in SlabsOf(f, u)
    <3>1. (y \in u \ {x} \/ \E j \in Classes : y \in Elems(f2[j]))
            <=> (y \in u \/ \E j \in Classes : y \in Elems(f[j]))
      BY <2>1
    <3> QED BY <3>1, InSlabs
  <2> QED BY <2>2
<1> QED BY <1>1, <1>6, <1>7 DEF f2

\* A new slab is neither free nor used before.
LEMMA AddUsed ==
    ASSUME NEW f \in FreeLists, NEW u, Listed(f, u), NEW x, x \notin SlabsOf(f, u)
    PROVE  Listed(f, u \cup {x}) /\ SlabsOf(f, u \cup {x}) = SlabsOf(f, u) \cup {x}
<1>1. \A i \in Classes : \A k \in DOMAIN f[i] : f[i][k] # x
  BY InSlabs DEF Elems
<1>2. Listed(f, u \cup {x})
  BY <1>1 DEF Listed
<1>3. ASSUME NEW y PROVE y \in SlabsOf(f, u \cup {x}) <=> y \in SlabsOf(f, u) \cup {x}
  BY InSlabs
<1> QED BY <1>2, <1>3

-----------------------------------------------------------------------------
\* The blocks of the users, for any blocks l, used slabs u and huge blocks h.

BlockOf(b, s) == b.area = s.pool /\ b.at = s.at + Header /\ b.len <= s.size
HugeType      == (1 .. MaxHuge) \X Sizes
BlockType     == [area : Int, at : Nat, len : Nat \ {0}]

\* Blocks and what backs them correspond one to one.
Backed(l, u, h) ==
    /\ l \subseteq BlockType /\ u \subseteq SlabType /\ h \subseteq HugeType
    /\ \A b \in l : (\E s \in u : BlockOf(b, s)) \/ \E g \in h : b = HugeBlock(g[1], g[2])
    /\ \A s \in u : \E b \in l : BlockOf(b, s)
    /\ \A g \in h : HugeBlock(g[1], g[2]) \in l
    /\ \A b, c \in l : b.area = c.area /\ b.at = c.at => b = c
    /\ \A g, k \in h : g[1] = k[1] => g = k
    /\ \A s, t \in u : s # t => Apart(s, t)

Counted(l, u, h) ==
    /\ IsFiniteSet(l) /\ IsFiniteSet(u) /\ IsFiniteSet(h)
    /\ Cardinality(l) = Cardinality(u) + Cardinality(h)

\* The fields of a slab.
LEMMA SlabFields ==
    ASSUME NEW s \in SlabType
    PROVE  /\ s.pool \in Nat \ {0} /\ s.pool \in 1 .. MaxPools
           /\ s.at \in Nat /\ s.size \in Nat \ {0}
           /\ s = [pool |-> s.pool, at |-> s.at, size |-> s.size]
           /\ \E i \in Classes : s.size = Class(i)
<1>1. \A i \in Classes : Class(i) \in Nat \ {0}
  BY ConfigAssumption
<1>2. s.pool \in 1 .. MaxPools /\ s.at \in 0 .. Capacity /\ s.size \in {Class(i) : i \in Classes}
  BY DEF SlabType
<1>3. s = [pool |-> s.pool, at |-> s.at, size |-> s.size]
  BY DEF SlabType
<1>4. PICK i \in Classes : s.size = Class(i)
  BY <1>2
<1> HIDE DEF Class
<1> QED BY <1>1, <1>2, <1>3, <1>4, ConfigAssumption

\* The fields of a huge block.
LEMMA HugeFields ==
    ASSUME NEW g \in HugeType
    PROVE  /\ g[1] \in Nat \ {0} /\ g[2] \in Nat \ {0} /\ g = <<g[1], g[2]>>
           /\ HugeBlock(g[1], g[2]) \in BlockType
           /\ HugeBlock(g[1], g[2]).area < 0
<1>1. g[1] \in Nat \ {0} /\ g[2] \in Nat \ {0} /\ g = <<g[1], g[2]>>
  <2>1. g[1] \in 1 .. MaxHuge /\ g[2] \in Sizes /\ g = <<g[1], g[2]>>
    BY DEF HugeType
  <2>2. MaxHuge \in Nat /\ Sizes \subseteq Nat \ {0}
    BY ConfigAssumption
  <2> QED BY <2>1, <2>2
<1> QED BY <1>1, ConfigAssumption DEF BlockType, HugeBlock

\* Two slabs that are apart do not start at the same place.
LEMMA ApartPlaces ==
    ASSUME NEW s \in SlabType, NEW t \in SlabType, Apart(s, t)
    PROVE  ~(s.pool = t.pool /\ s.at + Header = t.at + Header)
  BY SlabFields, ConfigAssumption DEF Apart

\* Handing out a slab that is apart from the used ones: its block overlaps
\* nothing that is in use, and blocks and slabs still correspond.
LEMMA HandOutBacked ==
    ASSUME NEW l, NEW u, NEW h, Backed(l, u, h), Counted(l, u, h),
           NEW s \in SlabType, s \notin u, \A t \in u : Apart(s, t) /\ Apart(t, s),
           NEW size \in Nat \ {0}, size <= s.size
    PROVE  LET b == Block(s, size)
           IN  /\ Backed(l \cup {b}, u \cup {s}, h)
               /\ Counted(l \cup {b}, u \cup {s}, h)
               /\ \A x \in l : ~H!Overlap(b, x)
<1> DEFINE b == Block(s, size)
<1>s. /\ s.pool \in Nat \ {0} /\ s.at \in Nat /\ s.size \in Nat \ {0}
      /\ Header \in Nat \ {0}
  BY SlabFields, ConfigAssumption
<1>b. /\ b.area = s.pool /\ b.at = s.at + Header /\ b.len = size
      /\ b \in BlockType /\ BlockOf(b, s)
  BY <1>s DEF Block, BlockType, BlockOf
<1> HIDE DEF b
<1>1. ASSUME NEW x \in l
      PROVE  ~H!Overlap(b, x) /\ ~(b.area = x.area /\ b.at = x.at)
  <2>1. ASSUME NEW t \in u, BlockOf(x, t)
        PROVE  ~H!Overlap(b, x) /\ ~(b.area = x.area /\ b.at = x.at)
    <3>1. /\ t.pool \in Nat \ {0} /\ t.at \in Nat /\ t.size \in Nat \ {0}
          /\ x.len \in Nat \ {0}
      BY SlabFields DEF Backed, BlockType
    <3>2. Apart(s, t)
      OBVIOUS
    <3> QED BY <1>b, <1>s, <2>1, <3>1, <3>2 DEF Apart, BlockOf, H!Overlap
  <2>2. ASSUME NEW g \in h, x = HugeBlock(g[1], g[2])
        PROVE  ~H!Overlap(b, x) /\ ~(b.area = x.area /\ b.at = x.at)
    <3>1. x.area < 0 /\ x.area \in Int
      BY <2>2, HugeFields DEF Backed, BlockType
    <3> QED BY <1>b, <1>s, <3>1 DEF H!Overlap
  <2> QED BY <2>1, <2>2 DEF Backed
<1>2. b \notin l
  BY <1>1
<1>3. Backed(l \cup {b}, u \cup {s}, h)
  <2>1. \A x \in l \cup {b} : (\E t \in u \cup {s} : BlockOf(x, t))
                               \/ \E g \in h : x = HugeBlock(g[1], g[2])
    BY <1>b DEF Backed
  <2>2. \A t \in u \cup {s} : \E x \in l \cup {b} : BlockOf(x, t)
    BY <1>b DEF Backed
  <2>3. \A x, y \in l \cup {b} : x.area = y.area /\ x.at = y.at => x = y
    BY <1>1 DEF Backed
  <2>4. \A t, v \in u \cup {s} : t # v => Apart(t, v)
    BY DEF Backed
  <2>5. \A g \in h : HugeBlock(g[1], g[2]) \in l \cup {b}
    BY DEF Backed
  <2> QED BY <1>b, <2>1, <2>2, <2>3, <2>4, <2>5 DEF Backed
<1>4. Counted(l \cup {b}, u \cup {s}, h)
  <2>1. IsFiniteSet(l \cup {b}) /\ Cardinality(l \cup {b}) = Cardinality(l) + 1
    BY <1>2, FS_AddElement DEF Counted
  <2>2. IsFiniteSet(u \cup {s}) /\ Cardinality(u \cup {s}) = Cardinality(u) + 1
    BY FS_AddElement DEF Counted
  <2>3. Cardinality(l) \in Nat /\ Cardinality(u) \in Nat /\ Cardinality(h) \in Nat
    BY FS_CardinalityType DEF Counted
  <2> QED BY <2>1, <2>2, <2>3 DEF Counted
<1> QED BY <1>1, <1>3, <1>4 DEF b

\* What is left of the blocks l when slab s is taken back.
Without(l, s) == {b \in l : ~(b.area = s.pool /\ b.at = s.at + Header)}

\* Taking back a used slab takes exactly one block out of use.
LEMMA TakeBackBacked ==
    ASSUME NEW l, NEW u, NEW h, Backed(l, u, h), Counted(l, u, h), NEW s \in u
    PROVE  /\ Backed(Without(l, s), u \ {s}, h) /\ Counted(Without(l, s), u \ {s}, h)
           /\ \E b \in l : Without(l, s) = l \ {b}
<1> DEFINE l2 == Without(l, s)
<1> USE DEF Without
<1>1. PICK b \in l : BlockOf(b, s)
  BY DEF Backed
<1>2. l2 = l \ {b}
  BY <1>1 DEF Backed, BlockOf
<1>s. s \in SlabType /\ s.pool \in Nat \ {0}
  BY SlabFields DEF Backed
<1>3. ASSUME NEW x \in l2
      PROVE  (\E t \in u \ {s} : BlockOf(x, t)) \/ \E g \in h : x = HugeBlock(g[1], g[2])
  BY DEF Backed, BlockOf
<1>4. ASSUME NEW t \in u \ {s} PROVE \E x \in l2 : BlockOf(x, t)
  <2>1. PICK x \in l : BlockOf(x, t)
    BY DEF Backed
  <2>2. t \in SlabType /\ Apart(t, s)
    BY DEF Backed
  <2>3. ~(t.pool = s.pool /\ t.at + Header = s.at + Header)
    BY <1>s, <2>2, ApartPlaces
  <2> QED BY <2>1, <2>3 DEF BlockOf
<1>5. ASSUME NEW g \in h PROVE HugeBlock(g[1], g[2]) \in l2
  <2>1. HugeBlock(g[1], g[2]) \in l /\ HugeBlock(g[1], g[2]).area < 0
    BY HugeFields DEF Backed
  <2> QED BY <1>s, <2>1
<1>6. Backed(l2, u \ {s}, h)
  <2> HIDE DEF l2
  <2>1. l2 \subseteq l
    BY <1>2
  <2>2. /\ \A x \in l2 : (\E t \in u \ {s} : BlockOf(x, t)) \/ \E g \in h : x = HugeBlock(g[1], g[2])
        /\ \A t \in u \ {s} : \E x \in l2 : BlockOf(x, t)
        /\ \A g \in h : HugeBlock(g[1], g[2]) \in l2
    BY <1>3, <1>4, <1>5
  <2> QED BY <2>1, <2>2 DEF Backed
<1>7. Counted(l2, u \ {s}, h)
  <2>1. IsFiniteSet(l \ {b}) /\ Cardinality(l \ {b}) = Cardinality(l) - 1
    BY <1>1, FS_RemoveElement DEF Counted
  <2>2. IsFiniteSet(u \ {s}) /\ Cardinality(u \ {s}) = Cardinality(u) - 1
    BY FS_RemoveElement DEF Counted
  <2>3. Cardinality(l) \in Nat /\ Cardinality(u) \in Nat /\ Cardinality(h) \in Nat
    BY FS_CardinalityType DEF Counted
  <2> HIDE DEF l2
  <2> QED BY <1>2, <2>1, <2>2, <2>3 DEF Counted
<1> HIDE DEF Without
<1> QED BY <1>1, <1>2, <1>6, <1>7

\* A huge block has a number of its own, and so an area of its own.
LEMMA HugeBacked ==
    ASSUME NEW l, NEW u, NEW h, Backed(l, u, h), Counted(l, u, h),
           NEW k \in 1 .. MaxHuge, NEW size \in Sizes, k \notin {g[1] : g \in h}
    PROVE  LET b == HugeBlock(k, size)
           IN  /\ Backed(l \cup {b}, u, h \cup {<<k, size>>})
               /\ Counted(l \cup {b}, u, h \cup {<<k, size>>})
               /\ \A x \in l : ~H!Overlap(b, x)
<1> DEFINE b == HugeBlock(k, size)
           n == <<k, size>>
<1>n. n \in HugeType /\ n[1] = k /\ n[2] = size /\ n \notin h
  BY DEF HugeType
<1>b. b \in BlockType /\ b.area < 0 /\ b.area = -k /\ k \in Nat
  BY <1>n, HugeFields, ConfigAssumption DEF HugeBlock
<1>1. ASSUME NEW x \in l PROVE b.area # x.area
  <2>1. ASSUME NEW t \in u, BlockOf(x, t) PROVE b.area # x.area
    BY <1>b, <2>1, SlabFields DEF Backed, BlockOf
  <2>2. ASSUME NEW g \in h, x = HugeBlock(g[1], g[2]) PROVE b.area # x.area
    <3>1. g[1] # k /\ g[1] \in Nat /\ x.area = -g[1]
      BY <2>2, HugeFields DEF Backed, HugeBlock
    <3> QED BY <1>b, <3>1
  <2> QED BY <2>1, <2>2 DEF Backed
<1>2. b \notin l
  BY <1>1
<1>3. \A x \in l : ~H!Overlap(b, x)
  BY <1>1 DEF H!Overlap
<1>4. b = HugeBlock(n[1], n[2])
  BY <1>n
<1> HIDE DEF b
<1>5. \A g \in h : g[1] # n[1]
  BY <1>n
<1> HIDE DEF n
<1>6. Backed(l \cup {b}, u, h \cup {n})
  <2>1. \A x \in l \cup {b} : (\E t \in u : BlockOf(x, t))
                               \/ \E g \in h \cup {n} : x = HugeBlock(g[1], g[2])
    BY <1>4 DEF Backed
  <2>2. \A t \in u : \E x \in l \cup {b} : BlockOf(x, t)
    BY DEF Backed
  <2>3. \A x, y \in l \cup {b} : x.area = y.area /\ x.at = y.at => x = y
    BY <1>1 DEF Backed
  <2>4. \A g, m \in h \cup {n} : g[1] = m[1] => g = m
    BY <1>5 DEF Backed
  <2>5. \A g \in h \cup {n} : HugeBlock(g[1], g[2]) \in l \cup {b}
    BY <1>4 DEF Backed
  <2> QED BY <1>b, <1>n, <2>1, <2>2, <2>3, <2>4, <2>5 DEF Backed
<1>7. Counted(l \cup {b}, u, h \cup {n})
  <2>1. IsFiniteSet(l \cup {b}) /\ Cardinality(l \cup {b}) = Cardinality(l) + 1
    BY <1>2, FS_AddElement DEF Counted
  <2>2. IsFiniteSet(h \cup {n}) /\ Cardinality(h \cup {n}) = Cardinality(h) + 1
    BY <1>n, FS_AddElement DEF Counted
  <2>3. Cardinality(l) \in Nat /\ Cardinality(u) \in Nat /\ Cardinality(h) \in Nat
    BY FS_CardinalityType DEF Counted
  <2> QED BY <2>1, <2>2, <2>3 DEF Counted
<1> QED BY <1>3, <1>6, <1>7 DEF b, n

\* Giving a huge block back.
LEMMA FreeHugeBacked ==
    ASSUME NEW l, NEW u, NEW h, Backed(l, u, h), Counted(l, u, h), NEW g \in h
    PROVE  LET b == HugeBlock(g[1], g[2])
           IN  /\ Backed(l \ {b}, u, h \ {g}) /\ Counted(l \ {b}, u, h \ {g})
               /\ b \in l
<1> DEFINE b == HugeBlock(g[1], g[2])
<1>b. b \in l /\ b.area < 0 /\ b.area = -g[1] /\ g[1] \in Nat
  BY HugeFields DEF Backed, HugeBlock
<1>1. ASSUME NEW x \in l \ {b}
      PROVE  (\E t \in u : BlockOf(x, t)) \/ \E k \in h \ {g} : x = HugeBlock(k[1], k[2])
  BY DEF Backed
<1>2. ASSUME NEW t \in u PROVE \E x \in l \ {b} : BlockOf(x, t)
  <2>1. PICK x \in l : BlockOf(x, t)
    BY DEF Backed
  <2>2. x # b
    BY <1>b, <2>1, SlabFields DEF Backed, BlockOf
  <2> QED BY <2>1, <2>2
<1>3. ASSUME NEW k \in h \ {g} PROVE HugeBlock(k[1], k[2]) \in l \ {b}
  <2>1. HugeBlock(k[1], k[2]) \in l /\ HugeBlock(k[1], k[2]).area = -k[1] /\ k[1] \in Nat
    BY HugeFields DEF Backed, HugeBlock
  <2>2. k[1] # g[1]
    BY DEF Backed
  <2> QED BY <1>b, <2>1, <2>2
<1> HIDE DEF b
<1>4. Backed(l \ {b}, u, h \ {g})
  BY <1>1, <1>2, <1>3 DEF Backed
<1>5. Counted(l \ {b}, u, h \ {g})
  <2>1. IsFiniteSet(l \ {b}) /\ Cardinality(l \ {b}) = Cardinality(l) - 1
    BY <1>b, FS_RemoveElement DEF Counted
  <2>2. IsFiniteSet(h \ {g}) /\ Cardinality(h \ {g}) = Cardinality(h) - 1
    BY FS_RemoveElement DEF Counted
  <2>3. Cardinality(l) \in Nat /\ Cardinality(u) \in Nat /\ Cardinality(h) \in Nat
    BY FS_CardinalityType DEF Counted
  <2> QED BY <2>1, <2>2, <2>3 DEF Counted
<1> QED BY <1>4, <1>5, <1>b DEF b

\* In particular every block has one holder, as LiveBacked says.
LEMMA BackedHolders ==
    ASSUME Backed(live, used_slabs, huge), Counted(live, used_slabs, huge)
    PROVE  LiveBacked
<1>1. ASSUME NEW b \in live, NEW s \in used_slabs, BlockOf(b, s)
      PROVE  Cardinality(Holder(b)) = 1
  <2>1. s \in Holder(b)
    BY <1>1 DEF Holder, BlockOf
  <2>2. ASSUME NEW t \in Holder(b) PROVE t = s
    <3>1. t \in used_slabs /\ t.pool = s.pool /\ t.at + Header = s.at + Header
      BY <1>1 DEF Holder, BlockOf
    <3>2. t # s => Apart(t, s) /\ t \in SlabType /\ s \in SlabType
      BY <3>1 DEF Backed
    <3> QED BY <3>1, <3>2, ApartPlaces
  <2>3. Holder(b) = {s}
    BY <2>1, <2>2
  <2> QED BY <2>3, FS_Singleton
<1>2. ASSUME NEW b \in live, NEW g \in huge, b = HugeBlock(g[1], g[2])
      PROVE  <<-b.area, b.len>> \in huge
  <2>1. g[1] \in Nat /\ g = <<g[1], g[2]>> /\ b.area = -g[1] /\ b.len = g[2]
    BY <1>2, HugeFields DEF Backed, HugeBlock
  <2>2. -b.area = g[1]
    BY <2>1
  <2> QED BY <2>1, <2>2
<1> QED BY <1>1, <1>2 DEF Backed, Counted, LiveBacked

-----------------------------------------------------------------------------
\* The places of slabs, for any slabs S and rests d of the pools.

Placed(S, d) ==
    /\ \A s, t \in S : s # t => Apart(s, t)
    /\ \A s \in S : s.pool \in DOMAIN d /\ s.at + Header + s.size <= Capacity - d[s.pool]

\* Cutting a slab off the rest of a pool (the place is computed from the rest).
LEMMA CutPlaced ==
    ASSUME NEW S, S \subseteq SlabType, NEW d, d \in [DOMAIN d -> 0 .. Capacity], Placed(S, d),
           DOMAIN d \subseteq 1 .. MaxPools, NEW p \in DOMAIN d,
           NEW i \in Classes, d[p] >= Class(i) + Header
    PROVE  LET x  == [pool |-> p, at |-> Capacity - d[p], size |-> Class(i)]
               d2 == [d EXCEPT ![p] = @ - (Class(i) + Header)]
           IN  /\ x \in SlabType /\ x \notin S /\ \A t \in S : Apart(x, t) /\ Apart(t, x)
               /\ d2 \in [DOMAIN d -> 0 .. Capacity] /\ Placed(S \cup {x}, d2)
<1> DEFINE x  == [pool |-> p, at |-> Capacity - d[p], size |-> Class(i)]
           d2 == [d EXCEPT ![p] = @ - (Class(i) + Header)]
           c  == Class(i)
<1>c. c \in Nat \ {0} /\ Header \in Nat \ {0} /\ Capacity \in Nat /\ d[p] \in 0 .. Capacity
  BY ConfigAssumption
<1>x. /\ x.pool = p /\ x.at = Capacity - d[p] /\ x.size = c /\ x.at \in 0 .. Capacity
      /\ x \in SlabType
  <2>1. p \in 1 .. MaxPools /\ Capacity - d[p] \in 0 .. Capacity /\ Class(i) \in {Class(j) : j \in Classes}
    BY <1>c
  <2> QED BY <2>1 DEF SlabType
<1>d. /\ d2 \in [DOMAIN d -> 0 .. Capacity] /\ d2[p] = d[p] - (c + Header)
      /\ \A q \in DOMAIN d : q # p => d2[q] = d[q]
  <2>1. d[p] - (c + Header) \in 0 .. Capacity
    BY <1>c
  <2> QED BY <2>1
<1> HIDE DEF x, d2, c
<1>1. ASSUME NEW t \in S
      PROVE  /\ Apart(x, t) /\ Apart(t, x) /\ t # x
             /\ t.pool \in DOMAIN d2 /\ t.at + Header + t.size <= Capacity - d2[t.pool]
  <2>1. t.at \in Nat /\ t.size \in Nat \ {0}
    BY SlabFields
  <2>2. t.pool \in DOMAIN d /\ t.at + Header + t.size <= Capacity - d[t.pool]
    BY DEF Placed
  <2>3. CASE t.pool = p
    BY <1>c, <1>d, <1>x, <2>1, <2>2, <2>3 DEF Apart
  <2>4. CASE t.pool # p
    BY <1>d, <1>x, <2>2, <2>4 DEF Apart
  <2> QED BY <2>3, <2>4
<1>2. x.pool \in DOMAIN d2 /\ x.at + Header + x.size <= Capacity - d2[x.pool]
  BY <1>c, <1>d, <1>x
<1>3. Placed(S \cup {x}, d2)
  BY <1>1, <1>2 DEF Placed
<1> QED BY <1>1, <1>3, <1>d, <1>x DEF x, d2

\* x is the first slab of a new pool p, and d2 are the rests with that pool.
FirstSlab(d, d2, p, x, i) ==
    /\ p \in 1 .. MaxPools /\ p \notin DOMAIN d /\ i \in Classes
    /\ x = [pool |-> p, at |-> Capacity - Capacity, size |-> Class(i)]
    /\ DOMAIN d2 = DOMAIN d \cup {p}
    /\ d2[p] = Capacity - (Class(i) + Header) /\ \A q \in DOMAIN d : d2[q] = d[q]

\* The first slab of a new pool shares nothing with any other.
LEMMA NewPlaced ==
    ASSUME NEW S, S \subseteq SlabType, NEW d, d \in [DOMAIN d -> 0 .. Capacity], Placed(S, d),
           NEW d2, NEW p, NEW x, NEW i, FirstSlab(d, d2, p, x, i)
    PROVE  /\ x \in SlabType /\ x \notin S /\ \A t \in S : Apart(x, t) /\ Apart(t, x)
           /\ \A q \in DOMAIN d2 : d2[q] \in 0 .. Capacity
           /\ Placed(S \cup {x}, d2)
<1>f. /\ p \in 1 .. MaxPools /\ p \notin DOMAIN d /\ i \in Classes
      /\ x = [pool |-> p, at |-> Capacity - Capacity, size |-> Class(i)]
      /\ DOMAIN d2 = DOMAIN d \cup {p}
      /\ d2[p] = Capacity - (Class(i) + Header) /\ \A q \in DOMAIN d : d2[q] = d[q]
  BY DEF FirstSlab
<1> DEFINE c  == Class(i)
<1>c. c \in Nat \ {0} /\ Header \in Nat \ {0} /\ Capacity \in Nat /\ c + Header <= Capacity
  BY <1>f, ConfigAssumption
<1>x. /\ x.pool = p /\ x.at = 0 /\ x.size = c
      /\ x \in SlabType
  <2>1. Capacity - Capacity = 0 /\ 0 \in 0 .. Capacity /\ Class(i) \in {Class(j) : j \in Classes}
    BY <1>c, <1>f
  <2> QED BY <1>f, <2>1 DEF SlabType
<1>d. d2[p] = Capacity - (c + Header) /\ \A q \in DOMAIN d2 : d2[q] \in 0 .. Capacity
  <2>1. Capacity - (c + Header) \in 0 .. Capacity
    BY <1>c
  <2> QED BY <1>f, <2>1
<1> HIDE DEF c
<1>1. ASSUME NEW t \in S
      PROVE  /\ Apart(x, t) /\ Apart(t, x) /\ t # x
             /\ t.pool \in DOMAIN d2 /\ t.at + Header + t.size <= Capacity - d2[t.pool]
  BY <1>d, <1>f, <1>x DEF Apart, Placed
<1>2. x.pool \in DOMAIN d2 /\ x.at + Header + x.size <= Capacity - d2[x.pool]
  BY <1>c, <1>d, <1>f, <1>x
<1>3. Placed(S \cup {x}, d2)
  BY <1>1, <1>2 DEF Placed
<1> QED BY <1>1, <1>3, <1>d, <1>x

-----------------------------------------------------------------------------
\* The inductive invariant. What the users hold corresponds one to one to
\* what is used (Backed), which LiveBacked only counts; the pools are numbered
\* without gaps, so that a new one is new; and what is on the list of used up
\* pools is used up.
PoolsInOrder  == \E n \in Nat : Pools = 1 .. n
PutAwayUsedUp == \A p \in empty_pool : UsedUp(p)

IInv ==
    /\ SlabsApart /\ SlabsListed /\ PoolsListed /\ CountCovers
    /\ PoolsInOrder /\ PutAwayUsedUp
    /\ Backed(live, used_slabs, huge) /\ Counted(live, used_slabs, huge)

\* The invariant in the terms of the lemmas above.
LEMMA IInvParts ==
    IInv <=> /\ TypeOK /\ PoolsListed /\ CountCovers /\ PoolsInOrder /\ PutAwayUsedUp
             /\ stat_flag = used_slabs /\ Listed(free_slabs, used_slabs)
             /\ Placed(SlabsOf(free_slabs, used_slabs), depth)
             /\ Backed(live, used_slabs, huge) /\ Counted(live, used_slabs, huge)
  BY DEF IInv, SlabsApart, SlabsListed, Listed, Placed, SlabsOf, Slabs, Elems, Pools

\* The same of the next state.
LEMMA IInvPartsNext ==
    IInv' <=> /\ TypeOK' /\ PoolsListed' /\ CountCovers' /\ PoolsInOrder' /\ PutAwayUsedUp'
              /\ stat_flag' = used_slabs' /\ Listed(free_slabs', used_slabs')
              /\ Placed(SlabsOf(free_slabs', used_slabs'), depth')
              /\ Backed(live', used_slabs', huge') /\ Counted(live', used_slabs', huge')
  BY DEF IInv, SlabsApart, SlabsListed, Listed, Placed, SlabsOf, Slabs, Elems, Pools

\* All slabs have the type of a slab.
LEMMA SlabsTyped ==
    ASSUME TypeOK
    PROVE  SlabsOf(free_slabs, used_slabs) \subseteq SlabType
<1>1. ASSUME NEW i \in Classes, NEW y \in Elems(free_slabs[i]) PROVE y \in SlabType
  BY LenProperties DEF TypeOK, Elems
<1> QED BY <1>1, InSlabs DEF TypeOK

\* The walk over the pools (mempool_find_appropriate_pool): when it finds a
\* pool, that pool has room.
LEMMA WalkFinds ==
    ASSUME TypeOK, NEW size \in Sizes, ~TooBig(size), Found(size)
    PROVE  /\ FirstFit(size) \in pool
           /\ depth[FirstFit(size)] >= Class(Index(size)) + Header
           /\ FirstFit(size) \notin PutAway(size)
<1> DEFINE S == {p \in pool : HasRoom(p, size)}
<1>1. PICK p \in pool : p \notin Walked(size)
  BY DEF Found, Walked
<1>2. PICK q \in pool : q >= p /\ HasRoom(q, size)
  BY <1>1 DEF Walked
<1>3. S # {} /\ S \subseteq 1 .. MaxPools /\ MaxPools \in Nat
  BY <1>2, ConfigAssumption DEF TypeOK
<1>4. PICK f \in S : \A r \in S : r <= f
  BY <1>3, GreatestNumber
<1>5. \E r \in pool : HasRoom(r, size) /\ \A t \in pool : HasRoom(t, size) => t <= r
  BY <1>4
<1>6. FirstFit(size) \in pool /\ HasRoom(FirstFit(size), size)
  BY <1>5 DEF FirstFit
<1>7. depth[FirstFit(size)] \in Nat /\ FirstFit(size) \in Nat
  <2>1. FirstFit(size) \in Pools /\ Pools \subseteq 1 .. MaxPools
    BY <1>6 DEF TypeOK
  <2>2. depth[FirstFit(size)] \in 0 .. Capacity /\ Capacity \in Nat /\ MaxPools \in Nat
    BY <2>1, ConfigAssumption DEF TypeOK
  <2>3. FirstFit(size) \in 1 .. MaxPools
    BY <2>1
  <2> HIDE DEF FirstFit
  <2> QED BY <2>2, <2>3
<1>8. depth[FirstFit(size)] >= Class(Index(size)) + Header
  <2>1. depth[FirstFit(size)] < 0 \/ depth[FirstFit(size)] >= Class(Index(size)) + Header
    BY <1>6 DEF HasRoom, SlabSize
  <2> HIDE DEF Class
  <2> QED BY <1>7, <2>1
<1>9. FirstFit(size) \notin Walked(size)
  BY <1>6, <1>7 DEF Walked
<1> QED BY <1>6, <1>8, <1>9 DEF PutAway

\* What a request is served with.
LEMMA RequestClass ==
    ASSUME NEW size \in Sizes, ~TooBig(size)
    PROVE  /\ Index(size) \in Classes /\ size \in Nat \ {0}
           /\ size <= Class(Index(size)) /\ Class(Index(size)) \in Nat \ {0}
<1>1. size \in Nat \ {0}
  BY ConfigAssumption
<1>2. Index(size) \in Classes /\ Fits(Index(size), size)
  BY IndexLeast DEF TooBig
<1> QED BY <1>1, <1>2, FitsIffSmall, ConfigAssumption

-----------------------------------------------------------------------------
\* One lemma per action.

\* A block is handed out that was free or that nobody has had before, and the
\* slab lists and the places are as they should be: then all parts of the
\* invariant that are about blocks and counts hold again.
LEMMA HandOutStep ==
    ASSUME IInv, ~destroyed, NEW s \in SlabType, s \notin used_slabs,
           \A t \in used_slabs : Apart(s, t) /\ Apart(t, s),
           NEW size \in Nat \ {0}, size <= s.size, HandOut(s, size),
           UNCHANGED <<huge, fails, destroyed>>
    PROVE  /\ Backed(live', used_slabs', huge') /\ Counted(live', used_slabs', huge')
           /\ stat_flag' = used_slabs' /\ used_slabs' \subseteq SlabType
           /\ CountCovers' /\ alloc_count' \in Nat
           /\ live' = live \cup {Block(s, size)}
           /\ \A x \in live : ~H!Overlap(Block(s, size), x)
<1> DEFINE b == Block(s, size)
<1>1. /\ TypeOK /\ Backed(live, used_slabs, huge) /\ Counted(live, used_slabs, huge)
      /\ stat_flag = used_slabs /\ CountCovers
  BY IInvParts
<1>2. /\ Backed(live \cup {b}, used_slabs \cup {s}, huge)
      /\ Counted(live \cup {b}, used_slabs \cup {s}, huge)
      /\ \A x \in live : ~H!Overlap(b, x)
  BY <1>1, HandOutBacked
<1> HIDE DEF b
<1>3. live' = live \cup {b} /\ used_slabs' = used_slabs \cup {s} /\ huge' = huge
  BY DEF HandOut, b
<1>4. Backed(live', used_slabs', huge') /\ Counted(live', used_slabs', huge')
  BY <1>2, <1>3
<1>5. stat_flag' = used_slabs' /\ used_slabs' \subseteq SlabType
  BY <1>1 DEF HandOut, TypeOK
<1>6. Cardinality(live') = Cardinality(live) + 1 /\ Cardinality(live) \in Nat
  <2>1. Cardinality(used_slabs \cup {s}) = Cardinality(used_slabs) + 1
    BY <1>1, FS_AddElement DEF Counted
  <2>2. Cardinality(live) \in Nat /\ Cardinality(used_slabs) \in Nat /\ Cardinality(huge) \in Nat
    BY <1>1, FS_CardinalityType DEF Counted
  <2> QED BY <1>1, <1>3, <1>4, <2>1, <2>2 DEF Counted
<1>7. CountCovers' /\ alloc_count' \in Nat
  BY <1>1, <1>6 DEF HandOut, CountCovers, TypeOK
<1> QED BY <1>2, <1>3, <1>4, <1>5, <1>7 DEF b

\* slab_detach_front_list_from_free_slabs.
LEMMA ReuseStep ==
    ASSUME IInv, ~destroyed, NEW size \in Sizes, AllocReuse(size), UNCHANGED destroyed
    PROVE  /\ IInv' /\ H!Alloc
           /\ used_slabs' \ used_slabs \subseteq SlabsOf(free_slabs, used_slabs)
<1> DEFINE i == Index(size)
           s == Head(free_slabs[i])
<1>1. /\ TypeOK /\ PoolsListed /\ CountCovers /\ PoolsInOrder /\ PutAwayUsedUp
      /\ stat_flag = used_slabs /\ Listed(free_slabs, used_slabs)
      /\ Placed(SlabsOf(free_slabs, used_slabs), depth)
      /\ free_slabs \in FreeLists
  BY IInvParts DEF TypeOK, FreeLists
<1>2. i \in Classes /\ size \in Nat \ {0} /\ size <= Class(i) /\ free_slabs[i] # <<>>
  BY RequestClass DEF AllocReuse
<1>3. /\ HandOut(s, size) /\ free_slabs' = [free_slabs EXCEPT ![i] = Tail(@)]
      /\ UNCHANGED <<pool, empty_pool, depth, huge, fails>>
  BY DEF AllocReuse
<1> HIDE DEF i
<1>4. /\ s \in SlabType /\ s \notin used_slabs /\ s.size = Class(i)
      /\ free_slabs' \in FreeLists /\ Listed(free_slabs', used_slabs \cup {s})
      /\ s \in SlabsOf(free_slabs, used_slabs)
      /\ SlabsOf(free_slabs', used_slabs \cup {s}) = SlabsOf(free_slabs, used_slabs)
  BY <1>1, <1>2, <1>3, TakeFront
<1> HIDE DEF s
<1>5. \A t \in used_slabs : Apart(s, t) /\ Apart(t, s)
  BY <1>1, <1>4, InSlabs DEF Placed
<1>6. /\ Backed(live', used_slabs', huge') /\ Counted(live', used_slabs', huge')
      /\ stat_flag' = used_slabs' /\ used_slabs' \subseteq SlabType
      /\ CountCovers' /\ alloc_count' \in Nat
      /\ live' = live \cup {Block(s, size)}
      /\ \A x \in live : ~H!Overlap(Block(s, size), x)
  BY <1>2, <1>3, <1>4, <1>5, HandOutStep
<1>7. used_slabs' = used_slabs \cup {s}
  BY <1>3 DEF HandOut
<1>8. TypeOK'
  BY <1>1, <1>3, <1>4, <1>6 DEF TypeOK, FreeLists, Pools
<1>9. PoolsListed' /\ PoolsInOrder' /\ PutAwayUsedUp'
  BY <1>1, <1>3 DEF PoolsListed, PoolsInOrder, PutAwayUsedUp, UsedUp, Pools
<1>10. IInv'
  BY <1>1, <1>3, <1>4, <1>6, <1>7, <1>8, <1>9, IInvPartsNext
<1> QED BY <1>4, <1>6, <1>7, <1>10 DEF H!Alloc

\* What the walk does to the lists of pools.
LEMMA WalkLists ==
    ASSUME TypeOK, PoolsListed, PutAwayUsedUp, NEW size,
           pool' = Kept(size), empty_pool' = empty_pool \cup PutAway(size)
    PROVE  /\ pool' \cup empty_pool' = Pools /\ pool' \cap empty_pool' = {}
           /\ \A p \in empty_pool' : p \in Pools /\ UsedUp(p)
           /\ PutAway(size) \subseteq pool
  BY DEF PoolsListed, PutAwayUsedUp, Kept, PutAway, Walked, TypeOK

\* mempool_alloc_slab_list from a pool with room.
LEMMA CutStep ==
    ASSUME IInv, ~destroyed, NEW size \in Sizes, AllocCut(size), UNCHANGED destroyed
    PROVE  /\ IInv' /\ H!Alloc
           /\ \A x \in used_slabs' \ used_slabs : x.pool \in Pools
<1> DEFINE i == Index(size)
           p == FirstFit(size)
           s == Cut(p, depth[p], size)
           c == Class(i) + Header
<1>1. /\ TypeOK /\ PoolsListed /\ CountCovers /\ PoolsInOrder /\ PutAwayUsedUp
      /\ stat_flag = used_slabs /\ Listed(free_slabs, used_slabs)
      /\ Placed(SlabsOf(free_slabs, used_slabs), depth)
      /\ free_slabs \in FreeLists
  BY IInvParts DEF TypeOK, FreeLists
<1>2. i \in Classes /\ size \in Nat \ {0} /\ size <= Class(i) /\ Class(i) \in Nat \ {0}
  BY RequestClass DEF AllocCut, NeedsPool
<1>3. p \in pool /\ depth[p] >= Class(i) + Header /\ p \notin PutAway(size)
  BY <1>1, WalkFinds DEF AllocCut, NeedsPool
<1>4. /\ HandOut(s, size) /\ depth' = [depth EXCEPT ![p] = @ - (Class(i) + Header)]
      /\ pool' = Kept(size) /\ empty_pool' = empty_pool \cup PutAway(size)
      /\ UNCHANGED <<free_slabs, huge, fails>>
      /\ s = [pool |-> p, at |-> Capacity - depth[p], size |-> Class(i)]
  BY DEF AllocCut, SlabSize, Cut
<1> HIDE DEF i, p, s
<1>5. /\ depth \in [DOMAIN depth -> 0 .. Capacity] /\ DOMAIN depth \subseteq 1 .. MaxPools
      /\ p \in DOMAIN depth
  BY <1>1, <1>3 DEF TypeOK, Pools
<1>6. SlabsOf(free_slabs, used_slabs) \subseteq SlabType
  BY <1>1, SlabsTyped
<1>7. /\ s \in SlabType /\ s \notin SlabsOf(free_slabs, used_slabs)
      /\ \A t \in SlabsOf(free_slabs, used_slabs) : Apart(s, t) /\ Apart(t, s)
      /\ depth' \in [DOMAIN depth -> 0 .. Capacity]
      /\ Placed(SlabsOf(free_slabs, used_slabs) \cup {s}, depth')
  <2> HIDE DEF Class
  <2> QED BY <1>1, <1>2, <1>3, <1>4, <1>5, <1>6, CutPlaced
<1>8. /\ s \notin used_slabs /\ s.size = Class(i)
      /\ \A t \in used_slabs : Apart(s, t) /\ Apart(t, s)
  BY <1>4, <1>7, InSlabs
<1>9. /\ Backed(live', used_slabs', huge') /\ Counted(live', used_slabs', huge')
      /\ stat_flag' = used_slabs' /\ used_slabs' \subseteq SlabType
      /\ CountCovers' /\ alloc_count' \in Nat
      /\ live' = live \cup {Block(s, size)}
      /\ \A x \in live : ~H!Overlap(Block(s, size), x)
  BY <1>2, <1>4, <1>7, <1>8, HandOutStep
<1>10. used_slabs' = used_slabs \cup {s}
  BY <1>4 DEF HandOut
<1>11. Listed(free_slabs', used_slabs') /\ Placed(SlabsOf(free_slabs', used_slabs'), depth')
  <2>1. /\ Listed(free_slabs, used_slabs \cup {s})
        /\ SlabsOf(free_slabs, used_slabs \cup {s}) = SlabsOf(free_slabs, used_slabs) \cup {s}
    BY <1>1, <1>7, AddUsed
  <2>2. free_slabs' = free_slabs
    BY <1>4
  <2> QED BY <1>7, <1>10, <2>1, <2>2
<1>12. DOMAIN depth' = DOMAIN depth /\ Pools' = Pools
  BY <1>7 DEF Pools
<1>13. /\ pool' \cup empty_pool' = Pools /\ pool' \cap empty_pool' = {}
       /\ \A q \in empty_pool' : q \in Pools /\ UsedUp(q)
       /\ PutAway(size) \subseteq pool
  BY <1>1, <1>4, WalkLists
<1>14. TypeOK'
  BY <1>1, <1>4, <1>7, <1>9, <1>12, <1>13 DEF TypeOK, Pools
<1>15. PoolsListed' /\ PoolsInOrder'
  BY <1>1, <1>12, <1>13 DEF PoolsListed, PoolsInOrder
<1>16. PutAwayUsedUp'
  <2>1. ASSUME NEW q \in empty_pool' PROVE depth'[q] = depth[q] /\ UsedUp(q)
    <3>1. q # p
      BY <1>1, <1>3, <1>4 DEF PoolsListed
    <3> QED BY <1>4, <1>5, <1>13, <3>1 DEF Pools
  <2> QED BY <2>1 DEF PutAwayUsedUp, UsedUp
<1>17. IInv'
  BY <1>9, <1>11, <1>14, <1>15, <1>16, IInvPartsNext
<1>18. \A x \in used_slabs' \ used_slabs : x.pool \in Pools
  BY <1>4, <1>5, <1>10 DEF Pools
<1>19. H!Alloc
  BY <1>9 DEF H!Alloc
<1> QED BY <1>17, <1>18, <1>19

\* mempool_alloc_slab_list from a new pool.
LEMMA PoolStep ==
    ASSUME IInv, ~destroyed, NEW size \in Sizes, AllocPool(size), UNCHANGED destroyed
    PROVE  /\ IInv' /\ H!Alloc
           /\ \A p \in Pools : depth[p] < Class(Index(size)) + Header
           /\ \A t \in SlabsOf(free_slabs, used_slabs) \ used_slabs : t.size # Class(Index(size))
           /\ \A x \in used_slabs' \ used_slabs : x.size = Class(Index(size))
<1> DEFINE i == Index(size)
           p == NewPool
           s == Cut(p, Capacity, size)
<1>1. /\ TypeOK /\ PoolsListed /\ CountCovers /\ PoolsInOrder /\ PutAwayUsedUp
      /\ stat_flag = used_slabs /\ Listed(free_slabs, used_slabs)
      /\ Placed(SlabsOf(free_slabs, used_slabs), depth)
      /\ free_slabs \in FreeLists
  BY IInvParts DEF TypeOK, FreeLists
<1>2. /\ i \in Classes /\ size \in Nat \ {0} /\ size <= Class(i) /\ Class(i) \in Nat \ {0}
      /\ free_slabs[i] = <<>>
  BY RequestClass DEF AllocPool, NeedsPool
<1>3. PICK n \in Nat : Pools = 1 .. n
  BY <1>1 DEF PoolsInOrder
<1>4. p = n + 1
  <2>1. Cardinality(1 .. n) = n
    BY FS_Interval
  <2> QED BY <1>3, <2>1 DEF NewPool
<1>5. p \in 1 .. MaxPools /\ p \notin DOMAIN depth /\ DOMAIN depth \cup {p} = 1 .. (n + 1)
  BY <1>3, <1>4, ConfigAssumption DEF AllocPool, Pools
<1>6. /\ HandOut(s, size)
      /\ depth' = [q \in DOMAIN depth \cup {p} |->
                      IF q = p THEN Capacity - (Class(i) + Header) ELSE depth[q]]
      /\ pool' = {p} \cup Kept(size) /\ empty_pool' = empty_pool \cup PutAway(size)
      /\ UNCHANGED <<free_slabs, huge, fails>>
      /\ s = [pool |-> p, at |-> Capacity - Capacity, size |-> Class(i)]
  BY DEF AllocPool, SlabSize, Cut, Pools
<1> HIDE DEF i, p, s
<1>7. depth \in [DOMAIN depth -> 0 .. Capacity]
  BY <1>1 DEF TypeOK, Pools
<1>8. SlabsOf(free_slabs, used_slabs) \subseteq SlabType
  BY <1>1, SlabsTyped
<1>9. /\ s \in SlabType /\ s \notin SlabsOf(free_slabs, used_slabs)
      /\ \A t \in SlabsOf(free_slabs, used_slabs) : Apart(s, t) /\ Apart(t, s)
      /\ depth' \in [DOMAIN depth \cup {p} -> 0 .. Capacity]
      /\ Placed(SlabsOf(free_slabs, used_slabs) \cup {s}, depth')
  <2> DEFINE S == SlabsOf(free_slabs, used_slabs)
  <2>1. S \subseteq SlabType /\ Placed(S, depth)
    BY <1>1, <1>8
  <2> HIDE DEF Class, S
  <2>2. /\ s \in SlabType /\ s \notin S /\ \A t \in S : Apart(s, t) /\ Apart(t, s)
        /\ depth' \in [DOMAIN depth \cup {p} -> 0 .. Capacity] /\ Placed(S \cup {s}, depth')
    <3>1. /\ DOMAIN depth' = DOMAIN depth \cup {p}
          /\ depth'[p] = Capacity - (Class(i) + Header)
          /\ \A q \in DOMAIN depth : depth'[q] = depth[q]
          /\ s = [pool |-> p, at |-> Capacity - Capacity, size |-> Class(i)]
      BY <1>5, <1>6
    <3>2. /\ s \in SlabType /\ s \notin S /\ \A t \in S : Apart(s, t) /\ Apart(t, s)
          /\ \A q \in DOMAIN depth' : depth'[q] \in 0 .. Capacity
          /\ Placed(S \cup {s}, depth')
      <4>1. FirstSlab(depth, depth', p, s, i)
        BY <1>2, <1>5, <3>1 DEF FirstSlab
      <4> QED BY <1>7, <2>1, <4>1, NewPlaced
    <3> QED BY <1>6, <3>1, <3>2
  <2> QED BY <2>2 DEF S
<1>10. /\ s \notin used_slabs /\ s.size = Class(i)
       /\ \A t \in used_slabs : Apart(s, t) /\ Apart(t, s)
  BY <1>6, <1>9, InSlabs
<1>11. /\ Backed(live', used_slabs', huge') /\ Counted(live', used_slabs', huge')
       /\ stat_flag' = used_slabs' /\ used_slabs' \subseteq SlabType
       /\ CountCovers' /\ alloc_count' \in Nat
       /\ live' = live \cup {Block(s, size)}
       /\ \A x \in live : ~H!Overlap(Block(s, size), x)
  BY <1>2, <1>6, <1>9, <1>10, HandOutStep
<1>12. used_slabs' = used_slabs \cup {s}
  BY <1>6 DEF HandOut
<1>13. Listed(free_slabs', used_slabs') /\ Placed(SlabsOf(free_slabs', used_slabs'), depth')
  <2>1. /\ Listed(free_slabs, used_slabs \cup {s})
        /\ SlabsOf(free_slabs, used_slabs \cup {s}) = SlabsOf(free_slabs, used_slabs) \cup {s}
    BY <1>1, <1>9, AddUsed
  <2>2. free_slabs' = free_slabs
    BY <1>6
  <2> QED BY <1>9, <1>12, <2>1, <2>2
<1>14. Pools' = Pools \cup {p} /\ Pools' = 1 .. (n + 1) /\ p \notin Pools
  BY <1>5, <1>9 DEF Pools
<1>15. /\ Kept(size) \cup empty_pool' = Pools /\ Kept(size) \cap empty_pool' = {}
       /\ \A q \in empty_pool' : q \in Pools /\ UsedUp(q)
  BY <1>1, <1>6 DEF PoolsListed, PutAwayUsedUp, Kept, PutAway, Walked, TypeOK
<1>16. pool' \cup empty_pool' = Pools' /\ pool' \cap empty_pool' = {}
  BY <1>6, <1>14, <1>15
<1>17. TypeOK'
  <2>1. Pools' \subseteq 1 .. MaxPools
    BY <1>1, <1>5, <1>14 DEF TypeOK
  <2>2. depth' \in [Pools' -> 0 .. Capacity] /\ pool' \subseteq Pools' /\ empty_pool' \subseteq Pools'
    BY <1>9, <1>14, <1>16 DEF Pools
  <2> QED BY <1>1, <1>6, <1>11, <2>1, <2>2 DEF TypeOK
<1>18. PoolsListed' /\ PoolsInOrder'
  BY <1>14, <1>16 DEF PoolsListed, PoolsInOrder
<1>19. PutAwayUsedUp'
  <2>1. ASSUME NEW q \in empty_pool' PROVE depth'[q] = depth[q] /\ UsedUp(q)
    BY <1>6, <1>14, <1>15 DEF Pools
  <2> QED BY <2>1 DEF PutAwayUsedUp, UsedUp
<1>20. IInv'
  BY <1>11, <1>13, <1>17, <1>18, <1>19, IInvPartsNext
<1>21. ASSUME NEW q \in Pools PROVE depth[q] < Class(i) + Header
  <2>0. depth[q] \in Nat /\ Header \in Nat /\ DataMin \in Nat /\ DataMin <= Class(i)
    <3>1. depth[q] \in 0 .. Capacity /\ Capacity \in Nat /\ Header \in Nat
      BY <1>1, ConfigAssumption DEF TypeOK
    <3>2. 0 \in Classes /\ Class(0) = DataMin /\ Class(0) \in Nat
      BY ConfigAssumption DEF Classes
    <3>3. i = 0 \/ 0 < i
      BY <1>2 DEF Classes
    <3>4. 0 < i => Class(0) < Class(i)
      BY <1>2, <3>2, ConfigAssumption
    <3> HIDE DEF Class
    <3> QED BY <1>2, <3>1, <3>2, <3>3, <3>4
  <2> HIDE DEF Class
  <2>1. CASE q \in pool
    <3>1. q \in Walked(size)
      BY <2>1 DEF AllocPool, Found
    <3>2. ~HasRoom(q, size)
      <4>1. q >= q
        BY <1>3
      <4> QED BY <2>1, <3>1, <4>1 DEF Walked
    <3> QED BY <1>2, <2>0, <3>2 DEF HasRoom, SlabSize, i
  <2>2. CASE q \in empty_pool
    BY <1>1, <1>2, <2>0, <2>2 DEF PutAwayUsedUp, UsedUp
  <2> QED BY <1>1, <2>1, <2>2 DEF PoolsListed
<1>22. ASSUME NEW t \in SlabsOf(free_slabs, used_slabs) \ used_slabs PROVE t.size # Class(i)
  <2>1. PICK j \in Classes : t \in Elems(free_slabs[j])
    BY InSlabs
  <2>2. t.size = Class(j)
    BY <1>1, <2>1 DEF Listed, Elems
  <2>3. j # i
    <3>1. DOMAIN <<>> = {}
      OBVIOUS
    <3> QED BY <1>2, <2>1, <3>1 DEF Elems
  <2>4. j < i \/ i < j
    BY <1>2, <2>3 DEF Classes
  <2>5. Class(j) \in Nat /\ Class(i) \in Nat
    BY <1>2, ConfigAssumption
  <2> QED BY <1>2, <2>2, <2>4, <2>5, ConfigAssumption
<1>23. \A x \in used_slabs' \ used_slabs : x.size = Class(i)
  BY <1>10, <1>12
<1>24. H!Alloc
  BY <1>11 DEF H!Alloc
<1> QED BY <1>20, <1>21, <1>22, <1>23, <1>24 DEF i

\* A new pool that malloc refuses: only the walk's changes to the lists stay.
LEMMA PoolFailsStep ==
    ASSUME IInv, NEW size \in Sizes, AllocPoolFails(size), UNCHANGED destroyed
    PROVE  IInv' /\ live' = live /\ used_slabs' = used_slabs
<1>1. /\ TypeOK /\ PoolsListed /\ CountCovers /\ PoolsInOrder /\ PutAwayUsedUp
      /\ stat_flag = used_slabs /\ Listed(free_slabs, used_slabs)
      /\ Placed(SlabsOf(free_slabs, used_slabs), depth)
      /\ Backed(live, used_slabs, huge) /\ Counted(live, used_slabs, huge)
  BY IInvParts
<1>2. /\ pool' \cup empty_pool' = Pools /\ pool' \cap empty_pool' = {}
      /\ \A q \in empty_pool' : q \in Pools /\ UsedUp(q)
  BY <1>1, WalkLists DEF AllocPoolFails
<1>3. /\ UNCHANGED <<depth, free_slabs, used_slabs, huge, stat_flag, alloc_count, live>>
      /\ fails' = fails + 1 /\ fails' \in 0 .. MaxFails
  BY <1>1, ConfigAssumption DEF AllocPoolFails, TypeOK
<1>4. Pools' = Pools
  BY <1>3 DEF Pools
<1>5. TypeOK'
  BY <1>1, <1>2, <1>3, <1>4 DEF TypeOK
<1>6. PoolsListed' /\ PoolsInOrder' /\ PutAwayUsedUp'
  BY <1>1, <1>2, <1>3, <1>4 DEF PoolsListed, PoolsInOrder, PutAwayUsedUp, UsedUp
<1>7. CountCovers'
  <2>1. Cardinality(live) \in Nat /\ alloc_count \in Nat /\ fails \in Nat
    BY <1>1, FS_CardinalityType, ConfigAssumption DEF Counted, TypeOK
  <2> QED BY <1>1, <1>3, <2>1 DEF CountCovers
<1> QED BY <1>1, <1>3, <1>5, <1>6, <1>7, IInvPartsNext

\* alloc_huge_slab.
LEMMA HugeStep ==
    ASSUME IInv, ~destroyed, NEW size \in Sizes, AllocHuge(size), UNCHANGED destroyed
    PROVE  IInv' /\ H!Alloc /\ used_slabs' = used_slabs
<1>1. /\ TypeOK /\ PoolsListed /\ CountCovers /\ PoolsInOrder /\ PutAwayUsedUp
      /\ stat_flag = used_slabs /\ Listed(free_slabs, used_slabs)
      /\ Placed(SlabsOf(free_slabs, used_slabs), depth)
      /\ Backed(live, used_slabs, huge) /\ Counted(live, used_slabs, huge)
  BY IInvParts
<1>2. PICK k \in 1 .. MaxHuge :
          /\ k \notin {h[1] : h \in huge} /\ huge' = huge \cup {<<k, size>>}
          /\ live' = live \cup {HugeBlock(k, size)}
  BY DEF AllocHuge
<1>3. /\ UNCHANGED <<pool, empty_pool, depth, free_slabs, used_slabs, stat_flag, fails>>
      /\ alloc_count' = alloc_count + 1
  BY DEF AllocHuge
<1>4. /\ Backed(live', used_slabs', huge') /\ Counted(live', used_slabs', huge')
      /\ \A x \in live : ~H!Overlap(HugeBlock(k, size), x)
  BY <1>1, <1>2, <1>3, HugeBacked
<1>5. Cardinality(live') = Cardinality(live) + 1 /\ Cardinality(live) \in Nat
  <2>1. Cardinality(huge') = Cardinality(huge) + 1
    <3>1. <<k, size>> \notin huge
      BY <1>2
    <3> QED BY <1>1, <1>2, <3>1, FS_AddElement DEF Counted
  <2>2. Cardinality(live) \in Nat /\ Cardinality(used_slabs) \in Nat /\ Cardinality(huge) \in Nat
    BY <1>1, FS_CardinalityType DEF Counted
  <2> QED BY <1>1, <1>3, <1>4, <2>1, <2>2 DEF Counted
<1>6. CountCovers'
  <2>1. alloc_count \in Nat /\ fails \in Nat
    BY <1>1, ConfigAssumption DEF TypeOK
  <2> QED BY <1>1, <1>3, <1>5, <2>1 DEF CountCovers
<1>7. TypeOK'
  <2>1. huge' \subseteq (1 .. MaxHuge) \X Sizes
    BY <1>4 DEF Backed, HugeType
  <2> QED BY <1>1, <1>3, <2>1 DEF TypeOK, Pools
<1>8. PoolsListed' /\ PoolsInOrder' /\ PutAwayUsedUp'
  BY <1>1, <1>3 DEF PoolsListed, PoolsInOrder, PutAwayUsedUp, UsedUp, Pools
<1>9. IInv'
  BY <1>1, <1>3, <1>4, <1>6, <1>7, <1>8, IInvPartsNext
<1>10. H!Alloc
  BY <1>2, <1>4 DEF H!Alloc
<1> QED BY <1>3, <1>9, <1>10

\* alloc_huge_slab when malloc refuses: the count is one too high from now on.
LEMMA HugeFailsStep ==
    ASSUME IInv, NEW size \in Sizes, AllocHugeFails(size), UNCHANGED destroyed
    PROVE  IInv' /\ live' = live /\ used_slabs' = used_slabs
<1>1. /\ TypeOK /\ PoolsListed /\ CountCovers /\ PoolsInOrder /\ PutAwayUsedUp
      /\ stat_flag = used_slabs /\ Listed(free_slabs, used_slabs)
      /\ Placed(SlabsOf(free_slabs, used_slabs), depth)
      /\ Backed(live, used_slabs, huge) /\ Counted(live, used_slabs, huge)
  BY IInvParts
<1>2. /\ UNCHANGED <<pool, empty_pool, depth, free_slabs, used_slabs, huge, stat_flag, live>>
      /\ alloc_count' = alloc_count + 1
      /\ fails' = fails + 1 /\ fails' \in 0 .. MaxFails
  BY <1>1, ConfigAssumption DEF AllocHugeFails, TypeOK
<1>3. TypeOK'
  BY <1>1, <1>2 DEF TypeOK, Pools
<1>4. PoolsListed' /\ PoolsInOrder' /\ PutAwayUsedUp'
  BY <1>1, <1>2 DEF PoolsListed, PoolsInOrder, PutAwayUsedUp, UsedUp, Pools
<1>5. CountCovers'
  <2>1. Cardinality(live) \in Nat /\ alloc_count \in Nat /\ fails \in Nat
    BY <1>1, FS_CardinalityType, ConfigAssumption DEF Counted, TypeOK
  <2> QED BY <1>1, <1>2, <2>1 DEF CountCovers
<1> QED BY <1>1, <1>2, <1>3, <1>4, <1>5, IInvPartsNext

\* free_normal_slab.
LEMMA FreeSlabStep ==
    ASSUME IInv, ~destroyed, NEW s \in Slabs, FreeSlab(s), UNCHANGED destroyed
    PROVE  IInv' /\ H!Free /\ used_slabs' \subseteq used_slabs
<1> DEFINE i == Index(s.size)
<1>1. /\ TypeOK /\ PoolsListed /\ CountCovers /\ PoolsInOrder /\ PutAwayUsedUp
      /\ stat_flag = used_slabs /\ Listed(free_slabs, used_slabs)
      /\ Placed(SlabsOf(free_slabs, used_slabs), depth)
      /\ Backed(live, used_slabs, huge) /\ Counted(live, used_slabs, huge)
      /\ free_slabs \in FreeLists
  BY IInvParts DEF TypeOK, FreeLists
<1>2. /\ used_slabs' = used_slabs \ {s} /\ stat_flag' = stat_flag \ {s}
      /\ free_slabs' = [free_slabs EXCEPT ![i] = <<s>> \o @]
      /\ alloc_count' = alloc_count - 1 /\ live' = Without(live, s)
      /\ UNCHANGED <<pool, empty_pool, depth, huge, fails>>
  BY DEF FreeSlab, Released, Without
<1>3. s \in used_slabs /\ s \in SlabType
  BY <1>1 DEF FreeSlab, TypeOK
<1>4. i \in Classes /\ s.size = Class(i)
  BY <1>3, SlabFields, IndexOfClass
<1> HIDE DEF i
<1>5. /\ free_slabs' \in FreeLists /\ Listed(free_slabs', used_slabs')
      /\ SlabsOf(free_slabs', used_slabs') = SlabsOf(free_slabs, used_slabs)
  <2> DEFINE f2 == [free_slabs EXCEPT ![i] = <<s>> \o @]
  <2>1. /\ f2 \in FreeLists /\ Listed(f2, used_slabs \ {s})
        /\ SlabsOf(f2, used_slabs \ {s}) = SlabsOf(free_slabs, used_slabs)
    <3> HIDE DEF Class
    <3>1. free_slabs \in FreeLists /\ Listed(free_slabs, used_slabs)
      BY <1>1
    <3> QED BY <3>1, <1>3, <1>4, PutFront, SMTT(40)
  <2> HIDE DEF f2
  <2>2. free_slabs' = f2
    BY <1>2 DEF f2
  <2> QED BY <1>2, <2>1, <2>2
<1>6. /\ Backed(live', used_slabs', huge') /\ Counted(live', used_slabs', huge')
      /\ \E b \in live : live' = live \ {b}
  BY <1>1, <1>2, <1>3, TakeBackBacked
<1>7. Cardinality(live') = Cardinality(live) - 1 /\ Cardinality(live') \in Nat
  <2>1. PICK b \in live : live' = live \ {b}
    BY <1>6
  <2>2. Cardinality(live') = Cardinality(live) - 1
    BY <1>1, <2>1, FS_RemoveElement DEF Counted
  <2>3. Cardinality(live') \in Nat
    BY <1>6, FS_CardinalityType DEF Counted
  <2> QED BY <2>2, <2>3
<1>8. CountCovers' /\ alloc_count' \in Nat
  <2>1. alloc_count \in Nat /\ fails \in Nat /\ Cardinality(live) \in Nat
    BY <1>1, FS_CardinalityType, ConfigAssumption DEF TypeOK, Counted
  <2> QED BY <1>1, <1>2, <1>7, <2>1 DEF CountCovers
<1>9. TypeOK'
  BY <1>1, <1>2, <1>5, <1>8 DEF TypeOK, Pools, FreeLists
<1>10. PoolsListed' /\ PoolsInOrder' /\ PutAwayUsedUp'
  BY <1>1, <1>2 DEF PoolsListed, PoolsInOrder, PutAwayUsedUp, UsedUp, Pools
<1>11. IInv'
  BY <1>1, <1>2, <1>5, <1>6, <1>8, <1>9, <1>10, IInvPartsNext
<1> QED BY <1>2, <1>6, <1>11 DEF H!Free

\* free_huge_slab.
LEMMA FreeHugeStep ==
    ASSUME IInv, ~destroyed, NEW h \in huge, FreeHuge(h), UNCHANGED destroyed
    PROVE  IInv' /\ H!Free /\ used_slabs' = used_slabs
<1> DEFINE b == HugeBlock(h[1], h[2])
<1>1. /\ TypeOK /\ PoolsListed /\ CountCovers /\ PoolsInOrder /\ PutAwayUsedUp
      /\ stat_flag = used_slabs /\ Listed(free_slabs, used_slabs)
      /\ Placed(SlabsOf(free_slabs, used_slabs), depth)
      /\ Backed(live, used_slabs, huge) /\ Counted(live, used_slabs, huge)
  BY IInvParts
<1>2. /\ huge' = huge \ {h} /\ live' = live \ {b} /\ alloc_count' = alloc_count - 1
      /\ UNCHANGED <<pool, empty_pool, depth, free_slabs, used_slabs, stat_flag, fails>>
  BY DEF FreeHuge
<1>3. Backed(live', used_slabs', huge') /\ Counted(live', used_slabs', huge') /\ b \in live
  BY <1>1, <1>2, FreeHugeBacked
<1> HIDE DEF b
<1>4. Cardinality(live') = Cardinality(live) - 1 /\ Cardinality(live') \in Nat
  <2>1. Cardinality(live') = Cardinality(live) - 1
    BY <1>1, <1>2, <1>3, FS_RemoveElement DEF Counted
  <2>2. Cardinality(live') \in Nat
    BY <1>3, FS_CardinalityType DEF Counted
  <2> QED BY <2>1, <2>2
<1>5. CountCovers' /\ alloc_count' \in Nat
  <2>1. alloc_count \in Nat /\ fails \in Nat /\ Cardinality(live) \in Nat
    BY <1>1, FS_CardinalityType, ConfigAssumption DEF TypeOK, Counted
  <2> QED BY <1>1, <1>2, <1>4, <2>1 DEF CountCovers
<1>6. TypeOK'
  BY <1>1, <1>2, <1>5 DEF TypeOK, Pools
<1>7. PoolsListed' /\ PoolsInOrder' /\ PutAwayUsedUp'
  BY <1>1, <1>2 DEF PoolsListed, PoolsInOrder, PutAwayUsedUp, UsedUp, Pools
<1>8. IInv'
  BY <1>1, <1>2, <1>3, <1>5, <1>6, <1>7, IInvPartsNext
<1> QED BY <1>2, <1>3, <1>8 DEF H!Free

\* Nothing is in use and nothing is listed.
LEMMA NothingLeft ==
    ASSUME NEW f, f = [i \in Classes |-> <<>>]
    PROVE  /\ f \in FreeLists /\ Listed(f, {}) /\ SlabsOf(f, {}) = {}
           /\ Backed({}, {}, {}) /\ Counted({}, {}, {})
<1>1. f \in FreeLists
  BY DEF FreeLists
<1>2. \A i \in Classes : DOMAIN f[i] = {}
  OBVIOUS
<1>3. Listed(f, {})
  BY <1>2 DEF Listed
<1>4. SlabsOf(f, {}) = {}
  <2>1. ASSUME NEW y PROVE y \notin SlabsOf(f, {})
    BY <1>2, InSlabs DEF Elems
  <2> QED BY <2>1
<1>5. Backed({}, {}, {})
  BY DEF Backed
<1>6. Counted({}, {}, {})
  BY FS_EmptySet DEF Counted
<1> QED BY <1>1, <1>3, <1>4, <1>5, <1>6

\* __destroy.
LEMMA DestroyStep ==
    ASSUME IInv, Destroy
    PROVE  IInv' /\ H!Destroy /\ used_slabs' = {}
<1>1. TypeOK /\ PoolsListed
  BY IInvParts
<1>2. /\ pool' = {} /\ empty_pool' = {} /\ huge' = {} /\ live' = {} /\ used_slabs' = {}
      /\ stat_flag' = {} /\ free_slabs' = [i \in Classes |-> <<>>] /\ destroyed' = TRUE
      /\ UNCHANGED <<alloc_count, fails>>
  BY DEF Destroy
<1>3. Pools' = {} /\ depth' \in [{} -> 0 .. Capacity]
  <2>1. Pools \ (empty_pool \cup pool) = {}
    BY <1>1 DEF PoolsListed
  <2>2. depth' = [p \in {} |-> depth[p]]
    BY <2>1 DEF Destroy
  <2> QED BY <2>2 DEF Pools
<1>4. /\ free_slabs' \in FreeLists /\ Listed(free_slabs', used_slabs')
      /\ SlabsOf(free_slabs', used_slabs') = {}
      /\ Backed(live', used_slabs', huge') /\ Counted(live', used_slabs', huge')
  BY <1>2, NothingLeft
<1>5. TypeOK'
  BY <1>1, <1>2, <1>3, <1>4 DEF TypeOK, FreeLists
<1>6. PoolsListed' /\ PutAwayUsedUp' /\ CountCovers'
  BY <1>2, <1>3 DEF PoolsListed, PutAwayUsedUp, CountCovers
<1>7. PoolsInOrder'
  <2>1. 1 .. 0 = {}
    OBVIOUS
  <2> QED BY <1>3, <2>1 DEF PoolsInOrder
<1>8. Placed(SlabsOf(free_slabs', used_slabs'), depth')
  BY <1>4 DEF Placed
<1>9. IInv'
  BY <1>2, <1>4, <1>5, <1>6, <1>7, <1>8, IInvPartsNext
<1> QED BY <1>2, <1>9 DEF H!Destroy

\* __init.
LEMMA InitHolds == Init => IInv
<1> SUFFICES ASSUME Init PROVE IInv
  OBVIOUS
<1>1. /\ pool = {1} /\ empty_pool = {} /\ depth = [p \in {1} |-> Capacity]
      /\ free_slabs = [i \in Classes |-> <<>>] /\ used_slabs = {} /\ huge = {}
      /\ stat_flag = {} /\ alloc_count = 0 /\ live = {} /\ fails = 0 /\ destroyed = FALSE
  BY DEF Init
<1>2. Pools = {1} /\ 1 \in 1 .. MaxPools /\ Capacity \in 0 .. Capacity /\ 0 \in 0 .. MaxFails
  BY <1>1, ConfigAssumption DEF Pools
<1>3. /\ free_slabs \in FreeLists /\ Listed(free_slabs, used_slabs)
      /\ SlabsOf(free_slabs, used_slabs) = {}
      /\ Backed(live, used_slabs, huge) /\ Counted(live, used_slabs, huge)
  BY <1>1, NothingLeft
<1>4. TypeOK
  BY <1>1, <1>2, <1>3 DEF TypeOK, FreeLists
<1>5. PoolsListed /\ PutAwayUsedUp
  BY <1>1, <1>2 DEF PoolsListed, PutAwayUsedUp
<1>6. CountCovers
  <2>1. Cardinality(live) = 0
    BY <1>1, FS_EmptySet
  <2> QED BY <1>1, <2>1 DEF CountCovers
<1>7. PoolsInOrder
  <2>1. 1 .. 1 = {1}
    OBVIOUS
  <2> QED BY <1>2, <2>1 DEF PoolsInOrder
<1>8. Placed(SlabsOf(free_slabs, used_slabs), depth)
  BY <1>3 DEF Placed
<1> QED BY <1>1, <1>3, <1>4, <1>5, <1>6, <1>7, <1>8, IInvParts

-----------------------------------------------------------------------------
\* A step, for the properties that are about steps: it keeps the invariant,
\* it is a step of the heap, and a slab from a new pool is handed out only
\* when there was no other.
LEMMA StepFacts ==
    ASSUME IInv, [Next]_vars
    PROVE  /\ IInv'
           /\ H!Next \/ live' = live
           /\ \A s \in used_slabs' \ used_slabs :
                 s.pool \notin Pools =>
                     /\ \A p \in Pools : depth[p] < s.size + Header
                     /\ \A t \in Slabs \ used_slabs : t.size # s.size
<1> DEFINE Grows ==
        \A s \in used_slabs' \ used_slabs :
            s.pool \notin Pools =>
                /\ \A p \in Pools : depth[p] < s.size + Header
                /\ \A t \in Slabs \ used_slabs : t.size # s.size
<1>s. Slabs = SlabsOf(free_slabs, used_slabs) /\ TypeOK
  BY IInvParts DEF Slabs, SlabsOf, Elems
<1>n. used_slabs' \subseteq used_slabs => Grows
  OBVIOUS
<1> HIDE DEF Grows
<1>1. ASSUME NEW size \in Sizes, Alloc(size), ~destroyed, UNCHANGED destroyed
      PROVE  IInv' /\ (H!Next \/ live' = live) /\ Grows
  <2>1. CASE AllocReuse(size)
    <3>1. IInv' /\ H!Alloc /\ used_slabs' \ used_slabs \subseteq SlabsOf(free_slabs, used_slabs)
      BY <1>1, <2>1, ReuseStep
    <3>2. \A s \in SlabsOf(free_slabs, used_slabs) : s.pool \in Pools
      BY IInvParts DEF Placed, Pools
    <3> QED BY <3>1, <3>2 DEF Grows, H!Next
  <2>2. CASE AllocCut(size)
    <3>1. IInv' /\ H!Alloc /\ \A x \in used_slabs' \ used_slabs : x.pool \in Pools
      BY <1>1, <2>2, CutStep
    <3> QED BY <3>1 DEF Grows, H!Next
  <2>3. CASE AllocPool(size)
    <3>1. /\ IInv' /\ H!Alloc
          /\ \A p \in Pools : depth[p] < Class(Index(size)) + Header
          /\ \A t \in SlabsOf(free_slabs, used_slabs) \ used_slabs : t.size # Class(Index(size))
          /\ \A x \in used_slabs' \ used_slabs : x.size = Class(Index(size))
      BY <1>1, <2>3, PoolStep
    <3>2. Grows
      BY <1>s, <3>1 DEF Grows
    <3> QED BY <3>1, <3>2 DEF H!Next
  <2>4. CASE AllocPoolFails(size)
    BY <1>1, <1>n, <2>4, PoolFailsStep
  <2>5. CASE AllocHuge(size)
    BY <1>1, <1>n, <2>5, HugeStep DEF H!Next
  <2>6. CASE AllocHugeFails(size)
    BY <1>1, <1>n, <2>6, HugeFailsStep
  <2> QED BY <1>1, <2>1, <2>2, <2>3, <2>4, <2>5, <2>6 DEF Alloc
<1>2. ASSUME NEW s \in Slabs, FreeSlab(s), ~destroyed, UNCHANGED destroyed
      PROVE  IInv' /\ (H!Next \/ live' = live) /\ Grows
  BY <1>2, <1>n, FreeSlabStep DEF H!Next
<1>3. ASSUME NEW h \in huge, FreeHuge(h), ~destroyed, UNCHANGED destroyed
      PROVE  IInv' /\ (H!Next \/ live' = live) /\ Grows
  BY <1>3, <1>n, FreeHugeStep DEF H!Next
<1>4. CASE Destroy
  BY <1>4, <1>n, DestroyStep DEF H!Next
<1>5. CASE UNCHANGED vars
  <2>1. /\ pool' = pool /\ empty_pool' = empty_pool /\ depth' = depth
        /\ free_slabs' = free_slabs /\ used_slabs' = used_slabs /\ huge' = huge
        /\ stat_flag' = stat_flag /\ alloc_count' = alloc_count /\ live' = live
        /\ fails' = fails /\ destroyed' = destroyed
    BY <1>5 DEF vars
  <2>2. TypeOK'
    BY <1>s, <2>1 DEF TypeOK, Pools
  <2>3. PoolsListed' /\ CountCovers' /\ PoolsInOrder' /\ PutAwayUsedUp'
    BY <2>1, IInvParts DEF PoolsListed, CountCovers, PoolsInOrder, PutAwayUsedUp, UsedUp, Pools
  <2>4. IInv'
    BY <2>1, <2>2, <2>3, IInvParts, IInvPartsNext
  <2> QED BY <1>n, <2>1, <2>4
<1> QED BY <1>1, <1>2, <1>3, <1>4, <1>5 DEF Next, Grows

\* The inductive invariant holds in every state of the allocator.
THEOREM AllocatorInductive == Spec => []IInv
<1>1. IInv /\ [Next]_vars => IInv'
  BY StepFacts
<1> QED BY <1>1, InitHolds, PTL DEF Spec

\* Slabs never share a byte and lie in the part of their pool that was cut
\* off, whatever is asked for, freed and reused: for every configuration of
\* classes, pools and headers (mempool_alloc_slab_list).
THEOREM SlabsNeverOverlap == Spec => []SlabsApart
<1>1. IInv => SlabsApart
  BY DEF IInv
<1> QED BY <1>1, AllocatorInductive, PTL

\* Lists, pools, blocks and the counter agree after any sequence of requests,
\* refusals and frees, second frees included (__alloc, __free).
THEOREM NothingGetsLost == Spec => []Accounted
<1>1. IInv => Accounted
  BY BackedHolders DEF IInv, Accounted
<1> QED BY <1>1, AllocatorInductive, PTL

\* A pool is asked for only when neither a free slab nor the rest of a pool
\* could have served the request: mempool_find_appropriate_pool puts no pool
\* away too early.
THEOREM PoolsAreUsed == Spec => GrowsOnlyIfFull
<1>1. IInv /\ [Next]_vars =>
        [\A s \in used_slabs' \ used_slabs :
            s.pool \notin Pools =>
                /\ \A p \in Pools : depth[p] < s.size + Header
                /\ \A t \in Slabs \ used_slabs : t.size # s.size]_vars
  BY StepFacts
<1> QED BY <1>1, AllocatorInductive, PTL DEF Spec, GrowsOnlyIfFull

\* The allocator implements a heap: a block it hands out overlaps no block in
\* use, a free takes exactly one block out of use.
THEOREM AllocatorRefinesHeap == Spec => IsHeap
<1>1. Init => H!Init
  BY DEF Init, H!Init
<1>2. IInv /\ [Next]_vars => [H!Next]_live
  BY StepFacts
<1> QED BY <1>1, <1>2, AllocatorInductive, PTL DEF Spec, IsHeap, H!Spec
=============================================================================
