-------------------------- MODULE HttpServerProofs --------------------------
(***************************************************************************)
(* Proofs about HttpServer, for any number of clients, any requests and    *)
(* any socket.                                                             *)
(***************************************************************************)
EXTENDS HttpServer, FiniteSetTheorems, SequenceTheorems, WellFoundedInduction, TLAPS

\* A set of numbers that is not empty has a least one.
LEMMA LeastNumber ==
    ASSUME NEW S, S \subseteq Nat, S # {}
    PROVE  \E x \in S : \A y \in S : x <= y
<1>1. PICK x \in S : \A y \in S : ~(<<y, x>> \in OpToRel(<, Nat))
  BY NatLessThanWellFounded, WFMin
<1>2. ASSUME NEW y \in S PROVE x <= y
  <2>1. ~(y < x)
    BY <1>1 DEF OpToRel
  <2> QED BY <2>1
<1> QED BY <1>2

-----------------------------------------------------------------------------
(***************************************************************************)
(* FlattenSeq, one element at a time.                                      *)
(***************************************************************************)
\* f says for each number up to n what the first elements of ss come to.
Flattens(f, ss, n) ==
    f = [i \in 1 .. n |-> IF i = 1 THEN ss[i] ELSE f[i - 1] \o ss[i]]

\* There is such a function: the one that FlattenSeq chooses exists.
LEMMA FlattensExists ==
    ASSUME NEW ss, NEW n \in Nat \ {0}
    PROVE  \E f : Flattens(f, ss, n)
<1> DEFINE Bad == {m \in Nat \ {0} : ~ \E f : Flattens(f, ss, m)}
<1>1. ASSUME Bad # {} PROVE FALSE
  <2>1. PICK m \in Bad : \A y \in Bad : m <= y
    <3>1. Bad \subseteq Nat
      OBVIOUS
    <3> HIDE DEF Bad
    <3> QED BY <1>1, <3>1, LeastNumber
  <2>2. m \in Nat \ {0} /\ ~ \E f : Flattens(f, ss, m)
    BY <2>1
  <2>3. CASE m = 1
    <3>1. Flattens([i \in 1 .. 1 |-> ss[1]], ss, 1)
      BY DEF Flattens
    <3> QED BY <2>2, <2>3, <3>1
  <2>4. CASE m # 1
    <3>1. m - 1 \in Nat \ {0} /\ ~(m <= m - 1)
      BY <2>2, <2>4
    <3>2. PICK f : Flattens(f, ss, m - 1)
      BY <2>1, <3>1
    <3>3. f = [i \in 1 .. (m - 1) |-> IF i = 1 THEN ss[i] ELSE f[i - 1] \o ss[i]]
      BY <3>2, Zenon DEF Flattens
    <3> DEFINE g == [i \in 1 .. m |-> IF i = m THEN f[m - 1] \o ss[m] ELSE f[i]]
    <3>4. ASSUME NEW i \in 1 .. m
          PROVE  g[i] = IF i = 1 THEN ss[i] ELSE g[i - 1] \o ss[i]
      <4>1. CASE i = m
        <5>1. i # 1 /\ i - 1 = m - 1 /\ m - 1 \in 1 .. m /\ m - 1 # m /\ m \in 1 .. m
          BY <2>2, <2>4, <4>1
        <5>2. g[i - 1] = f[m - 1] /\ g[i] = f[m - 1] \o ss[m]
          BY <4>1, <5>1
        <5> QED BY <4>1, <5>1, <5>2
      <4>2. CASE i # m
        <5>1. i \in 1 .. (m - 1) /\ (i # 1 => i - 1 \in 1 .. m /\ i - 1 # m)
          BY <2>2, <4>2
        <5>2. g[i] = f[i] /\ (i # 1 => g[i - 1] = f[i - 1])
          BY <4>2, <5>1
        <5> HIDE DEF g
        <5>3. f[i] = IF i = 1 THEN ss[i] ELSE f[i - 1] \o ss[i]
          BY <3>3, <5>1
        <5> QED BY <5>2, <5>3
      <4> QED BY <4>1, <4>2
    <3>5. g = [i \in 1 .. m |-> g[i]]
      OBVIOUS
    <3> HIDE DEF g
    <3>6. Flattens(g, ss, m)
      BY <3>4, <3>5 DEF Flattens
    <3> QED BY <2>2, <3>6
  <2> QED BY <2>3, <2>4
<1> QED BY <1>1

\* What FlattenSeq makes of a sequence, from what it makes of its beginnings.
LEMMA FlattenSeqIs ==
    ASSUME NEW ss, Len(ss) \in Nat \ {0}
    PROVE  \E f : Flattens(f, ss, Len(ss)) /\ FlattenSeq(ss) = f[Len(ss)]
<1> DEFINE n == Len(ss)
           F == CHOOSE f : f = [i \in 1 .. n |-> IF i = 1 THEN ss[i] ELSE f[i - 1] \o ss[i]]
<1>1. Flattens(F, ss, n)
  BY FlattensExists, Zenon DEF Flattens
<1>2. n # 0
  OBVIOUS
<1>3. FlattenSeq(ss) = F[n]
  BY <1>2, Zenon DEF FlattenSeq
<1> QED BY <1>1, <1>3

\* Two sequences that begin alike come to the same on the way.
LEMMA FlattensAlike ==
    ASSUME NEW f, NEW g, NEW s, NEW t, NEW n \in Nat, NEW m \in Nat, n <= m,
           Flattens(f, s, n), Flattens(g, t, m), \A i \in 1 .. n : s[i] = t[i]
    PROVE  \A i \in 1 .. n : f[i] = g[i]
<1> DEFINE Bad == {i \in 1 .. n : f[i] # g[i]}
<1>1. f = [i \in 1 .. n |-> IF i = 1 THEN s[i] ELSE f[i - 1] \o s[i]]
  BY DEF Flattens
<1>2. g = [i \in 1 .. m |-> IF i = 1 THEN t[i] ELSE g[i - 1] \o t[i]]
  BY DEF Flattens
<1>3. \A i \in 1 .. n : f[i] = IF i = 1 THEN s[i] ELSE f[i - 1] \o s[i]
  BY <1>1
<1>4. \A i \in 1 .. m : g[i] = IF i = 1 THEN t[i] ELSE g[i - 1] \o t[i]
  BY <1>2
<1>5. ASSUME Bad # {} PROVE FALSE
  <2>1. PICK i \in Bad : \A y \in Bad : i <= y
    <3>1. Bad \subseteq Nat
      OBVIOUS
    <3> HIDE DEF Bad
    <3> QED BY <1>5, <3>1, LeastNumber
  <2>2. i \in 1 .. n /\ i \in 1 .. m /\ s[i] = t[i] /\ f[i] # g[i]
    BY <2>1
  <2>3. i # 1 => i - 1 \in 1 .. n /\ ~(i <= i - 1)
    BY <2>2
  <2>4. i # 1 => f[i - 1] = g[i - 1]
    BY <2>1, <2>3
  <2> QED BY <1>3, <1>4, <2>2, <2>4
<1> QED BY <1>5

\* One more element.
LEMMA FlattenSeqGrows ==
    ASSUME NEW s, NEW t, NEW n \in Nat \ {0}, Len(s) = n, Len(t) = n + 1,
           \A i \in 1 .. n : s[i] = t[i]
    PROVE  FlattenSeq(t) = FlattenSeq(s) \o t[n + 1]
<1>1. n + 1 \in Nat \ {0} /\ n + 1 # 1 /\ n + 1 - 1 = n /\ n <= n + 1 /\ n \in 1 .. n
      /\ n + 1 \in 1 .. (n + 1) /\ n + 1 \in Nat /\ n \in Nat
  OBVIOUS
<1>2. PICK f : Flattens(f, s, n) /\ FlattenSeq(s) = f[n]
  BY FlattenSeqIs
<1>3. PICK g : Flattens(g, t, n + 1) /\ FlattenSeq(t) = g[n + 1]
  BY <1>1, FlattenSeqIs
<1>4. f[n] = g[n]
  BY <1>1, <1>2, <1>3, FlattensAlike
<1>5. g = [i \in 1 .. (n + 1) |-> IF i = 1 THEN t[i] ELSE g[i - 1] \o t[i]]
  BY <1>3 DEF Flattens
<1>6. \A i \in 1 .. (n + 1) : g[i] = IF i = 1 THEN t[i] ELSE g[i - 1] \o t[i]
  BY <1>5
<1>7. g[n + 1] = g[n] \o t[n + 1]
  <2>1. PICK k : k = n + 1
    OBVIOUS
  <2>2. k \in 1 .. (n + 1) /\ k # 1 /\ k - 1 = n
    BY <2>1
  <2>3. g[k] = g[k - 1] \o t[k]
    BY <1>6, <2>2
  <2> QED BY <2>1, <2>2, <2>3
<1> QED BY <1>2, <1>3, <1>4, <1>7

-----------------------------------------------------------------------------
(***************************************************************************)
(* Streams: L[1] units of the first thing, L[2] of the second, and so on.  *)
(* What clients send is one, and what they should get is another.          *)
(***************************************************************************)
Part(L, r)  == [p \in 1 .. L[r] |-> <<r, p>>]
Runs(L, n)  == FlattenSeq([r \in 1 .. n |-> Part(L, r)])
\* How many units they are.
Total(L, n) == Len(Runs(L, n))
Item        == Nat \X Nat

\* A function on 1 .. n is a sequence of length n.
LEMMA Tabulated ==
    ASSUME NEW S, NEW n \in Nat, NEW f \in [1 .. n -> S]
    PROVE  f \in Seq(S) /\ Len(f) = n
<1>1. f \in Seq(S)
  BY SeqDef
<1> QED BY <1>1, LenProperties

\* A run is a sequence of pairs of its number and a place.
LEMMA PartIs ==
    ASSUME NEW L, NEW r \in Nat, L[r] \in Nat
    PROVE  /\ Part(L, r) \in Seq(Item) /\ Len(Part(L, r)) = L[r]
           /\ \A p \in 1 .. L[r] : Part(L, r)[p] = <<r, p>>
<1>1. Part(L, r) \in [1 .. L[r] -> Item]
  BY DEF Part, Item
<1>2. \A p \in 1 .. L[r] : Part(L, r)[p] = <<r, p>>
  BY DEF Part
<1> HIDE DEF Part, Item
<1> QED BY <1>1, <1>2, Tabulated

\* No runs come to nothing.
LEMMA RunsNone == ASSUME NEW L PROVE Runs(L, 0) = << >>
<1> DEFINE s == [r \in 1 .. 0 |-> Part(L, r)]
<1>1. s = << >>
  OBVIOUS
<1>2. Len(s) = 0
  BY <1>1
<1> HIDE DEF s
<1>3. FlattenSeq(s) = << >>
  BY <1>1, <1>2 DEF FlattenSeq
<1> QED BY <1>3 DEF Runs, s

\* One more run goes behind the runs before it.
LEMMA RunsGrow ==
    ASSUME NEW L, NEW n \in Nat, L[n + 1] \in Nat
    PROVE  Runs(L, n + 1) = Runs(L, n) \o Part(L, n + 1)
<1> DEFINE P == {Part(L, r) : r \in 1 .. (n + 1)}
           s == [r \in 1 .. n |-> Part(L, r)]
           t == [r \in 1 .. (n + 1) |-> Part(L, r)]
<1>1. s \in [1 .. n -> P] /\ t \in [1 .. (n + 1) -> P] /\ n + 1 \in Nat
      /\ \A i \in 1 .. n : s[i] = t[i]
  OBVIOUS
<1>2. t[n + 1] = Part(L, n + 1)
  OBVIOUS
<1>3. n = 0 => t[1] = Part(L, 1)
  OBVIOUS
<1>s. Runs(L, n) = FlattenSeq(s) /\ Runs(L, n + 1) = FlattenSeq(t)
  BY DEF Runs
<1> HIDE DEF P, s, t
<1>4. Len(s) = n /\ Len(t) = n + 1
  BY <1>1, Tabulated
<1>5. CASE n # 0
  <2>1. n \in Nat \ {0}
    BY <1>5
  <2>2. FlattenSeq(t) = FlattenSeq(s) \o t[n + 1]
    BY <1>1, <1>4, <2>1, FlattenSeqGrows
  <2> QED BY <1>2, <1>s, <2>2
<1>6. CASE n = 0
  <2>1. PICK g : Flattens(g, t, 1) /\ FlattenSeq(t) = g[1]
    <3>1. Len(t) = 1 /\ Len(t) \in Nat \ {0}
      BY <1>4, <1>6
    <3>2. \E g : Flattens(g, t, Len(t)) /\ FlattenSeq(t) = g[Len(t)]
      BY <3>1, FlattenSeqIs
    <3> QED BY <3>1, <3>2
  <2>2. g[1] = t[1]
    BY <2>1 DEF Flattens
  <2>3. Runs(L, 1) = Part(L, 1)
    BY <1>3, <1>6, <1>s, <2>1, <2>2
  <2>4. Part(L, 1) \in Seq(Item) /\ Runs(L, 0) = << >>
    BY <1>6, PartIs, RunsNone
  <2>5. << >> \o Part(L, 1) = Part(L, 1)
    BY <2>4
  <2> QED BY <1>6, <2>3, <2>4, <2>5
<1> QED BY <1>5, <1>6

\* How a stream of n things is laid out.
Lengths(L, n) == \A r \in 1 .. n : L[r] \in Nat \ {0}
Before(L, n) ==
    \A m \in 0 .. n : /\ Total(L, m) \in Nat /\ Total(L, m) <= Total(L, n)
                      /\ \A i \in 1 .. Total(L, m) : Runs(L, n)[i] = Runs(L, m)[i]
Places(L, n) ==
    \A r \in 1 .. n :
        /\ Total(L, r) = Total(L, r - 1) + L[r]
        /\ \A p \in 1 .. L[r] : Runs(L, n)[Total(L, r - 1) + p] = <<r, p>>
Covered(L, n) ==
    \A i \in 1 .. Total(L, n) : \E r \in 1 .. n : \E p \in 1 .. L[r] : i = Total(L, r - 1) + p
Laid(L, n) ==
    /\ Lengths(L, n) /\ Runs(L, n) \in Seq(Item)
    /\ Before(L, n) /\ Places(L, n) /\ Covered(L, n)

\* The runs are laid out when there is none.
LEMMA LaidNone == ASSUME NEW L PROVE Laid(L, 0)
<1>1. Runs(L, 0) = << >>
  BY RunsNone
<1>2. Total(L, 0) = 0 /\ Runs(L, 0) \in Seq(Item) /\ Lengths(L, 0)
  <2>1. Len(<< >>) = 0 /\ << >> \in Seq(Item)
    OBVIOUS
  <2>2. Runs(L, 0) \in Seq(Item) /\ Total(L, 0) = 0
    BY <1>1, <2>1 DEF Total
  <2>3. Lengths(L, 0)
    BY DEF Lengths
  <2> QED BY <2>2, <2>3
<1>3. Before(L, 0)
  BY <1>2 DEF Before
<1>4. Places(L, 0) /\ Covered(L, 0)
  BY <1>2 DEF Places, Covered
<1> QED BY <1>2, <1>3, <1>4 DEF Laid

\* One more run, of at least one unit, is laid out behind the others.
LEMMA LaidGrows ==
    ASSUME NEW L, NEW n \in Nat, L[n + 1] \in Nat \ {0}, Laid(L, n)
    PROVE  Laid(L, n + 1)
<1> DEFINE R == Runs(L, n)  Q == Runs(L, n + 1)  P == Part(L, n + 1)
           T == Total(L, n)  K == L[n + 1]
<1>1. Q = R \o P /\ R \in Seq(Item) /\ P \in Seq(Item) /\ Len(R) = T /\ Len(P) = K
      /\ \A p \in 1 .. K : P[p] = <<n + 1, p>>
  <2>1. L[n + 1] \in Nat /\ n + 1 \in Nat
    OBVIOUS
  <2>2. Q = R \o P
    BY <2>1, RunsGrow
  <2>3. P \in Seq(Item) /\ Len(P) = K /\ \A p \in 1 .. K : P[p] = <<n + 1, p>>
    <3>1. PICK r : r = n + 1
      OBVIOUS
    <3>2. /\ Part(L, r) \in Seq(Item) /\ Len(Part(L, r)) = L[r]
          /\ \A p \in 1 .. L[r] : Part(L, r)[p] = <<r, p>>
      BY <2>1, <3>1, PartIs
    <3> QED BY <3>1, <3>2, Zenon
  <2>4. R \in Seq(Item) /\ Len(R) = T
    BY DEF Laid, Total
  <2> QED BY <2>2, <2>3, <2>4
<1>t. T = Total(L, n) /\ Total(L, n + 1) = Len(Q) /\ R = Runs(L, n) /\ Q = Runs(L, n + 1)
      /\ K = L[n + 1] /\ K \in Nat \ {0}
  BY DEF Total
<1> HIDE DEF R, Q, P, T, K
<1>2. /\ Q \in Seq(Item) /\ Len(Q) = T + K /\ T \in Nat
      /\ \A i \in 1 .. (T + K) : Q[i] = IF i <= T THEN R[i] ELSE P[i - T]
  <2>1. R \in Seq(Item) /\ P \in Seq(Item) /\ Len(R) = T /\ Len(P) = K /\ Q = R \o P
    BY <1>1
  <2>2. /\ R \o P \in Seq(Item) /\ Len(R \o P) = Len(R) + Len(P)
        /\ \A i \in 1 .. Len(R) + Len(P) :
               (R \o P)[i] = IF i <= Len(R) THEN R[i] ELSE P[i - Len(R)]
    BY ONLY <2>1, ConcatProperties, Zenon
  <2>3. T \in Nat
    BY ONLY <2>1, LenProperties
  <2> QED BY ONLY <2>1, <2>2, <2>3, Zenon
<1>3. Total(L, n + 1) = T + K
  BY <1>2, <1>t
<1>4. (\A i \in 1 .. T : Q[i] = R[i]) /\ (\A p \in 1 .. K : Q[T + p] = <<n + 1, p>>)
  <2>1. ASSUME NEW i \in 1 .. T PROVE Q[i] = R[i]
    <3>1. T \in Nat /\ K \in Nat \ {0}
      BY <1>2, <1>t
    <3>2. i \in 1 .. (T + K) /\ i <= T
      BY ONLY <3>1, <2>1, SMT
    <3>3. \A h \in 1 .. (T + K) : Q[h] = IF h <= T THEN R[h] ELSE P[h - T]
      BY <1>2
    <3> QED BY ONLY <3>2, <3>3
  <2>2. ASSUME NEW p \in 1 .. K PROVE Q[T + p] = <<n + 1, p>>
    <3>0. T \in Nat /\ K \in Nat \ {0} /\ p \in 1 .. K
      BY <1>2, <1>t
    <3>1. PICK i : i = T + p
      OBVIOUS
    <3>2. i \in 1 .. (T + K) /\ ~(i <= T) /\ i - T = p
      BY ONLY <3>0, <3>1, SMT
    <3>f. \A h \in 1 .. (T + K) : Q[h] = IF h <= T THEN R[h] ELSE P[h - T]
      BY <1>2
    <3>3. Q[i] = P[p]
      BY ONLY <3>2, <3>f
    <3> QED BY <1>1, <3>1, <3>3
  <2> QED BY <2>1, <2>2
<1>5. \A m \in 0 .. n : /\ Total(L, m) \in Nat /\ Total(L, m) <= T
                        /\ \A i \in 1 .. Total(L, m) : R[i] = Runs(L, m)[i]
  BY <1>t DEF Laid, Before
<1>6. \A r \in 1 .. n : /\ Total(L, r) = Total(L, r - 1) + L[r]
                        /\ \A p \in 1 .. L[r] : R[Total(L, r - 1) + p] = <<r, p>>
  BY <1>t DEF Laid, Places
<1>7. \A i \in 1 .. T : \E r \in 1 .. n : \E p \in 1 .. L[r] : i = Total(L, r - 1) + p
  BY <1>t DEF Laid, Covered
<1>8. Before(L, n + 1)
  <2>1. ASSUME NEW m \in 0 .. n + 1
        PROVE  /\ Total(L, m) \in Nat /\ Total(L, m) <= Total(L, n + 1)
               /\ \A i \in 1 .. Total(L, m) : Q[i] = Runs(L, m)[i]
    <3>1. CASE m = n + 1
      BY <1>2, <1>3, <1>t, <3>1
    <3>2. CASE m # n + 1
      <4>1. m \in 0 .. n
        BY <3>2
      <4>2. Total(L, m) \in Nat /\ Total(L, m) <= T /\ Total(L, m) <= T + K
        BY <1>2, <1>5, <1>t, <4>1
      <4>3. ASSUME NEW i \in 1 .. Total(L, m) PROVE Q[i] = Runs(L, m)[i]
        <5>1. i \in 1 .. T
          BY <1>2, <4>2
        <5> QED BY <1>4, <1>5, <4>1, <5>1
      <4> QED BY <1>3, <4>2, <4>3
    <3> QED BY <3>1, <3>2
  <2> QED BY <1>t, <2>1 DEF Before
<1>9. Places(L, n + 1)
  <2>1. ASSUME NEW r \in 1 .. n + 1
        PROVE  /\ Total(L, r) = Total(L, r - 1) + L[r]
               /\ \A p \in 1 .. L[r] : Q[Total(L, r - 1) + p] = <<r, p>>
    <3>1. CASE r = n + 1
      <4>1. r - 1 = n
        BY <3>1
      <4> QED BY <1>3, <1>4, <1>t, <3>1, <4>1
    <3>2. CASE r # n + 1
      <4>1. r \in 1 .. n /\ r \in 0 .. n /\ r - 1 \in 0 .. n
        BY <3>2
      <4>2. /\ Total(L, r) = Total(L, r - 1) + L[r] /\ L[r] \in Nat
            /\ Total(L, r) <= T /\ Total(L, r - 1) \in Nat
        BY <1>5, <1>6, <4>1 DEF Laid, Lengths
      <4>3. ASSUME NEW p \in 1 .. L[r] PROVE Q[Total(L, r - 1) + p] = <<r, p>>
        <5>1. PICK i : i = Total(L, r - 1) + p
          OBVIOUS
        <5>2. i \in 1 .. T
          BY <1>2, <4>2, <5>1
        <5>3. Q[i] = R[i] /\ R[i] = <<r, p>>
          BY <1>4, <1>6, <4>1, <5>1, <5>2
        <5> QED BY <5>1, <5>3
      <4> QED BY <4>2, <4>3
    <3> QED BY <3>1, <3>2
  <2> QED BY <1>t, <2>1 DEF Places
<1>10. Covered(L, n + 1)
  <2>1. ASSUME NEW i \in 1 .. T + K
        PROVE  \E r \in 1 .. n + 1 : \E p \in 1 .. L[r] : i = Total(L, r - 1) + p
    <3>1. CASE i <= T
      <4>1. i \in 1 .. T
        BY <1>2, <1>t, <3>1
      <4>2. PICK r \in 1 .. n : \E p \in 1 .. L[r] : i = Total(L, r - 1) + p
        BY <1>7, <4>1
      <4> QED BY <4>2
    <3>2. CASE ~(i <= T)
      <4>1. i - T \in 1 .. K /\ i = T + (i - T) /\ n + 1 - 1 = n /\ n + 1 \in 1 .. n + 1
        BY <1>2, <1>t, <3>2
      <4>2. i = Total(L, n + 1 - 1) + (i - T) /\ i - T \in 1 .. L[n + 1]
        BY <1>t, <4>1
      <4> QED BY <4>1, <4>2
    <3> QED BY <3>1, <3>2
  <2> QED BY <1>3, <2>1 DEF Covered
<1>11. Lengths(L, n + 1)
  <2>1. \A r \in 1 .. n + 1 : r = n + 1 \/ r \in 1 .. n
    OBVIOUS
  <2> QED BY <2>1 DEF Laid, Lengths
<1> QED BY <1>2, <1>8, <1>9, <1>10, <1>11, <1>t DEF Laid

\* Every stream of things with a length is laid out like that.
LEMMA LaidOut ==
    ASSUME NEW L, NEW N \in Nat, Lengths(L, N)
    PROVE  \A n \in 0 .. N : Laid(L, n)
<1> DEFINE Bad == {n \in 0 .. N : ~Laid(L, n)}
<1>1. ASSUME Bad # {} PROVE FALSE
  <2>1. PICK m \in Bad : \A y \in Bad : m <= y
    <3>1. Bad \subseteq Nat
      OBVIOUS
    <3> HIDE DEF Bad
    <3> QED BY <1>1, <3>1, LeastNumber
  <2>2. m \in 0 .. N /\ ~Laid(L, m)
    BY <2>1
  <2>3. m # 0
    BY <2>2, LaidNone
  <2>4. PICK n : n = m - 1
    OBVIOUS
  <2>5. n \in Nat /\ n \in 0 .. N /\ ~(m <= n) /\ n + 1 = m /\ m \in 1 .. N
    BY <2>2, <2>3, <2>4
  <2>6. Laid(L, n)
    BY <2>1, <2>5
  <2>7. L[n + 1] \in Nat \ {0}
    BY <2>5 DEF Lengths
  <2>8. Laid(L, n + 1)
    BY <2>5, <2>6, <2>7, LaidGrows
  <2> QED BY <2>2, <2>5, <2>8
<1> QED BY <1>1

\* What the rest needs to know of a stream of N things.
InLine(L, N) ==
    /\ Runs(L, N) \in Seq(Item) /\ Len(Runs(L, N)) = Total(L, N) /\ Total(L, 0) = 0
    /\ \A n \in 0 .. N : /\ Total(L, n) \in Nat /\ Total(L, n) <= Total(L, N)
                         /\ Runs(L, n) \in Seq(Item) /\ Len(Runs(L, n)) = Total(L, n)
    /\ \A r \in 1 .. N : Total(L, r) = Total(L, r - 1) + L[r] /\ L[r] \in Nat \ {0}
    /\ \A n \in 0 .. N : \A m \in 0 .. n : Total(L, m) <= Total(L, n)
    /\ \A n \in 0 .. N : \A i \in 1 .. Total(L, n) : Runs(L, N)[i] = Runs(L, n)[i]
    /\ \A r \in 1 .. N : \A p \in 1 .. L[r] : Runs(L, N)[Total(L, r - 1) + p] = <<r, p>>
    /\ \A i \in 1 .. Total(L, N) : \E r \in 1 .. N : \E p \in 1 .. L[r] : i = Total(L, r - 1) + p

\* Runs that are none of them empty follow each other in line.
LEMMA StreamInLine ==
    ASSUME NEW L, NEW N \in Nat, Lengths(L, N)
    PROVE  InLine(L, N)
<1>1. (\A n \in 0 .. N : Laid(L, n)) /\ N \in 0 .. N /\ 0 \in 0 .. N
  BY LaidOut
<1>2. Runs(L, N) \in Seq(Item) /\ Len(Runs(L, N)) = Total(L, N) /\ Total(L, 0) = 0
  <2>1. Runs(L, 0) = << >>
    BY RunsNone
  <2>2. Total(L, 0) = 0
    BY <2>1 DEF Total
  <2> QED BY <1>1, <2>2 DEF Laid, Total
<1>3. \A n \in 0 .. N : /\ Total(L, n) \in Nat /\ Total(L, n) <= Total(L, N)
                        /\ Runs(L, n) \in Seq(Item) /\ Len(Runs(L, n)) = Total(L, n)
  BY <1>1 DEF Laid, Before, Total
<1>4. \A r \in 1 .. N : Total(L, r) = Total(L, r - 1) + L[r] /\ L[r] \in Nat \ {0}
  BY <1>1 DEF Laid, Places, Lengths
<1>5. \A n \in 0 .. N : \A m \in 0 .. n : Total(L, m) <= Total(L, n)
  BY <1>1 DEF Laid, Before
<1>6. \A n \in 0 .. N : \A i \in 1 .. Total(L, n) : Runs(L, N)[i] = Runs(L, n)[i]
  BY <1>1 DEF Laid, Before
<1>7. \A r \in 1 .. N : \A p \in 1 .. L[r] : Runs(L, N)[Total(L, r - 1) + p] = <<r, p>>
  BY <1>1 DEF Laid, Places
<1>8. \A i \in 1 .. Total(L, N) : \E r \in 1 .. N : \E p \in 1 .. L[r] : i = Total(L, r - 1) + p
  BY <1>1 DEF Laid, Covered
<1> QED BY <1>2, <1>3, <1>4, <1>5, <1>6, <1>7, <1>8 DEF InLine

-----------------------------------------------------------------------------
(***************************************************************************)
(* What clients send and should get, as such streams.                      *)
(***************************************************************************)
UL(c)  == [r \in Requests(c) |-> Hdr + Asked(c, r).body]
AL(c)  == [r \in Requests(c) |-> 1 + (IF Asked(c, r).head THEN 0 ELSE Asked(c, r).size)]
Num(c) == Len(setup.script[c])

\* The requests of a client have the numbers 1 to Num.
LEMMA Script ==
    ASSUME setup \in Setups, NEW c \in Client
    PROVE  /\ Num(c) \in Nat /\ Requests(c) = 1 .. Num(c)
           /\ \A r \in 1 .. Num(c) : Asked(c, r) \in Request
<1>1. setup.script[c] \in Seq(Request)
  BY HttpAssumption DEF SetupOK
<1>2. Len(setup.script[c]) \in Nat /\ DOMAIN setup.script[c] = 1 .. Len(setup.script[c])
      /\ \A r \in 1 .. Len(setup.script[c]) : setup.script[c][r] \in Request
  BY <1>1, LenProperties, ElementOfSeq
<1> QED BY <1>2 DEF Num, Requests, Asked

\* What a client sends and what it expects are the runs of its requests and of
\* their answers.
LEMMA Streams ==
    ASSUME setup \in Setups, NEW c \in Client
    PROVE  /\ InLine(UL(c), Num(c)) /\ InLine(AL(c), Num(c))
           /\ Stream(c) = Runs(UL(c), Num(c)) /\ Expected(c) = Runs(AL(c), Num(c))
           /\ \A n \in 0 .. Num(c) :
                  /\ FlattenSeq([r \in 1 .. n |-> Units(c, r)]) = Runs(UL(c), n)
                  /\ FlattenSeq([r \in 1 .. n |-> Answer(c, r)]) = Runs(AL(c), n)
           /\ \A r \in 1 .. Num(c) : /\ UL(c)[r] = Hdr + Asked(c, r).body
                                     /\ AL(c)[r] = 1 + (IF Asked(c, r).head THEN 0 ELSE Asked(c, r).size)
                                     /\ Answer(c, r) = Part(AL(c), r)
<1> DEFINE U == UL(c)  A == AL(c)  N == Num(c)
<1>1. /\ N \in Nat /\ Requests(c) = 1 .. N
      /\ \A r \in 1 .. N : Asked(c, r).body \in Nat /\ Asked(c, r).size \in Nat
  BY Script DEF Request
<1>2. ASSUME NEW r \in 1 .. N
      PROVE  /\ U[r] = Hdr + Asked(c, r).body
             /\ A[r] = 1 + (IF Asked(c, r).head THEN 0 ELSE Asked(c, r).size)
  <2>1. r \in Requests(c)
    BY <1>1
  <2> QED BY <2>1 DEF UL, AL
<1>3. Lengths(U, N) /\ Lengths(A, N)
  <2>1. ASSUME NEW r \in 1 .. N PROVE U[r] \in Nat \ {0} /\ A[r] \in Nat \ {0}
    <3>1. PICK b \in Nat : b = Asked(c, r).body
      BY <1>1
    <3>2. PICK z \in Nat : z = (IF Asked(c, r).head THEN 0 ELSE Asked(c, r).size)
      BY <1>1
    <3>3. U[r] = Hdr + b /\ A[r] = 1 + z
      BY <1>2, <3>1, <3>2
    <3> QED BY <3>3 DEF Hdr
  <2> QED BY <2>1 DEF Lengths
<1>4. InLine(U, N) /\ InLine(A, N)
  BY <1>1, <1>3, StreamInLine
<1>5. \A r \in 1 .. N : Units(c, r) = Part(U, r) /\ Answer(c, r) = Part(A, r)
  BY <1>2 DEF Units, Answer, Part
<1>6. \A n \in 0 .. N : /\ [r \in 1 .. n |-> Units(c, r)] = [r \in 1 .. n |-> Part(U, r)]
                        /\ [r \in 1 .. n |-> Answer(c, r)] = [r \in 1 .. n |-> Part(A, r)]
  <2>1. \A n \in 0 .. N : \A r \in 1 .. n : r \in 1 .. N
    BY <1>1
  <2> QED BY <1>5, <2>1
<1>7. \A n \in 0 .. N : /\ FlattenSeq([r \in 1 .. n |-> Units(c, r)]) = Runs(U, n)
                        /\ FlattenSeq([r \in 1 .. n |-> Answer(c, r)]) = Runs(A, n)
  BY <1>6 DEF Runs
<1>8. Stream(c) = Runs(U, N) /\ Expected(c) = Runs(A, N)
  <2>1. N \in 0 .. N /\ Requests(c) = 1 .. N
    BY <1>1
  <2>2. Stream(c) = FlattenSeq([r \in 1 .. N |-> Units(c, r)])
    BY <2>1, Zenon DEF Stream
  <2>3. Expected(c) = FlattenSeq([r \in 1 .. N |-> Answer(c, r)])
    BY <2>1, Zenon DEF Expected
  <2> HIDE DEF U, A, N
  <2> QED BY <1>7, <2>1, <2>2, <2>3, Zenon
<1> QED BY <1>2, <1>4, <1>5, <1>7, <1>8

-----------------------------------------------------------------------------
(***************************************************************************)
(* The invariant for PoolSound.                                            *)
(***************************************************************************)
\* A request that a worker holds, and what a worker's fields can be.
Asking    == [r : Nat \ {0}, len : Nat, file : BOOLEAN, written : Nat]
WorkerRec == [c : Client \cup {None}, req : {NoReq} \cup Asking, write : BOOLEAN, resigned : BOOLEAN]

\* What is on its way, and how much of it there can be.
Traffic ==
    /\ setup \in Setups /\ up \in BOOLEAN /\ conn \in [Client -> Conn]
    /\ inb \in [Client -> Seq(Item)] /\ out \in [Client -> Seq(Item)]
    /\ got \in [Client -> Seq(Item)] /\ sent \in [Client -> Nat]
    /\ \A c \in Client : Len(out[c]) <= Cap /\ sent[c] <= Len(Stream(c))

\* The workers and the two lists.
Workers ==
    /\ made \in 0 .. MaxWorkers /\ working \subseteq Worker /\ leisure \in Seq(Worker)
    /\ worker \in [Worker -> WorkerRec]
    /\ \A w \in Worker : ReqOK(worker[w].c, worker[w].req)

\* Who is on which list.
Lists ==
    /\ working \cap ToSet(leisure) = {} /\ working \cup ToSet(leisure) = 1 .. made
    /\ IsInjective(leisure)

\* Workers and open connections, one to one.
OneEach ==
    /\ \A w \in working : worker[w].c \in Client /\ conn[worker[w].c].st = "open"
    /\ \A v, w \in working : worker[v].c = worker[w].c => v = w
    /\ \A c \in Client : conn[c].st = "open" => \E w \in working : worker[w].c = c

\* Also the workers not made yet are clean.
Rested ==
    \A w \in Worker \ working :
        worker[w].req = NoReq /\ ~worker[w].write /\ worker[w].resigned

\* A worker in __write_response_body is at work on a request.
StuckOK ==
    stuck # None =>
        /\ stuck \in [w : Worker, n : Nat]
        /\ stuck.w \in working /\ worker[stuck.w].req # NoReq

Pool    == Workers /\ Lists /\ OneEach /\ Rested
PoolInv == Traffic /\ Pool /\ StuckOK

\* The numbers of the workers.
LEMMA WorkerNumbers == MaxWorkers \in Nat /\ Worker = 1 .. MaxWorkers /\ Worker \subseteq Nat
<1>1. Cardinality(Client) \in Nat
  BY HttpAssumption, FS_CardinalityType
<1> QED BY <1>1 DEF MaxWorkers, Worker

\* A worker at the end of a list that it was not on.
LEMMA ListGrows ==
    ASSUME NEW S, NEW l \in Seq(S), NEW w \in S, w \notin ToSet(l), IsInjective(l)
    PROVE  /\ Append(l, w) \in Seq(S) /\ ToSet(Append(l, w)) = ToSet(l) \cup {w}
           /\ IsInjective(Append(l, w))
<1> DEFINE r == Append(l, w)  n == Len(l) + 1
<1>1. r \in Seq(S) /\ DOMAIN l = 1 .. Len(l) /\ DOMAIN r = 1 .. n /\ Len(l) \in Nat
  OBVIOUS
<1>2. (\A i \in DOMAIN l : i \in DOMAIN r /\ r[i] = l[i]) /\ n \in DOMAIN r /\ r[n] = w
  OBVIOUS
<1>3. \A i \in DOMAIN r : i = n \/ i \in DOMAIN l
  BY <1>1
<1> HIDE DEF r, n
<1>4. ToSet(r) = ToSet(l) \cup {w}
  BY <1>2, <1>3 DEF ToSet
<1>5. \A i \in DOMAIN l : l[i] # w
  BY DEF ToSet
<1>6. IsInjective(r)
  BY <1>2, <1>3, <1>5 DEF IsInjective
<1> QED BY <1>1, <1>4, <1>6 DEF r

\* The first worker of a list and those behind it.
LEMMA ListShrinks ==
    ASSUME NEW S, NEW l \in Seq(S), l # << >>, IsInjective(l)
    PROVE  /\ Tail(l) \in Seq(S) /\ Head(l) \in S /\ Head(l) \in ToSet(l)
           /\ Head(l) \notin ToSet(Tail(l)) /\ ToSet(Tail(l)) \cup {Head(l)} = ToSet(l)
           /\ IsInjective(Tail(l))
<1> DEFINE r == Tail(l)  h == Head(l)
<1>1. /\ r \in Seq(S) /\ DOMAIN r = 1 .. (Len(l) - 1) /\ DOMAIN l = 1 .. Len(l) /\ Len(l) \in Nat
      /\ Len(l) # 0
  OBVIOUS
<1>2. \A i \in DOMAIN r : i + 1 \in DOMAIN l /\ r[i] = l[i + 1]
  OBVIOUS
<1>3. h \in S /\ h = l[1] /\ 1 \in DOMAIN l
  OBVIOUS
<1>4. \A j \in DOMAIN l : j = 1 \/ \E i \in DOMAIN r : j = i + 1
  <2>1. ASSUME NEW j \in DOMAIN l, j # 1 PROVE \E i \in DOMAIN r : j = i + 1
    <3>1. j - 1 \in DOMAIN r /\ j = j - 1 + 1
      BY <1>1, <2>1
    <3> QED BY <3>1
  <2> QED BY <2>1
<1>5. \A i, j \in DOMAIN r : (i + 1 = j + 1 => i = j) /\ i + 1 # 1
  BY <1>1
<1> HIDE DEF r, h
<1>6. IsInjective(r) /\ h \notin ToSet(r)
  BY <1>2, <1>3, <1>5 DEF IsInjective, ToSet
<1>7. ToSet(r) \cup {h} = ToSet(l)
  BY <1>2, <1>3, <1>4 DEF ToSet
<1> QED BY <1>1, <1>3, <1>6, <1>7 DEF r, h, ToSet

\* What a worker's going on does to the pool and the connections.
Went(w, q, write, n) ==
    /\ \A v \in Worker \ {w} : worker'[v] = worker[v]
    /\ worker'[w].c = (IF n > 0 THEN None ELSE worker[w].c) /\ worker'[w].req = q
    /\ worker'[w].write => write /\ n = 0
    /\ n > 0 => worker'[w].resigned
    /\ working' = (IF n > 0 THEN working \ {w} ELSE working)
    /\ \A c \in Client : conn'[c] = IF n > 0 /\ c = worker[w].c
                                    THEN [st |-> "closed", peer |-> conn[c].peer] ELSE conn[c]

\* The end of a worker's callback keeps the pool sound, whether it closes the
\* connection and gives the worker back or goes on.
LEMMA GoesKeeps ==
    ASSUME Pool, conn \in [Client -> Conn], setup' = setup, NEW w \in working,
           NEW q \in {NoReq} \cup Asking, ReqOK(worker[w].c, q),
           NEW write \in BOOLEAN, NEW n \in Nat, n > 0 => q = NoReq, Goes(w, q, write, n)
    PROVE  Pool' /\ conn' \in [Client -> Conn] /\ Went(w, q, write, n)
<1>1. /\ w \in Worker /\ worker \in [Worker -> WorkerRec] /\ worker[w].c \in Client
      /\ worker[w] \in WorkerRec /\ Worker \subseteq Nat
  BY WorkerNumbers DEF Pool, Workers, OneEach
<1>2. /\ worker' \in [Worker -> WorkerRec]
      /\ \A v \in Worker \ {w} : worker'[v] = worker[v]
      /\ worker'[w].c = (IF n > 0 THEN None ELSE worker[w].c) /\ worker'[w].req = q
      /\ worker'[w].write => write /\ n = 0
      /\ n > 0 => worker'[w].resigned
  <2> DEFINE a == write /\ n = 0
             b == n > 0
             d == IF n > 0 THEN None ELSE worker[w].c
             k == [worker[w] EXCEPT !.req = q, !.write = a, !.resigned = b,
                                    !.c = IF n > 0 THEN None ELSE worker[w].c]
  <2>1. worker' = [worker EXCEPT ![w] = k]
    BY DEF Goes
  <2>2. a \in BOOLEAN /\ b \in BOOLEAN /\ d \in Client \cup {None}
    BY <1>1
  <2>3. (a => write /\ n = 0) /\ (n > 0 => b) /\ d = (IF n > 0 THEN None ELSE worker[w].c)
    OBVIOUS
  <2>4. k = [worker[w] EXCEPT !.req = q, !.write = a, !.resigned = b,
                              !.c = IF n > 0 THEN None ELSE worker[w].c]
    OBVIOUS
  <2> HIDE DEF a, b, d, k
  <2>5. k \in WorkerRec /\ k.c = d /\ k.req = q /\ k.write = a /\ k.resigned = b
    BY <1>1, <2>2, <2>3, <2>4 DEF WorkerRec
  <2>6. worker' \in [Worker -> WorkerRec] /\ worker'[w] = k
        /\ \A v \in Worker \ {w} : worker'[v] = worker[v]
    BY <1>1, <2>1, <2>5
  <2> QED BY <2>3, <2>5, <2>6
<1>3. working' = (IF n > 0 THEN working \ {w} ELSE working) /\ made' = made
  BY DEF Goes
<1>4. /\ conn' \in [Client -> Conn]
      /\ \A c \in Client : conn'[c] = IF n > 0 /\ c = worker[w].c
                                      THEN [st |-> "closed", peer |-> conn[c].peer] ELSE conn[c]
  <2>1. CASE n > 0
    <3>1. conn' = [conn EXCEPT ![worker[w].c].st = "closed"]
      BY <2>1 DEF Goes
    <3>2. [conn[worker[w].c] EXCEPT !.st = "closed"] = [st |-> "closed", peer |-> conn[worker[w].c].peer]
          /\ [st |-> "closed", peer |-> conn[worker[w].c].peer] \in Conn
      BY <1>1 DEF Conn
    <3> QED BY <1>1, <2>1, <3>1, <3>2
  <2>2. CASE ~(n > 0)
    BY <2>2 DEF Goes
  <2> QED BY <2>1, <2>2
<1>5. Went(w, q, write, n)
  BY <1>2, <1>3, <1>4 DEF Went
<1>6. Workers'
  <2>1. working' \subseteq Worker /\ made' \in 0 .. MaxWorkers
    BY <1>3 DEF Pool, Workers
  <2>2. leisure' \in Seq(Worker)
    <3>1. leisure \in Seq(Worker)
      BY DEF Pool, Workers
    <3>2. leisure' = IntoLeisure(leisure, w, n)
      BY DEF Goes
    <3> QED BY <1>1, <3>1, <3>2 DEF IntoLeisure
  <2>3. \A v \in Worker : ReqOK(worker[v].c, worker[v].req)'
    <3>1. ASSUME NEW v \in Worker PROVE ReqOK(worker[v].c, worker[v].req)'
      <4>1. CASE v = w
        <5>1. n > 0 => worker'[v].req = NoReq
          BY <1>2, <4>1
        <5>2. ~(n > 0) => worker'[v].c = worker[w].c /\ worker'[v].req = q
          BY <1>2, <4>1
        <5> QED BY <5>1, <5>2 DEF ReqOK, Requests, Asked
      <4>2. CASE v # w
        BY <1>2, <4>2 DEF Pool, Workers, ReqOK, Requests, Asked
      <4> QED BY <4>1, <4>2
    <3> QED BY <3>1
  <2> QED BY <1>2, <2>1, <2>2, <2>3 DEF Workers
<1>7. Lists'
  <2>1. CASE n > 0
    <3>1. w \notin ToSet(leisure) /\ IsInjective(leisure) /\ leisure \in Seq(Worker)
      BY DEF Pool, Lists, Workers
    <3>2. leisure' = Append(leisure, w)
      BY <2>1 DEF Goes, IntoLeisure
    <3>3. ToSet(leisure') = ToSet(leisure) \cup {w} /\ IsInjective(leisure')
      BY <1>1, <3>1, <3>2, ListGrows
    <3>4. working' = working \ {w} /\ w \in working
      BY <1>3, <2>1
    <3> QED BY <1>3, <3>3, <3>4 DEF Pool, Lists
  <2>2. CASE ~(n > 0)
    <3>1. leisure' = leisure /\ working' = working
      BY <1>3, <2>2 DEF Goes, IntoLeisure
    <3> QED BY <1>3, <3>1 DEF Pool, Lists
  <2> QED BY <2>1, <2>2
<1>8. OneEach'
  <2>1. CASE n > 0
    <3>1. working' = working \ {w} /\ \A v \in working' : worker'[v] = worker[v] /\ v \in working /\ v # w
      BY <1>2, <1>3, <2>1 DEF Pool, Workers
    <3>2. \A v \in working' : /\ worker[v].c \in Client /\ worker[v].c # worker[w].c
                              /\ conn[worker[v].c].st = "open"
      BY <3>1 DEF Pool, OneEach
    <3>3. \A v \in working' : worker'[v].c \in Client /\ conn'[worker'[v].c].st = "open"
      BY <1>4, <3>1, <3>2
    <3>4. \A v, u \in working' : worker'[v].c = worker'[u].c => v = u
      BY <3>1 DEF Pool, OneEach
    <3>5. ASSUME NEW c \in Client, conn'[c].st = "open" PROVE \E v \in working' : worker'[v].c = c
      <4>1. c # worker[w].c /\ conn[c].st = "open"
        BY <1>4, <2>1, <3>5
      <4>2. PICK v \in working : worker[v].c = c
        BY <4>1 DEF Pool, OneEach
      <4> QED BY <3>1, <4>1, <4>2
    <3> QED BY <3>3, <3>4, <3>5 DEF OneEach
  <2>2. CASE ~(n > 0)
    <3>1. conn' = conn /\ working' = working
      BY <2>2 DEF Goes
    <3>2. \A v \in working : worker'[v].c = worker[v].c
      BY <1>2, <2>2 DEF Pool, Workers
    <3> QED BY <3>1, <3>2 DEF Pool, OneEach
  <2> QED BY <2>1, <2>2
<1>9. Rested'
  <2>1. ASSUME NEW v \in Worker \ working'
        PROVE  worker'[v].req = NoReq /\ ~worker'[v].write /\ worker'[v].resigned
    <3>1. CASE v = w
      <4>1. n > 0
        BY <1>3, <2>1, <3>1
      <4>2. worker'[w].req = NoReq /\ ~worker'[w].write /\ worker'[w].resigned
        BY <1>2, <4>1
      <4> QED BY <3>1, <4>2
    <3>2. CASE v # w
      BY <1>2, <1>3, <2>1, <3>2 DEF Pool, Rested
    <3> QED BY <3>1, <3>2
  <2> QED BY <2>1 DEF Rested
<1> QED BY <1>4, <1>5, <1>6, <1>7, <1>8, <1>9 DEF Pool

\* Nothing that concerns the pool happens.
LEMMA PoolStays ==
    ASSUME Pool, StuckOK, UNCHANGED <<poolVars, stuck, setup>>,
           \A c \in Client : conn'[c].st = "open" <=> conn[c].st = "open"
    PROVE  Pool' /\ StuckOK'
<1>1. made' = made /\ worker' = worker /\ working' = working /\ leisure' = leisure
      /\ stuck' = stuck /\ setup' = setup
  BY DEF poolVars
<1>2. Workers'
  BY <1>1 DEF Pool, Workers, ReqOK, Requests, Asked
<1>3. Lists' /\ Rested' /\ StuckOK'
  BY <1>1 DEF Pool, Lists, Rested, StuckOK
<1>4. OneEach'
  BY <1>1 DEF Pool, OneEach
<1> QED BY <1>2, <1>3, <1>4 DEF Pool

\* The streams do not change.
LEMMA StreamStays ==
    ASSUME setup' = setup, NEW c \in Client
    PROVE  Stream(c)' = Stream(c) /\ Requests(c)' = Requests(c)
  BY DEF Stream, Requests, Units, Asked

\* A segment is of the client's script.
LEMMA SegmentOK ==
    ASSUME Traffic, NEW c \in Client, NEW k \in 1 .. 4, sent[c] + k <= Len(Stream(c))
    PROVE  /\ Segment(c, k) \in Seq(Item) /\ Len(Segment(c, k)) = k
           /\ \A i \in 1 .. k : /\ Segment(c, k)[i] = Stream(c)[sent[c] + i]
                                /\ Segment(c, k)[i][1] \in Requests(c)
<1> DEFINE s == Stream(c)  a == sent[c]
<1>1. /\ s \in Seq(Item) /\ a \in Nat /\ a + k <= Len(s) /\ Len(s) \in Nat
      /\ \A i \in 1 .. Len(s) : s[i][1] \in Requests(c)
  <2>1. /\ s = Runs(UL(c), Num(c)) /\ InLine(UL(c), Num(c)) /\ Requests(c) = 1 .. Num(c)
    BY Streams, Script DEF Traffic
  <2>2. s \in Seq(Item) /\ Len(s) = Total(UL(c), Num(c)) /\ Len(s) \in Nat
    BY <2>1 DEF InLine
  <2>3. ASSUME NEW i \in 1 .. Len(s) PROVE s[i][1] \in 1 .. Num(c)
    <3>1. PICK r \in 1 .. Num(c) : \E p \in 1 .. UL(c)[r] : i = Total(UL(c), r - 1) + p
      BY <2>1, <2>2, <2>3 DEF InLine
    <3>2. PICK p \in 1 .. UL(c)[r] : i = Total(UL(c), r - 1) + p
      BY <3>1
    <3>3. s[i] = <<r, p>>
      BY <2>1, <3>2 DEF InLine
    <3> QED BY <3>3
  <2> QED BY <2>1, <2>2, <2>3 DEF Traffic
<1>2. Segment(c, k) = SubSeq(s, a + 1, a + k)
  BY DEF Segment
<1> HIDE DEF s, a
<1>3. /\ SubSeq(s, a + 1, a + k) \in Seq(Item) /\ Len(SubSeq(s, a + 1, a + k)) = k
      /\ \A i \in 1 .. k : SubSeq(s, a + 1, a + k)[i] = s[a + i]
  <2>1. PICK b \in Int : b = a + 1
    BY <1>1
  <2>2. PICK e \in Int : e = a + k
    BY <1>1
  <2>l. PICK l \in Nat : l = Len(s)
    BY <1>1
  <2>0. a \in Nat /\ a + k <= l /\ k \in 1 .. 4
    BY <1>1, <2>l
  <2>8. e - b + 1 = k /\ b <= e
    BY ONLY <2>0, <2>1, <2>2, SMT
  <2>9. \A i \in b .. e : i \in 1 .. l
    BY ONLY <2>0, <2>1, <2>2, <2>l, SMT
  <2>10. \A i \in 1 .. k : b + i - 1 = a + i
    BY ONLY <2>0, <2>1, <2>2, SMT
  <2>3. /\ e - b + 1 = k /\ b <= e /\ \A i \in b .. e : i \in 1 .. Len(s)
        /\ \A i \in 1 .. k : b + i - 1 = a + i
    BY <2>8, <2>9, <2>10, <2>l, Zenon
  <2>4. \A i \in b .. e : s[i] \in Item
    BY <1>1, <2>3, ElementOfSeq
  <2>5. /\ SubSeq(s, b, e) \in Seq(Item) /\ Len(SubSeq(s, b, e)) = IF b <= e THEN e - b + 1 ELSE 0
        /\ \A i \in 1 .. e - b + 1 : SubSeq(s, b, e)[i] = s[b + i - 1]
    BY ONLY <2>4, SubSeqProperties
  <2>6. SubSeq(s, a + 1, a + k) = SubSeq(s, b, e)
    BY <2>1, <2>2
  <2>7. \A i \in 1 .. k : SubSeq(s, b, e)[i] = s[a + i]
    BY <2>3, <2>5
  <2> QED BY <2>3, <2>5, <2>6, <2>7
<1>4. \A i \in 1 .. k : a + i \in 1 .. Len(s)
  BY <1>1
<1> QED BY <1>1, <1>2, <1>3, <1>4 DEF s, a

\* The pool is sound before anybody has connected.
LEMMA InitPool == Init => PoolInv
<1> SUFFICES ASSUME Init PROVE PoolInv
  OBVIOUS
<1>1. Traffic
  <2>1. << >> \in Seq(Item) /\ Len(<< >>) = 0 /\ Cap \in Nat
    BY HttpAssumption
  <2>2. ASSUME NEW c \in Client PROVE Len(Stream(c)) \in Nat
    <3>1. setup \in Setups
      BY DEF Init
    <3>2. Stream(c) \in Seq(Item)
      BY <3>1, Streams DEF InLine
    <3> QED BY <3>2, LenProperties
  <2>3. /\ setup \in Setups /\ up \in BOOLEAN /\ conn \in [Client -> Conn]
        /\ inb \in [Client -> Seq(Item)] /\ out \in [Client -> Seq(Item)]
        /\ got \in [Client -> Seq(Item)] /\ sent \in [Client -> Nat]
        /\ \A c \in Client : out[c] = << >> /\ sent[c] = 0
    BY <2>1 DEF Init, Conn
  <2>4. \A c \in Client : Len(out[c]) <= Cap /\ sent[c] <= Len(Stream(c))
    BY <2>1, <2>2, <2>3
  <2> QED BY <2>3, <2>4 DEF Traffic
<1>3. made = 0 /\ working = {} /\ leisure = << >> /\ stuck = None
      /\ worker = [w \in Worker |-> [c |-> None, req |-> NoReq, write |-> FALSE, resigned |-> TRUE]]
      /\ \A c \in Client : conn[c].st # "open"
  BY DEF Init
<1>4. Workers
  BY <1>3, WorkerNumbers DEF Workers, WorkerRec, ReqOK
<1>5. Lists
  <2>1. ToSet(leisure) = {} /\ 1 .. made = {}
    BY <1>3 DEF ToSet
  <2> QED BY <1>3, <2>1 DEF Lists, IsInjective
<1>6. OneEach /\ Rested /\ StuckOK
  BY <1>3 DEF OneEach, Rested, StuckOK
<1> QED BY <1>1, <1>4, <1>5, <1>6 DEF PoolInv, Pool

-----------------------------------------------------------------------------
\* A connection in the backlog has no worker yet.
LEMMA ConnectPool ==
    ASSUME PoolInv, NEW c \in Client, Connect(c)
    PROVE  PoolInv'
<1>1. /\ conn[c].st \in {"idle", "closed"}
      /\ conn' = [conn EXCEPT ![c] = [st |-> "backlog", peer |-> "on"]]
      /\ inb' = [inb EXCEPT ![c] = << >>] /\ UNCHANGED <<up, out, poolVars, stuck, sent, got, setup>>
  BY DEF Connect, clientVars
<1>2. conn \in [Client -> Conn] /\ [st |-> "backlog", peer |-> "on"] \in Conn
  BY DEF PoolInv, Traffic, Conn
<1>3. conn' \in [Client -> Conn] /\ \A d \in Client : conn'[d].st = "open" <=> conn[d].st = "open"
  BY <1>1, <1>2
<1>4. Pool' /\ StuckOK'
  BY <1>1, <1>3, PoolStays DEF PoolInv
<1>5. inb' \in [Client -> Seq(Item)] /\ \A d \in Client : inb'[d] = << >> \/ inb'[d] = inb[d]
  <2>1. << >> \in Seq(Item)
    OBVIOUS
  <2> QED BY <1>1, <2>1 DEF PoolInv, Traffic
<1>6. Traffic'
  <2>1. setup' = setup /\ sent' = sent /\ out' = out /\ got' = got /\ up' = up
    BY <1>1
  <2>2. \A d \in Client : Len(out'[d]) <= Cap /\ sent'[d] <= Len(Stream(d)')
    BY <2>1, StreamStays DEF PoolInv, Traffic
  <2> QED BY <1>3, <1>5, <2>1, <2>2 DEF PoolInv, Traffic
<1> QED BY <1>4, <1>6 DEF PoolInv

\* A segment changes nothing in the pool.
LEMMA SendPool ==
    ASSUME PoolInv, NEW c \in Client, NEW k \in 1 .. 4, Send(c, k)
    PROVE  PoolInv'
<1>1. /\ sent[c] + k <= Len(Stream(c)) /\ sent' = [sent EXCEPT ![c] = @ + k]
      /\ inb' = [inb EXCEPT ![c] = @ \o Segment(c, k)]
      /\ UNCHANGED <<up, conn, out, poolVars, stuck, got, setup>>
  BY DEF Send
<1>2. Traffic
  BY DEF PoolInv
<1>3. /\ Segment(c, k) \in Seq(Item) /\ Len(Segment(c, k)) = k
      /\ \A i \in 1 .. k : Segment(c, k)[i][1] \in Requests(c)
  BY <1>1, <1>2, SegmentOK
<1>4. Pool' /\ StuckOK'
  BY <1>1, PoolStays DEF PoolInv
<1> DEFINE b == inb[c]  s == Segment(c, k)
<1>6. b \o s \in Seq(Item)
  <2>1. b \in Seq(Item)
    BY DEF PoolInv, Traffic
  <2> HIDE DEF b, s
  <2> QED BY <1>3, <2>1 DEF s
<1>7. inb' \in [Client -> Seq(Item)] /\ inb'[c] = b \o s /\ \A d \in Client \ {c} : inb'[d] = inb[d]
  BY <1>1, <1>6 DEF PoolInv, Traffic
<1>8. Traffic'
  <2>1. setup' = setup /\ out' = out /\ got' = got /\ up' = up /\ conn' = conn
    BY <1>1
  <2>2. sent' \in [Client -> Nat] /\ sent'[c] = sent[c] + k /\ \A d \in Client \ {c} : sent'[d] = sent[d]
    BY <1>1 DEF PoolInv, Traffic
  <2>3. \A d \in Client : Stream(d)' = Stream(d)
    BY <1>1, StreamStays
  <2>4. \A d \in Client : Len(out'[d]) <= Cap /\ sent'[d] <= Len(Stream(d)')
    BY <1>1, <2>1, <2>2, <2>3 DEF PoolInv, Traffic
  <2> QED BY <1>7, <2>1, <2>2, <2>4 DEF PoolInv, Traffic
<1> QED BY <1>4, <1>8 DEF PoolInv

\* What is left of an answer, and what the client has then.
LEMMA AnswerRead ==
    ASSUME NEW o \in Seq(Item), NEW g \in Seq(Item), o # << >>
    PROVE  /\ Tail(o) \in Seq(Item) /\ Len(Tail(o)) = Len(o) - 1 /\ Len(o) \in Nat /\ Len(g) \in Nat
           /\ Append(g, Head(o)) \in Seq(Item) /\ Len(Append(g, Head(o))) = Len(g) + 1
           /\ Append(g, Head(o)) \o Tail(o) = g \o o
<1> DEFINE h == Head(o)  t == Tail(o)  a == Append(g, h)
<1>1. /\ t \in Seq(Item) /\ Len(t) = Len(o) - 1 /\ Len(o) \in Nat \ {0} /\ Len(g) \in Nat
      /\ h \in Item /\ h = o[1] /\ \A i \in 1 .. Len(o) - 1 : t[i] = o[i + 1]
  OBVIOUS
<1> HIDE DEF h, t
<1>2. /\ a \in Seq(Item) /\ Len(a) = Len(g) + 1 /\ a[Len(g) + 1] = h
      /\ \A i \in 1 .. Len(g) : a[i] = g[i]
  BY <1>1
<1> HIDE DEF a
<1>3. /\ a \o t \in Seq(Item) /\ Len(a \o t) = Len(a) + Len(t)
      /\ \A i \in 1 .. Len(a) + Len(t) : (a \o t)[i] = IF i <= Len(a) THEN a[i] ELSE t[i - Len(a)]
  BY <1>1, <1>2, ConcatProperties
<1>4. /\ g \o o \in Seq(Item) /\ Len(g \o o) = Len(g) + Len(o)
      /\ \A i \in 1 .. Len(g) + Len(o) : (g \o o)[i] = IF i <= Len(g) THEN g[i] ELSE o[i - Len(g)]
  BY ConcatProperties
<1>5. Len(a \o t) = Len(g \o o)
  BY <1>1, <1>2, <1>3, <1>4
<1>6. ASSUME NEW i \in 1 .. Len(g) + Len(o) PROVE (a \o t)[i] = (g \o o)[i]
  <2>1. i \in 1 .. Len(a) + Len(t)
    BY <1>1, <1>2
  <2>2. CASE i <= Len(g)
    <3>1. i \in 1 .. Len(g) /\ i <= Len(a)
      BY <1>1, <1>2, <2>2
    <3> QED BY <1>2, <1>3, <1>4, <2>1, <2>2, <3>1
  <2>3. CASE i = Len(g) + 1
    <3>1. i <= Len(a) /\ ~(i <= Len(g)) /\ i - Len(g) = 1
      BY <1>1, <1>2, <2>3
    <3> QED BY <1>1, <1>2, <1>3, <1>4, <2>1, <2>3, <3>1
  <2>4. CASE i > Len(g) + 1
    <3>1. PICK j : j = i - Len(a)
      OBVIOUS
    <3>2. j \in 1 .. Len(o) - 1 /\ ~(i <= Len(a)) /\ ~(i <= Len(g)) /\ i - Len(g) = j + 1
      BY <1>1, <1>2, <2>4, <3>1
    <3>3. (a \o t)[i] = t[j]
      BY <1>3, <2>1, <3>1, <3>2
    <3>4. (g \o o)[i] = o[j + 1]
      BY <1>4, <3>2
    <3>5. t[j] = o[j + 1]
      BY <1>1, <3>2
    <3> QED BY <3>3, <3>4, <3>5
  <2>5. i <= Len(g) \/ i = Len(g) + 1 \/ i > Len(g) + 1
    BY <1>1
  <2> QED BY <2>2, <2>3, <2>4, <2>5
<1>7. a \o t = g \o o
  BY <1>3, <1>4, <1>5, <1>6, SeqEqual
<1> QED BY <1>1, <1>2, <1>7 DEF a, t, h

\* A client that reads changes nothing in the pool.
LEMMA ReadAnswerPool ==
    ASSUME PoolInv, NEW c \in Client, ReadAnswer(c)
    PROVE  PoolInv'
<1>1. /\ out[c] # << >> /\ got' = [got EXCEPT ![c] = Append(@, Head(out[c]))]
      /\ out' = [out EXCEPT ![c] = Tail(@)]
      /\ UNCHANGED <<up, conn, inb, poolVars, stuck, sent, setup>>
  BY DEF ReadAnswer
<1>2. Pool' /\ StuckOK'
  BY <1>1, PoolStays DEF PoolInv
<1>3. out[c] \in Seq(Item) /\ got[c] \in Seq(Item) /\ Len(out[c]) <= Cap /\ Cap \in Nat
  BY HttpAssumption DEF PoolInv, Traffic
<1>4. /\ Tail(out[c]) \in Seq(Item) /\ Len(Tail(out[c])) = Len(out[c]) - 1 /\ Len(out[c]) \in Nat
      /\ Append(got[c], Head(out[c])) \in Seq(Item)
  BY <1>1, <1>3, AnswerRead
<1>5. Traffic'
  <2>1. setup' = setup /\ sent' = sent /\ inb' = inb /\ up' = up /\ conn' = conn
    BY <1>1
  <2>2. /\ out' \in [Client -> Seq(Item)] /\ got' \in [Client -> Seq(Item)]
        /\ out'[c] = Tail(out[c]) /\ \A d \in Client \ {c} : out'[d] = out[d]
    BY <1>1, <1>4 DEF PoolInv, Traffic
  <2>3. \A d \in Client : Stream(d)' = Stream(d)
    BY <1>1, StreamStays
  <2>4. Len(out'[c]) <= Cap
    BY <1>3, <1>4, <2>2
  <2>5. \A d \in Client : Len(out'[d]) <= Cap /\ sent'[d] <= Len(Stream(d)')
    BY <2>1, <2>2, <2>3, <2>4 DEF PoolInv, Traffic
  <2> QED BY <2>1, <2>2, <2>5 DEF PoolInv, Traffic
<1> QED BY <1>2, <1>5 DEF PoolInv

\* A client closes or disappears.
LEMMA EndsPool ==
    ASSUME PoolInv, NEW c \in Client, Fin(c) \/ Abort(c)
    PROVE  PoolInv'
<1>1. /\ conn[c].st = "open" /\ conn' = [conn EXCEPT ![c].peer = conn'[c].peer]
      /\ conn'[c].peer \in {"fin", "rst"}
      /\ out' = out \/ out' = [out EXCEPT ![c] = << >>]
      /\ inb' = inb \/ inb' = [inb EXCEPT ![c] = << >>]
      /\ UNCHANGED <<up, poolVars, stuck, sent, got, setup>>
  <2>1. conn \in [Client -> Conn]
    BY DEF PoolInv, Traffic
  <2>2. CASE Fin(c)
    BY <2>1, <2>2 DEF Fin, clientVars, Conn
  <2>3. CASE Abort(c)
    BY <2>1, <2>3 DEF Abort, Conn
  <2> QED BY <2>2, <2>3
<1>2. conn' \in [Client -> Conn] /\ \A d \in Client : conn'[d].st = conn[d].st
  <2>1. conn \in [Client -> Conn]
    BY DEF PoolInv, Traffic
  <2>2. /\ conn'[c].peer \in {"fin", "rst"} /\ conn' = [conn EXCEPT ![c].peer = conn'[c].peer]
    BY <1>1
  <2> QED BY <2>1, <2>2 DEF Conn
<1>3. Pool' /\ StuckOK'
  BY <1>1, <1>2, PoolStays DEF PoolInv
<1>4. << >> \in Seq(Item) /\ Len(<< >>) <= Cap
  BY HttpAssumption
<1>5. Traffic'
  <2>1. setup' = setup /\ sent' = sent /\ up' = up /\ got' = got
    BY <1>1
  <2>2. /\ out' \in [Client -> Seq(Item)] /\ inb' \in [Client -> Seq(Item)]
        /\ \A d \in Client : out'[d] = out[d] \/ out'[d] = << >>
    BY <1>1, <1>4 DEF PoolInv, Traffic
  <2>3. \A d \in Client : Stream(d)' = Stream(d)
    BY <1>1, StreamStays
  <2>4. \A d \in Client : Len(out'[d]) <= Cap /\ sent'[d] <= Len(Stream(d)')
    BY <1>4, <2>1, <2>2, <2>3 DEF PoolInv, Traffic
  <2> QED BY <1>2, <2>1, <2>2, <2>4 DEF PoolInv, Traffic
<1> QED BY <1>3, <1>5 DEF PoolInv

\* A connection is accepted: a worker that is at rest, also a new one, takes it.
LEMMA AcceptPool ==
    ASSUME PoolInv, NEW c \in Client, Accept(c)
    PROVE  PoolInv'
<1>1. /\ stuck = None /\ stuck' = None /\ conn[c].st = "backlog"
      /\ conn' = [conn EXCEPT ![c].st = "open"] /\ UNCHANGED <<up, inb, out, sent, got, setup>>
  BY DEF Accept, clientVars
<1>2. PICK w \in Worker :
        /\ IF leisure # << >>
           THEN w = Head(leisure) /\ leisure' = Tail(leisure) /\ UNCHANGED made
           ELSE w = made + 1 /\ made' = w /\ UNCHANGED leisure
        /\ worker' = [worker EXCEPT ![w] = [@ EXCEPT !.c = c, !.write = FALSE, !.resigned = FALSE]]
        /\ working' = working \cup {w}
  BY DEF Accept
<1>3. /\ Workers /\ Lists /\ OneEach /\ Rested /\ conn \in [Client -> Conn]
      /\ worker \in [Worker -> WorkerRec] /\ working \subseteq Worker /\ Worker \subseteq Nat
      /\ leisure \in Seq(Worker) /\ IsInjective(leisure) /\ made \in 0 .. MaxWorkers
      /\ Worker = 1 .. MaxWorkers
  BY WorkerNumbers DEF PoolInv, Pool, Traffic, Workers, Lists
<1>4. /\ w \notin working /\ leisure' \in Seq(Worker) /\ IsInjective(leisure')
      /\ made' \in 0 .. MaxWorkers /\ w \notin ToSet(leisure') /\ ToSet(leisure') \subseteq ToSet(leisure)
      /\ working' \cup ToSet(leisure') = 1 .. made'
  <2>1. CASE leisure # << >>
    <3>1. /\ leisure' = Tail(leisure) /\ w = Head(leisure) /\ made' = made
          /\ working' = working \cup {w}
      BY <1>2, <2>1
    <3>2. /\ Tail(leisure) \in Seq(Worker) /\ Head(leisure) \in ToSet(leisure)
          /\ Head(leisure) \notin ToSet(Tail(leisure)) /\ IsInjective(Tail(leisure))
          /\ ToSet(Tail(leisure)) \cup {Head(leisure)} = ToSet(leisure)
      BY <1>3, <2>1, ListShrinks
    <3> HIDE <2>1
    <3> QED BY <1>3, <3>1, <3>2 DEF Lists
  <2>2. CASE leisure = << >>
    <3>1. leisure' = leisure /\ w = made + 1 /\ made' = w /\ working' = working \cup {w}
      BY <1>2, <2>2
    <3>2. ToSet(leisure) = {}
      BY <2>2 DEF ToSet
    <3>3. working = 1 .. made
      BY <1>3, <3>2 DEF Lists
    <3>4. w \notin working /\ working \cup {w} = 1 .. w /\ w \in 0 .. MaxWorkers
      BY <1>3, <3>1, <3>3
    <3> QED BY <1>3, <3>1, <3>2, <3>4
  <2> QED BY <2>1, <2>2
<1>5. /\ worker' \in [Worker -> WorkerRec] /\ \A v \in Worker \ {w} : worker'[v] = worker[v]
      /\ worker'[w].c = c /\ worker'[w].req = NoReq
  <2>1. worker[w] \in WorkerRec /\ worker[w].req = NoReq
    BY <1>3, <1>4 DEF Rested
  <2> DEFINE k == [worker[w] EXCEPT !.c = c, !.write = FALSE, !.resigned = FALSE]
  <2>2. k \in WorkerRec /\ k.c = c /\ k.req = NoReq
    BY <2>1 DEF WorkerRec
  <2>3. worker' = [worker EXCEPT ![w] = k]
    BY <1>2
  <2> HIDE DEF k
  <2> QED BY <1>3, <2>2, <2>3
<1>6. /\ conn' \in [Client -> Conn] /\ conn'[c].st = "open"
      /\ \A d \in Client \ {c} : conn'[d] = conn[d]
  BY <1>1, <1>3 DEF Conn
<1>7. Workers'
  <2>1. \A v \in Worker : ReqOK(worker[v].c, worker[v].req)'
    <3>1. ReqOK(worker[w].c, worker[w].req)'
      BY <1>5 DEF ReqOK
    <3>2. ASSUME NEW v \in Worker \ {w} PROVE ReqOK(worker[v].c, worker[v].req)'
      BY <1>1, <1>3, <1>5 DEF Workers, ReqOK, Requests, Asked
    <3> QED BY <3>1, <3>2
  <2>2. working' \subseteq Worker
    BY <1>2, <1>3
  <2> QED BY <1>4, <1>5, <2>1, <2>2 DEF Workers
<1>8. Lists'
  <2>1. working' \cap ToSet(leisure') = {}
    BY <1>2, <1>3, <1>4 DEF Lists
  <2> QED BY <1>4, <2>1 DEF Lists
<1>9. OneEach'
  <2>1. \A v \in working : v # w /\ worker'[v] = worker[v] /\ worker[v].c # c
    BY <1>1, <1>3, <1>4, <1>5 DEF OneEach
  <2>2. \A v \in working' : worker'[v].c \in Client /\ conn'[worker'[v].c].st = "open"
    BY <1>2, <1>3, <1>5, <1>6, <2>1 DEF OneEach
  <2>3. \A v, u \in working' : worker'[v].c = worker'[u].c => v = u
    BY <1>2, <1>3, <1>5, <2>1 DEF OneEach
  <2>4. ASSUME NEW d \in Client, conn'[d].st = "open" PROVE \E v \in working' : worker'[v].c = d
    <3>1. CASE d = c
      BY <1>2, <1>5, <3>1
    <3>2. CASE d # c
      <4>1. PICK v \in working : worker[v].c = d
        BY <1>3, <1>6, <2>4, <3>2 DEF OneEach
      <4> QED BY <1>2, <2>1, <4>1
    <3> QED BY <3>1, <3>2
  <2> QED BY <2>2, <2>3, <2>4 DEF OneEach
<1>10. Rested'
  BY <1>2, <1>3, <1>5 DEF Rested
<1>11. Traffic' /\ StuckOK'
  <2>1. \A d \in Client : Stream(d)' = Stream(d) /\ Requests(d)' = Requests(d)
    BY <1>1, StreamStays
  <2>2. setup' = setup /\ sent' = sent /\ up' = up /\ got' = got /\ inb' = inb /\ out' = out
    BY <1>1
  <2>3. Traffic'
    BY <1>6, <2>1, <2>2 DEF PoolInv, Traffic
  <2> QED BY <1>1, <2>1, <2>2, <2>3 DEF PoolInv, StuckOK
<1> QED BY <1>7, <1>8, <1>9, <1>10, <1>11 DEF PoolInv, Pool

-----------------------------------------------------------------------------
(***************************************************************************)
(* What the server has received of each client is where its workers say it *)
(* is: at a boundary between two requests, or so far into the body of one. *)
(* Without this BodyOf could be negative.                                  *)
(***************************************************************************)
\* The units of c's requests that the server has taken from the socket.
Taken(c) == sent[c] - Len(inb[c])
\* s units are some whole requests.
Bound(c, s) == \E n \in 0 .. Num(c) : s = Total(UL(c), n)
\* The server is between two requests of c, or this far into the one that q is.
AtUnit(c, q) ==
    IF q = NoReq THEN Bound(c, Taken(c)) ELSE Taken(c) = Total(UL(c), q.r - 1) + Hdr + q.len

\* What waits in the socket is the next of the client's script.
Waiting(c) ==
    /\ Len(inb[c]) <= sent[c]
    /\ \A i \in 1 .. Len(inb[c]) : inb[c][i] = Stream(c)[Taken(c) + i]

\* A connection begins between two requests.
Begins(c) ==
    /\ conn[c].st = "idle" => sent[c] = 0
    /\ conn[c].st = "backlog" => inb[c] = << >> /\ Bound(c, sent[c])
    /\ conn[c].peer = "rst" => inb[c] = << >>

\* A worker is where its client's traffic says it is.
InStep(w) == up /\ conn[worker[w].c].peer # "rst" => AtUnit(worker[w].c, worker[w].req)

\* A handler's body is written when the request is read to its end.
WholeRead ==
    stuck # None =>
        worker[stuck.w].req.len = Asked(worker[stuck.w].c, worker[stuck.w].req.r).body

Steady ==
    /\ \A c \in Client : Waiting(c) /\ Begins(c)
    /\ \A w \in working : InStep(w)
    /\ WholeRead

\* A client that nothing happens to.
LEMMA ClientStays ==
    ASSUME NEW c \in Client, setup' = setup, Waiting(c), Begins(c),
           sent'[c] = sent[c], inb'[c] = inb[c], conn'[c] = conn[c]
    PROVE  Waiting(c)' /\ Begins(c)'
<1>1. Stream(c)' = Stream(c) /\ UL(c)' = UL(c) /\ Num(c)' = Num(c)
  BY DEF Stream, UL, Num, Requests, Units, Asked
<1>2. Taken(c)' = Taken(c)
  BY DEF Taken
<1>3. Waiting(c)'
  BY <1>1, <1>2 DEF Waiting
<1>4. Begins(c)'
  BY <1>1 DEF Begins, Bound
<1> QED BY <1>3, <1>4

\* Where the server is in a client's stream, when nothing is sent or taken.
LEMMA PlaceStays ==
    ASSUME NEW c \in Client, setup' = setup, sent'[c] = sent[c], inb'[c] = inb[c], NEW q
    PROVE  AtUnit(c, q)' <=> AtUnit(c, q)
<1>1. UL(c)' = UL(c) /\ Num(c)' = Num(c)
  BY DEF UL, Num, Requests, Asked
<1>2. Taken(c)' = Taken(c)
  BY DEF Taken
<1> QED BY <1>1, <1>2 DEF AtUnit, Bound

\* A worker that goes on with the same request.
LEMMA WorkerStays ==
    ASSUME NEW w, worker[w].c \in Client, setup' = setup, InStep(w), up' => up,
           worker'[w].c = worker[w].c, worker'[w].req = worker[w].req,
           sent'[worker[w].c] = sent[worker[w].c], inb'[worker[w].c] = inb[worker[w].c],
           conn'[worker[w].c].peer # "rst" => conn[worker[w].c].peer # "rst"
    PROVE  InStep(w)'
<1>1. PICK c \in Client : c = worker[w].c
  OBVIOUS
<1>2. PICK q : q = worker[w].req
  OBVIOUS
<1>3. AtUnit(c, q)' <=> AtUnit(c, q)
  BY <1>1, PlaceStays
<1>4. InStep(w) <=> (up /\ conn[c].peer # "rst" => AtUnit(c, q))
  BY <1>1, <1>2 DEF InStep
<1>5. InStep(w)' <=> (up' /\ conn'[c].peer # "rst" => AtUnit(c, q)')
  <2>1. worker'[w].c = c /\ worker'[w].req = q
    BY <1>1, <1>2
  <2> QED BY <2>1 DEF InStep, AtUnit, Bound
<1> QED BY <1>1, <1>3, <1>4, <1>5

\* Also when the thread is in __write_body, if nobody's request changes.
LEMMA WholeStays ==
    ASSUME WholeRead, setup' = setup, stuck' = stuck, worker' = worker
    PROVE  WholeRead'
  BY DEF WholeRead, Asked

\* Whoever begins a new connection begins it between two requests.
LEMMA WholeRequests ==
    ASSUME Traffic, NEW c \in Client
    PROVE  /\ Bound(c, 0) /\ Answered(c) \in 0 .. Num(c)
           /\ Bound(c, Len(FlattenSeq([r \in 1 .. Answered(c) |-> Units(c, r)])))
<1>1. Num(c) \in Nat /\ Requests(c) = 1 .. Num(c) /\ InLine(UL(c), Num(c))
  BY Script, Streams DEF Traffic
<1>2. Bound(c, 0)
  BY <1>1 DEF Bound, InLine
<1>3. Answered(c) \in 0 .. Num(c)
  <2> DEFINE A == {r \in Requests(c) : Last(Answer(c, r)) \in ToSet(got[c])}
  <2>1. A \subseteq 1 .. Num(c) /\ IsFiniteSet(1 .. Num(c)) /\ Cardinality(1 .. Num(c)) = Num(c)
    BY <1>1, FS_Interval
  <2> HIDE DEF A
  <2>2. Cardinality(A) \in Nat /\ Cardinality(A) <= Num(c)
    BY <2>1, FS_Subset, FS_CardinalityType
  <2> QED BY <1>1, <2>2 DEF A, Answered
<1>4. PICK n \in 0 .. Num(c) : n = Answered(c)
  BY <1>3
<1>5. Len(FlattenSeq([r \in 1 .. n |-> Units(c, r)])) = Total(UL(c), n)
  BY <1>4, Streams DEF Traffic, Total
<1> QED BY <1>2, <1>3, <1>4, <1>5 DEF Bound

\* The actions of clients other than Send.
LEMMA ClientSteady ==
    ASSUME PoolInv, Steady, NEW c \in Client, Connect(c) \/ ReadAnswer(c) \/ Fin(c) \/ Abort(c)
    PROVE  Steady'
<1>1. /\ up' = up /\ worker' = worker /\ working' = working /\ stuck' = stuck
      /\ setup' = setup /\ sent' = sent
  BY DEF Connect, ReadAnswer, Fin, Abort, poolVars, clientVars
<1>2. /\ conn \in [Client -> Conn] /\ inb \in [Client -> Seq(Item)] /\ sent \in [Client -> Nat]
      /\ working \subseteq Worker
      /\ \A w \in working : worker[w].c \in Client /\ conn[worker[w].c].st = "open"
  BY DEF PoolInv, Traffic, Pool, Workers, OneEach
<1>3. \A d \in Client \ {c} : conn'[d] = conn[d] /\ inb'[d] = inb[d]
  BY <1>2 DEF Connect, ReadAnswer, Fin, Abort
<1>4. \/ /\ conn'[c] = [st |-> "backlog", peer |-> "on"] /\ inb'[c] = << >>
         /\ conn[c].st # "open" /\ Bound(c, sent[c])
      \/ conn'[c] = conn[c] /\ inb'[c] = inb[c]
      \/ /\ conn[c].st = "open" /\ conn[c].peer = "on" /\ conn'[c].st = "open"
         /\ conn'[c].peer = "fin" /\ inb'[c] = inb[c]
      \/ conn[c].st = "open" /\ conn'[c].st = "open" /\ conn'[c].peer = "rst" /\ inb'[c] = << >>
  <2>1. CASE Connect(c)
    <3>1. conn'[c] = [st |-> "backlog", peer |-> "on"] /\ inb'[c] = << >>
      BY <1>2, <2>1 DEF Connect
    <3>2. conn[c].st # "open" /\ Bound(c, sent[c])
      <4>1. CASE conn[c].st = "idle"
        BY <4>1, WholeRequests DEF PoolInv, Steady, Begins
      <4>2. CASE /\ conn[c].st = "closed"
                 /\ sent[c] = Len(FlattenSeq([r \in 1 .. Answered(c) |-> Units(c, r)]))
        BY <4>2, WholeRequests DEF PoolInv
      <4> QED BY <2>1, <4>1, <4>2 DEF Connect
    <3> QED BY <3>1, <3>2
  <2>2. CASE ReadAnswer(c)
    BY <2>2 DEF ReadAnswer
  <2>3. CASE Fin(c)
    BY <1>2, <2>3 DEF Fin, Conn
  <2>4. CASE Abort(c)
    BY <1>2, <2>4 DEF Abort, Conn
  <2> QED BY <2>1, <2>2, <2>3, <2>4
<1>5. ASSUME NEW d \in Client PROVE Waiting(d)' /\ Begins(d)'
  <2>1. Waiting(d) /\ Begins(d)
    BY DEF Steady
  <2>2. CASE d # c \/ (conn'[c] = conn[c] /\ inb'[c] = inb[c])
    BY <1>1, <1>3, <2>1, <2>2, ClientStays
  <2>3. CASE d = c /\ inb'[c] = << >> /\ (conn'[c].st = "backlog" => Bound(c, sent[c]))
             /\ conn'[c].st # "idle"
    <3>1. Bound(c, sent[c])' <=> Bound(c, sent[c])
      BY <1>1 DEF Bound, UL, Num, Requests, Asked
    <3>2. Len(<< >>) = 0 /\ sent[c] \in Nat
      BY <1>2
    <3>3. Waiting(d)'
      BY <1>1, <2>3, <3>2 DEF Waiting
    <3>4. Begins(d)'
      BY <1>1, <2>3, <3>1 DEF Begins
    <3> QED BY <3>3, <3>4
  <2>4. CASE d = c /\ inb'[c] = inb[c] /\ conn'[c].st = "open" /\ conn'[c].peer = "fin"
    <3>1. Stream(d)' = Stream(d)
      BY <1>1, StreamStays
    <3>2. Waiting(d)'
      BY <1>1, <2>1, <2>4, <3>1 DEF Waiting, Taken
    <3>3. Begins(d)'
      BY <2>4 DEF Begins
    <3> QED BY <3>2, <3>3
  <2> QED BY <1>4, <2>2, <2>3, <2>4
<1>6. ASSUME NEW w \in working' PROVE InStep(w)'
  <2>1. PICK d \in Client : d = worker[w].c /\ conn[d].st = "open" /\ w \in working
    BY <1>1, <1>2, <1>6
  <2>2. InStep(w)
    BY <2>1 DEF Steady
  <2>3. CASE d # c \/ conn'[c].peer # "rst"
    <3>1. inb'[d] = inb[d] /\ (conn'[d].peer # "rst" => conn[d].peer # "rst")
      BY <1>3, <1>4, <2>1, <2>3
    <3> QED BY <1>1, <2>1, <2>2, <3>1, WorkerStays
  <2>4. CASE d = c /\ conn'[c].peer = "rst"
    BY <1>1, <2>1, <2>4 DEF InStep
  <2> QED BY <2>3, <2>4
<1>7. WholeRead'
  BY <1>1, WholeStays DEF Steady
<1> QED BY <1>5, <1>6, <1>7 DEF Steady

\* Nobody has begun a request.
LEMMA InitSteady == Init => Steady
<1> SUFFICES ASSUME Init PROVE Steady
  OBVIOUS
<1>1. /\ working = {} /\ stuck = None
      /\ \A c \in Client : sent[c] = 0 /\ inb[c] = << >> /\ conn[c] = [st |-> "idle", peer |-> "on"]
  BY DEF Init
<1>2. Len(<< >>) = 0
  OBVIOUS
<1> QED BY <1>1, <1>2 DEF Steady, Waiting, Begins, WholeRead

\* A segment goes behind what waits already.
LEMMA SendSteady ==
    ASSUME PoolInv, Steady, NEW c \in Client, NEW k \in 1 .. 4, Send(c, k)
    PROVE  Steady'
<1>1. /\ conn[c] = [st |-> "open", peer |-> "on"] /\ sent[c] + k <= Len(Stream(c))
      /\ sent' = [sent EXCEPT ![c] = @ + k] /\ inb' = [inb EXCEPT ![c] = @ \o Segment(c, k)]
      /\ up' = up /\ worker' = worker /\ working' = working /\ stuck' = stuck
      /\ conn' = conn /\ setup' = setup
  BY DEF Send, poolVars
<1>2. Traffic /\ inb \in [Client -> Seq(Item)] /\ sent \in [Client -> Nat]
      /\ \A w \in working : worker[w].c \in Client
  BY DEF PoolInv, Traffic, Pool, OneEach
<1> DEFINE b == inb[c]  s == Segment(c, k)  x == b \o s
<1>3. s \in Seq(Item) /\ Len(s) = k /\ \A i \in 1 .. k : s[i] = Stream(c)[sent[c] + i]
  BY <1>1, <1>2, SegmentOK
<1>4. /\ sent'[c] = sent[c] + k /\ inb'[c] = x /\ b \in Seq(Item)
      /\ \A d \in Client \ {c} : sent'[d] = sent[d] /\ inb'[d] = inb[d]
  BY <1>1, <1>2
<1>5. Waiting(c) /\ Begins(c)
  BY DEF Steady
<1> HIDE DEF s
<1>6. /\ x \in Seq(Item) /\ Len(x) = Len(b) + k /\ Len(b) \in Nat
      /\ \A i \in 1 .. Len(b) + k : x[i] = IF i <= Len(b) THEN b[i] ELSE s[i - Len(b)]
  <2> HIDE DEF b
  <2> QED BY <1>3, <1>4, ConcatProperties DEF x
<1> HIDE DEF x
<1>7. Taken(c)' = Taken(c) /\ Taken(c) = sent[c] - Len(b) /\ Taken(c) \in Nat
  BY <1>2, <1>4, <1>5, <1>6 DEF Taken, Waiting
<1>8. Waiting(c)'
  <2>1. Len(inb'[c]) <= sent'[c]
    BY <1>2, <1>4, <1>5, <1>6 DEF Waiting
  <2>2. ASSUME NEW i \in 1 .. Len(inb'[c]) PROVE inb'[c][i] = Stream(c)[Taken(c) + i]
    <3>1. i \in 1 .. Len(b) + k /\ i \in Nat
      BY <1>4, <1>6
    <3>2. CASE i <= Len(b)
      <4>1. i \in 1 .. Len(inb[c])
        BY <3>1, <3>2
      <4>2. inb'[c][i] = inb[c][i]
        BY <1>4, <1>6, <3>1, <3>2
      <4> QED BY <1>5, <4>1, <4>2 DEF Waiting
    <3>3. CASE ~(i <= Len(b))
      <4>1. PICK j : j = i - Len(b)
        OBVIOUS
      <4>4. PICK l \in Nat : l = Len(b)
        BY <1>6
      <4>5. PICK u \in Nat : u = sent[c]
        BY <1>2
      <4>6. i \in 1 .. l + k /\ ~(i <= l) /\ j = i - l /\ Taken(c) = u - l
        BY <1>7, <3>1, <3>3, <4>1, <4>4, <4>5
      <4>2. j \in 1 .. k /\ sent[c] + j = Taken(c) + i
        <5>1. j \in 1 .. k /\ u + j = u - l + i
          BY ONLY <4>6, l \in Nat, u \in Nat, k \in 1 .. 4, SMT
        <5> QED BY ONLY <4>5, <4>6, <5>1
      <4>3. inb'[c][i] = s[j]
        BY <1>4, <1>6, <3>1, <3>3, <4>1
      <4> QED BY <1>3, <4>2, <4>3
    <3> QED BY <3>2, <3>3
  <2>3. Stream(c)' = Stream(c)
    BY <1>1, StreamStays
  <2> QED BY <1>7, <2>1, <2>2, <2>3 DEF Waiting
<1>9. ASSUME NEW d \in Client PROVE Waiting(d)' /\ Begins(d)'
  <2>1. CASE d = c
    <3>1. Begins(c)'
      BY <1>1 DEF Begins
    <3> QED BY <1>8, <2>1, <3>1
  <2>2. CASE d # c
    BY <1>1, <1>4, <2>2, ClientStays DEF Steady
  <2> QED BY <2>1, <2>2
<1>10. ASSUME NEW w \in working' PROVE InStep(w)'
  <2>1. PICK d \in Client : d = worker[w].c
    BY <1>1, <1>2, <1>10
  <2>2. w \in working /\ InStep(w)
    BY <1>1, <1>10 DEF Steady
  <2>3. CASE d # c
    BY <1>1, <1>4, <2>1, <2>2, <2>3, WorkerStays
  <2>4. CASE d = c
    <3>1. UL(c)' = UL(c) /\ Num(c)' = Num(c)
      BY <1>1 DEF UL, Num, Requests, Asked
    <3>2. worker[w]' = worker[w] /\ worker[w].c = c /\ conn'[c] = conn[c] /\ up' = up
      BY <1>1, <2>1, <2>4
    <3>3. Total(UL(c), worker[w].req.r - 1)' = Total(UL(c), worker[w].req.r - 1)
      BY <3>1, <3>2 DEF Total, Runs, Part
    <3> QED BY <1>7, <2>2, <3>1, <3>2, <3>3 DEF InStep, AtUnit, Bound
  <2> QED BY <2>3, <2>4
<1>11. WholeRead'
  BY <1>1, WholeStays DEF Steady
<1> QED BY <1>9, <1>10, <1>11 DEF Steady

\* An accepted connection is between two requests, and so is its worker.
LEMMA AcceptSteady ==
    ASSUME PoolInv, Steady, NEW c \in Client, Accept(c)
    PROVE  Steady'
<1>1. /\ stuck = None /\ stuck' = None /\ conn[c].st = "backlog"
      /\ conn' = [conn EXCEPT ![c].st = "open"] /\ UNCHANGED <<up, inb, sent, setup>>
  BY DEF Accept, clientVars
<1>2. PICK w \in Worker :
        /\ leisure # << >> => w = Head(leisure)
        /\ leisure = << >> => w = made + 1
        /\ worker' = [worker EXCEPT ![w] = [@ EXCEPT !.c = c, !.write = FALSE, !.resigned = FALSE]]
        /\ working' = working \cup {w}
  BY DEF Accept
<1>3. /\ Workers /\ Lists /\ OneEach /\ Rested /\ conn \in [Client -> Conn]
      /\ worker \in [Worker -> WorkerRec] /\ working \subseteq Worker /\ Worker \subseteq Nat
      /\ leisure \in Seq(Worker) /\ made \in Nat /\ sent \in [Client -> Nat]
  BY WorkerNumbers DEF PoolInv, Pool, Traffic, Workers, Lists
<1>4. w \notin working
  <2>1. CASE leisure # << >>
    <3>1. Head(leisure) \in ToSet(leisure)
      BY <1>3, <2>1, ListShrinks DEF Lists
    <3> HIDE <2>1
    <3> QED BY <1>2, <1>3, <2>1, <3>1 DEF Lists
  <2>2. CASE leisure = << >>
    BY <1>2, <1>3, <2>2 DEF Lists
  <2> QED BY <2>1, <2>2
<1>5. worker'[w].c = c /\ worker'[w].req = NoReq /\ \A v \in working : worker'[v] = worker[v]
  <2>1. worker[w] \in WorkerRec /\ worker[w].req = NoReq
    BY <1>3, <1>4 DEF Rested
  <2> DEFINE k == [worker[w] EXCEPT !.c = c, !.write = FALSE, !.resigned = FALSE]
  <2>2. k.c = c /\ k.req = NoReq
    BY <2>1 DEF WorkerRec
  <2>3. worker' = [worker EXCEPT ![w] = k]
    BY <1>2
  <2> HIDE DEF k
  <2> QED BY <1>3, <1>4, <2>2, <2>3
<1>6. conn'[c].st = "open" /\ conn'[c].peer = conn[c].peer /\ \A d \in Client \ {c} : conn'[d] = conn[d]
  BY <1>1, <1>3 DEF Conn
<1>7. Waiting(c) /\ Begins(c) /\ inb[c] = << >> /\ Bound(c, sent[c])
  BY <1>1 DEF Steady, Begins
<1>8. Stream(c)' = Stream(c) /\ UL(c)' = UL(c) /\ Num(c)' = Num(c) /\ Taken(c)' = Taken(c)
      /\ Taken(c) = sent[c]
  <2>1. Len(<< >>) = 0 /\ sent[c] \in Nat
    BY <1>3
  <2>2. Taken(c) = sent[c]
    BY <1>7, <2>1 DEF Taken
  <2> QED BY <1>1, <2>2 DEF Stream, UL, Num, Requests, Units, Asked, Taken
<1>9. ASSUME NEW d \in Client PROVE Waiting(d)' /\ Begins(d)'
  <2>1. CASE d = c
    BY <1>1, <1>6, <1>7, <1>8, <2>1 DEF Waiting, Begins
  <2>2. CASE d # c
    BY <1>1, <1>6, <2>2, ClientStays DEF Steady
  <2> QED BY <2>1, <2>2
<1>10. ASSUME NEW v \in working' PROVE InStep(v)'
  <2>1. CASE v = w
    <3>1. AtUnit(c, NoReq)'
      BY <1>7, <1>8 DEF AtUnit, Bound
    <3> QED BY <1>5, <2>1, <3>1 DEF InStep, AtUnit, Bound
  <2>2. CASE v # w
    <3>1. v \in working /\ worker'[v] = worker[v] /\ worker[v].c \in Client /\ worker[v].c # c
          /\ InStep(v)
      BY <1>1, <1>2, <1>3, <1>5, <1>10, <2>2 DEF OneEach, Steady
    <3> QED BY <1>1, <1>6, <3>1, WorkerStays
  <2> QED BY <2>1, <2>2
<1>11. WholeRead'
  BY <1>1 DEF WholeRead
<1> QED BY <1>9, <1>10, <1>11 DEF Steady

\* The request a worker reads, with the chunk it has received, is how far the
\* server is in the client's stream; read to its end it ends between requests.
LEMMA ChunkRead ==
    ASSUME PoolInv, Steady, up, NEW w \in working, NEW c \in Client, c = worker[w].c,
           inb[c] # << >>, worker[w].req # NoReq \/ HasHeader(inb[c]),
           NEW q, q = Parsed(worker[w].req, inb[c])
    PROVE  /\ q \in Asking /\ q # NoReq /\ ReqOK(c, q)
           /\ sent[c] = Total(UL(c), q.r - 1) + Hdr + q.len
           /\ worker[w].req # NoReq => q.r = worker[w].req.r /\ q.file = worker[w].req.file
                                       /\ q.written = worker[w].req.written
           /\ worker[w].req # NoReq => q.len >= worker[w].req.len + 1
           /\ worker[w].req = NoReq => ~q.file /\ q.written = 0 /\ Taken(c) = Total(UL(c), q.r - 1)
           /\ Complete(c, q) => sent[c] = Total(UL(c), q.r) /\ Bound(c, sent[c])
<1> DEFINE o == worker[w].req  b == inb[c]
<1>1. /\ w \in Worker /\ worker[w] \in WorkerRec /\ ReqOK(c, o) /\ o \in {NoReq} \cup Asking
      /\ conn[c].peer # "rst"
  <2>1. w \in Worker /\ worker[w] \in WorkerRec /\ ReqOK(c, o)
    BY DEF PoolInv, Pool, Workers
  <2>2. o \in {NoReq} \cup Asking
    BY <2>1 DEF WorkerRec
  <2>3. conn[c].peer # "rst"
    BY DEF Steady, Begins
  <2> QED BY <2>1, <2>2, <2>3
<1>2. /\ b \in Seq(Item) /\ Len(b) \in Nat \ {0} /\ sent[c] \in Nat /\ Len(b) <= sent[c]
      /\ Taken(c) = sent[c] - Len(b) /\ \A i \in 1 .. Len(b) : b[i] = Stream(c)[Taken(c) + i]
      /\ AtUnit(c, o) /\ sent[c] <= Len(Stream(c))
  <2>1. b \in Seq(Item) /\ b # << >>
    BY DEF PoolInv, Traffic
  <2>2. Len(b) \in Nat \ {0}
    <3> HIDE DEF b
    <3> QED BY <2>1
  <2>3. Waiting(c) /\ AtUnit(c, o)
    BY <1>1 DEF Steady, InStep
  <2> QED BY <2>1, <2>2, <2>3 DEF PoolInv, Traffic, Waiting, Taken
<1>3. /\ Num(c) \in Nat /\ Requests(c) = 1 .. Num(c) /\ InLine(UL(c), Num(c))
      /\ Stream(c) = Runs(UL(c), Num(c))
      /\ \A r \in 1 .. Num(c) : Asked(c, r).size \in Nat /\ UL(c)[r] = Hdr + Asked(c, r).body
                                /\ Asked(c, r).body \in Nat
  BY Script, Streams DEF PoolInv, Traffic, Request
<1>k. PICK k \in Nat \ {0} : k = Len(b)
  BY <1>2
<1>l. /\ sent[c] \in Nat /\ k <= sent[c] /\ Taken(c) = sent[c] - k /\ AtUnit(c, o)
      /\ \A i \in 1 .. k : b[i] = Stream(c)[Taken(c) + i]
  BY <1>2, <1>k
<1> HIDE DEF b
<1>4. ASSUME o # NoReq
      PROVE  /\ q \in Asking /\ q # NoReq /\ ReqOK(c, q)
             /\ sent[c] = Total(UL(c), q.r - 1) + Hdr + q.len
             /\ q.r = o.r /\ q.file = o.file /\ q.written = o.written /\ q.len >= o.len + 1
  <2>1. o \in Asking /\ o.r \in 1 .. Num(c) /\ q = [o EXCEPT !.len = o.len + k]
    BY <1>1, <1>3, <1>4, <1>k DEF Parsed, ReqOK, b
  <2>2. /\ q \in Asking /\ q.r = o.r /\ q.len = o.len + k /\ q.file = o.file
        /\ q.written = o.written /\ o.len \in Nat /\ o.r \in Nat
    BY <2>1 DEF Asking
  <2>3. q # NoReq
    BY <2>2 DEF Asking, NoReq
  <2>4. ReqOK(c, q)
    BY <1>1, <1>4, <2>2 DEF ReqOK, Asking
  <2>5. Total(UL(c), o.r - 1) \in Nat
    <3>1. o.r - 1 \in 0 .. Num(c)
      BY <1>3, <2>1
    <3> QED BY <1>3, <3>1 DEF InLine
  <2>6. sent[c] = Total(UL(c), q.r - 1) + Hdr + q.len
    <3>1. Taken(c) = Total(UL(c), o.r - 1) + Hdr + o.len
      BY <1>l, <1>4 DEF AtUnit
    <3>2. PICK t \in Nat : t = Total(UL(c), o.r - 1)
      BY <2>5
    <3>3. t = Total(UL(c), q.r - 1)
      BY <2>2, <3>2
    <3>4. PICK x \in Nat : x = o.len
      BY <2>2
    <3>5. sent[c] - k = t + Hdr + x /\ q.len = x + k
      BY <1>l, <2>2, <3>1, <3>2, <3>4
    <3>6. sent[c] = t + Hdr + q.len
      <4>1. PICK v \in Nat : v = sent[c]
        BY <1>l
      <4>2. v - k = t + 2 + x /\ q.len = x + k
        BY <3>5, <4>1 DEF Hdr
      <4>3. v = t + 2 + q.len
        BY ONLY <4>2, v \in Nat, k \in Nat, t \in Nat, x \in Nat, SMT
      <4> QED BY <4>1, <4>3 DEF Hdr
    <3> QED BY <3>3, <3>6
  <2>7. q.len >= o.len + 1
    BY <2>2
  <2> QED BY <1>4, <2>1, <2>2, <2>3, <2>4, <2>6, <2>7
<1>5. ASSUME o = NoReq
      PROVE  /\ q \in Asking /\ q # NoReq /\ ReqOK(c, q)
             /\ sent[c] = Total(UL(c), q.r - 1) + Hdr + q.len
             /\ ~q.file /\ q.written = 0 /\ Taken(c) = Total(UL(c), q.r - 1)
  <2>1. PICK n \in 0 .. Num(c) : Taken(c) = Total(UL(c), n)
    BY <1>2, <1>5 DEF AtUnit, Bound
  <2>2. Total(UL(c), n) \in Nat /\ Total(UL(c), Num(c)) \in Nat /\ Len(Stream(c)) = Total(UL(c), Num(c))
    BY <1>3, <2>1 DEF InLine
  <2>3. n # Num(c) /\ n + 1 \in 1 .. Num(c)
    <3>1. n # Num(c)
      BY <1>2, <1>l, <2>1, <2>2
    <3> QED BY <1>3, <3>1
  <2>4. PICK r \in 1 .. Num(c) : r = n + 1
    BY <2>3
  <2>5. r - 1 = n /\ UL(c)[r] = Hdr + Asked(c, r).body /\ Asked(c, r).body \in Nat
        /\ \A p \in 1 .. UL(c)[r] : Stream(c)[Taken(c) + p] = <<r, p>>
    <3>1. r - 1 = n
      BY <2>1, <2>4
    <3>2. \A p \in 1 .. UL(c)[r] : Runs(UL(c), Num(c))[Total(UL(c), r - 1) + p] = <<r, p>>
      BY <1>3 DEF InLine
    <3> QED BY <1>3, <2>1, <3>1, <3>2
  <2>6. b[1] = <<r, 1>>
    <3>1. b[1] = Stream(c)[Taken(c) + 1]
      BY <1>l
    <3>2. 1 \in 1 .. UL(c)[r]
      BY <2>5 DEF Hdr
    <3> QED BY <2>5, <3>1, <3>2
  <2>7. k >= Hdr
    <3>1. SUFFICES ASSUME k = 1 PROVE FALSE
      BY DEF Hdr
    <3>2. PICK i \in DOMAIN b : b[i][2] = Hdr
      BY <1>5 DEF HasHeader, b
    <3>3. DOMAIN b = 1 .. k
      BY <1>2, <1>k
    <3>4. i = 1
      BY <3>1, <3>2, <3>3
    <3> QED BY <2>6, <3>2, <3>4 DEF Hdr
  <2>8. q = [NewReq EXCEPT !.r = r, !.len = k - Hdr]
    BY <1>5, <1>k, <2>6 DEF Parsed, BodyOf, b
  <2>9. /\ q \in Asking /\ q.r = r /\ q.len = k - Hdr /\ ~q.file /\ q.written = 0
    <3>1. PICK j \in Nat : j = k - Hdr
      BY <2>7 DEF Hdr
    <3>2. q = [r |-> r, len |-> j, file |-> FALSE, written |-> 0]
      BY <2>8, <3>1 DEF NewReq
    <3>3. r \in Nat \ {0}
      BY <1>3
    <3>4. q \in Asking /\ q.r = r /\ q.len = j /\ ~q.file /\ q.written = 0
      BY <3>2, <3>3 DEF Asking
    <3> QED BY <3>1, <3>4
  <2>10. q # NoReq
    BY <2>9 DEF Asking, NoReq
  <2>11. ReqOK(c, q)
    <3>1. 0 \in 0 .. Asked(c, r).size
      BY <1>3
    <3> QED BY <1>3, <2>9, <3>1 DEF ReqOK, Asking
  <2>12. sent[c] = Total(UL(c), q.r - 1) + Hdr + q.len
    <3>1. q.r - 1 = n
      BY <2>5, <2>9
    <3>2. PICK t \in Nat : t = Total(UL(c), n)
      BY <2>2
    <3>3. sent[c] - k = t /\ q.len = k - Hdr
      BY <1>l, <2>1, <2>9, <3>2
    <3>4. sent[c] = t + Hdr + q.len
      BY <1>l, <3>3 DEF Hdr
    <3> QED BY <3>1, <3>2, <3>4
  <2>13. Taken(c) = Total(UL(c), q.r - 1)
    BY <2>1, <2>5, <2>9
  <2> QED BY <1>5, <2>9, <2>10, <2>11, <2>12, <2>13
<1>6. /\ q \in Asking /\ q # NoReq /\ ReqOK(c, q)
      /\ sent[c] = Total(UL(c), q.r - 1) + Hdr + q.len
      /\ o # NoReq => q.r = o.r /\ q.file = o.file /\ q.written = o.written /\ q.len >= o.len + 1
      /\ o = NoReq => ~q.file /\ q.written = 0 /\ Taken(c) = Total(UL(c), q.r - 1)
  BY <1>4, <1>5
<1>7. ASSUME Complete(c, q) PROVE sent[c] = Total(UL(c), q.r) /\ Bound(c, sent[c])
  <2>1. q.r \in 1 .. Num(c) /\ q.len = Asked(c, q.r).body
    BY <1>3, <1>6, <1>7 DEF ReqOK, Complete
  <2>2. Total(UL(c), q.r) = Total(UL(c), q.r - 1) + UL(c)[q.r] /\ UL(c)[q.r] = Hdr + Asked(c, q.r).body
    BY <1>3, <2>1 DEF InLine
  <2>3. Total(UL(c), q.r - 1) \in Nat /\ Asked(c, q.r).body \in Nat
    <3>1. q.r - 1 \in 0 .. Num(c)
      BY <1>3, <2>1
    <3> QED BY <1>3, <2>1, <3>1 DEF InLine
  <2>4. sent[c] = Total(UL(c), q.r)
    BY <1>6, <2>1, <2>2, <2>3 DEF Hdr
  <2>5. q.r \in 0 .. Num(c)
    BY <1>3, <2>1
  <2> QED BY <2>4, <2>5 DEF Bound
<1> QED BY <1>6, <1>7

\* What a callback does to the sockets keeps their types and the kernel's limit.
LEMMA TrafficKept ==
    ASSUME Traffic, UNCHANGED <<sent, got, setup>>, up' \in BOOLEAN, conn' \in [Client -> Conn],
           NEW c \in Client, inb' = inb \/ inb' = [inb EXCEPT ![c] = << >>],
           NEW x \in Seq(Item), Len(x) <= Cap, out' = out \/ out' = [out EXCEPT ![c] = x]
    PROVE  Traffic'
<1>1. inb' \in [Client -> Seq(Item)] /\ out' \in [Client -> Seq(Item)]
  <2>1. << >> \in Seq(Item)
    OBVIOUS
  <2> QED BY <2>1 DEF Traffic
<1>2. \A d \in Client : Stream(d)' = Stream(d)
  BY StreamStays
<1>3. \A d \in Client : out'[d] = out[d] \/ out'[d] = x
  BY DEF Traffic
<1>4. \A d \in Client : Len(out'[d]) <= Cap /\ sent'[d] <= Len(Stream(d)')
  BY <1>2, <1>3 DEF Traffic
<1> QED BY <1>1, <1>4 DEF Traffic

\* How a worker's going on leaves the clients and the other workers in step.
LEMMA WentSteady ==
    ASSUME PoolInv, Steady, Pool', NEW w \in working, NEW c \in Client, c = worker[w].c,
           NEW q, NEW write, NEW n \in Nat, Went(w, q, write, n),
           up' => up, setup' = setup, sent' = sent,
           inb' = inb \/ inb' = [inb EXCEPT ![c] = << >>],
           n = 0 /\ up' /\ conn[c].peer # "rst" => AtUnit(c, q)'
    PROVE  /\ \A d \in Client : Waiting(d)' /\ Begins(d)'
           /\ \A v \in working' : InStep(v)'
<1>1. /\ conn \in [Client -> Conn] /\ inb \in [Client -> Seq(Item)] /\ sent \in [Client -> Nat]
      /\ \A v \in working : worker[v].c \in Client /\ (worker[v].c = c => v = w)
      /\ conn[c].st = "open" /\ working \subseteq Worker
  BY DEF PoolInv, Traffic, Pool, Workers, OneEach
<1>2. /\ \A v \in Worker \ {w} : worker'[v] = worker[v]
      /\ worker'[w].c = (IF n > 0 THEN None ELSE c) /\ worker'[w].req = q
      /\ working' = (IF n > 0 THEN working \ {w} ELSE working)
      /\ \A d \in Client : conn'[d] = IF n > 0 /\ d = c THEN [st |-> "closed", peer |-> conn[d].peer]
                                      ELSE conn[d]
  BY DEF Went
<1>3. /\ inb'[c] = inb[c] \/ inb'[c] = << >>
      /\ \A d \in Client \ {c} : inb'[d] = inb[d] /\ conn'[d] = conn[d]
  BY <1>1, <1>2
<1>4. ASSUME NEW d \in Client PROVE Waiting(d)' /\ Begins(d)'
  <2>1. Waiting(d) /\ Begins(d)
    BY DEF Steady
  <2>2. CASE d # c
    BY <1>3, <2>1, <2>2, ClientStays
  <2>3. CASE d = c
    <3>1. Stream(c)' = Stream(c)
      BY StreamStays
    <3>2. Len(<< >>) = 0 /\ sent[c] \in Nat
      BY <1>1
    <3>3. Waiting(c)'
      <4>1. CASE inb'[c] = << >>
        BY <3>2, <4>1 DEF Waiting
      <4>2. CASE inb'[c] = inb[c]
        BY <2>1, <2>3, <3>1, <4>2 DEF Waiting, Taken
      <4> QED BY <1>3, <4>1, <4>2
    <3>4. Begins(c)'
      <4>1. conn'[c].st \in {"open", "closed"} /\ conn'[c].peer = conn[c].peer
        <5>1. conn'[c] = [st |-> "closed", peer |-> conn[c].peer] \/ conn'[c] = conn[c]
          BY <1>2
        <5> QED BY <1>1, <5>1
      <4>2. conn[c].peer = "rst" => inb'[c] = << >>
        BY <1>3, <2>1, <2>3 DEF Begins
      <4> QED BY <4>1, <4>2 DEF Begins
    <3> QED BY <2>3, <3>3, <3>4
  <2> QED BY <2>2, <2>3
<1>5. ASSUME NEW v \in working' PROVE InStep(v)'
  <2>1. v \in working
    BY <1>2, <1>5
  <2>2. CASE v # w
    <3>1. worker'[v] = worker[v] /\ worker[v].c \in Client /\ worker[v].c # c /\ InStep(v)
      BY <1>1, <1>2, <2>1, <2>2 DEF Steady
    <3> QED BY <1>3, <3>1, WorkerStays
  <2>3. CASE v = w
    <3>0. ~(n > 0)
      BY <1>2, <1>5, <2>3
    <3>1. n = 0 /\ worker'[w].c = c /\ worker'[w].req = q /\ conn'[c] = conn[c]
      BY <1>2, <3>0
    <3>2. up' /\ conn'[c].peer # "rst" => AtUnit(c, q)'
      BY <3>1
    <3> QED BY <2>3, <3>1, <3>2 DEF InStep, AtUnit, Bound
  <2> QED BY <2>2, <2>3
<1> QED BY <1>4, <1>5

\* The process dies in a callback: nothing else of the server's changes.
LEMMA Died ==
    ASSUME PoolInv, Steady, NEW c \in Client, Die, UNCHANGED <<sent, got, setup>>,
           inb' = inb \/ inb' = [inb EXCEPT ![c] = << >>]
    PROVE  PoolInv' /\ Steady'
<1>1. /\ up' = FALSE /\ conn' = conn /\ out' = out /\ stuck' = stuck /\ worker' = worker
      /\ working' = working /\ UNCHANGED poolVars
  BY DEF Die, poolVars
<1>2. Traffic /\ << >> \in Seq(Item) /\ Len(<< >>) <= Cap
  BY HttpAssumption DEF PoolInv
<1>3. Traffic'
  <2>1. up' \in BOOLEAN /\ conn' \in [Client -> Conn]
    BY <1>1, <1>2 DEF Traffic
  <2> QED BY <1>1, <1>2, <2>1, TrafficKept
<1>4. Pool' /\ StuckOK'
  BY <1>1, PoolStays DEF PoolInv
<1>5. ASSUME NEW d \in Client PROVE Waiting(d)' /\ Begins(d)'
  <2>1. Waiting(d) /\ Begins(d) /\ inb \in [Client -> Seq(Item)] /\ sent[d] \in Nat
    BY <1>2 DEF Steady, Traffic
  <2>2. CASE inb'[d] = inb[d]
    BY <1>1, <2>1, <2>2, ClientStays
  <2>3. CASE inb'[d] = << >>
    <3>1. Len(<< >>) = 0
      OBVIOUS
    <3>2. Waiting(d)'
      BY <2>1, <2>3, <3>1 DEF Waiting
    <3>3. Num(d)' = Num(d) /\ UL(d)' = UL(d)
      BY DEF Num, UL, Requests, Asked
    <3>4. Begins(d)'
      BY <1>1, <2>1, <2>3, <3>3 DEF Begins, Bound
    <3> QED BY <3>2, <3>4
  <2> QED BY <2>1, <2>2, <2>3
<1>6. Steady'
  <2>1. WholeRead'
    BY <1>1, WholeStays DEF Steady
  <2> QED BY <1>1, <1>5, <2>1 DEF Steady, InStep
<1> QED BY <1>3, <1>4, <1>6 DEF PoolInv

\* A worker goes on in a callback: all but what __write_body is at.
LEMMA Served ==
    ASSUME PoolInv, Steady, NEW w \in working, NEW c \in Client, c = worker[w].c,
           NEW q \in {NoReq} \cup Asking, ReqOK(c, q), NEW write \in BOOLEAN, NEW n \in Nat,
           n > 0 => q = NoReq, Goes(w, q, write, n),
           up' = up, UNCHANGED <<sent, got, setup>>,
           inb' = inb \/ inb' = [inb EXCEPT ![c] = << >>],
           NEW x \in Seq(Item), Len(x) <= Cap, out' = out \/ out' = [out EXCEPT ![c] = x],
           n = 0 /\ up /\ conn[c].peer # "rst" => AtUnit(c, q)'
    PROVE  /\ Traffic' /\ Pool' /\ Went(w, q, write, n)
           /\ \A d \in Client : Waiting(d)' /\ Begins(d)'
           /\ \A v \in working' : InStep(v)'
<1>1. Traffic /\ Pool /\ conn \in [Client -> Conn] /\ up \in BOOLEAN
  BY DEF PoolInv, Traffic
<1>2. Pool' /\ conn' \in [Client -> Conn] /\ Went(w, q, write, n)
  BY <1>1, GoesKeeps
<1>3. Traffic'
  BY <1>1, <1>2, TrafficKept
<1>4. /\ \A d \in Client : Waiting(d)' /\ Begins(d)'
      /\ \A v \in working' : InStep(v)'
  BY <1>2, WentSteady
<1> QED BY <1>2, <1>3, <1>4

\* A callback in which the thread is not in __write_body, nor goes into it.
LEMMA Unstuck ==
    ASSUME stuck' = None
    PROVE  StuckOK' /\ WholeRead'
  BY DEF StuckOK, WholeRead

\* The client is gone: its worker is given back.
LEMMA OnEndKeeps ==
    ASSUME PoolInv, Steady, NEW w \in Worker, OnEnd(w)
    PROVE  PoolInv' /\ Steady'
<1>1. /\ stuck = None /\ w \in working /\ up' = up /\ inb' = inb /\ out' = out /\ stuck' = stuck
      /\ UNCHANGED <<sent, got, setup>>
  BY DEF OnEnd, Awake, clientVars
<1>2. PICK c \in Client : c = worker[w].c
  BY <1>1 DEF PoolInv, Pool, OneEach
<1>3. PICK n \in Nat \ {0} : Goes(w, NoReq, FALSE, n)
  <2>1. PICK n : n = 1 + (IF worker[w].req # NoReq /\ worker[w].req.file
                          THEN Closes(c, worker[w].req) ELSE 0)
    OBVIOUS
  <2>2. n \in Nat \ {0}
    BY <2>1 DEF Closes
  <2>3. Goes(w, NoReq, FALSE, n)
    BY <1>2, <2>1 DEF OnEnd
  <2> QED BY <2>2, <2>3
<1>4. << >> \in Seq(Item) /\ Len(<< >>) <= Cap /\ NoReq \in {NoReq} \cup Asking /\ ReqOK(c, NoReq)
      /\ n # 0
  BY HttpAssumption DEF ReqOK
<1>5. /\ Traffic' /\ Pool' /\ \A d \in Client : Waiting(d)' /\ Begins(d)'
      /\ \A v \in working' : InStep(v)'
  BY <1>1, <1>2, <1>3, <1>4, Served, ZenonT(40)
<1>6. StuckOK' /\ WholeRead'
  BY <1>1, Unstuck
<1> QED BY <1>5, <1>6 DEF PoolInv, Steady

\* The room in a client's socket.
LEMMA RoomIs ==
    ASSUME Traffic, NEW c \in Client
    PROVE  out[c] \in Seq(Item) /\ Len(out[c]) \in Nat /\ Cap \in Nat
           /\ Room(c) \in Nat /\ Room(c) = Cap - Len(out[c])
<1>1. out[c] \in Seq(Item) /\ Len(out[c]) <= Cap /\ Cap \in Nat
  BY HttpAssumption DEF Traffic
<1>2. Len(out[c]) \in Nat
  BY <1>1, LenProperties
<1> QED BY <1>1, <1>2 DEF Room

\* One more unit in a socket that has room.
LEMMA UnitFits ==
    ASSUME Traffic, NEW c \in Client, NEW x \in Item, Room(c) > 0
    PROVE  Append(out[c], x) \in Seq(Item) /\ Len(Append(out[c], x)) <= Cap
<1> DEFINE o == out[c]
<1>1. o \in Seq(Item) /\ Len(o) \in Nat /\ Cap \in Nat /\ Cap - Len(o) > 0
  BY RoomIs
<1> HIDE DEF o
<1>2. Append(o, x) \in Seq(Item) /\ Len(Append(o, x)) = Len(o) + 1
  BY <1>1
<1>3. Len(Append(o, x)) <= Cap
  BY <1>1, <1>2
<1> QED BY <1>2, <1>3 DEF o

\* The headers of an answer fit, or are lost.
LEMMA HeaderFits ==
    ASSUME Traffic, NEW c \in Client, NEW r \in Nat
    PROVE  WithHeader(c, r) \in Seq(Item) /\ Len(WithHeader(c, r)) <= Cap
<1>1. <<r, 1>> \in Item
  BY DEF Item
<1>2. CASE Room(c) > 0
  <2>1. PICK x \in Item : x = <<r, 1>>
    BY <1>1
  <2> QED BY <1>2, <2>1, UnitFits DEF WithHeader
<1>3. CASE ~(Room(c) > 0)
  BY <1>3, RoomIs DEF WithHeader, Traffic
<1> QED BY <1>2, <1>3

\* Where the server is when it has taken all that had come.
LEMMA AllTaken ==
    ASSUME NEW c \in Client, sent[c] \in Nat, sent' = sent, setup' = setup, inb'[c] = << >>, NEW q,
           IF q = NoReq THEN Bound(c, sent[c]) ELSE sent[c] = Total(UL(c), q.r - 1) + Hdr + q.len
    PROVE  AtUnit(c, q)'
<1>1. Len(<< >>) = 0
  OBVIOUS
<1>2. Taken(c)' = sent[c]
  BY <1>1 DEF Taken
<1>3. UL(c)' = UL(c) /\ Num(c)' = Num(c)
  BY DEF UL, Num, Requests, Asked
<1> QED BY <1>2, <1>3 DEF AtUnit, Bound

\* A worker takes all that waits: half a request, a whole one that it answers, or
\* a whole one that leaves it in __write_response_body.
LEMMA OnReadKeeps ==
    ASSUME PoolInv, Steady, NEW w \in Worker, OnRead(w)
    PROVE  PoolInv' /\ Steady'
<1>1. /\ up /\ stuck = None /\ w \in working /\ UNCHANGED <<sent, got, setup>>
  BY DEF OnRead, Awake, clientVars
<1>2. PICK c \in Client : c = worker[w].c
  BY <1>1 DEF PoolInv, Pool, OneEach
<1>3. PICK q : q = Parsed(worker[w].req, inb[c])
  OBVIOUS
<1>4. PICK write : write = worker[w].write
  OBVIOUS
<1>5. /\ inb[c] # << >> /\ inb' = [inb EXCEPT ![c] = << >>]
      /\ \/ Die
         \/ /\ worker[w].req # NoReq \/ HasHeader(inb[c])
            /\ Goes(w, q, write, 0) /\ UNCHANGED <<up, out, stuck>>
         \/ /\ worker[w].req # NoReq \/ HasHeader(inb[c])
            /\ Complete(c, q) /\ Respond(w, q) /\ UNCHANGED up
  BY <1>2, <1>3, <1>4 DEF OnRead
<1>6. /\ Traffic /\ inb'[c] = << >> /\ sent[c] \in Nat /\ write \in BOOLEAN
  BY <1>1, <1>4, <1>5 DEF PoolInv, Traffic, Pool, Workers, WorkerRec
<1>7. CASE Die
  BY <1>1, <1>5, <1>7, Died
<1>8. CASE /\ worker[w].req # NoReq \/ HasHeader(inb[c])
           /\ ~Die
  <2>1. /\ q \in Asking /\ q # NoReq /\ ReqOK(c, q)
        /\ sent[c] = Total(UL(c), q.r - 1) + Hdr + q.len
        /\ Complete(c, q) => Bound(c, sent[c])
    BY <1>1, <1>2, <1>3, <1>5, <1>8, ChunkRead
  <2>2. AtUnit(c, q)'
    BY <1>1, <1>6, <2>1, AllTaken
  <2>3. q \in {NoReq} \cup Asking /\ q.r \in Nat
    BY <2>1 DEF Asking
  <2>4. CASE Goes(w, q, write, 0) /\ UNCHANGED <<up, out, stuck>>
    <3>1. PICK x \in Seq(Item) : Len(x) <= Cap
      BY <1>6, RoomIs DEF Traffic
    <3>2. PICK n \in Nat : n = 0
      OBVIOUS
    <3>3. /\ Goes(w, q, write, n) /\ ~(n > 0) /\ up' = up /\ out' = out /\ UNCHANGED <<sent, got, setup>>
          /\ inb' = [inb EXCEPT ![c] = << >>]
      BY <1>1, <1>5, <2>4, <3>2
    <3>4. /\ Traffic' /\ Pool' /\ \A d \in Client : Waiting(d)' /\ Begins(d)'
          /\ \A v \in working' : InStep(v)'
      <4>1. w \in working /\ ReqOK(c, q) /\ q \in {NoReq} \cup Asking /\ write \in BOOLEAN
        BY <1>1, <1>6, <2>1, <2>3
      <4> QED BY <1>2, <2>2, <3>1, <3>3, <4>1, Served
    <3>5. StuckOK' /\ WholeRead'
      BY <1>1, <2>4, Unstuck
    <3> QED BY <3>4, <3>5 DEF PoolInv, Steady
  <2>5. CASE Complete(c, q) /\ Respond(w, q) /\ UNCHANGED up
    <3>1. PICK x : x = WithHeader(c, q.r)
      OBVIOUS
    <3>2. x \in Seq(Item) /\ Len(x) <= Cap
      BY <1>6, <2>3, <3>1, HeaderFits
    <3>3. PICK e : e = (write \/ WaitsWritable(Asked(c, q.r)))
      OBVIOUS
    <3>4. /\ out' = [out EXCEPT ![c] = x]
          /\ \/ Goes(w, [q EXCEPT !.file = TRUE], e, 0) /\ stuck' = stuck
             \/ Goes(w, NoReq, e, Closes(c, q)) /\ stuck' = stuck
             \/ Goes(w, q, e, 0) /\ stuck' = [w |-> w, n |-> 0]
      BY <1>2, <1>4, <2>5, <3>1, <3>3 DEF Respond
    <3>5. e \in BOOLEAN /\ 0 \in Nat /\ ~(0 > 0) /\ NoReq \in {NoReq} \cup Asking /\ ReqOK(c, NoReq)
      BY <3>3 DEF ReqOK
    <3>6. CASE Goes(w, NoReq, e, Closes(c, q)) /\ stuck' = stuck
      <4>1. PICK n \in Nat : n = Closes(c, q)
        BY DEF Closes
      <4>2. AtUnit(c, NoReq)'
        BY <1>1, <1>6, <2>1, <2>5, AllTaken
      <4>3. /\ Traffic' /\ Pool' /\ \A d \in Client : Waiting(d)' /\ Begins(d)'
            /\ \A v \in working' : InStep(v)'
        BY <1>1, <1>2, <1>5, <2>5, <3>2, <3>4, <3>5, <3>6, <4>1, <4>2, Served
      <4>4. StuckOK' /\ WholeRead'
        BY <1>1, <3>6, Unstuck
      <4> QED BY <4>3, <4>4 DEF PoolInv, Steady
    <3>7. CASE Goes(w, [q EXCEPT !.file = TRUE], e, 0) /\ stuck' = stuck
      <4>1. PICK f : f = [q EXCEPT !.file = TRUE]
        OBVIOUS
      <4>2. f \in Asking /\ f.r = q.r /\ f.len = q.len /\ f.written = q.written /\ f.file
        BY <2>1, <4>1 DEF Asking
      <4>3. f # NoReq
        BY <4>2 DEF Asking, NoReq
      <4>4. ReqOK(c, f) /\ AtUnit(c, f)'
        <5>1. ReqOK(c, f)
          BY <2>1, <4>2 DEF ReqOK
        <5>2. AtUnit(c, f)'
          BY <1>1, <1>6, <2>1, <4>2, <4>3, AllTaken
        <5> QED BY <5>1, <5>2
      <4>5. /\ Traffic' /\ Pool' /\ \A d \in Client : Waiting(d)' /\ Begins(d)'
            /\ \A v \in working' : InStep(v)'
        <5>1. f \in {NoReq} \cup Asking /\ Goes(w, f, e, 0)
          BY <3>7, <4>1, <4>2
        <5> QED BY <1>1, <1>2, <1>5, <2>5, <3>2, <3>4, <3>5, <4>4, <5>1, Served
      <4>6. StuckOK' /\ WholeRead'
        BY <1>1, <3>7, Unstuck
      <4> QED BY <4>5, <4>6 DEF PoolInv, Steady
    <3>8. CASE Goes(w, q, e, 0) /\ stuck' = [w |-> w, n |-> 0]
      <4>1. /\ Traffic' /\ Pool' /\ Went(w, q, e, 0) /\ \A d \in Client : Waiting(d)' /\ Begins(d)'
            /\ \A v \in working' : InStep(v)'
        BY <1>1, <1>2, <1>5, <2>1, <2>2, <2>3, <2>5, <3>2, <3>4, <3>5, <3>8, Served, ZenonT(40)
      <4>2. w \in working' /\ worker'[w].c = c /\ worker'[w].req = q
        BY <1>1, <1>2, <3>5, <4>1 DEF Went
      <4>3. stuck'.w = w /\ stuck' \in [w : Worker, n : Nat]
        BY <3>8
      <4>4. StuckOK'
        BY <2>1, <4>2, <4>3 DEF StuckOK
      <4>5. WholeRead'
        BY <1>1, <2>5, <4>2, <4>3 DEF WholeRead, Complete, Asked
      <4> QED BY <4>1, <4>4, <4>5 DEF PoolInv, Steady
    <3> QED BY <3>4, <3>6, <3>7, <3>8
  <2> QED BY <1>5, <1>8, <2>4, <2>5
<1> QED BY <1>5, <1>7, <1>8

\* The next piece of a file fits, and is no more than what is left of it.
LEMMA ChunkFits ==
    ASSUME Traffic, NEW c \in Client, NEW q \in Asking, ReqOK(c, q), q # NoReq
    PROVE  /\ FileChunk(c, q).pieces \in Nat /\ FileChunk(c, q).written \in 0 .. Asked(c, q.r).size
           /\ FileChunk(c, q).written = q.written + FileChunk(c, q).pieces
           /\ FileChunk(c, q).pieces <= Room(c)
           /\ Room(c) > 0 /\ q.written < Asked(c, q.r).size => FileChunk(c, q).pieces > 0
<1>1. Room(c) \in Nat /\ q.r \in Requests(c) /\ q.written \in 0 .. Asked(c, q.r).size
  BY RoomIs DEF ReqOK
<1>2. Asked(c, q.r).size \in Nat
  BY <1>1, Script DEF Traffic, Request
<1>3. PICK z \in Nat : z = Asked(c, q.r).size
  BY <1>2
<1>4. PICK y \in 0 .. z : y = q.written
  BY <1>1, <1>3
<1>5. PICK m \in Nat : m = (IF Room(c) < z - y THEN Room(c) ELSE z - y)
  BY <1>1
<1>6. FileChunk(c, q) = [pieces |-> m, written |-> y + m]
  BY <1>3, <1>4, <1>5 DEF FileChunk
<1>7. y + m \in 0 .. z /\ m <= Room(c) /\ (Room(c) > 0 /\ y < z => m > 0)
  BY <1>1, <1>5
<1> QED BY <1>3, <1>4, <1>6, <1>7

\* Some more units in a socket that has room for them.
LEMMA UnitsFit ==
    ASSUME Traffic, NEW c \in Client, NEW m \in Nat, m <= Room(c),
           NEW r \in Nat, NEW y \in Nat
    PROVE  LET x == out[c] \o [i \in 1 .. m |-> <<r, y + i>>]
           IN x \in Seq(Item) /\ Len(x) <= Cap
<1> DEFINE o == out[c]  s == [i \in 1 .. m |-> <<r, y + i>>]
<1>1. o \in Seq(Item) /\ Len(o) \in Nat /\ Cap \in Nat /\ Room(c) = Cap - Len(o)
  BY RoomIs
<1>2. s \in [1 .. m -> Item]
  BY DEF Item
<1> HIDE DEF o, s
<1>3. s \in Seq(Item) /\ Len(s) = m
  BY <1>2, Tabulated
<1>4. o \o s \in Seq(Item) /\ Len(o \o s) = Len(o) + m
  BY <1>1, <1>3, ConcatProperties
<1>5. Len(o \o s) <= Cap
  BY <1>1, <1>4
<1> QED BY <1>4, <1>5 DEF o, s

\* A worker sends the next piece of a file.
LEMMA OnWriteKeeps ==
    ASSUME PoolInv, Steady, NEW w \in Worker, OnWrite(w)
    PROVE  PoolInv' /\ Steady'
<1>1. /\ up /\ stuck = None /\ stuck' = None /\ w \in working /\ UNCHANGED <<sent, got, setup>>
      /\ inb' = inb
  BY DEF OnWrite, Awake, clientVars
<1>2. PICK c \in Client : c = worker[w].c
  BY <1>1 DEF PoolInv, Pool, OneEach
<1>3. PICK q : q = worker[w].req
  OBVIOUS
<1>4. /\ Traffic /\ q # NoReq /\ q \in Asking /\ ReqOK(c, q) /\ q.r \in Nat
  <2>1. worker[w] \in WorkerRec /\ ReqOK(c, q) /\ q # NoReq
    BY <1>1, <1>2, <1>3 DEF PoolInv, Pool, Workers, OnWrite
  <2>2. q \in Asking
    BY <1>3, <2>1 DEF WorkerRec
  <2> QED BY <2>1, <2>2 DEF PoolInv, Asking
<1>5. PICK m : m = FileChunk(c, q).pieces
  OBVIOUS
<1>6. PICK y : y = FileChunk(c, q).written
  OBVIOUS
<1>7. /\ m \in Nat /\ y \in 0 .. Asked(c, q.r).size /\ m <= Room(c)
  BY <1>4, <1>5, <1>6, ChunkFits
<1>8. q.written \in Nat
  BY <1>4 DEF Asking
<1>9. PICK x : x = out[c] \o [i \in 1 .. m |-> <<q.r, 1 + q.written + i>>]
  OBVIOUS
<1>10. x \in Seq(Item) /\ Len(x) <= Cap
  <2>1. PICK k \in Nat : k = 1 + q.written
    BY <1>8
  <2>2. x = out[c] \o [i \in 1 .. m |-> <<q.r, k + i>>]
    BY <1>9, <2>1
  <2> QED BY <1>4, <1>7, <2>2, UnitsFit
<1>11. StuckOK' /\ WholeRead'
  BY <1>1, Unstuck
<1>12. \/ \E n \in Nat \ {0} : /\ Goes(w, NoReq, FALSE, n) /\ up' = up
                               /\ out' = out \/ out' = [out EXCEPT ![c] = x]
       \/ /\ Goes(w, [q EXCEPT !.written = y], TRUE, 0) /\ up' = up
          /\ out' = [out EXCEPT ![c] = x]
       \/ Die
  <2>1. PICK n \in Nat : n = Closes(c, q)
    BY DEF Closes
  <2>2. 1 + n \in Nat \ {0} /\ 1 \in Nat \ {0}
    OBVIOUS
  <2>3. \/ Goes(w, NoReq, FALSE, 1) /\ up' = up /\ out' = out
        \/ Goes(w, NoReq, FALSE, 1 + n) /\ up' = up /\ out' = out
        \/ Goes(w, NoReq, FALSE, 1 + n) /\ up' = up /\ out' = [out EXCEPT ![c] = x]
        \/ Goes(w, [q EXCEPT !.written = y], TRUE, 0) /\ up' = up /\ out' = [out EXCEPT ![c] = x]
        \/ Die
    BY <1>2, <1>3, <1>5, <1>6, <1>9, <2>1, Zenon DEF OnWrite
  <2> QED BY <2>2, <2>3
<1>13. ASSUME NEW n \in Nat \ {0}, Goes(w, NoReq, FALSE, n), up' = up,
              out' = out \/ out' = [out EXCEPT ![c] = x]
       PROVE  PoolInv' /\ Steady'
  <2>1. NoReq \in {NoReq} \cup Asking /\ ReqOK(c, NoReq) /\ n # 0 /\ n \in Nat
    BY DEF ReqOK
  <2>b. PICK b \in BOOLEAN : Goes(w, NoReq, b, n)
    BY <1>13, Zenon
  <2>2. /\ Traffic' /\ Pool' /\ \A d \in Client : Waiting(d)' /\ Begins(d)'
        /\ \A v \in working' : InStep(v)'
    BY <1>1, <1>2, <1>10, <1>13, <2>1, <2>b, Served
  <2> QED BY <1>11, <2>2 DEF PoolInv, Steady
<1>14. ASSUME Goes(w, [q EXCEPT !.written = y], TRUE, 0), up' = up, out' = [out EXCEPT ![c] = x]
       PROVE  PoolInv' /\ Steady'
  <2>1. PICK f : f = [q EXCEPT !.written = y]
    OBVIOUS
  <2>2. f \in Asking /\ f.r = q.r /\ f.len = q.len /\ f.written = y /\ f.file = q.file
    <3>1. Asked(c, q.r).size \in Nat
      BY <1>4, Script DEF ReqOK, Traffic, Request
    <3>2. y \in Nat
      BY <1>7, <3>1
    <3> QED BY <1>4, <2>1, <3>2 DEF Asking
  <2>3. f # NoReq
    BY <2>2 DEF Asking, NoReq
  <2>4. ReqOK(c, f)
    BY <1>4, <1>7, <2>2, <2>3 DEF ReqOK
  <2>5. up /\ conn[c].peer # "rst" => AtUnit(c, f)'
    <3>1. up /\ conn[c].peer # "rst" => AtUnit(c, q)
      BY <1>1, <1>2, <1>3 DEF Steady, InStep
    <3>2. AtUnit(c, f) <=> AtUnit(c, q)
      BY <1>4, <2>2, <2>3 DEF AtUnit
    <3>3. AtUnit(c, f)' <=> AtUnit(c, f)
      BY <1>1, PlaceStays
    <3> QED BY <3>1, <3>2, <3>3
  <2>6. PICK n \in Nat : n = 0
    OBVIOUS
  <2>b. PICK b \in BOOLEAN : Goes(w, [q EXCEPT !.written = y], b, 0)
    BY <1>14, Zenon
  <2>7. Goes(w, f, b, n) /\ ~(n > 0) /\ f \in {NoReq} \cup Asking
    BY <2>1, <2>2, <2>6, <2>b
  <2>8. /\ Traffic' /\ Pool' /\ \A d \in Client : Waiting(d)' /\ Begins(d)'
        /\ \A v \in working' : InStep(v)'
    <3>1. /\ w \in working /\ UNCHANGED <<sent, got, setup>> /\ inb' = inb /\ up' = up
          /\ x \in Seq(Item) /\ Len(x) <= Cap /\ out' = [out EXCEPT ![c] = x]
      BY <1>1, <1>10, <1>14
    <3>2. n = 0 /\ up /\ conn[c].peer # "rst" => AtUnit(c, f)'
      BY <2>5
    <3>3. n > 0 => f = NoReq
      BY <2>7
    <3>4. Goes(w, f, b, n) /\ f \in {NoReq} \cup Asking
      BY <2>7
    <3>5. inb' = inb \/ inb' = [inb EXCEPT ![c] = << >>]
      BY <3>1
    <3>6. out' = out \/ out' = [out EXCEPT ![c] = x]
      BY <3>1
    <3>7. ReqOK(c, f) /\ c = worker[w].c /\ w \in working /\ up' = up /\ UNCHANGED <<sent, got, setup>>
      BY <1>2, <2>4, <3>1
    <3>8. x \in Seq(Item) /\ Len(x) <= Cap
      BY <3>1
    <3> QED BY <3>2, <3>3, <3>4, <3>5, <3>6, <3>7, <3>8, PoolInv, Steady, Served, SMT
  <2> QED BY <1>11, <2>8 DEF PoolInv, Steady
<1>15. CASE Die
  BY <1>1, <1>15, Died
<1> QED BY <1>12, <1>13, <1>14, <1>15

\* One turn of the loop of __write_response_body.
LEMMA WriteBodyKeeps ==
    ASSUME PoolInv, Steady, WriteBody
    PROVE  PoolInv' /\ Steady'
<1>1. /\ up /\ stuck # None /\ UNCHANGED <<sent, got, setup>> /\ inb' = inb
  BY DEF WriteBody, clientVars
<1>2. /\ stuck \in [w : Worker, n : Nat] /\ stuck.w \in working /\ worker[stuck.w].req # NoReq
      /\ worker[stuck.w].req.len = Asked(worker[stuck.w].c, worker[stuck.w].req.r).body
  BY <1>1 DEF PoolInv, StuckOK, Steady, WholeRead
<1>3. PICK w \in working : w = stuck.w
  BY <1>2
<1>4. PICK c \in Client : c = worker[w].c
  BY <1>1 DEF PoolInv, Pool, OneEach
<1>5. PICK q : q = worker[w].req
  OBVIOUS
<1>6. PICK n \in Nat : n = stuck.n + 1
  BY <1>2
<1>7. PICK write : write = worker[w].write
  OBVIOUS
<1>8. /\ Traffic /\ q # NoReq /\ q \in Asking /\ ReqOK(c, q) /\ q.r \in Nat /\ write \in BOOLEAN
  <2>1. worker[w] \in WorkerRec /\ ReqOK(c, q) /\ q # NoReq
    BY <1>2, <1>3, <1>4, <1>5 DEF PoolInv, Pool, Workers
  <2>2. q \in Asking /\ write \in BOOLEAN
    BY <1>5, <1>7, <2>1 DEF WorkerRec
  <2> QED BY <2>1, <2>2 DEF PoolInv, Asking
<1>9. PICK x : x = Append(out[c], <<q.r, n + 1>>)
  OBVIOUS
<1>10. \/ Die
       \/ /\ conn[c].peer # "rst" /\ Room(c) > 0 /\ out' = [out EXCEPT ![c] = x] /\ up' = up
          /\ stuck' = [stuck EXCEPT !.n = n] /\ UNCHANGED <<poolVars, conn>>
       \/ /\ conn[c].peer # "rst" /\ Room(c) > 0 /\ out' = [out EXCEPT ![c] = x] /\ up' = up
          /\ stuck' = None /\ Goes(w, NoReq, write, Closes(c, q))
  BY <1>1, <1>3, <1>4, <1>5, <1>6, <1>7, <1>9, Zenon DEF WriteBody
<1>11. CASE Die
  BY <1>1, <1>11, Died
<1>12. ASSUME Room(c) > 0 PROVE x \in Seq(Item) /\ Len(x) <= Cap
  <2>0. <<q.r, n + 1>> \in Item
    BY <1>8 DEF Item
  <2>1. PICK t \in Item : t = <<q.r, n + 1>>
    BY <2>0
  <2> QED BY <1>8, <1>9, <1>12, <2>1, UnitFits
<1>13. ASSUME Room(c) > 0, out' = [out EXCEPT ![c] = x], up' = up,
              stuck' = [stuck EXCEPT !.n = n], UNCHANGED <<poolVars, conn>>
       PROVE  PoolInv' /\ Steady'
  <2>1. /\ worker' = worker /\ working' = working /\ made' = made /\ leisure' = leisure /\ conn' = conn
        /\ setup' = setup /\ up \in BOOLEAN /\ conn \in [Client -> Conn]
    BY <1>1, <1>8, <1>13 DEF poolVars, Traffic
  <2>2. Traffic'
    BY <1>1, <1>8, <1>12, <1>13, <2>1, TrafficKept
  <2>3. Workers'
    BY <2>1 DEF PoolInv, Pool, Workers, ReqOK, Requests, Asked
  <2>4. Pool'
    BY <2>1, <2>3 DEF PoolInv, Pool, Lists, OneEach, Rested
  <2>5. stuck' \in [w : Worker, n : Nat] /\ stuck'.w = stuck.w
    BY <1>2, <1>13
  <2>6. StuckOK' /\ WholeRead'
    <3>1. StuckOK'
      BY <1>2, <2>1, <2>5 DEF StuckOK
    <3>2. WholeRead'
      BY <1>2, <2>1, <2>5 DEF WholeRead, Asked
    <3> QED BY <3>1, <3>2
  <2>7. \A d \in Client : Waiting(d)' /\ Begins(d)'
    BY <1>1, <2>1, ClientStays DEF Steady
  <2>8. \A v \in working' : InStep(v)'
    <3>1. \A v \in working : worker[v].c \in Client /\ InStep(v)
      BY DEF Steady, PoolInv, Pool, OneEach
    <3> QED BY <1>1, <1>13, <2>1, <3>1, WorkerStays
  <2> QED BY <2>2, <2>4, <2>6, <2>7, <2>8 DEF PoolInv, Steady
<1>14. ASSUME conn[c].peer # "rst", Room(c) > 0, out' = [out EXCEPT ![c] = x], up' = up, stuck' = None,
              Goes(w, NoReq, write, Closes(c, q))
       PROVE  PoolInv' /\ Steady'
  <2>1. PICK k \in Nat : k = Closes(c, q)
    BY DEF Closes
  <2>2. NoReq \in {NoReq} \cup Asking /\ ReqOK(c, NoReq) /\ Goes(w, NoReq, write, k)
    BY <1>14, <2>1 DEF ReqOK
  <2>3. AtUnit(c, NoReq)'
    <3>1. Taken(c) = Total(UL(c), q.r - 1) + Hdr + Asked(c, q.r).body
      BY <1>1, <1>2, <1>3, <1>4, <1>5, <1>8, <1>14 DEF Steady, InStep, AtUnit
    <3>2. Num(c) \in Nat /\ q.r \in 1 .. Num(c) /\ InLine(UL(c), Num(c))
          /\ UL(c)[q.r] = Hdr + Asked(c, q.r).body /\ Asked(c, q.r).body \in Nat
      BY <1>8, Script, Streams DEF Traffic, ReqOK, Request
    <3>3. q.r - 1 \in 0 .. Num(c) /\ q.r \in 0 .. Num(c)
      BY <3>2
    <3>4. Total(UL(c), q.r) = Total(UL(c), q.r - 1) + UL(c)[q.r] /\ Total(UL(c), q.r - 1) \in Nat
      BY <3>2, <3>3 DEF InLine
    <3>5. Taken(c) = Total(UL(c), q.r)
      BY <3>1, <3>2, <3>4 DEF Hdr
    <3>6. AtUnit(c, NoReq)
      BY <3>3, <3>5 DEF AtUnit, Bound
    <3> QED BY <1>1, <3>6, PlaceStays
  <2>4. /\ Traffic' /\ Pool' /\ \A d \in Client : Waiting(d)' /\ Begins(d)'
        /\ \A v \in working' : InStep(v)'
    BY <1>1, <1>4, <1>8, <1>12, <1>14, <2>2, <2>3, Served, ZenonT(40)
  <2>5. StuckOK' /\ WholeRead'
    BY <1>14, Unstuck
  <2> QED BY <2>4, <2>5 DEF PoolInv, Steady
<1> QED BY <1>10, <1>11, <1>13, <1>14

\* A step that changes nothing.
LEMMA NothingHappens ==
    ASSUME PoolInv, Steady, UNCHANGED vars
    PROVE  PoolInv' /\ Steady'
<1>1. /\ up' = up /\ conn' = conn /\ inb' = inb /\ out' = out /\ sent' = sent /\ got' = got
      /\ setup' = setup /\ worker' = worker /\ working' = working /\ stuck' = stuck
      /\ UNCHANGED <<poolVars, stuck, setup>>
  BY DEF vars, poolVars, clientVars
<1>2. Pool' /\ StuckOK'
  BY <1>1, PoolStays DEF PoolInv
<1>3. Traffic'
  <2>1. \A d \in Client : Stream(d)' = Stream(d)
    BY <1>1, StreamStays
  <2> QED BY <1>1, <2>1 DEF PoolInv, Traffic
<1>4. \A d \in Client : Waiting(d)' /\ Begins(d)'
  BY <1>1, ClientStays DEF Steady
<1>5. \A v \in working' : InStep(v)'
  <2>1. \A v \in working : worker[v].c \in Client /\ InStep(v)
    BY DEF Steady, PoolInv, Pool, OneEach
  <2> QED BY <1>1, <2>1, WorkerStays
<1>6. WholeRead'
  BY <1>1, WholeStays DEF Steady
<1> QED BY <1>2, <1>3, <1>4, <1>5, <1>6 DEF PoolInv, Steady

\* Who has what, and where the server is with it, is kept by every step.
LEMMA PoolInductive == Spec => [](PoolInv /\ Steady)
<1>1. Init => PoolInv /\ Steady
  BY InitPool, InitSteady
<1>2. PoolInv /\ Steady /\ [Next]_vars => (PoolInv /\ Steady)'
  <2> SUFFICES ASSUME PoolInv, Steady, [Next]_vars
               PROVE  PoolInv' /\ Steady'
    OBVIOUS
  <2>1. ASSUME NEW c \in Client, Connect(c) PROVE PoolInv' /\ Steady'
    BY <2>1, ConnectPool, ClientSteady
  <2>2. ASSUME NEW c \in Client, NEW k \in 1 .. 4, Send(c, k) PROVE PoolInv' /\ Steady'
    BY <2>2, SendPool, SendSteady
  <2>3. ASSUME NEW c \in Client, ReadAnswer(c) PROVE PoolInv' /\ Steady'
    BY <2>3, ReadAnswerPool, ClientSteady
  <2>4. ASSUME NEW c \in Client, Fin(c) \/ Abort(c) PROVE PoolInv' /\ Steady'
    BY <2>4, EndsPool, ClientSteady
  <2>5. ASSUME NEW c \in Client, Accept(c) PROVE PoolInv' /\ Steady'
    BY <2>5, AcceptPool, AcceptSteady
  <2>6. ASSUME NEW w \in Worker, OnRead(w) PROVE PoolInv' /\ Steady'
    BY <2>6, OnReadKeeps
  <2>7. ASSUME NEW w \in Worker, OnEnd(w) PROVE PoolInv' /\ Steady'
    BY <2>7, OnEndKeeps
  <2>8. ASSUME NEW w \in Worker, OnWrite(w) PROVE PoolInv' /\ Steady'
    BY <2>8, OnWriteKeeps
  <2>9. CASE WriteBody
    BY <2>9, WriteBodyKeeps
  <2>10. CASE UNCHANGED vars
    BY <2>10, NothingHappens
  <2> QED BY <2>1, <2>2, <2>3, <2>4, <2>5, <2>6, <2>7, <2>8, <2>9, <2>10 DEF Next, Peer, Serve
<1> QED BY <1>1, <1>2, PTL DEF Spec

\* The invariant implies the property that the runs check.
LEMMA PoolInvSuffices == PoolInv => PoolSound
<1> SUFFICES ASSUME PoolInv PROVE PoolSound
  OBVIOUS
<1>1. Traffic /\ Workers /\ Lists /\ OneEach /\ Rested /\ StuckOK
  BY DEF PoolInv, Pool
<1>2. ToSet(leisure) \subseteq Worker
  <2>1. leisure \in Seq(Worker)
    BY <1>1 DEF Workers
  <2> QED BY <2>1 DEF ToSet
<1>3. TypeOK
  <2>1. \A c \in Client : Len(out[c]) <= Cap /\ sent[c] \in 0 .. Len(Stream(c))
    <3>1. ASSUME NEW c \in Client PROVE sent[c] \in 0 .. Len(Stream(c))
      <4>1. Stream(c) \in Seq(Item)
        BY <1>1, Streams DEF InLine, Traffic
      <4>2. Len(Stream(c)) \in Nat
        BY <4>1, LenProperties
      <4> QED BY <1>1, <4>2 DEF Traffic
    <3> QED BY <1>1, <3>1 DEF Traffic
  <2>2. \A w \in Worker :
            /\ worker[w].c \in Client \cup {None} /\ worker[w].write \in BOOLEAN
            /\ ReqOK(worker[w].c, worker[w].req)
    BY <1>1 DEF Workers, WorkerRec
  <2>3. up \in BOOLEAN /\ conn \in [Client -> Conn] /\ made \in 0 .. MaxWorkers /\ working \subseteq Worker
    BY <1>1 DEF Traffic, Workers
  <2>4. stuck = None \/ stuck.w \in working
    BY <1>1 DEF StuckOK
  <2> QED BY <1>2, <2>1, <2>2, <2>3, <2>4 DEF TypeOK
<1>4. ASSUME NEW c \in Client
      PROVE  Cardinality({w \in working : worker[w].c = c}) = (IF conn[c].st = "open" THEN 1 ELSE 0)
  <2> DEFINE S == {w \in working : worker[w].c = c}
  <2>1. CASE conn[c].st = "open"
    <3>1. PICK w \in working : worker[w].c = c
      BY <1>1, <2>1 DEF OneEach
    <3>2. S = {w}
      BY <1>1, <3>1 DEF OneEach
    <3> HIDE DEF S
    <3>3. Cardinality(S) = 1
      BY <3>2, FS_Singleton
    <3> QED BY <2>1, <3>3 DEF S
  <2>2. CASE conn[c].st # "open"
    <3>1. S = {}
      BY <1>1, <2>2 DEF OneEach
    <3> HIDE DEF S
    <3>2. Cardinality(S) = 0
      BY <3>1, FS_EmptySet
    <3> QED BY <2>2, <3>2 DEF S
  <2> QED BY <2>1, <2>2
<1>5. \A w \in working : worker[w].c # None
  BY <1>1, HttpAssumption DEF OneEach
<1>6. \A w \in ToSet(leisure) : worker[w].req = NoReq /\ ~worker[w].write /\ worker[w].resigned
  BY <1>1, <1>2 DEF Lists, Rested
<1> QED BY <1>1, <1>3, <1>4, <1>5, <1>6 DEF PoolSound, Lists

\* Whatever the clients ask for and whenever they close, reset or come back:
\* every worker is working or at leisure, once, every open connection has one
\* worker, and a worker at leisure has nothing left of its last connection.
THEOREM PoolAlwaysSound == Spec => []PoolSound
  BY PoolInductive, PoolInvSuffices, PTL

-----------------------------------------------------------------------------
(***************************************************************************)
(* The invariant for OwnResponses: how far each client that waits for its  *)
(* answers has come, with what it was sent and with what it has asked.     *)
(***************************************************************************)
\* What the server has sent to c, read or not.
Came(c) == got[c] \o out[c]
\* It is the beginning of what c expects.
OnCourse(c) ==
    /\ Len(Came(c)) <= Total(AL(c), Num(c))
    /\ \A i \in 1 .. Len(Came(c)) : Came(c)[i] = Expected(c)[i]

\* n answers are out; the server has taken n requests and h units of the next,
\* of which no more than one is on its way, and only with nothing left to read.
Resting(c, n)  == Len(Came(c)) = Total(AL(c), n)
Heard(c, n, h) ==
    /\ Taken(c) = Total(UL(c), n) + h
    /\ sent[c] <= Total(UL(c), IF n < Num(c) THEN n + 1 ELSE n)
    /\ inb[c] # << >> \/ h > 0 => out[c] = << >>
\* Between two connections.
Between(c, n) ==
    /\ Resting(c, n)
    /\ conn[c].st # "closed" => inb[c] = << >> /\ sent[c] = Total(UL(c), n)

\* Where the worker of c is with the request q, k units of whose answer it has
\* written if the thread is in __write_body.
Idle(c, n, q)    == q = NoReq /\ Resting(c, n) /\ Heard(c, n, 0)
Reading(c, n, q) ==
    /\ q # NoReq /\ ~q.file /\ q.written = 0 /\ q.r = n + 1 /\ n < Num(c)
    /\ Resting(c, n) /\ Heard(c, n, Hdr + q.len)
\* Its headers and some of its body are out; no next request is on its way
\* before the end of a body that is not empty.
Answering(c, n, q, k) ==
    /\ q # NoReq /\ q.r = n + 1 /\ n < Num(c)
    /\ ~Asked(c, n + 1).head /\ q.len >= Asked(c, n + 1).body
    /\ \/ /\ k = 0 /\ q.file /\ Len(Came(c)) = Total(AL(c), n) + 1 + q.written
          /\ Asked(c, n + 1).size > 0 => q.written < Asked(c, n + 1).size
       \/ /\ k \in 1 .. Asked(c, n + 1).size /\ ~q.file /\ Len(Came(c)) = Total(AL(c), n) + k
    /\ Asked(c, n + 1).size > 0 => inb[c] = << >> /\ sent[c] = Total(UL(c), n + 1)
Stage(c, n, q, k) == (k = 0 /\ (Idle(c, n, q) \/ Reading(c, n, q))) \/ Answering(c, n, q, k)

\* How many units of an answer's body, and its headers, __write_response_body has
\* written for the worker w.
Writing(w) == IF stuck # None /\ stuck.w = w THEN 1 + stuck.n ELSE 0

\* A client gets its own answers, and has all of them between two connections.
InTurn(c) ==
    /\ OnCourse(c)
    /\ conn[c].st \in {"idle", "backlog"} => conn[c].peer = "on"
    /\ conn[c].st # "open" /\ conn[c].peer = "on" => \E n \in 0 .. Num(c) : Between(c, n)

\* A worker is at one stage of its client's next request.
Serving(w) ==
    up /\ conn[worker[w].c].peer # "rst" /\ worker[w].c \notin setup.eager
        => \E n \in 0 .. Num(worker[w].c) : Stage(worker[w].c, n, worker[w].req, Writing(w))

AllInTurn ==
    /\ \A c \in Client \ setup.eager : InTurn(c)
    /\ \A w \in working : Serving(w)

\* The units that came are units: their number.
LEMMA CameIs ==
    ASSUME Traffic, NEW c \in Client
    PROVE  /\ Came(c) \in Seq(Item) /\ got[c] \in Seq(Item) /\ out[c] \in Seq(Item)
           /\ Len(got[c]) \in Nat /\ Len(out[c]) \in Nat
           /\ Len(Came(c)) = Len(got[c]) + Len(out[c])
           /\ \A i \in 1 .. Len(got[c]) : Came(c)[i] = got[c][i]
           /\ \A i \in 1 .. Len(out[c]) : Came(c)[Len(got[c]) + i] = out[c][i]
<1> DEFINE g == got[c]  o == out[c]
<1>1. g \in Seq(Item) /\ o \in Seq(Item)
  BY DEF Traffic
<1> HIDE DEF g, o
<1>2. Len(g) \in Nat /\ Len(o) \in Nat
  BY <1>1, LenProperties
<1>3. /\ g \o o \in Seq(Item) /\ Len(g \o o) = Len(g) + Len(o)
      /\ \A i \in 1 .. Len(g) + Len(o) : (g \o o)[i] = IF i <= Len(g) THEN g[i] ELSE o[i - Len(g)]
  BY <1>1, ConcatProperties
<1>4. \A i \in 1 .. Len(g) : (g \o o)[i] = g[i]
  BY <1>2, <1>3
<1>5. ASSUME NEW i \in 1 .. Len(o) PROVE (g \o o)[Len(g) + i] = o[i]
  <2>1. PICK j : j = Len(g) + i
    OBVIOUS
  <2>2. j \in 1 .. Len(g) + Len(o) /\ ~(j <= Len(g)) /\ j - Len(g) = i
    BY <1>2, <2>1
  <2>3. (g \o o)[j] = o[j - Len(g)]
    BY <1>3, <2>2
  <2> QED BY <2>1, <2>2, <2>3
<1>6. Came(c) = g \o o
  BY DEF Came, g, o
<1> QED BY <1>1, <1>2, <1>3, <1>4, <1>5, <1>6 DEF g, o

\* The answers c should get, in numbers.
LEMMA AnswersIs ==
    ASSUME Traffic, NEW c \in Client
    PROVE  /\ Num(c) \in Nat /\ Requests(c) = 1 .. Num(c)
           /\ Expected(c) \in Seq(Item) /\ Len(Expected(c)) = Total(AL(c), Num(c))
           /\ \A n \in 0 .. Num(c) : Total(AL(c), n) \in Nat /\ Total(AL(c), n) <= Total(AL(c), Num(c))
           /\ \A n \in 0 .. Num(c) : \A m \in 0 .. n : Total(AL(c), m) <= Total(AL(c), n)
           /\ \A r \in 1 .. Num(c) :
                  /\ Total(AL(c), r) = Total(AL(c), r - 1) + AL(c)[r] /\ AL(c)[r] \in Nat \ {0}
                  /\ Last(Answer(c, r)) = <<r, AL(c)[r]>>
                  /\ \A p \in 1 .. AL(c)[r] : Expected(c)[Total(AL(c), r - 1) + p] = <<r, p>>
           /\ \A i \in 1 .. Total(AL(c), Num(c)) :
                  \E r \in 1 .. Num(c) : \E p \in 1 .. AL(c)[r] : i = Total(AL(c), r - 1) + p
<1>1. /\ Num(c) \in Nat /\ Requests(c) = 1 .. Num(c) /\ InLine(AL(c), Num(c))
      /\ Expected(c) = Runs(AL(c), Num(c))
      /\ \A r \in 1 .. Num(c) : Answer(c, r) = Part(AL(c), r)
  BY Script, Streams DEF Traffic
<1>2. ASSUME NEW r \in 1 .. Num(c) PROVE Last(Answer(c, r)) = <<r, AL(c)[r]>>
  <2>1. AL(c)[r] \in Nat \ {0} /\ r \in Nat
    BY <1>1 DEF InLine
  <2>2. Len(Part(AL(c), r)) = AL(c)[r] /\ \A p \in 1 .. AL(c)[r] : Part(AL(c), r)[p] = <<r, p>>
    BY <2>1, PartIs
  <2>3. AL(c)[r] \in 1 .. AL(c)[r]
    BY <2>1
  <2> QED BY <1>1, <2>2, <2>3 DEF Last
<1> QED BY <1>1, <1>2 DEF InLine

\* How many numbers there are up to n.
LEMMA Counting == ASSUME NEW n \in Nat PROVE IsFiniteSet(1 .. n) /\ Cardinality(1 .. n) = n
<1>1. 1 \in Int /\ n \in Int
  OBVIOUS
<1>2. IsFiniteSet(1 .. n) /\ Cardinality(1 .. n) = IF 1 > n THEN 0 ELSE n - 1 + 1
  BY <1>1, FS_Interval
<1> QED BY <1>2

\* An answer whose end a client has not got is not among those it has read.
LEMMA NotYet ==
    ASSUME Traffic, NEW c \in Client, OnCourse(c), NEW n \in Nat, n < Num(c),
           Len(got[c]) < Total(AL(c), n + 1)
    PROVE  Answered(c) <= n
<1> DEFINE A == AL(c)
           S == {r \in Requests(c) : Last(Answer(c, r)) \in ToSet(got[c])}
<1>1. /\ Num(c) \in Nat /\ Requests(c) = 1 .. Num(c)
      /\ \A m \in 0 .. Num(c) : \A k \in 0 .. m : Total(A, k) <= Total(A, m)
      /\ \A m \in 0 .. Num(c) : Total(A, m) \in Nat
      /\ \A r \in 1 .. Num(c) :
             /\ Total(A, r) = Total(A, r - 1) + A[r] /\ Last(Answer(c, r)) = <<r, A[r]>>
             /\ \A p \in 1 .. A[r] : Expected(c)[Total(A, r - 1) + p] = <<r, p>>
      /\ \A i \in 1 .. Total(A, Num(c)) :
            \E r \in 1 .. Num(c) : \E p \in 1 .. A[r] : i = Total(A, r - 1) + p
  BY AnswersIs
<1>2. /\ Len(got[c]) \in Nat /\ got[c] \in Seq(Item) /\ Len(got[c]) <= Total(A, Num(c))
      /\ \A i \in 1 .. Len(got[c]) : got[c][i] = Expected(c)[i]
  <2>1. /\ Len(got[c]) \in Nat /\ got[c] \in Seq(Item) /\ Len(out[c]) \in Nat
        /\ Len(Came(c)) = Len(got[c]) + Len(out[c])
        /\ \A i \in 1 .. Len(got[c]) : Came(c)[i] = got[c][i]
    BY CameIs
  <2>2. Total(A, Num(c)) \in Nat
    BY <1>1
  <2>3. /\ Len(Came(c)) <= Total(A, Num(c)) /\ Len(got[c]) <= Total(A, Num(c))
        /\ \A i \in 1 .. Len(got[c]) : i \in 1 .. Len(Came(c))
    <3>1. PICK g \in Nat : g = Len(got[c])
      BY <2>1
    <3>2. PICK o \in Nat : o = Len(out[c])
      BY <2>1
    <3>3. PICK t \in Nat : t = Total(A, Num(c))
      BY <2>2
    <3>4. Len(Came(c)) = g + o /\ Len(Came(c)) <= t
      BY <2>1, <3>1, <3>2, <3>3 DEF OnCourse
    <3>5. g <= t /\ \A i \in 1 .. g : i \in 1 .. (g + o)
      BY <3>4
    <3> QED BY <3>1, <3>3, <3>4, <3>5
  <2> QED BY <2>1, <2>3 DEF OnCourse
<1>3. ASSUME NEW r \in S PROVE r \in 1 .. n
  <2>1. r \in 1 .. Num(c) /\ Last(Answer(c, r)) = <<r, A[r]>> /\ Last(Answer(c, r)) \in ToSet(got[c])
    BY <1>1
  <2>2. PICK i \in 1 .. Len(got[c]) : got[c][i] = <<r, A[r]>>
    BY <1>2, <2>1 DEF ToSet
  <2>3. i \in 1 .. Total(A, Num(c)) /\ Expected(c)[i] = <<r, A[r]>>
    <3>1. i \in 1 .. Total(A, Num(c))
      <4>1. Total(A, Num(c)) \in Nat
        BY <1>1
      <4> QED BY <1>2, <4>1
    <3> QED BY <1>2, <2>2, <3>1
  <2>4. PICK s \in 1 .. Num(c) : \E p \in 1 .. A[s] : i = Total(A, s - 1) + p
    BY <1>1, <2>3
  <2>5. PICK p \in 1 .. A[s] : i = Total(A, s - 1) + p
    BY <2>4
  <2>6. <<s, p>> = <<r, A[r]>>
    BY <1>1, <2>3, <2>5
  <2>7. i = Total(A, r)
    BY <1>1, <2>5, <2>6
  <2>8. SUFFICES ASSUME r > n PROVE FALSE
    BY <1>1, <2>1
  <2>9. n + 1 \in 0 .. r /\ r \in 0 .. Num(c)
    BY <1>1, <2>1, <2>8
  <2>10. Total(A, n + 1) <= Total(A, r) /\ Total(A, n + 1) \in Nat
    <3>1. PICK m : m = n + 1
      OBVIOUS
    <3>2. m \in 0 .. r /\ m \in 0 .. Num(c)
      BY <1>1, <2>9, <3>1
    <3> QED BY <1>1, <2>9, <3>1, <3>2
  <2> QED BY <1>2, <2>2, <2>7, <2>10
<1>4. Cardinality(S) <= n
  <2>1. S \subseteq 1 .. n /\ IsFiniteSet(1 .. n) /\ Cardinality(1 .. n) = n
    BY <1>3, Counting
  <2> HIDE DEF S
  <2> QED BY <2>1, FS_Subset
<1> QED BY <1>4 DEF Answered

\* Nor is one missing whose end it has got.
LEMMA Already ==
    ASSUME Traffic, NEW c \in Client, OnCourse(c), NEW n \in 0 .. Num(c),
           Total(AL(c), n) <= Len(got[c])
    PROVE  n <= Answered(c)
<1> DEFINE A == AL(c)
           S == {r \in Requests(c) : Last(Answer(c, r)) \in ToSet(got[c])}
<1>1. /\ Num(c) \in Nat /\ Requests(c) = 1 .. Num(c)
      /\ \A m \in 0 .. Num(c) : \A k \in 0 .. m : Total(A, k) <= Total(A, m)
      /\ \A m \in 0 .. Num(c) : Total(A, m) \in Nat
      /\ \A r \in 1 .. Num(c) :
             /\ Total(A, r) = Total(A, r - 1) + A[r] /\ Last(Answer(c, r)) = <<r, A[r]>>
             /\ A[r] \in Nat \ {0}
             /\ \A p \in 1 .. A[r] : Expected(c)[Total(A, r - 1) + p] = <<r, p>>
  BY AnswersIs
<1>2. /\ Len(got[c]) \in Nat /\ got[c] \in Seq(Item) /\ Len(out[c]) \in Nat
      /\ Len(Came(c)) = Len(got[c]) + Len(out[c])
      /\ \A i \in 1 .. Len(got[c]) : Came(c)[i] = got[c][i]
  BY CameIs
<1>3. ASSUME NEW r \in 1 .. n PROVE r \in S
  <2>1. r \in 1 .. Num(c) /\ r \in 0 .. n /\ n \in 0 .. Num(c) /\ r - 1 \in 0 .. Num(c)
    BY <1>1
  <2>2. PICK i : i = Total(A, r)
    OBVIOUS
  <2>3. /\ i = Total(A, r - 1) + A[r] /\ A[r] \in 1 .. A[r] /\ Total(A, r - 1) \in Nat /\ A[r] \in Nat \ {0}
        /\ i <= Total(A, n) /\ Total(A, n) \in Nat
    BY <1>1, <2>1, <2>2
  <2>4. i \in 1 .. Len(got[c]) /\ i \in 1 .. Len(Came(c))
    <3>1. PICK g \in Nat : g = Len(got[c])
      BY <1>2
    <3>2. PICK o \in Nat : o = Len(out[c])
      BY <1>2
    <3>3. PICK t \in Nat : t = Total(A, r - 1)
      BY <2>3
    <3>4. PICK a \in Nat \ {0} : a = A[r]
      BY <2>3
    <3>5. i = t + a /\ i <= g
      <4>1. Total(A, n) <= g
        BY <3>1
      <4> QED BY <2>3, <3>3, <3>4, <4>1
    <3>6. i \in 1 .. g /\ i \in 1 .. (g + o)
      BY <3>5
    <3> QED BY <1>2, <3>1, <3>2, <3>6
  <2>5. Expected(c)[i] = <<r, A[r]>>
    BY <1>1, <2>1, <2>3
  <2>6. got[c][i] = <<r, A[r]>>
    BY <1>2, <2>4, <2>5 DEF OnCourse
  <2>7. <<r, A[r]>> \in ToSet(got[c])
    BY <1>2, <2>4, <2>6 DEF ToSet
  <2> QED BY <1>1, <2>1, <2>7
<1>4. n <= Cardinality(S)
  <2>1. 1 .. n \subseteq S /\ S \subseteq 1 .. Num(c) /\ n \in Nat
    BY <1>1, <1>3
  <2>s. IsFiniteSet(1 .. Num(c)) /\ Cardinality(1 .. n) = n
    BY <1>1, <2>1, Counting
  <2> HIDE DEF S
  <2>2. IsFiniteSet(S)
    BY <2>1, <2>s, FS_Subset
  <2> QED BY <2>1, <2>2, <2>s, FS_Subset
<1> QED BY <1>4 DEF Answered

\* A sequence behind another.
LEMMA Behind ==
    ASSUME NEW g \in Seq(Item), NEW o \in Seq(Item)
    PROVE  /\ g \o o \in Seq(Item) /\ Len(g) \in Nat /\ Len(o) \in Nat
           /\ Len(g \o o) = Len(g) + Len(o)
           /\ \A i \in 1 .. Len(g) : (g \o o)[i] = g[i]
           /\ \A i \in 1 .. Len(o) : (g \o o)[Len(g) + i] = o[i]
<1>1. Len(g) \in Nat /\ Len(o) \in Nat
  BY LenProperties
<1>2. /\ g \o o \in Seq(Item) /\ Len(g \o o) = Len(g) + Len(o)
      /\ \A i \in 1 .. Len(g) + Len(o) : (g \o o)[i] = IF i <= Len(g) THEN g[i] ELSE o[i - Len(g)]
  BY ConcatProperties
<1>3. \A i \in 1 .. Len(g) : (g \o o)[i] = g[i]
  BY <1>1, <1>2
<1>4. ASSUME NEW i \in 1 .. Len(o) PROVE (g \o o)[Len(g) + i] = o[i]
  <2>1. PICK j : j = Len(g) + i
    OBVIOUS
  <2>2. j \in 1 .. Len(g) + Len(o) /\ ~(j <= Len(g)) /\ j - Len(g) = i
    BY <1>1, <2>1
  <2>3. (g \o o)[j] = o[j - Len(g)]
    BY <1>2, <2>2
  <2> QED BY <2>1, <2>2, <2>3
<1> QED BY <1>1, <1>2, <1>3, <1>4

\* What a client is to be sent does not change.
LEMMA LinesStay ==
    ASSUME setup' = setup, NEW c \in Client
    PROVE  /\ UL(c)' = UL(c) /\ AL(c)' = AL(c) /\ Num(c)' = Num(c) /\ Expected(c)' = Expected(c)
           /\ Stream(c)' = Stream(c) /\ \A r : Asked(c, r)' = Asked(c, r)
  BY DEF UL, AL, Num, Expected, Stream, Requests, Asked, Answer, Units

\* The server goes on with the answer it is at: m more units behind the first j.
LEMMA CourseGrows ==
    ASSUME Traffic, NEW c \in Client, OnCourse(c), setup' = setup, got'[c] = got[c],
           NEW n \in Nat, n < Num(c), NEW j \in Nat, NEW m \in Nat,
           Len(Came(c)) = Total(AL(c), n) + j, j + m <= AL(c)[n + 1],
           NEW x \in Seq(Item), out'[c] = x, Len(x) = Len(out[c]) + m,
           \A i \in 1 .. Len(out[c]) : x[i] = out[c][i],
           \A i \in 1 .. m : x[Len(out[c]) + i] = <<n + 1, j + i>>
    PROVE  OnCourse(c)' /\ Len(Came(c))' = Total(AL(c), n) + j + m
<1> DEFINE A == AL(c)  g == got[c]  o == out[c]  E == Expected(c)
<1>0. AL(c)' = A /\ Num(c)' = Num(c) /\ Expected(c)' = E /\ Came(c)' = g \o x
      /\ Total(AL(c), Num(c))' = Total(A, Num(c)) /\ Came(c) = g \o o
  BY LinesStay DEF Came, Total, Runs, Part
<1>1. /\ g \in Seq(Item) /\ o \in Seq(Item)
      /\ Len(g \o o) <= Total(A, Num(c)) /\ \A i \in 1 .. Len(g \o o) : (g \o o)[i] = E[i]
      /\ Len(g \o o) = Total(A, n) + j
  BY <1>0 DEF Traffic, OnCourse
<1>2. PICK r \in 1 .. Num(c) : r = n + 1
  BY AnswersIs
<1>3. PICK t \in Nat : t = Total(A, n) /\ t + A[r] = Total(A, r) /\ Total(A, r) <= Total(A, Num(c))
                       /\ Total(A, Num(c)) \in Nat /\ A[r] \in Nat
                       /\ \A p \in 1 .. A[r] : E[t + p] = <<r, p>>
  <2>1. /\ Num(c) \in Nat /\ n \in 0 .. Num(c) /\ r \in 0 .. Num(c) /\ r - 1 = n
    BY <1>2, AnswersIs
  <2>2. /\ Total(A, n) \in Nat /\ Total(A, r) <= Total(A, Num(c)) /\ Total(A, Num(c)) \in Nat
        /\ Total(A, r) = Total(A, r - 1) + A[r] /\ A[r] \in Nat
        /\ \A p \in 1 .. A[r] : E[Total(A, r - 1) + p] = <<r, p>>
    <3>1. Num(c) \in 0 .. Num(c)
      BY <2>1
    <3> QED BY <2>1, <3>1, AnswersIs
  <2> QED BY <2>1, <2>2
<1>4. PICK a \in Nat : a = Len(g)
  BY <1>1, LenProperties
<1>5. PICK b \in Nat : b = Len(o)
  BY <1>1, LenProperties
<1>x. Len(x) = b + m /\ (\A i \in 1 .. b : x[i] = o[i]) /\ \A i \in 1 .. m : x[b + i] = <<n + 1, j + i>>
  BY <1>5
<1>y. j + m <= A[r]
  BY <1>2
<1> HIDE DEF g, o, A, E
<1>6. /\ Len(g \o o) = a + b /\ \A i \in 1 .. a : (g \o o)[i] = g[i]
      /\ \A i \in 1 .. b : (g \o o)[a + i] = o[i]
  BY <1>1, <1>4, <1>5, Behind
<1>7. /\ Len(g \o x) = a + (b + m) /\ \A i \in 1 .. a : (g \o x)[i] = g[i]
      /\ \A i \in 1 .. (b + m) : (g \o x)[a + i] = x[i]
  <2>1. PICK e : e = Len(x)
    OBVIOUS
  <2>2. /\ Len(g \o x) = a + e /\ \A i \in 1 .. a : (g \o x)[i] = g[i]
        /\ \A i \in 1 .. e : (g \o x)[a + i] = x[i]
    <3>1. /\ Len(g \o x) = Len(g) + Len(x) /\ \A i \in 1 .. Len(g) : (g \o x)[i] = g[i]
          /\ \A i \in 1 .. Len(x) : (g \o x)[Len(g) + i] = x[i]
      BY <1>1, Behind, Zenon
    <3> QED BY <1>4, <2>1, <3>1, Zenon
  <2>3. e = b + m
    BY <1>x, <2>1
  <2> QED BY <2>2, <2>3
<1>8. /\ a + b = t + j /\ j + m <= A[r] /\ a + b + m <= Total(A, Num(c))
  <2>1. a + b = t + j
    BY <1>1, <1>3, <1>6
  <2>2. PICK z \in Nat : z = A[r]
    BY <1>3
  <2>3. PICK y \in Nat : y = Total(A, Num(c))
    BY <1>3
  <2>4. t + z <= y /\ j + m <= z
    BY <1>3, <1>y, <2>2, <2>3
  <2>5. a + b + m <= y
    BY <2>1, <2>4
  <2> QED BY <1>y, <2>1, <2>3, <2>5
<1>9. \A i \in 1 .. (a + b) : (g \o o)[i] = E[i]
  BY <1>1, <1>6
<1>10. (\A i \in 1 .. b : x[i] = o[i]) /\ \A i \in 1 .. m : x[b + i] = <<r, j + i>>
  BY <1>2, <1>x
<1> DEFINE u == g \o o  v == g \o x
<1> HIDE DEF u, v
<1>11. /\ \A i \in 1 .. a : u[i] = g[i] /\ v[i] = g[i]
       /\ \A i \in 1 .. b : u[a + i] = o[i]
       /\ \A i \in 1 .. (b + m) : v[a + i] = x[i]
       /\ \A i \in 1 .. (a + b) : u[i] = E[i]
  BY <1>6, <1>7, <1>9 DEF u, v
<1>12. ASSUME NEW i \in 1 .. (a + b + m) PROVE v[i] = E[i]
  <2>1. CASE i <= a
    BY <1>11, <2>1
  <2>2. CASE i > a /\ i <= a + b
    <3>1. PICK k : k = i - a
      OBVIOUS
    <3>2. k \in 1 .. b /\ k \in 1 .. (b + m) /\ a + k = i /\ i \in 1 .. (a + b)
      BY <2>2, <3>1
    <3>3. v[i] = x[k] /\ u[i] = o[k] /\ u[i] = E[i] /\ x[k] = o[k]
      BY <1>10, <1>11, <3>2
    <3> QED BY <3>3
  <2>3. CASE i > a + b
    <3>1. PICK k : k = i - (a + b)
      OBVIOUS
    <3>2. k \in 1 .. m /\ b + k \in 1 .. (b + m) /\ a + (b + k) = i
      BY <2>3, <3>1
    <3>3. v[i] = x[b + k] /\ x[b + k] = <<r, j + k>>
      BY <1>10, <1>11, <3>2
    <3>4. j + k \in 1 .. A[r] /\ t + (j + k) = i
      <4>1. PICK z \in Nat : z = A[r]
        BY <1>3
      <4>2. j + k \in 1 .. z
        BY <1>8, <3>2, <4>1
      <4>3. t + (j + k) = i
        BY <1>8, <3>1
      <4> QED BY <4>1, <4>2, <4>3
    <3>5. E[i] = <<r, j + k>>
      BY <1>3, <3>4
    <3> QED BY <3>3, <3>5
  <2> QED BY <2>1, <2>2, <2>3
<1>13. Len(v) = a + b + m /\ a + b + m = Total(A, n) + j + m
  BY <1>3, <1>7, <1>8 DEF v
<1>14. Came(c)' = v /\ Total(AL(c), Num(c))' = Total(A, Num(c)) /\ Expected(c)' = E
  BY <1>0 DEF v, A, E, g
<1>15. /\ Len(Came(c)') <= Total(AL(c), Num(c))'
       /\ \A i \in 1 .. Len(Came(c)') : Came(c)'[i] = Expected(c)'[i]
  BY <1>8, <1>12, <1>13, <1>14
<1> QED BY <1>13, <1>14, <1>15 DEF OnCourse, A

\* Where a worker is, when nothing is sent either way.
LEMMA StageStays ==
    ASSUME NEW c \in Client, setup' = setup, sent'[c] = sent[c], inb'[c] = inb[c],
           Came(c)' = Came(c), out[c] = << >> => out'[c] = << >>,
           NEW n, NEW q, NEW k, Stage(c, n, q, k)
    PROVE  Stage(c, n, q, k)'
<1>1. /\ UL(c)' = UL(c) /\ AL(c)' = AL(c) /\ Num(c)' = Num(c) /\ \A r : Asked(c, r)' = Asked(c, r)
      /\ Taken(c)' = Taken(c)
  BY LinesStay DEF Taken
<1>2. Resting(c, n) => Resting(c, n)'
  BY <1>1 DEF Resting
<1>3. \A h : Heard(c, n, h) => Heard(c, n, h)'
  BY <1>1 DEF Heard
<1>4. Idle(c, n, q) => Idle(c, n, q)'
  BY <1>2, <1>3 DEF Idle
<1>5. Reading(c, n, q) => Reading(c, n, q)'
  BY <1>1, <1>2, <1>3 DEF Reading
<1>6. Answering(c, n, q, k) => Answering(c, n, q, k)'
  BY <1>1 DEF Answering
<1> QED BY <1>4, <1>5, <1>6 DEF Stage

\* A worker that a step leaves alone, and whose client's traffic it leaves alone,
\* is as far with its client as before.
LEMMA ServingStays ==
    ASSUME NEW w, worker[w].c \in Client, setup' = setup, Serving(w), up' => up,
           worker'[w].c = worker[w].c, worker'[w].req = worker[w].req, Writing(w)' = Writing(w),
           sent'[worker[w].c] = sent[worker[w].c], inb'[worker[w].c] = inb[worker[w].c],
           Came(worker[w].c)' = Came(worker[w].c),
           out[worker[w].c] = << >> => out'[worker[w].c] = << >>,
           conn'[worker[w].c].peer # "rst" => conn[worker[w].c].peer # "rst"
    PROVE  Serving(w)'
<1>1. PICK c \in Client : c = worker[w].c
  OBVIOUS
<1>2. PICK q : q = worker[w].req
  OBVIOUS
<1>3. PICK k : k = Writing(w)
  OBVIOUS
<1>4. ASSUME up', conn'[c].peer # "rst", c \notin setup.eager
      PROVE  \E n \in 0 .. Num(c)' : Stage(c, n, q, k)'
  <2>1. PICK n \in 0 .. Num(c) : Stage(c, n, q, k)
    BY <1>1, <1>2, <1>3, <1>4 DEF Serving
  <2>2. Num(c)' = Num(c)
    BY LinesStay
  <2>3. Came(c)' = Came(c) /\ sent'[c] = sent[c] /\ inb'[c] = inb[c] /\ (out[c] = << >> => out'[c] = << >>)
    <3>1. Came(worker[w].c)' = Came(worker[w].c)
      OBVIOUS
    <3>2. Came(c)' = Came(worker[w].c)'
      BY <1>1 DEF Came
    <3>3. Came(c) = Came(worker[w].c)
      BY <1>1
    <3> QED BY <1>1, <3>1, <3>2, <3>3
  <2>4. Stage(c, n, q, k)'
    BY <2>1, <2>3, StageStays
  <2> QED BY <2>2, <2>4
<1>5. Writing(w)' = k /\ worker'[w].c = c /\ worker'[w].req = q /\ setup' = setup
  BY <1>1, <1>2, <1>3
<1> QED BY <1>4, <1>5 DEF Serving

\* A client that nothing happens to, or that reads.
LEMMA TurnStays ==
    ASSUME NEW c \in Client, setup' = setup, InTurn(c), Came(c)' = Came(c), conn'[c] = conn[c],
           sent'[c] = sent[c], inb'[c] = inb[c]
    PROVE  InTurn(c)'
<1>1. UL(c)' = UL(c) /\ AL(c)' = AL(c) /\ Num(c)' = Num(c) /\ Expected(c)' = Expected(c)
  BY LinesStay
<1>2. OnCourse(c)'
  BY <1>1 DEF InTurn, OnCourse
<1>3. \A n : Between(c, n) => Between(c, n)'
  BY <1>1 DEF Between, Resting
<1> QED BY <1>1, <1>2, <1>3 DEF InTurn

\* The client has read everything that came, which is n answers.
LEMMA AllRead ==
    ASSUME Traffic, NEW c \in Client, OnCourse(c), out[c] = << >>, NEW n \in 0 .. Num(c), Resting(c, n)
    PROVE  Answered(c) = n
<1>1. Len(got[c]) = Total(AL(c), n) /\ Len(got[c]) \in Nat
  <2>1. Len(<< >>) = 0
    OBVIOUS
  <2>2. Len(Came(c)) = Len(got[c]) + Len(out[c]) /\ Len(got[c]) \in Nat
    BY CameIs
  <2> QED BY <2>1, <2>2 DEF Resting
<1>2. n <= Answered(c)
  BY <1>1, Already
<1>3. Num(c) \in Nat /\ Answered(c) \in 0 .. Num(c)
  BY WholeRequests, AnswersIs
<1>4. CASE n = Num(c)
  BY <1>2, <1>3, <1>4
<1>5. CASE n # Num(c)
  <2>1. n \in Nat /\ n < Num(c)
    BY <1>3, <1>5
  <2>2. Len(got[c]) < Total(AL(c), n + 1)
    <3>1. PICK r \in 1 .. Num(c) : r = n + 1
      BY <1>3, <2>1
    <3>2. Total(AL(c), r) = Total(AL(c), r - 1) + AL(c)[r] /\ AL(c)[r] \in Nat \ {0} /\ r - 1 = n
      BY <2>1, <3>1, AnswersIs
    <3> QED BY <1>1, <3>1, <3>2
  <2>3. Answered(c) <= n
    BY <2>1, <2>2, NotYet
  <2> QED BY <1>2, <1>3, <2>1, <2>3
<1> QED BY <1>4, <1>5

\* The server goes on as before with the others.
LEMMA OthersServed ==
    ASSUME PoolInv, AllInTurn, NEW c \in Client, UNCHANGED <<up, worker, working, stuck, setup>>,
           \A d \in Client \ {c} : /\ sent'[d] = sent[d] /\ inb'[d] = inb[d] /\ conn'[d] = conn[d]
                                   /\ got'[d] = got[d] /\ out'[d] = out[d]
    PROVE  /\ \A d \in Client \ setup.eager : d # c => InTurn(d)'
           /\ \A w \in working' : worker[w].c # c => Serving(w)'
<1>1. \A w \in working : worker[w].c \in Client
  BY DEF PoolInv, Pool, OneEach
<1>2. \A d \in Client \ {c} : Came(d)' = Came(d)
  BY DEF Came
<1>3. \A w : Writing(w)' = Writing(w)
  BY DEF Writing
<1>4. ASSUME NEW d \in Client \ setup.eager, d # c PROVE InTurn(d)'
  BY <1>2, <1>4, TurnStays DEF AllInTurn
<1>5. ASSUME NEW w \in working', worker[w].c # c PROVE Serving(w)'
  <2>1. w \in working /\ worker[w].c \in Client \ {c} /\ Serving(w)
    BY <1>1, <1>5 DEF AllInTurn
  <2>2. /\ Came(worker[w].c)' = Came(worker[w].c) /\ out'[worker[w].c] = out[worker[w].c]
        /\ sent'[worker[w].c] = sent[worker[w].c] /\ inb'[worker[w].c] = inb[worker[w].c]
        /\ conn'[worker[w].c] = conn[worker[w].c]
    <3>1. PICK d \in Client \ {c} : d = worker[w].c
      BY <2>1
    <3>2. worker'[w].c = d
      BY <3>1
    <3>3. Came(d)' = Came(d)
      BY <1>2
    <3>4. Came(worker[w].c)' = Came(d)'
      BY <3>1, <3>2 DEF Came
    <3> QED BY <3>1, <3>3, <3>4
  <2> QED BY <1>3, <2>1, <2>2, ServingStays
<1> QED BY <1>4, <1>5

\* Nobody has sent or read anything.
LEMMA InitTurn == Init => AllInTurn
<1> SUFFICES ASSUME Init PROVE AllInTurn
  OBVIOUS
<1>1. /\ working = {} /\ PoolInv
      /\ \A c \in Client : /\ sent[c] = 0 /\ inb[c] = << >> /\ out[c] = << >> /\ got[c] = << >>
                           /\ conn[c] = [st |-> "idle", peer |-> "on"]
  BY InitPool DEF Init
<1>2. ASSUME NEW c \in Client PROVE InTurn(c)
  <2>1. Came(c) = << >> \o << >>
    BY <1>1 DEF Came
  <2>2. Len(<< >> \o << >>) = 0
    OBVIOUS
  <2>3. Num(c) \in Nat /\ Total(AL(c), Num(c)) \in Nat /\ Total(AL(c), 0) = 0 /\ Total(UL(c), 0) = 0
    BY <1>1, Script, Streams DEF PoolInv, Traffic, InLine
  <2>4. Len(Came(c)) = 0
    BY <2>1, <2>2
  <2>5. OnCourse(c)
    BY <2>3, <2>4 DEF OnCourse
  <2>6. Between(c, 0)
    BY <1>1, <2>3, <2>4 DEF Between, Resting
  <2>7. 0 \in 0 .. Num(c)
    BY <2>3
  <2> QED BY <1>1, <2>5, <2>6, <2>7 DEF InTurn
<1> QED BY <1>1, <1>2 DEF AllInTurn

\* A client that connects has read the answers to all that it has sent.
LEMMA ConnectTurn ==
    ASSUME PoolInv, AllInTurn, NEW c \in Client, Connect(c)
    PROVE  AllInTurn'
<1>1. /\ conn' = [conn EXCEPT ![c] = [st |-> "backlog", peer |-> "on"]]
      /\ inb' = [inb EXCEPT ![c] = << >>]
      /\ UNCHANGED <<up, worker, working, stuck, setup, out, sent, got>>
  BY DEF Connect, poolVars, clientVars
<1>2. /\ conn'[c] = [st |-> "backlog", peer |-> "on"] /\ inb'[c] = << >>
      /\ \A d \in Client \ {c} : conn'[d] = conn[d] /\ inb'[d] = inb[d]
  BY <1>1 DEF PoolInv, Traffic
<1>3. /\ \A d \in Client \ setup.eager : d # c => InTurn(d)'
      /\ \A w \in working' : worker[w].c # c => Serving(w)'
  BY <1>1, <1>2, OthersServed
<1>4. \A w \in working' : worker[w].c # c
  BY <1>1 DEF Connect, PoolInv, Pool, OneEach
<1>5. ASSUME c \notin setup.eager PROVE InTurn(c)'
  <2>1. OnCourse(c) /\ Traffic /\ InTurn(c)
    BY <1>5 DEF AllInTurn, InTurn, PoolInv
  <2>2. PICK n \in 0 .. Num(c) : Resting(c, n) /\ sent[c] = Total(UL(c), n)
    <3>1. CASE conn[c].st = "idle"
      BY <2>1, <3>1 DEF InTurn, Between
    <3>2. CASE /\ conn[c].st = "closed" /\ conn[c].peer = "on" /\ out[c] = << >>
               /\ sent[c] = Len(FlattenSeq([r \in 1 .. Answered(c) |-> Units(c, r)]))
      <4>1. PICK n \in 0 .. Num(c) : Resting(c, n)
        BY <2>1, <3>2 DEF InTurn, Between
      <4>2. Answered(c) = n
        BY <2>1, <3>2, <4>1, AllRead
      <4>3. sent[c] = Total(UL(c), n)
        <5>1. FlattenSeq([r \in 1 .. n |-> Units(c, r)]) = Runs(UL(c), n)
          BY <2>1, Streams DEF Traffic
        <5> QED BY <3>2, <4>2, <5>1 DEF Total
      <4> QED BY <4>1, <4>3
    <3> QED BY <3>1, <3>2 DEF Connect
  <2>3. /\ UL(c)' = UL(c) /\ AL(c)' = AL(c) /\ Num(c)' = Num(c) /\ Expected(c)' = Expected(c)
        /\ Came(c)' = Came(c)
    BY <1>1, LinesStay DEF Came
  <2>4. OnCourse(c)'
    BY <2>1, <2>3 DEF OnCourse
  <2>5. Between(c, n)'
    BY <1>1, <1>2, <2>2, <2>3 DEF Between, Resting
  <2> QED BY <1>2, <2>3, <2>4, <2>5 DEF InTurn
<1> QED BY <1>1, <1>3, <1>4, <1>5 DEF AllInTurn

\* What a client reads moves from the socket to the client: what has come to it on
\* the whole is the same.
LEMMA ReadAnswerTurn ==
    ASSUME PoolInv, AllInTurn, NEW c \in Client, ReadAnswer(c)
    PROVE  AllInTurn'
<1>1. /\ out[c] # << >> /\ got' = [got EXCEPT ![c] = Append(@, Head(out[c]))]
      /\ out' = [out EXCEPT ![c] = Tail(@)]
      /\ UNCHANGED <<up, conn, inb, worker, working, stuck, sent, setup>>
  BY DEF ReadAnswer, poolVars
<1>2. /\ got'[c] = Append(got[c], Head(out[c])) /\ out'[c] = Tail(out[c])
      /\ \A d \in Client \ {c} : got'[d] = got[d] /\ out'[d] = out[d]
  BY <1>1 DEF PoolInv, Traffic
<1>3. Came(c)' = Came(c)
  <2>1. out[c] \in Seq(Item) /\ got[c] \in Seq(Item)
    BY DEF PoolInv, Traffic
  <2>2. Append(got[c], Head(out[c])) \o Tail(out[c]) = got[c] \o out[c]
    BY <1>1, <2>1, AnswerRead
  <2> QED BY <1>2, <2>2 DEF Came
<1>4. /\ \A d \in Client \ setup.eager : d # c => InTurn(d)'
      /\ \A w \in working' : worker[w].c # c => Serving(w)'
  BY <1>1, <1>2, OthersServed
<1>5. c \notin setup.eager => InTurn(c)'
  BY <1>1, <1>3, TurnStays DEF AllInTurn
<1>6. ASSUME NEW w \in working', worker[w].c = c PROVE Serving(w)'
  <2>1. Serving(w) /\ Writing(w)' = Writing(w) /\ worker' = worker
    BY <1>1, <1>6 DEF AllInTurn, Writing
  <2>2. Came(worker[w].c)' = Came(worker[w].c)
    BY <1>1, <1>3, <1>6 DEF Came
  <2> QED BY <1>1, <1>6, <2>1, <2>2, ServingStays
<1> QED BY <1>1, <1>4, <1>5, <1>6 DEF AllInTurn

\* A client that ends its connection promises nothing any more.
LEMMA EndsTurn ==
    ASSUME PoolInv, AllInTurn, NEW c \in Client, Fin(c) \/ Abort(c)
    PROVE  AllInTurn'
<1>1. /\ UNCHANGED <<up, worker, working, stuck, sent, got, setup>>
      /\ \A d \in Client \ {c} : conn'[d] = conn[d] /\ inb'[d] = inb[d] /\ out'[d] = out[d]
      /\ conn'[c].st = "open" /\ conn[c].peer = "on"
      /\ \/ conn'[c].peer = "fin" /\ inb'[c] = inb[c] /\ out'[c] = out[c]
         \/ conn'[c].peer = "rst" /\ inb'[c] = << >> /\ out'[c] = << >>
  <2>1. conn \in [Client -> Conn] /\ inb \in [Client -> Seq(Item)] /\ out \in [Client -> Seq(Item)]
    BY DEF PoolInv, Traffic
  <2>2. CASE Fin(c)
    BY <2>1, <2>2 DEF Fin, poolVars, clientVars, Conn
  <2>3. CASE Abort(c)
    BY <2>1, <2>3 DEF Abort, poolVars, Conn
  <2> QED BY <2>2, <2>3
<1>2. /\ \A d \in Client \ setup.eager : d # c => InTurn(d)'
      /\ \A w \in working' : worker[w].c # c => Serving(w)'
  BY <1>1, OthersServed
<1>3. ASSUME c \notin setup.eager PROVE InTurn(c)'
  <2>1. Traffic /\ OnCourse(c)
    BY <1>3 DEF AllInTurn, InTurn, PoolInv
  <2>2. AL(c)' = AL(c) /\ Num(c)' = Num(c) /\ Expected(c)' = Expected(c)
    BY <1>1, LinesStay
  <2>3. OnCourse(c)'
    <3>1. CASE out'[c] = out[c]
      <4>1. Came(c)' = Came(c)
        BY <1>1, <3>1 DEF Came
      <4> QED BY <2>1, <2>2, <4>1 DEF OnCourse
    <3>2. CASE out'[c] = << >>
      <4>1. /\ Came(c)' = got[c] \o << >> /\ got[c] \in Seq(Item)
        BY <1>1, <2>1, <3>2, CameIs DEF Came
      <4>2. PICK g \in Seq(Item) : g = got[c]
        BY <4>1
      <4>3. g \o << >> = g
        OBVIOUS
      <4>4. Came(c)' = g
        BY <4>1, <4>2, <4>3
      <4>5. /\ Len(Came(c)) = Len(got[c]) + Len(out[c]) /\ Len(g) \in Nat /\ Len(out[c]) \in Nat
            /\ \A i \in 1 .. Len(got[c]) : Came(c)[i] = got[c][i]
        BY <2>1, <4>2, CameIs
      <4>6. PICK a \in Nat : a = Len(g)
        BY <4>5
      <4>7. PICK b \in Nat : b = Len(out[c])
        BY <4>5
      <4>8. Total(AL(c), Num(c)) \in Nat
        <5>1. Num(c) \in 0 .. Num(c)
          BY <2>1, AnswersIs
        <5> QED BY <2>1, <5>1, AnswersIs
      <4>9. a + b <= Total(AL(c), Num(c)) /\ \A i \in 1 .. (a + b) : Came(c)[i] = Expected(c)[i]
        BY <2>1, <4>2, <4>5, <4>6, <4>7 DEF OnCourse
      <4>10. a <= Total(AL(c), Num(c)) /\ \A i \in 1 .. a : i \in 1 .. (a + b)
        BY <4>8, <4>9
      <4>11. \A i \in 1 .. a : g[i] = Expected(c)[i]
        BY <4>2, <4>5, <4>6, <4>9, <4>10
      <4> QED BY <2>2, <4>4, <4>6, <4>10, <4>11 DEF OnCourse
    <3> QED BY <1>1, <3>1, <3>2
  <2> QED BY <1>1, <2>3 DEF InTurn
<1>4. ASSUME NEW w \in working', worker[w].c = c PROVE Serving(w)'
  <2>1. CASE conn'[c].peer = "rst"
    BY <1>1, <1>4, <2>1 DEF Serving
  <2>2. CASE conn'[c].peer # "rst"
    <3>1. Serving(w) /\ Writing(w)' = Writing(w) /\ worker' = worker
      BY <1>1, <1>4 DEF AllInTurn, Writing
    <3>2. Came(worker[w].c)' = Came(worker[w].c)
      BY <1>1, <1>4, <2>2 DEF Came
    <3> QED BY <1>1, <1>4, <2>2, <3>1, <3>2, ServingStays
  <2> QED BY <2>1, <2>2
<1> QED BY <1>1, <1>2, <1>3, <1>4 DEF AllInTurn

\* A client that waits for its answers sends of one request at a time.
LEMMA OneAtATime ==
    ASSUME Traffic, NEW c \in Client \ setup.eager, NEW k \in 1 .. 4, Send(c, k),
           NEW r, r = Answered(c) + 1
    PROVE  /\ r \in 1 .. Num(c) /\ Total(UL(c), r - 1) <= sent[c] /\ sent[c] + k <= Total(UL(c), r)
           /\ Total(UL(c), r - 1) \in Nat /\ Total(UL(c), r) \in Nat
<1> DEFINE U == UL(c)
<1>1. /\ Num(c) \in Nat /\ InLine(U, Num(c)) /\ Stream(c) = Runs(U, Num(c)) /\ sent[c] \in Nat
      /\ Len(Stream(c)) = Total(U, Num(c)) /\ Total(U, Num(c)) \in Nat
  <2>1. Num(c) \in Nat /\ InLine(U, Num(c)) /\ Stream(c) = Runs(U, Num(c))
    BY Script, Streams DEF Traffic
  <2> QED BY <2>1 DEF InLine, Traffic
<1>2. /\ sent[c] + k <= Len(Stream(c)) /\ \A i \in 1 .. k : Segment(c, k)[i][1] = r
  BY DEF Send
<1>3. \A i \in 1 .. k : Segment(c, k)[i] = Stream(c)[sent[c] + i]
  BY <1>2, SegmentOK
<1>4. PICK z \in Nat : z = Len(Stream(c))
  BY <1>1
<1>5. PICK a \in Nat : a = sent[c]
  BY <1>1
<1>6. a + k <= z
  BY <1>2, <1>4, <1>5
<1>7. ASSUME NEW i \in 1 .. k
      PROVE  r \in 1 .. Num(c) /\ \E p \in 1 .. U[r] : a + i = Total(U, r - 1) + p
  <2>1. a + i \in 1 .. z
    BY <1>6
  <2>2. PICK s \in 1 .. Num(c) : \E p \in 1 .. U[s] : a + i = Total(U, s - 1) + p
    BY <1>1, <1>4, <2>1 DEF InLine
  <2>3. PICK p \in 1 .. U[s] : a + i = Total(U, s - 1) + p
    BY <2>2
  <2>4. Stream(c)[a + i] = <<s, p>>
    BY <1>1, <2>3 DEF InLine
  <2>5. s = r
    <3>1. Segment(c, k)[i] = <<s, p>>
      BY <1>3, <1>5, <2>4
    <3>2. Segment(c, k)[i][1] = r
      BY <1>2
    <3> QED BY <3>1, <3>2
  <2> QED BY <2>3, <2>5
<1>8. 1 \in 1 .. k /\ k \in 1 .. k
  OBVIOUS
<1>9. /\ r \in 1 .. Num(c) /\ (\E p \in 1 .. U[r] : a + 1 = Total(U, r - 1) + p)
      /\ \E p \in 1 .. U[r] : a + k = Total(U, r - 1) + p
  BY <1>7, <1>8
<1>10. /\ Total(U, r) = Total(U, r - 1) + U[r] /\ U[r] \in Nat /\ Total(U, r - 1) \in Nat
  <2>1. r - 1 \in 0 .. Num(c)
    BY <1>1, <1>9
  <2> QED BY <1>1, <1>9, <2>1 DEF InLine
<1>11. PICK t \in Nat : t = Total(U, r - 1)
  BY <1>10
<1>12. PICK u \in Nat : u = U[r]
  BY <1>10
<1>13. t <= a /\ a + k <= t + u
  <2>1. PICK p \in 1 .. u : a + 1 = t + p
    BY <1>9, <1>11, <1>12
  <2>2. PICK h \in 1 .. u : a + k = t + h
    BY <1>9, <1>11, <1>12
  <2> QED BY <2>1, <2>2
<1> QED BY <1>5, <1>9, <1>10, <1>11, <1>12, <1>13

\* Of those that are not answered none has been read; the client sends of the
\* next one only if nothing is left to read.
LEMMA NextRequest ==
    ASSUME Traffic, NEW c \in Client \ setup.eager, OnCourse(c), NEW k \in 1 .. 4, Send(c, k),
           NEW n \in 0 .. Num(c), Resting(c, n), Total(UL(c), n) <= sent[c]
    PROVE  /\ n < Num(c) /\ out[c] = << >> /\ sent[c] + k <= Total(UL(c), n + 1)
<1>1. PICK r : r = Answered(c) + 1
  OBVIOUS
<1>2. /\ r \in 1 .. Num(c) /\ sent[c] + k <= Total(UL(c), r) /\ Total(UL(c), r) \in Nat
  BY <1>1, OneAtATime
<1>3. Num(c) \in Nat /\ Answered(c) \in 0 .. Num(c) /\ sent[c] \in Nat /\ InLine(UL(c), Num(c))
  BY WholeRequests, AnswersIs, Streams DEF Traffic
<1>4. n < r
  <2>1. SUFFICES ASSUME r <= n PROVE FALSE
    BY <1>2, <1>3
  <2>2. r \in 0 .. n
    BY <1>2, <1>3, <2>1
  <2>3. Total(UL(c), r) <= Total(UL(c), n) /\ Total(UL(c), n) \in Nat
    BY <1>3, <2>2 DEF InLine
  <2> QED BY <1>2, <1>3, <2>3
<1>5. n \in Nat /\ n < Num(c)
  BY <1>2, <1>3, <1>4
<1>6. /\ Len(got[c]) \in Nat /\ Len(out[c]) \in Nat /\ out[c] \in Seq(Item)
      /\ Len(got[c]) + Len(out[c]) = Total(AL(c), n)
  BY CameIs DEF Resting
<1>g. PICK g \in Nat : g = Len(got[c])
  BY <1>6
<1>o. PICK o \in Nat : o = Len(out[c])
  BY <1>6
<1>7. Total(AL(c), n) \in Nat /\ \E s \in 1 .. Num(c) : s = n + 1 /\ Total(AL(c), n) < Total(AL(c), s)
  <2>1. PICK s \in 1 .. Num(c) : s = n + 1
    BY <1>3, <1>5
  <2>2. Total(AL(c), s) = Total(AL(c), s - 1) + AL(c)[s] /\ AL(c)[s] \in Nat \ {0} /\ s - 1 = n
        /\ Total(AL(c), n) \in Nat
    BY <1>3, <1>5, <2>1, AnswersIs
  <2> QED BY <2>1, <2>2
<1>t. PICK t \in Nat : t = Total(AL(c), n) /\ g + o = t /\ t < Total(AL(c), n + 1)
  BY <1>6, <1>7, <1>g, <1>o
<1>8. Answered(c) <= n
  <2>1. Len(got[c]) < Total(AL(c), n + 1)
    <3>1. PICK z \in Nat : z = Total(AL(c), n + 1)
      <4>1. PICK e \in 1 .. Num(c) : e = n + 1
        BY <1>7
      <4>2. e \in 0 .. Num(c)
        BY <1>3
      <4>3. Total(AL(c), e) \in Nat
        BY <4>2, AnswersIs
      <4> QED BY <4>1, <4>3
    <3>2. g < z
      BY <1>t, <3>1
    <3> QED BY <1>g, <3>1, <3>2
  <2> QED BY <1>5, <2>1, NotYet
<1>9. r = n + 1
  BY <1>1, <1>3, <1>4, <1>5, <1>8
<1>10. out[c] = << >>
  <2>1. SUFFICES ASSUME g < t PROVE FALSE
    <3>1. ~(g < t)
      BY <2>1
    <3>2. Len(out[c]) = 0
      BY <1>o, <1>t, <3>1
    <3> QED BY <1>6, <3>2, EmptySeq
  <2>2. n # 0
    <3>1. Total(AL(c), 0) = 0
      BY Streams DEF Traffic, InLine
    <3> QED BY <1>t, <2>1, <3>1
  <2>3. PICK m \in Nat : m = n - 1
    BY <1>5, <2>2
  <2>4. m < Num(c) /\ Len(got[c]) < Total(AL(c), m + 1)
    <3>1. m < Num(c) /\ m + 1 = n
      BY <1>3, <1>5, <2>3
    <3> QED BY <1>g, <1>t, <2>1, <3>1
  <2>5. Answered(c) <= m
    BY <2>4, NotYet
  <2> QED BY <1>1, <1>3, <1>9, <2>3, <2>5
<1> QED BY <1>2, <1>5, <1>9, <1>10

\* A client that waits for its answers sends no more than its next request, and
\* only when nothing of the answer before is left.
LEMMA SendTurn ==
    ASSUME PoolInv, Steady, AllInTurn, NEW c \in Client, NEW k \in 1 .. 4, Send(c, k)
    PROVE  AllInTurn'
<1>1. /\ conn[c] = [st |-> "open", peer |-> "on"] /\ sent[c] + k <= Len(Stream(c))
      /\ sent' = [sent EXCEPT ![c] = @ + k] /\ inb' = [inb EXCEPT ![c] = @ \o Segment(c, k)]
      /\ UNCHANGED <<up, conn, out, got, worker, working, stuck, setup>>
  BY DEF Send, poolVars
<1>2. /\ sent'[c] = sent[c] + k /\ inb'[c] = inb[c] \o Segment(c, k) /\ Traffic
      /\ \A d \in Client \ {c} : sent'[d] = sent[d] /\ inb'[d] = inb[d]
  BY <1>1 DEF PoolInv, Traffic
<1>3. /\ \A d \in Client \ setup.eager : d # c => InTurn(d)'
      /\ \A w \in working' : worker[w].c # c => Serving(w)'
  BY <1>1, <1>2, OthersServed
<1>4. ASSUME c \notin setup.eager PROVE InTurn(c)'
  <2>1. AL(c)' = AL(c) /\ Num(c)' = Num(c) /\ Expected(c)' = Expected(c) /\ Came(c)' = Came(c)
    BY <1>1, LinesStay DEF Came
  <2>2. OnCourse(c)'
    BY <1>4, <2>1 DEF AllInTurn, InTurn, OnCourse
  <2> QED BY <1>1, <2>2 DEF InTurn
<1>5. Taken(c)' = Taken(c) /\ Taken(c) <= sent[c] /\ Taken(c) \in Nat /\ sent[c] \in Nat
  <2>1. Segment(c, k) \in Seq(Item) /\ Len(Segment(c, k)) = k
    BY <1>1, <1>2, SegmentOK
  <2>2. inb[c] \in Seq(Item) /\ sent[c] \in Nat
    BY <1>2 DEF Traffic
  <2>3. PICK s \in Seq(Item) : s = Segment(c, k)
    BY <2>1
  <2>4. PICK b \in Seq(Item) : b = inb[c]
    BY <2>2
  <2>5. Len(b \o s) = Len(b) + Len(s) /\ Len(b) \in Nat
    BY Behind
  <2>6. PICK y \in Nat : y = Len(b)
    BY <2>5
  <2>7. Len(inb'[c]) = y + k /\ Len(inb[c]) = y /\ Len(inb[c]) <= sent[c]
    <3>1. inb'[c] = b \o s
      BY <1>2, <2>3, <2>4
    <3>2. Len(b \o s) = y + k
      BY <2>1, <2>3, <2>5, <2>6
    <3>3. Len(inb[c]) <= sent[c]
      BY DEF Steady, Waiting
    <3> QED BY <2>4, <2>6, <3>1, <3>2, <3>3
  <2>8. Taken(c)' = sent[c] + k - (y + k) /\ Taken(c) = sent[c] - y /\ y <= sent[c]
    <3>1. Taken(c)' = sent'[c] - Len(inb'[c]) /\ Taken(c) = sent[c] - Len(inb[c])
      BY DEF Taken
    <3>2. sent'[c] = sent[c] + k
      BY <1>2
    <3>l. PICK l : l = Len(inb'[c])
      OBVIOUS
    <3>m. l = y + k /\ Taken(c)' = sent'[c] - l
      BY <2>7, <3>1, <3>l
    <3>3. Taken(c)' = sent[c] + k - (y + k)
      BY <2>2, <3>2, <3>m
    <3>4. Taken(c) = sent[c] - y /\ y <= sent[c]
      BY <2>7, <3>1
    <3> QED BY <3>3, <3>4
  <2> QED BY <2>2, <2>8
<1>6. ASSUME NEW w \in working', worker[w].c = c PROVE Serving(w)'
  <2>1. SUFFICES ASSUME up', c \notin setup'.eager
                 PROVE  \E n \in 0 .. Num(c)' : Stage(c, n, worker[w].req, Writing(w))'
    BY <1>1, <1>6 DEF Serving
  <2>2. PICK q : q = worker[w].req
    OBVIOUS
  <2>3. PICK j : j = Writing(w)
    OBVIOUS
  <2>4. /\ w \in working /\ up /\ c \in Client \ setup.eager /\ Writing(w)' = j /\ worker'[w].req = q
        /\ conn[c].peer # "rst"
    BY <1>1, <1>6, <2>1, <2>2, <2>3 DEF Writing
  <2>5. PICK n \in 0 .. Num(c) : Stage(c, n, q, j)
    BY <1>6, <2>2, <2>3, <2>4 DEF AllInTurn, Serving
  <2>6. OnCourse(c) /\ Num(c) \in Nat
    BY <1>2, <2>4, AnswersIs DEF AllInTurn, InTurn
  <2>7. /\ UL(c)' = UL(c) /\ AL(c)' = AL(c) /\ Num(c)' = Num(c) /\ \A r : Asked(c, r)' = Asked(c, r)
        /\ Came(c)' = Came(c) /\ out'[c] = out[c]
    BY <1>1, LinesStay DEF Came
  <2>8. ASSUME NEW h \in Nat, Resting(c, n), Heard(c, n, h) PROVE Resting(c, n)' /\ Heard(c, n, h)'
    <3>1. Total(UL(c), n) \in Nat
      BY <1>2, <2>6, Streams DEF Traffic, InLine
    <3>2. Total(UL(c), n) <= sent[c]
      BY <1>5, <2>8, <3>1 DEF Heard
    <3>3. n < Num(c) /\ out[c] = << >> /\ sent[c] + k <= Total(UL(c), n + 1)
      BY <1>2, <2>4, <2>6, <2>8, <3>2, NextRequest
    <3>4. Resting(c, n)'
      BY <2>7, <2>8 DEF Resting
    <3>5. Heard(c, n, h)'
      BY <1>2, <1>5, <2>7, <2>8, <3>3 DEF Heard
    <3> QED BY <3>4, <3>5
  <2>9. CASE Idle(c, n, q) /\ j = 0
    <3>1. Idle(c, n, q)'
      BY <2>8, <2>9 DEF Idle
    <3> QED BY <2>4, <2>7, <2>9, <3>1 DEF Stage
  <2>10. CASE Reading(c, n, q) /\ j = 0
    <3>1. Hdr + q.len \in Nat
      <4>1. worker[w] \in WorkerRec /\ q # NoReq
        BY <2>4, <2>10 DEF PoolInv, Pool, Workers, Reading
      <4> QED BY <2>2, <4>1 DEF WorkerRec, Asking, Hdr
    <3>2. Reading(c, n, q)'
      <4>1. PICK h \in Nat : h = Hdr + q.len
        BY <3>1
      <4>2. Resting(c, n)' /\ Heard(c, n, h)'
        BY <2>8, <2>10, <4>1 DEF Reading
      <4> QED BY <2>7, <2>10, <4>1, <4>2 DEF Reading
    <3> QED BY <2>4, <2>7, <2>10, <3>2 DEF Stage
  <2>11. CASE Answering(c, n, q, j)
    <3>1. n < Num(c)
      BY <2>11 DEF Answering
    <3>2. PICK s \in 1 .. Num(c) : s = n + 1
      BY <2>6, <3>1
    <3>3. /\ Total(AL(c), n) \in Nat /\ Total(AL(c), s) = Total(AL(c), n) + AL(c)[s]
          /\ AL(c)[s] = 1 + (IF Asked(c, s).head THEN 0 ELSE Asked(c, s).size) /\ Asked(c, s).size \in Nat
      <4>1. s - 1 = n /\ n \in 0 .. Num(c)
        BY <2>6, <3>2
      <4>2. Total(AL(c), n) \in Nat /\ Total(AL(c), s) = Total(AL(c), s - 1) + AL(c)[s]
        BY <1>2, <4>1, AnswersIs
      <4> QED BY <1>2, <4>1, <4>2, Script, Streams DEF Traffic, Request
    <3>4. CASE Asked(c, s).size > 0
      <4>0. PICK z \in Nat : z = Asked(c, s).size
        BY <3>3
      <4>t. PICK t \in Nat : t = Total(AL(c), n)
        BY <3>3
      <4>a. ~Asked(c, s).head /\ Total(AL(c), s) = t + (1 + z)
        BY <2>11, <3>2, <3>3, <4>0, <4>t DEF Answering
      <4>b. \E i \in 1 .. z : Len(Came(c)) = t + i
        <5>1. CASE j = 0
          <6>1. Len(Came(c)) = t + 1 + q.written /\ q.written < z
            BY <2>11, <3>2, <3>4, <4>0, <4>t, <5>1 DEF Answering
          <6>2. q.written \in Nat
            <7>1. worker[w] \in WorkerRec /\ q # NoReq
              BY <2>4, <2>11 DEF PoolInv, Pool, Workers, Answering
            <7> QED BY <2>2, <7>1 DEF WorkerRec, Asking
          <6>3. PICK y \in Nat : y = q.written
            BY <6>2
          <6>4. 1 + y \in 1 .. z /\ t + 1 + y = t + (1 + y)
            BY <6>1, <6>3
          <6> QED BY <6>1, <6>3, <6>4
        <5>2. CASE j # 0
          BY <2>11, <3>2, <4>0, <4>t, <5>2 DEF Answering
        <5> QED BY <5>1, <5>2
      <4>1. sent[c] = Total(UL(c), s) /\ \E y \in Nat : y = Len(Came(c)) /\ y < t + (1 + z)
        <5>1. PICK i \in 1 .. z : Len(Came(c)) = t + i
          BY <4>b
        <5>2. t + i \in Nat /\ t + i < t + (1 + z)
          OBVIOUS
        <5> QED BY <2>11, <3>2, <3>4, <5>1, <5>2 DEF Answering
      <4>2. Len(got[c]) < Total(AL(c), n + 1)
        <5>1. Len(Came(c)) = Len(got[c]) + Len(out[c]) /\ Len(got[c]) \in Nat /\ Len(out[c]) \in Nat
          BY <1>2, CameIs
        <5>2. PICK g \in Nat : g = Len(got[c])
          BY <5>1
        <5>3. PICK o \in Nat : o = Len(out[c])
          BY <5>1
        <5>4. g < t + (1 + z)
          <6>1. PICK y \in Nat : y = Len(Came(c)) /\ y < t + (1 + z)
            BY <4>1
          <6>2. y = g + o
            BY <5>1, <5>2, <5>3, <6>1
          <6> QED BY <6>1, <6>2
        <5> QED BY <3>2, <4>a, <5>2, <5>4
      <4>3. Answered(c) <= n /\ Answered(c) \in Nat
        <5>1. Answered(c) <= n
          <6>1. n \in Nat
            BY <2>6
          <6>2. Traffic /\ OnCourse(c)
            BY <1>2, <2>6
          <6>3. PICK m \in Nat : m = n
            BY <6>1
          <6>4. m < Num(c) /\ Len(got[c]) < Total(AL(c), m + 1)
            BY <3>1, <4>2, <6>3
          <6>5. Answered(c) <= m
            BY <6>2, <6>4, NotYet
          <6> QED BY <6>3, <6>5
        <5>2. Answered(c) \in 0 .. Num(c)
          BY <1>2, WholeRequests
        <5> QED BY <2>6, <5>1, <5>2
      <4>4. PICK r : r = Answered(c) + 1
        OBVIOUS
      <4>5. r \in 1 .. Num(c) /\ sent[c] + k <= Total(UL(c), r) /\ Total(UL(c), r) \in Nat
        BY <1>2, <2>4, <4>4, OneAtATime
      <4>6. Total(UL(c), r) <= Total(UL(c), s) /\ Total(UL(c), s) \in Nat
        <5>1. r \in 0 .. s /\ s \in 0 .. Num(c)
          BY <2>6, <3>2, <4>3, <4>4
        <5> QED BY <1>2, <5>1, Streams DEF Traffic, InLine
      <4> QED BY <4>1, <4>5, <4>6
    <3>5. CASE ~(Asked(c, s).size > 0)
      <4>1. Answering(c, n, q, j)'
        BY <2>7, <2>11, <3>2, <3>5 DEF Answering
      <4> QED BY <2>4, <2>7, <4>1 DEF Stage
    <3> QED BY <3>4, <3>5
  <2> QED BY <2>5, <2>9, <2>10, <2>11 DEF Stage
<1> QED BY <1>1, <1>3, <1>4, <1>6 DEF AllInTurn

\* The process dies: nobody is served any more, and what came stays.
LEMMA DiedTurn ==
    ASSUME PoolInv, AllInTurn, NEW c \in Client, conn[c].st = "open", Die, UNCHANGED <<sent, got, setup>>,
           inb' = inb \/ inb' = [inb EXCEPT ![c] = << >>]
    PROVE  AllInTurn'
<1>1. up' = FALSE /\ conn' = conn /\ out' = out
  BY DEF Die
<1>2. \A w \in working' : Serving(w)'
  BY <1>1 DEF Serving
<1>3. ASSUME NEW d \in Client \ setup.eager PROVE InTurn(d)'
  <2>1. Came(d)' = Came(d) /\ InTurn(d)
    BY <1>1 DEF Came, AllInTurn
  <2>2. CASE d # c
    <3>1. inb'[d] = inb[d]
      BY <2>2 DEF PoolInv, Traffic
    <3> QED BY <1>1, <2>1, <3>1, TurnStays
  <2>3. CASE d = c
    <3>1. AL(c)' = AL(c) /\ Num(c)' = Num(c) /\ Expected(c)' = Expected(c)
      BY LinesStay
    <3>2. OnCourse(c)'
      BY <2>1, <2>3, <3>1 DEF InTurn, OnCourse
    <3> QED BY <1>1, <2>3, <3>2 DEF InTurn
  <2> QED BY <2>2, <2>3
<1> QED BY <1>2, <1>3 DEF AllInTurn

\* A worker goes on in a callback: the other clients and workers are where they
\* were, and it is left to say where its own client is.
LEMMA WentTurn ==
    ASSUME PoolInv, AllInTurn, NEW w \in working, NEW c \in Client, c = worker[w].c,
           NEW q, NEW write, NEW n \in Nat, Went(w, q, write, n), NEW k, Writing(w)' = k,
           \A v \in working : v # w => Writing(v)' = Writing(v),
           up' = up, UNCHANGED <<sent, got, setup>>,
           \A d \in Client \ {c} : inb'[d] = inb[d] /\ out'[d] = out[d],
           c \notin setup.eager =>
               /\ OnCourse(c)'
               /\ n > 0 /\ conn[c].peer = "on" => \E m \in 0 .. Num(c) : Resting(c, m)'
               /\ n = 0 /\ up /\ conn[c].peer # "rst" => \E m \in 0 .. Num(c) : Stage(c, m, q, k)'
    PROVE  AllInTurn'
<1>1. /\ \A v \in working : worker[v].c \in Client /\ (worker[v].c = c => v = w)
      /\ conn[c].st = "open" /\ working \subseteq Worker /\ conn \in [Client -> Conn]
  BY DEF PoolInv, Traffic, Pool, Workers, OneEach
<1>2. /\ \A v \in Worker \ {w} : worker'[v] = worker[v]
      /\ worker'[w].c = (IF n > 0 THEN None ELSE c) /\ worker'[w].req = q
      /\ working' = (IF n > 0 THEN working \ {w} ELSE working)
      /\ \A d \in Client : conn'[d] = IF n > 0 /\ d = c THEN [st |-> "closed", peer |-> conn[d].peer]
                                      ELSE conn[d]
  BY DEF Went
<1>3. \A d \in Client \ {c} : conn'[d] = conn[d] /\ Came(d)' = Came(d)
  BY <1>2 DEF Came
<1>4. ASSUME NEW d \in Client \ setup.eager PROVE InTurn(d)'
  <2>1. CASE d # c
    BY <1>3, <2>1, TurnStays DEF AllInTurn
  <2>2. CASE d = c
    <3>1. OnCourse(c)' /\ Num(c)' = Num(c)
      BY <2>2, LinesStay
    <3>2. CASE n > 0
      <4>1. conn'[c] = [st |-> "closed", peer |-> conn[c].peer]
        BY <1>2, <3>2
      <4>2. conn[c].peer = "on" => \E m \in 0 .. Num(c) : Between(c, m)'
        BY <2>2, <3>2, <4>1 DEF Between
      <4> QED BY <2>2, <3>1, <4>1, <4>2 DEF InTurn
    <3>3. CASE ~(n > 0)
      <4>1. conn'[c] = conn[c]
        BY <1>2, <3>3
      <4> QED BY <1>1, <2>2, <3>1, <4>1 DEF InTurn
    <3> QED BY <3>2, <3>3
  <2> QED BY <2>1, <2>2
<1>5. ASSUME NEW v \in working' PROVE Serving(v)'
  <2>1. v \in working
    BY <1>2, <1>5
  <2>2. CASE v # w
    <3>1. PICK d \in Client \ {c} : d = worker[v].c
      BY <1>1, <2>1, <2>2
    <3>2. /\ worker'[v] = worker[v] /\ Serving(v) /\ Writing(v)' = Writing(v) /\ v \in Worker
      BY <1>1, <1>2, <2>1, <2>2 DEF AllInTurn
    <3>3. Came(worker[v].c)' = Came(worker[v].c)
      <4>1. Came(d)' = Came(d)
        BY <1>3
      <4>2. Came(worker[v].c)' = Came(d)'
        BY <3>1, <3>2 DEF Came
      <4> QED BY <3>1, <4>1, <4>2
    <3>4. /\ inb'[d] = inb[d] /\ out'[d] = out[d] /\ conn'[d] = conn[d] /\ sent'[d] = sent[d]
      BY <1>3
    <3> QED BY <3>1, <3>2, <3>3, <3>4, ServingStays
  <2>3. CASE v = w
    <3>0. ~(n > 0)
      BY <1>2, <1>5, <2>3
    <3>1. n = 0 /\ worker'[w].c = c /\ worker'[w].req = q /\ conn'[c] = conn[c]
      BY <1>2, <3>0
    <3>2. ASSUME up', conn'[c].peer # "rst", c \notin setup'.eager
          PROVE  \E m \in 0 .. Num(c)' : Stage(c, m, q, k)'
      <4>1. PICK m \in 0 .. Num(c) : Stage(c, m, q, k)'
        BY <3>1, <3>2
      <4>2. Num(c)' = Num(c)
        BY LinesStay
      <4> QED BY <4>1, <4>2
    <3> QED BY <2>3, <3>1, <3>2 DEF Serving
  <2> QED BY <2>2, <2>3
<1> QED BY <1>4, <1>5 DEF AllInTurn

\* A new worker begins with nothing of its client's requests read.
LEMMA AcceptTurn ==
    ASSUME PoolInv, AllInTurn, NEW c \in Client, Accept(c)
    PROVE  AllInTurn'
<1>1. /\ stuck = None /\ stuck' = None /\ conn[c].st = "backlog"
      /\ conn' = [conn EXCEPT ![c].st = "open"] /\ UNCHANGED <<up, inb, out, sent, got, setup>>
  BY DEF Accept, clientVars
<1>2. PICK w \in Worker :
        /\ leisure # << >> => w = Head(leisure)
        /\ leisure = << >> => w = made + 1
        /\ worker' = [worker EXCEPT ![w] = [@ EXCEPT !.c = c, !.write = FALSE, !.resigned = FALSE]]
        /\ working' = working \cup {w}
  BY DEF Accept
<1>3. /\ Workers /\ Lists /\ OneEach /\ Rested /\ conn \in [Client -> Conn]
      /\ worker \in [Worker -> WorkerRec] /\ working \subseteq Worker /\ Worker \subseteq Nat
      /\ leisure \in Seq(Worker) /\ made \in Nat /\ sent \in [Client -> Nat]
  BY WorkerNumbers DEF PoolInv, Pool, Traffic, Workers, Lists
<1>4. w \notin working
  <2>1. CASE leisure # << >>
    <3>1. Head(leisure) \in ToSet(leisure)
      BY <1>3, <2>1, ListShrinks DEF Lists
    <3> HIDE <2>1
    <3> QED BY <1>2, <1>3, <2>1, <3>1 DEF Lists
  <2>2. CASE leisure = << >>
    BY <1>2, <1>3, <2>2 DEF Lists
  <2> QED BY <2>1, <2>2
<1>5. worker'[w].c = c /\ worker'[w].req = NoReq /\ \A v \in working : worker'[v] = worker[v]
  <2>1. worker[w] \in WorkerRec /\ worker[w].req = NoReq
    BY <1>3, <1>4 DEF Rested
  <2> DEFINE k == [worker[w] EXCEPT !.c = c, !.write = FALSE, !.resigned = FALSE]
  <2>2. k.c = c /\ k.req = NoReq
    BY <2>1 DEF WorkerRec
  <2>3. worker' = [worker EXCEPT ![w] = k]
    BY <1>2
  <2> HIDE DEF k
  <2> QED BY <1>3, <1>4, <2>2, <2>3
<1>6. conn'[c].st = "open" /\ conn'[c].peer = conn[c].peer /\ \A d \in Client \ {c} : conn'[d] = conn[d]
  BY <1>1, <1>3 DEF Conn
<1>7. \A d \in Client : Came(d)' = Came(d)
  BY <1>1 DEF Came
<1>8. /\ UL(c)' = UL(c) /\ AL(c)' = AL(c) /\ Num(c)' = Num(c) /\ Expected(c)' = Expected(c)
  BY <1>1, LinesStay
<1>9. ASSUME NEW d \in Client \ setup.eager PROVE InTurn(d)'
  <2>1. CASE d = c
    <3>1. OnCourse(c)'
      BY <1>7, <1>8, <2>1 DEF AllInTurn, InTurn, OnCourse
    <3> QED BY <1>6, <2>1, <3>1 DEF InTurn
  <2>2. CASE d # c
    BY <1>1, <1>6, <1>7, <2>2, TurnStays DEF AllInTurn
  <2> QED BY <2>1, <2>2
<1>10. \A v : Writing(v) = 0 /\ Writing(v)' = 0
  BY <1>1 DEF Writing
<1>11. ASSUME NEW v \in working' PROVE Serving(v)'
  <2>1. CASE v = w
    <3>1. ASSUME c \notin setup.eager PROVE \E n \in 0 .. Num(c) : Stage(c, n, NoReq, 0)'
      <4>1. PICK n \in 0 .. Num(c) : Resting(c, n) /\ inb[c] = << >> /\ sent[c] = Total(UL(c), n)
        BY <1>1, <3>1 DEF AllInTurn, InTurn, Between
      <4>2. /\ Len(inb'[c]) = 0 /\ inb'[c] = << >> /\ sent'[c] = Total(UL(c), n)
        <5>1. Len(<< >>) = 0
          OBVIOUS
        <5> QED BY <1>1, <4>1, <5>1
      <4>3. Total(UL(c), n) \in Nat
        BY <1>3, <4>1
      <4>4. Taken(c)' = Total(UL(c), n) + 0
        BY <4>2, <4>3 DEF Taken
      <4>5. Total(UL(c), n) <= Total(UL(c), IF n < Num(c) THEN n + 1 ELSE n)
        <5>1. /\ Num(c) \in Nat /\ InLine(UL(c), Num(c))
          BY Script, Streams DEF PoolInv, Traffic
        <5>2. CASE n < Num(c)
          <6>1. PICK m \in 0 .. Num(c) : m = n + 1
            BY <5>1, <5>2
          <6>2. n \in 0 .. m
            BY <5>1, <6>1
          <6>3. Total(UL(c), n) <= Total(UL(c), m)
            BY <5>1, <6>2 DEF InLine
          <6> QED BY <5>2, <6>1, <6>3
        <5>3. CASE ~(n < Num(c))
          BY <4>3, <5>3
        <5> QED BY <5>2, <5>3
      <4>6. Heard(c, n, 0)'
        BY <1>8, <4>2, <4>4, <4>5 DEF Heard
      <4>7. Resting(c, n)'
        BY <1>7, <1>8, <4>1 DEF Resting
      <4> QED BY <4>6, <4>7 DEF Stage, Idle
    <3>2. worker'[w].c = c /\ worker'[w].req = NoReq /\ Writing(w)' = 0 /\ setup' = setup
      BY <1>1, <1>5, <1>10
    <3> QED BY <1>8, <2>1, <3>1, <3>2 DEF Serving
  <2>2. CASE v # w
    <3>1. v \in working /\ worker'[v] = worker[v] /\ worker[v].c \in Client /\ worker[v].c # c
          /\ Serving(v)
      BY <1>1, <1>2, <1>3, <1>5, <1>11, <2>2 DEF OneEach, AllInTurn
    <3>2. Came(worker[v].c)' = Came(worker[v].c)
      <4>1. Came(worker[v].c)' = got'[worker[v].c] \o out'[worker[v].c]
        BY <3>1 DEF Came
      <4> QED BY <1>1, <4>1 DEF Came
    <3> QED BY <1>1, <1>6, <1>10, <3>1, <3>2, ServingStays
  <2> QED BY <2>1, <2>2
<1> QED BY <1>1, <1>9, <1>11 DEF AllInTurn

\* No two boundaries are the same.
LEMMA BoundariesApart ==
    ASSUME NEW L, NEW N \in Nat, InLine(L, N), NEW m \in 0 .. N, NEW n \in 0 .. N,
           Total(L, m) = Total(L, n)
    PROVE  m = n
<1>1. ASSUME NEW a \in 0 .. N, NEW b \in 0 .. N, a < b, Total(L, a) = Total(L, b) PROVE FALSE
  <2>1. PICK r \in 1 .. N : r = a + 1
    BY <1>1
  <2>2. r - 1 = a /\ r \in 0 .. b
    BY <1>1, <2>1
  <2>3. /\ Total(L, r) = Total(L, a) + L[r] /\ L[r] \in Nat \ {0} /\ Total(L, r) <= Total(L, b)
        /\ Total(L, a) \in Nat
    <3>1. Total(L, r) = Total(L, r - 1) + L[r] /\ L[r] \in Nat \ {0}
      BY DEF InLine
    <3>2. Total(L, r) <= Total(L, b) /\ Total(L, a) \in Nat
      BY <2>2 DEF InLine
    <3> QED BY <2>2, <3>1, <3>2
  <2> QED BY <1>1, <2>3
<1> QED BY <1>1

\* Between two requests with nothing on its way.
LEMMA IdleAt ==
    ASSUME Traffic, NEW c \in Client, NEW m \in 0 .. Num(c), setup' = setup, sent' = sent,
           inb'[c] = << >>, sent[c] = Total(UL(c), m), Resting(c, m)'
    PROVE  Idle(c, m, NoReq)'
<1>1. /\ UL(c)' = UL(c) /\ Num(c)' = Num(c)
  BY LinesStay
<1>2. /\ Num(c) \in Nat /\ InLine(UL(c), Num(c)) /\ sent[c] \in Nat
  BY Script, Streams DEF Traffic
<1>3. Taken(c)' = Total(UL(c), m) + 0
  <2>1. Len(<< >>) = 0
    OBVIOUS
  <2>2. Taken(c)' = sent[c]
    BY <1>2, <2>1 DEF Taken
  <2> QED BY <1>2, <2>2
<1>4. Total(UL(c), m) <= Total(UL(c), IF m < Num(c) THEN m + 1 ELSE m)
  <2>1. CASE m < Num(c)
    <3>1. PICK k \in 0 .. Num(c) : k = m + 1
      BY <1>2, <2>1
    <3>2. m \in 0 .. k
      BY <1>2, <3>1
    <3>3. Total(UL(c), m) <= Total(UL(c), k)
      BY <1>2, <3>2 DEF InLine
    <3> QED BY <2>1, <3>1, <3>3
  <2>2. CASE ~(m < Num(c))
    BY <1>2, <2>2
  <2> QED BY <2>1, <2>2
<1>5. Heard(c, m, 0)'
  BY <1>1, <1>3, <1>4 DEF Heard
<1> QED BY <1>5 DEF Idle

\* The worker of a client that is gone.
LEMMA OnEndTurn ==
    ASSUME PoolInv, AllInTurn, NEW w \in Worker, OnEnd(w)
    PROVE  AllInTurn'
<1>1. /\ stuck' = stuck /\ w \in working /\ up' = up /\ inb' = inb /\ out' = out
      /\ UNCHANGED <<sent, got, setup>> /\ conn[worker[w].c].peer # "on"
  BY DEF OnEnd, Awake, clientVars
<1>2. PICK c \in Client : c = worker[w].c
  BY <1>1 DEF PoolInv, Pool, OneEach
<1>3. PICK n \in Nat \ {0} : \E b \in BOOLEAN : Goes(w, NoReq, b, n)
  <2>1. PICK n : n = 1 + (IF worker[w].req # NoReq /\ worker[w].req.file
                          THEN Closes(c, worker[w].req) ELSE 0)
    OBVIOUS
  <2>2. n \in Nat \ {0}
    BY <2>1 DEF Closes
  <2>3. Goes(w, NoReq, FALSE, n)
    BY <1>2, <2>1 DEF OnEnd
  <2>4. \E b \in BOOLEAN : Goes(w, NoReq, b, n)
    BY <2>3, Zenon
  <2> QED BY <2>2, <2>4
<1>4. PICK b \in BOOLEAN : Goes(w, NoReq, b, n)
  BY <1>3
<1>5. NoReq \in {NoReq} \cup Asking /\ ReqOK(c, NoReq) /\ n # 0 /\ n \in Nat
      /\ Pool /\ conn \in [Client -> Conn]
  BY DEF ReqOK, PoolInv, Traffic
<1>6. Went(w, NoReq, b, n)
  BY <1>1, <1>2, <1>4, <1>5, GoesKeeps
<1>7. Writing(w)' = Writing(w) /\ \A v \in working : v # w => Writing(v)' = Writing(v)
  BY <1>1 DEF Writing
<1>8. c \notin setup.eager => OnCourse(c)'
  <2>1. /\ Came(c)' = Came(c) /\ AL(c)' = AL(c) /\ Num(c)' = Num(c) /\ Expected(c)' = Expected(c)
    BY <1>1, LinesStay DEF Came
  <2> QED BY <2>1 DEF AllInTurn, InTurn, OnCourse
<1>9. PICK k : k = Writing(w)
  OBVIOUS
<1> QED BY <1>1, <1>2, <1>5, <1>6, <1>7, <1>8, <1>9, WentTurn

\* What a client that waits for its answers has sent when a worker reads.
LEMMA WhatIsRead ==
    ASSUME PoolInv, Steady, AllInTurn, up, stuck = None, NEW w \in working,
           NEW c \in Client \ setup.eager, c = worker[w].c, inb[c] # << >>,
           worker[w].req # NoReq \/ HasHeader(inb[c]), NEW q, q = Parsed(worker[w].req, inb[c])
    PROVE  \E n \in 0 .. Num(c) :
               /\ n < Num(c) /\ q.r = n + 1
               /\ \/ /\ Resting(c, n) /\ out[c] = << >> /\ ~q.file /\ q.written = 0
                     /\ sent[c] <= Total(UL(c), n + 1)
                  \/ ~Complete(c, q) /\ Answering(c, n, q, 0) /\ ~(Asked(c, n + 1).size > 0)
<1> DEFINE o == worker[w].req
<1>1. /\ q \in Asking /\ q # NoReq /\ ReqOK(c, q)
      /\ o # NoReq => q.r = o.r /\ q.file = o.file /\ q.written = o.written /\ q.len >= o.len + 1
      /\ o = NoReq => ~q.file /\ q.written = 0 /\ Taken(c) = Total(UL(c), q.r - 1)
  BY ChunkRead
<1>2. /\ Num(c) \in Nat /\ q.r \in 1 .. Num(c) /\ q.r \in Nat /\ InLine(UL(c), Num(c))
  BY <1>1, Script, Streams DEF PoolInv, Traffic, ReqOK, Asking
<1>3. conn[c].peer # "rst" /\ Writing(w) = 0 /\ Serving(w)
  BY DEF Steady, Begins, Writing, AllInTurn
<1>4. PICK n \in 0 .. Num(c) : Stage(c, n, o, 0)
  BY <1>3 DEF Serving
<1>5. CASE Idle(c, n, o)
  <2>1. Taken(c) = Total(UL(c), n) /\ out[c] = << >> /\ Resting(c, n)
        /\ sent[c] <= Total(UL(c), IF n < Num(c) THEN n + 1 ELSE n)
    <3>1. Total(UL(c), n) \in Nat
      BY <1>2 DEF InLine
    <3> QED BY <1>5, <3>1 DEF Idle, Heard
  <2>2. PICK m \in 0 .. Num(c) : m = q.r - 1
    BY <1>2
  <2>3. m = n
    <3>1. Total(UL(c), m) = Total(UL(c), n)
      BY <1>1, <1>5, <2>1, <2>2 DEF Idle
    <3> QED BY <1>2, <3>1, BoundariesApart
  <2>4. n < Num(c) /\ q.r = n + 1
    BY <1>2, <2>2, <2>3
  <2>5. ~q.file /\ q.written = 0
    BY <1>1, <1>5 DEF Idle
  <2> QED BY <2>1, <2>4, <2>5
<1>6. CASE Reading(c, n, o)
  <2>1. /\ n < Num(c) /\ q.r = n + 1 /\ Resting(c, n) /\ out[c] = << >> /\ ~q.file /\ q.written = 0
        /\ sent[c] <= Total(UL(c), n + 1)
    BY <1>1, <1>6 DEF Reading, Heard
  <2> QED BY <2>1
<1>7. CASE Answering(c, n, o, 0)
  <2>1. n < Num(c) /\ q.r = n + 1 /\ ~(Asked(c, n + 1).size > 0)
    BY <1>1, <1>7 DEF Answering
  <2>2. PICK r \in 1 .. Num(c) : r = n + 1 /\ r = q.r
    BY <1>2, <2>1
  <2>3. Asked(c, r).body \in Nat
    BY Script DEF PoolInv, Traffic, Request
  <2>4. PICK b \in Nat : b = Asked(c, n + 1).body
    BY <2>2, <2>3
  <2>5. q.len \in Nat /\ o.len \in Nat /\ o # NoReq
    <3>1. worker[w] \in WorkerRec /\ o # NoReq
      BY <1>7 DEF PoolInv, Pool, Workers, Answering
    <3> QED BY <1>1, <3>1 DEF WorkerRec, Asking
  <2>6. o.len >= b
    BY <1>7, <2>4 DEF Answering
  <2>7. q.len >= b /\ q.len # b
    BY <1>1, <2>5, <2>6
  <2>8. ~Complete(c, q)
    BY <2>1, <2>4, <2>7 DEF Complete
  <2>9. Answering(c, n, q, 0)
    BY <1>1, <1>7, <2>4, <2>5, <2>7 DEF Answering
  <2> QED BY <2>1, <2>8, <2>9
<1> QED BY <1>4, <1>5, <1>6, <1>7 DEF Stage

\* The request behind the first n, and its answer.
LEMMA AtRequest ==
    ASSUME Traffic, NEW c \in Client, NEW n \in 0 .. Num(c), n < Num(c)
    PROVE  /\ n \in Nat /\ n + 1 \in 1 .. Num(c) /\ n + 1 \in 0 .. Num(c) /\ Asked(c, n + 1) \in Request
           /\ AL(c)[n + 1] = 1 + (IF Asked(c, n + 1).head THEN 0 ELSE Asked(c, n + 1).size)
           /\ Total(AL(c), n) \in Nat /\ Total(AL(c), n + 1) = Total(AL(c), n) + AL(c)[n + 1]
           /\ Total(UL(c), n) \in Nat
           /\ Total(UL(c), n + 1) = Total(UL(c), n) + Hdr + Asked(c, n + 1).body
<1>1. Num(c) \in Nat /\ InLine(UL(c), Num(c)) /\ InLine(AL(c), Num(c))
  BY Script, Streams DEF Traffic
<1>2. PICK r \in 1 .. Num(c) : r = n + 1
  BY <1>1
<1>3. r - 1 = n /\ r \in 0 .. Num(c) /\ n \in Nat
  BY <1>1, <1>2
<1>4. /\ AL(c)[r] = 1 + (IF Asked(c, r).head THEN 0 ELSE Asked(c, r).size)
      /\ UL(c)[r] = Hdr + Asked(c, r).body
  BY Streams DEF Traffic
<1>5. Asked(c, r) \in Request
  BY Script DEF Traffic
<1>6. Total(AL(c), n) \in Nat /\ Total(AL(c), r) = Total(AL(c), n) + AL(c)[r]
  <2>1. Total(AL(c), r) = Total(AL(c), r - 1) + AL(c)[r]
    BY <1>1 DEF InLine
  <2>2. Total(AL(c), n) \in Nat
    BY <1>1 DEF InLine
  <2> QED BY <1>3, <2>1, <2>2
<1>7. Total(UL(c), n) \in Nat /\ Total(UL(c), r) = Total(UL(c), n) + UL(c)[r]
  <2>1. Total(UL(c), r) = Total(UL(c), r - 1) + UL(c)[r]
    BY <1>1 DEF InLine
  <2>2. Total(UL(c), n) \in Nat
    BY <1>1 DEF InLine
  <2> QED BY <1>3, <2>1, <2>2
<1>8. Total(UL(c), r) = Total(UL(c), n) + Hdr + Asked(c, r).body
  <2>1. PICK b \in Nat : b = Asked(c, r).body
    BY <1>5 DEF Request
  <2> QED BY <1>4, <1>7, <2>1 DEF Hdr
<1> QED BY <1>2, <1>3, <1>4, <1>5, <1>6, <1>7, <1>8

\* A request that is not there to its end yet.
LEMMA ReadsOn ==
    ASSUME Traffic, NEW c \in Client, NEW n \in 0 .. Num(c), n < Num(c), NEW q \in Asking,
           q # NoReq, ~q.file, q.written = 0, q.r = n + 1,
           sent[c] = Total(UL(c), q.r - 1) + Hdr + q.len, sent[c] <= Total(UL(c), n + 1),
           Resting(c, n), out[c] = << >>, inb'[c] = << >>, UNCHANGED <<out, got, sent, setup>>
    PROVE  Reading(c, n, q)'
<1>1. /\ UL(c)' = UL(c) /\ AL(c)' = AL(c) /\ Num(c)' = Num(c) /\ Came(c)' = Came(c)
  BY LinesStay DEF Came
<1>2. n \in Nat /\ Total(UL(c), n) \in Nat /\ sent[c] \in Nat /\ q.len \in Nat
  BY AtRequest DEF Traffic, Asking
<1>3. sent[c] = Total(UL(c), n) + (Hdr + q.len)
  <2>1. PICK m \in Nat : m = q.r - 1 /\ m = n
    BY <1>2
  <2>2. sent[c] = Total(UL(c), m) + Hdr + q.len
    BY <2>1
  <2> QED BY <1>2, <2>1, <2>2 DEF Hdr
<1>4. Taken(c)' = Total(UL(c), n) + (Hdr + q.len)
  <2>1. Len(<< >>) = 0
    OBVIOUS
  <2>2. Taken(c)' = sent[c]
    BY <1>2, <2>1 DEF Taken
  <2> QED BY <1>3, <2>2
<1>5. Resting(c, n)' /\ Heard(c, n, Hdr + q.len)'
  BY <1>1, <1>4 DEF Resting, Heard
<1> QED BY <1>1, <1>5 DEF Reading

\* The headers of the next answer go to a client that has read all.
LEMMA HeaderSent ==
    ASSUME Traffic, NEW c \in Client, NEW n \in 0 .. Num(c), n < Num(c), OnCourse(c),
           Resting(c, n), out[c] = << >>, out' = [out EXCEPT ![c] = WithHeader(c, n + 1)],
           UNCHANGED <<got, setup>>
    PROVE  OnCourse(c)' /\ Len(Came(c))' = Total(AL(c), n) + 1
<1> DEFINE o == out[c]
<1>1. /\ n \in Nat /\ Total(AL(c), n) \in Nat /\ AL(c)[n + 1] \in Nat /\ 1 <= AL(c)[n + 1]
  BY AtRequest DEF Request
<1>2. o \in Seq(Item) /\ Len(o) = 0 /\ Room(c) > 0
  <2>1. Len(<< >>) = 0
    OBVIOUS
  <2> QED BY <2>1, RoomIs, HttpAssumption
<1>3. PICK t \in Item : t = <<n + 1, 1>>
  <2>1. <<n + 1, 1>> \in Item
    BY <1>1 DEF Item
  <2> QED BY <2>1
<1>4. PICK x : x = Append(o, t)
  OBVIOUS
<1>5. out'[c] = x
  BY <1>2, <1>3, <1>4 DEF WithHeader, Traffic
<1>6. x \in Seq(Item) /\ Len(x) = Len(o) + 1 /\ x[Len(o) + 1] = t
      /\ \A i \in 1 .. Len(o) : x[i] = o[i]
  <2> HIDE DEF o
  <2> QED BY <1>2, <1>4, AppendProperties
<1>7. PICK j \in Nat : j = 0
  OBVIOUS
<1>8. PICK m \in Nat : m = 1
  OBVIOUS
<1>9. \A i \in 1 .. m : x[Len(o) + i] = <<n + 1, j + i>>
  BY <1>3, <1>6, <1>7, <1>8
<1>10. Len(Came(c)) = Total(AL(c), n) + j /\ j + m <= AL(c)[n + 1] /\ Len(x) = Len(o) + m
  BY <1>1, <1>6, <1>7, <1>8 DEF Resting
<1>11. OnCourse(c)' /\ Len(Came(c))' = Total(AL(c), n) + j + m
  <2>1. x \in Seq(Item) /\ out'[c] = x /\ got'[c] = got[c] /\ n \in Nat /\ setup' = setup
    BY <1>1, <1>5, <1>6
  <2>2. /\ Len(Came(c)) = Total(AL(c), n) + j /\ j + m <= AL(c)[n + 1] /\ Len(x) = Len(out[c]) + m
        /\ \A i \in 1 .. Len(out[c]) : x[i] = out[c][i]
        /\ \A i \in 1 .. m : x[Len(out[c]) + i] = <<n + 1, j + i>>
    BY <1>6, <1>9, <1>10, Zenon
  <2> HIDE DEF o
  <2> QED BY ONLY <2>1, <2>2, CourseGrows, Traffic, OnCourse(c), n < Num(c), Zenon
<1> QED BY <1>1, <1>7, <1>8, <1>11

\* What came of a client to which nothing is sent and which reads nothing.
LEMMA CourseStays ==
    ASSUME NEW c \in Client, OnCourse(c), setup' = setup, got'[c] = got[c], out'[c] = out[c]
    PROVE  OnCourse(c)' /\ Came(c)' = Came(c)
<1>1. /\ Came(c)' = Came(c) /\ AL(c)' = AL(c) /\ Num(c)' = Num(c) /\ Expected(c)' = Expected(c)
  BY LinesStay DEF Came
<1> QED BY <1>1 DEF OnCourse

\* A receive that leaves the worker waiting for more.
LEMMA ReadTurn ==
    ASSUME PoolInv, Steady, AllInTurn, up, stuck = None, stuck' = None, NEW w \in working,
           NEW c \in Client, c = worker[w].c, inb[c] # << >>,
           worker[w].req # NoReq \/ HasHeader(inb[c]), NEW q, q = Parsed(worker[w].req, inb[c]),
           NEW write \in BOOLEAN, Goes(w, q, write, 0), inb' = [inb EXCEPT ![c] = << >>],
           UNCHANGED <<up, out, sent, got, setup>>
    PROVE  AllInTurn'
<1>1. /\ q \in Asking /\ q # NoReq /\ ReqOK(c, q) /\ q \in {NoReq} \cup Asking
      /\ sent[c] = Total(UL(c), q.r - 1) + Hdr + q.len
  BY ChunkRead
<1>2. /\ Traffic /\ Pool /\ conn \in [Client -> Conn]
  BY DEF PoolInv, Traffic
<1>3. PICK z \in Nat : z = 0
  OBVIOUS
<1>4. Goes(w, q, write, z) /\ ~(z > 0)
  BY <1>3
<1>5. Went(w, q, write, z)
  BY <1>1, <1>2, <1>4, GoesKeeps
<1>6. inb'[c] = << >> /\ \A d \in Client \ {c} : inb'[d] = inb[d] /\ out'[d] = out[d]
  BY <1>2 DEF Traffic
<1>7. Writing(w)' = 0 /\ \A v \in working : v # w => Writing(v)' = Writing(v)
  BY DEF Writing
<1>8. ASSUME c \notin setup.eager
      PROVE  OnCourse(c)' /\ \E m \in 0 .. Num(c) : Stage(c, m, q, 0)'
  <2>1. OnCourse(c)' /\ Came(c)' = Came(c)
    <3>1. OnCourse(c)
      BY <1>8 DEF AllInTurn, InTurn
    <3> QED BY <3>1, CourseStays
  <2>2. PICK n \in 0 .. Num(c) :
            /\ n < Num(c) /\ q.r = n + 1
            /\ \/ /\ Resting(c, n) /\ out[c] = << >> /\ ~q.file /\ q.written = 0
                  /\ sent[c] <= Total(UL(c), n + 1)
               \/ ~Complete(c, q) /\ Answering(c, n, q, 0) /\ ~(Asked(c, n + 1).size > 0)
    BY <1>8, WhatIsRead
  <2>3. ASSUME Resting(c, n), out[c] = << >>, ~q.file, q.written = 0, sent[c] <= Total(UL(c), n + 1)
        PROVE  Stage(c, n, q, 0)'
    <3>1. Reading(c, n, q)'
      BY <1>1, <1>2, <1>6, <2>2, <2>3, ReadsOn
    <3> QED BY <3>1 DEF Stage
  <2>4. ASSUME Answering(c, n, q, 0), ~(Asked(c, n + 1).size > 0)
        PROVE  Stage(c, n, q, 0)'
    <3>1. AL(c)' = AL(c) /\ Num(c)' = Num(c) /\ Asked(c, n + 1)' = Asked(c, n + 1)
      BY LinesStay
    <3>2. Answering(c, n, q, 0)'
      BY <2>1, <2>4, <3>1 DEF Answering
    <3> QED BY <3>2 DEF Stage
  <2> QED BY <2>1, <2>2, <2>3, <2>4
<1>9. PICK k : k = 0
  OBVIOUS
<1>10. c \notin setup.eager =>
          /\ OnCourse(c)'
          /\ z > 0 /\ conn[c].peer = "on" => \E m \in 0 .. Num(c) : Resting(c, m)'
          /\ z = 0 /\ up /\ conn[c].peer # "rst" => \E m \in 0 .. Num(c) : Stage(c, m, q, k)'
  BY <1>4, <1>8, <1>9
<1> QED BY <1>5, <1>6, <1>7, <1>9, <1>10, WentTurn

\* The request is read to its end: its headers are sent, and of its body
\* nothing yet, a first unit next, or nothing at all.
LEMMA RespondTurn ==
    ASSUME PoolInv, Steady, AllInTurn, up, stuck = None, NEW w \in working,
           NEW c \in Client, c = worker[w].c, inb[c] # << >>,
           worker[w].req # NoReq \/ HasHeader(inb[c]), NEW q, q = Parsed(worker[w].req, inb[c]),
           Complete(c, q), Respond(w, q), inb' = [inb EXCEPT ![c] = << >>],
           UNCHANGED <<up, sent, got, setup>>
    PROVE  AllInTurn'
<1>1. /\ q \in Asking /\ q # NoReq /\ ReqOK(c, q) /\ q \in {NoReq} \cup Asking
      /\ sent[c] = Total(UL(c), q.r) /\ q.len = Asked(c, q.r).body
  BY ChunkRead DEF Complete
<1>2. /\ Traffic /\ Pool /\ conn \in [Client -> Conn] /\ worker[w].write \in BOOLEAN
  BY DEF PoolInv, Traffic, Pool, Workers, WorkerRec
<1>3. PICK e \in BOOLEAN : e = (worker[w].write \/ WaitsWritable(Asked(c, q.r)))
  OBVIOUS
<1>4. /\ out' = [out EXCEPT ![c] = WithHeader(c, q.r)]
      /\ \/ /\ Asked(c, q.r).file /\ ~Asked(c, q.r).head
            /\ Goes(w, [q EXCEPT !.file = TRUE], e, 0) /\ stuck' = stuck
         \/ /\ Asked(c, q.r).head \/ (~Asked(c, q.r).file /\ Asked(c, q.r).size = 0)
            /\ Goes(w, NoReq, e, Closes(c, q)) /\ stuck' = stuck
         \/ /\ ~Asked(c, q.r).head /\ ~Asked(c, q.r).file /\ Asked(c, q.r).size > 0
            /\ Goes(w, q, e, 0) /\ stuck' = [w |-> w, n |-> 0]
  BY <1>3 DEF Respond
<1>5. inb'[c] = << >> /\ \A d \in Client \ {c} : inb'[d] = inb[d] /\ out'[d] = out[d]
  BY <1>2, <1>4 DEF Traffic
<1>6. ASSUME c \notin setup.eager
      PROVE  \E n \in 0 .. Num(c) :
                 /\ n < Num(c) /\ q.r = n + 1 /\ ~q.file /\ q.written = 0
                 /\ OnCourse(c)' /\ Len(Came(c))' = Total(AL(c), n) + 1
  <2>1. PICK n \in 0 .. Num(c) :
            /\ n < Num(c) /\ q.r = n + 1
            /\ Resting(c, n) /\ out[c] = << >> /\ ~q.file /\ q.written = 0
    BY <1>6, WhatIsRead
  <2>2. OnCourse(c)
    BY <1>6 DEF AllInTurn, InTurn
  <2>3. OnCourse(c)' /\ Len(Came(c))' = Total(AL(c), n) + 1
    BY <1>2, <1>4, <2>1, <2>2, HeaderSent
  <2> QED BY <2>1, <2>3
<1>7. PICK z \in Nat : z = 0
  OBVIOUS
<1>8. /\ AL(c)' = AL(c) /\ UL(c)' = UL(c) /\ Num(c)' = Num(c)
      /\ \A r : Asked(c, r)' = Asked(c, r)
  BY LinesStay
<1>9. ASSUME Asked(c, q.r).file, ~Asked(c, q.r).head,
             Goes(w, [q EXCEPT !.file = TRUE], e, 0), stuck' = stuck
      PROVE  AllInTurn'
  <2>1. PICK f : f = [q EXCEPT !.file = TRUE]
    OBVIOUS
  <2>2. f \in Asking /\ f.r = q.r /\ f.len = q.len /\ f.written = q.written /\ f.file
    BY <1>1, <2>1 DEF Asking
  <2>3. f # NoReq /\ ReqOK(c, f) /\ f \in {NoReq} \cup Asking
    <3>1. f # NoReq
      BY <2>2 DEF Asking, NoReq
    <3> QED BY <1>1, <2>2, <3>1 DEF ReqOK
  <2>4. Goes(w, f, e, z) /\ ~(z > 0)
    BY <1>7, <1>9, <2>1
  <2>5. Went(w, f, e, z)
    BY <1>2, <2>3, <2>4, GoesKeeps
  <2>6. Writing(w)' = 0 /\ \A v \in working : v # w => Writing(v)' = Writing(v)
    BY <1>9 DEF Writing
  <2>7. ASSUME c \notin setup.eager
        PROVE  OnCourse(c)' /\ \E m \in 0 .. Num(c) : Stage(c, m, f, 0)'
    <3>1. PICK n \in 0 .. Num(c) :
                 /\ n < Num(c) /\ q.r = n + 1 /\ q.written = 0
                 /\ OnCourse(c)' /\ Len(Came(c))' = Total(AL(c), n) + 1
      BY <1>6, <2>7
    <3>2. PICK s \in Nat : s = Asked(c, n + 1).size
      BY <1>2, <3>1, AtRequest DEF Request
    <3>3. Total(AL(c), n) \in Nat /\ n \in Nat
      BY <1>2, <3>1, AtRequest
    <3>4. PICK b \in Nat : b = Asked(c, n + 1).body
      BY <1>2, <3>1, AtRequest DEF Request
    <3>5. /\ f.len >= b /\ ~Asked(c, n + 1).head /\ sent[c] = Total(UL(c), n + 1)
          /\ f.written = 0 /\ f.r = n + 1
      BY <1>1, <1>9, <2>2, <3>1, <3>4
    <3>6. Len(Came(c))' = Total(AL(c), n) + 1 + f.written
      BY <3>1, <3>3, <3>5
    <3>7. s > 0 => f.written < s
      BY <3>2, <3>5
    <3>8. Answering(c, n, f, 0)'
      BY <1>5, <1>8, <2>2, <2>3, <3>1, <3>2, <3>4, <3>5, <3>6, <3>7 DEF Answering
    <3> QED BY <3>1, <3>8 DEF Stage
  <2>8. PICK k : k = 0
    OBVIOUS
  <2>9. c \notin setup.eager =>
          /\ OnCourse(c)'
          /\ z > 0 /\ conn[c].peer = "on" => \E m \in 0 .. Num(c) : Resting(c, m)'
          /\ z = 0 /\ up /\ conn[c].peer # "rst" => \E m \in 0 .. Num(c) : Stage(c, m, f, k)'
    BY <2>4, <2>7, <2>8
  <2> QED BY <1>5, <2>5, <2>6, <2>8, <2>9, WentTurn
<1>10. ASSUME ~Asked(c, q.r).head, ~Asked(c, q.r).file, Asked(c, q.r).size > 0,
              Goes(w, q, e, 0), stuck' = [w |-> w, n |-> 0]
       PROVE  AllInTurn'
  <2>4. Goes(w, q, e, z) /\ ~(z > 0)
    BY <1>7, <1>10
  <2>5. Went(w, q, e, z)
    BY <1>1, <1>2, <2>4, GoesKeeps
  <2>6. Writing(w)' = 1 /\ \A v \in working : v # w => Writing(v)' = Writing(v)
    <3>1. stuck'.w = w /\ stuck'.n = 0
      BY <1>10
    <3>2. stuck' # None
      <4>1. w \in Nat
        BY <1>2, WorkerNumbers DEF Pool, Workers
      <4>2. [w |-> w, n |-> 0] \in [w : Nat, n : Nat]
        BY <4>1
      <4> QED BY <1>10, <4>2, HttpAssumption
    <3> QED BY <3>1, <3>2 DEF Writing
  <2>7. ASSUME c \notin setup.eager
        PROVE  OnCourse(c)' /\ \E m \in 0 .. Num(c) : Stage(c, m, q, 1)'
    <3>1. PICK n \in 0 .. Num(c) :
                 /\ n < Num(c) /\ q.r = n + 1 /\ ~q.file
                 /\ OnCourse(c)' /\ Len(Came(c))' = Total(AL(c), n) + 1
      BY <1>6, <2>7
    <3>2. PICK s \in Nat : s = Asked(c, n + 1).size
      BY <1>2, <3>1, AtRequest DEF Request
    <3>4. PICK b \in Nat : b = Asked(c, n + 1).body
      BY <1>2, <3>1, AtRequest DEF Request
    <3>5. /\ q.len >= b /\ ~Asked(c, n + 1).head /\ sent[c] = Total(UL(c), n + 1) /\ 1 \in 1 .. s
      BY <1>1, <1>10, <3>1, <3>2, <3>4
    <3>8. Answering(c, n, q, 1)'
      BY <1>1, <1>5, <1>8, <3>1, <3>2, <3>4, <3>5 DEF Answering
    <3> QED BY <3>1, <3>8 DEF Stage
  <2>8. PICK k : k = 1
    OBVIOUS
  <2>9. c \notin setup.eager =>
          /\ OnCourse(c)'
          /\ z > 0 /\ conn[c].peer = "on" => \E m \in 0 .. Num(c) : Resting(c, m)'
          /\ z = 0 /\ up /\ conn[c].peer # "rst" => \E m \in 0 .. Num(c) : Stage(c, m, q, k)'
    BY <2>4, <2>7, <2>8
  <2> QED BY <1>5, <2>5, <2>6, <2>8, <2>9, WentTurn
<1>11. ASSUME Asked(c, q.r).head \/ Asked(c, q.r).size = 0,
              Goes(w, NoReq, e, Closes(c, q)), stuck' = stuck
       PROVE  AllInTurn'
  <2>1. PICK l \in Nat : l = Closes(c, q)
    BY DEF Closes
  <2>2. ReqOK(c, NoReq) /\ NoReq \in {NoReq} \cup Asking /\ Goes(w, NoReq, e, l)
    BY <1>11, <2>1 DEF ReqOK
  <2>5. Went(w, NoReq, e, l)
    BY <1>2, <2>2, GoesKeeps
  <2>6. Writing(w)' = 0 /\ \A v \in working : v # w => Writing(v)' = Writing(v)
    BY <1>11 DEF Writing
  <2>7. ASSUME c \notin setup.eager
        PROVE  OnCourse(c)' /\ \E m \in 0 .. Num(c) : Resting(c, m)' /\ Stage(c, m, NoReq, 0)'
    <3>1. PICK n \in 0 .. Num(c) :
                 /\ n < Num(c) /\ q.r = n + 1
                 /\ OnCourse(c)' /\ Len(Came(c))' = Total(AL(c), n) + 1
      BY <1>6, <2>7
    <3>2. AL(c)[n + 1] = 1 /\ Total(AL(c), n + 1) = Total(AL(c), n) + AL(c)[n + 1]
          /\ n + 1 \in 0 .. Num(c)
      BY <1>2, <1>11, <3>1, AtRequest
    <3>3. Resting(c, n + 1)'
      BY <1>8, <3>1, <3>2 DEF Resting
    <3>4. PICK m \in 0 .. Num(c) : m = n + 1
      BY <3>2
    <3>5. sent[c] = Total(UL(c), m) /\ Resting(c, m)'
      BY <1>1, <3>1, <3>3, <3>4
    <3>6. Idle(c, m, NoReq)'
      BY <1>2, <1>5, <3>5, IdleAt
    <3> QED BY <3>1, <3>5, <3>6 DEF Stage
  <2>8. PICK k : k = 0
    OBVIOUS
  <2>9. c \notin setup.eager =>
          /\ OnCourse(c)'
          /\ l > 0 /\ conn[c].peer = "on" => \E m \in 0 .. Num(c) : Resting(c, m)'
          /\ l = 0 /\ up /\ conn[c].peer # "rst" => \E m \in 0 .. Num(c) : Stage(c, m, NoReq, k)'
    BY <2>7, <2>8
  <2> QED BY <1>5, <2>5, <2>6, <2>8, <2>9, WentTurn
<1> QED BY <1>4, <1>9, <1>10, <1>11

\* The units that a worker takes are the next ones of the request it reads, and its
\* answer, if the request is whole, is the next one.
LEMMA OnReadTurn ==
    ASSUME PoolInv, Steady, AllInTurn, NEW w \in Worker, OnRead(w)
    PROVE  AllInTurn'
<1>1. /\ up /\ stuck = None /\ w \in working /\ UNCHANGED <<sent, got, setup>>
      /\ conn[worker[w].c].st = "open"
  BY DEF OnRead, Awake, clientVars
<1>2. PICK c \in Client : c = worker[w].c
  BY <1>1 DEF PoolInv, Pool, OneEach
<1>3. PICK q : q = Parsed(worker[w].req, inb[c])
  OBVIOUS
<1>4. PICK write : write = worker[w].write
  OBVIOUS
<1>5. /\ inb[c] # << >> /\ inb' = [inb EXCEPT ![c] = << >>]
      /\ \/ Die
         \/ /\ worker[w].req # NoReq \/ HasHeader(inb[c])
            /\ Goes(w, q, write, 0) /\ UNCHANGED <<up, out, stuck>>
         \/ /\ worker[w].req # NoReq \/ HasHeader(inb[c])
            /\ Complete(c, q) /\ Respond(w, q) /\ UNCHANGED up
  BY <1>2, <1>3, <1>4 DEF OnRead
<1>6. write \in BOOLEAN
  BY <1>1, <1>4 DEF PoolInv, Pool, Workers, WorkerRec
<1>7. CASE Die
  BY <1>1, <1>2, <1>5, <1>7, DiedTurn
<1>8. ASSUME worker[w].req # NoReq \/ HasHeader(inb[c]),
             Goes(w, q, write, 0), UNCHANGED <<up, out, stuck>>
      PROVE  AllInTurn'
  <2>1. stuck' = None /\ UNCHANGED <<up, out, sent, got, setup>> /\ inb' = [inb EXCEPT ![c] = << >>]
        /\ inb[c] # << >>
    BY <1>1, <1>5, <1>8
  <2> QED BY <1>1, <1>2, <1>3, <1>6, <1>8, <2>1, ReadTurn
<1>9. ASSUME worker[w].req # NoReq \/ HasHeader(inb[c]),
             Complete(c, q), Respond(w, q), UNCHANGED up
      PROVE  AllInTurn'
  <2>1. UNCHANGED <<up, sent, got, setup>> /\ inb' = [inb EXCEPT ![c] = << >>] /\ inb[c] # << >>
    BY <1>1, <1>5, <1>9
  <2> QED BY <1>1, <1>2, <1>3, <1>9, <2>1, RespondTurn
<1> QED BY <1>5, <1>7, <1>8, <1>9

\* Where the worker of a client that waits for its answers is.
LEMMA WhereItIs ==
    ASSUME AllInTurn, up, NEW w \in working, NEW c \in Client \ setup.eager, c = worker[w].c,
           conn[c].peer # "rst"
    PROVE  OnCourse(c) /\ \E n \in 0 .. Num(c) : Stage(c, n, worker[w].req, Writing(w))
  BY DEF AllInTurn, InTurn, Serving

\* Some more units of an answer go out.
LEMMA MoreSent ==
    ASSUME Traffic, NEW c \in Client, OnCourse(c), setup' = setup, got'[c] = got[c],
           NEW n \in Nat, n < Num(c), NEW j \in Nat, NEW z \in Seq(Item),
           Len(Came(c)) = Total(AL(c), n) + j, j + Len(z) <= AL(c)[n + 1],
           \A i \in 1 .. Len(z) : z[i] = <<n + 1, j + i>>, out'[c] = out[c] \o z
    PROVE  OnCourse(c)' /\ Len(Came(c))' = Total(AL(c), n) + j + Len(z)
<1> DEFINE o == out[c]
<1>1. o \in Seq(Item)
  BY DEF Traffic
<1>2. PICK x : x = o \o z
  OBVIOUS
<1>3. PICK m \in Nat : m = Len(z)
  BY LenProperties
<1> HIDE DEF o
<1>4. /\ x \in Seq(Item) /\ Len(x) = Len(o) + m
      /\ \A i \in 1 .. Len(o) : x[i] = o[i]
      /\ \A i \in 1 .. m : x[Len(o) + i] = <<n + 1, j + i>>
  BY <1>1, <1>2, <1>3, Behind
<1>5. /\ x \in Seq(Item) /\ Len(x) = Len(out[c]) + m
      /\ \A i \in 1 .. Len(out[c]) : x[i] = out[c][i]
      /\ \A i \in 1 .. m : x[Len(out[c]) + i] = <<n + 1, j + i>>
  BY <1>4 DEF o
<1>6. out'[c] = x
  BY <1>2 DEF o
<1>7. n < Num(c) /\ Len(Came(c)) = Total(AL(c), n) + j /\ j + m <= AL(c)[n + 1]
      /\ setup' = setup /\ got'[c] = got[c]
  BY <1>3
<1>8. OnCourse(c)' /\ Len(Came(c))' = Total(AL(c), n) + j + m
  BY ONLY <1>5, <1>6, <1>7, Traffic, OnCourse(c), CourseGrows, ZenonT(40)
<1> QED BY <1>3, <1>8

\* A piece of a file goes out.
LEMMA PieceSent ==
    ASSUME Traffic, NEW c \in Client, NEW n \in 0 .. Num(c), OnCourse(c), NEW q \in Asking,
           q # NoReq, q.file, ReqOK(c, q), Stage(c, n, q, 0), NEW m \in Nat, NEW y,
           m = FileChunk(c, q).pieces,
           y = FileChunk(c, q).written,
           out' = [out EXCEPT ![c] = @ \o [i \in 1 .. m |-> <<q.r, 1 + q.written + i>>]],
           UNCHANGED <<got, setup>>
    PROVE  /\ Answering(c, n, q, 0) /\ y \in 0 .. Asked(c, n + 1).size
           /\ OnCourse(c)' /\ Len(Came(c))' = Total(AL(c), n) + 1 + y
<1>1. Answering(c, n, q, 0)
  BY DEF Stage, Idle, Reading
<1>2. q # NoReq /\ n < Num(c) /\ q.r = n + 1 /\ ~Asked(c, n + 1).head
      /\ Len(Came(c)) = Total(AL(c), n) + 1 + q.written
  BY <1>1 DEF Answering
<1>3. n \in Nat /\ Asked(c, n + 1) \in Request
  BY <1>2, AtRequest
<1>4. PICK t \in Nat : t = Total(AL(c), n)
  BY <1>2, AtRequest
<1>5. PICK d \in Nat : d = q.written
  BY DEF Asking
<1>6. PICK s \in Nat : s = Asked(c, n + 1).size
  BY <1>3 DEF Request
<1>7. AL(c)[n + 1] = 1 + s
  BY <1>2, <1>6, AtRequest
<1>8. y \in 0 .. s /\ y = d + m
  BY <1>2, <1>5, <1>6, ChunkFits
<1>9. PICK j \in Nat : j = 1 + d
  OBVIOUS
<1>10. PICK z : z = [i \in 1 .. m |-> <<q.r, 1 + q.written + i>>]
  OBVIOUS
<1>11. \A i \in 1 .. m : z[i] = <<n + 1, j + i>>
  BY <1>2, <1>5, <1>9, <1>10
<1>12. z \in Seq(Item) /\ Len(z) = m
  <2>1. ASSUME NEW i \in 1 .. m PROVE z[i] \in Item
    <3>1. z[i] = <<n + 1, j + i>> /\ n + 1 \in Nat /\ j + i \in Nat
      BY <1>3, <1>11
    <3> QED BY <3>1 DEF Item
  <2>2. z \in [1 .. m -> Item]
    BY <1>10, <2>1
  <2> QED BY <2>2, Tabulated
<1>13. \A i \in 1 .. Len(z) : z[i] = <<n + 1, j + i>>
  BY <1>11, <1>12
<1>14. out'[c] = out[c] \o z
  <2>1. PICK o : o = out[c] \o z
    OBVIOUS
  <2>2. out' = [out EXCEPT ![c] = o] /\ out \in [Client -> Seq(Item)]
    BY <1>10, <2>1 DEF Traffic
  <2>3. out'[c] = o
    BY ONLY <2>2, Zenon
  <2> QED BY <2>1, <2>3
<1>15. j + Len(z) <= AL(c)[n + 1]
  <2>1. j + m <= 1 + s
    BY ONLY <1>8, <1>9
  <2> QED BY ONLY <1>7, <1>12, <2>1
<1>16. Len(Came(c)) = Total(AL(c), n) + j
  <2>1. Len(Came(c)) = t + 1 + d
    BY ONLY <1>2, <1>4, <1>5
  <2>2. t + 1 + d = t + j
    BY ONLY <1>9
  <2> QED BY <1>4, <2>1, <2>2
<1>17. OnCourse(c)' /\ Len(Came(c))' = Total(AL(c), n) + j + m
  <2>1. n < Num(c) /\ n \in Nat /\ z \in Seq(Item) /\ setup' = setup /\ got'[c] = got[c]
    BY <1>2, <1>3, <1>12
  <2>2. OnCourse(c)' /\ Len(Came(c))' = Total(AL(c), n) + j + Len(z)
    BY ONLY <1>13, <1>14, <1>15, <1>16, <2>1, Traffic, OnCourse(c), MoreSent, Zenon
  <2> QED BY <1>12, <2>2
<1>18. Total(AL(c), n) + j + m = Total(AL(c), n) + 1 + y
  <2>1. t + j + m = t + 1 + y
    BY ONLY <1>8, <1>9
  <2> QED BY <1>4, <2>1
<1> QED BY <1>1, <1>6, <1>8, <1>17, <1>18

\* The next piece of a file is the next piece of the answer that is under way.
LEMMA OnWriteTurn ==
    ASSUME PoolInv, Steady, AllInTurn, NEW w \in Worker, OnWrite(w)
    PROVE  AllInTurn'
<1>1. /\ up /\ stuck = None /\ stuck' = None /\ w \in working /\ UNCHANGED <<sent, got, setup>>
      /\ inb' = inb /\ conn[worker[w].c].st = "open" /\ worker[w].req # NoReq
  BY DEF OnWrite, Awake, clientVars
<1>2. PICK c \in Client : c = worker[w].c
  BY <1>1 DEF PoolInv, Pool, OneEach
<1>3. PICK q : q = worker[w].req
  OBVIOUS
<1>4. /\ Traffic /\ Pool /\ conn \in [Client -> Conn] /\ q # NoReq /\ q \in Asking /\ ReqOK(c, q)
  <2>1. worker[w] \in WorkerRec /\ ReqOK(c, q) /\ q # NoReq
    BY <1>1, <1>2, <1>3 DEF PoolInv, Pool, Workers
  <2>2. q \in Asking
    BY <1>3, <2>1 DEF WorkerRec
  <2> QED BY <2>1, <2>2 DEF PoolInv, Traffic
<1>5. PICK m \in Nat : m = FileChunk(c, q).pieces
  BY <1>4, ChunkFits
<1>6. PICK y : y = FileChunk(c, q).written
  OBVIOUS
<1>7. Writing(w) = 0 /\ Writing(w)' = 0 /\ \A v \in working : v # w => Writing(v)' = Writing(v)
  BY <1>1 DEF Writing
<1>8. PICK k : k = 0
  OBVIOUS
<1>9. PICK l \in Nat : l = Closes(c, q)
  BY DEF Closes
<1>10. \/ ~q.file /\ Goes(w, NoReq, FALSE, 1) /\ up' = up /\ out' = out
       \/ q.file /\ conn[c].peer = "rst" /\ Goes(w, NoReq, FALSE, 1 + l) /\ up' = up /\ out' = out
       \/ /\ q.file /\ conn[c].peer # "rst" /\ up' = up
          /\ out' = [out EXCEPT ![c] = @ \o [i \in 1 .. m |-> <<q.r, 1 + q.written + i>>]]
          /\ \/ y = Asked(c, q.r).size /\ Goes(w, NoReq, FALSE, 1 + l)
             \/ y # Asked(c, q.r).size /\ Goes(w, [q EXCEPT !.written = y], TRUE, 0)
       \/ Die
  BY <1>2, <1>3, <1>5, <1>6, <1>9, Zenon DEF OnWrite
<1>11. ASSUME NEW n \in Nat \ {0}, Goes(w, NoReq, FALSE, n), up' = up,
              \A d \in Client \ {c} : out'[d] = out[d],
              c \notin setup.eager => OnCourse(c)',
              c \notin setup.eager /\ conn[c].peer = "on" => \E i \in 0 .. Num(c) : Resting(c, i)'
       PROVE  AllInTurn'
  <2>1. PICK b \in BOOLEAN : Goes(w, NoReq, b, n)
    BY <1>11, Zenon
  <2>2. ReqOK(c, NoReq) /\ NoReq \in {NoReq} \cup Asking /\ n # 0 /\ n \in Nat
    BY DEF ReqOK
  <2>3. Went(w, NoReq, b, n)
    BY <1>1, <1>2, <1>4, <2>1, <2>2, GoesKeeps
  <2>4. c \notin setup.eager =>
          /\ OnCourse(c)'
          /\ n > 0 /\ conn[c].peer = "on" => \E i \in 0 .. Num(c) : Resting(c, i)'
          /\ n = 0 /\ up /\ conn[c].peer # "rst" => \E i \in 0 .. Num(c) : Stage(c, i, NoReq, k)'
    BY <1>11, <2>2
  <2>5. \A d \in Client \ {c} : inb'[d] = inb[d] /\ out'[d] = out[d]
    BY <1>1, <1>11
  <2> QED BY <1>1, <1>2, <1>7, <1>8, <1>11, <2>2, <2>3, <2>4, <2>5, WentTurn
<1>12. ASSUME c \notin setup.eager, out' = out PROVE OnCourse(c)' /\ Came(c)' = Came(c)
  <2>1. OnCourse(c)
    BY <1>12 DEF AllInTurn, InTurn
  <2> QED BY <1>1, <1>12, <2>1, CourseStays
<1>13. 1 + l \in Nat \ {0} /\ 1 \in Nat \ {0}
  OBVIOUS
<1>14. ASSUME ~q.file, Goes(w, NoReq, FALSE, 1), up' = up, out' = out PROVE AllInTurn'
  <2>1. ASSUME c \notin setup.eager, conn[c].peer = "on" PROVE \E i \in 0 .. Num(c) : Resting(c, i)'
    <3>1. PICK n \in 0 .. Num(c) : Stage(c, n, q, 0)
      BY <1>1, <1>2, <1>3, <1>7, <2>1, WhereItIs
    <3>2. Resting(c, n)
      BY <1>4, <1>14, <3>1 DEF Stage, Idle, Reading, Answering
    <3>3. Resting(c, n)'
      BY <1>1, <1>12, <1>14, <2>1, <3>2, LinesStay DEF Resting
    <3> QED BY <3>3
  <2> QED BY <1>11, <1>12, <1>13, <1>14, <2>1
<1>15. ASSUME conn[c].peer = "rst", Goes(w, NoReq, FALSE, 1 + l), up' = up, out' = out PROVE AllInTurn'
  BY <1>11, <1>12, <1>13, <1>15
<1>16. ASSUME q.file, conn[c].peer # "rst", up' = up, c \notin setup.eager,
              out' = [out EXCEPT ![c] = @ \o [i \in 1 .. m |-> <<q.r, 1 + q.written + i>>]]
       PROVE  /\ OnCourse(c)'
              /\ \E n \in 0 .. Num(c) :
                    /\ Answering(c, n, q, 0) /\ y \in 0 .. Asked(c, n + 1).size
                    /\ Len(Came(c))' = Total(AL(c), n) + 1 + y
  <2>1. PICK n \in 0 .. Num(c) : OnCourse(c) /\ Stage(c, n, q, 0)
    BY <1>1, <1>2, <1>3, <1>7, <1>16, WhereItIs
  <2>2. got' = got /\ setup' = setup
    BY <1>1
  <2>3. /\ Answering(c, n, q, 0) /\ y \in 0 .. Asked(c, n + 1).size
        /\ OnCourse(c)' /\ Len(Came(c))' = Total(AL(c), n) + 1 + y
    BY <1>4, <1>5, <1>6, <1>16, <2>1, <2>2, PieceSent, ZenonT(40)
  <2> QED BY <2>3
<1>17. ASSUME q.file, conn[c].peer # "rst", up' = up,
              out' = [out EXCEPT ![c] = @ \o [i \in 1 .. m |-> <<q.r, 1 + q.written + i>>]],
              y = Asked(c, q.r).size, Goes(w, NoReq, FALSE, 1 + l)
       PROVE  AllInTurn'
  <2>1. \A d \in Client \ {c} : out'[d] = out[d]
    BY <1>4, <1>17 DEF Traffic
  <2>2. c \notin setup.eager => OnCourse(c)'
    BY <1>16, <1>17
  <2>3. ASSUME c \notin setup.eager PROVE \E i \in 0 .. Num(c) : Resting(c, i)'
    <3>1. PICK n \in 0 .. Num(c) : /\ Answering(c, n, q, 0) /\ Len(Came(c))' = Total(AL(c), n) + 1 + y
      BY <1>16, <1>17, <2>3
    <3>2. n < Num(c) /\ q.r = n + 1 /\ ~Asked(c, n + 1).head
      BY <3>1 DEF Answering
    <3>3. /\ AL(c)[n + 1] = 1 + y /\ y \in Nat /\ Total(AL(c), n) \in Nat
          /\ Total(AL(c), n + 1) = Total(AL(c), n) + AL(c)[n + 1] /\ n + 1 \in 0 .. Num(c)
      BY <1>4, <1>17, <3>2, AtRequest DEF Request
    <3>4. Len(Came(c))' = Total(AL(c), n + 1)
      <4>1. PICK t \in Nat : t = Total(AL(c), n)
        BY <3>3
      <4>2. Total(AL(c), n + 1) = t + (1 + y) /\ Len(Came(c))' = t + 1 + y
        BY <3>1, <3>3, <4>1
      <4> QED BY <3>3, <4>2
    <3>5. AL(c)' = AL(c)
      BY <1>1, LinesStay
    <3>6. Resting(c, n + 1)'
      BY <3>4, <3>5 DEF Resting
    <3> QED BY <3>3, <3>6
  <2> QED BY <1>11, <1>13, <1>17, <2>1, <2>2, <2>3
<1>18. ASSUME q.file, conn[c].peer # "rst", up' = up,
              out' = [out EXCEPT ![c] = @ \o [i \in 1 .. m |-> <<q.r, 1 + q.written + i>>]],
              y # Asked(c, q.r).size, Goes(w, [q EXCEPT !.written = y], TRUE, 0)
       PROVE  AllInTurn'
  <2>1. PICK f : f = [q EXCEPT !.written = y]
    OBVIOUS
  <2>2. y \in 0 .. Asked(c, q.r).size /\ Asked(c, q.r).size \in Nat
    <3>1. Asked(c, q.r).size \in Nat
      BY <1>4, Script DEF ReqOK, Traffic, Request
    <3> QED BY <1>4, <1>6, <3>1, ChunkFits
  <2>3. f \in Asking /\ f.r = q.r /\ f.len = q.len /\ f.written = y /\ f.file = q.file
    BY <1>4, <2>1, <2>2 DEF Asking
  <2>4. f # NoReq /\ ReqOK(c, f) /\ f \in {NoReq} \cup Asking
    <3>1. f # NoReq
      BY <2>3 DEF Asking, NoReq
    <3> QED BY <1>4, <2>2, <2>3, <3>1 DEF ReqOK
  <2>5. PICK z \in Nat : z = 0
    OBVIOUS
  <2>6. PICK b \in BOOLEAN : Goes(w, f, b, z)
    <3>1. \E b \in BOOLEAN : Goes(w, [q EXCEPT !.written = y], b, 0)
      BY <1>18, Zenon
    <3> QED BY <2>1, <2>5, <3>1
  <2>7. Went(w, f, b, z) /\ ~(z > 0)
    <3>1. ~(z > 0)
      BY <2>5
    <3> QED BY <1>1, <1>2, <1>4, <2>4, <2>6, <3>1, GoesKeeps
  <2>8. \A d \in Client \ {c} : inb'[d] = inb[d] /\ out'[d] = out[d]
    BY <1>1, <1>4, <1>18 DEF Traffic
  <2>9. ASSUME c \notin setup.eager PROVE \E i \in 0 .. Num(c) : Stage(c, i, f, 0)'
    <3>1. PICK n \in 0 .. Num(c) : /\ Answering(c, n, q, 0) /\ Len(Came(c))' = Total(AL(c), n) + 1 + y
      BY <1>16, <1>18, <2>9
    <3>2. PICK s \in Nat : s = Asked(c, q.r).size
      BY <2>2
    <3>3. /\ n < Num(c) /\ q.r = n + 1 /\ ~Asked(c, n + 1).head /\ q.len >= Asked(c, n + 1).body
          /\ s = Asked(c, n + 1).size
          /\ s > 0 => inb[c] = << >> /\ sent[c] = Total(UL(c), n + 1)
      BY <3>1, <3>2 DEF Answering
    <3>4. y < s
      BY <1>18, <2>2, <3>2
    <3>5. /\ AL(c)' = AL(c) /\ UL(c)' = UL(c) /\ Num(c)' = Num(c) /\ Asked(c, n + 1)' = Asked(c, n + 1)
      BY <1>1, LinesStay
    <3>6. Answering(c, n, f, 0)'
      BY <1>1, <1>18, <2>3, <2>4, <3>1, <3>3, <3>4, <3>5 DEF Answering
    <3> QED BY <3>6 DEF Stage
  <2>10. c \notin setup.eager =>
          /\ OnCourse(c)'
          /\ z > 0 /\ conn[c].peer = "on" => \E i \in 0 .. Num(c) : Resting(c, i)'
          /\ z = 0 /\ up /\ conn[c].peer # "rst" => \E i \in 0 .. Num(c) : Stage(c, i, f, k)'
    BY <1>8, <1>16, <1>18, <2>7, <2>9
  <2> QED BY <1>1, <1>2, <1>7, <1>8, <1>18, <2>7, <2>8, <2>10, WentTurn
<1>19. CASE Die
  BY <1>1, <1>2, <1>19, DiedTurn
<1> QED BY <1>10, <1>14, <1>15, <1>17, <1>18, <1>19

\* The next unit of an answer goes out.
LEMMA UnitSent ==
    ASSUME Traffic, NEW c \in Client, OnCourse(c), setup' = setup, got'[c] = got[c],
           NEW n \in Nat, n < Num(c), NEW j \in Nat,
           Len(Came(c)) = Total(AL(c), n) + j, j + 1 <= AL(c)[n + 1],
           out'[c] = Append(out[c], <<n + 1, j + 1>>)
    PROVE  OnCourse(c)' /\ Len(Came(c))' = Total(AL(c), n) + j + 1
<1> DEFINE o == out[c]
<1>1. o \in Seq(Item)
  BY DEF Traffic
<1>2. <<n + 1, j + 1>> \in Item
  BY DEF Item
<1>3. PICK t \in Item : t = <<n + 1, j + 1>>
  BY <1>2
<1>4. PICK x : x = Append(o, t)
  OBVIOUS
<1>5. PICK m \in Nat : m = 1
  OBVIOUS
<1> HIDE DEF o
<1>6. x \in Seq(Item) /\ Len(x) = Len(o) + m /\ x[Len(o) + 1] = t
      /\ \A i \in 1 .. Len(o) : x[i] = o[i]
  BY <1>1, <1>4, <1>5, AppendProperties
<1>7. \A i \in 1 .. m : x[Len(o) + i] = <<n + 1, j + i>>
  BY <1>3, <1>5, <1>6
<1>8. /\ x \in Seq(Item) /\ Len(x) = Len(out[c]) + m
      /\ \A i \in 1 .. Len(out[c]) : x[i] = out[c][i]
      /\ \A i \in 1 .. m : x[Len(out[c]) + i] = <<n + 1, j + i>>
  BY <1>6, <1>7 DEF o
<1>9. out'[c] = x
  BY <1>3, <1>4 DEF o
<1>10. n < Num(c) /\ Len(Came(c)) = Total(AL(c), n) + j /\ j + m <= AL(c)[n + 1]
       /\ setup' = setup /\ got'[c] = got[c]
  BY <1>5
<1>11. OnCourse(c)' /\ Len(Came(c))' = Total(AL(c), n) + j + m
  BY ONLY <1>8, <1>9, <1>10, Traffic, OnCourse(c), CourseGrows, Zenon
<1> QED BY <1>5, <1>11

\* One unit of the body, the last ones, or the end of the process.
LEMMA WriteBodyTurn ==
    ASSUME PoolInv, Steady, AllInTurn, WriteBody
    PROVE  AllInTurn'
<1>1. /\ up /\ stuck # None /\ UNCHANGED <<sent, got, setup>> /\ inb' = inb
  BY DEF WriteBody, clientVars
<1>2. /\ stuck \in [w : Worker, n : Nat] /\ stuck.w \in working /\ worker[stuck.w].req # NoReq
  BY <1>1 DEF PoolInv, StuckOK
<1>3. PICK w \in working : w = stuck.w
  BY <1>2
<1>4. PICK c \in Client : c = worker[w].c /\ conn[c].st = "open"
  BY <1>1 DEF PoolInv, Pool, OneEach
<1>5. PICK q : q = worker[w].req
  OBVIOUS
<1>6. PICK k \in Nat : k = stuck.n + 1
  BY <1>2
<1>7. PICK write : write = worker[w].write
  OBVIOUS
<1>8. /\ Traffic /\ Pool /\ q # NoReq /\ q \in Asking /\ write \in BOOLEAN
      /\ conn \in [Client -> Conn]
  <2>1. worker[w] \in WorkerRec /\ q # NoReq
    BY <1>2, <1>3, <1>5 DEF PoolInv, Pool, Workers
  <2>2. q \in Asking /\ write \in BOOLEAN
    BY <1>5, <1>7, <2>1 DEF WorkerRec
  <2> QED BY <2>1, <2>2 DEF PoolInv, Traffic
<1>9. PICK x : x = Append(out[c], <<q.r, k + 1>>)
  OBVIOUS
<1>10. \/ Die
       \/ /\ conn[c].peer # "rst" /\ out' = [out EXCEPT ![c] = x] /\ up' = up
          /\ \/ /\ k < Asked(c, q.r).size /\ stuck' = [stuck EXCEPT !.n = k]
                /\ UNCHANGED <<poolVars, conn>>
             \/ /\ ~(k < Asked(c, q.r).size) /\ stuck' = None /\ Goes(w, NoReq, write, Closes(c, q))
  BY <1>1, <1>3, <1>4, <1>5, <1>6, <1>7, <1>9, Zenon DEF WriteBody
<1>11. CASE Die
  BY <1>1, <1>4, <1>11, DiedTurn
<1>12. Writing(w) = k /\ \A v \in working : v # w => Writing(v) = 0
  BY <1>1, <1>2, <1>3, <1>6 DEF Writing
<1>13. ASSUME conn[c].peer # "rst", out' = [out EXCEPT ![c] = x], c \notin setup.eager
       PROVE  /\ OnCourse(c)'
              /\ \E n \in 0 .. Num(c) :
                    /\ n < Num(c) /\ q.r = n + 1 /\ ~Asked(c, n + 1).head /\ ~q.file
                    /\ q.len >= Asked(c, n + 1).body /\ k \in 1 .. Asked(c, n + 1).size
                    /\ inb[c] = << >> /\ sent[c] = Total(UL(c), n + 1)
                    /\ Len(Came(c))' = Total(AL(c), n) + k + 1
  <2>1. PICK n \in 0 .. Num(c) : OnCourse(c) /\ Stage(c, n, q, k)
    BY <1>1, <1>4, <1>5, <1>12, <1>13, WhereItIs
  <2>2. Answering(c, n, q, k) /\ k # 0
    BY <1>2, <1>6, <2>1 DEF Stage
  <2>3. /\ n < Num(c) /\ q.r = n + 1 /\ ~Asked(c, n + 1).head /\ ~q.file
        /\ q.len >= Asked(c, n + 1).body /\ k \in 1 .. Asked(c, n + 1).size
        /\ Len(Came(c)) = Total(AL(c), n) + k
        /\ Asked(c, n + 1).size > 0 => inb[c] = << >> /\ sent[c] = Total(UL(c), n + 1)
    BY <2>2 DEF Answering
  <2>4. PICK s \in Nat : s = Asked(c, n + 1).size
    BY <1>8, <2>3, AtRequest DEF Request
  <2>5. n \in Nat /\ k + 1 <= AL(c)[n + 1] /\ s > 0
    <3>1. n \in Nat /\ AL(c)[n + 1] = 1 + s
      BY <1>8, <2>3, <2>4, AtRequest
    <3>2. k <= s /\ s > 0
      BY <2>3, <2>4
    <3> QED BY <3>1, <3>2
  <2>6. out'[c] = Append(out[c], <<n + 1, k + 1>>) /\ setup' = setup /\ got'[c] = got[c]
    BY <1>1, <1>8, <1>9, <1>13, <2>3 DEF Traffic
  <2>7. OnCourse(c)' /\ Len(Came(c))' = Total(AL(c), n) + k + 1
    <3>1. Len(Came(c)) = Total(AL(c), n) + k /\ n < Num(c) /\ Traffic /\ OnCourse(c)
      BY <1>8, <2>1, <2>3
    <3> QED BY ONLY <2>5, <2>6, <3>1, UnitSent
  <2> QED BY <2>3, <2>4, <2>5, <2>7
<1>14. ASSUME conn[c].peer # "rst", out' = [out EXCEPT ![c] = x], up' = up,
              k < Asked(c, q.r).size, stuck' = [stuck EXCEPT !.n = k], UNCHANGED <<poolVars, conn>>
       PROVE  AllInTurn'
  <2>1. /\ worker' = worker /\ working' = working /\ conn' = conn
    BY <1>14 DEF poolVars
  <2>2. PICK z \in Nat : z = 0
    OBVIOUS
  <2>3. ~(z > 0)
    BY <2>2
  <2>4. Went(w, q, write, z)
    BY <1>4, <1>5, <1>7, <2>1, <2>2, <2>3 DEF Went
  <2>5. PICK l \in Nat : l = k + 1
    OBVIOUS
  <2>6. Writing(w)' = l /\ \A v \in working : v # w => Writing(v)' = Writing(v)
    <3>1. stuck'.w = w /\ stuck'.n = k /\ stuck' \in [w : Nat, n : Nat]
      <4>1. Worker \subseteq Nat
        BY WorkerNumbers
      <4> QED BY <1>2, <1>3, <1>14, <4>1
    <3>2. stuck' # None
      BY <3>1, HttpAssumption
    <3> QED BY <1>12, <2>5, <3>1, <3>2 DEF Writing
  <2>7. \A d \in Client \ {c} : inb'[d] = inb[d] /\ out'[d] = out[d]
    BY <1>1, <1>8, <1>14 DEF Traffic
  <2>8. ASSUME c \notin setup.eager PROVE OnCourse(c)' /\ \E i \in 0 .. Num(c) : Stage(c, i, q, l)'
    <3>1. OnCourse(c)'
      BY <1>13, <1>14, <2>8
    <3>2. PICK n \in 0 .. Num(c) :
                    /\ n < Num(c) /\ q.r = n + 1 /\ ~Asked(c, n + 1).head /\ ~q.file
                    /\ q.len >= Asked(c, n + 1).body /\ k \in 1 .. Asked(c, n + 1).size
                    /\ inb[c] = << >> /\ sent[c] = Total(UL(c), n + 1)
                    /\ Len(Came(c))' = Total(AL(c), n) + k + 1
      BY <1>13, <1>14, <2>8
    <3>3. PICK s \in Nat : s = Asked(c, n + 1).size
      BY <1>8, <3>2, AtRequest DEF Request
    <3>4. l \in 1 .. s /\ Len(Came(c))' = Total(AL(c), n) + l
      <4>1. l \in 1 .. s
        BY <1>14, <2>5, <3>2, <3>3
      <4>2. PICK t \in Nat : t = Total(AL(c), n)
        BY <1>8, <3>2, AtRequest
      <4>3. t + k + 1 = t + l
        BY <2>5
      <4> QED BY <3>2, <4>1, <4>2, <4>3
    <3>5. /\ AL(c)' = AL(c) /\ UL(c)' = UL(c) /\ Num(c)' = Num(c) /\ Asked(c, n + 1)' = Asked(c, n + 1)
      BY <1>1, LinesStay
    <3>6. Answering(c, n, q, l)'
      BY <1>1, <1>8, <3>2, <3>3, <3>4, <3>5 DEF Answering
    <3> QED BY <3>1, <3>6 DEF Stage
  <2>9. c \notin setup.eager =>
          /\ OnCourse(c)'
          /\ z > 0 /\ conn[c].peer = "on" => \E i \in 0 .. Num(c) : Resting(c, i)'
          /\ z = 0 /\ up /\ conn[c].peer # "rst" => \E i \in 0 .. Num(c) : Stage(c, i, q, l)'
    BY <2>3, <2>8
  <2> QED BY <1>1, <1>4, <1>14, <2>4, <2>6, <2>7, <2>9, WentTurn
<1>15. ASSUME conn[c].peer # "rst", out' = [out EXCEPT ![c] = x], up' = up,
              ~(k < Asked(c, q.r).size), stuck' = None, Goes(w, NoReq, write, Closes(c, q))
       PROVE  AllInTurn'
  <2>1. PICK z \in Nat : z = Closes(c, q)
    BY DEF Closes
  <2>2. ReqOK(c, NoReq) /\ NoReq \in {NoReq} \cup Asking /\ Goes(w, NoReq, write, z)
    BY <1>15, <2>1 DEF ReqOK
  <2>3. Went(w, NoReq, write, z)
    BY <1>1, <1>4, <1>8, <2>2, GoesKeeps
  <2>4. Writing(w)' = 0 /\ \A v \in working : v # w => Writing(v)' = Writing(v)
    BY <1>12, <1>15 DEF Writing
  <2>5. \A d \in Client \ {c} : inb'[d] = inb[d] /\ out'[d] = out[d]
    BY <1>1, <1>8, <1>15 DEF Traffic
  <2>6. ASSUME c \notin setup.eager
        PROVE  OnCourse(c)' /\ \E i \in 0 .. Num(c) : Resting(c, i)' /\ Stage(c, i, NoReq, 0)'
    <3>1. OnCourse(c)'
      BY <1>13, <1>15, <2>6
    <3>2. PICK n \in 0 .. Num(c) :
                    /\ n < Num(c) /\ q.r = n + 1 /\ ~Asked(c, n + 1).head
                    /\ k \in 1 .. Asked(c, n + 1).size
                    /\ inb[c] = << >> /\ sent[c] = Total(UL(c), n + 1)
                    /\ Len(Came(c))' = Total(AL(c), n) + k + 1
      BY <1>13, <1>15, <2>6
    <3>3. PICK s \in Nat : s = Asked(c, n + 1).size
      BY <1>8, <3>2, AtRequest DEF Request
    <3>4. k = s
      BY <1>15, <3>2, <3>3
    <3>5. /\ AL(c)[n + 1] = 1 + k /\ n + 1 \in 0 .. Num(c)
          /\ Total(AL(c), n + 1) = Total(AL(c), n) + AL(c)[n + 1] /\ Total(AL(c), n) \in Nat
      BY <1>8, <3>2, <3>3, <3>4, AtRequest
    <3>6. PICK t \in Nat : t = Total(AL(c), n)
      BY <3>5
    <3>7. Len(Came(c))' = Total(AL(c), n + 1)
      BY <3>2, <3>5, <3>6
    <3>8. Resting(c, n + 1)'
      BY <1>1, <3>7, LinesStay DEF Resting
    <3>9. PICK m \in 0 .. Num(c) : m = n + 1
      BY <3>5
    <3>10. sent[c] = Total(UL(c), m) /\ Resting(c, m)' /\ inb'[c] = << >>
      BY <1>1, <3>2, <3>8, <3>9
    <3>11. Idle(c, m, NoReq)'
      BY <1>1, <1>8, <3>10, IdleAt
    <3> QED BY <3>1, <3>10, <3>11 DEF Stage
  <2>7. PICK l : l = 0
    OBVIOUS
  <2>8. c \notin setup.eager =>
          /\ OnCourse(c)'
          /\ z > 0 /\ conn[c].peer = "on" => \E i \in 0 .. Num(c) : Resting(c, i)'
          /\ z = 0 /\ up /\ conn[c].peer # "rst" => \E i \in 0 .. Num(c) : Stage(c, i, NoReq, l)'
    BY <2>6, <2>7
  <2> QED BY <1>1, <1>4, <1>15, <2>3, <2>4, <2>5, <2>7, <2>8, WentTurn
<1> QED BY <1>10, <1>11, <1>14, <1>15

\* A step that changes nothing.
LEMMA NothingTurns ==
    ASSUME PoolInv, AllInTurn, UNCHANGED vars
    PROVE  AllInTurn'
<1>1. /\ up' = up /\ conn' = conn /\ inb' = inb /\ out' = out /\ sent' = sent /\ got' = got
      /\ setup' = setup /\ worker' = worker /\ working' = working /\ stuck' = stuck
  BY DEF vars, poolVars, clientVars
<1>2. \A c \in Client : Came(c)' = Came(c)
  BY <1>1 DEF Came
<1>3. \A c \in Client \ setup'.eager : InTurn(c)'
  BY <1>1, <1>2, TurnStays DEF AllInTurn
<1>4. ASSUME NEW w \in working' PROVE Serving(w)'
  <2>1. w \in working /\ worker[w].c \in Client /\ Serving(w)
    BY <1>1 DEF AllInTurn, PoolInv, Pool, OneEach
  <2>2. Came(worker[w].c)' = Came(worker[w].c) /\ Writing(w)' = Writing(w)
    BY <1>1 DEF Came, Writing
  <2> QED BY <1>1, <2>1, <2>2, ServingStays
<1> QED BY <1>3, <1>4 DEF AllInTurn

\* How far every client that waits has come is kept by every step.
LEMMA TurnInductive == Spec => [](PoolInv /\ AllInTurn)
<1>1. Init => AllInTurn
  BY InitTurn
<1>2. PoolInv /\ Steady /\ AllInTurn /\ [Next]_vars => AllInTurn'
  <2> SUFFICES ASSUME PoolInv, Steady, AllInTurn, [Next]_vars
               PROVE  AllInTurn'
    OBVIOUS
  <2>1. ASSUME NEW c \in Client, Connect(c) PROVE AllInTurn'
    BY <2>1, ConnectTurn
  <2>2. ASSUME NEW c \in Client, NEW k \in 1 .. 4, Send(c, k) PROVE AllInTurn'
    BY <2>2, SendTurn
  <2>3. ASSUME NEW c \in Client, ReadAnswer(c) PROVE AllInTurn'
    BY <2>3, ReadAnswerTurn
  <2>4. ASSUME NEW c \in Client, Fin(c) \/ Abort(c) PROVE AllInTurn'
    BY <2>4, EndsTurn
  <2>5. ASSUME NEW c \in Client, Accept(c) PROVE AllInTurn'
    BY <2>5, AcceptTurn
  <2>6. ASSUME NEW w \in Worker, OnRead(w) PROVE AllInTurn'
    BY <2>6, OnReadTurn
  <2>7. ASSUME NEW w \in Worker, OnEnd(w) PROVE AllInTurn'
    BY <2>7, OnEndTurn
  <2>8. ASSUME NEW w \in Worker, OnWrite(w) PROVE AllInTurn'
    BY <2>8, OnWriteTurn
  <2>9. CASE WriteBody
    BY <2>9, WriteBodyTurn
  <2>10. CASE UNCHANGED vars
    BY <2>10, NothingTurns
  <2> QED BY <2>1, <2>2, <2>3, <2>4, <2>5, <2>6, <2>7, <2>8, <2>9, <2>10 DEF Next, Peer, Serve
<1> QED BY <1>1, <1>2, PoolInductive, PTL DEF Spec

\* A client that is in turn has what it should, and no answer cut off.
LEMMA TurnSuffices == PoolInv /\ AllInTurn => OwnResponses
<1> SUFFICES ASSUME PoolInv, AllInTurn, NEW c \in Client \ setup.eager
             PROVE  /\ IsPrefix(got[c] \o out[c], Expected(c))
                    /\ conn[c] = [st |-> "closed", peer |-> "on"]
                        => \E n \in 0 .. Len(setup.script[c]) :
                               got[c] \o out[c] = FlattenSeq([r \in 1 .. n |-> Answer(c, r)])
  BY DEF OwnResponses
<1>1. Traffic /\ InTurn(c) /\ OnCourse(c)
  BY DEF PoolInv, AllInTurn, InTurn
<1>2. PICK v : v = Came(c)
  OBVIOUS
<1>3. PICK E : E = Expected(c)
  OBVIOUS
<1>4. /\ v \in Seq(Item) /\ E \in Seq(Item) /\ Len(E) = Total(AL(c), Num(c))
  BY <1>1, <1>2, <1>3, CameIs, AnswersIs
<1>5. Len(v) <= Len(E) /\ \A i \in 1 .. Len(v) : v[i] = E[i]
  BY <1>1, <1>2, <1>3, <1>4 DEF OnCourse
<1>6. IsPrefix(v, E)
  <2>1. Len(v) \in Nat /\ Len(E) \in Nat
    BY <1>4, LenProperties
  <2>2. PICK l \in Nat : l = Len(v)
    BY <2>1
  <2>3. \A i \in 1 .. l : v[i] \in Item /\ E[i] \in Item /\ v[i] = E[i]
    <3>1. \A i \in 1 .. l : i \in 1 .. Len(v) /\ i \in 1 .. Len(E)
      BY <1>5, <2>1, <2>2
    <3> QED BY <1>4, <1>5, <3>1, ElementOfSeq
  <2>4. 1 \in Int /\ l \in Int
    BY <2>2
  <2>5. /\ SubSeq(v, 1, l) \in Seq(Item) /\ Len(SubSeq(v, 1, l)) = IF 1 <= l THEN l - 1 + 1 ELSE 0
        /\ \A i \in 1 .. l - 1 + 1 : SubSeq(v, 1, l)[i] = v[1 + i - 1]
    <3>1. \A i \in 1 .. l : v[i] \in Item
      BY <2>3
    <3> QED BY ONLY <2>4, <3>1, SubSeqProperties
  <2>6. /\ SubSeq(E, 1, l) \in Seq(Item) /\ Len(SubSeq(E, 1, l)) = IF 1 <= l THEN l - 1 + 1 ELSE 0
        /\ \A i \in 1 .. l - 1 + 1 : SubSeq(E, 1, l)[i] = E[1 + i - 1]
    <3>1. \A i \in 1 .. l : E[i] \in Item
      BY <2>3
    <3> QED BY ONLY <2>4, <3>1, SubSeqProperties
  <2>7. PICK s \in Seq(Item) : s = SubSeq(v, 1, l)
    BY <2>5
  <2>8. PICK t \in Seq(Item) : t = SubSeq(E, 1, l)
    BY <2>6
  <2>9. Len(s) = l /\ Len(t) = l /\ \A i \in 1 .. l : s[i] = v[i] /\ t[i] = E[i]
    <3>1. \A i \in 1 .. l : i \in 1 .. l - 1 + 1 /\ 1 + i - 1 = i
      OBVIOUS
    <3>2. (IF 1 <= l THEN l - 1 + 1 ELSE 0) = l
      OBVIOUS
    <3> QED BY <2>5, <2>6, <2>7, <2>8, <3>1, <3>2
  <2>10. s = t
    BY <2>3, <2>9, SeqEqual
  <2> QED BY <1>5, <2>2, <2>7, <2>8, <2>10 DEF IsPrefix
<1>7. ASSUME conn[c] = [st |-> "closed", peer |-> "on"]
      PROVE  \E n \in 0 .. Len(setup.script[c]) : v = FlattenSeq([r \in 1 .. n |-> Answer(c, r)])
  <2>1. PICK n \in 0 .. Num(c) : Between(c, n)
    BY <1>1, <1>7 DEF InTurn
  <2>2. /\ InLine(AL(c), Num(c)) /\ E = Runs(AL(c), Num(c))
        /\ FlattenSeq([r \in 1 .. n |-> Answer(c, r)]) = Runs(AL(c), n)
    BY <1>1, <1>3, Streams DEF Traffic
  <2>3. PICK t : t = Runs(AL(c), n)
    OBVIOUS
  <2>4. t \in Seq(Item) /\ Len(t) = Total(AL(c), n)
        /\ \A i \in 1 .. Total(AL(c), n) : E[i] = t[i]
    BY <2>2, <2>3 DEF InLine
  <2>5. Len(v) = Total(AL(c), n)
    BY <1>2, <2>1 DEF Between, Resting
  <2>6. v = t
    BY <1>4, <1>5, <2>4, <2>5, SeqEqual
  <2> QED BY <2>2, <2>3, <2>6 DEF Num
<1> QED BY <1>2, <1>3, <1>6, <1>7 DEF Came

\* Every client that waits for its answers is sent its own, in order and
\* without a gap, and is cut off only between two of them: the files that
\* __write_file leaves at a full socket and takes up again, the bodies of
\* __write_body, HEAD, Connection: close and workers used again included.
THEOREM EveryoneGetsTheirOwn == Spec => []OwnResponses
  BY TurnInductive, TurnSuffices, PTL
=============================================================================
