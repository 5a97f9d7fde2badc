----------------------------- MODULE P2pProofs -----------------------------
(***************************************************************************)
(* Hole punching for any nodes, applications and faults: no port is leaked *)
(* or held twice, and a session that is reported connected has worked in   *)
(* both directions and sends to nobody else.                               *)
(***************************************************************************)
EXTENDS P2p, WellFoundedInduction, TLAPS

Random(n)   == Pool[n] = <<>>
Punches(m)  == m.to = "socket" /\ m.t \in {"keepalive", "data"}
Announces(m, at) == m.to = at /\ m.t \in {"INVITE", "ACCEPT"}

\* What the handlers take out of a datagram is what its sender put in.  A node
\* announces its own addresses only.
PacketOK(m) ==
    /\ m.to = "server" => m.src \in Node \X (0 .. setup.signins)
    /\ m.to = "server" /\ m.t \in {"SIGNIN", "SIGNOUT"} => m.m \in Node
    /\ m.to = "server" /\ m.t \in {"REJECT", "PUNCHOK"} => m.m \in Node \X Node
    /\ Announces(m, "server") => m.m \in Node \X Node \X Address /\ m.m[3][1] = m.m[1]
    /\ m.to = "signal" /\ m.t \in {"REJECT", "CONNECTED"} => m.m[1] \in Node
    /\ Announces(m, "signal") => m.m \in Node \X Address /\ m.m[2][1] = m.m[1]
    /\ Punches(m) => m.at \in Address /\ m.src \in Address
NetOK == \A m \in net : PacketOK(m)

\* The pool of one node: an entry is in use iff a session has its port, every
\* session has one, and no two the same.
NamedOnce(n) == \A i, j \in DOMAIN Pool[n] : Pool[n][i] = Pool[n][j] => i = j
PoolOwned(n) ==
    /\ \A i \in DOMAIN Pool[n] :
          i \in used[n] <=> \E r \in Node : Has(n, r) /\ sess[n][r].port = Pool[n][i]
    /\ \A r \in Node : Has(n, r) => \E i \in DOMAIN Pool[n] : sess[n][r].port = Pool[n][i]
    /\ \A r, q \in Node : Has(n, r) /\ Has(n, q) /\ sess[n][r].port = sess[n][q].port => r = q
PoolsOwned == \A n \in Node : ~Random(n) /\ NamedOnce(n) => PoolOwned(n)

\* Who knows an address: a node that aims at it, or that a datagram makes or
\* made aim at it.  A punch tells its receiver the address it was sent from.
Aims(x, y, addr) == Has(x, y) /\ sess[x][y].peer # None /\ sess[x][y].peer = addr
Reveals(m, x, addr) ==
    \/ Announces(m, "server") /\ m.m[3] = addr /\ m.m[2] = x
    \/ Announces(m, "signal") /\ m.m[2] = addr /\ m.at[1] = x
    \/ Punches(m) /\ m.at = addr /\ m.src[1] = x
    \/ Punches(m) /\ m.src = addr /\ m.at[1] = x
Knows(x, addr) == (\E y \in Node : Aims(x, y, addr)) \/ (\E m \in net : Reveals(m, x, addr))

\* No port that the kernel has not picked yet is known to anyone.
NoForesight ==
    \A n \in Node : Random(n) =>
        /\ \A r \in Node : Has(n, r) => sess[n][r].port <= sockets[n]
        /\ \A x \in Node, p \in Nat : Knows(x, <<n, p>>) => p <= sockets[n]

\* The socket of a session is its own, it sends to its remote node and no
\* other node knows its address.
Exclusive ==
    \A n, r \in Node : Random(n) /\ Has(n, r) =>
        /\ sess[n][r].peer # None => sess[n][r].peer[1] = r
        /\ \A q \in Node : Has(n, q) /\ sess[n][q].port = sess[n][r].port => q = r
        /\ \A x \in Node, p \in Nat : p = sess[n][r].port /\ Knows(x, <<n, p>>) => x = r

\* A PUNCHOK, the mark the server makes of it, the CONNECTED that answers both
\* and the flag that this sets are each backed by a packet.
HasHeard(n, r)  == Random(n) => <<n, r>> \in heard
BothHeard(n, r) == HasHeard(n, r) /\ HasHeard(r, n)
Backed(m) ==
    /\ m.to = "server" /\ m.t = "PUNCHOK" => HasHeard(m.m[1], m.m[2])
    /\ m.to = "signal" /\ m.t = "CONNECTED" => BothHeard(m.at[1], m.m[1])
NetBacked   == \A m \in net : Backed(m)
FlagsBacked == \A n, r \in Node : Has(n, r) /\ sess[n][r].connected => BothHeard(n, r)
MarksBacked ==
    \A p, q \in Node : pend[<<p, q>>] # NoCall =>
        /\ pend[<<p, q>>].caller_ok => HasHeard(p, q)
        /\ pend[<<p, q>>].callee_ok => HasHeard(q, p)

Addresses == NoForesight /\ Exclusive
Call      == [sig : Nat, caller_ok : BOOLEAN, callee_ok : BOOLEAN]
PendOK    == pend \in [Node \X Node -> Call \cup {NoCall}]
Evidence  == NetBacked /\ FlagsBacked /\ MarksBacked /\ PendOK
IInv      == TypeOK /\ NetOK /\ PoolsOwned /\ Addresses /\ Evidence

-----------------------------------------------------------------------------
\* What a step does to the sessions.

\* At most one session is opened, on a port that the kernel has not used.
Opens(n, r) ==
    \A x, y \in Node : Has(x, y)' =>
        \/ Has(x, y) /\ sess'[x][y].port = sess[x][y].port
        \/ /\ x = n /\ y = r
           /\ Random(n) => sess'[n][r].port = sockets[n] + 1 /\ sockets'[n] = sockets[n] + 1
Peers ==
    \A x, y \in Node : Random(x) /\ Has(x, y)' /\ sess'[x][y].peer # None =>
        \/ Has(x, y) /\ sess[x][y].peer # None /\ sess'[x][y].peer = sess[x][y].peer
        \/ sess'[x][y].peer[1] = y
\* Only the remote node of a session gets to know the session's address.
Tells ==
    \A n, x \in Node, p \in Nat : Random(n) /\ Knows(x, <<n, p>>)' =>
        Knows(x, <<n, p>>) \/ (Has(n, x)' /\ sess'[n][x].port = p)

\* Such a step keeps addresses exclusive.
LEMMA AddressesKept ==
    ASSUME TypeOK, TypeOK', Addresses, UNCHANGED setup, NEW n \in Node, NEW r \in Node,
           Opens(n, r), Peers, Tells, \A x \in Node : sockets[x] <= sockets'[x]
    PROVE  Addresses'
<1>1. \A x \in Node : sockets[x] \in Nat /\ sockets'[x] \in Nat
  BY DEF TypeOK
<1>2. \A x, y \in Node : Has(x, y)' => sess'[x][y].port \in Nat
  BY DEF TypeOK, Has, Session, NoSession
<1>3. \A x \in Node : Random(x)' <=> Random(x)
  BY DEF Random, Pool
<1>4. \A x, y \in Node : Random(x) /\ Has(x, y)' => sess'[x][y].port <= sockets'[x]
  BY <1>1, <1>2 DEF Opens, Addresses, NoForesight
<1>5. NoForesight'
  <2> SUFFICES ASSUME NEW k \in Node, Random(k), NEW x \in Node, NEW p \in Nat, Knows(x, <<k, p>>)'
               PROVE  p <= sockets'[k]
    BY <1>3, <1>4 DEF NoForesight
  <2>1. CASE Knows(x, <<k, p>>)
    BY <2>1, <1>1 DEF Addresses, NoForesight
  <2>2. CASE Has(k, x)' /\ sess'[k][x].port = p
    BY <2>2, <1>4
  <2> QED BY <2>1, <2>2 DEF Tells
<1>6. ASSUME NEW k \in Node, NEW y \in Node, NEW z \in Node, Random(k), Has(k, y)', Has(k, z)',
             sess'[k][y].port = sess'[k][z].port
      PROVE  y = z
  <2>1. CASE Has(k, y) /\ sess'[k][y].port = sess[k][y].port
    <3>1. sess'[k][z].port <= sockets[k]
      BY <1>6, <2>1 DEF Addresses, NoForesight
    <3>2. Has(k, z) /\ sess'[k][z].port = sess[k][z].port
      BY <1>1, <1>6, <3>1 DEF Opens
    <3> QED BY <1>6, <2>1, <3>2 DEF Addresses, Exclusive
  <2>2. CASE Has(k, z) /\ sess'[k][z].port = sess[k][z].port
    <3>1. sess'[k][y].port <= sockets[k]
      BY <1>6, <2>2 DEF Addresses, NoForesight
    <3>2. Has(k, y) /\ sess'[k][y].port = sess[k][y].port
      BY <1>1, <1>6, <3>1 DEF Opens
    <3> QED BY <1>6, <2>2, <3>2 DEF Addresses, Exclusive
  <2> QED BY <1>6, <2>1, <2>2 DEF Opens
<1>7. ASSUME NEW k \in Node, NEW y \in Node, NEW x \in Node, NEW p \in Nat,
             Random(k), Has(k, y)', sess'[k][y].port = p, Knows(x, <<k, p>>)'
      PROVE  x = y
  <2>1. CASE Has(k, x)' /\ sess'[k][x].port = p
    BY <2>1, <1>6, <1>7
  <2>2. CASE Knows(x, <<k, p>>)
    <3>1. p <= sockets[k]
      BY <2>2, <1>7 DEF Addresses, NoForesight
    <3>2. Has(k, y) /\ p = sess[k][y].port
      BY <3>1, <1>1, <1>7 DEF Opens
    <3> QED BY <3>2, <2>2, <1>7 DEF Addresses, Exclusive
  <2> QED BY <2>1, <2>2, <1>7 DEF Tells
<1>8. \A k, y \in Node : Random(k) /\ Has(k, y)' /\ sess'[k][y].peer # None => sess'[k][y].peer[1] = y
  BY DEF Peers, Addresses, Exclusive
<1>9. Exclusive'
  BY <1>3, <1>6, <1>7, <1>8 DEF Exclusive
<1> QED BY <1>5, <1>9 DEF Addresses

\* A datagram that is received may come again, and the handler sends out.
LEMMA Received ==
    ASSUME NEW m, NEW out, Receive(m, out)
    PROVE  net' \subseteq net \cup out
  BY DEF Receive

\* The variables one by one: what a step leaves alone keeps its type.
PhaseOK   == phase \in [Node -> {"off", "sent", "wait", "on"}]
DoneOK    == done \in [Node -> BOOLEAN]
EpochOK   == epoch \in [Node -> 0 .. setup.signins]
UsedOK    == used \in [Node -> SUBSET Nat] /\ \A n \in Node : used[n] \subseteq DOMAIN Pool[n]
SocketsOK == sockets \in [Node -> 0 .. setup.sockets]
SessOK    == sess \in [Node -> [Node -> Session \cup {NoSession}]]
AsksOK    == asks \in [create : 0 .. setup.creates, send : 0 .. setup.sends, close : 0 .. setup.closes]
RegOK     == reg \in [Node -> 0 .. setup.signins]
FaultsOK  == faults \in 0 .. setup.faults

\* The type invariant, variable by variable.
LEMMA TypesApart == TypeOK <=>
    /\ PhaseOK /\ DoneOK /\ EpochOK /\ UsedOK /\ SocketsOK /\ SessOK /\ AsksOK /\ RegOK /\ FaultsOK
    /\ setup \in Setups /\ heard \subseteq Node \X Node
  BY Zenon DEF TypeOK, PhaseOK, DoneOK, EpochOK, UsedOK, SocketsOK, SessOK, AsksOK, RegOK, FaultsOK

\* What a step leaves alone keeps its type.
LEMMA TypesKept ==
    ASSUME TypeOK, UNCHANGED setup,
           UNCHANGED phase \/ PhaseOK', UNCHANGED done \/ DoneOK', UNCHANGED epoch \/ EpochOK',
           UNCHANGED used \/ UsedOK', UNCHANGED sockets \/ SocketsOK', UNCHANGED sess \/ SessOK',
           UNCHANGED asks \/ AsksOK', UNCHANGED reg \/ RegOK', UNCHANGED faults \/ FaultsOK',
           UNCHANGED heard \/ heard' \subseteq Node \X Node
    PROVE  TypeOK'
<1>1. PhaseOK' /\ DoneOK' /\ EpochOK' /\ SocketsOK' /\ SessOK' /\ AsksOK' /\ RegOK' /\ FaultsOK'
  BY TypesApart DEF PhaseOK, DoneOK, EpochOK, SocketsOK, SessOK, AsksOK, RegOK, FaultsOK
<1>2. UsedOK'
  BY TypesApart DEF UsedOK, Pool
<1>3. setup' \in Setups /\ heard' \subseteq Node \X Node
  BY TypesApart
<1> QED BY <1>1, <1>2, <1>3, Zenon
           DEF TypeOK, PhaseOK, DoneOK, EpochOK, UsedOK, SocketsOK, SessOK, AsksOK, RegOK, FaultsOK

\* The bounds are numbers.
LEMMA Bounds ==
    ASSUME TypeOK
    PROVE  {setup.signins, setup.sockets, setup.creates, setup.sends, setup.closes, setup.faults} \subseteq Nat
  BY P2pAssumption DEF TypeOK, SetupOK

\* Losing or keeping a datagram costs at most one fault.
LEMMA ReceiveFaults ==
    ASSUME NEW m, NEW out, Receive(m, out), TypeOK, UNCHANGED setup
    PROVE  FaultsOK'
<1>1. setup.faults \in Nat
  BY Bounds
<1> QED BY <1>1, TypesApart DEF Receive, FaultsOK

\* What the four kinds of datagram reveal.
LEMMA RevealedToServer ==
    ASSUME NEW t, NEW from, NEW c, NEW x, NEW addr, Reveals(ToServer(t, from, c), x, addr)
    PROVE  t \in {"INVITE", "ACCEPT"} /\ c[3] = addr /\ c[2] = x
  BY DEF Reveals, ToServer, Announces, Punches

\* A message to a node tells it an address only with INVITE or ACCEPT.
LEMMA RevealedToNode ==
    ASSUME NEW t, NEW at, NEW c, NEW x, NEW addr, Reveals(ToSignal(t, at, c), x, addr)
    PROVE  t \in {"INVITE", "ACCEPT"} /\ c[2] = addr /\ at[1] = x
  BY DEF Reveals, ToSignal, Announces, Punches

\* A datagram to a socket tells of the two addresses it travels between.
LEMMA RevealedToSocket ==
    ASSUME NEW t, NEW at, NEW from, NEW x, NEW addr, Reveals(ToSocket(t, at, from), x, addr)
    PROVE  /\ t \in {"keepalive", "data"}
           /\ (at = addr /\ from[1] = x) \/ (from = addr /\ at[1] = x)
  BY DEF Reveals, ToSocket, Announces, Punches

\* New sessions and datagrams that tell nothing new.
Neutral(m) == \A n, x \in Node, p \in Nat : Random(n) /\ Reveals(m, x, <<n, p>>) =>
                 Knows(x, <<n, p>>) \/ (Has(n, x)' /\ sess'[n][x].port = p)
\* A step whose new datagrams tell nobody an address keeps what is told.
LEMMA NeutralTells ==
    ASSUME \A m \in net' : m \in net \/ Neutral(m),
           \A n, x, y \in Node, p \in Nat : Aims(x, y, <<n, p>>)' => Knows(x, <<n, p>>)
    PROVE  Tells
<1> SUFFICES ASSUME NEW n \in Node, NEW x \in Node, NEW p \in Nat, Random(n), Knows(x, <<n, p>>)'
             PROVE  Knows(x, <<n, p>>) \/ (Has(n, x)' /\ sess'[n][x].port = p)
  BY DEF Tells
<1>1. CASE \E y \in Node : Aims(x, y, <<n, p>>)'
  BY <1>1
<1>2. CASE \E m \in net' : Reveals(m, x, <<n, p>>)
  BY <1>2 DEF Neutral, Knows
<1> QED BY <1>1, <1>2 DEF Knows

\* A step that leaves the sessions alone or closes some.
Fewer == \A x, y \in Node : Has(x, y)' => Has(x, y) /\ sess'[x][y].port = sess[x][y].port
                                         /\ sess'[x][y].peer = sess[x][y].peer
\* ... and keeps the account of addresses, when no session is opened.
LEMMA QuietKept ==
    ASSUME TypeOK, TypeOK', Addresses, UNCHANGED <<setup, sockets>>, Fewer,
           \A m \in net' : m \in net \/ Neutral(m)
    PROVE  Addresses'
<1>1. CASE Node = {}
  BY <1>1 DEF Addresses, NoForesight, Exclusive
<1>2. CASE Node # {}
  <2> PICK n \in Node : TRUE
    BY <1>2
  <2>1. Opens(n, n) /\ Peers
    BY DEF Fewer, Opens, Peers
  <2>2. \A k, x, y \in Node, p \in Nat : Aims(x, y, <<k, p>>)' => Knows(x, <<k, p>>)
    BY DEF Fewer, Aims, Knows
  <2>3. \A x \in Node : sockets[x] <= sockets'[x]
    BY DEF TypeOK
  <2> QED BY <2>1, <2>2, <2>3, NeutralTells, AddressesKept
<1> QED BY <1>1, <1>2

-----------------------------------------------------------------------------
\* The pools.

\* A set of numbers that is not empty has a least one.
LEMMA LeastNumber ==
    ASSUME NEW S, S \subseteq Nat, S # {}
    PROVE  \E x \in S : \A y \in S : x <= y
<1>1. PICK x \in S : \A y \in S : ~(<<y, x>> \in OpToRel(<, Nat))
  BY NatLessThanWellFounded, WFMin
<1>2. ASSUME NEW y \in S PROVE x <= y
  <2>1. ~(y < x)
    BY <1>1 DEF OpToRel
  <2> QED BY <2>1
<1> QED BY <1>2

\* __alloc_port finds an entry that is free.
LEMMA FirstIsFree ==
    ASSUME TypeOK, NEW n \in Node, FreeEntries(n) # {}
    PROVE  FirstFree(n) \in DOMAIN Pool[n] /\ FirstFree(n) \notin used[n]
<1>1. Pool[n] \in Seq(Nat \ {0})
  BY P2pAssumption DEF TypeOK, SetupOK, Pool
<1>2. FreeEntries(n) \subseteq Nat
  BY <1>1 DEF FreeEntries
<1>3. PICK x \in FreeEntries(n) : \A y \in FreeEntries(n) : x <= y
  BY <1>2, LeastNumber
<1>4. FirstFree(n) \in FreeEntries(n)
  BY <1>3 DEF FirstFree
<1> QED BY <1>4 DEF FreeEntries

SamePorts(x) ==
    \A y \in Node : /\ Has(x, y)' <=> Has(x, y)
                    /\ Has(x, y) => sess'[x][y].port = sess[x][y].port

\* A pool nobody takes from or gives back to.
LEMMA PoolSame ==
    ASSUME NEW x \in Node, UNCHANGED setup, used'[x] = used[x], SamePorts(x), PoolOwned(x)
    PROVE  PoolOwned(x)'
  BY DEF PoolOwned, SamePorts, Pool

\* A step that moves no port keeps the pools owned.
LEMMA PoolsSame ==
    ASSUME UNCHANGED <<setup, used>>, \A x \in Node : SamePorts(x), PoolsOwned
    PROVE  PoolsOwned'
<1>1. ASSUME NEW x \in Node PROVE (~Random(x) /\ NamedOnce(x))' => ~Random(x) /\ NamedOnce(x)
  BY DEF Random, NamedOnce, Pool
<1> QED BY <1>1, PoolSame DEF PoolsOwned

\* A session is opened on the first free entry.
LEMMA PoolOpened ==
    ASSUME TypeOK, UNCHANGED setup, NEW n \in Node, NEW r \in Node, ~Has(n, r),
           Pool[n] # <<>>, FreeEntries(n) # {}, used'[n] = NewUsed(n),
           Has(n, r)', sess'[n][r].port = NewPort(n),
           \A y \in Node \ {r} : sess'[n][y] = sess[n][y], NamedOnce(n), PoolOwned(n)
    PROVE  PoolOwned(n)'
<1> DEFINE f == FirstFree(n)
<1>1. f \in DOMAIN Pool[n] /\ f \notin used[n]
  BY FirstIsFree
<1>2. used'[n] = used[n] \cup {f} /\ sess'[n][r].port = Pool[n][f] /\ Pool' = Pool
  BY DEF NewUsed, NewPort, Pool
<1>3. \A y \in Node \ {r} : (Has(n, y)' <=> Has(n, y)) /\ sess'[n][y].port = sess[n][y].port
  BY DEF Has
<1>4. \A y \in Node : Has(n, y) => sess[n][y].port # Pool[n][f]
  BY <1>1 DEF PoolOwned
<1> HIDE DEF f
<1>5. \A i \in DOMAIN Pool[n] :
         i \in used'[n] <=> \E y \in Node : Has(n, y)' /\ sess'[n][y].port = Pool[n][i]
  BY <1>1, <1>2, <1>3 DEF PoolOwned, NamedOnce
<1>6. \A y \in Node : Has(n, y)' => \E i \in DOMAIN Pool[n] : sess'[n][y].port = Pool[n][i]
  BY <1>1, <1>2, <1>3 DEF PoolOwned
<1>7. \A y, q \in Node : Has(n, y)' /\ Has(n, q)' /\ sess'[n][y].port = sess'[n][q].port => y = q
  BY <1>2, <1>3, <1>4 DEF PoolOwned
<1> QED BY <1>2, <1>5, <1>6, <1>7 DEF PoolOwned

\* The sessions with the nodes in S are closed and their ports given back.
LEMMA PoolClosed ==
    ASSUME TypeOK, UNCHANGED setup, NEW n \in Node, NEW S, S \subseteq Node,
           used'[n] = Freed(n, used[n], {sess[n][y].port : y \in {z \in S : Has(n, z)}}),
           \A y \in Node : Has(n, y)' <=> Has(n, y) /\ y \notin S,
           \A y \in Node \ S : sess'[n][y] = sess[n][y], NamedOnce(n), PoolOwned(n)
    PROVE  PoolOwned(n)'
<1> DEFINE P == {sess[n][y].port : y \in {z \in S : Has(n, z)}}
<1>1. Pool' = Pool
  BY DEF Pool
<1>2. \A i \in DOMAIN Pool[n] : i \in used'[n] <=> i \in used[n] /\ Pool[n][i] \notin P
  <2>1. Pool[n] \in Seq(Nat \ {0})
    BY P2pAssumption DEF TypeOK, SetupOK, Pool
  <2>2. \A i \in DOMAIN Pool[n] : \A j \in 1 .. (i - 1) : Pool[n][j] # Pool[n][i]
    BY <2>1 DEF NamedOnce
  <2> HIDE DEF P
  <2>3. used'[n] = Freed(n, used[n], P)
    BY DEF P
  <2> QED BY <2>2, <2>3 DEF Freed
<1>3. \A i \in DOMAIN Pool[n] :
         Pool[n][i] \in P <=> \E y \in S : Has(n, y) /\ sess[n][y].port = Pool[n][i]
  OBVIOUS
<1>4. \A i \in DOMAIN Pool[n] :
         i \in used'[n] <=> \E y \in Node : Has(n, y)' /\ sess'[n][y].port = Pool[n][i]
  BY <1>2, <1>3 DEF PoolOwned
<1>5. \A y \in Node : Has(n, y)' => Has(n, y) /\ sess'[n][y].port = sess[n][y].port
  OBVIOUS
<1> QED BY <1>1, <1>4, <1>5 DEF PoolOwned

-----------------------------------------------------------------------------
\* Connected: what a session, the server and the network claim.

\* Heard is heard.
LEMMA HeardStays ==
    ASSUME UNCHANGED setup, heard \subseteq heard', NEW x, NEW y
    PROVE  (HasHeard(x, y) => HasHeard(x, y)') /\ (BothHeard(x, y) => BothHeard(x, y)')
  BY DEF BothHeard, HasHeard, Random, Pool

\* What was heard stays heard, so what it backs stays backed: the datagrams,
LEMMA NetStaysBacked ==
    ASSUME UNCHANGED setup, heard \subseteq heard', NetBacked,
           \A m \in net' : m \in net \/ Backed(m)'
    PROVE  NetBacked'
  BY HeardStays DEF NetBacked, Backed

\* ... the flags of the sessions,
LEMMA FlagsStayBacked ==
    ASSUME UNCHANGED setup, heard \subseteq heard', FlagsBacked,
           \A x, y \in Node : Has(x, y)' /\ sess'[x][y].connected =>
               (Has(x, y) /\ sess[x][y].connected) \/ BothHeard(x, y)'
    PROVE  FlagsBacked'
  BY HeardStays DEF FlagsBacked

\* ... and the marks of the pending calls.
LEMMA MarksStayBacked ==
    ASSUME UNCHANGED <<setup, pend>>, heard \subseteq heard', MarksBacked
    PROVE  MarksBacked'
  BY HeardStays DEF MarksBacked

-----------------------------------------------------------------------------
\* Steps that leave the sessions as they are.

\* A datagram that neither tells an address nor claims to have heard.
Plain(m) ==
    /\ ~Announces(m, "server") /\ ~Announces(m, "signal") /\ ~Punches(m)
    /\ ~(m.to = "server" /\ m.t = "PUNCHOK") /\ ~(m.to = "signal" /\ m.t = "CONNECTED")

\* A plain datagram reveals nothing and needs no evidence.
LEMMA PlainSays ==
    ASSUME NEW m, Plain(m)
    PROVE  Neutral(m) /\ Backed(m)'
  BY DEF Plain, Neutral, Reveals, Backed

\* The datagrams stay well formed.
LEMMA NetStaysOK ==
    ASSUME NetOK, UNCHANGED setup, \A m \in net' : m \in net \/ PacketOK(m)
    PROVE  NetOK'
  BY DEF NetOK, PacketOK

\* A datagram a step may send.
Sound(m) == PacketOK(m) /\ Neutral(m) /\ Backed(m)'

\* The shape of every step that opens or changes at most one session, ...
LEMMA SessionStep ==
    ASSUME IInv, TypeOK', UNCHANGED setup, NEW n \in Node, NEW r \in Node, Opens(n, r), Peers,
           \A x \in Node : sockets[x] <= sockets'[x], PoolsOwned', heard \subseteq heard',
           \A m \in net' : m \in net \/ Sound(m),
           \A k, x, y \in Node, p \in Nat : Aims(x, y, <<k, p>>)' => Knows(x, <<k, p>>),
           \A x, y \in Node : Has(x, y)' /\ sess'[x][y].connected =>
               (Has(x, y) /\ sess[x][y].connected) \/ BothHeard(x, y)',
           UNCHANGED pend
    PROVE  IInv'
<1>1. NetOK'
  BY NetStaysOK DEF IInv, Sound
<1>2. Addresses'
  BY NeutralTells, AddressesKept DEF IInv, Sound
<1>3. NetBacked'
  BY NetStaysBacked DEF IInv, Evidence, Sound
<1>4. FlagsBacked'
  BY FlagsStayBacked DEF IInv, Evidence
<1>5. MarksBacked' /\ PendOK'
  BY MarksStayBacked DEF IInv, Evidence, PendOK
<1> QED BY <1>1, <1>2, <1>3, <1>4, <1>5 DEF IInv, Evidence

\* ... of one that closes sessions or leaves them as they are, ...
LEMMA FewerStep ==
    ASSUME IInv, TypeOK', UNCHANGED <<setup, sockets, heard>>, Fewer, PoolsOwned',
           \A x, y \in Node : Has(x, y)' => sess'[x][y] = sess[x][y], MarksBacked', PendOK',
           \A m \in net' : m \in net \/ Sound(m)
    PROVE  IInv'
<1>1. NetOK'
  BY NetStaysOK DEF IInv, Sound
<1>2. Addresses'
  BY QuietKept DEF IInv, Sound
<1>3. NetBacked'
  BY NetStaysBacked DEF IInv, Evidence, Sound
<1>4. FlagsBacked'
  <2>1. \A x, y \in Node : Has(x, y)' /\ sess'[x][y].connected => Has(x, y) /\ sess[x][y].connected
    BY DEF Fewer
  <2> QED BY <2>1, FlagsStayBacked DEF IInv, Evidence
<1> QED BY <1>1, <1>2, <1>3, <1>4 DEF IInv, Evidence

\* ... and of one that does not touch them.
LEMMA SameSessions ==
    ASSUME IInv, TypeOK', UNCHANGED <<setup, sess, used, sockets, heard>>, MarksBacked', PendOK',
           \A m \in net' : m \in net \/ Sound(m)
    PROVE  IInv'
<1>1. PoolsOwned'
  BY PoolsSame DEF IInv, SamePorts, Has
<1>2. Fewer /\ \A x, y \in Node : Has(x, y)' => sess'[x][y] = sess[x][y]
  BY DEF Fewer, Has
<1> QED BY <1>1, <1>2, FewerStep

\* A step that touches no session, port or socket and sends plain datagrams.
LEMMA CalmStep ==
    ASSUME IInv, TypeOK', UNCHANGED <<setup, sess, used, sockets, heard>>, MarksBacked', PendOK',
           \A m \in net' : m \in net \/ (Plain(m) /\ PacketOK(m))
    PROVE  IInv'
<1>1. \A m \in net' : m \in net \/ Sound(m)
  BY PlainSays DEF Sound
<1> QED BY <1>1, SameSessions

\* Such a step that leaves the server's calls alone.
LEMMA PendStays ==
    ASSUME IInv, UNCHANGED <<setup, pend, heard>>
    PROVE  MarksBacked' /\ PendOK'
  BY MarksStayBacked DEF IInv, Evidence, PendOK

\* __signin sends its request.
LEMMA NodeCreateStep ==
    ASSUME IInv, NEW n \in Node, NodeCreate(n)
    PROVE  IInv'
<1>1. PhaseOK' /\ DoneOK'
  BY TypesApart DEF IInv, PhaseOK, DoneOK, NodeCreate
<1>2. EpochOK' /\ epoch[n] + 1 \in 0 .. setup.signins
  BY TypesApart, Bounds DEF IInv, EpochOK, NodeCreate
<1>3. TypeOK'
  BY <1>1, <1>2, TypesKept DEF IInv, NodeCreate, serverVars
<1>4. \A m \in net' : m \in net \/ m = ToServer("SIGNIN", <<n, epoch[n] + 1>>, n)
  BY DEF NodeCreate, Send
<1>5. \A m \in net' : m \in net \/ (Plain(m) /\ PacketOK(m))
  BY <1>2, <1>4 DEF Plain, PacketOK, Announces, Punches, ToServer
<1> QED BY <1>3, <1>5, PendStays, CalmStep DEF NodeCreate, serverVars

\* __signin clears the flag, or sees it set.
LEMMA SigninStep ==
    ASSUME IInv, NEW n \in Node, ClearRegister(n) \/ SigninDone(n)
    PROVE  IInv'
<1>1. PhaseOK' /\ (UNCHANGED done \/ DoneOK')
  BY TypesApart DEF IInv, PhaseOK, DoneOK, ClearRegister, SigninDone
<1>2. TypeOK'
  BY <1>1, TypesKept DEF IInv, ClearRegister, SigninDone, serverVars
<1> QED BY <1>2, PendStays, CalmStep DEF ClearRegister, SigninDone, serverVars

\* A node gets the answer to its request.
LEMMA OnSigninReplyStep ==
    ASSUME IInv, NEW n \in Node, OnSigninReply(n)
    PROVE  IInv'
<1> PICK m \in AtSignal(n, "SIGNIN_REPLY") :
        /\ done' = [done EXCEPT ![n] = TRUE]
        /\ Receive(m, {})
        /\ UNCHANGED <<phase, epoch, used, sockets, sess, serverVars, heard, asks, setup>>
  BY DEF OnSigninReply
<1>1. DoneOK'
  BY TypesApart DEF IInv, DoneOK
<1>2. TypeOK'
  BY <1>1, ReceiveFaults, TypesKept DEF IInv, serverVars
<1>3. net' \subseteq net
  BY Received
<1> QED BY <1>2, <1>3, PendStays, CalmStep DEF serverVars

\* The server registers a node, or forgets it.
LEMMA SrvSigninStep ==
    ASSUME IInv, SrvSignin
    PROVE  IInv'
<1> PICK m \in AtServer("SIGNIN") :
        /\ reg' = [reg EXCEPT ![m.m] = m.src[2]]
        /\ Receive(m, {ToSignal("SIGNIN_REPLY", m.src, m.m)})
        /\ UNCHANGED <<nodeVars, pend, heard, asks, setup>>
  BY DEF SrvSignin
<1>1. m.m \in Node /\ m.src[2] \in 0 .. setup.signins
  BY DEF AtServer, IInv, NetOK, PacketOK
<1>2. RegOK'
  BY <1>1, TypesApart DEF IInv, RegOK
<1>3. TypeOK'
  BY <1>2, ReceiveFaults, TypesKept DEF IInv, nodeVars
<1>4. \A d \in net' : d \in net \/ d = ToSignal("SIGNIN_REPLY", m.src, m.m)
  BY Received
<1>5. \A d \in net' : d \in net \/ (Plain(d) /\ PacketOK(d))
  BY <1>4 DEF Plain, PacketOK, Announces, Punches, ToSignal
<1> QED BY <1>3, <1>5, PendStays, CalmStep DEF nodeVars

\* The server drops the registration of a node.
LEMMA SrvSignoutStep ==
    ASSUME IInv, SrvSignout
    PROVE  IInv'
<1> PICK m \in AtServer("SIGNOUT") :
        /\ reg' = [reg EXCEPT ![m.m] = 0]
        /\ Receive(m, {})
        /\ UNCHANGED <<nodeVars, pend, heard, asks, setup>>
  BY DEF SrvSignout
<1>1. RegOK'
  BY Bounds, TypesApart DEF AtServer, IInv, NetOK, PacketOK, RegOK
<1>2. TypeOK'
  BY <1>1, ReceiveFaults, TypesKept DEF IInv, nodeVars
<1>3. net' \subseteq net
  BY Received
<1> QED BY <1>2, <1>3, PendStays, CalmStep DEF nodeVars

\* A datagram is lost, or its socket is gone.
LEMMA LostStep ==
    ASSUME IInv, Lose \/ Vanish
    PROVE  IInv'
<1>1. UNCHANGED faults \/ FaultsOK'
  BY Bounds, TypesApart DEF IInv, FaultsOK, Lose, Vanish
<1>2. TypeOK'
  BY <1>1, TypesKept DEF IInv, Lose, Vanish, nodeVars, serverVars
<1>3. net' \subseteq net
  BY DEF Lose, Vanish
<1> QED BY <1>2, <1>3, PendStays, CalmStep DEF Lose, Vanish, nodeVars, serverVars

\* The server starts again, knowing nobody.
LEMMA ServerRestartStep ==
    ASSUME IInv, ServerRestart
    PROVE  IInv'
<1>1. FaultsOK' /\ RegOK'
  BY Bounds, TypesApart DEF IInv, FaultsOK, RegOK, ServerRestart
<1>2. TypeOK'
  BY <1>1, TypesKept DEF IInv, ServerRestart, nodeVars
<1>3. MarksBacked' /\ PendOK'
  BY DEF MarksBacked, PendOK, ServerRestart
<1> QED BY <1>2, <1>3, CalmStep DEF ServerRestart, nodeVars

-----------------------------------------------------------------------------
\* The server passes on what a node announces.

\* An answer that the server sends carries what its request told the callee.
LEMMA Forwarded ==
    ASSUME NEW m \in net, PacketOK(m), Announces(m, "server"), NEW t, t \in {"INVITE", "ACCEPT"},
           NEW e, NEW d, d = ToSignal(t, <<m.m[2], e>>, <<m.m[1], m.m[3]>>)
    PROVE  Sound(d)
<1>1. PacketOK(d)
  BY DEF PacketOK, Announces, Punches, ToSignal
<1>2. Backed(d)'
  BY DEF Backed, ToSignal
<1>3. \A x \in Node : \A addr : Reveals(d, x, addr) => Reveals(m, x, addr)
  <2> SUFFICES ASSUME NEW x \in Node, NEW addr, Reveals(d, x, addr) PROVE Reveals(m, x, addr)
    OBVIOUS
  <2>1. m.m[3] = addr /\ m.m[2] = x
    BY RevealedToNode
  <2> QED BY <2>1 DEF Reveals
<1>4. Neutral(d)
  BY <1>3 DEF Neutral, Knows
<1> QED BY <1>1, <1>2, <1>4 DEF Sound

\* The server records a call and passes the invitation on.
LEMMA SrvInviteStep ==
    ASSUME IInv, SrvInvite
    PROVE  IInv'
<1> PICK m \in AtServer("INVITE") :
        \/ /\ reg[m.m[2]] = 0
           /\ Receive(m, {ToSignal("REJECT", m.src, <<m.m[2], m.m[1]>>)})
           /\ UNCHANGED <<nodeVars, serverVars, heard, asks, setup>>
        \/ /\ reg[m.m[2]] # 0
           /\ pend' = [pend EXCEPT ![<<m.m[1], m.m[2]>>] =
                          [sig |-> m.src[2], caller_ok |-> FALSE, callee_ok |-> FALSE]]
           /\ Receive(m, {ToSignal("INVITE", <<m.m[2], reg[m.m[2]]>>, <<m.m[1], m.m[3]>>)})
           /\ UNCHANGED <<nodeVars, reg, heard, asks, setup>>
  BY DEF SrvInvite
<1>1. m \in net /\ PacketOK(m) /\ Announces(m, "server") /\ m.to = "server"
  BY DEF AtServer, Announces, IInv, NetOK
<1>2. m.m[1] \in Node /\ m.m[2] \in Node /\ m.src[2] \in Nat
  <2>1. m.src \in Node \X (0 .. setup.signins) /\ m.m \in Node \X Node \X Address
    BY <1>1 DEF PacketOK
  <2> QED BY <2>1
<1>3. TypeOK'
  BY ReceiveFaults, TypesKept DEF IInv, nodeVars, serverVars
<1>4. CASE /\ Receive(m, {ToSignal("REJECT", m.src, <<m.m[2], m.m[1]>>)})
           /\ UNCHANGED <<nodeVars, serverVars, heard, asks, setup>>
  <2>1. \A d \in net' : d \in net \/ d = ToSignal("REJECT", m.src, <<m.m[2], m.m[1]>>)
    BY <1>4, Received
  <2>2. \A d \in net' : d \in net \/ (Plain(d) /\ PacketOK(d))
    BY <1>2, <2>1 DEF Plain, PacketOK, Announces, Punches, ToSignal
  <2> QED BY <1>3, <1>4, <2>2, PendStays, CalmStep DEF nodeVars, serverVars
<1>5. CASE /\ pend' = [pend EXCEPT ![<<m.m[1], m.m[2]>>] =
                          [sig |-> m.src[2], caller_ok |-> FALSE, callee_ok |-> FALSE]]
           /\ Receive(m, {ToSignal("INVITE", <<m.m[2], reg[m.m[2]]>>, <<m.m[1], m.m[3]>>)})
           /\ UNCHANGED <<nodeVars, reg, heard, asks, setup>>
  <2>1. \A d \in net' : d \in net \/ d = ToSignal("INVITE", <<m.m[2], reg[m.m[2]]>>, <<m.m[1], m.m[3]>>)
    BY <1>5, Received
  <2>2. \A d \in net' : d \in net \/ Sound(d)
    BY <1>1, <2>1, Forwarded
  <2>3. PendOK'
    BY <1>2, <1>5 DEF IInv, Evidence, PendOK, Call
  <2>4. \A p, q \in Node : pend'[<<p, q>>] = pend[<<p, q>>] \/ pend'[<<p, q>>] =
                              [sig |-> m.src[2], caller_ok |-> FALSE, callee_ok |-> FALSE]
    BY <1>5 DEF IInv, Evidence, PendOK
  <2>5. MarksBacked'
    BY <1>5, <2>4, HeardStays DEF IInv, Evidence, MarksBacked
  <2> QED BY <1>3, <1>5, <2>2, <2>3, <2>5, SameSessions DEF nodeVars
<1> QED BY <1>4, <1>5

\* The server passes the callee's ACCEPT on to the caller.
LEMMA SrvAcceptStep ==
    ASSUME IInv, SrvAccept
    PROVE  IInv'
<1> PICK m \in AtServer("ACCEPT") :
        /\ Receive(m, IF pend[<<m.m[2], m.m[1]>>] = NoCall THEN {}
                      ELSE {ToSignal("ACCEPT", <<m.m[2], pend[<<m.m[2], m.m[1]>>].sig>>, <<m.m[1], m.m[3]>>)})
        /\ UNCHANGED <<nodeVars, serverVars, heard, asks, setup>>
  BY DEF SrvAccept
<1>1. m \in net /\ PacketOK(m) /\ Announces(m, "server")
  BY DEF AtServer, Announces, IInv, NetOK
<1>2. TypeOK'
  BY ReceiveFaults, TypesKept DEF IInv, nodeVars, serverVars
<1>3. \A d \in net' : d \in net \/
        d = ToSignal("ACCEPT", <<m.m[2], pend[<<m.m[2], m.m[1]>>].sig>>, <<m.m[1], m.m[3]>>)
  BY Received
<1>4. \A d \in net' : d \in net \/ Sound(d)
  BY <1>1, <1>3, Forwarded
<1> QED BY <1>2, <1>4, PendStays, SameSessions DEF nodeVars, serverVars

\* The server passes the callee's REJECT on to the caller.
LEMMA SrvRejectStep ==
    ASSUME IInv, SrvReject
    PROVE  IInv'
<1> PICK m \in AtServer("REJECT") :
        /\ pend' = [pend EXCEPT ![<<m.m[2], m.m[1]>>] = NoCall]
        /\ Receive(m, IF pend[<<m.m[2], m.m[1]>>] = NoCall THEN {}
                      ELSE {ToSignal("REJECT", <<m.m[2], pend[<<m.m[2], m.m[1]>>].sig>>, <<m.m[1], m.m[2]>>)})
        /\ UNCHANGED <<nodeVars, reg, heard, asks, setup>>
  BY DEF SrvReject
<1>1. m.m[1] \in Node /\ m.m[2] \in Node
  <2>1. m.m \in Node \X Node
    BY DEF AtServer, IInv, NetOK, PacketOK
  <2> QED BY <2>1
<1>2. TypeOK'
  BY ReceiveFaults, TypesKept DEF IInv, nodeVars
<1>3. \A d \in net' : d \in net \/
        d = ToSignal("REJECT", <<m.m[2], pend[<<m.m[2], m.m[1]>>].sig>>, <<m.m[1], m.m[2]>>)
  BY Received
<1>4. \A d \in net' : d \in net \/ (Plain(d) /\ PacketOK(d))
  BY <1>1, <1>3 DEF Plain, PacketOK, Announces, Punches, ToSignal
<1>5. PendOK'
  BY <1>1 DEF IInv, Evidence, PendOK
<1>6. \A p, q \in Node : pend'[<<p, q>>] = pend[<<p, q>>] \/ pend'[<<p, q>>] = NoCall
  BY DEF IInv, Evidence, PendOK
<1>7. MarksBacked'
  BY <1>6, HeardStays DEF IInv, Evidence, MarksBacked
<1> QED BY <1>2, <1>4, <1>5, <1>7, CalmStep DEF nodeVars

\* CONNECTED goes to both when both have said PUNCHOK.
LEMMA SrvPunchokStep ==
    ASSUME IInv, SrvPunchok
    PROVE  IInv'
<1> DEFINE Both(c, w) == w[c] # NoCall /\ w[c].caller_ok /\ w[c].callee_ok
           Out(c, w)  == {ToSignal("CONNECTED", <<c[1], w[c].sig>>, <<c[2]>>)}
                         \cup (IF reg[c[2]] = 0 THEN {}
                               ELSE {ToSignal("CONNECTED", <<c[2], reg[c[2]]>>, <<c[1]>>)})
<1> PICK m \in AtServer("PUNCHOK") :
        LET call == CallOf(m.m[1], m.m[2])
            now  == Marked(m.m[1], m.m[2])
        IN /\ pend' = IF Both(call, now) THEN [now EXCEPT ![call] = NoCall] ELSE now
           /\ Receive(m, IF Both(call, now) THEN Out(call, now) ELSE {})
           /\ UNCHANGED <<nodeVars, reg, heard, asks, setup>>
  BY DEF SrvPunchok
<1> DEFINE a == m.m[1]
           b == m.m[2]
           call == CallOf(a, b)
           now  == Marked(a, b)
<1>1. a \in Node /\ b \in Node
  <2>1. m.m \in Node \X Node
    BY DEF AtServer, IInv, NetOK, PacketOK
  <2> QED BY <2>1
<1>2. HasHeard(a, b)
  BY DEF AtServer, IInv, Evidence, NetBacked, Backed
<1>3. /\ pend' = IF Both(call, now) THEN [now EXCEPT ![call] = NoCall] ELSE now
      /\ Receive(m, IF Both(call, now) THEN Out(call, now) ELSE {})
      /\ UNCHANGED <<nodeVars, reg, heard, asks, setup>>
  OBVIOUS
<1> HIDE DEF a, b, Both, Out
<1>4. (call = <<a, b>> \/ call = <<b, a>>) /\ call \in Node \X Node
  BY <1>1 DEF CallOf
<1>5. now \in [Node \X Node -> Call \cup {NoCall}]
  <2>1. PendOK
    BY DEF IInv, Evidence
  <2>2. \A c \in Node \X Node : pend[c] # NoCall => pend[c] \in Call
    BY <2>1 DEF PendOK
  <2>3. \A c \in Node \X Node : pend[c] # NoCall => [pend[c] EXCEPT !.caller_ok = TRUE] \in Call
                                                   /\ [pend[c] EXCEPT !.callee_ok = TRUE] \in Call
    BY <2>2 DEF Call
  <2> QED BY <1>1, <2>1, <2>3 DEF Marked, PendOK
<1>6. \A p, q \in Node : now[<<p, q>>] # NoCall =>
          /\ now[<<p, q>>].caller_ok => HasHeard(p, q)
          /\ now[<<p, q>>].callee_ok => HasHeard(q, p)
  <2> SUFFICES ASSUME NEW p \in Node, NEW q \in Node, now[<<p, q>>] # NoCall
               PROVE  /\ now[<<p, q>>].caller_ok => HasHeard(p, q)
                      /\ now[<<p, q>>].callee_ok => HasHeard(q, p)
    OBVIOUS
  <2>1. PendOK /\ MarksBacked
    BY DEF IInv, Evidence
  <2>2. CASE <<p, q>> = <<a, b>> /\ pend[<<a, b>>] # NoCall
    <3>1. pend[<<a, b>>] \in Call
      BY <1>1, <2>1, <2>2 DEF PendOK
    <3>2. now[<<p, q>>] = [pend[<<a, b>>] EXCEPT !.caller_ok = TRUE]
      BY <1>1, <2>1, <2>2 DEF Marked, PendOK
    <3>3. now[<<p, q>>].callee_ok = pend[<<a, b>>].callee_ok
      BY <3>1, <3>2 DEF Call
    <3> QED BY <1>1, <1>2, <2>1, <2>2, <3>3 DEF MarksBacked
  <2>3. CASE <<p, q>> = <<b, a>> /\ pend[<<a, b>>] = NoCall /\ pend[<<b, a>>] # NoCall
    <3>1. pend[<<b, a>>] \in Call
      BY <1>1, <2>1, <2>3 DEF PendOK
    <3>2. now[<<p, q>>] = [pend[<<b, a>>] EXCEPT !.callee_ok = TRUE]
      BY <1>1, <2>1, <2>3 DEF Marked, PendOK
    <3>3. now[<<p, q>>].caller_ok = pend[<<b, a>>].caller_ok
      BY <3>1, <3>2 DEF Call
    <3> QED BY <1>1, <1>2, <2>1, <2>3, <3>3 DEF MarksBacked
  <2>4. CASE now[<<p, q>>] = pend[<<p, q>>]
    BY <2>1, <2>4 DEF MarksBacked
  <2>5. \/ <<p, q>> = <<a, b>> /\ pend[<<a, b>>] # NoCall
        \/ <<p, q>> = <<b, a>> /\ pend[<<a, b>>] = NoCall /\ pend[<<b, a>>] # NoCall
        \/ now[<<p, q>>] = pend[<<p, q>>]
    BY <1>1, <2>1 DEF Marked, PendOK
  <2> QED BY <2>2, <2>3, <2>4, <2>5
<1> HIDE DEF now, call
<1>7. TypeOK'
  BY <1>3, ReceiveFaults, TypesKept DEF IInv, nodeVars
<1>8. PendOK'
  BY <1>3, <1>4, <1>5 DEF PendOK
<1>9. MarksBacked'
  <2>1. \A p, q \in Node : pend'[<<p, q>>] = now[<<p, q>>] \/ pend'[<<p, q>>] = NoCall
    BY <1>3, <1>5
  <2> QED BY <1>3, <1>6, <2>1, HeardStays DEF MarksBacked
<1>10. \A d \in net' : d \in net \/ Sound(d)
  <2>1. CASE ~Both(call, now)
    BY <1>3, <2>1, Received
  <2>2. CASE Both(call, now)
    <3>1. PICK p \in Node, q \in Node : call = <<p, q>>
      BY <1>4
    <3>2. BothHeard(p, q) /\ BothHeard(q, p)
      BY <1>6, <2>2, <3>1 DEF Both, BothHeard
    <3>3. BothHeard(p, q)' /\ BothHeard(q, p)'
      BY <1>3, <3>2, HeardStays
    <3>4. \A d \in net' : d \in net \/ (\E e : d = ToSignal("CONNECTED", <<p, e>>, <<q>>)
                                                \/ d = ToSignal("CONNECTED", <<q, e>>, <<p>>))
      <4>1. net' \subseteq net \cup Out(<<p, q>>, now)
        BY <1>3, <2>2, <3>1, Received
      <4>2. \A d \in Out(<<p, q>>, now) : \/ d = ToSignal("CONNECTED", <<p, now[<<p, q>>].sig>>, <<q>>)
                                         \/ d = ToSignal("CONNECTED", <<q, reg[q]>>, <<p>>)
        BY DEF Out
      <4> QED BY <4>1, <4>2
    <3>5. ASSUME NEW e, NEW d, d = ToSignal("CONNECTED", <<p, e>>, <<q>>) \/
                 d = ToSignal("CONNECTED", <<q, e>>, <<p>>)
          PROVE  Sound(d)
      <4>1. PacketOK(d)
        BY <3>5 DEF PacketOK, Announces, Punches, ToSignal
      <4>2. Neutral(d)
        BY <3>5 DEF Neutral, Reveals, Announces, Punches, ToSignal
      <4>3. Backed(d)'
        BY <3>3, <3>5 DEF Backed, ToSignal
      <4> QED BY <4>1, <4>2, <4>3 DEF Sound
    <3> QED BY <3>4, <3>5
  <2> QED BY <2>1, <2>2
<1> QED BY <1>3, <1>7, <1>8, <1>9, <1>10, SameSessions DEF nodeVars

-----------------------------------------------------------------------------
\* Punching: a session sends to an address its node knows.
LEMMA PunchSound ==
    ASSUME NEW n \in Node, NEW r \in Node, NEW port \in Nat, NEW addr \in Address, NEW t,
           t \in {"keepalive", "data"}, Knows(n, addr), Random(n) => addr[1] = r,
           Has(n, r)', sess'[n][r].port = port, NEW d, d = ToSocket(t, addr, <<n, port>>)
    PROVE  Sound(d)
<1>1. PacketOK(d)
  BY DEF PacketOK, Announces, Punches, ToSocket, Address
<1>2. Backed(d)'
  BY DEF Backed, ToSocket
<1>3. Neutral(d)
  <2> SUFFICES ASSUME NEW k \in Node, NEW x \in Node, NEW p \in Nat, Random(k), Reveals(d, x, <<k, p>>)
               PROVE  Knows(x, <<k, p>>) \/ (Has(k, x)' /\ sess'[k][x].port = p)
    BY DEF Neutral
  <2>1. CASE addr = <<k, p>> /\ n = x
    BY <2>1
  <2>2. CASE <<n, port>> = <<k, p>> /\ addr[1] = x
    BY <2>2
  <2>3. (addr = <<k, p>> /\ <<n, port>>[1] = x) \/ (<<n, port>> = <<k, p>> /\ addr[1] = x)
    BY RevealedToSocket
  <2> QED BY <2>1, <2>2, <2>3
<1> QED BY <1>1, <1>2, <1>3 DEF Sound

\* p2p_session_send and the timer.
LEMMA SendStep ==
    ASSUME IInv, NEW n \in Node, NEW r \in Node, SendData(n, r) \/ KeepaliveTimer(n, r)
    PROVE  IInv'
<1> DEFINE s == sess[n][r]
<1>1. /\ Has(n, r) /\ s.peer # None /\ UNCHANGED <<nodeVars, serverVars, faults, heard, setup>>
      /\ net' = net \cup {ToSocket("data", s.peer, <<n, s.port>>)}
         \/ net' = net \cup {ToSocket("keepalive", s.peer, <<n, s.port>>)}
  BY DEF SendData, KeepaliveTimer, Send, OwnAddr
<1>2. UNCHANGED asks \/ AsksOK'
  <2>1. CASE KeepaliveTimer(n, r)
    BY <2>1 DEF KeepaliveTimer
  <2>2. CASE SendData(n, r)
    BY <2>2, Bounds, TypesApart DEF SendData, IInv, AsksOK
  <2> QED BY <2>1, <2>2
<1>3. TypeOK'
  BY <1>1, <1>2, TypesKept DEF IInv, nodeVars, serverVars
<1>4. s \in Session
  BY <1>1, TypesApart DEF IInv, SessOK, Has
<1>5. s.port \in Nat /\ s.peer \in Address
  BY <1>1, <1>4 DEF Session
<1>6. Knows(n, s.peer)
  BY <1>1 DEF Knows, Aims
<1>7. Random(n) => s.peer[1] = r
  BY <1>1 DEF IInv, Addresses, Exclusive
<1>8. Has(n, r)' /\ sess'[n][r].port = s.port
  BY <1>1 DEF Has, nodeVars
<1> HIDE DEF s
<1>9. ASSUME NEW t \in {"keepalive", "data"}, NEW d, d = ToSocket(t, s.peer, <<n, s.port>>) PROVE Sound(d)
  BY <1>5, <1>6, <1>7, <1>8, <1>9, PunchSound
<1>10. \A d \in net' : d \in net \/ Sound(d)
  BY <1>1, <1>9
<1> QED BY <1>1, <1>3, <1>10, PendStays, SameSessions DEF nodeVars, serverVars

-----------------------------------------------------------------------------
\* One session is now s, new or not.
Changed(n, r, s) ==
    /\ SessOK' /\ PoolsOwned' /\ Opens(n, r)
    /\ Has(n, r)' /\ sess'[n][r] = s
    /\ \A x, y \in Node : x # n \/ y # r => sess'[x][y] = sess[x][y]
    /\ \A x \in Node : sockets[x] <= sockets'[x]

\* A session changes and keeps its port.
LEMMA Revised ==
    ASSUME IInv, NEW n \in Node, NEW r \in Node, Has(n, r), NEW s \in Session,
           s.port = sess[n][r].port, sess' = [sess EXCEPT ![n][r] = s],
           UNCHANGED <<setup, used, sockets>>
    PROVE  Changed(n, r, s)
<1>1. sess \in [Node -> [Node -> Session \cup {NoSession}]] /\ sockets \in [Node -> 0 .. setup.sockets]
  BY TypesApart DEF IInv, SessOK, SocketsOK
<1>2. SessOK'
  BY <1>1 DEF SessOK
<1>3. sess'[n][r] = s /\ \A x, y \in Node : x # n \/ y # r => sess'[x][y] = sess[x][y]
  BY <1>1
<1>4. Has(n, r)'
  BY <1>3 DEF Has, Session, NoSession
<1>5. \A x, y \in Node : (Has(x, y)' <=> Has(x, y)) /\ sess'[x][y].port = sess[x][y].port
  BY <1>3, <1>4 DEF Has
<1>6. PoolsOwned'
  BY <1>5, PoolsSame DEF IInv, SamePorts
<1>7. Opens(n, r)
  BY <1>5 DEF Opens
<1>8. \A x \in Node : sockets[x] <= sockets'[x]
  BY <1>1
<1> QED BY <1>2, <1>3, <1>4, <1>6, <1>7, <1>8 DEF Changed

\* The session may aim where it did, or at an address of its remote node that
\* its node knows, and be connected if it was or if both ends have heard.
LEMMA ChangedStep ==
    ASSUME IInv, TypeOK', NEW n \in Node, NEW r \in Node, NEW s, Changed(n, r, s),
           UNCHANGED <<setup, pend>>, heard \subseteq heard',
           \/ Has(n, r) /\ s.peer = sess[n][r].peer
           \/ s.peer = None
           \/ Knows(n, s.peer) /\ (Random(n) => s.peer[1] = r),
           s.connected => (Has(n, r) /\ sess[n][r].connected) \/ BothHeard(n, r)',
           \A d \in net' : d \in net \/ Sound(d)
    PROVE  IInv'
<1>1. \A x, y \in Node : x # n \/ y # r => (Has(x, y)' <=> Has(x, y)) /\ sess'[x][y] = sess[x][y]
  BY DEF Has, Changed
<1>2. Has(n, r)' /\ sess'[n][r] = s
  BY DEF Changed
<1>3. Peers
  BY <1>1, <1>2 DEF Peers
<1>4. ASSUME NEW k \in Node, NEW x \in Node, NEW y \in Node, NEW p \in Nat, Aims(x, y, <<k, p>>)'
      PROVE  Knows(x, <<k, p>>)
  <2>1. CASE x # n \/ y # r
    BY <1>1, <1>4, <2>1 DEF Aims, Knows
  <2>2. CASE x = n /\ y = r
    BY <1>2, <1>4, <2>2 DEF Aims, Knows
  <2> QED BY <2>1, <2>2
<1>5. \A x, y \in Node : Has(x, y)' /\ sess'[x][y].connected =>
               (Has(x, y) /\ sess[x][y].connected) \/ BothHeard(x, y)'
  <2> SUFFICES ASSUME NEW x \in Node, NEW y \in Node, Has(x, y)', sess'[x][y].connected
               PROVE  (Has(x, y) /\ sess[x][y].connected) \/ BothHeard(x, y)'
    OBVIOUS
  <2>1. CASE x # n \/ y # r
    BY <1>1, <2>1
  <2>2. CASE x = n /\ y = r
    BY <1>2, <2>2
  <2> QED BY <2>1, <2>2
<1> QED BY <1>3, <1>4, <1>5, SessionStep DEF Changed

\* A session is a session.
LEMMA SessionTyped ==
    ASSUME IInv, NEW n \in Node, NEW r \in Node, Has(n, r)
    PROVE  sess[n][r] \in Session /\ sess[n][r].port \in Nat
  BY TypesApart DEF IInv, SessOK, Has, Session

\* The server answers a call: the session aims at the address it tells.
LEMMA Told ==
    ASSUME IInv, NEW n \in Node, NEW t \in {"INVITE", "ACCEPT"}, NEW m \in AtSignal(n, t)
    PROVE  m.m[1] \in Node /\ m.m[2] \in Address /\ m.m[2][1] = m.m[1] /\ Knows(n, m.m[2])
<1>1. m \in net /\ PacketOK(m) /\ Announces(m, "signal") /\ m.at[1] = n
  BY DEF AtSignal, SignalOf, Announces, IInv, NetOK
<1>2. m.m \in Node \X Address /\ m.m[2][1] = m.m[1]
  BY <1>1 DEF PacketOK
<1>3. Knows(n, m.m[2])
  BY <1>1 DEF Knows, Reveals
<1> QED BY <1>2, <1>3

\* The caller learns where the callee is and punches.
LEMMA OnAcceptStep ==
    ASSUME IInv, NEW n \in Node, OnAccept(n)
    PROVE  IInv'
<1> PICK m \in AtSignal(n, "ACCEPT") :
        \/ /\ Has(n, m.m[1])
           /\ sess' = [sess EXCEPT ![n][m.m[1]] = Punched(@, m.m[2])]
           /\ Receive(m, Punch(n, sess[n][m.m[1]], m.m[2]))
           /\ UNCHANGED <<phase, done, epoch, used, sockets, serverVars, heard, asks, setup>>
        \/ /\ ~Has(n, m.m[1])
           /\ Receive(m, {})
           /\ UNCHANGED <<nodeVars, serverVars, heard, asks, setup>>
  BY DEF OnAccept
<1>1. m.m[1] \in Node /\ m.m[2] \in Address /\ m.m[2][1] = m.m[1] /\ Knows(n, m.m[2])
  BY Told
<1>2. CASE /\ Receive(m, {})
           /\ UNCHANGED <<nodeVars, serverVars, heard, asks, setup>>
  <2>1. TypeOK'
    BY <1>2, ReceiveFaults, TypesKept DEF IInv, nodeVars, serverVars
  <2>2. net' \subseteq net
    BY <1>2, Received
  <2> QED BY <1>2, <2>1, <2>2, PendStays, CalmStep DEF nodeVars, serverVars
<1>3. CASE /\ Has(n, m.m[1])
           /\ sess' = [sess EXCEPT ![n][m.m[1]] = Punched(@, m.m[2])]
           /\ Receive(m, Punch(n, sess[n][m.m[1]], m.m[2]))
           /\ UNCHANGED <<phase, done, epoch, used, sockets, serverVars, heard, asks, setup>>
  <2> DEFINE r == m.m[1]
             s == Punched(sess[n][r], m.m[2])
  <2>1. r \in Node /\ Has(n, r) /\ m.m[2][1] = r
    BY <1>1, <1>3
  <2>2. sess' = [sess EXCEPT ![n][r] = s] /\ UNCHANGED <<setup, used, sockets>>
    BY <1>3
  <2>3. \A d \in net' : d \in net \/ d = ToSocket("keepalive", m.m[2], <<n, sess[n][r].port>>)
    BY <1>3, Received DEF Punch, OwnAddr
  <2> HIDE DEF r
  <2>4. sess[n][r] \in Session /\ sess[n][r].port \in Nat
    BY <2>1, SessionTyped
  <2>5. s \in Session /\ s.port = sess[n][r].port /\ s.peer = m.m[2] /\ s.connected = sess[n][r].connected
    BY <1>1, <2>4 DEF Punched, Session
  <2> HIDE DEF s
  <2>6. Changed(n, r, s)
    BY <2>1, <2>2, <2>5, Revised
  <2>7. TypeOK'
    BY <1>3, <2>6, ReceiveFaults, TypesKept DEF IInv, serverVars, Changed
  <2>8. \A d \in net' : d \in net \/ Sound(d)
    BY <1>1, <2>1, <2>3, <2>4, <2>5, <2>6, PunchSound DEF Changed
  <2> QED BY <1>1, <1>3, <2>1, <2>5, <2>6, <2>7, <2>8, ChangedStep DEF serverVars
<1> QED BY <1>2, <1>3

\* Without its session an answer of the server changes nothing.
LEMMA IgnoredStep ==
    ASSUME IInv, NEW m, Receive(m, {}), UNCHANGED <<nodeVars, serverVars, heard, asks, setup>>
    PROVE  IInv'
<1>1. TypeOK'
  BY ReceiveFaults, TypesKept DEF IInv, nodeVars, serverVars
<1>2. net' \subseteq net
  BY Received
<1> QED BY <1>1, <1>2, PendStays, CalmStep DEF nodeVars, serverVars

\* A rejected session is marked.
LEMMA OnRejectStep ==
    ASSUME IInv, NEW n \in Node, OnReject(n)
    PROVE  IInv'
<1> PICK m \in AtSignal(n, "REJECT") :
        /\ sess' = IF Has(n, m.m[1])
                   THEN [sess EXCEPT ![n][m.m[1]] =
                            [@ EXCEPT !.active = FALSE, !.connected = FALSE]]
                   ELSE sess
        /\ Receive(m, {})
        /\ UNCHANGED <<phase, done, epoch, used, sockets, serverVars, heard, asks, setup>>
  BY DEF OnReject
<1> DEFINE r == m.m[1]
           s == [sess[n][r] EXCEPT !.active = FALSE, !.connected = FALSE]
<1>1. r \in Node
  BY DEF AtSignal, IInv, NetOK, PacketOK
<1>2. CASE ~Has(n, r)
  BY <1>2, IgnoredStep DEF nodeVars
<1>3. CASE Has(n, r)
  <2>1. sess' = [sess EXCEPT ![n][r] = s]
    BY <1>1, <1>3, TypesApart DEF IInv, SessOK
  <2> HIDE DEF r
  <2>2. sess[n][r] \in Session
    BY <1>1, <1>3, SessionTyped
  <2>3. s \in Session /\ s.port = sess[n][r].port /\ s.peer = sess[n][r].peer /\ ~s.connected
    BY <2>2 DEF Session
  <2> HIDE DEF s
  <2>4. Changed(n, r, s)
    BY <1>1, <1>3, <2>1, <2>3, Revised
  <2>5. TypeOK'
    BY <2>4, ReceiveFaults, TypesKept DEF IInv, serverVars, Changed
  <2>6. net' \subseteq net
    BY Received
  <2> QED BY <1>1, <1>3, <2>3, <2>4, <2>5, <2>6, ChangedStep DEF serverVars
<1> QED BY <1>2, <1>3

\* The flag is set because both ends have heard.
LEMMA OnConnectedStep ==
    ASSUME IInv, NEW n \in Node, OnConnected(n)
    PROVE  IInv'
<1> PICK m \in AtSignal(n, "CONNECTED") :
        /\ sess' = IF Has(n, m.m[1])
                   THEN [sess EXCEPT ![n][m.m[1]] =
                            [@ EXCEPT !.connected = TRUE, !.send_punch = FALSE]]
                   ELSE sess
        /\ Receive(m, {})
        /\ UNCHANGED <<phase, done, epoch, used, sockets, serverVars, heard, asks, setup>>
  BY DEF OnConnected
<1> DEFINE r == m.m[1]
           s == [sess[n][r] EXCEPT !.connected = TRUE, !.send_punch = FALSE]
<1>1. r \in Node
  BY DEF AtSignal, IInv, NetOK, PacketOK
<1>2. BothHeard(n, r)
  BY DEF AtSignal, SignalOf, IInv, Evidence, NetBacked, Backed
<1>3. CASE ~Has(n, r)
  BY <1>3, IgnoredStep DEF nodeVars
<1>4. CASE Has(n, r)
  <2>1. sess' = [sess EXCEPT ![n][r] = s]
    BY <1>1, <1>4, TypesApart DEF IInv, SessOK
  <2> HIDE DEF r
  <2>2. sess[n][r] \in Session
    BY <1>1, <1>4, SessionTyped
  <2>3. s \in Session /\ s.port = sess[n][r].port /\ s.peer = sess[n][r].peer
    BY <2>2 DEF Session
  <2> HIDE DEF s
  <2>4. Changed(n, r, s)
    BY <1>1, <1>4, <2>1, <2>3, Revised
  <2>5. TypeOK'
    BY <2>4, ReceiveFaults, TypesKept DEF IInv, serverVars, Changed
  <2>6. net' \subseteq net /\ BothHeard(n, r)'
    BY <1>2, Received, HeardStays
  <2> QED BY <1>1, <1>4, <2>3, <2>4, <2>5, <2>6, ChangedStep DEF serverVars
<1> QED BY <1>3, <1>4

-----------------------------------------------------------------------------
\* A session's socket.

\* The node announces the address of its own session.
LEMMA AnnounceSound ==
    ASSUME IInv, NEW n \in Node, NEW r \in Node, NEW port \in Nat, NEW t,
           t \in {"INVITE", "ACCEPT"}, Has(n, r)', sess'[n][r].port = port,
           NEW d, d = ToServer(t, SignalOf(n), <<n, r, <<n, port>>>>)
    PROVE  Sound(d)
<1>1. PacketOK(d)
  <2>1. SignalOf(n) \in Node \X (0 .. setup.signins)
    BY TypesApart DEF IInv, EpochOK, SignalOf
  <2> QED BY <2>1 DEF PacketOK, Announces, Punches, ToServer, Address
<1>2. Backed(d)'
  BY DEF Backed, ToServer
<1>3. Neutral(d)
  <2> SUFFICES ASSUME NEW k \in Node, NEW x \in Node, NEW p \in Nat, Random(k), Reveals(d, x, <<k, p>>)
               PROVE  Knows(x, <<k, p>>) \/ (Has(k, x)' /\ sess'[k][x].port = p)
    BY DEF Neutral
  <2>1. <<n, r, <<n, port>>>>[3] = <<k, p>> /\ <<n, r, <<n, port>>>>[2] = x
    BY RevealedToServer
  <2> QED BY <2>1
<1> QED BY <1>1, <1>2, <1>3 DEF Sound

\* The echo of a STUN server, to be.
LEMMA ProbeSound ==
    ASSUME NEW at, NEW d, d = ToSocket("bind", at, None)
    PROVE  Sound(d)
<1>1. Plain(d) /\ PacketOK(d)
  BY DEF Plain, PacketOK, Announces, Punches, ToSocket
<1> QED BY <1>1, PlainSays DEF Sound

\* The STUN echo tells a session its own address.
LEMMA OnBindingStep ==
    ASSUME IInv, NEW n \in Node, NEW r \in Node, OnBinding(n, r)
    PROVE  IInv'
<1> PICK m \in AtSocket(n, r, "bind") :
        /\ sess' = [sess EXCEPT ![n][r].own = TRUE]
        /\ Receive(m, IF ~sess[n][r].own /\ setup.stun2 THEN Probe(n, sess[n][r])
                      ELSE Announce(n, r, sess[n][r]))
        /\ UNCHANGED <<phase, done, epoch, used, sockets, serverVars, heard, asks, setup>>
  BY DEF OnBinding
<1> DEFINE s == [sess[n][r] EXCEPT !.own = TRUE]
<1>1. Has(n, r)
  BY DEF AtSocket
<1>2. sess' = [sess EXCEPT ![n][r] = s]
  BY TypesApart DEF IInv, SessOK
<1>3. sess[n][r] \in Session /\ sess[n][r].port \in Nat
  BY <1>1, SessionTyped
<1>4. /\ s \in Session /\ s.port = sess[n][r].port /\ s.peer = sess[n][r].peer
      /\ s.connected = sess[n][r].connected
  BY <1>3 DEF Session
<1> HIDE DEF s
<1>5. Changed(n, r, s)
  BY <1>1, <1>2, <1>4, Revised
<1>6. TypeOK'
  BY <1>5, ReceiveFaults, TypesKept DEF IInv, serverVars, Changed
<1>7. \A d \in net' : \/ d \in net
                     \/ d = ToSocket("bind", OwnAddr(n, sess[n][r]), None)
                     \/ \E t \in {"INVITE", "ACCEPT"} :
                           d = ToServer(t, SignalOf(n), <<n, r, <<n, sess[n][r].port>>>>)
  BY Received DEF Probe, Announce, OwnAddr
<1>8. \A d \in net' : d \in net \/ Sound(d)
  BY <1>3, <1>4, <1>5, <1>7, ProbeSound, AnnounceSound DEF Changed
<1> QED BY <1>1, <1>4, <1>5, <1>6, <1>8, ChangedStep DEF serverVars

\* A packet at the socket of a session with a port of its own is its remote
\* node's: nobody else knows the address.
LEMMA Arrived ==
    ASSUME IInv, NEW n \in Node, NEW r \in Node, NEW t \in {"keepalive", "data"}, NEW m \in AtSocket(n, r, t)
    PROVE  Has(n, r) /\ m.src \in Address /\ Knows(n, m.src) /\ (Random(n) => m.src[1] = r)
<1>1. m \in net /\ PacketOK(m) /\ Punches(m) /\ Has(n, r) /\ m.at = <<n, sess[n][r].port>>
  BY DEF AtSocket, OwnAddr, Punches, IInv, NetOK
<1>2. m.src \in Address /\ m.src[1] \in Node
  BY <1>1 DEF PacketOK, Address
<1>3. sess[n][r].port \in Nat
  BY <1>1, SessionTyped
<1>4. Knows(n, m.src)
  BY <1>1 DEF Knows, Reveals
<1>5. Knows(m.src[1], <<n, sess[n][r].port>>)
  BY <1>1 DEF Knows, Reveals
<1>6. Random(n) => m.src[1] = r
  BY <1>1, <1>2, <1>3, <1>5 DEF IInv, Addresses, Exclusive
<1> QED BY <1>1, <1>2, <1>4, <1>6

\* A KEEPALIVE is heard: this is the evidence everything rests on.
LEMMA OnKeepaliveStep ==
    ASSUME IInv, NEW n \in Node, NEW r \in Node, OnKeepalive(n, r)
    PROVE  IInv'
<1> PICK m \in AtSocket(n, r, "keepalive") :
        /\ sess' = [sess EXCEPT ![n][r] = [Learned(@, m) EXCEPT !.send_punch = FALSE]]
        /\ Receive(m, IF sess[n][r].send_punch
                      THEN {ToServer("PUNCHOK", SignalOf(n), <<n, r>>)} ELSE {})
        /\ Hears(n, r, m)
        /\ UNCHANGED <<phase, done, epoch, used, sockets, serverVars, asks, setup>>
  BY DEF OnKeepalive
<1> DEFINE s == [Learned(sess[n][r], m) EXCEPT !.send_punch = FALSE]
<1>1. Has(n, r) /\ m.src \in Address /\ Knows(n, m.src) /\ (Random(n) => m.src[1] = r)
  BY Arrived
<1>2. sess' = [sess EXCEPT ![n][r] = s]
  BY TypesApart DEF IInv, SessOK
<1>3. sess[n][r] \in Session
  BY <1>1, SessionTyped
<1>4. s \in Session /\ s.port = sess[n][r].port /\ s.peer = m.src /\ s.connected = sess[n][r].connected
  BY <1>1, <1>3 DEF Session, Learned
<1> HIDE DEF s
<1>5. Changed(n, r, s)
  BY <1>1, <1>2, <1>4, Revised
<1>6. heard \subseteq heard' /\ HasHeard(n, r)' /\ (UNCHANGED heard \/ heard' \subseteq Node \X Node)
  BY <1>1, TypesApart DEF Hears, HasHeard, Random, Pool, IInv
<1>7. TypeOK'
  BY <1>5, <1>6, ReceiveFaults, TypesKept DEF IInv, serverVars, Changed
<1>8. \A d \in net' : d \in net \/ d = ToServer("PUNCHOK", SignalOf(n), <<n, r>>)
  BY Received
<1>9. ASSUME NEW d, d = ToServer("PUNCHOK", SignalOf(n), <<n, r>>) PROVE Sound(d)
  <2>1. SignalOf(n) \in Node \X (0 .. setup.signins)
    BY TypesApart DEF IInv, EpochOK, SignalOf
  <2>2. PacketOK(d)
    BY <1>9, <2>1 DEF PacketOK, Announces, Punches, ToServer
  <2>3. Neutral(d)
    BY <1>9 DEF Neutral, Reveals, Announces, Punches, ToServer
  <2>4. Backed(d)'
    BY <1>6, <1>9 DEF Backed, ToServer
  <2> QED BY <2>2, <2>3, <2>4 DEF Sound
<1>10. \A d \in net' : d \in net \/ Sound(d)
  BY <1>8, <1>9
<1> QED BY <1>1, <1>4, <1>5, <1>6, <1>7, <1>10, ChangedStep DEF serverVars

\* Data arrives.
LEMMA OnDataStep ==
    ASSUME IInv, NEW n \in Node, NEW r \in Node, OnData(n, r)
    PROVE  IInv'
<1> PICK m \in AtSocket(n, r, "data") :
        /\ sess' = [sess EXCEPT ![n][r] = Learned(@, m)]
        /\ Receive(m, {})
        /\ Hears(n, r, m)
        /\ UNCHANGED <<phase, done, epoch, used, sockets, serverVars, asks, setup>>
  BY DEF OnData
<1> DEFINE s == Learned(sess[n][r], m)
<1>1. Has(n, r) /\ m.src \in Address /\ Knows(n, m.src) /\ (Random(n) => m.src[1] = r)
  BY Arrived
<1>2. sess' = [sess EXCEPT ![n][r] = s]
  BY TypesApart DEF IInv, SessOK
<1>3. sess[n][r] \in Session
  BY <1>1, SessionTyped
<1>4. s \in Session /\ s.port = sess[n][r].port /\ s.peer = m.src /\ s.connected = sess[n][r].connected
  BY <1>1, <1>3 DEF Session, Learned
<1> HIDE DEF s
<1>5. Changed(n, r, s)
  BY <1>1, <1>2, <1>4, Revised
<1>6. heard \subseteq heard' /\ (UNCHANGED heard \/ heard' \subseteq Node \X Node)
  BY TypesApart DEF Hears, IInv
<1>7. TypeOK'
  BY <1>5, <1>6, ReceiveFaults, TypesKept DEF IInv, serverVars, Changed
<1>8. net' \subseteq net
  BY Received
<1> QED BY <1>1, <1>4, <1>5, <1>6, <1>7, <1>8, ChangedStep DEF serverVars

-----------------------------------------------------------------------------
\* Sessions are closed.

\* The sessions of n with the nodes in S are freed, the others are not touched.
Frees(n, S) ==
    /\ sess' = [sess EXCEPT ![n] = [r \in Node |-> IF r \in S THEN NoSession ELSE sess[n][r]]]
    /\ used' = [used EXCEPT ![n] = Freed(n, @, {sess[n][y].port : y \in {z \in S : Has(n, z)}})]
    /\ UNCHANGED setup

\* A node frees the sessions with the nodes of S, and their ports.
LEMMA Closed ==
    ASSUME IInv, NEW n \in Node, NEW S, S \subseteq Node, Frees(n, S)
    PROVE  /\ SessOK' /\ UsedOK' /\ PoolsOwned' /\ Fewer
           /\ \A x, y \in Node : Has(x, y)' => sess'[x][y] = sess[x][y]
<1>1. SessOK /\ UsedOK /\ TypeOK
  BY TypesApart DEF IInv
<1>2. SessOK'
  BY <1>1 DEF SessOK, Frees
<1>3. \A x \in Node : used'[x] \subseteq used[x]
  BY <1>1 DEF UsedOK, Frees, Freed
<1>4. UsedOK'
  <2>1. used' \in [Node -> SUBSET Nat]
    BY <1>1, <1>3 DEF UsedOK, Frees
  <2>2. Pool' = Pool
    BY DEF Frees, Pool
  <2> QED BY <1>1, <1>3, <2>1, <2>2 DEF UsedOK
<1>5. \A x \in Node \ {n} : sess'[x] = sess[x] /\ used'[x] = used[x]
  BY <1>1 DEF SessOK, UsedOK, Frees
<1>6. \A y \in Node : sess'[n][y] = IF y \in S THEN NoSession ELSE sess[n][y]
  BY <1>1 DEF SessOK, Frees
<1>7. /\ \A y \in Node : Has(n, y)' <=> Has(n, y) /\ y \notin S
      /\ \A y \in Node \ S : sess'[n][y] = sess[n][y]
  BY <1>6 DEF Has
<1>8. \A x, y \in Node : Has(x, y)' => Has(x, y) /\ sess'[x][y] = sess[x][y]
  BY <1>5, <1>7 DEF Has
<1>9. Fewer
  BY <1>8 DEF Fewer
<1>10. PoolsOwned'
  <2>1. \A x \in Node : (~Random(x) /\ NamedOnce(x))' => ~Random(x) /\ NamedOnce(x) /\ PoolOwned(x)
    BY DEF Frees, IInv, PoolsOwned, Random, NamedOnce, Pool
  <2>2. ASSUME NEW x \in Node \ {n}, PoolOwned(x) PROVE PoolOwned(x)'
    <3>1. SamePorts(x)
      BY <1>5 DEF SamePorts, Has
    <3>2. used'[x] = used[x] /\ UNCHANGED setup
      BY <1>5 DEF Frees
    <3> QED BY <2>2, <3>1, <3>2, PoolSame
  <2>3. ASSUME PoolOwned(n), NamedOnce(n) PROVE PoolOwned(n)'
    <3>1. used'[n] = Freed(n, used[n], {sess[n][y].port : y \in {z \in S : Has(n, z)}}) /\ UNCHANGED setup
      BY <1>1 DEF UsedOK, Frees
    <3> QED BY <1>1, <1>7, <2>3, <3>1, PoolClosed
  <2> QED BY <2>1, <2>2, <2>3 DEF PoolsOwned
<1> QED BY <1>2, <1>4, <1>8, <1>9, <1>10

\* p2p_node_close, a crash, or a registration that gets no answer.
LEMMA DownStep ==
    ASSUME IInv, NEW n \in Node, SigninTimeout(n) \/ NodeClose(n) \/ NodeCrash(n)
    PROVE  IInv'
<1>1. Down(n)
  BY DEF SigninTimeout, NodeClose, NodeCrash
<1>2. Frees(n, Node)
  BY <1>1 DEF Down, Frees
<1>3. /\ SessOK' /\ UsedOK' /\ PoolsOwned' /\ Fewer
      /\ \A x, y \in Node : Has(x, y)' => sess'[x][y] = sess[x][y]
  BY <1>2, Closed
<1>4. PhaseOK'
  BY <1>1, TypesApart DEF IInv, Down, PhaseOK
<1>5. (UNCHANGED asks \/ AsksOK') /\ (UNCHANGED faults \/ FaultsOK')
  <2>1. CASE NodeClose(n)
    <3>1. asks' = [asks EXCEPT !.close = @ + 1] /\ asks.close < setup.closes /\ UNCHANGED <<faults, setup>>
      BY <2>1 DEF NodeClose, Down
    <3> QED BY <3>1, TypesApart, Bounds DEF IInv, AsksOK
  <2>2. CASE SigninTimeout(n) \/ NodeCrash(n)
    <3>1. UNCHANGED <<asks, setup>> /\ (UNCHANGED faults \/ (faults < setup.faults /\ faults' = faults + 1))
      BY <2>2 DEF SigninTimeout, NodeCrash, Down
    <3> QED BY <3>1, TypesApart, Bounds DEF IInv, FaultsOK
  <2> QED BY <2>1, <2>2
<1>6. TypeOK'
  BY <1>1, <1>3, <1>4, <1>5, TypesKept DEF IInv, Down, serverVars
<1>7. \A d \in net' : d \in net \/ d = ToServer("SIGNOUT", SignalOf(n), n)
  BY DEF SigninTimeout, NodeClose, NodeCrash, Send
<1>8. \A d \in net' : d \in net \/ Sound(d)
  <2>1. SignalOf(n) \in Node \X (0 .. setup.signins)
    BY TypesApart DEF IInv, EpochOK, SignalOf
  <2>2. \A d \in net' : d \in net \/ (Plain(d) /\ PacketOK(d))
    BY <1>7, <2>1 DEF Plain, PacketOK, Announces, Punches, ToServer
  <2> QED BY <2>2, PlainSays DEF Sound
<1> QED BY <1>1, <1>3, <1>6, <1>8, PendStays, FewerStep DEF Down, serverVars

\* p2p_session_close.
LEMMA CloseSessionStep ==
    ASSUME IInv, NEW n \in Node, NEW r \in Node, CloseSession(n, r)
    PROVE  IInv'
<1>1. Frees(n, {r})
  <2>1. sess \in [Node -> [Node -> Session \cup {NoSession}]]
    BY TypesApart DEF IInv, SessOK
  <2>2. sess' = [sess EXCEPT ![n] = [y \in Node |-> IF y \in {r} THEN NoSession ELSE sess[n][y]]]
    <3>1. [sess[n] EXCEPT ![r] = NoSession] = [y \in Node |-> IF y \in {r} THEN NoSession ELSE sess[n][y]]
      BY <2>1
    <3>2. sess' = [sess EXCEPT ![n] = [sess[n] EXCEPT ![r] = NoSession]]
      BY <2>1 DEF CloseSession
    <3> QED BY <3>1, <3>2
  <2>3. {sess[n][r].port} = {sess[n][y].port : y \in {z \in {r} : Has(n, z)}}
    BY DEF CloseSession
  <2> QED BY <2>2, <2>3 DEF CloseSession, Frees
<1>2. /\ SessOK' /\ UsedOK' /\ PoolsOwned' /\ Fewer
      /\ \A x, y \in Node : Has(x, y)' => sess'[x][y] = sess[x][y]
  BY <1>1, Closed
<1>3. AsksOK'
  BY TypesApart, Bounds DEF CloseSession, IInv, AsksOK
<1>4. TypeOK'
  BY <1>2, <1>3, TypesKept DEF IInv, CloseSession, serverVars
<1> QED BY <1>2, <1>4, PendStays, FewerStep DEF CloseSession, serverVars

-----------------------------------------------------------------------------
\* Sessions are opened.
LEMMA CreatedIsSession ==
    ASSUME IInv, NEW n \in Node, NEW r \in Node, NEW role \in {"caller", "callee"},
           Has(n, r) \/ CanOpen(n), CreateOpens(n, r), UNCHANGED setup
    PROVE  /\ Created(n, r, role) \in Session /\ UsedOK' /\ SocketsOK'
           /\ Has(n, r) => /\ Created(n, r, role).peer = sess[n][r].peer
                          /\ Created(n, r, role).connected = sess[n][r].connected
           /\ ~Has(n, r) => Created(n, r, role).peer = None /\ ~Created(n, r, role).connected
<1>1. SessOK /\ UsedOK /\ SocketsOK /\ TypeOK
  BY TypesApart DEF IInv
<1>2. Pool[n] \in Seq(Nat \ {0}) /\ Pool' = Pool
  BY <1>1, P2pAssumption DEF TypeOK, SetupOK, Pool
<1>3. CASE Has(n, r)
  <2>1. sess[n][r] \in Session
    BY <1>3, SessionTyped
  <2>2. Created(n, r, role) = [sess[n][r] EXCEPT !.own = FALSE]
    BY <1>3 DEF Created, Probed
  <2>3. UsedOK' /\ SocketsOK'
    BY <1>1, <1>2, <1>3 DEF CreateOpens, UsedOK, SocketsOK
  <2> QED BY <1>3, <2>1, <2>2, <2>3 DEF Session
<1>4. CASE ~Has(n, r)
  <2>1. Pool[n] # <<>> => FirstFree(n) \in DOMAIN Pool[n]
    BY <1>1, <1>4, FirstIsFree DEF CanOpen
  <2>2. NewPort(n) \in Nat
    BY <1>1, <1>2, <2>1 DEF NewPort, SocketsOK
  <2>3. Created(n, r, role) = [NewSession(n, role) EXCEPT !.own = FALSE]
    BY <1>4 DEF Created, Probed
  <2>4. NewSession(n, role) \in Session /\ NewSession(n, role).peer = None /\ ~NewSession(n, role).connected
    BY <2>2 DEF NewSession, Session
  <2>5. /\ Created(n, r, role) \in Session
        /\ Created(n, r, role).peer = None /\ ~Created(n, r, role).connected
    BY <2>3, <2>4 DEF Session
  <2>6. SocketsOK'
    BY <1>1, <1>4, Bounds DEF CreateOpens, SocketsOK
  <2>7. UsedOK'
    <3>1. NewUsed(n) \subseteq DOMAIN Pool[n] /\ NewUsed(n) \subseteq Nat
      BY <1>1, <1>2, <2>1 DEF NewUsed, UsedOK
    <3>2. used' = [used EXCEPT ![n] = NewUsed(n)]
      BY <1>4 DEF CreateOpens
    <3> QED BY <1>1, <1>2, <3>1, <3>2 DEF UsedOK
  <2> QED BY <1>4, <2>5, <2>6, <2>7
<1> QED BY <1>3, <1>4

\* The session is new, on a port that no other has, or the one that was there.
LEMMA Opened ==
    ASSUME IInv, NEW n \in Node, NEW r \in Node, NEW role \in {"caller", "callee"},
           Has(n, r) \/ CanOpen(n), CreateOpens(n, r), UNCHANGED setup,
           NEW s \in Session, s.port = Created(n, r, role).port, sess' = [sess EXCEPT ![n][r] = s]
    PROVE  Changed(n, r, s)
<1>1. SessOK /\ UsedOK /\ SocketsOK /\ TypeOK
  BY TypesApart DEF IInv
<1>2. CASE Has(n, r)
  <2>1. sess[n][r] \in Session
    BY <1>2, SessionTyped
  <2>2. s.port = sess[n][r].port
    BY <1>2, <2>1 DEF Created, Probed, Session
  <2>3. UNCHANGED <<setup, used, sockets>>
    BY <1>2 DEF CreateOpens
  <2> QED BY <1>2, <2>2, <2>3, Revised
<1>3. CASE ~Has(n, r)
  <2>1. s.port = NewPort(n)
    BY <1>3 DEF Created, Probed, NewSession
  <2>2. sess'[n][r] = s /\ \A x, y \in Node : x # n \/ y # r => sess'[x][y] = sess[x][y]
    BY <1>1 DEF SessOK
  <2>3. Has(n, r)'
    BY <2>2 DEF Has, Session, NoSession
  <2>4. SessOK'
    BY <1>1 DEF SessOK
  <2>5. /\ used' = [used EXCEPT ![n] = NewUsed(n)]
        /\ sockets' = [sockets EXCEPT ![n] = @ + 1]
    BY <1>3 DEF CreateOpens
  <2>6. sockets'[n] = sockets[n] + 1 /\ \A x \in Node : sockets[x] <= sockets'[x]
    BY <1>1, <2>5 DEF SocketsOK
  <2>7. Opens(n, r)
    <3>1. Random(n) => s.port = sockets[n] + 1
      BY <2>1 DEF NewPort, Random
    <3> QED BY <2>2, <2>6, <3>1 DEF Opens, Has
  <2>8. PoolsOwned'
    <3>1. \A x \in Node : (~Random(x) /\ NamedOnce(x))' => ~Random(x) /\ NamedOnce(x) /\ PoolOwned(x)
      BY DEF IInv, PoolsOwned, Random, NamedOnce, Pool
    <3>2. ASSUME NEW x \in Node \ {n}, PoolOwned(x) PROVE PoolOwned(x)'
      <4>1. SamePorts(x)
        BY <2>2 DEF SamePorts, Has
      <4>2. used'[x] = used[x]
        BY <1>1, <2>5 DEF UsedOK
      <4> QED BY <3>2, <4>1, <4>2, PoolSame
    <3>3. ASSUME ~Random(n), PoolOwned(n), NamedOnce(n) PROVE PoolOwned(n)'
      <4>1. used'[n] = NewUsed(n)
        BY <1>1, <2>5 DEF UsedOK
      <4>2. Pool[n] # <<>> /\ FreeEntries(n) # {}
        BY <1>3, <3>3 DEF Random, CanOpen
      <4>3. \A y \in Node \ {r} : sess'[n][y] = sess[n][y]
        BY <2>2
      <4>4. sess'[n][r].port = NewPort(n)
        BY <2>1, <2>2
      <4> QED BY <1>1, <1>3, <2>3, <3>3, <4>1, <4>2, <4>3, <4>4, PoolOpened
    <3> QED BY <3>1, <3>2, <3>3 DEF PoolsOwned
  <2> QED BY <2>2, <2>3, <2>4, <2>6, <2>7, <2>8 DEF Changed
<1> QED BY <1>2, <1>3

\* p2p_session_create.
LEMMA CreateSessionStep ==
    ASSUME IInv, NEW n \in Node, NEW r \in Node, CreateSession(n, r)
    PROVE  IInv'
<1> DEFINE s == Created(n, r, "caller")
<1>1. /\ Has(n, r) \/ CanOpen(n)
      /\ CreateOpens(n, r) /\ UNCHANGED setup
      /\ sess' = [sess EXCEPT ![n][r] = s]
  BY DEF CreateSession
<1>2. /\ s \in Session /\ UsedOK' /\ SocketsOK'
      /\ Has(n, r) => s.peer = sess[n][r].peer /\ s.connected = sess[n][r].connected
      /\ ~Has(n, r) => s.peer = None /\ ~s.connected
  BY <1>1, CreatedIsSession
<1>3. Changed(n, r, s)
  BY <1>1, <1>2, Opened
<1>4. \A d \in net' : d \in net \/ d = ToSocket("bind", OwnAddr(n, s), None)
  BY DEF CreateSession, Send, Probe
<1>5. AsksOK'
  BY TypesApart, Bounds DEF CreateSession, IInv, AsksOK
<1> HIDE DEF s
<1>6. TypeOK'
  BY <1>2, <1>3, <1>5, TypesKept DEF IInv, CreateSession, serverVars, Changed
<1>7. \A d \in net' : d \in net \/ Sound(d)
  BY <1>4, ProbeSound
<1>8. UNCHANGED <<setup, pend, heard>>
  BY DEF CreateSession, serverVars
<1> QED BY <1>2, <1>3, <1>6, <1>7, <1>8, ChangedStep

\* The callee's session, and its first punch.
LEMMA OnInviteStep ==
    ASSUME IInv, NEW n \in Node, OnInvite(n)
    PROVE  IInv'
<1> PICK m \in AtSignal(n, "INVITE") :
        \/ /\ Receive(m, {ToServer("REJECT", SignalOf(n), <<n, m.m[1]>>)})
           /\ UNCHANGED <<nodeVars, serverVars, heard, asks, setup>>
        \/ /\ Has(n, m.m[1]) \/ CanOpen(n)
           /\ CreateOpens(n, m.m[1])
           /\ sess' = [sess EXCEPT ![n][m.m[1]] = Punched(Created(n, m.m[1], "callee"), m.m[2])]
           /\ Receive(m, Probe(n, Punched(Created(n, m.m[1], "callee"), m.m[2]))
                         \cup Punch(n, Punched(Created(n, m.m[1], "callee"), m.m[2]), m.m[2]))
           /\ UNCHANGED <<phase, done, epoch, serverVars, heard, asks, setup>>
  BY DEF OnInvite
<1>1. m.m[1] \in Node /\ m.m[2] \in Address /\ m.m[2][1] = m.m[1] /\ Knows(n, m.m[2])
  BY Told
<1>2. CASE /\ Receive(m, {ToServer("REJECT", SignalOf(n), <<n, m.m[1]>>)})
           /\ UNCHANGED <<nodeVars, serverVars, heard, asks, setup>>
  <2>1. TypeOK'
    BY <1>2, ReceiveFaults, TypesKept DEF IInv, nodeVars, serverVars
  <2>2. \A d \in net' : d \in net \/ d = ToServer("REJECT", SignalOf(n), <<n, m.m[1]>>)
    BY <1>2, Received
  <2>3. SignalOf(n) \in Node \X (0 .. setup.signins)
    BY TypesApart DEF IInv, EpochOK, SignalOf
  <2>4. \A d \in net' : d \in net \/ (Plain(d) /\ PacketOK(d))
    BY <1>1, <2>2, <2>3 DEF Plain, PacketOK, Announces, Punches, ToServer
  <2> QED BY <1>2, <2>1, <2>4, PendStays, CalmStep DEF nodeVars, serverVars
<1>3. CASE /\ Has(n, m.m[1]) \/ CanOpen(n)
           /\ CreateOpens(n, m.m[1])
           /\ sess' = [sess EXCEPT ![n][m.m[1]] = Punched(Created(n, m.m[1], "callee"), m.m[2])]
           /\ Receive(m, Probe(n, Punched(Created(n, m.m[1], "callee"), m.m[2]))
                         \cup Punch(n, Punched(Created(n, m.m[1], "callee"), m.m[2]), m.m[2]))
           /\ UNCHANGED <<phase, done, epoch, serverVars, heard, asks, setup>>
  <2> DEFINE r == m.m[1]
             c == Created(n, r, "callee")
             s == Punched(c, m.m[2])
  <2>1. /\ r \in Node /\ m.m[2][1] = r
        /\ Has(n, r) \/ CanOpen(n)
        /\ CreateOpens(n, r) /\ UNCHANGED <<setup, pend, heard>>
        /\ sess' = [sess EXCEPT ![n][r] = s]
    BY <1>1, <1>3 DEF serverVars
  <2>2. \A d \in net' : \/ d \in net
                       \/ d = ToSocket("bind", OwnAddr(n, s), None)
                       \/ d = ToSocket("keepalive", m.m[2], <<n, s.port>>)
    BY <1>3, Received DEF Probe, Punch, OwnAddr
  <2> HIDE DEF r
  <2>3. /\ c \in Session /\ UsedOK' /\ SocketsOK'
        /\ c.connected => Has(n, r) /\ sess[n][r].connected
    BY <2>1, CreatedIsSession
  <2> HIDE DEF c
  <2>4. s \in Session /\ s.port \in Nat /\ s.port = c.port /\ s.peer = m.m[2] /\ s.connected = c.connected
    BY <1>1, <2>3 DEF Punched, Session
  <2> HIDE DEF s
  <2>5. Changed(n, r, s)
    BY <2>1, <2>4, Opened DEF c
  <2>6. TypeOK'
    BY <1>3, <2>3, <2>5, ReceiveFaults, TypesKept DEF IInv, serverVars, Changed
  <2>7. \A d \in net' : d \in net \/ Sound(d)
    <3>1. Has(n, r)' /\ sess'[n][r].port = s.port
      BY <2>5 DEF Changed
    <3> QED BY <1>1, <2>1, <2>2, <2>4, <3>1, ProbeSound, PunchSound
  <2> QED BY <1>1, <2>1, <2>3, <2>4, <2>5, <2>6, <2>7, ChangedStep
<1> QED BY <1>2, <1>3

-----------------------------------------------------------------------------
\* The invariant holds at first.
LEMMA InitHolds == Init => IInv
<1> SUFFICES ASSUME Init PROVE IInv
  OBVIOUS
<1>1. SetupOK(setup)
  BY P2pAssumption DEF Init
<1>2. \A x, y \in Node : ~Has(x, y)
  BY DEF Init, Has
<1>3. PhaseOK /\ DoneOK /\ UsedOK /\ SessOK
  BY DEF Init, PhaseOK, DoneOK, UsedOK, SessOK
<1>4. SocketsOK /\ AsksOK /\ FaultsOK
  BY <1>1 DEF Init, SetupOK, SocketsOK, AsksOK, FaultsOK
<1>5. EpochOK /\ RegOK
  BY <1>1 DEF Init, SetupOK, EpochOK, RegOK
<1>6. TypeOK
  BY <1>3, <1>4, <1>5, TypesApart DEF Init
<1>7. NetOK /\ NetBacked
  BY DEF Init, NetOK, NetBacked
<1>8. PoolsOwned
  BY <1>2 DEF Init, PoolsOwned, PoolOwned
<1>9. \A x \in Node : \A addr : ~Knows(x, addr)
  BY <1>2 DEF Init, Knows, Aims
<1>10. Addresses
  BY <1>2, <1>9 DEF Addresses, NoForesight, Exclusive
<1>11. FlagsBacked /\ MarksBacked /\ PendOK
  BY <1>2 DEF Init, FlagsBacked, MarksBacked, PendOK
<1> QED BY <1>6, <1>7, <1>8, <1>10, <1>11 DEF IInv, Evidence

\* Every step keeps it.
LEMMA StepKeeps == IInv /\ [Next]_vars => IInv'
<1> SUFFICES ASSUME IInv, [Next]_vars PROVE IInv'
  OBVIOUS
<1>1. CASE UNCHANGED vars
  <2>1. TypeOK'
    BY <1>1, TypesKept DEF vars, nodeVars, serverVars, IInv
  <2> QED BY <1>1, <2>1, PendStays, CalmStep DEF vars, nodeVars, serverVars
<1>2. ASSUME NEW n \in Node, Application(n) PROVE IInv'
  BY <1>2, NodeCreateStep, DownStep, CreateSessionStep, CloseSessionStep, SendStep DEF Application
<1>3. ASSUME NEW n \in Node, Signin(n) PROVE IInv'
  BY <1>3, SigninStep, DownStep DEF Signin
<1>4. ASSUME NEW n \in Node, EventThread(n) PROVE IInv'
  <2>1. CASE OnSignal(n)
    BY <2>1, OnSigninReplyStep, OnInviteStep, OnAcceptStep, OnRejectStep, OnConnectedStep DEF OnSignal
  <2>2. ASSUME NEW r \in Node, OnSession(n, r) PROVE IInv'
    BY <2>2, SendStep, OnBindingStep, OnKeepaliveStep, OnDataStep DEF OnSession
  <2> QED BY <1>4, <2>1, <2>2 DEF EventThread
<1>5. CASE Server
  BY <1>5, SrvSigninStep, SrvSignoutStep, SrvInviteStep, SrvAcceptStep, SrvRejectStep, SrvPunchokStep DEF Server
<1>6. CASE Lose \/ Vanish \/ ServerRestart
  BY <1>6, LostStep, ServerRestartStep
<1> QED BY <1>1, <1>2, <1>3, <1>4, <1>5, <1>6 DEF Next

\* IInv holds in every reachable state.
THEOREM HolePunchingInductive == Spec => []IInv
  BY InitHolds, StepKeeps, PTL DEF Spec

\* Stun.c's pool_used is exact, whatever is lost, repeated, rejected, closed or
\* restarted: every pool entry in use belongs to one session, and every session
\* holds one.
THEOREM PortsNeverLeak == Spec => []PortsOwned
<1>1. IInv => PortsOwned
  <2> SUFFICES ASSUME IInv, NEW n \in Node, ~Random(n), NamedOnce(n)
               PROVE  /\ used[n] = {i \in DOMAIN Pool[n] : \E r \in Sessions(n) : sess[n][r].port = Pool[n][i]}
                      /\ \A r \in Sessions(n) : \E i \in DOMAIN Pool[n] : sess[n][r].port = Pool[n][i]
                      /\ \A r, q \in Sessions(n) : sess[n][r].port = sess[n][q].port => r = q
    BY DEF PortsOwned, IInv, Random, NamedOnce
  <2>1. PoolOwned(n) /\ used[n] \subseteq DOMAIN Pool[n]
    BY DEF IInv, PoolsOwned, TypeOK
  <2> QED BY <2>1 DEF PoolOwned, Sessions
<1> QED BY <1>1, HolePunchingInductive, PTL

\* CONNECTED is true: a session that p2p reports connected has had a packet of
\* the other end, the other end one of it, and it sends to nobody else.
THEOREM ConnectedWorked == Spec => []ConnectedBothWays
<1>1. IInv => ConnectedBothWays
  BY DEF IInv, Evidence, FlagsBacked, BothHeard, HasHeard, Addresses, Exclusive, Random, ConnectedBothWays
<1> QED BY <1>1, HolePunchingInductive, PTL
=============================================================================
