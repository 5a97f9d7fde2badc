----------------------------- MODULE VpnProofs -----------------------------
(***************************************************************************)
(* The VPN for any dialers, arrangements and faults: the hub's pool of     *)
(* addresses, its links and their count agree, and a dialer whose tun is   *)
(* up has the address that the hub's link holds and gets what is sent to   *)
(* it.                                                                     *)
(***************************************************************************)
EXTENDS Vpn, FiniteSetTheorems, WellFoundedInduction, TLAPS

\* Packets name a dialer and a run it has had.
PacketOK(m) ==
    /\ m.d \in Dialer /\ m.run \in Nat /\ m.run <= dial[m.d].run
    /\ m.t = "NOTIFY" => m.to \in Nat
    /\ m.t = "ACK" => m.ip \in Nat
NetOK == \A m \in net : PacketOK(m)

\* The links: counted, one per dialer, each with its session open.
Counted  == n_links = Cardinality(Online)
OneLink  == \A s, t \in Online : links[s].d = links[t].d => s = t
Backed   == \A s \in Online : sess[links[s].d].open
LinksOK  == Counted /\ OneLink /\ Backed

\* The pool: an address in use is the one of its index, not the hub's own, and
\* some link has it; no two links have the same, and each has one in use.
UsedExact ==
    \A i \in Index : used[i] # 0 =>
        /\ used[i] = PoolAddr(i) /\ used[i] # setup.tunnel_ip
        /\ \E s \in Online : links[s].ip = used[i]
LinksPaid == \A s \in Online : links[s].ip # 0 => \E i \in Index : used[i] = links[s].ip
PoolOK    == PoolFits => UsedExact /\ LinksPaid /\ AddressesDistinct

\* The numbers of sessions: 0 is none, and a dialer is aimed at one there has been.
SessionsNumbered ==
    \A d \in Dialer : dial[d].to <= sess[d].id /\ (sess[d].open => sess[d].id # 0)

\* A run that has been connected, or has an address, is aimed at a session.
Aimed ==
    \A d \in Dialer :
        dial[d].connected \/ dial[d].at \in {"exchange", "up"} \/ dial[d].ip # 0 => dial[d].to # 0

\* A packet of the current run says so too, and a NET_NOTIFY goes to that
\* session.
Current(m, d) == m.d = d /\ m.run = dial[d].run /\ dial[d].at # "off"
ToHub(m)      == m.t = "CONNECTED" /\ m.at = "hub"
PacketsAimed ==
    \A d \in Dialer, m \in net : Current(m, d) /\ ~ToHub(m) =>
        dial[d].to # 0 /\ (m.t = "NOTIFY" => m.to = dial[d].to)

\* While the session lasts the link keeps the address that was answered, on
\* its way or at the dialer.
Holds(d, ip) ==
    ip # 0 /\ dial[d].to = sess[d].id /\ sess[d].open => \E s \in LinkOf(d) : links[s].ip = ip
AnswersHold == \A d \in Dialer, m \in net : Current(m, d) /\ m.t = "ACK" => Holds(d, m.ip)
DialersHold == \A d \in Dialer : dial[d].at # "off" => Holds(d, dial[d].ip)
UpHasAddress == \A d \in Dialer : dial[d].at = "up" => dial[d].ip # 0
AckedFirst   == \A d \in Dialer : dial[d].ip # 0 => dial[d].acked

Agreed == SessionsNumbered /\ Aimed /\ PacketsAimed /\ AnswersHold /\ DialersHold
          /\ UpHasAddress /\ AckedFirst
IInv   == TypeOK /\ NetOK /\ LinksOK /\ PoolOK /\ Agreed

-----------------------------------------------------------------------------
\* Types: the variables one by one.
DialOK   == dial \in [Dialer -> Dial]
SessOK   == sess \in [Dialer -> Sess]
LinkOK   == links \in [Slot -> Link \cup {Empty}]
CountOK  == n_links \in 0 .. MaxLinks
UsedOK   == used \in [Index -> Nat]
FaultsOK == faults \in 0 .. setup.faults

\* The type invariant, variable by variable.
LEMMA TypesApart == TypeOK <=>
    /\ DialOK /\ hub \in {"off", "wait", "up"} /\ SessOK /\ LinkOK /\ CountOK /\ UsedOK
    /\ setup \in Setups /\ FaultsOK
  BY Zenon DEF TypeOK, DialOK, SessOK, LinkOK, CountOK, UsedOK, FaultsOK

\* What a step leaves alone keeps its type.
LEMMA TypesKept ==
    ASSUME TypeOK, UNCHANGED setup, UNCHANGED dial \/ DialOK',
           UNCHANGED hub \/ hub' \in {"off", "wait", "up"}, UNCHANGED sess \/ SessOK',
           UNCHANGED links \/ LinkOK', UNCHANGED n_links \/ CountOK', UNCHANGED used \/ UsedOK',
           UNCHANGED faults \/ FaultsOK'
    PROVE  TypeOK'
<1>1. DialOK' /\ SessOK' /\ LinkOK' /\ CountOK' /\ UsedOK' /\ FaultsOK'
  BY TypesApart DEF DialOK, SessOK, LinkOK, CountOK, UsedOK, FaultsOK
<1>2. hub' \in {"off", "wait", "up"} /\ setup' \in Setups
  BY TypesApart
<1> QED BY <1>1, <1>2, Zenon DEF TypeOK, DialOK, SessOK, LinkOK, CountOK, UsedOK, FaultsOK

\* Faults are counted.
LEMMA FaultCounted ==
    ASSUME TypeOK, UNCHANGED setup, Fault
    PROVE  FaultsOK'
<1>1. setup.faults \in Nat
  BY VpnAssumption DEF TypeOK, SetupOK
<1> QED BY <1>1, TypesApart DEF Fault, FaultsOK

\* A packet is taken from the network, or kept as a duplicate, at the cost of a fault.
LEMMA Received ==
    ASSUME TypeOK, UNCHANGED setup, NEW m, NEW out, Receive(m, out)
    PROVE  net' \subseteq net \cup out /\ (UNCHANGED faults \/ FaultsOK')
<1>1. net' \subseteq net \cup out
  BY DEF Receive
<1>2. UNCHANGED faults \/ Fault
  BY DEF Receive, Fault
<1> QED BY <1>1, <1>2, FaultCounted

-----------------------------------------------------------------------------
\* Addresses of the pool.
LEMMA Powers == \A n \in 0 .. 30 : 2^n \in Nat \ {0}
<1> DEFINE P(x) == 2^x
<1>1. \A n \in Nat : P(n) \in Int
  BY Z3
<1>2. P(0) > 0 /\ P(1) > 0 /\ P(2) > 0 /\ P(3) > 0 /\ P(4) > 0 /\ P(5) > 0 /\ P(6) > 0 /\ P(7) > 0
  BY Z3
<1>3. P(8) > 0 /\ P(9) > 0 /\ P(10) > 0 /\ P(11) > 0 /\ P(12) > 0 /\ P(13) > 0 /\ P(14) > 0 /\ P(15) > 0
  BY Z3
<1>4. P(16) > 0 /\ P(17) > 0 /\ P(18) > 0 /\ P(19) > 0 /\ P(20) > 0 /\ P(21) > 0 /\ P(22) > 0 /\ P(23) > 0
  BY Z3
<1>5. P(24) > 0 /\ P(25) > 0 /\ P(26) > 0 /\ P(27) > 0 /\ P(28) > 0 /\ P(29) > 0 /\ P(30) > 0
  BY Z3
<1> HIDE DEF P
<1>6. ASSUME NEW n \in 0 .. 30 PROVE P(n) \in Nat \ {0}
  <2>1. CASE n \in 0 .. 7
    <3>1. n = 0 \/ n = 1 \/ n = 2 \/ n = 3 \/ n = 4 \/ n = 5 \/ n = 6 \/ n = 7
      BY <2>1
    <3> QED BY <1>1, <1>2, <3>1
  <2>2. CASE n \in 8 .. 15
    <3>1. n = 8 \/ n = 9 \/ n = 10 \/ n = 11 \/ n = 12 \/ n = 13 \/ n = 14 \/ n = 15
      BY <2>2
    <3> QED BY <1>1, <1>3, <3>1
  <2>3. CASE n \in 16 .. 23
    <3>1. n = 16 \/ n = 17 \/ n = 18 \/ n = 19 \/ n = 20 \/ n = 21 \/ n = 22 \/ n = 23
      BY <2>3
    <3> QED BY <1>1, <1>4, <3>1
  <2>4. CASE n \in 24 .. 30
    <3>1. n = 24 \/ n = 25 \/ n = 26 \/ n = 27 \/ n = 28 \/ n = 29 \/ n = 30
      BY <2>4
    <3> QED BY <1>1, <1>5, <3>1
  <2> QED BY <2>1, <2>2, <2>3, <2>4
<1> QED BY <1>6 DEF P

\* An address of the pool is a number that is not 0: the last bits are those
\* of the index and one.
LEMMA PoolAddrNumber ==
    ASSUME TypeOK, NEW i \in Index
    PROVE  PoolAddr(i) \in Nat \ {0}
<1>1. SetupOK(setup) /\ MaxLinks \in 1 .. 15
  BY VpnAssumption DEF TypeOK
<1> DEFINE k == 32 - setup.prefix
           x == Masked(setup.tunnel_ip, setup.prefix)
           y == i + 1
<1>2. k \in 0 .. 30 /\ setup.tunnel_ip \in Nat
  BY <1>1 DEF SetupOK
<1>3. 2^k \in Nat \ {0}
  BY <1>2, Powers
<1>4. x \in Nat
  <2>1. \A a \in Nat, b \in Nat \ {0} : (a \div b) * b \in Nat
    OBVIOUS
  <2> QED BY <1>2, <1>3, <2>1 DEF Masked
<1>5. y \in 1 .. 15
  BY <1>1 DEF Index
<1> HIDE DEF x, y
<1>6. (x \div 16) * 16 \in Nat
  BY <1>4
<1>7. 2^0 = 1 /\ 2^1 = 2 /\ 2^2 = 4 /\ 2^3 = 8
  OBVIOUS
<1>8. /\ OrBit(x, y, 0) \in {0, 1} /\ OrBit(x, y, 1) \in {0, 2}
      /\ OrBit(x, y, 2) \in {0, 4} /\ OrBit(x, y, 3) \in {0, 8}
  BY <1>7 DEF OrBit
<1>9. Bit(y, 0) = 1 \/ Bit(y, 1) = 1 \/ Bit(y, 2) = 1 \/ Bit(y, 3) = 1
  BY <1>5, <1>7 DEF Bit
<1>10. OrBit(x, y, 0) = 1 \/ OrBit(x, y, 1) = 2 \/ OrBit(x, y, 2) = 4 \/ OrBit(x, y, 3) = 8
  BY <1>7, <1>9 DEF OrBit
<1>11. OrLow(x, y) \in Nat \ {0}
  BY <1>6, <1>8, <1>10 DEF OrLow
<1> QED BY <1>11 DEF PoolAddr, x, y

\* The addresses do not change.
LEMMA PoolStays ==
    ASSUME UNCHANGED setup
    PROVE  (PoolFits' <=> PoolFits) /\ \A i \in Index : PoolAddr(i)' = PoolAddr(i)
  BY DEF PoolFits, PoolAddr

\* A set of numbers that is not empty has a least one.
LEMMA LeastNumber ==
    ASSUME NEW S, S \subseteq Nat, S # {}
    PROVE  Min(S) \in S
<1>1. PICK x \in S : \A y \in S : ~(<<y, x>> \in OpToRel(<, Nat))
  BY NatLessThanWellFounded, WFMin
<1>2. ASSUME NEW y \in S PROVE x <= y
  <2>1. ~(y < x)
    BY <1>1 DEF OpToRel
  <2> QED BY <2>1
<1> QED BY <1>2 DEF Min

\* The links: finitely many, and each is one.
LEMMA LinksFinite ==
    /\ IsFiniteSet(Slot) /\ Cardinality(Slot) = MaxLinks /\ Slot \subseteq Nat
    /\ \A S \in SUBSET Slot : IsFiniteSet(S) /\ Cardinality(S) \in 0 .. MaxLinks
<1>1. MaxLinks \in Nat \ {0} /\ 1 \in Int /\ MaxLinks \in Int
  BY VpnAssumption
<1>2. IsFiniteSet(Slot) /\ Cardinality(Slot) = MaxLinks
  BY <1>1, FS_Interval DEF Slot
<1>3. ASSUME NEW S \in SUBSET Slot PROVE IsFiniteSet(S) /\ Cardinality(S) \in 0 .. MaxLinks
  <2>1. IsFiniteSet(S) /\ Cardinality(S) <= MaxLinks
    BY <1>2, FS_Subset
  <2> QED BY <1>1, <2>1, FS_CardinalityType
<1> QED BY <1>1, <1>2, <1>3 DEF Slot

\* A link that is online names its dialer and an address.
LEMMA LinkTyped ==
    ASSUME TypeOK, NEW s \in Online
    PROVE  s \in Slot /\ links[s] \in Link /\ links[s].d \in Dialer /\ links[s].ip \in Nat
<1>1. s \in Slot /\ links[s] \in Link
  BY TypesApart DEF LinkOK, Online
<1> QED BY <1>1 DEF Link

-----------------------------------------------------------------------------
\* Steps that leave the links and their sessions as they are.
SameLinks ==
    /\ UNCHANGED <<setup, used, n_links>> /\ Online' = Online
    /\ \A s \in Online : links'[s].d = links[s].d /\ links'[s].ip = links[s].ip
\* A step that changes no link keeps the links and the pool in order.
LEMMA LinksSame ==
    ASSUME IInv, SameLinks, \A d \in Dialer : sess[d].open => sess'[d].open
    PROVE  /\ LinksOK' /\ PoolOK'
           /\ \A d \in Dialer : LinkOf(d)' = LinkOf(d) /\ \A s \in LinkOf(d) : links'[s].ip = links[s].ip
<1>1. LinksOK'
  BY LinkTyped DEF IInv, SameLinks, LinksOK, Counted, OneLink, Backed
<1>2. PoolOK'
  BY PoolStays DEF IInv, SameLinks, PoolOK, UsedExact, LinksPaid, AddressesDistinct
<1>3. \A d \in Dialer : LinkOf(d)' = LinkOf(d) /\ \A s \in LinkOf(d) : links'[s].ip = links[s].ip
  BY DEF SameLinks, LinkOf
<1> QED BY <1>1, <1>2, <1>3

\* A dialer that holds an address at the hub goes on holding it.
LEMMA HoldsStays ==
    ASSUME NEW d \in Dialer, NEW ip, Holds(d, ip), dial'[d].to = dial[d].to,
           sess'[d].id = sess[d].id, sess'[d].open => sess[d].open,
           sess'[d].open => LinkOf(d)' = LinkOf(d) /\ \A s \in LinkOf(d) : links'[s].ip = links[s].ip
    PROVE  Holds(d, ip)'
  BY DEF Holds

\* One dialer: what its record and the packets must say.
DialerFine(d) ==
    /\ dial[d].to <= sess[d].id
    /\ dial[d].connected \/ dial[d].at \in {"exchange", "up"} \/ dial[d].ip # 0 => dial[d].to # 0
    /\ \A m \in net : Current(m, d) /\ ~ToHub(m) =>
          dial[d].to # 0 /\ (m.t = "NOTIFY" => m.to = dial[d].to)
    /\ \A m \in net : Current(m, d) /\ m.t = "ACK" => Holds(d, m.ip)
    /\ dial[d].at # "off" => Holds(d, dial[d].ip)
    /\ dial[d].at = "up" => dial[d].ip # 0
    /\ dial[d].ip # 0 => dial[d].acked

\* The agreement, dialer by dialer.
LEMMA DialersFine == Agreed <=> \A d \in Dialer : DialerFine(d) /\ (sess[d].open => sess[d].id # 0)
  BY DEF Agreed, SessionsNumbered, Aimed, PacketsAimed, AnswersHold, DialersHold, UpHasAddress,
         AckedFirst, DialerFine

\* A dialer nothing happens to: its record, its session's number, its link's
\* address are the same, or the session is closed, and no packet of its is new.
Untouched(d) ==
    /\ dial'[d] = dial[d] /\ sess'[d].id = sess[d].id /\ (sess'[d].open => sess[d].open)
    /\ sess'[d].open => LinkOf(d)' = LinkOf(d) /\ \A s \in LinkOf(d) : links'[s].ip = links[s].ip
    /\ \A m \in net' : m.d = d => m \in net
\* A dialer nothing happens to stays fine.
LEMMA UntouchedFine ==
    ASSUME NEW d \in Dialer, DialerFine(d), Untouched(d)
    PROVE  DialerFine(d)'
<1>1. \A m \in net' : Current(m, d)' => m \in net /\ Current(m, d)
  BY DEF Current, Untouched
<1>2. \A ip : Holds(d, ip) => Holds(d, ip)'
  BY HoldsStays DEF Untouched
<1>3. \A m \in net' : Current(m, d)' /\ ~ToHub(m) =>
          dial'[d].to # 0 /\ (m.t = "NOTIFY" => m.to = dial'[d].to)
  BY <1>1 DEF DialerFine, Untouched
<1>4. \A m \in net' : Current(m, d)' /\ m.t = "ACK" => Holds(d, m.ip)'
  BY <1>1, <1>2 DEF DialerFine
<1>5. \A ip : ip = dial'[d].ip /\ dial'[d].at # "off" => Holds(d, ip)'
  BY <1>2 DEF DialerFine, Untouched
<1>6. (dial[d].at # "off" => Holds(d, dial[d].ip))'
  BY <1>5 DEF Holds
<1> QED BY <1>3, <1>4, <1>6 DEF DialerFine, Untouched

\* A step of one dialer: the hub is as it was.
LEMMA DialerStep ==
    ASSUME IInv, NEW d \in Dialer, DialOK', UNCHANGED <<hubVars, setup>>, UNCHANGED faults \/ FaultsOK',
           \A e \in Dialer \ {d} : dial'[e] = dial[e], dial'[d].run >= dial[d].run,
           \A m \in net' : m \in net \/ (m.d = d /\ PacketOK(m)'), DialerFine(d)'
    PROVE  IInv'
<1>1. TypeOK'
  BY TypesKept DEF IInv, hubVars
<1>2. SameLinks /\ \A e \in Dialer : sess'[e] = sess[e]
  BY DEF SameLinks, hubVars, Online
<1>3. /\ LinksOK' /\ PoolOK'
      /\ \A e \in Dialer : LinkOf(e)' = LinkOf(e) /\ \A s \in LinkOf(e) : links'[s].ip = links[s].ip
  BY <1>2, LinksSame
<1>4. NetOK'
  <2>1. \A e \in Dialer : dial[e].run \in Nat /\ dial'[e].run \in Nat /\ dial[e].run <= dial'[e].run
    BY TypesApart DEF IInv, DialOK, Dial
  <2>2. \A m \in net : PacketOK(m)'
    BY <2>1 DEF IInv, NetOK, PacketOK
  <2> QED BY <2>2 DEF NetOK
<1>5. \A e \in Dialer \ {d} : Untouched(e)
  BY <1>2, <1>3 DEF Untouched
<1>6. \A e \in Dialer : DialerFine(e)' /\ (sess'[e].open => sess'[e].id # 0)
  BY <1>2, <1>5, UntouchedFine, DialersFine DEF IInv
<1>7. Agreed'
  BY <1>6 DEF Agreed, SessionsNumbered, Aimed, PacketsAimed, AnswersHold, DialersHold, UpHasAddress,
         AckedFirst, DialerFine
<1> QED BY <1>1, <1>3, <1>4, <1>7 DEF IInv

\* Only the record of d changes.
Only(d, r) == dial' = [dial EXCEPT ![d] = r]
\* A step that changes the record of one dialer only.
LEMMA OnlyOne ==
    ASSUME TypeOK, NEW d \in Dialer, NEW r, r \in Dial, Only(d, r)
    PROVE  /\ DialOK' /\ dial'[d] = r /\ dial[d] \in Dial
           /\ \A e \in Dialer \ {d} : dial'[e] = dial[e]
  BY TypesApart DEF DialOK, Only

\* A run goes on, aimed at the same session.
LEMMA RunGoesOn ==
    ASSUME IInv, NEW d \in Dialer, NEW r, r \in Dial, Only(d, r), dial[d].at # "off",
           r.run = dial[d].run, r.to = dial[d].to,
           UNCHANGED <<hubVars, setup>>, UNCHANGED faults \/ FaultsOK',
           \A m \in net' : m \in net \/ m = Notify(d), Notify(d) \in net' => dial[d].to # 0,
           r.connected \/ r.at \in {"exchange", "up"} \/ r.ip # 0 => r.to # 0,
           r.at = "up" => r.ip # 0, r.ip # 0 => r.acked,
           r.ip = dial[d].ip \/ \E m \in net : Current(m, d) /\ m.t = "ACK" /\ m.ip = r.ip
    PROVE  IInv'
<1>1. /\ DialOK' /\ dial'[d] = r /\ dial[d] \in Dial
      /\ \A e \in Dialer \ {d} : dial'[e] = dial[e]
  BY OnlyOne DEF IInv
<1>2. r.run \in Nat /\ r.to \in Nat
  BY DEF Dial
<1>3. DialerFine(d)
  BY DialersFine DEF IInv
<1>4. \A e \in Dialer : LinkOf(e)' = LinkOf(e)
  BY DEF LinkOf, Online, hubVars
<1>5. \A ip : Holds(d, ip) => Holds(d, ip)'
  BY <1>1, <1>4, HoldsStays DEF hubVars
<1>6. \A m \in net' : m \in net \/ (m.t = "NOTIFY" /\ m.d = d /\ m.run = r.run /\ m.to = r.to /\ r.to # 0)
  BY DEF Notify
<1>7. \A m \in net' : m \in net \/ (m.d = d /\ PacketOK(m)')
  BY <1>1, <1>2, <1>6 DEF PacketOK
<1>8. \A m \in net' : m \in net /\ Current(m, d)' => Current(m, d)
  BY <1>1 DEF Current
<1>9. \A m \in net' : Current(m, d)' /\ ~ToHub(m) => r.to # 0 /\ (m.t = "NOTIFY" => m.to = r.to)
  BY <1>3, <1>6, <1>8 DEF DialerFine
<1>10. \A m \in net' : Current(m, d)' /\ m.t = "ACK" => Holds(d, m.ip)'
  BY <1>3, <1>5, <1>6, <1>8 DEF DialerFine
<1>11. \A ip : ip = r.ip => Holds(d, ip)'
  BY <1>3, <1>5 DEF DialerFine
<1>12. Holds(d, dial[d].ip)'
  BY <1>1, <1>11 DEF Holds
<1>13. DialerFine(d)'
  BY <1>1, <1>3, <1>9, <1>10, <1>12 DEF DialerFine, hubVars
<1> QED BY <1>1, <1>2, <1>7, <1>13, DialerStep

\* A dialer's record has its fields.
LEMMA DialTyped ==
    ASSUME IInv, NEW d \in Dialer
    PROVE  dial \in [Dialer -> Dial] /\ dial[d] \in Dial
  BY TypesApart DEF IInv, DialOK

\* The server tells the dialer that it is connected.
LEMMA OnConnectedStep ==
    ASSUME IInv, NEW d \in Dialer, OnConnected(d)
    PROVE  IInv'
<1> PICK m \in net :
        /\ m.t = "CONNECTED" /\ m.at = "dialer" /\ m.d = d
        /\ m.run = dial[d].run /\ dial[d].at # "off"
        /\ dial' = [dial EXCEPT ![d].connected = TRUE]
        /\ Receive(m, {})
        /\ UNCHANGED <<hubVars, setup>>
  BY DEF OnConnected
<1> DEFINE r == [dial[d] EXCEPT !.connected = TRUE]
<1>1. Only(d, r)
  BY DialTyped DEF Only
<1>2. /\ r \in Dial /\ r.run = dial[d].run /\ r.to = dial[d].to /\ r.ip = dial[d].ip /\ r.at = dial[d].at
      /\ r.acked = dial[d].acked
  BY DialTyped DEF Dial
<1> HIDE DEF r
<1>3. dial[d].to # 0
  BY DEF IInv, Agreed, PacketsAimed, Current, ToHub
<1>4. (r.at = "up" => r.ip # 0) /\ (r.ip # 0 => r.acked)
  BY <1>2 DEF IInv, Agreed, UpHasAddress, AckedFirst
<1>5. net' \subseteq net /\ (UNCHANGED faults \/ FaultsOK')
  BY Received DEF IInv
<1> QED BY <1>1, <1>2, <1>3, <1>4, <1>5, RunGoesOn

\* vpn_wait_link returns, and vpn_open_tun opens the tun.
LEMMA MainStep ==
    ASSUME IInv, NEW d \in Dialer, WaitLinkDone(d) \/ OpenTun(d)
    PROVE  IInv'
<1> DEFINE r == [dial[d] EXCEPT !.at = IF dial[d].at = "wait" THEN "exchange" ELSE "up"]
<1>1. Only(d, r) /\ UNCHANGED <<hubVars, setup, net, faults>>
  BY DialTyped DEF Only, WaitLinkDone, OpenTun
<1>2. /\ r \in Dial /\ r.run = dial[d].run /\ r.to = dial[d].to /\ r.ip = dial[d].ip
      /\ (r.at = "up" => dial[d].at # "wait") /\ r.acked = dial[d].acked
  BY DialTyped DEF Dial
<1> HIDE DEF r
<1>3. dial[d].to # 0 /\ dial[d].at # "off" /\ (dial[d].at # "wait" => dial[d].ip # 0)
      /\ (dial[d].ip # 0 => dial[d].acked)
  BY DEF IInv, Agreed, Aimed, AckedFirst, WaitLinkDone, OpenTun
<1> QED BY <1>1, <1>2, <1>3, RunGoesOn

\* vpn_exchange_addr asks for an address.
LEMMA SendNotifyStep ==
    ASSUME IInv, NEW d \in Dialer, SendNotify(d)
    PROVE  IInv'
<1> DEFINE r == [dial[d] EXCEPT !.retries = @ + 1]
<1>1. Only(d, r) /\ UNCHANGED <<hubVars, setup, faults>> /\ net' = net \cup {Notify(d)}
  BY DialTyped DEF Only, SendNotify
<1>2. r \in Dial /\ r.run = dial[d].run /\ r.to = dial[d].to /\ r.ip = dial[d].ip /\ r.at = dial[d].at
      /\ r.acked = dial[d].acked
  BY DialTyped DEF Dial
<1> HIDE DEF r
<1>3. dial[d].to # 0 /\ dial[d].at = "exchange"
  BY DEF IInv, Agreed, Aimed, SendNotify, CanNotify
<1>4. dial[d].at # "off" /\ r.at # "up" /\ (r.ip # 0 => r.acked)
  BY <1>2, <1>3 DEF IInv, Agreed, AckedFirst
<1> QED BY <1>1, <1>2, <1>3, <1>4, RunGoesOn

\* vpn_ctrl_on_notify_ack takes the first answer.
LEMMA OnAckStep ==
    ASSUME IInv, NEW d \in Dialer, OnAck(d)
    PROVE  IInv'
<1> PICK m \in net :
        /\ m.t = "ACK" /\ m.d = d /\ m.run = dial[d].run /\ dial[d].at # "off"
        /\ dial' = IF dial[d].acked THEN dial
                   ELSE [dial EXCEPT ![d] = [@ EXCEPT !.acked = TRUE, !.ip = m.ip]]
        /\ Receive(m, {})
        /\ UNCHANGED <<hubVars, setup>>
  BY DEF OnAck
<1>1. net' \subseteq net /\ (UNCHANGED faults \/ FaultsOK')
  BY Received DEF IInv
<1>2. Current(m, d) /\ dial[d].to # 0 /\ m.ip \in Nat
  BY DEF IInv, Agreed, PacketsAimed, Current, ToHub, NetOK, PacketOK
<1>3. (dial[d].at = "up" => dial[d].ip # 0) /\ (dial[d].ip # 0 => dial[d].acked)
  BY DEF IInv, Agreed, UpHasAddress, AckedFirst
<1>4. CASE dial[d].acked
  <2>1. Only(d, dial[d])
    BY <1>4, DialTyped DEF Only
  <2> QED BY <1>1, <1>2, <1>3, <2>1, DialTyped, RunGoesOn
<1>5. CASE ~dial[d].acked
  <2> DEFINE r == [dial[d] EXCEPT !.acked = TRUE, !.ip = m.ip]
  <2>1. Only(d, r)
    BY <1>5, DialTyped DEF Only
  <2>2. r \in Dial /\ r.run = dial[d].run /\ r.to = dial[d].to /\ r.ip = m.ip /\ r.at = dial[d].at /\ r.acked
    BY <1>2, DialTyped DEF Dial
  <2> HIDE DEF r
  <2>3. r.at # "up"
    BY <1>3, <1>5, <2>2
  <2> QED BY <1>1, <1>2, <2>1, <2>2, <2>3, RunGoesOn
<1> QED BY <1>4, <1>5

\* A run ends, or a new one begins: no packet is of it.
LEMMA RunEnds ==
    ASSUME IInv, NEW d \in Dialer, NEW r, r \in Dial, Only(d, r), UNCHANGED <<hubVars, net, setup>>,
           UNCHANGED faults \/ FaultsOK', r.to = 0, ~r.connected, r.ip = 0,
           \/ r.at = "off" /\ r.run = dial[d].run
           \/ r.at = "wait" /\ r.run > dial[d].run
    PROVE  IInv'
<1>1. /\ DialOK' /\ dial'[d] = r /\ dial[d] \in Dial
      /\ \A e \in Dialer \ {d} : dial'[e] = dial[e]
  BY OnlyOne DEF IInv
<1>2. r.run \in Nat /\ dial[d].run \in Nat /\ sess[d].id \in Nat
  BY <1>1, TypesApart DEF Dial, Sess, SessOK, IInv
<1>3. \A m \in net : m.d = d => m.run \in Nat /\ m.run <= dial[d].run
  BY DEF IInv, NetOK, PacketOK
<1>4. \A m \in net' : ~Current(m, d)'
  BY <1>1, <1>2, <1>3 DEF Current
<1>5. Holds(d, dial[d].ip)'
  BY <1>1 DEF Holds
<1>6. DialerFine(d)'
  BY <1>1, <1>2, <1>4, <1>5 DEF DialerFine, hubVars
<1> QED BY <1>1, <1>2, <1>6, DialerStep

\* The three ways a run begins or ends.
LEMMA RunEndsStep ==
    ASSUME IInv, NEW d \in Dialer, Start(d) \/ Timeout(d) \/ Stop(d)
    PROVE  IInv'
<1>1. dial[d].run \in Nat
  BY DialTyped DEF Dial
<1>2. CASE Start(d)
  <2> DEFINE r == [NoDial EXCEPT !.at = "wait", !.run = dial[d].run + 1]
  <2>1. Only(d, r) /\ UNCHANGED <<hubVars, net, setup, faults>>
    BY <1>2 DEF Only, Start
  <2>2. /\ r \in Dial /\ r.to = 0 /\ ~r.connected /\ r.ip = 0 /\ r.at = "wait"
        /\ r.run > dial[d].run
    <3> DEFINE n == dial[d].run + 1
    <3>1. n \in Nat /\ n > dial[d].run
      BY <1>1
    <3>2. NoDial \in Dial
      BY DEF NoDial, Dial
    <3> HIDE DEF n
    <3>3. r = [NoDial EXCEPT !.at = "wait", !.run = n]
      BY DEF n
    <3>4. r \in Dial /\ r.at = "wait" /\ r.run = n
      BY <3>1, <3>2, <3>3 DEF Dial
    <3>5. r.to = 0 /\ ~r.connected /\ r.ip = 0
      BY <3>3 DEF NoDial
    <3> QED BY <3>1, <3>4, <3>5
  <2> HIDE DEF r
  <2> QED BY <2>1, <2>2, RunEnds
<1>3. CASE Timeout(d) \/ Stop(d)
  <2> DEFINE r == [NoDial EXCEPT !.run = dial[d].run]
  <2>1. Only(d, r) /\ UNCHANGED <<hubVars, net, setup>>
    BY <1>3 DEF Only, Timeout, Stop, Ended
  <2>2. UNCHANGED faults \/ FaultsOK'
    BY <1>3, <2>1, FaultCounted DEF Timeout, Stop, FaultIf, IInv
  <2>3. r \in Dial /\ r.to = 0 /\ ~r.connected /\ r.ip = 0 /\ r.at = "off" /\ r.run = dial[d].run
    BY <1>1 DEF Dial, NoDial
  <2> HIDE DEF r
  <2> QED BY <2>1, <2>2, <2>3, RunEnds
<1> QED BY <1>2, <1>3

\* Both ends have punched: the run is aimed at the hub's session.
LEMMA PunchStep ==
    ASSUME IInv, NEW d \in Dialer, Punch(d)
    PROVE  IInv'
<1> DEFINE r == [dial[d] EXCEPT !.to = sess[d].id]
<1>1. sess[d].id \in Nat /\ sess[d].id # 0 /\ dial[d].to = 0 /\ dial[d].at = "wait"
  BY TypesApart DEF Punch, CanPunch, IInv, Agreed, SessionsNumbered, SessOK, Sess
<1>2. Only(d, r) /\ UNCHANGED <<hubVars, setup, faults>> /\ net' = net \cup {TellDialer(d), TellHub(d)}
  BY DialTyped DEF Only, Punch
<1>3. /\ r \in Dial /\ r.run = dial[d].run /\ r.to = sess[d].id /\ r.ip = dial[d].ip /\ r.at = "wait"
  BY <1>1, DialTyped DEF Dial
<1> HIDE DEF r
<1>4. /\ DialOK' /\ dial'[d] = r /\ dial[d] \in Dial
      /\ \A e \in Dialer \ {d} : dial'[e] = dial[e]
  BY <1>2, <1>3, OnlyOne DEF IInv
<1>5. r.run \in Nat
  BY <1>3 DEF Dial
<1>6. \A m \in net' : m \in net \/ (m.t = "CONNECTED" /\ m.d = d /\ m.run = dial[d].run)
  BY <1>2 DEF TellDialer, TellHub
<1>7. \A m \in net' : m \in net \/ (m.d = d /\ PacketOK(m)')
  BY <1>3, <1>4, <1>5, <1>6 DEF PacketOK
<1>8. \A m \in net : Current(m, d)' => ToHub(m)
  <2>1. \A m \in net : Current(m, d)' => Current(m, d)
    BY <1>1, <1>3, <1>4 DEF Current
  <2> QED BY <1>1, <2>1 DEF IInv, Agreed, PacketsAimed
<1>9. \A m \in net' : Current(m, d)' /\ ~ToHub(m) => r.to # 0 /\ m.t # "NOTIFY"
  BY <1>1, <1>3, <1>6, <1>8
<1>10. \A m \in net' : Current(m, d)' => m.t # "ACK"
  BY <1>6, <1>8 DEF ToHub
<1>11. r.ip = 0
  BY <1>1, <1>3 DEF IInv, Agreed, Aimed
<1>12. Holds(d, dial[d].ip)'
  BY <1>4, <1>11 DEF Holds
<1>13. DialerFine(d)'
  BY <1>1, <1>2, <1>3, <1>4, <1>9, <1>10, <1>11, <1>12 DEF DialerFine, hubVars
<1> QED BY <1>2, <1>3, <1>4, <1>5, <1>7, <1>13, DialerStep

-----------------------------------------------------------------------------
\* Steps of the hub.

\* The invariant from its parts, after a step of the hub.
LEMMA HubStep ==
    ASSUME IInv, TypeOK', LinksOK', PoolOK', NetOK',
           \A d \in Dialer : DialerFine(d)' /\ (sess'[d].open => sess'[d].id # 0)
    PROVE  IInv'
<1>1. Agreed'
  BY DEF Agreed, SessionsNumbered, Aimed, PacketsAimed, AnswersHold, DialersHold, UpHasAddress,
         AckedFirst, DialerFine
<1> QED BY <1>1 DEF IInv

\* Sessions may be closed and packets may go.
LEMMA QuietStep ==
    ASSUME IInv, TypeOK', LinksOK', PoolOK', UNCHANGED dial, net' \subseteq net,
           \A d \in Dialer : /\ sess'[d].id = sess[d].id /\ (sess'[d].open => sess[d].open)
                             /\ sess'[d].open => /\ LinkOf(d)' = LinkOf(d)
                                                 /\ \A s \in LinkOf(d) : links'[s].ip = links[s].ip
    PROVE  IInv'
<1>1. NetOK'
  BY DEF IInv, NetOK, PacketOK
<1>2. \A d \in Dialer : Untouched(d)
  BY DEF Untouched
<1>3. \A d \in Dialer : DialerFine(d)' /\ (sess'[d].open => sess'[d].id # 0)
  BY <1>2, UntouchedFine, DialersFine DEF IInv
<1> QED BY <1>1, <1>3, HubStep

\* A step of the hub that changes no link and opens or closes no session.
LEMMA SameStep ==
    ASSUME IInv, TypeOK', SameLinks, UNCHANGED dial, net' \subseteq net,
           \A d \in Dialer : sess'[d].id = sess[d].id /\ sess'[d].open = sess[d].open
    PROVE  IInv'
<1>1. /\ LinksOK' /\ PoolOK'
      /\ \A d \in Dialer : LinkOf(d)' = LinkOf(d) /\ \A s \in LinkOf(d) : links'[s].ip = links[s].ip
  BY LinksSame
<1> QED BY <1>1, QuietStep

\* A packet is lost, the hub is started, or nothing happens.
LEMMA IdleStep ==
    ASSUME IInv, Lose \/ Vanish \/ HubStart \/ UNCHANGED vars
    PROVE  IInv'
<1>1. UNCHANGED <<dial, sess, links, n_links, used, setup>> /\ net' \subseteq net
  BY DEF Lose, Vanish, HubStart, vars, hubVars
<1>2. UNCHANGED faults \/ FaultsOK'
  BY <1>1, FaultCounted DEF IInv, Lose, Vanish, HubStart, vars
<1>3. UNCHANGED hub \/ hub' \in {"off", "wait", "up"}
  BY DEF Lose, Vanish, HubStart, vars, hubVars
<1>4. TypeOK'
  BY <1>1, <1>2, <1>3, TypesKept DEF IInv
<1>5. SameLinks
  BY <1>1 DEF SameLinks, Online
<1> QED BY <1>1, <1>4, <1>5, SameStep

\* The server tells the hub that it is connected.
LEMMA HubConnectedStep ==
    ASSUME IInv, HubConnected
    PROVE  IInv'
<1> PICK m \in net :
        /\ sess' = IF sess[m.d].open THEN [sess EXCEPT ![m.d].connected = TRUE] ELSE sess
        /\ Receive(m, {})
        /\ UNCHANGED <<dial, hub, links, n_links, used, setup>>
  BY DEF HubConnected
<1>1. net' \subseteq net /\ (UNCHANGED faults \/ FaultsOK')
  BY Received DEF IInv
<1>2. m.d \in Dialer /\ sess \in [Dialer -> Sess]
  BY TypesApart DEF IInv, NetOK, PacketOK, SessOK
<1>3. SessOK' /\ \A d \in Dialer : sess'[d].id = sess[d].id /\ sess'[d].open = sess[d].open
  BY <1>2 DEF SessOK, Sess
<1>4. TypeOK'
  BY <1>1, <1>3, TypesKept DEF IInv
<1>5. SameLinks
  BY DEF SameLinks, Online
<1> QED BY <1>1, <1>3, <1>4, <1>5, SameStep

\* A route is noted in the link.
LEMMA RoutedSame ==
    ASSUME NEW l \in Link
    PROVE  Routed(l) \in Link /\ Routed(l).d = l.d /\ Routed(l).ip = l.ip /\ Routed(l) # Empty /\ l # Empty
<1>1. \A k \in Link : k # Empty
  BY DEF Link, Empty
<1>2. Routed(l) \in Link /\ Routed(l).d = l.d /\ Routed(l).ip = l.ip
  BY DEF Routed, Link
<1> QED BY <1>1, <1>2

\* The hub opens its tunnel device.
LEMMA HubOpenTunStep ==
    ASSUME IInv, HubOpenTun
    PROVE  IInv'
<1>1. LinkOK
  BY TypesApart DEF IInv
<1>2. \A s \in Slot : links'[s] = Routed(links[s])
  BY DEF HubOpenTun
<1>3. Routed(Empty) = Empty
  BY DEF Routed
<1>4. \A s \in Slot : links[s] \in Link \/ links[s] = Empty
  BY <1>1 DEF LinkOK
<1>5. LinkOK'
  BY <1>3, <1>4, RoutedSame DEF LinkOK, HubOpenTun
<1>6. Online' = Online /\ \A s \in Online : links'[s].d = links[s].d /\ links'[s].ip = links[s].ip
  BY <1>2, <1>3, <1>4, RoutedSame DEF Online
<1>7. SameLinks
  BY <1>6 DEF SameLinks, HubOpenTun
<1>8. TypeOK'
  BY <1>5, TypesKept DEF IInv, HubOpenTun
<1> QED BY <1>7, <1>8, SameStep DEF HubOpenTun

\* An INVITE reuses the session that is open, or gives it a new number.
LEMMA InviteStep ==
    ASSUME IInv, NEW d \in Dialer, Invite(d)
    PROVE  IInv'
<1>1. dial \in [Dialer -> Dial] /\ sess \in [Dialer -> Sess]
  BY TypesApart DEF IInv, DialOK, SessOK
<1>2. DialOK' /\ \A e \in Dialer : /\ dial'[e].to = dial[e].to /\ dial'[e].run = dial[e].run
                                    /\ dial'[e].at = dial[e].at /\ dial'[e].ip = dial[e].ip
                                    /\ dial'[e].connected = dial[e].connected
                                    /\ dial'[e].acked = dial[e].acked
  BY <1>1 DEF Invite, DialOK, Dial
<1>3. dial[d].run \in Nat /\ sess[d].id \in Nat /\ dial[d].to \in Nat
  BY <1>1 DEF Dial, Sess
<1>4. SessOK'
  BY <1>1, <1>3 DEF Invite, SessOK, Sess
<1>5. \A e \in Dialer \ {d} : sess'[e] = sess[e]
  BY <1>1 DEF Invite
<1>6. /\ sess[d].open => sess'[d].id = sess[d].id
      /\ ~sess[d].open => sess'[d].id = sess[d].id + 1
      /\ sess'[d].open
  BY <1>1 DEF Invite, Sess
<1>7. TypeOK'
  BY <1>2, <1>4, TypesKept DEF IInv, Invite
<1>8. SameLinks
  BY DEF SameLinks, Online, Invite
<1>9. /\ LinksOK' /\ PoolOK'
      /\ \A e \in Dialer : LinkOf(e)' = LinkOf(e) /\ \A s \in LinkOf(e) : links'[s].ip = links[s].ip
  BY <1>5, <1>6, <1>8, LinksSame
<1>10. NetOK'
  BY <1>2 DEF IInv, NetOK, PacketOK, Invite
<1>11. ASSUME NEW e \in Dialer PROVE \A ip : Holds(e, ip) => Holds(e, ip)'
  <2>1. CASE e # d \/ sess[d].open
    BY <1>2, <1>5, <1>6, <1>9, <2>1, HoldsStays
  <2>2. CASE e = d /\ ~sess[d].open
    <3>1. dial[d].to <= sess[d].id
      BY DEF IInv, Agreed, SessionsNumbered
    <3> QED BY <1>2, <1>3, <1>6, <2>2, <3>1 DEF Holds
  <2> QED BY <2>1, <2>2
<1>12. ASSUME NEW e \in Dialer PROVE DialerFine(e)' /\ (sess'[e].open => sess'[e].id # 0)
  <2>1. DialerFine(e) /\ (sess[e].open => sess[e].id # 0)
    BY DialersFine DEF IInv
  <2>2. net' = net /\ \A m : Current(m, e)' <=> Current(m, e)
    BY <1>2 DEF Invite, Current
  <2>3. dial'[e].to <= sess'[e].id /\ (sess'[e].open => sess'[e].id # 0)
    BY <1>2, <1>3, <1>5, <1>6, <2>1 DEF DialerFine
  <2>4. \A m \in net' : Current(m, e)' /\ m.t = "ACK" => Holds(e, m.ip)'
    BY <1>11, <2>1, <2>2 DEF DialerFine
  <2>5. \A ip : ip = dial'[e].ip /\ dial'[e].at # "off" => Holds(e, ip)'
    BY <1>2, <1>11, <2>1 DEF DialerFine
  <2>6. (dial[e].at # "off" => Holds(e, dial[e].ip))'
    BY <2>5 DEF Holds
  <2> QED BY <1>2, <2>1, <2>2, <2>3, <2>4, <2>6 DEF DialerFine
<1> QED BY <1>7, <1>9, <1>10, <1>12, HubStep

-----------------------------------------------------------------------------
\* A NET_NOTIFY at the hub: slot s gets the link l of d, with an address from
\* the pool, the one it has, or none.
Gives(d, s, l) ==
    /\ links' = [links EXCEPT ![s] = l] /\ l.d = d
    /\ \/ LinkOf(d) = {} /\ s \notin Online /\ n_links' = n_links + 1
       \/ s \in LinkOf(d) /\ n_links' = n_links
    /\ \/ used' = used /\ l.ip = IF s \in Online THEN links[s].ip ELSE 0
       \/ \E i \in FreeIndex : /\ used' = [used EXCEPT ![i] = PoolAddr(i)] /\ l.ip = PoolAddr(i)
                               /\ s \in Online => links[s].ip = 0

\* The hub gives a dialer a link: links and pool stay in order.
LEMMA GivenLinks ==
    ASSUME IInv, NEW d \in Dialer, NEW s \in Slot, NEW l \in Link, Gives(d, s, l), sess[d].open,
           UNCHANGED setup, \A e \in Dialer : sess'[e].open = sess[e].open
    PROVE  LinkOK' /\ UsedOK' /\ CountOK' /\ LinksOK' /\ PoolOK'
<1>1. LinkOK /\ UsedOK /\ TypeOK
  BY TypesApart DEF IInv
<1>2. LinkOK'
  BY <1>1 DEF Gives, LinkOK
<1>3. l # Empty
  BY RoutedSame
<1>4. links'[s] = l /\ \A t \in Slot \ {s} : links'[t] = links[t]
  BY <1>1 DEF Gives, LinkOK
<1>5. Online' = Online \cup {s}
  BY <1>3, <1>4 DEF Online
<1>6. FreeIndex \subseteq Index /\ \A i \in FreeIndex : used[i] = 0 /\ PoolAddr(i) # setup.tunnel_ip
  BY DEF FreeIndex
<1>7. UsedOK'
  BY <1>1, <1>6, PoolAddrNumber DEF Gives, UsedOK
<1>8. Counted' /\ CountOK'
  <2>1. Online \subseteq Slot /\ IsFiniteSet(Online) /\ Cardinality(Online) \in Nat
    BY LinksFinite DEF Online
  <2>2. s \notin Online => Cardinality(Online \cup {s}) = Cardinality(Online) + 1
    BY <2>1, FS_AddElement
  <2>3. s \in Online => Online \cup {s} = Online
    OBVIOUS
  <2>4. n_links' = Cardinality(Online')
    BY <1>5, <2>2, <2>3 DEF IInv, LinksOK, Counted, Gives, LinkOf
  <2>5. Cardinality(Online') \in 0 .. MaxLinks
    BY <1>5, <2>1, LinksFinite
  <2> QED BY <2>4, <2>5 DEF Counted, CountOK
<1>9. \A t \in Online \ {s} : links[t].d # d
  BY DEF Gives, LinkOf, IInv, LinksOK, OneLink
<1>10. OneLink' /\ Backed'
  <2>1. \A t \in Online' : t = s \/ (t \in Online \ {s} /\ links'[t] = links[t] /\ links[t].d \in Dialer)
    BY <1>4, <1>5, LinkTyped, <1>1
  <2>2. OneLink'
    BY <1>4, <1>9, <2>1 DEF OneLink, IInv, LinksOK, Gives
  <2>3. Backed'
    BY <1>4, <2>1 DEF Backed, IInv, LinksOK, Gives
  <2> QED BY <2>2, <2>3
<1>11. ASSUME PoolFits PROVE UsedExact' /\ LinksPaid' /\ AddressesDistinct'
  <2>1. UsedExact /\ LinksPaid /\ AddressesDistinct
    BY <1>11 DEF IInv, PoolOK
  <2>2. \A i \in Index : PoolAddr(i)' = PoolAddr(i)
    BY PoolStays
  <2>3. CASE used' = used /\ l.ip = IF s \in Online THEN links[s].ip ELSE 0
    <3>1. \A t \in Online : t \in Online' /\ links'[t].ip = links[t].ip
      BY <1>4, <1>5, <2>3 DEF Online
    <3>2. \A t \in Online' : t \in Online \/ links'[t].ip = 0
      BY <1>4, <1>5, <2>3
    <3>3. UsedExact'
      BY <2>1, <2>2, <2>3, <3>1 DEF UsedExact
    <3> QED BY <2>1, <2>3, <3>1, <3>2, <3>3 DEF LinksPaid, AddressesDistinct
  <2>4. ASSUME NEW i \in FreeIndex, used' = [used EXCEPT ![i] = PoolAddr(i)], l.ip = PoolAddr(i),
               s \in Online => links[s].ip = 0
        PROVE  UsedExact' /\ LinksPaid' /\ AddressesDistinct'
    <3>1. /\ i \in Index /\ used[i] = 0 /\ PoolAddr(i) # setup.tunnel_ip /\ PoolAddr(i) # 0
          /\ used'[i] = PoolAddr(i) /\ \A j \in Index \ {i} : used'[j] = used[j]
      BY <1>1, <1>6, <2>4, PoolAddrNumber DEF UsedOK
    <3>2. /\ links'[s].ip = PoolAddr(i) /\ s \in Online'
          /\ \A t \in Online : links[t].ip # 0 => t \in Online' /\ t # s /\ links'[t].ip = links[t].ip
      BY <1>4, <1>5, <2>4 DEF Online
    <3>3. \A t \in Online' : t = s \/ (t \in Online /\ links'[t].ip = links[t].ip)
      BY <1>4, <1>5 DEF Online
    <3>4. \A t \in Online : links[t].ip # PoolAddr(i)
      BY <1>11, <2>1, <3>1 DEF LinksPaid, UsedExact, PoolFits
    <3>5. UsedExact'
      BY <2>1, <2>2, <3>1, <3>2 DEF UsedExact
    <3>6. LinksPaid'
      BY <2>1, <3>1, <3>2, <3>3 DEF LinksPaid
    <3>7. AddressesDistinct'
      BY <2>1, <3>2, <3>3, <3>4 DEF AddressesDistinct
    <3> QED BY <3>5, <3>6, <3>7
  <2> QED BY <2>3, <2>4 DEF Gives
<1>12. PoolOK'
  BY <1>11, PoolStays DEF PoolOK
<1> QED BY <1>2, <1>7, <1>8, <1>10, <1>12 DEF LinksOK

\* ... and what the hub answers is what it recorded.
LEMMA GivesStep ==
    ASSUME IInv, NEW m \in net, NEW d, d = m.d, NEW s \in Slot, NEW l \in Link, Gives(d, s, l),
           m.t = "NOTIFY", sess[d].open, sess' = [sess EXCEPT ![d].peer = m.run],
           Receive(m, {Ack(d, m.run, l.ip)}), UNCHANGED <<dial, hub, setup>>
    PROVE  IInv'
<1>1. d \in Dialer /\ m.run \in Nat /\ m.run <= dial[d].run /\ sess \in [Dialer -> Sess]
  BY TypesApart DEF IInv, NetOK, PacketOK, SessOK
<1>2. SessOK' /\ \A e \in Dialer : sess'[e].id = sess[e].id /\ sess'[e].open = sess[e].open
  BY <1>1 DEF SessOK, Sess
<1>3. LinkOK' /\ UsedOK' /\ CountOK' /\ LinksOK' /\ PoolOK'
  BY <1>1, <1>2, GivenLinks
<1>4. net' \subseteq net \cup {Ack(d, m.run, l.ip)} /\ (UNCHANGED faults \/ FaultsOK')
  BY Received DEF IInv
<1>5. TypeOK'
  BY <1>2, <1>3, <1>4, TypesKept DEF IInv
<1>6. \A a \in net' : a \in net \/ (a.t = "ACK" /\ a.d = d /\ a.run = m.run /\ a.ip = l.ip)
  BY <1>4 DEF Ack
<1>7. l.ip \in Nat /\ l.d = d
  BY DEF Link, Gives
<1>8. NetOK'
  BY <1>1, <1>6, <1>7 DEF IInv, NetOK, PacketOK
<1>9. LinkOK /\ Online \subseteq Slot /\ links' = [links EXCEPT ![s] = l]
  BY TypesApart DEF IInv, Online, Gives
<1>10. links'[s] = l /\ \A t \in Slot \ {s} : links'[t] = links[t]
  BY <1>9 DEF LinkOK
<1>11. Online' = Online \cup {s}
  <2>1. l # Empty
    BY RoutedSame
  <2> QED BY <1>9, <1>10, <2>1 DEF Online
<1>12. s \in Online => links[s].d = d
  BY DEF Gives, LinkOf
<1>13. ASSUME NEW e \in Dialer \ {d} PROVE DialerFine(e)'
  <2>1. \A t \in Online' : links'[t].d = e <=> t \in Online /\ links[t].d = e
    BY <1>7, <1>9, <1>10, <1>11, <1>12
  <2>2. LinkOf(e)' = LinkOf(e) /\ \A t \in LinkOf(e) : links'[t] = links[t]
    <3>1. s \notin LinkOf(e)
      BY <1>12 DEF LinkOf
    <3>2. LinkOf(e)' = LinkOf(e)
      BY <1>11, <2>1 DEF LinkOf
    <3>3. \A t \in LinkOf(e) : t \in Slot
      BY <1>9 DEF LinkOf
    <3> QED BY <1>10, <3>1, <3>2, <3>3
  <2>3. Untouched(e)
    BY <1>2, <1>6, <2>2 DEF Untouched
  <2> QED BY <2>3, UntouchedFine, DialersFine DEF IInv
<1>14. s \in LinkOf(d)' /\ links'[s].ip = l.ip
  BY <1>7, <1>10, <1>11 DEF LinkOf
<1>15. \A x : x = l.ip => Holds(d, x)'
  BY <1>14 DEF Holds
<1>16. \A x : Holds(d, x) => Holds(d, x)'
  <2> SUFFICES ASSUME NEW x, Holds(d, x), x # 0, dial[d].to = sess[d].id
               PROVE  l.ip = x
    BY <1>1, <1>2, <1>14 DEF Holds
  <2>1. PICK t \in LinkOf(d) : links[t].ip = x
    BY DEF Holds
  <2>2. t \in Online /\ links[t].d = d
    BY <2>1 DEF LinkOf
  <2>3. s \in LinkOf(d)
    BY <2>1 DEF Gives
  <2>4. t = s
    BY <2>2, <2>3 DEF LinkOf, IInv, LinksOK, OneLink
  <2>5. s \in Online /\ links[s].ip = x
    BY <2>1, <2>2, <2>4
  <2> QED BY <2>5 DEF Gives
<1>17. DialerFine(d)'
  <2>1. DialerFine(d)
    BY <1>1, DialersFine DEF IInv
  <2>2. \A a : Current(a, d)' <=> Current(a, d)
    BY DEF Current
  <2>3. \A a \in net' \ net : Current(a, d) => Current(m, d) /\ ~ToHub(m)
    BY <1>6 DEF Current, ToHub
  <2>4. \A a \in net' : Current(a, d)' /\ ~ToHub(a) =>
           dial'[d].to # 0 /\ (a.t = "NOTIFY" => a.to = dial'[d].to)
    BY <1>6, <2>1, <2>2, <2>3 DEF DialerFine
  <2>5. \A a \in net' : Current(a, d)' /\ a.t = "ACK" => Holds(d, a.ip)'
    BY <1>6, <1>15, <1>16, <2>1, <2>2 DEF DialerFine
  <2>6. \A x : x = dial'[d].ip /\ dial'[d].at # "off" => Holds(d, x)'
    BY <1>16, <2>1 DEF DialerFine
  <2>7. (dial[d].at # "off" => Holds(d, dial[d].ip))'
    BY <2>6 DEF Holds
  <2> QED BY <1>1, <1>2, <2>1, <2>4, <2>5, <2>7 DEF DialerFine
<1>18. \A e \in Dialer : DialerFine(e)' /\ (sess'[e].open => sess'[e].id # 0)
  BY <1>2, <1>13, <1>17 DEF IInv, Agreed, SessionsNumbered
<1> QED BY <1>3, <1>5, <1>8, <1>18, HubStep

\* The link of d in slot s before the notify, a new one if d has none, and what
\* it becomes.
Before(d, s) == IF LinkOf(d) = {} THEN [d |-> d, ip |-> 0, bad_rounds |-> 0,
                                        net_ok |-> FALSE, route |-> FALSE]
                ELSE links[s]
Gets(d, s)  == NeedsAddress(Before(d, s)) /\ FreeIndex # {}
IpOf(d, s)  == IF Gets(d, s) THEN PoolAddr(Min(FreeIndex)) ELSE Before(d, s).ip
After(d, s) == [Before(d, s) EXCEPT !.ip = IpOf(d, s),
                                    !.net_ok = Before(d, s).net_ok \/ LocalNet[d].prefix # 0]
Chosen(d, s) == IF LinkOf(d) = {} THEN Online # Slot /\ s = Min(Slot \ Online) ELSE s \in LinkOf(d)

\* The first free address of the pool is one.
LEMMA FirstFree ==
    ASSUME TypeOK, FreeIndex # {}
    PROVE  Min(FreeIndex) \in FreeIndex /\ PoolAddr(Min(FreeIndex)) \in Nat \ {0}
<1>1. FreeIndex \subseteq Index
  BY DEF FreeIndex
<1>2. Index \subseteq Nat
  BY VpnAssumption DEF Index
<1>3. Min(FreeIndex) \in FreeIndex
  BY <1>1, <1>2, LeastNumber
<1> QED BY <1>1, <1>3, PoolAddrNumber

\* The link a NOTIFY finds, or the one made for it.
LEMMA LinkBefore ==
    ASSUME TypeOK, NEW d \in Dialer, NEW s \in Slot, Chosen(d, s)
    PROVE  /\ IF LinkOf(d) = {} THEN s \notin Online ELSE s \in LinkOf(d) /\ s \in Online
           /\ Before(d, s) \in Link /\ Before(d, s).d = d
           /\ Before(d, s).ip = IF s \in Online THEN links[s].ip ELSE 0
<1>1. Slot \ Online \subseteq Nat /\ Online \subseteq Slot
  BY LinksFinite DEF Online
<1>2. CASE LinkOf(d) = {}
  <2>1. s \notin Online
    BY <1>1, <1>2, LeastNumber DEF Chosen
  <2>2. 0 \in 0 .. (BadRounds - 1)
    BY VpnAssumption
  <2>3. Before(d, s) = [d |-> d, ip |-> 0, bad_rounds |-> 0, net_ok |-> FALSE, route |-> FALSE]
    BY <1>2 DEF Before
  <2> QED BY <1>2, <2>1, <2>2, <2>3 DEF Link
<1>3. CASE LinkOf(d) # {}
  <2>1. s \in LinkOf(d) /\ s \in Online /\ links[s].d = d
    BY <1>3 DEF Chosen, LinkOf
  <2>2. Before(d, s) = links[s]
    BY <1>3 DEF Before
  <2> QED BY <1>3, <2>1, <2>2, LinkTyped
<1> QED BY <1>2, <1>3

\* ... and what becomes of it.
LEMMA LinkAfter ==
    ASSUME TypeOK, NEW d \in Dialer, NEW s \in Slot, Chosen(d, s), links' = [links EXCEPT ![s] = After(d, s)],
           n_links' = IF LinkOf(d) = {} THEN n_links + 1 ELSE n_links,
           used' = IF Gets(d, s) THEN [used EXCEPT ![Min(FreeIndex)] = IpOf(d, s)] ELSE used
    PROVE  After(d, s) \in Link /\ After(d, s).ip = IpOf(d, s) /\ Gives(d, s, After(d, s))
<1>1. /\ IF LinkOf(d) = {} THEN s \notin Online ELSE s \in LinkOf(d) /\ s \in Online
      /\ Before(d, s) \in Link /\ Before(d, s).d = d
      /\ Before(d, s).ip = IF s \in Online THEN links[s].ip ELSE 0
  BY LinkBefore
<1> DEFINE b == Before(d, s)
           l == After(d, s)
           i == Min(FreeIndex)
<1>2. \/ IpOf(d, s) = b.ip /\ used' = used
      \/ /\ FreeIndex # {} /\ IpOf(d, s) = PoolAddr(i) /\ b.ip = 0
         /\ used' = [used EXCEPT ![i] = PoolAddr(i)]
  BY DEF Gets, IpOf, NeedsAddress
<1> HIDE DEF b, i
<1>3. b.ip \in Nat /\ b.net_ok \in BOOLEAN
  BY <1>1 DEF Link, b
<1>4. IpOf(d, s) \in Nat
  BY <1>2, <1>3, FirstFree DEF i
<1>5. (b.net_ok \/ LocalNet[d].prefix # 0) \in BOOLEAN
  OBVIOUS
<1>6. l \in Link /\ l.d = d /\ l.ip = IpOf(d, s)
  BY <1>1, <1>3, <1>4, <1>5 DEF Link, After, b
<1> HIDE DEF l
<1>7. \/ LinkOf(d) = {} /\ s \notin Online /\ n_links' = n_links + 1
      \/ s \in LinkOf(d) /\ n_links' = n_links
  BY <1>1
<1>8. \/ used' = used /\ l.ip = IF s \in Online THEN links[s].ip ELSE 0
      \/ \E j \in FreeIndex : /\ used' = [used EXCEPT ![j] = PoolAddr(j)] /\ l.ip = PoolAddr(j)
                              /\ s \in Online => links[s].ip = 0
  BY <1>1, <1>2, <1>6, FirstFree DEF b, i
<1>9. links' = [links EXCEPT ![s] = l]
  BY DEF l
<1>10. Gives(d, s, l)
  BY <1>6, <1>7, <1>8, <1>9 DEF Gives
<1> QED BY <1>6, <1>10 DEF l

\* vpn_p2p_recv_callback answers a NET_NOTIFY, or has no slot for it.
LEMMA OnNotifyStep ==
    ASSUME IInv, OnNotify
    PROVE  IInv'
<1>1. PICK m \in net :
        /\ m.t = "NOTIFY" /\ sess[m.d].open
        /\ sess' = [sess EXCEPT ![m.d].peer = m.run]
        /\ \/ /\ Receive(m, {})
              /\ UNCHANGED <<dial, hub, links, n_links, used, setup>>
           \/ \E s \in Slot :
                 /\ Chosen(m.d, s)
                 /\ links' = [links EXCEPT ![s] = After(m.d, s)]
                 /\ n_links' = IF LinkOf(m.d) = {} THEN n_links + 1 ELSE n_links
                 /\ used' = IF Gets(m.d, s) THEN [used EXCEPT ![Min(FreeIndex)] = IpOf(m.d, s)] ELSE used
                 /\ Receive(m, {Ack(m.d, m.run, IpOf(m.d, s))})
                 /\ UNCHANGED <<dial, hub, setup>>
  BY Zenon DEF OnNotify, Chosen, After, Gets, IpOf, Before
<1>2. m.d \in Dialer /\ m.run \in Nat /\ sess \in [Dialer -> Sess]
  BY TypesApart DEF IInv, NetOK, PacketOK, SessOK
<1>3. CASE Receive(m, {}) /\ UNCHANGED <<dial, hub, links, n_links, used, setup>>
  <2>1. net' \subseteq net /\ (UNCHANGED faults \/ FaultsOK')
    BY <1>3, Received DEF IInv
  <2>2. SessOK' /\ \A e \in Dialer : sess'[e].id = sess[e].id /\ sess'[e].open = sess[e].open
    BY <1>1, <1>2 DEF SessOK, Sess
  <2>3. TypeOK'
    BY <1>3, <2>1, <2>2, TypesKept DEF IInv
  <2>4. SameLinks
    BY <1>3 DEF SameLinks, Online
  <2> QED BY <1>3, <2>1, <2>2, <2>3, <2>4, SameStep
<1>4. ASSUME NEW s \in Slot, NEW d \in Dialer, d = m.d, Chosen(d, s),
             links' = [links EXCEPT ![s] = After(d, s)],
             n_links' = IF LinkOf(d) = {} THEN n_links + 1 ELSE n_links,
             used' = IF Gets(d, s) THEN [used EXCEPT ![Min(FreeIndex)] = IpOf(d, s)] ELSE used,
             Receive(m, {Ack(d, m.run, IpOf(d, s))}), UNCHANGED <<dial, hub, setup>>
      PROVE  IInv'
  <2>1. PICK l \in Link : l.ip = IpOf(d, s) /\ Gives(d, s, l)
    BY <1>4, LinkAfter DEF IInv
  <2>2. sess[d].open /\ sess' = [sess EXCEPT ![d].peer = m.run] /\ m.t = "NOTIFY"
    BY <1>1, <1>4
  <2>3. Receive(m, {Ack(d, m.run, l.ip)})
    BY <1>4, <2>1
  <2> QED BY <1>4, <2>1, <2>2, <2>3, GivesStep
<1> QED BY <1>1, <1>2, <1>3, <1>4

-----------------------------------------------------------------------------
\* vpn_pool_free frees the index that has a released link's address, and no other.
LEMMA FreedExactly ==
    ASSUME IInv, PoolFits, NEW dead \in SUBSET Online, NEW i \in Index
    PROVE  PoolFreed(i, dead) <=> used[i] # 0 /\ \E s \in dead : links[s].ip = used[i]
<1> DEFINE B == {j \in 0 .. (i - 1) : used[j] = used[i]}
           D == {s \in dead : links[s].ip = used[i]}
<1>1. UsedExact
  BY DEF IInv, PoolOK
<1>2. ASSUME used[i] # 0 PROVE B = {}
  <2>1. ASSUME NEW j \in 0 .. (i - 1), used[j] = used[i] PROVE FALSE
    <3>1. j \in Index /\ i \in Index /\ j # i
      BY VpnAssumption DEF Index
    <3>2. used[j] = PoolAddr(j) /\ used[i] = PoolAddr(i)
      BY <1>1, <1>2, <2>1, <3>1 DEF UsedExact
    <3> QED BY <2>1, <3>1, <3>2 DEF PoolFits
  <2> QED BY <2>1
<1>3. used[i] # 0 => Cardinality(B) = 0
  BY <1>2, FS_EmptySet
<1>4. D \in SUBSET Slot
  BY DEF Online
<1>5. IsFiniteSet(D) /\ Cardinality(D) \in Nat
  BY <1>4, LinksFinite
<1>6. 0 < Cardinality(D) <=> D # {}
  BY <1>5, FS_EmptySet
<1>7. PoolFreed(i, dead) <=> used[i] # 0 /\ Cardinality(B) < Cardinality(D)
  BY DEF PoolFreed
<1>8. D # {} <=> \E s \in dead : links[s].ip = used[i]
  OBVIOUS
<1> HIDE DEF B, D
<1> QED BY <1>3, <1>6, <1>7, <1>8

\* vpn_link_release of some links: the others keep their address and session.
LEMMA Recycled ==
    ASSUME IInv, NEW dead \in SUBSET Online, Release(dead), UNCHANGED setup, Online' = Online \ dead,
           \A s \in Online' : links'[s].d = links[s].d /\ links'[s].ip = links[s].ip
    PROVE  /\ SessOK' /\ CountOK' /\ UsedOK' /\ LinksOK' /\ PoolOK'
           /\ \A d \in Dialer : /\ sess'[d].id = sess[d].id /\ (sess'[d].open => sess[d].open)
                                /\ sess'[d].open => /\ LinkOf(d)' = LinkOf(d)
                                                    /\ \A s \in LinkOf(d) : links'[s].ip = links[s].ip
<1>1. TypeOK /\ SessOK /\ UsedOK /\ Online \subseteq Slot
  BY TypesApart DEF IInv, Online
<1>2. ASSUME NEW d \in Dialer
      PROVE  /\ (\E s \in dead : links[s].d = d) => sess'[d] = [NoSess EXCEPT !.id = sess[d].id]
             /\ ~(\E s \in dead : links[s].d = d) => sess'[d] = sess[d]
  BY DEF Release
<1>3. \A d \in Dialer : sess[d] \in Sess /\ sess[d].id \in Nat
  BY <1>1 DEF SessOK, Sess
<1>4. \A n \in Nat : LET z == [NoSess EXCEPT !.id = n] IN z \in Sess /\ z.id = n /\ ~z.open
  BY DEF NoSess, Sess
<1>5. \A d \in Dialer : /\ sess'[d] \in Sess /\ sess'[d].id = sess[d].id
                        /\ sess'[d].open <=> sess[d].open /\ ~(\E s \in dead : links[s].d = d)
  BY <1>2, <1>3, <1>4
<1>6. SessOK'
  <2>1. sess' = [d \in Dialer |-> sess'[d]]
    BY DEF Release
  <2> QED BY <1>5, <2>1 DEF SessOK
<1>7. \A i \in Index : used'[i] = IF PoolFreed(i, dead) THEN 0 ELSE used[i]
  BY DEF Release
<1>8. UsedOK'
  BY <1>1, <1>7 DEF UsedOK, Release
<1>9. Counted' /\ CountOK'
  <2>1. IsFiniteSet(Online) /\ IsFiniteSet(dead) /\ dead = Online \cap dead
    BY <1>1, LinksFinite
  <2>2. Cardinality(Online \ dead) = Cardinality(Online) - Cardinality(dead)
    BY <2>1, FS_Difference
  <2>3. n_links = Cardinality(Online) /\ n_links' = n_links - Cardinality(dead)
    BY DEF IInv, LinksOK, Counted, Release
  <2>4. Cardinality(Online') \in 0 .. MaxLinks
    BY <1>1, LinksFinite
  <2>5. n_links' = Cardinality(Online')
    BY <2>2, <2>3
  <2> QED BY <2>4, <2>5 DEF Counted, CountOK
<1>10. \A s \in Online' : \A t \in dead : links[t].d # links[s].d
  BY DEF IInv, LinksOK, OneLink
<1>11. OneLink' /\ Backed'
  <2>1. OneLink'
    BY DEF OneLink, IInv, LinksOK
  <2>2. \A s \in Online' : links[s].d \in Dialer /\ sess[links[s].d].open
    BY <1>1, LinkTyped DEF Backed, IInv, LinksOK
  <2>3. Backed'
    BY <1>5, <1>10, <2>2 DEF Backed
  <2> QED BY <2>1, <2>3
<1>12. ASSUME PoolFits PROVE UsedExact' /\ LinksPaid' /\ AddressesDistinct'
  <2>1. UsedExact /\ LinksPaid /\ AddressesDistinct
    BY <1>12 DEF IInv, PoolOK
  <2>2. \A i \in Index : PoolAddr(i)' = PoolAddr(i)
    BY PoolStays
  <2>3. \A i \in Index : used'[i] = IF \E s \in dead : links[s].ip = used[i] THEN 0 ELSE used[i]
    BY <1>7, <1>12, FreedExactly
  <2>4. UsedExact'
    <3>1. \A i \in Index : used'[i] # 0 => used'[i] = used[i] /\ ~\E s \in dead : links[s].ip = used[i]
      BY <2>3
    <3>2. ASSUME NEW i \in Index, used'[i] # 0 PROVE \E s \in Online' : links'[s].ip = used'[i]
      <4>1. PICK s \in Online : links[s].ip = used[i]
        BY <2>1, <3>1, <3>2 DEF UsedExact
      <4>2. s \in Online'
        BY <3>1, <3>2, <4>1
      <4> QED BY <3>1, <3>2, <4>1, <4>2
    <3> QED BY <2>1, <2>2, <3>1, <3>2 DEF UsedExact
  <2>5. LinksPaid'
    <3>1. ASSUME NEW s \in Online', links[s].ip # 0 PROVE \E i \in Index : used'[i] = links[s].ip
      <4>1. PICK i \in Index : used[i] = links[s].ip
        BY <2>1, <3>1 DEF LinksPaid
      <4>2. \A t \in dead : links[t].ip # links[s].ip
        BY <2>1, <3>1 DEF AddressesDistinct
      <4>3. used'[i] = links[s].ip
        BY <2>3, <4>1, <4>2
      <4> QED BY <4>3
    <3> QED BY <3>1 DEF LinksPaid
  <2>6. AddressesDistinct'
    BY <2>1 DEF AddressesDistinct
  <2> QED BY <2>4, <2>5, <2>6
<1>13. PoolOK'
  BY <1>12, PoolStays DEF PoolOK
<1>14. ASSUME NEW d \in Dialer, sess'[d].open
       PROVE  LinkOf(d)' = LinkOf(d) /\ \A s \in LinkOf(d) : links'[s].ip = links[s].ip
  <2>1. \A s \in LinkOf(d) : s \in Online' /\ links[s].d = d
    BY <1>5, <1>14 DEF LinkOf
  <2>2. \A s \in Online' : s \in LinkOf(d)' <=> links[s].d = d
    BY DEF LinkOf
  <2>3. LinkOf(d)' \subseteq Online' /\ LinkOf(d) \subseteq Online
    BY DEF LinkOf
  <2>4. LinkOf(d)' = LinkOf(d)
    <3>1. \A s \in Online' : links[s].d = d => s \in LinkOf(d)
      BY DEF LinkOf
    <3> QED BY <2>1, <2>2, <2>3, <3>1
  <2> QED BY <2>1, <2>4
<1> QED BY <1>5, <1>6, <1>8, <1>9, <1>11, <1>13, <1>14 DEF LinksOK

\* vpn_timer_cb.
LEMMA TickStep ==
    ASSUME IInv, Tick
    PROVE  IInv'
<1>1. LinkOK /\ TypeOK
  BY TypesApart DEF IInv
<1>2. \A s \in Slot : links[s] \in Link \/ links[s] = Empty
  BY <1>1 DEF LinkOK
<1> DEFINE Counts(s) == [links[s] EXCEPT !.bad_rounds = IF Bad(s) THEN @ + 1 ELSE 0]
<1>3. \A s \in Slot : links'[s] = IF s \notin Online \/ s \in Dead THEN Empty ELSE Routed(Counts(s))
  BY DEF Tick
<1>4. ASSUME NEW s \in Online \ Dead
      PROVE  Counts(s) \in Link /\ Counts(s).d = links[s].d /\ Counts(s).ip = links[s].ip
  <2> DEFINE n == IF Bad(s) THEN links[s].bad_rounds + 1 ELSE 0
  <2>1. links[s] \in Link
    BY <1>1, LinkTyped
  <2>2. links[s].bad_rounds \in 0 .. (BadRounds - 1)
    BY <2>1 DEF Link
  <2>3. Bad(s) => ~(links[s].bad_rounds + 1 >= BadRounds)
    BY DEF Dead
  <2>4. BadRounds \in Nat \ {0}
    BY VpnAssumption
  <2>5. n \in 0 .. (BadRounds - 1)
    BY <2>2, <2>3, <2>4
  <2>6. Counts(s) = [links[s] EXCEPT !.bad_rounds = n]
    OBVIOUS
  <2> HIDE DEF n, Counts
  <2> QED BY <2>1, <2>5, <2>6 DEF Link
<1> HIDE DEF Counts
<1>5. Dead \in SUBSET Online /\ Online \subseteq Slot
  BY DEF Dead, Online
<1>6. \A s \in Online \ Dead : /\ links'[s] \in Link /\ links'[s] # Empty
                               /\ links'[s].d = links[s].d /\ links'[s].ip = links[s].ip
  BY <1>3, <1>4, <1>5, RoutedSame
<1>7. \A s \in Slot : s \notin Online \ Dead => links'[s] = Empty
  BY <1>3
<1>8. LinkOK'
  <2>1. links' = [s \in Slot |-> links'[s]]
    BY DEF Tick
  <2>2. \A s \in Slot : links'[s] \in Link \cup {Empty}
    BY <1>6, <1>7
  <2> QED BY <2>1, <2>2 DEF LinkOK
<1>9. Online' = Online \ Dead
  BY <1>5, <1>6, <1>7 DEF Online
<1>10. UNCHANGED <<dial, hub, net, setup>> /\ Release(Dead)
  BY DEF Tick
<1>11. UNCHANGED faults \/ FaultsOK'
  BY <1>1, <1>10, FaultCounted DEF Tick, FaultIf
<1>12. /\ SessOK' /\ CountOK' /\ UsedOK' /\ LinksOK' /\ PoolOK'
       /\ \A d \in Dialer : /\ sess'[d].id = sess[d].id /\ (sess'[d].open => sess[d].open)
                            /\ sess'[d].open => /\ LinkOf(d)' = LinkOf(d)
                                                /\ \A s \in LinkOf(d) : links'[s].ip = links[s].ip
  BY <1>5, <1>6, <1>9, <1>10, Recycled
<1>13. TypeOK'
  BY <1>8, <1>10, <1>11, <1>12, TypesKept DEF IInv
<1> QED BY <1>10, <1>12, <1>13, QuietStep

\* The hub's vpn_run ends: no link, no address, no session is left.
LEMMA HubStopStep ==
    ASSUME IInv, HubStop
    PROVE  IInv'
<1>1. TypeOK /\ SessOK
  BY TypesApart DEF IInv
<1>2. \A n \in Nat : LET z == [NoSess EXCEPT !.id = n] IN z \in Sess /\ z.id = n /\ ~z.open
  BY DEF NoSess, Sess
<1>3. \A d \in Dialer : sess[d].id \in Nat /\ sess'[d] = [NoSess EXCEPT !.id = sess[d].id]
  BY <1>1 DEF HubStop, SessOK, Sess
<1>4. \A d \in Dialer : sess'[d] \in Sess /\ sess'[d].id = sess[d].id /\ ~sess'[d].open
  <2> SUFFICES ASSUME NEW d \in Dialer, NEW n \in Nat, n = sess[d].id, sess'[d] = [NoSess EXCEPT !.id = n]
               PROVE  sess'[d] \in Sess /\ sess'[d].id = n /\ ~sess'[d].open
    BY <1>3
  <2> QED BY <1>2
<1>5. SessOK'
  <2>1. sess' = [d \in Dialer |-> sess'[d]]
    BY DEF HubStop
  <2> QED BY <1>4, <2>1 DEF SessOK
<1>6. Online' = {}
  BY DEF HubStop, Online
<1>7. LinkOK' /\ UsedOK' /\ CountOK'
  BY VpnAssumption DEF HubStop, LinkOK, UsedOK, CountOK
<1>8. LinksOK' /\ PoolOK'
  BY <1>6, FS_EmptySet DEF HubStop, LinksOK, Counted, OneLink, Backed, PoolOK, UsedExact, LinksPaid,
                           AddressesDistinct
<1>9. UNCHANGED <<dial, net, setup>> /\ hub' = "off" /\ FaultsOK'
  BY <1>1, FaultCounted DEF HubStop
<1>10. TypeOK'
  BY <1>5, <1>7, <1>9, TypesKept DEF IInv
<1> QED BY <1>4, <1>8, <1>9, <1>10, QuietStep

-----------------------------------------------------------------------------
\* The invariant holds at first.
LEMMA InitHolds ==
    ASSUME Init
    PROVE  IInv
<1>1. NoDial \in Dial /\ NoSess \in Sess
  BY DEF NoDial, Dial, NoSess, Sess
<1>2. DialOK /\ SessOK /\ LinkOK /\ CountOK /\ UsedOK
  BY <1>1, VpnAssumption DEF Init, DialOK, SessOK, LinkOK, CountOK, UsedOK
<1>3. setup \in Setups /\ setup.faults \in Nat /\ hub = "wait" /\ faults = 0 /\ net = {}
  BY VpnAssumption DEF Init, SetupOK
<1>4. FaultsOK
  BY <1>3 DEF FaultsOK
<1>5. TypeOK
  BY <1>2, <1>3, <1>4, TypesApart
<1>6. Online = {}
  BY DEF Init, Online
<1>7. LinksOK /\ PoolOK
  BY <1>6, FS_EmptySet DEF Init, LinksOK, Counted, OneLink, Backed, PoolOK, UsedExact, LinksPaid,
                           AddressesDistinct
<1>8. \A d \in Dialer : /\ dial[d].to = 0 /\ dial[d].ip = 0 /\ ~dial[d].connected /\ dial[d].at = "off"
                        /\ sess[d].id = 0 /\ ~sess[d].open
  BY DEF Init, NoDial, NoSess
<1>9. Agreed
  BY <1>3, <1>8 DEF Agreed, SessionsNumbered, Aimed, PacketsAimed, AnswersHold, DialersHold,
                    UpHasAddress, AckedFirst
<1>10. NetOK
  BY <1>3 DEF NetOK
<1> QED BY <1>5, <1>7, <1>9, <1>10 DEF IInv

\* Every step keeps it.
LEMMA StepKeeps ==
    ASSUME IInv, [Next]_vars
    PROVE  IInv'
<1>1. ASSUME NEW d \in Dialer, Start(d) \/ Main(d) \/ Event(d) \/ Stop(d) \/ Invite(d) \/ Punch(d)
      PROVE  IInv'
  BY <1>1, RunEndsStep, MainStep, SendNotifyStep, OnConnectedStep, OnAckStep, InviteStep, PunchStep
     DEF Main, Event
<1>2. CASE Hub
  BY <1>2, HubConnectedStep, OnNotifyStep DEF Hub
<1>3. CASE HubOpenTun \/ Tick \/ HubStop
  BY <1>3, HubOpenTunStep, TickStep, HubStopStep
<1>4. CASE HubStart \/ Lose \/ Vanish \/ UNCHANGED vars
  BY <1>4, IdleStep
<1> QED BY <1>1, <1>2, <1>3, <1>4 DEF Next

\* IInv is inductive.
THEOREM VpnInductive == Spec => []IInv
  BY InitHolds, StepKeeps, PTL DEF Spec

\* vpn_pool_alloc, vpn_pool_free and the links of the hub never disagree: no
\* address leaks, none is given twice, the hub's own is never given, and the
\* links are counted, whatever is lost, repeated, stopped or restarted.
THEOREM PoolNeverLeaks == Spec => []PoolBalanced
<1>1. ASSUME IInv PROVE PoolBalanced
  <2>1. ASSUME PoolFits PROVE {used[i] : i \in Index} \ {0} = {links[s].ip : s \in Online} \ {0}
    BY <1>1, <2>1 DEF IInv, PoolOK, UsedExact, LinksPaid
  <2>2. ASSUME PoolFits PROVE setup.tunnel_ip \notin {links[s].ip : s \in Online}
    <3>1. setup.tunnel_ip # 0
      BY <1>1, VpnAssumption DEF IInv, TypeOK, SetupOK
    <3>2. \A s \in Online : links[s].ip = setup.tunnel_ip => \E i \in Index : used[i] = setup.tunnel_ip
      BY <1>1, <2>2, <3>1 DEF IInv, PoolOK, LinksPaid
    <3> QED BY <1>1, <2>2, <3>1, <3>2 DEF IInv, PoolOK, UsedExact
  <2>3. \A s \in Online : sess[links[s].d].open /\ LinkOf(links[s].d) = {s}
    BY <1>1 DEF IInv, LinksOK, Backed, OneLink, LinkOf
  <2> QED BY <1>1, <2>1, <2>2, <2>3 DEF PoolBalanced, IInv, PoolOK, LinksOK, Counted
<1> QED BY <1>1, VpnInductive, PTL

\* The tun of a dialer has the address that the hub's link holds, and a packet
\* that vpn_tun_recv_cb sends there leaves by the session of this run.
THEOREM AddressesAgree == Spec => []AddressAgreed
<1>1. ASSUME IInv PROVE AddressAgreed
  <2> SUFFICES ASSUME NEW d \in Dialer, NEW s \in LinkOf(d), dial[d].at = "up", dial[d].to = sess[d].id,
                      PoolFits
               PROVE  /\ links[s].ip = dial[d].ip
                      /\ sess[d].peer = dial[d].run /\ sess[d].connected =>
                            TunRecv(dial[d].ip) = {<<d, dial[d].run>>}
    BY DEF AddressAgreed
  <2>1. s \in Online /\ links[s].d = d
    BY DEF LinkOf
  <2>2. sess[d].open /\ dial[d].ip # 0
    BY <1>1, <2>1 DEF IInv, LinksOK, Backed, Agreed, UpHasAddress
  <2>3. PICK t \in LinkOf(d) : links[t].ip = dial[d].ip
    BY <1>1, <2>2 DEF IInv, Agreed, DialersHold, Holds
  <2>4. t = s
    BY <1>1, <2>1, <2>3 DEF LinkOf, IInv, LinksOK, OneLink
  <2>5. links[s].ip = dial[d].ip
    BY <2>3, <2>4
  <2>6. {t1 \in Online : links[t1].ip = dial[d].ip} = {s}
    BY <1>1, <2>1, <2>2, <2>5 DEF IInv, PoolOK, AddressesDistinct
  <2>7. Min({s}) = s /\ s # 0
    <3>1. s \in Nat \ {0}
      BY <1>1, <2>1, LinkTyped, LinksFinite DEF IInv, Slot
    <3> QED BY <3>1, LeastNumber
  <2>8. Pick(dial[d].ip) = s
    BY <2>2, <2>6, <2>7 DEF Pick
  <2>9. sess[d].peer = dial[d].run /\ sess[d].connected => TunRecv(dial[d].ip) = {<<d, dial[d].run>>}
    BY <2>1, <2>7, <2>8 DEF TunRecv
  <2> QED BY <2>5, <2>9
<1> QED BY <1>1, VpnInductive, PTL
=============================================================================
