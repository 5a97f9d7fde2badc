-------------------------------- MODULE Vpn --------------------------------
(***************************************************************************)
(* The VPN of src/net/vpn/vpn.c: one hub (vpn_run without a peer) and the  *)
(* dialers that connect to it. A dialer opens a hole-punched session,      *)
(* sends NET_NOTIFY until the hub answers with the tunnel address it has   *)
(* taken from its pool, and only then opens its tun. The hub keeps a link  *)
(* per session and, once a second, recycles links that are not connected.  *)
(*                                                                         *)
(* The sessions are those of P2p, reduced to what vpn.c sees of them: an   *)
(* INVITE makes or reuses the hub's session, each side is told CONNECTED   *)
(* on its own, a packet re-aims the session at its sender, and nothing     *)
(* ever takes connected back at the callee. All packets are UDP. The       *)
(* callbacks of a process run on its one event thread.                     *)
(***************************************************************************)
EXTENDS Integers, FiniteSets, FiniteSetsExt

CONSTANTS
    Dialer,      \* ids of the dialers
    MaxLinks,    \* VPN_MAX_LINKS
    BadRounds,   \* VPN_LINK_BAD_ROUNDS
    LocalNet,    \* per dialer: [net, prefix] of --local-net, prefix 0 = none
    Setups       \* what happens, see SetupOK

\* The hub's --tunnel-ip and its prefix, who dials, how often each of them is
\* started, who of them is stopped, VPN_NET_NOTIFY_MAX_RETRY, and how many faults
\* there are (packets lost or repeated, answers later than a timeout, the hub
\* stopped).
SetupOK(s) ==
    /\ s.tunnel_ip \in Nat \ {0} /\ s.prefix \in 2..32
    /\ s.dialers \subseteq Dialer /\ s.runs \in Nat
    /\ s.stops \subseteq Dialer /\ s.retry \in Nat \ {0} /\ s.faults \in Nat

ASSUME VpnAssumption ==
    /\ {MaxLinks, BadRounds} \subseteq Nat \ {0} /\ MaxLinks < 16
    /\ \A d \in Dialer : LocalNet[d].prefix \in 0..32
    /\ \A s \in Setups : SetupOK(s)

VARIABLES
    dial,     \* per dialer: its vpn_run, see Dial
    hub,      \* the hub's vpn_run: "off", "wait" (for a link) or "up" (tun open)
    sess,     \* per dialer: the hub's session with it
    links,    \* the hub's ctx->links: slot to link
    n_links,  \* the hub's ctx->n_links
    used,     \* the hub's ctx->addr_used: index to address, 0 = free
    net,      \* packets in flight
    setup,    \* the arrangement of this behaviour
    faults    \* faults so far

hubVars == <<hub, sess, links, n_links, used>>
vars    == <<dial, hubVars, net, setup, faults>>

Slot  == 1..MaxLinks
Index == 0..(MaxLinks - 1)

\* run counts the starts, to names the hub's session the dialer is aimed at.
Dial ==
    [at : {"off", "wait", "exchange", "up"}, run : Nat, invited : BOOLEAN, to : Nat,
     connected : BOOLEAN, acked : BOOLEAN, retries : Nat, ip : Nat]
NoDial == [at |-> "off", run |-> 0, invited |-> FALSE, to |-> 0, connected |-> FALSE,
           acked |-> FALSE, retries |-> 0, ip |-> 0]

\* A session of the hub: its number, 0 = closed, the run of the dialer it is
\* aimed at, and whether the server has confirmed it.
Sess   == [id : Nat, open : BOOLEAN, peer : Nat, connected : BOOLEAN]
NoSess == [id |-> 0, open |-> FALSE, peer |-> 0, connected |-> FALSE]

Link   == [d : Dialer, ip : Nat, bad_rounds : 0..(BadRounds - 1), net_ok : BOOLEAN, route : BOOLEAN]
Empty  == [ip |-> 0]
Online == {s \in Slot : links[s] # Empty}

-----------------------------------------------------------------------------
(* Addresses: 32 bits in host order.                                       *)

\* ip & mask.
Masked(ip, prefix) == (ip \div 2^(32 - prefix)) * 2^(32 - prefix)

\* __net_contains.
Contains(n, ip) == Masked(ip, n.prefix) = Masked(n.net, n.prefix)

\* pool_net | (i + 1), where i + 1 has four bits.
Bit(x, k)   == (x \div 2^k) % 2
OrBit(x, y, k) == IF Bit(x, k) = 1 \/ Bit(y, k) = 1 THEN 2^k ELSE 0
OrLow(x, y) ==
    (x \div 16) * 16 + OrBit(x, y, 0) + OrBit(x, y, 1) + OrBit(x, y, 2) + OrBit(x, y, 3)
PoolAddr(i) == OrLow(Masked(setup.tunnel_ip, setup.prefix), i + 1)

\* Mutant: the first index is skipped.
FreeIndexFromOne == {i \in Index : PoolAddr(i) # setup.tunnel_ip /\ used[i] = 0 /\ i > 0}

\* vpn_pool_alloc: the first free index that is not the own address.
FreeIndex == {i \in Index : PoolAddr(i) # setup.tunnel_ip /\ used[i] = 0}

FreedNever(i, dead) == FALSE   \* Mutant.

\* vpn_pool_free for each address of a family of links: the first index that
\* holds it.
PoolFreed(i, dead) ==
    /\ used[i] # 0
    /\ Cardinality({j \in 0..(i - 1) : used[j] = used[i]})
          < Cardinality({s \in dead : links[s].ip = used[i]})

-----------------------------------------------------------------------------
(* Links of the hub.                                                       *)

LinkOf(d) == {s \in Online : links[s].d = d}

\* vpn_link_pick: the slot a packet for dst leaves by, 0 = dropped.
Pick(dst) ==
    LET exact == {s \in Online : links[s].ip = dst}
        nets  == {s \in Online : links[s].net_ok /\ Contains(LocalNet[links[s].d], dst)}
        best  == {s \in nets : \A t \in nets :
                     LocalNet[links[s].d].prefix >= LocalNet[links[t].d].prefix}
    IN CASE dst = 0                -> 0
         [] dst # 0 /\ exact # {}  -> Min(exact)
         [] dst # 0 /\ exact = {} /\ best # {} -> Min(best)
         [] dst # 0 /\ exact = {} /\ best = {} ->
                IF Cardinality(Online) = 1 THEN Min(Online) ELSE 0

\* vpn_tun_recv_cb: the dialers' runs that a packet for dst reaches.
TunRecv(dst) ==
    LET s == Pick(dst)
    IN IF s # 0 /\ sess[links[s].d].connected
       THEN {<<links[s].d, sess[links[s].d].peer>>} ELSE {}

-----------------------------------------------------------------------------
(* Packets.                                                                *)

Notify(d)      == [t |-> "NOTIFY", d |-> d, run |-> dial[d].run, to |-> dial[d].to]
Ack(d, run, ip) == [t |-> "ACK", d |-> d, run |-> run, ip |-> ip]
TellDialer(d)  == [t |-> "CONNECTED", at |-> "dialer", d |-> d, run |-> dial[d].run]
TellHub(d)     == [t |-> "CONNECTED", at |-> "hub", d |-> d, run |-> dial[d].run]

\* The packet m is consumed, or delivered and left to come again; out is sent.
Receive(m, out) ==
    \/ net' = (net \ {m}) \cup out /\ UNCHANGED faults
    \/ faults < setup.faults /\ faults' = faults + 1 /\ net' = net \cup out

Fault == faults < setup.faults /\ faults' = faults + 1
FaultIf(p) == IF p THEN Fault ELSE UNCHANGED faults

-----------------------------------------------------------------------------
(* A dialer.                                                               *)

\* vpn_run up to vpn_wait_link.
Start(d) ==
    /\ d \in setup.dialers /\ dial[d].at = "off" /\ dial[d].run < setup.runs
    /\ dial' = [dial EXCEPT ![d] = [NoDial EXCEPT !.at = "wait", !.run = dial[d].run + 1]]
    /\ UNCHANGED <<hubVars, net, setup, faults>>

\* The dialer's side of CONNECTED.
OnConnected(d) ==
    \E m \in net :
        /\ m.t = "CONNECTED" /\ m.at = "dialer" /\ m.d = d
        /\ m.run = dial[d].run /\ dial[d].at # "off"
        /\ dial' = [dial EXCEPT ![d].connected = TRUE]
        /\ Receive(m, {})
        /\ UNCHANGED <<hubVars, setup>>

\* vpn_wait_link returns.
WaitLinkDone(d) ==
    /\ dial[d].at = "wait" /\ dial[d].connected
    /\ dial' = [dial EXCEPT ![d].at = "exchange"]
    /\ UNCHANGED <<hubVars, net, setup, faults>>

CanNotify(d) ==
    /\ dial[d].at = "exchange" /\ dial[d].ip = 0 /\ dial[d].connected
    /\ ~dial[d].acked /\ dial[d].retries < setup.retry

\* A round of vpn_exchange_addr that sends.
SendNotify(d) ==
    /\ CanNotify(d)
    /\ dial' = [dial EXCEPT ![d].retries = @ + 1]
    /\ net' = net \cup {Notify(d)}
    /\ UNCHANGED <<hubVars, setup, faults>>

\* vpn_ctrl_on_notify_ack: only the first answer counts, a refusal (ip = 0) too.
OnAck(d) ==
    \E m \in net :
        /\ m.t = "ACK" /\ m.d = d /\ m.run = dial[d].run /\ dial[d].at # "off"
        /\ dial' = IF dial[d].acked THEN dial
                   ELSE [dial EXCEPT ![d] = [@ EXCEPT !.acked = TRUE, !.ip = m.ip]]
        /\ Receive(m, {})
        /\ UNCHANGED <<hubVars, setup>>

\* vpn_exchange_addr returns and vpn_open_tun configures the address.
OpenTun(d) ==
    /\ dial[d].at = "exchange" /\ dial[d].ip # 0
    /\ dial' = [dial EXCEPT ![d].at = "up"]
    /\ UNCHANGED <<hubVars, net, setup, faults>>

CanInvite(d) == dial[d].at = "wait" /\ ~dial[d].invited /\ hub # "off"
CanPunch(d) ==
    /\ dial[d].at = "wait" /\ dial[d].invited /\ dial[d].to = 0
    /\ sess[d].open /\ sess[d].peer = dial[d].run

\* The 60 s of vpn_wait_link or of vpn_exchange_addr pass: vpn_run ends. While
\* something is still under way that takes a delay, a fault.
Hoping(d) ==
    \/ CanInvite(d) \/ CanPunch(d) \/ CanNotify(d)
    \/ \E m \in net : m.d = d /\ m.run = dial[d].run /\ (m.t = "CONNECTED" => m.at = "dialer")
Ended(d) == dial' = [dial EXCEPT ![d] = [NoDial EXCEPT !.run = dial[d].run]]
Timeout(d) ==
    /\ \/ dial[d].at = "wait" /\ ~dial[d].connected
       \/ dial[d].at = "exchange" /\ dial[d].ip = 0
    /\ FaultIf(Hoping(d))
    /\ Ended(d)
    /\ UNCHANGED <<hubVars, net, setup>>

\* Ctrl+C, a failing tun or the end of the process: the hub is not told.
Stop(d) ==
    /\ d \in setup.stops /\ dial[d].at # "off"
    /\ Ended(d)
    /\ UNCHANGED <<hubVars, net, setup, faults>>

-----------------------------------------------------------------------------
(* The session below, as P2p and its server behave.                        *)

\* The INVITE of d's p2p_session_create arrives at the hub's node: a new
\* session, or the one that is there with all its state.
Invite(d) ==
    /\ CanInvite(d)
    /\ dial' = [dial EXCEPT ![d].invited = TRUE]
    /\ sess' = [sess EXCEPT ![d] =
                   IF @.open THEN [@ EXCEPT !.peer = dial[d].run]
                   ELSE [id |-> @.id + 1, open |-> TRUE, peer |-> dial[d].run, connected |-> FALSE]]
    /\ UNCHANGED <<hub, links, n_links, used, net, setup, faults>>

\* Both ends have punched; the server tells each of them.
Punch(d) ==
    /\ CanPunch(d)
    /\ dial' = [dial EXCEPT ![d].to = sess[d].id]
    /\ net' = net \cup {TellDialer(d), TellHub(d)}
    /\ UNCHANGED <<hubVars, setup, faults>>

HubConnected ==
    \E m \in net :
        /\ m.t = "CONNECTED" /\ m.at = "hub" /\ hub # "off"
        /\ sess' = IF sess[m.d].open THEN [sess EXCEPT ![m.d].connected = TRUE] ELSE sess
        /\ Receive(m, {})
        /\ UNCHANGED <<dial, hub, links, n_links, used, setup>>

-----------------------------------------------------------------------------
(* The hub.                                                                *)

\* vpn_reply_notify gives an address to a link that has none.
AlwaysNeeds(l) == TRUE   \* Mutant.
NeedsAddress(l) == l.ip = 0

\* vpn_p2p_recv_callback with a NET_NOTIFY: the session learns the sender, the
\* link is found or made in the first empty slot, vpn_link_handle_notify notes
\* the network and vpn_reply_notify gives an address if there is none yet.
OnNotify ==
    \E m \in net :
        /\ m.t = "NOTIFY" /\ hub # "off" /\ sess[m.d].open /\ m.to = sess[m.d].id
        /\ sess' = [sess EXCEPT ![m.d].peer = m.run]
        /\ \/ /\ LinkOf(m.d) = {} /\ Online = Slot
              /\ Receive(m, {})
              /\ UNCHANGED <<dial, hub, links, n_links, used, setup>>
           \/ \E s \in Slot :
                 LET new  == LinkOf(m.d) = {}
                     old  == IF new THEN [d |-> m.d, ip |-> 0, bad_rounds |-> 0,
                                          net_ok |-> FALSE, route |-> FALSE]
                             ELSE links[s]
                     i    == Min(FreeIndex)
                     give == NeedsAddress(old) /\ FreeIndex # {}
                     ip   == IF give THEN PoolAddr(i) ELSE old.ip
                     ok   == old.net_ok \/ LocalNet[m.d].prefix # 0
                 IN /\ IF new THEN Online # Slot /\ s = Min(Slot \ Online) ELSE s \in LinkOf(m.d)
                    /\ links' = [links EXCEPT ![s] = [old EXCEPT !.ip = ip, !.net_ok = ok]]
                    /\ n_links' = IF new THEN n_links + 1 ELSE n_links
                    /\ used' = IF give THEN [used EXCEPT ![i] = ip] ELSE used
                    /\ Receive(m, {Ack(m.d, m.run, ip)})
                    /\ UNCHANGED <<dial, hub, setup>>

\* vpn_wait_link returns and vpn_open_tun ends with the routes.
NotRouted(l) == l   \* Mutant.
Routed(l) == IF l # Empty /\ l.net_ok THEN [l EXCEPT !.route = TRUE] ELSE l
HubOpenTun ==
    /\ hub = "wait" /\ n_links > 0
    /\ hub' = "up"
    /\ links' = [s \in Slot |-> Routed(links[s])]
    /\ UNCHANGED <<dial, sess, n_links, used, net, setup, faults>>

\* vpn_link_release of every slot of a set.
Release(dead) ==
    /\ sess' = [d \in Dialer |-> IF \E s \in dead : links[s].d = d
                                 THEN [NoSess EXCEPT !.id = sess[d].id] ELSE sess[d]]
    /\ used' = [i \in Index |-> IF PoolFreed(i, dead) THEN 0 ELSE used[i]]
    /\ n_links' = n_links - Cardinality(dead)

\* vpn_timer_cb: vpn_release_dead_links, then vpn_install_link_routes. That a
\* CONNECTED is still to come after that many seconds is a fault.
Bad(s)  == ~sess[links[s].d].connected
Dead    == {s \in Online : Bad(s) /\ links[s].bad_rounds + 1 >= BadRounds}
Tick ==
    /\ hub = "up"
    /\ FaultIf(\E s \in Dead, m \in net : m.t = "CONNECTED" /\ m.at = "hub" /\ m.d = links[s].d)
    /\ Release(Dead)
    /\ links' = [s \in Slot |->
                   IF s \notin Online \/ s \in Dead THEN Empty
                   ELSE Routed([links[s] EXCEPT !.bad_rounds = IF Bad(s) THEN @ + 1 ELSE 0])]
    /\ UNCHANGED <<dial, hub, net, setup>>

\* The hub's vpn_run ends: all links are released and the node closed.
HubStop ==
    /\ hub # "off" /\ Fault
    /\ hub' = "off"
    /\ sess' = [d \in Dialer |-> [NoSess EXCEPT !.id = sess[d].id]]
    /\ links' = [s \in Slot |-> Empty]
    /\ n_links' = 0
    /\ used' = [i \in Index |-> 0]
    /\ UNCHANGED <<dial, net, setup>>

HubStart ==
    /\ hub = "off"
    /\ hub' = "wait"
    /\ UNCHANGED <<dial, sess, links, n_links, used, net, setup, faults>>

-----------------------------------------------------------------------------
Lose ==
    /\ Fault
    /\ \E m \in net : net' = net \ {m}
    /\ UNCHANGED <<dial, hubVars, setup>>

\* A packet for a socket or a process that is gone.
Listens(m) ==
    IF m.t = "NOTIFY" THEN hub # "off" /\ sess[m.d].open /\ m.to = sess[m.d].id
    ELSE IF m.t = "CONNECTED" /\ m.at = "hub" THEN hub # "off"
    ELSE dial[m.d].at # "off" /\ m.run = dial[m.d].run
Vanish ==
    \E m \in net :
        /\ ~Listens(m)
        /\ net' = net \ {m}
        /\ UNCHANGED <<dial, hubVars, setup, faults>>

Init ==
    /\ setup \in Setups
    /\ dial = [d \in Dialer |-> NoDial]
    /\ hub = "wait"
    /\ sess = [d \in Dialer |-> NoSess]
    /\ links = [s \in Slot |-> Empty]
    /\ n_links = 0
    /\ used = [i \in Index |-> 0]
    /\ net = {}
    /\ faults = 0

Main(d)  == WaitLinkDone(d) \/ SendNotify(d) \/ OpenTun(d) \/ Timeout(d)
Event(d) == OnConnected(d) \/ OnAck(d)
Hub      == HubConnected \/ OnNotify

Next ==
    \/ \E d \in Dialer : Start(d) \/ Main(d) \/ Event(d) \/ Stop(d) \/ Invite(d) \/ Punch(d)
    \/ Hub \/ HubOpenTun \/ Tick \/ HubStop \/ HubStart
    \/ Lose \/ Vanish

Spec == Init /\ [][Next]_vars

\* The loops of vpn_run go on, the event threads serve what arrives, the tick
\* fires. Nobody need start or stop a process.
Fairness ==
    /\ \A d \in Dialer : WF_vars(Main(d)) /\ WF_vars(Event(d)) /\ WF_vars(Invite(d) \/ Punch(d))
    /\ WF_vars(Hub) /\ WF_vars(HubOpenTun) /\ WF_vars(Tick)

FairSpec == Spec /\ Fairness

-----------------------------------------------------------------------------
\* Type invariant: every slot, link and counter is in its range.
TypeOK ==
    /\ dial \in [Dialer -> Dial]
    /\ hub \in {"off", "wait", "up"}
    /\ sess \in [Dialer -> Sess]
    /\ links \in [Slot -> Link \cup {Empty}]
    /\ n_links \in 0..MaxLinks /\ used \in [Index -> Nat]
    /\ setup \in Setups /\ faults \in 0..setup.faults

\* The pool's addresses are all different.
PoolFits == \A i, j \in Index : PoolAddr(i) = PoolAddr(j) => i = j

\* No two links hold the same address.
AddressesDistinct ==
    \A s, t \in Online : links[s].ip # 0 /\ links[s].ip = links[t].ip => s = t

\* The table of used addresses, the links and their count agree: releases,
\* refusals and reconnects neither leak an address nor give one out twice, and
\* the hub's own address is never given; every link has a session of its own;
\* types included.
PoolBalanced == TypeOK /\
    (PoolFits =>
        /\ AddressesDistinct
        /\ {used[i] : i \in Index} \ {0} = {links[s].ip : s \in Online} \ {0}
        /\ setup.tunnel_ip \notin {links[s].ip : s \in Online}
        /\ n_links = Cardinality(Online)
        /\ \A s \in Online : sess[links[s].d].open /\ LinkOf(links[s].d) = {s})

\* A dialer whose tun is up and whom the hub's session is aimed at has the
\* address its link holds at the hub, and what the hub's tun sends there
\* reaches this run of this dialer and no other.
AddressAgreed ==
    \A d \in Dialer : \A s \in LinkOf(d) :
        dial[d].at = "up" /\ dial[d].to = sess[d].id /\ PoolFits =>
            /\ links[s].ip = dial[d].ip
            /\ sess[d].peer = dial[d].run /\ sess[d].connected =>
                  TunRecv(dial[d].ip) = {<<d, dial[d].run>>}

\* A dialer that is started gets an address and its tun comes up, and no
\* timeout ends it before, when nothing is lost or stopped and there is room.
Room == Cardinality(setup.dialers) <= Cardinality({i \in Index : PoolAddr(i) # setup.tunnel_ip})
Quiet == faults = 0 /\ Room /\ setup.stops = {}
DialerComesUp ==
    \A d \in Dialer : dial[d].at = "wait" /\ Quiet ~> dial[d].at = "up" \/ ~Quiet

\* A link that the server never confirmed is recycled, and one that brought a
\* network gets its route, also when it came after the hub's tun was opened.
Unconfirmed(s) == s \in Online /\ Bad(s)
Unrouted(s)    == s \in Online /\ links[s].net_ok /\ ~links[s].route
TickCatchesUp ==
    \A s \in Slot :
        /\ Unconfirmed(s) ~> ~Unconfirmed(s)
        /\ Unrouted(s) ~> ~Unrouted(s)
=============================================================================
