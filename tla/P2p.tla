-------------------------------- MODULE P2p --------------------------------
(***************************************************************************)
(* Hole punching: the nodes of src/net/p2p/stun/Stun.c (reached through    *)
(* p2p.c) and the signalling server of src/net/p2p/P2p_Server.c.           *)
(*                                                                         *)
(* A node signs in, opens a session per remote node, learns the public     *)
(* address of the session's own socket from a STUN echo, exchanges it by   *)
(* INVITE and INVITE_REPLY, then both ends send KEEPALIVE until each has   *)
(* heard the other and says so with PUNCHOK; the server answers CONNECTED  *)
(* to both. Everything is UDP: net is a set of datagrams, so they arrive   *)
(* in any order; losses and duplicates are counted in faults.              *)
(*                                                                         *)
(* All handlers of a node run on one event thread, each to its end. The    *)
(* calls of the application come from another thread without a lock; they  *)
(* are atomic here, except signin, whose reset of register_done comes      *)
(* after its send. NAT is the identity, so nat_type has no part.           *)
(***************************************************************************)
EXTENDS Integers, Sequences, FiniteSets

CONSTANTS
    Node,     \* stun ids
    Setups,   \* what the applications do and which faults happen, see SetupOK
    None

\* One arrangement: which nodes are signed in at the start and which others
\* there are, who calls whom, the port pool of each node (<<>> = random
\* ports), whether a second STUN server is configured, who closes; then the
\* bounds: how often a node is created (an online one has been, once), session
\* sockets per node, calls of p2p_session_create, of p2p_session_send, of
\* p2p_session_close and p2p_node_close, faults (lost or repeated datagrams,
\* late replies, crashes).
SetupOK(s) ==
    /\ s.online \subseteq Node /\ s.offline \subseteq Node
    /\ s.calls \subseteq {c \in Node \X Node : c[1] # c[2]}
    /\ s.pool \in [Node -> Seq(Nat \ {0})] /\ s.stun2 \in BOOLEAN
    /\ s.closers \subseteq Node
    /\ {s.signins, s.sockets, s.creates, s.sends, s.closes, s.faults} \subseteq Nat
    /\ s.online # {} => s.signins > 0

ASSUME P2pAssumption == None \notin Node /\ \A s \in Setups : SetupOK(s)

VARIABLES
    phase,    \* per node: "off", "sent", "wait" (in __signin) or "on"
    done,     \* per node: register_done
    epoch,    \* per node: which server_client socket it has, counted
    used,     \* per node: the indices of Pool with pool_used set
    sockets,  \* per node: session sockets opened so far
    sess,     \* per node: the session table, remote id to session
    reg,      \* server->stuns: id to the socket it signed in from, 0 = none
    pend,     \* server->pending: <<caller, callee>> to the call
    net,      \* datagrams in flight
    setup,    \* the arrangement of this behaviour
    asks,     \* calls of the applications so far: to create, send, close
    faults,   \* faults so far
    heard     \* history: <<n, r>>, n's session with r got a packet of r's

nodeVars   == <<phase, done, epoch, used, sockets, sess>>
serverVars == <<reg, pend>>
vars       == <<nodeVars, serverVars, net, setup, asks, faults, heard>>

Pool == setup.pool

NoSession == [role |-> "none"]
NoCall    == [sig |-> 0]

Address == Node \X Nat
Session ==
    [role : {"caller", "callee"}, port : Nat, own : BOOLEAN,
     peer : Address \cup {None}, connected : BOOLEAN, send_punch : BOOLEAN,
     active : BOOLEAN, timer : BOOLEAN]

\* Datagrams: to the server, to a node's signalling socket <<n, epoch>>, to a
\* session's socket <<n, port>>.
ToServer(t, from, m)  == [t |-> t, to |-> "server", src |-> from, m |-> m]
ToSignal(t, at, m)    == [t |-> t, to |-> "signal", at |-> at, m |-> m]
ToSocket(t, at, from) == [t |-> t, to |-> "socket", at |-> at, src |-> from]

Has(n, r)    == sess[n][r] # NoSession
OwnAddr(n, s) == <<n, s.port>>
SignalOf(n)  == <<n, epoch[n]>>

-----------------------------------------------------------------------------
(* The network.                                                            *)

\* The datagram m is consumed, or delivered and left to arrive once more;
\* out is sent.
Receive(m, out) ==
    \/ net' = (net \ {m}) \cup out /\ UNCHANGED faults
    \/ faults < setup.faults /\ faults' = faults + 1 /\ net' = net \cup out

Send(out) == net' = net \cup out

-----------------------------------------------------------------------------
(* Sessions of one node.                                                   *)

\* __alloc_port: the first free entry of the pool.
FreeEntries(n) == (DOMAIN Pool[n]) \ used[n]
FirstFree(n)   == CHOOSE i \in FreeEntries(n) : \A j \in FreeEntries(n) : i <= j
CanOpen(n)     == Pool[n] = <<>> \/ FreeEntries(n) # {}

\* The port of a new session socket: from the pool, or one the kernel picks.
NewPort(n)  == IF Pool[n] = <<>> THEN sockets[n] + 1 ELSE Pool[n][FirstFree(n)]
NewUsed(n)  == IF Pool[n] = <<>> THEN used[n] ELSE used[n] \cup {FirstFree(n)}

FreedNever(n, held, ports) == held   \* Mutant.

\* __free_port: the first entry with that number.
Freed(n, held, ports) ==
    held \ {i \in DOMAIN Pool[n] : /\ Pool[n][i] \in ports
                                   /\ \A j \in 1..(i - 1) : Pool[n][j] # Pool[n][i]}

NewSession(n, role) ==
    [role |-> role, port |-> NewPort(n), own |-> FALSE, peer |-> None,
     connected |-> FALSE, send_punch |-> TRUE, active |-> TRUE, timer |-> FALSE]

\* probe_session_addr: the address is unknown until the STUN echo is back.
Probed(s)   == [s EXCEPT !.own = FALSE]
Probe(n, s) == {ToSocket("bind", OwnAddr(n, s), None)}

\* punch_session: aim at addr, send one KEEPALIVE, start the timer.
Punched(s, addr)   == [s EXCEPT !.peer = addr, !.send_punch = TRUE, !.timer = TRUE]
Punch(n, s, addr)  == {ToSocket("keepalive", addr, OwnAddr(n, s))}

\* The create_session of a caller or a callee: a new session or the one that
\* is there, probed either way.
Created(n, r, role) == Probed(IF Has(n, r) THEN sess[n][r] ELSE NewSession(n, role))
CreateOpens(n, r) ==
    IF Has(n, r) THEN UNCHANGED <<used, sockets>>
    ELSE /\ sockets[n] < setup.sockets
         /\ used' = [used EXCEPT ![n] = NewUsed(n)]
         /\ sockets' = [sockets EXCEPT ![n] = @ + 1]

\* Mutant: the callee does not answer.
AnnounceCall(n, r, s) ==
    IF s.role = "caller"
    THEN {ToServer("INVITE", SignalOf(n), <<n, r, OwnAddr(n, s)>>)} ELSE {}

\* request_session or reply_session_request, when the own address is known.
Announce(n, r, s) ==
    IF s.role = "caller"
    THEN {ToServer("INVITE", SignalOf(n), <<n, r, OwnAddr(n, s)>>)}
    ELSE {ToServer("ACCEPT", SignalOf(n), <<n, r, OwnAddr(n, s)>>)}

-----------------------------------------------------------------------------
(* The application's calls.                                                *)

\* p2p_node_create up to the send of __signin.
NodeCreate(n) ==
    /\ n \in setup.online \cup setup.offline /\ phase[n] = "off" /\ epoch[n] < setup.signins
    /\ phase' = [phase EXCEPT ![n] = "sent"]
    /\ epoch' = [epoch EXCEPT ![n] = @ + 1]
    /\ done' = [done EXCEPT ![n] = FALSE]
    /\ Send({ToServer("SIGNIN", <<n, epoch[n] + 1>>, n)})
    /\ UNCHANGED <<used, sockets, sess, serverVars, faults, heard, asks, setup>>

\* Only now __signin clears the flag that the reply sets.
ClearRegister(n) ==
    /\ phase[n] = "sent"
    /\ phase' = [phase EXCEPT ![n] = "wait"]
    /\ done' = [done EXCEPT ![n] = FALSE]
    /\ UNCHANGED <<epoch, used, sockets, sess, serverVars, net, faults, heard, asks, setup>>

SigninDone(n) ==
    /\ phase[n] = "wait" /\ done[n]
    /\ phase' = [phase EXCEPT ![n] = "on"]
    /\ UNCHANGED <<done, epoch, used, sockets, sess, serverVars, net, faults, heard, asks, setup>>

\* The node's sockets are closed and its sessions cleared.
Down(n) ==
    /\ phase' = [phase EXCEPT ![n] = "off"]
    /\ sess' = [sess EXCEPT ![n] = [r \in Node |-> NoSession]]
    /\ used' = [used EXCEPT ![n] = Freed(n, @, {sess[n][r].port : r \in {x \in Node : Has(n, x)}})]
    /\ UNCHANGED <<done, epoch, sockets, serverVars, heard, setup>>

\* 30 rounds without the flag: p2p_node_create destroys the node.
\* That its reply is still to come then is a delay of three seconds, a fault.
Awaited(n) ==
    \E m \in net : \/ m.to = "server" /\ m.t = "SIGNIN" /\ m.src = SignalOf(n)
                   \/ m.to = "signal" /\ m.t = "SIGNIN_REPLY" /\ m.at = SignalOf(n)
SigninTimeout(n) ==
    /\ phase[n] = "wait" /\ ~done[n]
    /\ IF Awaited(n) THEN faults < setup.faults /\ faults' = faults + 1 ELSE UNCHANGED faults
    /\ Down(n)
    /\ UNCHANGED <<net, asks>>

\* p2p_node_close.
NodeClose(n) ==
    /\ n \in setup.closers /\ phase[n] = "on"
    /\ asks.close < setup.closes /\ asks' = [asks EXCEPT !.close = @ + 1]
    /\ Down(n)
    /\ Send({ToServer("SIGNOUT", SignalOf(n), n)})
    /\ UNCHANGED faults

\* The process dies.
NodeCrash(n) ==
    /\ n \in setup.closers /\ phase[n] # "off" /\ faults < setup.faults
    /\ faults' = faults + 1
    /\ Down(n)
    /\ UNCHANGED <<net, asks>>

\* p2p_session_create.
CreateSession(n, r) ==
    /\ <<n, r>> \in setup.calls /\ phase[n] = "on"
    /\ asks.create < setup.creates /\ asks' = [asks EXCEPT !.create = @ + 1]
    /\ Has(n, r) \/ CanOpen(n)
    /\ CreateOpens(n, r)
    /\ sess' = [sess EXCEPT ![n][r] = Created(n, r, "caller")]
    /\ Send(Probe(n, Created(n, r, "caller")))
    /\ UNCHANGED <<phase, done, epoch, serverVars, faults, heard, setup>>

\* p2p_session_close.
CloseSession(n, r) ==
    /\ n \in setup.closers /\ phase[n] = "on" /\ Has(n, r)
    /\ asks.close < setup.closes /\ asks' = [asks EXCEPT !.close = @ + 1]
    /\ sess' = [sess EXCEPT ![n][r] = NoSession]
    /\ used' = [used EXCEPT ![n] = Freed(n, @, {sess[n][r].port})]
    /\ UNCHANGED <<phase, done, epoch, sockets, serverVars, net, faults, heard, setup>>

\* p2p_session_send: no need to be connected, only to know where to send.
SendData(n, r) ==
    /\ phase[n] = "on" /\ Has(n, r)
    /\ asks.send < setup.sends /\ asks' = [asks EXCEPT !.send = @ + 1]
    /\ sess[n][r].active /\ sess[n][r].peer # None
    /\ Send({ToSocket("data", sess[n][r].peer, OwnAddr(n, sess[n][r]))})
    /\ UNCHANGED <<nodeVars, serverVars, faults, heard, setup>>

\* The keepalive timer of a session.
KeepaliveTimer(n, r) ==
    /\ Has(n, r) /\ sess[n][r].timer
    /\ sess[n][r].active /\ sess[n][r].peer # None
    /\ Send({ToSocket("keepalive", sess[n][r].peer, OwnAddr(n, sess[n][r]))})
    /\ UNCHANGED <<nodeVars, serverVars, faults, heard, asks, setup>>

-----------------------------------------------------------------------------
(* __stun_signal_callback: datagrams of the server at a node.              *)

AtSignal(n, t) ==
    {m \in net : m.to = "signal" /\ m.t = t /\ m.at = SignalOf(n) /\ phase[n] # "off"}

OnSigninReply(n) ==
    \E m \in AtSignal(n, "SIGNIN_REPLY") :
        /\ done' = [done EXCEPT ![n] = TRUE]
        /\ Receive(m, {})
        /\ UNCHANGED <<phase, epoch, used, sockets, sess, serverVars, heard, asks, setup>>

\* The callee opens or reuses its session and punches at once; without a port
\* it rejects.
OnInvite(n) ==
    \E m \in AtSignal(n, "INVITE") :
        LET r == m.m[1]
            s == Punched(Created(n, r, "callee"), m.m[2])
        IN \/ /\ ~Has(n, r) /\ ~CanOpen(n)
              /\ Receive(m, {ToServer("REJECT", SignalOf(n), <<n, r>>)})
              /\ UNCHANGED <<nodeVars, serverVars, heard, asks, setup>>
           \/ /\ Has(n, r) \/ CanOpen(n)
              /\ CreateOpens(n, r)
              /\ sess' = [sess EXCEPT ![n][r] = s]
              /\ Receive(m, Probe(n, s) \cup Punch(n, s, m.m[2]))
              /\ UNCHANGED <<phase, done, epoch, serverVars, heard, asks, setup>>

OnAccept(n) ==
    \E m \in AtSignal(n, "ACCEPT") :
        LET r == m.m[1]
        IN \/ /\ Has(n, r)
              /\ sess' = [sess EXCEPT ![n][r] = Punched(@, m.m[2])]
              /\ Receive(m, Punch(n, sess[n][r], m.m[2]))
              /\ UNCHANGED <<phase, done, epoch, used, sockets, serverVars, heard, asks, setup>>
           \/ /\ ~Has(n, r)
              /\ Receive(m, {})
              /\ UNCHANGED <<nodeVars, serverVars, heard, asks, setup>>

\* A rejected session is marked, never freed here.
OnReject(n) ==
    \E m \in AtSignal(n, "REJECT") :
        /\ sess' = IF Has(n, m.m[1])
                   THEN [sess EXCEPT ![n][m.m[1]] =
                            [@ EXCEPT !.active = FALSE, !.connected = FALSE]]
                   ELSE sess
        /\ Receive(m, {})
        /\ UNCHANGED <<phase, done, epoch, used, sockets, serverVars, heard, asks, setup>>

OnConnected(n) ==
    \E m \in AtSignal(n, "CONNECTED") :
        /\ sess' = IF Has(n, m.m[1])
                   THEN [sess EXCEPT ![n][m.m[1]] =
                            [@ EXCEPT !.connected = TRUE, !.send_punch = FALSE]]
                   ELSE sess
        /\ Receive(m, {})
        /\ UNCHANGED <<phase, done, epoch, used, sockets, serverVars, heard, asks, setup>>

-----------------------------------------------------------------------------
(* __on_session_recv: datagrams at a session's socket.                     *)

AtSocket(n, r, t) ==
    {m \in net : m.to = "socket" /\ m.t = t /\ Has(n, r) /\ m.at = OwnAddr(n, sess[n][r])}

\* The STUN echo: the first one fixes the own address; with a second server
\* configured the call goes on only after the second.
OnBinding(n, r) ==
    \E m \in AtSocket(n, r, "bind") :
        LET s == sess[n][r]
        IN /\ sess' = [sess EXCEPT ![n][r].own = TRUE]
           /\ Receive(m, IF ~s.own /\ setup.stun2 THEN Probe(n, s) ELSE Announce(n, r, s))
           /\ UNCHANGED <<phase, done, epoch, used, sockets, serverVars, heard, asks, setup>>

\* Where the packet really came from is where the session sends from now on.
Learned(s, m) == [s EXCEPT !.peer = m.src]
Hears(n, r, m) == heard' = IF m.src[1] = r THEN heard \cup {<<n, r>>} ELSE heard

OnKeepalive(n, r) ==
    \E m \in AtSocket(n, r, "keepalive") :
        /\ sess' = [sess EXCEPT ![n][r] = [Learned(@, m) EXCEPT !.send_punch = FALSE]]
        /\ Receive(m, IF sess[n][r].send_punch
                      THEN {ToServer("PUNCHOK", SignalOf(n), <<n, r>>)} ELSE {})
        /\ Hears(n, r, m)
        /\ UNCHANGED <<phase, done, epoch, used, sockets, serverVars, asks, setup>>

OnData(n, r) ==
    \E m \in AtSocket(n, r, "data") :
        /\ sess' = [sess EXCEPT ![n][r] = Learned(@, m)]
        /\ Receive(m, {})
        /\ Hears(n, r, m)
        /\ UNCHANGED <<phase, done, epoch, used, sockets, serverVars, asks, setup>>

-----------------------------------------------------------------------------
(* __stun_server_callback: the server's handlers.                          *)

AtServer(t) == {m \in net : m.to = "server" /\ m.t = t}

SrvSignin ==
    \E m \in AtServer("SIGNIN") :
        /\ reg' = [reg EXCEPT ![m.m] = m.src[2]]
        /\ Receive(m, {ToSignal("SIGNIN_REPLY", m.src, m.m)})
        /\ UNCHANGED <<nodeVars, pend, heard, asks, setup>>

SrvSignout ==
    \E m \in AtServer("SIGNOUT") :
        /\ reg' = [reg EXCEPT ![m.m] = 0]
        /\ Receive(m, {})
        /\ UNCHANGED <<nodeVars, pend, heard, asks, setup>>

\* A call replaces the one with the same key; an unknown callee is a reject.
SrvInvite ==
    \E m \in AtServer("INVITE") :
        LET from == m.m[1]
            to   == m.m[2]
        IN \/ /\ reg[to] = 0
              /\ Receive(m, {ToSignal("REJECT", m.src, <<to, from>>)})
              /\ UNCHANGED <<nodeVars, serverVars, heard, asks, setup>>
           \/ /\ reg[to] # 0
              /\ pend' = [pend EXCEPT ![<<from, to>>] =
                             [sig |-> m.src[2], caller_ok |-> FALSE, callee_ok |-> FALSE]]
              /\ Receive(m, {ToSignal("INVITE", <<to, reg[to]>>, <<from, m.m[3]>>)})
              /\ UNCHANGED <<nodeVars, reg, heard, asks, setup>>

\* Both answers go to the socket the caller's INVITE came from.
SrvAccept ==
    \E m \in AtServer("ACCEPT") :
        LET call == <<m.m[2], m.m[1]>>
        IN /\ Receive(m, IF pend[call] = NoCall THEN {}
                         ELSE {ToSignal("ACCEPT", <<call[1], pend[call].sig>>, <<m.m[1], m.m[3]>>)})
           /\ UNCHANGED <<nodeVars, serverVars, heard, asks, setup>>

SrvReject ==
    \E m \in AtServer("REJECT") :
        LET call == <<m.m[2], m.m[1]>>
        IN /\ pend' = [pend EXCEPT ![call] = NoCall]
           /\ Receive(m, IF pend[call] = NoCall THEN {}
                         ELSE {ToSignal("REJECT", <<call[1], pend[call].sig>>, <<m.m[1], m.m[2]>>)})
           /\ UNCHANGED <<nodeVars, reg, heard, asks, setup>>

\* Mutant: one PUNCHOK is enough.
MarkedBoth(p, q) ==
    LET call == IF pend[<<p, q>>] # NoCall THEN <<p, q>> ELSE <<q, p>>
    IN IF pend[call] = NoCall THEN pend
       ELSE [pend EXCEPT ![call] = [@ EXCEPT !.caller_ok = TRUE, !.callee_ok = TRUE]]

\* PUNCHOK of the caller, or else of the callee of a pending call.
Marked(p, q) ==
    IF pend[<<p, q>>] # NoCall
    THEN [pend EXCEPT ![<<p, q>>].caller_ok = TRUE]
    ELSE IF pend[<<q, p>>] # NoCall
         THEN [pend EXCEPT ![<<q, p>>].callee_ok = TRUE]
         ELSE pend
CallOf(p, q) == IF pend[<<p, q>>] # NoCall THEN <<p, q>> ELSE <<q, p>>

SrvPunchok ==
    \E m \in AtServer("PUNCHOK") :
        LET call == CallOf(m.m[1], m.m[2])
            now  == Marked(m.m[1], m.m[2])
            both == now[call] # NoCall /\ now[call].caller_ok /\ now[call].callee_ok
            out  == {ToSignal("CONNECTED", <<call[1], now[call].sig>>, <<call[2]>>)}
                    \cup (IF reg[call[2]] = 0 THEN {}
                          ELSE {ToSignal("CONNECTED", <<call[2], reg[call[2]]>>, <<call[1]>>)})
        IN /\ pend' = IF both THEN [now EXCEPT ![call] = NoCall] ELSE now
           /\ Receive(m, IF both THEN out ELSE {})
           /\ UNCHANGED <<nodeVars, reg, heard, asks, setup>>

-----------------------------------------------------------------------------
(* Faults of the network and of the server's process.                      *)

Lose ==
    /\ faults < setup.faults
    /\ \E m \in net : net' = net \ {m}
    /\ faults' = faults + 1
    /\ UNCHANGED <<nodeVars, serverVars, heard, asks, setup>>

\* A datagram for a socket that is closed vanishes.
Listens(m) ==
    \/ m.to = "server"
    \/ m.to = "signal" /\ phase[m.at[1]] # "off" /\ epoch[m.at[1]] = m.at[2]
    \/ m.to = "socket" /\ \E r \in Node : Has(m.at[1], r) /\ sess[m.at[1]][r].port = m.at[2]
Vanish ==
    \E m \in net :
        /\ ~Listens(m)
        /\ net' = net \ {m}
        /\ UNCHANGED <<nodeVars, serverVars, faults, heard, asks, setup>>

\* The server is started again with empty tables.
ServerRestart ==
    /\ faults < setup.faults
    /\ faults' = faults + 1
    /\ reg' = [n \in Node |-> 0]
    /\ pend' = [c \in Node \X Node |-> NoCall]
    /\ UNCHANGED <<nodeVars, net, heard, asks, setup>>

-----------------------------------------------------------------------------
Init ==
    /\ setup \in Setups
    /\ phase = [n \in Node |-> IF n \in setup.online THEN "on" ELSE "off"]
    /\ done = [n \in Node |-> n \in setup.online]
    /\ epoch = [n \in Node |-> IF n \in setup.online THEN 1 ELSE 0]
    /\ used = [n \in Node |-> {}]
    /\ sockets = [n \in Node |-> 0]
    /\ sess = [n \in Node |-> [r \in Node |-> NoSession]]
    /\ reg = epoch
    /\ pend = [c \in Node \X Node |-> NoCall]
    /\ net = {}
    /\ asks = [create |-> 0, send |-> 0, close |-> 0]
    /\ faults = 0
    /\ heard = {}

Application(n) ==
    \/ NodeCreate(n) \/ NodeClose(n) \/ NodeCrash(n)
    \/ \E r \in Node : CreateSession(n, r) \/ CloseSession(n, r) \/ SendData(n, r)

Signin(n) == ClearRegister(n) \/ SigninDone(n) \/ SigninTimeout(n)

OnSignal(n) == OnSigninReply(n) \/ OnInvite(n) \/ OnAccept(n) \/ OnReject(n) \/ OnConnected(n)

OnSession(n, r) ==
    KeepaliveTimer(n, r) \/ OnBinding(n, r) \/ OnKeepalive(n, r) \/ OnData(n, r)

EventThread(n) == OnSignal(n) \/ \E r \in Node : OnSession(n, r)

Server == SrvSignin \/ SrvSignout \/ SrvInvite \/ SrvAccept \/ SrvReject \/ SrvPunchok

Next ==
    \/ \E n \in Node : Application(n) \/ Signin(n) \/ EventThread(n)
    \/ Server
    \/ Lose \/ Vanish \/ ServerRestart

Spec == Init /\ [][Next]_vars

\* Who may ever call whom.
PossibleCalls == UNION {s.calls : s \in Setups}
Ends          == PossibleCalls \cup {<<c[2], c[1]>> : c \in PossibleCalls}

\* The event threads of the nodes and of the server serve every socket that
\* is readable, timers fire, and __signin goes on. An application need do
\* nothing, and only faults lose a datagram.
Fairness ==
    /\ \A n \in Node : WF_vars(Signin(n)) /\ WF_vars(OnSignal(n))
    /\ \A e \in Ends :
        /\ WF_vars(OnBinding(e[1], e[2]))
        /\ WF_vars(KeepaliveTimer(e[1], e[2]))
        /\ WF_vars(OnKeepalive(e[1], e[2]) \/ OnData(e[1], e[2]))
    /\ WF_vars(Server)

FairSpec == Spec /\ Fairness

-----------------------------------------------------------------------------
\* Type invariant: no counter of what applications and faults may do is
\* exceeded, and ports in use are entries of the pool.
TypeOK ==
    /\ phase \in [Node -> {"off", "sent", "wait", "on"}]
    /\ done \in [Node -> BOOLEAN] /\ epoch \in [Node -> 0..setup.signins]
    /\ used \in [Node -> SUBSET Nat] /\ \A n \in Node : used[n] \subseteq DOMAIN Pool[n]
    /\ sockets \in [Node -> 0..setup.sockets]
    /\ sess \in [Node -> [Node -> Session \cup {NoSession}]]
    /\ asks \in [create : 0..setup.creates, send : 0..setup.sends, close : 0..setup.closes]
    /\ reg \in [Node -> 0..setup.signins] /\ faults \in 0..setup.faults
    /\ setup \in Setups /\ heard \subseteq Node \X Node

Sessions(n) == {r \in Node : Has(n, r)}

\* Every pool entry in use belongs to exactly one session, and every session
\* holds one: no failure, reject, close or restart leaks a port or gives it
\* to two sessions. Of a pool that names no port twice; types included.
PortsOwned == TypeOK /\
    \A n \in Node :
        Pool[n] # <<>> /\ (\A i, j \in DOMAIN Pool[n] : Pool[n][i] = Pool[n][j] => i = j) =>
            /\ used[n] = {i \in DOMAIN Pool[n] : \E r \in Sessions(n) : sess[n][r].port = Pool[n][i]}
            /\ \A r \in Sessions(n) : \E i \in DOMAIN Pool[n] : sess[n][r].port = Pool[n][i]
            /\ \A r, q \in Sessions(n) : sess[n][r].port = sess[n][q].port => r = q

\* A session reported connected worked in both directions: each end has had
\* a packet of the other, and sends only to it. Where ports are never used again.
ConnectedBothWays ==
    \A n, r \in Node :
        Has(n, r) /\ sess[n][r].connected /\ Pool[n] = <<>> /\ Pool[r] = <<>>
            => /\ {<<n, r>>, <<r, n>>} \subseteq heard
               /\ sess[n][r].peer # None => sess[n][r].peer[1] = r

Undisturbed(c) ==
    /\ faults = 0 /\ asks.close = 0
    /\ phase[c[1]] = "on" /\ phase[c[2]] = "on"
    /\ Has(c[1], c[2]) /\ sess[c[1]][c[2]].active
    /\ Has(c[2], c[1]) => sess[c[2]][c[1]].active
Linked(c) ==
    /\ Has(c[1], c[2]) /\ sess[c[1]][c[2]].connected
    /\ Has(c[2], c[1]) /\ sess[c[2]][c[1]].connected

\* A call connects both ends when nothing is lost, nobody closes and the
\* callee does not call too.
CallConnects ==
    \A c \in PossibleCalls :
        c \in setup.calls /\ <<c[2], c[1]>> \notin setup.calls
            => (<>[]Undisturbed(c) => <>Linked(c))
=============================================================================
