------------------------------ MODULE Signals ------------------------------
(***************************************************************************)
(* Signal events, signal.c and the signal half of Event_Base.c, and how a  *)
(* process ends on SIGINT. The handler sends one byte to the socket pair   *)
(* of every base in global_event_base_list; the loop of a base reads it    *)
(* and calls the events that its map has for that number. Base "def" is    *)
(* that of the default producer, with a thread of its own; "own" is one    *)
(* that the main thread makes, runs and frees.                             *)
(***************************************************************************)
EXTENDS Integers, Sequences, FiniteSets

CONSTANTS
    Apps,         \* kinds of process: "poll", "node", "call", "own"
    Users,        \* events for SIGUSR1 that the process adds to "def"
    OneShot,      \* those of them without EV_PERSIST
    SocketRoom,   \* datagrams that the socket of a base holds
    MaxSignals    \* bound on the signals the process gets

Bases   == {"def", "own"}
Numbers == {"INT", "USR1", "SEGV"}
Events  == {"quit", "node"} \cup Users

ASSUME SignalAssumption ==
    /\ Apps \subseteq {"poll", "node", "call", "own"} /\ OneShot \subseteq Users
    /\ Users \cap {"quit", "node"} = {}
    /\ SocketRoom \in Nat \ {0} /\ MaxSignals \in Nat

NumberOf(e) == IF e \in Users THEN "USR1" ELSE "INT"
Persistent  == {"node"} \cup (Users \ OneShot)

VARIABLES
    app,
    main,            \* where the main thread is
    loop,            \* where the loop of each base is
    ready,           \* descriptors that select returned and that are not served yet
    calls,           \* evsig.list: events still to be called
    sock,            \* bytes in evsig's socket pair
    notices,         \* bytes in the notifier of the default producer
    break_flag,
    map,             \* evsig.map
    listed,          \* global_event_base_list
    sender,          \* bases whose evsig.sender exists
    node_exit_flag, node_wait_flag,
    asked,           \* user events added and not deleted
    signals,         \* signals so far
    fate,            \* what happened to SIGINT: see ProcessEnds
    died

vars == <<app, main, loop, ready, calls, sock, notices, break_flag, map, listed, sender,
          node_exit_flag, node_wait_flag, asked, signals, fate, died>>

\* The default producer runs and SIGINT is caught.
Init ==
    /\ app \in Apps
    /\ main = IF app = "poll" THEN "wait" ELSE "setup"
    /\ loop = [b \in Bases |-> IF b = "def" THEN "check" ELSE "none"]
    /\ ready = [b \in Bases |-> {}] /\ calls = [b \in Bases |-> {}]
    /\ sock = [b \in Bases |-> <<>>] /\ notices = 0
    /\ break_flag = [b \in Bases |-> 0]
    /\ map = [b \in Bases |-> IF b = "def" THEN {"quit"} ELSE {}]
    /\ listed = {"def"} /\ sender = {"def"}
    /\ node_exit_flag = FALSE /\ node_wait_flag = FALSE
    /\ asked = {} /\ signals = 0 /\ fate = {} /\ died = FALSE

Alike(e, s)  == {x \in s : NumberOf(x) = NumberOf(e)}
SetFlag(b, f) == break_flag' = [break_flag EXCEPT ![b] = f]

-----------------------------------------------------------------------------
Receivers(b) == b \in listed

Full(b) == Len(sock[b]) >= SocketRoom

\* signal_handler, on whichever thread: __evsig_send for every base. A base
\* without its sender (not yet made, or destroyed) is a crash; after SIGSEGV
\* the process ends anyway.
Catch(s) ==
    /\ signals < MaxSignals /\ signals' = signals + 1
    /\ sock' = [b \in Bases |-> IF Receivers(b) /\ ~Full(b) THEN Append(sock[b], s) ELSE sock[b]]
    /\ died' = (s = "SEGV" \/ ~(listed \subseteq sender))
    /\ fate' = fate \cup
          (IF s # "INT" THEN {} ELSE
             {IF main = "setup" \/ (app = "own" /\ main = "made") THEN "early" ELSE "caught"}
             \cup (IF \E b \in listed : Full(b) THEN {"lost"} ELSE {}))
    /\ UNCHANGED <<app, main, loop, ready, calls, notices, break_flag, map, listed, sender,
                   node_exit_flag, node_wait_flag, asked>>

-----------------------------------------------------------------------------
LoopGo(b, pc) == loop' = [loop EXCEPT ![b] = pc]

\* Event_Base.__loop: break_flag is looked at between two rounds only.
Check(b) ==
    /\ loop[b] = "check"
    /\ LoopGo(b, IF break_flag[b] # 1 THEN "select" ELSE "ended")
    /\ UNCHANGED <<app, main, ready, calls, sock, notices, break_flag, map, listed, sender,
                   node_exit_flag, node_wait_flag, asked, signals, fate, died>>

Readable(b) ==
    {f \in {"signal", "notifier"} :
        \/ f = "signal" /\ sock[b] # <<>>
        \/ f = "notifier" /\ b = "def" /\ notices > 0}

\* select returns all that is readable.
Select(b) ==
    /\ loop[b] = "select" /\ Readable(b) # {}
    /\ ready' = [ready EXCEPT ![b] = Readable(b)]
    /\ LoopGo(b, "serve")
    /\ UNCHANGED <<app, main, calls, sock, notices, break_flag, map, listed, sender,
                   node_exit_flag, node_wait_flag, asked, signals, fate, died>>

\* Mutant: only one event of the number is found.
FoundOne(b, s) ==
    IF {e \in map[b] : NumberOf(e) = s} = {} THEN {}
    ELSE {CHOOSE e \in map[b] : NumberOf(e) = s}

\* search_all_same_key.
Found(b, s) == {e \in map[b] : NumberOf(e) = s}

\* evsig_cb: one datagram, and activate_signal for its number.
EvsigCb(b) ==
    /\ loop[b] = "serve" /\ calls[b] = {} /\ "signal" \in ready[b]
    /\ ready' = [ready EXCEPT ![b] = @ \ {"signal"}]
    /\ calls' = [calls EXCEPT ![b] = Found(b, sock[b][1])]
    /\ sock' = [sock EXCEPT ![b] = Tail(@)]
    /\ UNCHANGED <<app, main, loop, notices, break_flag, map, listed, sender,
                   node_exit_flag, node_wait_flag, asked, signals, fate, died>>

\* event_thread_notifier_callback.
NotifierCb(b) ==
    /\ loop[b] = "serve" /\ calls[b] = {} /\ "notifier" \in ready[b]
    /\ ready' = [ready EXCEPT ![b] = @ \ {"notifier"}]
    /\ notices' = notices - 1
    /\ UNCHANGED <<app, main, loop, calls, sock, break_flag, map, listed, sender,
                   node_exit_flag, node_wait_flag, asked, signals, fate, died>>

\* dispatch is through.
RoundEnds(b) ==
    /\ loop[b] = "serve" /\ calls[b] = {} /\ ready[b] = {}
    /\ LoopGo(b, "check")
    /\ UNCHANGED <<app, main, ready, calls, sock, notices, break_flag, map, listed, sender,
                   node_exit_flag, node_wait_flag, asked, signals, fate, died>>

\* evsig_del goes by the number: one of the events that have it.
EvsigDel(b, e) ==
    IF Alike(e, map[b]) = {} THEN UNCHANGED map
    ELSE \E x \in Alike(e, map[b]) : map' = [map EXCEPT ![b] = @ \ {x}]

Called(b, e) == calls' = [calls EXCEPT ![b] = @ \ {e}]

\* Mutant: the flag is set whatever it was.
QuitCbAlways(b) ==
    /\ loop[b] = "serve" /\ "quit" \in calls[b]
    /\ SetFlag(b, 1)
    /\ Called(b, "quit") /\ EvsigDel(b, "quit")
    /\ UNCHANGED <<app, main, loop, ready, sock, notices, listed, sender,
                   node_exit_flag, node_wait_flag, asked, signals, fate, died>>

\* quit_signal_cb, which is not persistent, and __signal_list_for_each_callback.
QuitCb(b) ==
    /\ loop[b] = "serve" /\ "quit" \in calls[b]
    /\ IF break_flag[b] = 0 THEN SetFlag(b, 1) ELSE UNCHANGED break_flag
    /\ Called(b, "quit") /\ EvsigDel(b, "quit")
    /\ UNCHANGED <<app, main, loop, ready, sock, notices, listed, sender,
                   node_exit_flag, node_wait_flag, asked, signals, fate, died>>

\* Node's __quit_signal_cb: first node_exit_flag ... The event is part of the
\* node and stays in the map when the node is freed; the memory may still be
\* as it was, or not.
NodeCb(b) ==
    /\ loop[b] = "serve" /\ "node" \in calls[b]
    /\ node_exit_flag' = TRUE
    /\ died' \in {FALSE} \cup (IF main \in {"setup", "wait", "abort", "destroy"} THEN {} ELSE {TRUE})
    /\ LoopGo(b, "node_cb")
    /\ UNCHANGED <<app, main, ready, calls, sock, notices, break_flag, map, listed, sender,
                   node_wait_flag, asked, signals, fate>>

\* ... then break_flag = 2.
NodeCbFlag(b) ==
    /\ loop[b] = "node_cb"
    /\ SetFlag(b, 2)
    /\ Called(b, "node") /\ LoopGo(b, "serve")
    /\ fate' = fate \cup (IF main \in {"send", "join"} THEN {"late"} ELSE {})
    /\ UNCHANGED <<app, main, ready, sock, notices, map, listed, sender,
                   node_exit_flag, node_wait_flag, asked, signals, died>>

\* The callback of a user's event.
UserCb(b, e) ==
    /\ loop[b] = "serve" /\ e \in calls[b] \cap Users
    /\ Called(b, e)
    /\ IF e \in Persistent THEN UNCHANGED map ELSE EvsigDel(b, e)
    /\ UNCHANGED <<app, main, loop, ready, sock, notices, break_flag, listed, sender,
                   node_exit_flag, node_wait_flag, asked, signals, fate, died>>

LoopStep(b) ==
    \/ Check(b) \/ Select(b) \/ EvsigCb(b) \/ NotifierCb(b) \/ RoundEnds(b)
    \/ QuitCb(b) \/ NodeCb(b) \/ NodeCbFlag(b) \/ \E e \in Users : UserCb(b, e)

\* Callbacks of the bus on the event thread: a node is told to exit
\* (node_exit), a command ended or went on (__call_cmd_async_callback).
BusCb ==
    /\ \/ loop["def"] = "select" /\ Readable("def") = {} /\ LoopGo("def", "check")
       \/ loop["def"] = "serve" /\ calls["def"] = {} /\ UNCHANGED loop
    /\ main = "wait"
    /\ \/ app \in {"node", "call"} /\ node_exit_flag' = TRUE /\ node_wait_flag' = FALSE
       \/ app = "call" /\ node_wait_flag' = TRUE /\ UNCHANGED node_exit_flag
    /\ UNCHANGED <<app, main, ready, calls, sock, notices, break_flag, map, listed, sender,
                   asked, signals, fate, died>>

-----------------------------------------------------------------------------
\* event_add and event_del of a user's event.
AddUser(e) ==
    /\ main = "wait" /\ app = "poll" /\ e \notin asked
    /\ map' = [map EXCEPT !["def"] = @ \cup {e}]
    /\ asked' = asked \cup {e}
    /\ UNCHANGED <<app, main, loop, ready, calls, sock, notices, break_flag, listed, sender,
                   node_exit_flag, node_wait_flag, signals, fate, died>>

DelUser(e) ==
    /\ main = "wait" /\ e \in asked
    /\ EvsigDel("def", e)
    /\ asked' = asked \ {e}
    /\ UNCHANGED <<app, main, loop, ready, calls, sock, notices, break_flag, listed, sender,
                   node_exit_flag, node_wait_flag, signals, fate, died>>

MainGo(from, to) == main = from /\ main' = to

\* Node's __add_quit_signal.
AddNode ==
    /\ app \in {"node", "call"} /\ MainGo("setup", "wait")
    /\ map' = [map EXCEPT !["def"] = @ \cup {"node"}]
    /\ UNCHANGED <<app, loop, ready, calls, sock, notices, break_flag, listed, sender,
                   node_exit_flag, node_wait_flag, asked, signals, fate, died>>

\* event_base_new: the constructor puts the base on the list ...
NewBase ==
    /\ app = "own" /\ MainGo("setup", "made")
    /\ listed' = listed \cup {"own"}
    /\ UNCHANGED <<app, loop, ready, calls, sock, notices, break_flag, map, sender,
                   node_exit_flag, node_wait_flag, asked, signals, fate, died>>

\* ... evsig_init makes the socket pair and adds the quit event. Then the
\* main thread is in the base's loop.
InitBase ==
    /\ MainGo("made", "wait")
    /\ sender' = sender \cup {"own"}
    /\ map' = [map EXCEPT !["own"] = {"quit"}]
    /\ LoopGo("own", "check")
    /\ UNCHANGED <<app, ready, calls, sock, notices, break_flag, listed,
                   node_exit_flag, node_wait_flag, asked, signals, fate, died>>

\* The main thread waits for the end: break_flag (httpd, vpn), node_exit_flag
\* (Node's loop, the call command), or the end of its own loop.
Waited ==
    /\ \/ app = "poll" /\ break_flag["def"] # 0 /\ MainGo("wait", "stop")
       \/ app = "node" /\ node_exit_flag /\ MainGo("wait", "destroy")
       \/ app = "call" /\ node_exit_flag /\ MainGo("wait", IF node_wait_flag THEN "abort" ELSE "destroy")
       \/ app = "own" /\ loop["own"] = "ended" /\ MainGo("wait", "release_own")
    /\ UNCHANGED <<app, loop, ready, calls, sock, notices, break_flag, map, listed, sender,
                   node_exit_flag, node_wait_flag, asked, signals, fate, died>>

\* call_bus abort_cmd is a synchronous call and needs the loop for its answer.
Abort ==
    /\ loop["def"] # "ended" /\ MainGo("abort", "destroy")
    /\ SetFlag("def", 1)
    /\ UNCHANGED <<app, loop, ready, calls, sock, notices, map, listed, sender,
                   node_exit_flag, node_wait_flag, asked, signals, fate, died>>

\* The node is destroyed; its event is not deleted.
DestroyNode ==
    /\ MainGo("destroy", "stop")
    /\ UNCHANGED <<app, loop, ready, calls, sock, notices, break_flag, map, listed, sender,
                   node_exit_flag, node_wait_flag, asked, signals, fate, died>>

\* Event_Thread.__stop, from the destructor of the default producer.
StopFlag ==
    /\ MainGo("stop", "send")
    /\ SetFlag("def", 1)
    /\ UNCHANGED <<app, loop, ready, calls, sock, notices, map, listed, sender,
                   node_exit_flag, node_wait_flag, asked, signals, fate, died>>

\* Mutant: the loop is not woken.
StopSendNothing ==
    /\ MainGo("send", "join")
    /\ UNCHANGED <<app, loop, ready, calls, sock, notices, break_flag, map, listed, sender,
                   node_exit_flag, node_wait_flag, asked, signals, fate, died>>

StopSend ==
    /\ MainGo("send", "join")
    /\ notices' = notices + 1
    /\ UNCHANGED <<app, loop, ready, calls, sock, break_flag, map, listed, sender,
                   node_exit_flag, node_wait_flag, asked, signals, fate, died>>

\* producer_destroy_default_instance waits for EVTHREAD_STATE_DESTROYED.
Join ==
    /\ loop["def"] = "ended" /\ MainGo("join", "release_def")
    /\ UNCHANGED <<app, loop, ready, calls, sock, notices, break_flag, map, listed, sender,
                   node_exit_flag, node_wait_flag, asked, signals, fate, died>>

\* Event_Base.__deconstrcut: evsig_release destroys the sender ...
Release(b, from, to) ==
    /\ MainGo(from, to)
    /\ sender' = sender \ {b}
    /\ map' = [map EXCEPT ![b] = {}]
    /\ UNCHANGED <<app, loop, ready, calls, sock, notices, break_flag, listed,
                   node_exit_flag, node_wait_flag, asked, signals, fate, died>>

\* ... and only then the base leaves the list.
Unlist(b, from, to) ==
    /\ MainGo(from, to)
    /\ listed' = listed \ {b}
    /\ UNCHANGED <<app, loop, ready, calls, sock, notices, break_flag, map, sender,
                   node_exit_flag, node_wait_flag, asked, signals, fate, died>>

MainStep ==
    \/ AddNode \/ NewBase \/ InitBase \/ Waited \/ Abort \/ DestroyNode
    \/ StopFlag \/ StopSend \/ Join
    \/ Release("own", "release_own", "unlist_own") \/ Unlist("own", "unlist_own", "stop")
    \/ Release("def", "release_def", "unlist_def") \/ Unlist("def", "unlist_def", "done")

Next ==
    /\ ~died /\ main # "done"
    /\ \/ \E s \in Numbers : Catch(s)
       \/ \E b \in Bases : LoopStep(b)
       \/ BusCb
       \/ \E e \in Users : AddUser(e) \/ DelUser(e)
       \/ MainStep

Spec == Init /\ [][Next]_vars

\* The threads go on; nobody has to send a signal, call the node or change
\* the user's events.
FairSpec ==
    /\ Spec
    /\ WF_vars(~died /\ main # "done" /\ LoopStep("def"))
    /\ WF_vars(~died /\ main # "done" /\ (LoopStep("own") \/ MainStep))

-----------------------------------------------------------------------------
Mains == {"setup", "made", "wait", "abort", "destroy", "stop", "send", "join",
          "release_own", "unlist_own", "release_def", "unlist_def", "done"}

\* Type invariant: sockets and flags stay in range.
TypeOK ==
    /\ app \in Apps /\ main \in Mains
    /\ loop \in [Bases -> {"none", "check", "select", "serve", "node_cb", "ended"}]
    /\ ready \in [Bases -> SUBSET {"signal", "notifier"}]
    /\ calls \in [Bases -> SUBSET Events] /\ map \in [Bases -> SUBSET Events]
    /\ sock \in [Bases -> Seq(Numbers)] /\ \A b \in Bases : Len(sock[b]) <= SocketRoom
    /\ break_flag \in [Bases -> 0 .. 2] /\ notices \in 0 .. 1
    /\ listed \subseteq Bases /\ sender \subseteq Bases /\ asked \subseteq Users
    /\ node_exit_flag \in BOOLEAN /\ node_wait_flag \in BOOLEAN /\ died \in BOOLEAN
    /\ signals \in 0 .. MaxSignals /\ fate \subseteq {"early", "caught", "lost", "late"}

\* What still runs has what it needs. A base whose loop runs is on the list
\* and has its socket pair; while a command is being aborted the loop that
\* must bring the answer has not ended, although the quit event of the base is
\* called for the same SIGINT (the comment in quit_signal_cb on break_flag 2),
\* unless a SIGINT came before the node had added its event. Types included.
ShutdownInOrder ==
    /\ TypeOK
    /\ \A b \in Bases : loop[b] \in {"check", "select", "serve", "node_cb"} => b \in listed \cap sender
    /\ main = "abort" /\ "early" \notin fate => loop["def"] # "ended"

\* Every event that a base has for a signal in its socket is called for it,
\* unless it is removed or the loop ends first.
SignalSeen ==
    \A b \in Bases, e \in Events :
        (e \in map[b] /\ sock[b] # <<>> /\ NumberOf(e) = sock[b][1])
            ~> (e \in calls[b] \/ e \notin map[b] \/ loop[b] = "ended" \/ died \/ main = "done")

\* A SIGINT ends every loop and with them the process: neither the socket
\* pair nor the two flags lose it. "early": it came before all bases and
\* events were there; "lost": a socket was full; "late": Node's callback
\* wrote break_flag after the producer's stop.
ProcessEnds ==
    ("caught" \in fate)
        ~> (main = "done" \/ died \/ fate \cap {"early", "lost", "late"} # {})
=============================================================================
