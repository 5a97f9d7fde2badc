---------------------------- MODULE EventThread ----------------------------
(***************************************************************************)
(* The event thread of src/concurrent: one thread runs select() over the   *)
(* descriptors of the enrolled workers (Select_Event_Base.c, Event_Base.c),*)
(* other threads enroll, adjust and resign workers (Worker.c, Producer.c)  *)
(* by changing the loop's own tables and then sending one datagram to the  *)
(* loop's notifier socket (Event_Thread.c).                                *)
(*                                                                         *)
(* maxfdp and the descriptor set are shared without a lock, so the reads   *)
(* and writes of __trustee_io, __reclaim_io and __dispatch are steps of    *)
(* their own. The io_map, also unlocked, is changed and searched in one    *)
(* step each: what a torn search would find is left out. Read and write    *)
(* interest are one set; a ready descriptor stays ready until its callback *)
(* has received. Timers and signals are not in this module, so a select    *)
(* ends only on a ready descriptor or an interrupting signal.              *)
(***************************************************************************)
EXTENDS Integers, FiniteSets

CONSTANTS
    Actors,        \* the threads that enroll and resign workers
    Workers,
    Owner,         \* the actor that drives each worker
    Fds,           \* descriptors the system hands out to sockets
    NotifierFd,    \* the descriptor of the notifier socket
    NotifierRoom,  \* datagrams the notifier socket buffers
    None,          \* no worker
    SleepSuffices  \* whether the usleep before a socket is closed outlasts
                   \* the round of the loop that still holds its descriptor

ASSUME OwnerAssumption == Owner \in [Workers -> Actors] /\ None \notin Workers
ASSUME FdsAssumption   == Fds \subseteq Nat /\ NotifierFd \in Nat \ Fds
ASSUME RoomAssumption  == NotifierRoom \in Nat \ {0} /\ SleepSuffices \in BOOLEAN

VARIABLES
    flags,       \* of the event thread: "init", "running" or "destroyed"
    break_flag,  \* makes the loop end at its next check
    maxfdp, in,  \* the first argument of select and the set it watches
    io_map,      \* the workers whose event is in the map
    nfds, out,   \* the loop's copies of maxfdp and in
    todo,        \* ready descriptors the dispatch loop has still to visit
    cur,         \* the worker whose callback runs, or None
    loop_pc,     \* where the event thread is
    notices,     \* datagrams waiting at the notifier
    state,       \* per worker: its life from socket to close
    fd_of,       \* per worker: ev_fd
    data,        \* descriptors with data to receive
    act,         \* per actor: the operation in progress
    stop_pc      \* where producer_destroy_default_instance is

loopVars  == <<flags, nfds, out, todo, cur, loop_pc>>
tableVars == <<maxfdp, in, io_map>>
sockVars  == <<state, fd_of, data>>
vars == <<loopVars, tableVars, sockVars, break_flag, notices, act, stop_pc>>

Idle == [pc |-> "idle", op |-> "none", w |-> None, maxfd |-> 0]
Open == {fd_of[w] : w \in {v \in Workers : state[v] # "none"}}

Init ==
    /\ flags = "init" /\ break_flag = 0 /\ loop_pc = "start"
    /\ maxfdp = 1 /\ in = {} /\ io_map = {}
    /\ nfds = 0 /\ out = {} /\ todo = {} /\ cur = None
    /\ notices = 0
    /\ state = [w \in Workers |-> "none"] /\ fd_of = [w \in Workers |-> -1]
    /\ data = {} /\ act = [a \in Actors |-> Idle] /\ stop_pc = "no"

(***************************************************************************)
(* The tables.                                                             *)
(***************************************************************************)

\* __trustee_io keeps maxfdp above every descriptor it was given ...
MaxfdpWith(m, fd) == IF m - 1 > fd THEN m ELSE fd + 1

\* ... and __reclaim_io scans down to the highest one still set.
ScanDown(m, set) ==
    LET below == {i \in set : i <= m}
    IN  IF below = {} THEN -1 ELSE CHOOSE i \in below : \A j \in below : j <= i

\* Mutant: the loop is not woken.
NotifyNothing == UNCHANGED notices

\* c->send to the notifier: a full socket drops the datagram.
Notify == notices' = IF notices < NotifierRoom THEN notices + 1 ELSE notices

(***************************************************************************)
(* Actors: what a user of the library may start.                           *)
(***************************************************************************)

IdleActor(w) == act[Owner[w]].pc = "idle" /\ stop_pc = "no"

Begin(w, op, pc) == act' = [act EXCEPT ![Owner[w]] =
                               [pc |-> pc, op |-> op, w |-> w, maxfd |-> 0]]

\* A socket and a worker are made and assign() is called; the system hands
\* out the lowest free descriptor.
OpenSocket(w) ==
    /\ IdleActor(w) /\ state[w] = "none"
    /\ \E fd \in Fds \ Open :
        /\ \A other \in Fds \ Open : fd <= other
        /\ fd_of' = [fd_of EXCEPT ![w] = fd]
    /\ state' = [state EXCEPT ![w] = "made"]
    /\ UNCHANGED <<loopVars, tableVars, data, break_flag, notices, act, stop_pc>>

Enroll(w) ==
    /\ IdleActor(w) /\ state[w] = "made"
    /\ Begin(w, "enroll", "ready")
    /\ UNCHANGED <<loopVars, tableVars, sockVars, break_flag, notices, stop_pc>>

Adjust(w) ==
    /\ IdleActor(w) /\ state[w] \in {"enrolled", "refused"}
    /\ Begin(w, "adjust", "ready")
    /\ UNCHANGED <<loopVars, tableVars, sockVars, break_flag, notices, stop_pc>>

\* Worker, then socket are destroyed; a worker that never enrolled has no
\* producer to resign from.
Destroy(w) ==
    /\ IdleActor(w) /\ state[w] \in {"made", "enrolled", "refused"}
    /\ IF state[w] = "made"
       THEN /\ Begin(w, "resign", "close")
            /\ state' = [state EXCEPT ![w] = "freed"]
       ELSE /\ Begin(w, "resign", "ready")
            /\ state' = [state EXCEPT ![w] = "resigning"]
    /\ UNCHANGED <<loopVars, tableVars, fd_of, data, break_flag, notices, stop_pc>>

(***************************************************************************)
(* Actors: the steps of an operation in progress.                          *)
(***************************************************************************)

At(a, pc)    == act[a].pc = pc
Goto(a, pc)  == act' = [act EXCEPT ![a].pc = pc]
Finish(a)    == act' = [act EXCEPT ![a] = Idle]
Fd(a)        == fd_of[act[a].w]
SetState(a, s) == state' = [state EXCEPT ![act[a].w] = s]

\* __wait_producer_ready and the wait of __train_worker.
Ready(a) ==
    /\ At(a, "ready") /\ flags # "init"
    /\ Goto(a, IF act[a].op = "enroll" THEN "map_add" ELSE "clear")
    /\ UNCHANGED <<loopVars, tableVars, sockVars, break_flag, notices, stop_pc>>

\* ... which gives up after 50 rounds.  __enroll reports success all the same.
GiveUp(a) ==
    /\ At(a, "ready") /\ flags = "init" /\ act[a].op # "adjust"
    /\ IF act[a].op = "enroll"
       THEN SetState(a, "refused") /\ Finish(a)
       ELSE UNCHANGED state /\ Goto(a, "free")
    /\ UNCHANGED <<loopVars, tableVars, fd_of, data, break_flag, notices, stop_pc>>

MapAdd(a) ==
    /\ At(a, "map_add")
    /\ io_map' = io_map \cup {act[a].w}
    /\ Goto(a, "raise")
    /\ UNCHANGED <<loopVars, maxfdp, in, sockVars, break_flag, notices, stop_pc>>

\* __trustee_io, first statement.
RaiseMaxfdp(a) ==
    /\ At(a, "raise")
    /\ maxfdp' = MaxfdpWith(maxfdp, Fd(a))
    /\ Goto(a, "set")
    /\ UNCHANGED <<loopVars, in, io_map, sockVars, break_flag, notices, stop_pc>>

\* __trustee_io, second statement.
FdSet(a) ==
    /\ At(a, "set")
    /\ in' = in \cup {Fd(a)}
    /\ Goto(a, "send")
    /\ UNCHANGED <<loopVars, maxfdp, io_map, sockVars, break_flag, notices, stop_pc>>

\* Mutant: the descriptor stays in the set.
FdNotCleared(a) ==
    /\ At(a, "clear")
    /\ act' = [act EXCEPT ![a] = [@ EXCEPT !.maxfd = maxfdp, !.pc = "scan"]]
    /\ UNCHANGED <<loopVars, tableVars, sockVars, break_flag, notices, stop_pc>>

\* __reclaim_io: maxfdp is read into a local first.
FdClear(a) ==
    /\ At(a, "clear")
    /\ in'  = in \ {Fd(a)}
    /\ act' = [act EXCEPT ![a] = [@ EXCEPT !.maxfd = maxfdp, !.pc = "scan"]]
    /\ UNCHANGED <<loopVars, maxfdp, io_map, sockVars, break_flag, notices, stop_pc>>

Scan(a) ==
    /\ At(a, "scan")
    /\ act' = [act EXCEPT ![a] = [@ EXCEPT !.maxfd = ScanDown(act[a].maxfd, in), !.pc = "lower"]]
    /\ UNCHANGED <<loopVars, tableVars, sockVars, break_flag, notices, stop_pc>>

\* Mutant: the highest descriptor itself, not one more.
LowerTooFar(a) ==
    /\ At(a, "lower")
    /\ maxfdp' = act[a].maxfd
    /\ Goto(a, IF act[a].op = "adjust" THEN "raise" ELSE "map_del")
    /\ UNCHANGED <<loopVars, in, io_map, sockVars, break_flag, notices, stop_pc>>

LowerMaxfdp(a) ==
    /\ At(a, "lower")
    /\ maxfdp' = act[a].maxfd + 1
    /\ Goto(a, IF act[a].op = "adjust" THEN "raise" ELSE "map_del")
    /\ UNCHANGED <<loopVars, in, io_map, sockVars, break_flag, notices, stop_pc>>

\* io_map->del by descriptor.
MapDel(a) ==
    /\ At(a, "map_del")
    /\ io_map' = io_map \ {w \in Workers : fd_of[w] = Fd(a)}
    /\ Goto(a, "send")
    /\ UNCHANGED <<loopVars, maxfdp, in, sockVars, break_flag, notices, stop_pc>>

\* The datagram that makes a blocked select start over.  An enroll then adds
\* the worker to the producer's list and is done.
Send(a) ==
    /\ At(a, "send") /\ Notify
    /\ \/ act[a].op = "enroll" /\ SetState(a, "enrolled") /\ Finish(a)
       \/ act[a].op = "adjust" /\ UNCHANGED state /\ Finish(a)
       \/ act[a].op = "resign" /\ UNCHANGED state /\ Goto(a, "free")
    /\ UNCHANGED <<loopVars, tableVars, fd_of, data, break_flag, stop_pc>>

\* The worker leaves the producer's list and its memory is freed.
Free(a) ==
    /\ At(a, "free")
    /\ SetState(a, "freed")
    /\ Goto(a, "close")
    /\ UNCHANGED <<loopVars, tableVars, fd_of, data, break_flag, notices, stop_pc>>

\* Descriptors the loop has copied or found ready and not yet done with.
Held == (IF loop_pc = "select" THEN out ELSE {}) \cup todo
           \cup (IF cur = None THEN {} ELSE {fd_of[cur]})

\* usleep(1000), then the socket is closed.
Close(a) ==
    /\ At(a, "close")
    /\ SleepSuffices => Fd(a) \notin Held
    /\ data' = data \ {Fd(a)}
    /\ SetState(a, "none")
    /\ Finish(a)
    /\ UNCHANGED <<loopVars, tableVars, fd_of, break_flag, notices, stop_pc>>

Step(a) ==
    \/ Ready(a) \/ GiveUp(a) \/ MapAdd(a) \/ RaiseMaxfdp(a) \/ FdSet(a)
    \/ FdClear(a) \/ Scan(a) \/ LowerMaxfdp(a) \/ MapDel(a) \/ Send(a)
    \/ Free(a) \/ Close(a)

(***************************************************************************)
(* The event thread.                                                       *)
(***************************************************************************)

\* __start_routine up to eb->loop: the notifier is the first event.
Start ==
    /\ loop_pc = "start"
    /\ maxfdp' = MaxfdpWith(maxfdp, NotifierFd) /\ in' = in \cup {NotifierFd}
    /\ flags' = "running" /\ loop_pc' = "check"
    /\ UNCHANGED <<nfds, out, todo, cur, io_map, sockVars, break_flag, notices, act, stop_pc>>

\* while (eb->break_flag != 1), then the first line of __dispatch.
Check ==
    /\ loop_pc = "check" /\ break_flag # 1
    /\ nfds' = maxfdp /\ loop_pc' = "copy"
    /\ UNCHANGED <<flags, out, todo, cur, tableVars, sockVars, break_flag, notices, act, stop_pc>>

Exit ==
    /\ loop_pc = "check" /\ break_flag = 1
    /\ flags' = "destroyed" /\ loop_pc' = "exit"
    /\ UNCHANGED <<nfds, out, todo, cur, tableVars, sockVars, break_flag, notices, act, stop_pc>>

CopySets ==
    /\ loop_pc = "copy"
    /\ out' = in /\ loop_pc' = "select"
    /\ UNCHANGED <<flags, nfds, todo, cur, tableVars, sockVars, break_flag, notices, act, stop_pc>>

Watched == {fd \in out : fd < nfds}
Closed  == Watched \ (Open \cup {NotifierFd})
ReadyFds == {fd \in Watched : fd \in data \/ (fd = NotifierFd /\ notices > 0)}

\* select() looks at its descriptors: a closed one is an error that ends the
\* loop, otherwise the thread sleeps.
SelectEnter ==
    /\ loop_pc = "select"
    /\ IF Closed # {}
       THEN break_flag' = 1 /\ loop_pc' = "check"
       ELSE loop_pc' = "blocked" /\ UNCHANGED break_flag
    /\ UNCHANGED <<flags, nfds, out, todo, cur, tableVars, sockVars, notices, act, stop_pc>>

SelectReturn ==
    /\ loop_pc = "blocked" /\ ReadyFds # {}
    /\ todo' = ReadyFds /\ loop_pc' = "dispatch"
    /\ UNCHANGED <<flags, nfds, out, cur, tableVars, sockVars, break_flag, notices, act, stop_pc>>

\* EINTR: back to the top of the loop.  The system reports a signal only when
\* no descriptor is ready.
SelectInterrupted ==
    /\ loop_pc = "blocked" /\ ReadyFds = {}
    /\ loop_pc' = "check"
    /\ UNCHANGED <<flags, nfds, out, todo, cur, tableVars, sockVars, break_flag, notices, act, stop_pc>>

\* __activate_io for one ready descriptor.  The scan starts at a random place;
\* the order of the visits is left open.  A descriptor not in io_map is
\* skipped; the notifier's callback takes one datagram.
Activate(fd) ==
    /\ loop_pc = "dispatch" /\ cur = None /\ fd \in todo
    /\ IF fd = NotifierFd
       THEN notices' = notices - 1 /\ UNCHANGED cur
       ELSE /\ UNCHANGED notices
            /\ LET found == {w \in io_map : fd_of[w] = fd}
               IN  IF found = {} THEN UNCHANGED cur ELSE cur' \in found
    /\ todo' = todo \ {fd}
    /\ UNCHANGED <<flags, nfds, out, loop_pc, tableVars, sockVars, break_flag, act, stop_pc>>

\* The worker's callback receives what there is and returns.
CallbackReturns ==
    /\ cur # None
    /\ data' = data \ {fd_of[cur]} /\ cur' = None
    /\ UNCHANGED <<flags, nfds, out, todo, loop_pc, tableVars, state, fd_of, break_flag,
                   notices, act, stop_pc>>

DispatchDone ==
    /\ loop_pc = "dispatch" /\ cur = None /\ todo = {}
    /\ loop_pc' = "check"
    /\ UNCHANGED <<flags, nfds, out, todo, cur, tableVars, sockVars, break_flag, notices, act, stop_pc>>

Loop ==
    \/ Start \/ Check \/ Exit \/ CopySets \/ SelectEnter \/ SelectReturn
    \/ (\E fd \in Fds \cup {NotifierFd} : Activate(fd))
    \/ CallbackReturns \/ DispatchDone

(***************************************************************************)
(* The environment, and the end of the process.                            *)
(***************************************************************************)

\* The peer of an open socket sends.
Arrive(w) ==
    /\ state[w] # "none" /\ fd_of[w] \notin data
    /\ data' = data \cup {fd_of[w]}
    /\ UNCHANGED <<loopVars, tableVars, state, fd_of, break_flag, notices, act, stop_pc>>

\* __stop, first statement, once the loop runs and the users are done.
StopFlag ==
    /\ stop_pc = "no" /\ flags # "init" /\ \A a \in Actors : At(a, "idle")
    /\ break_flag' = 1 /\ stop_pc' = "flagged"
    /\ UNCHANGED <<loopVars, tableVars, sockVars, notices, act>>

\* Mutant: __stop sets the flag and wakes nobody.
StopQuietly ==
    /\ stop_pc = "flagged"
    /\ stop_pc' = "waiting"
    /\ UNCHANGED <<loopVars, tableVars, sockVars, break_flag, notices, act>>

\* __stop, the wake-up.
StopSend ==
    /\ stop_pc = "flagged" /\ Notify
    /\ stop_pc' = "waiting"
    /\ UNCHANGED <<loopVars, tableVars, sockVars, break_flag, act>>

\* The wait for DESTROYED, then __deconstrcut takes the notifier out.
StopDone ==
    /\ stop_pc = "waiting" /\ flags = "destroyed"
    /\ in' = in \ {NotifierFd} /\ maxfdp' = ScanDown(maxfdp, in') + 1
    /\ stop_pc' = "done"
    /\ UNCHANGED <<loopVars, io_map, sockVars, break_flag, notices, act>>

\* The process has ended; nothing is left to happen.
Terminated == stop_pc = "done" /\ UNCHANGED vars

Next ==
    \/ \E w \in Workers : OpenSocket(w) \/ Enroll(w) \/ Adjust(w) \/ Destroy(w) \/ Arrive(w)
    \/ \E a \in Actors : Step(a)
    \/ Loop \/ SelectInterrupted \/ StopFlag \/ StopSend \/ StopDone \/ Terminated

\* Threads that are not blocked run: the event thread, and an actor inside an
\* operation.  Nobody has to start an operation, send data or stop.
Fairness ==
    /\ WF_vars(Loop)
    /\ \A a \in Actors : WF_vars(Step(a))
    /\ WF_vars(StopSend) /\ WF_vars(StopDone)

Spec     == Init /\ [][Next]_vars
FairSpec == Spec /\ Fairness

-----------------------------------------------------------------------------
Busy(w) == act[Owner[w]].w = w

\* Where an actor can be.
Statements == {"idle", "ready", "map_add", "raise", "set", "clear", "scan", "lower", "map_del",
               "send", "free", "close"}

\* Type invariant: the loop's tables hold known descriptors and workers, and
\* every actor is at a statement of the operation it runs.
TypeOK ==
    /\ flags \in {"init", "running", "destroyed"} /\ break_flag \in {0, 1}
    /\ maxfdp \in Nat /\ nfds \in Nat
    /\ in \subseteq Fds \cup {NotifierFd} /\ out \subseteq Fds \cup {NotifierFd}
    /\ todo \subseteq Fds \cup {NotifierFd} /\ data \subseteq Fds
    /\ io_map \subseteq Workers /\ cur \in Workers \cup {None}
    /\ notices \in 0 .. NotifierRoom
    /\ state \in [Workers -> {"none", "made", "enrolled", "refused", "resigning", "freed"}]
    /\ fd_of \in [Workers -> Fds \cup {-1}]
    /\ act \in [Actors -> [pc : Statements, op : {"none", "enroll", "adjust", "resign"},
                          w : Workers \cup {None}, maxfd : Int]]
    /\ loop_pc \in {"start", "check", "copy", "select", "blocked", "dispatch", "exit"}
    /\ stop_pc \in {"no", "flagged", "waiting", "done"}

\* A select never sleeps through an enrolment: when it blocks, every worker
\* that is enrolled and not being changed is among the descriptors watched,
\* or a datagram is waiting that will make the loop look again.
NoMissedWakeup ==
    loop_pc = "blocked" =>
        \A w \in Workers : state[w] = "enrolled" /\ ~Busy(w) =>
            fd_of[w] \in Watched \/ notices > 0

\* The event thread ends only because it was told to: no descriptor that
\* select rejects ever reaches it.
LoopEndsOnlyOnStop == flags = "destroyed" => stop_pc # "no"

\* A callback that receives finds data, so the receive of a blocking socket
\* cannot stall the event thread: readiness is never stale when it is used.
CallbackHasData == cur # None => fd_of[cur] \in data

\* No descriptor is used after it was closed, by select or by a callback, and
\* none is served with the readiness of one that had its number before; types
\* included.
NoStaleDescriptor == TypeOK /\ LoopEndsOnlyOnStop /\ CallbackHasData

\* The memory of a worker is not freed under its own running callback.
WorkerOutlivesCallback == cur # None => state[cur] # "freed"

\* Data for an enrolled worker is received in the end: it never lies there
\* forever while the worker stays enrolled and nobody adjusts or destroys it.
\* (A user who adjusts it without end can keep it out of every round.)
DataIsReceived ==
    \A w \in Workers :
        []<>~(/\ state[w] = "enrolled" /\ ~Busy(w) /\ fd_of[w] \in data
              /\ stop_pc = "no")

\* producer_destroy_default_instance does not wait forever: a stop ends the
\* loop even when it finds it on its way into select.
StopCompletes == (stop_pc = "flagged") ~> (stop_pc = "done")
=============================================================================
