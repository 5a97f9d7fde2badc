-------------------------------- MODULE Bus --------------------------------
(***************************************************************************)
(* The remote procedure calls of src/net/bus: processes with a bus_t       *)
(* (bus.c) add objects at the daemon (busd.c), look objects up and invoke  *)
(* their methods through it.                                               *)
(*                                                                         *)
(* A connection carries whole frames, in order; how frames are cut out of  *)
(* the byte stream is the subject of BusReceive. A handler runs to its end *)
(* on its event thread. Each object has one method, which answers once, so *)
(* the request key object@method is the object. User threads keep to what  *)
(* bus.c needs of them: one outstanding request per key, a lookup alone    *)
(* (its key lives in the buffer its answer overwrites), no request while   *)
(* off line, and the blob in one thread at a time.                         *)
(***************************************************************************)
EXTENDS Integers, SequencesExt

CONSTANTS
    Buses,         \* processes with a bus_t
    Objects,       \* object ids
    Serves,        \* the objects each bus adds
    Calls,         \* the requests user threads make, each once
    Caller,        \* the bus a call is made on
    Target,        \* the object it names
    Kind,          \* "invoke" (bus_invoke_sync), "async" or "lookup"
    NoPing,        \* the buses with bus_object_no_ping_flag set
    MayCrash,      \* the buses whose process may die and be started again
    Overlap,       \* whether the end of a dead process's connection may be
                   \* read after frames of the process that took its place
    Fds,           \* descriptors of the daemon
    MaxFailures,   \* bound: crashes in a behaviour
    None

ASSUME ShapeAssumption ==
    /\ Serves \in [Buses -> SUBSET Objects] /\ Caller \in [Calls -> Buses]
    /\ Target \in [Calls -> Objects] /\ Kind \in [Calls -> {"invoke", "async", "lookup"}]
    /\ MayCrash \subseteq Buses /\ NoPing \subseteq Buses /\ Overlap \in BOOLEAN
    /\ Fds \subseteq Nat \ {0} /\ MaxFailures \in Nat
    /\ None \notin Calls \cup Objects

VARIABLES
    conns,     \* every connection ever made, see Conn
    obj_map,   \* the daemon's registry, oldest node first, see Node
    busd_up,   \* the daemon runs
    link,      \* per bus: the connection of bus->client, 0 for none
    blob,      \* per bus: what the first table of bus->blob says of object_id
    objs,      \* per bus: bus->obj_map
    added,     \* per bus: bus_object_added_flag
    offline,   \* per bus: bus_object_off_line_flag
    req_map,   \* per bus: the calls whose request is in bus->req_map
    call,      \* per call: "new", "waiting", "answered", "done" or "dead"
    got,       \* per call: the call whose answer it was given
    failures,  \* crashes so far
    lost       \* frames were thrown away with a cache

busVars  == <<link, blob, objs, added, offline, req_map, call, got>>
busdVars == <<obj_map, busd_up>>
vars     == <<conns, busdVars, busVars, failures, lost>>

NoId == "table without object_id"

Frame == [t : {"add", "add_reply", "lookup", "lookup_reply", "invoke", "forward",
               "forward_reply", "reply", "ping", "pong", "eof"},
          o : Objects \cup {None, NoId}, c : Calls \cup {None}, fd : Fds \cup {0}]
Msg(t, o, c, fd) == [t |-> t, o |-> o, c |-> c, fd |-> fd]
Eof == Msg("eof", None, None, 0)

\* up and down hold the frames in flight to the daemon and to the bus; busd
\* and peer say whether the daemon's and the bus's end are open; acked is the
\* objects whose addition the daemon confirmed on this connection.
Conn == [bus : Buses, fd : Fds, up : Seq(Frame), down : Seq(Frame),
         busd : BOOLEAN, peer : BOOLEAN, acked : SUBSET Objects]

\* A node of the registry: its key, obj->fd, whether obj is still allocated,
\* and whether rotations may have put it above an older node of equal key.
Node == [o : Objects, fd : Fds, live : BOOLEAN, over : BOOLEAN]

Init ==
    /\ conns = << >> /\ obj_map = << >> /\ busd_up = TRUE
    /\ link = [b \in Buses |-> 0] /\ blob = [b \in Buses |-> None]
    /\ objs = [b \in Buses |-> {}]
    /\ added = [b \in Buses |-> FALSE] /\ offline = [b \in Buses |-> FALSE]
    /\ req_map = [b \in Buses |-> {}]
    /\ call = [c \in Calls |-> "new"] /\ got = [c \in Calls |-> None]
    /\ failures = 0 /\ lost = FALSE

(***************************************************************************)
(* Sending and receiving.                                                  *)
(***************************************************************************)

\* bus_send on connection k, and send(fd, ...) in the daemon.  Nobody looks
\* at what became of a frame whose reader is gone.
UpTo(cn, k, f) ==
    IF cn[k].busd THEN [cn EXCEPT ![k].up = Append(@, f)] ELSE cn
DownTo(cn, fd, f) ==
    [k \in DOMAIN cn |->
        IF cn[k].busd /\ cn[k].peer /\ cn[k].fd = fd
        THEN [cn[k] EXCEPT !.down = Append(@, f)] ELSE cn[k]]

\* The connections without the frame at the head of one queue.
TakeUp(k)   == [conns EXCEPT ![k].up = Tail(@)]
TakeDown(k) == [conns EXCEPT ![k].down = Tail(@)]

\* An error from a handler throws away the frames received behind it: how
\* many of those in flight they are is up to the network.
Received(queue) == {n \in 0 .. Len(queue) : \A i \in 1 .. n : queue[i].t # "eof"}
DropUp(cn, k, n)   == [cn EXCEPT ![k].up = SubSeq(@, n + 1, Len(@))]
DropDown(cn, k, n) == [cn EXCEPT ![k].down = SubSeq(@, n + 1, Len(@))]

(***************************************************************************)
(* A bus process: what its user and its timer start.                       *)
(***************************************************************************)

OpenFds == {conns[k].fd : k \in {i \in DOMAIN conns : conns[i].busd}}

\* accept hands out the lowest free descriptor.
NewConns(b) ==
    {Append(conns, [bus |-> b, fd |-> fd, up |-> << >>, down |-> << >>,
                    busd |-> TRUE, peer |-> TRUE, acked |-> {}]) :
        fd \in {g \in Fds \ OpenFds : \A h \in Fds \ OpenFds : g <= h}}

\* The daemon has read all that a former process of b sent.  With Overlap the
\* end of that connection may be outstanding: a select round reads one chunk
\* per descriptor and visits the descriptors in any order, so the end behind a
\* last chunk competes with the first frames of the next connection.
FormerRead(b) ==
    \A k \in DOMAIN conns : conns[k].bus = b /\ conns[k].busd =>
        Overlap /\ conns[k].up = <<Eof>>

\* bus_create.
Create(b) ==
    /\ link[b] = 0 /\ ~offline[b] /\ busd_up /\ FormerRead(b)
    /\ conns' \in NewConns(b)
    /\ link' = [link EXCEPT ![b] = Len(conns) + 1]
    /\ UNCHANGED <<busdVars, blob, objs, added, offline, req_map, call, got, failures, lost>>

\* bus_add_object.
AddObject(b, o) ==
    /\ link[b] # 0 /\ o \in Serves[b] \ objs[b]
    /\ conns' = UpTo(conns, link[b], Msg("add", o, None, 0))
    /\ objs'  = [objs EXCEPT ![b] = @ \cup {o}]
    /\ blob'  = [blob EXCEPT ![b] = o]
    /\ UNCHANGED <<busdVars, link, added, offline, req_map, call, got, failures, lost>>

\* The object a request names.  bus_invoke resets the blob; bus_lookup does
\* not, so its table goes behind one already there, and the first is sent.
Named(c) ==
    IF Kind[c] = "lookup" /\ blob[Caller[c]] # None THEN blob[Caller[c]] ELSE Target[c]

SameKey(c, d) == Target[c] = Target[d] /\ (Kind[c] = "lookup") = (Kind[d] = "lookup")

MayStart(c) ==
    LET pending == req_map[Caller[c]]
    IN  /\ \A d \in pending : ~SameKey(c, d) /\ Kind[d] # "lookup"
        /\ Kind[c] = "lookup" => pending = {}

\* bus_invoke_sync, bus_invoke_async and bus_lookup_sync up to the wait.
StartCall(c) ==
    LET b == Caller[c]
        t == IF Kind[c] = "lookup" THEN "lookup" ELSE "invoke"
    IN  /\ link[b] # 0 /\ call[c] = "new" /\ MayStart(c)
        /\ req_map' = [req_map EXCEPT ![b] = @ \cup {c}]
        /\ conns'   = UpTo(conns, link[b], Msg(t, Named(c), c, 0))
        /\ blob'    = [blob EXCEPT ![b] = Named(c)]
        /\ call'    = [call EXCEPT ![c] = "waiting"]
        /\ UNCHANGED <<busdVars, link, objs, added, offline, got, failures, lost>>

\* The waiting thread sees req->state change and takes its request out.
Return(c) ==
    /\ call[c] = "answered"
    /\ req_map' = [req_map EXCEPT ![Caller[c]] = @ \ {c}]
    /\ call'    = [call EXCEPT ![c] = "done"]
    /\ UNCHANGED <<conns, busdVars, link, blob, objs, added, offline, got, failures, lost>>

\* bus_timer_callback, on line.  Only a ping on a quiet connection is shown.
Ping(b) ==
    /\ b \notin NoPing /\ link[b] # 0 /\ ~offline[b] /\ conns[link[b]].busd
    /\ conns[link[b]].up = << >> /\ conns[link[b]].down = << >>
    /\ conns' = UpTo(conns, link[b], Msg("ping", NoId, None, 0))
    /\ blob'  = [blob EXCEPT ![b] = NoId]
    /\ UNCHANGED <<busdVars, link, objs, added, offline, req_map, call, got, failures, lost>>

\* Mutant: a new connection, and nothing is added on it.
ReconnectOnly(b) ==
    /\ offline[b] /\ busd_up
    /\ conns'   \in NewConns(b)
    /\ link'    = [link EXCEPT ![b] = Len(conns) + 1]
    /\ offline' = [offline EXCEPT ![b] = FALSE]
    /\ UNCHANGED <<busdVars, blob, objs, added, req_map, call, got, failures, lost>>

\* bus_timer_callback, off line: connect and add every object again.  While
\* the daemon is down the connect fails and the timer tries again.
Reconnect(b) ==
    /\ offline[b] /\ busd_up
    /\ \E cn \in NewConns(b), s \in SetToSeqs(objs[b]) :
        /\ conns' = [cn EXCEPT ![Len(cn)].up =
                        [i \in DOMAIN s |-> Msg("add", s[i], None, 0)]]
        /\ blob'  = [blob EXCEPT ![b] = IF s = << >> THEN @ ELSE Last(s)]
    /\ link'    = [link EXCEPT ![b] = Len(conns) + 1]
    /\ offline' = [offline EXCEPT ![b] = FALSE]
    /\ UNCHANGED <<busdVars, objs, added, req_map, call, got, failures, lost>>

(***************************************************************************)
(* A bus process: bus_process_receiving_data_callback and its handlers.    *)
(***************************************************************************)

\* The frame at the head of what came down connection k of bus b.
Gets(b, k, t) ==
    /\ k = link[b] /\ k # 0 /\ conns[k].down # << >> /\ Head(conns[k].down).t = t

BusAddReply(b, k) ==
    LET f == Head(conns[k].down)
    IN  /\ Gets(b, k, "add_reply")
        /\ conns' = [TakeDown(k) EXCEPT ![k].acked = @ \cup {f.o}]
        /\ added' = [added EXCEPT ![b] = TRUE]
        /\ UNCHANGED <<busdVars, link, blob, objs, offline, req_map, call, got, failures, lost>>

\* A reply nobody waits for is an error here.
BusLookupReply(b, k) ==
    LET f    == Head(conns[k].down)
        reqs == {c \in req_map[b] : Kind[c] = "lookup" /\ Target[c] = f.o}
    IN  /\ Gets(b, k, "lookup_reply")
        /\ IF reqs = {}
           THEN \E n \in Received(TakeDown(k)[k].down) :
                  /\ conns' = DropDown(TakeDown(k), k, n)
                  /\ lost'  = (lost \/ n > 0)
                  /\ UNCHANGED <<call, got>>
           ELSE \E c \in reqs :
                  /\ call' = [call EXCEPT ![c] = "answered"]
                  /\ got'  = [got EXCEPT ![c] = f.c]
                  /\ conns' = TakeDown(k)
                  /\ UNCHANGED lost
        /\ UNCHANGED <<busdVars, link, blob, objs, added, offline, req_map, failures>>

\* Mutant: the method's name is not part of the search.
AnyRequest(b, o) == {c \in req_map[b] : Kind[c] # "lookup"}

\* The requests bus_handle_invoke_reply finds under object@method.
Requests(b, o) == {c \in req_map[b] : Kind[c] # "lookup" /\ Target[c] = o}

\* A reply nobody waits for is ignored.  The callback of an asynchronous
\* request takes it out of the map and frees it.
BusReply(b, k) ==
    LET f    == Head(conns[k].down)
        reqs == Requests(b, f.o)
    IN  /\ Gets(b, k, "reply")
        /\ IF reqs = {} THEN UNCHANGED <<req_map, call, got>>
           ELSE \E c \in reqs :
                  /\ got' = [got EXCEPT ![c] = f.c]
                  /\ IF Kind[c] = "invoke"
                     THEN /\ call' = [call EXCEPT ![c] = "answered"]
                          /\ UNCHANGED req_map
                     ELSE /\ call'    = [call EXCEPT ![c] = "done"]
                          /\ req_map' = [req_map EXCEPT ![b] = @ \ {c}]
        /\ conns' = TakeDown(k)
        /\ UNCHANGED <<busdVars, link, blob, objs, added, offline, failures, lost>>

\* The method is called and its result sent back with the caller's fd.
BusForward(b, k) ==
    LET f == Head(conns[k].down)
    IN  /\ Gets(b, k, "forward")
        /\ IF f.o \in objs[b]
           THEN /\ conns' = UpTo(TakeDown(k), k, Msg("forward_reply", f.o, f.c, f.fd))
                /\ blob'  = [blob EXCEPT ![b] = f.o]
           ELSE conns' = TakeDown(k) /\ UNCHANGED blob
        /\ UNCHANGED <<busdVars, link, objs, added, offline, req_map, call, got, failures, lost>>

BusPong(b, k) ==
    /\ Gets(b, k, "pong")
    /\ conns'   = TakeDown(k)
    /\ offline' = [offline EXCEPT ![b] = FALSE]
    /\ UNCHANGED <<busdVars, link, blob, objs, added, req_map, call, got, failures, lost>>

\* The connection is gone.  A bus that has no confirmed object does nothing
\* about it, ever; any other destroys its client and waits for the timer.
BusEof(b, k) ==
    /\ Gets(b, k, "eof") /\ added[b]
    /\ conns'   = [TakeDown(k) EXCEPT ![k].peer = FALSE]
    /\ link'    = [link EXCEPT ![b] = 0]
    /\ offline' = [offline EXCEPT ![b] = TRUE]
    /\ UNCHANGED <<busdVars, blob, objs, added, req_map, call, got, failures, lost>>

BusCallback(b) ==
    \E k \in DOMAIN conns :
        \/ BusAddReply(b, k) \/ BusLookupReply(b, k) \/ BusReply(b, k)
        \/ BusForward(b, k) \/ BusPong(b, k) \/ BusEof(b, k)

(***************************************************************************)
(* The daemon: busd_process_receiving_data_callback and its handlers.      *)
(***************************************************************************)

\* The frame at the head of what came up connection k.
Comes(k, t) ==
    conns[k].busd /\ conns[k].up # << >> /\ Head(conns[k].up).t = t

\* Where map->search may end: the map keeps nodes of equal key, newer ones to
\* the left of older ones, and finds the one nearest the root.
Found(o) ==
    {i \in DOMAIN obj_map :
        /\ obj_map[i].o = o
        /\ obj_map[i].over \/ \A j \in 1 .. (i - 1) : obj_map[j].o # o}

\* map->add.  With fewer than two nodes above it no rotation follows.
BusdAdd(k) ==
    LET f == Head(conns[k].up)
    IN  /\ Comes(k, "add")
        /\ obj_map' = Append(obj_map, [o |-> f.o, fd |-> conns[k].fd, live |-> TRUE,
                                       over |-> Len(obj_map) > 1])
        /\ conns'   = DownTo(TakeUp(k), conns[k].fd, Msg("add_reply", f.o, None, 0))
        /\ UNCHANGED <<busd_up, busVars, failures, lost>>

\* An object that is not there is not answered for.  Without an object_id the
\* handler uses what tb[] held before: an error, or an object not there.
BusdLookup(k) ==
    LET f == Head(conns[k].up)
    IN  /\ Comes(k, "lookup")
        /\ \/ /\ f.o # NoId
              /\ conns' = IF Found(f.o) = {} THEN TakeUp(k)
                          ELSE DownTo(TakeUp(k), conns[k].fd, Msg("lookup_reply", f.o, f.c, 0))
              /\ UNCHANGED lost
           \/ /\ f.o = NoId
              /\ \E n \in Received(TakeUp(k)[k].up) :
                    /\ conns' = DropUp(TakeUp(k), k, n)
                    /\ lost'  = (lost \/ n > 0)
        /\ UNCHANGED <<busdVars, busVars, failures>>

\* Mutant: the caller of an unknown object is not told.
BusdInvokeSilent(k) ==
    LET f == Head(conns[k].up)
    IN  /\ Comes(k, "invoke")
        /\ \/ /\ Found(f.o) = {}
              /\ conns' = TakeUp(k)
           \/ \E i \in Found(f.o) :
                conns' = DownTo(TakeUp(k), obj_map[i].fd, Msg("forward", f.o, f.c, conns[k].fd))
        /\ UNCHANGED <<busdVars, busVars, failures, lost>>

\* busd_handle_invoke_method: forward, or answer for an unknown object and
\* return the error that drops the cache.  A freed obj says any fd.
BusdInvoke(k) ==
    LET f == Head(conns[k].up)
    IN  /\ Comes(k, "invoke")
        /\ \/ /\ Found(f.o) = {}
              /\ \E n \in Received(TakeUp(k)[k].up) :
                    /\ conns' = DownTo(DropUp(TakeUp(k), k, n), conns[k].fd,
                                       Msg("reply", f.o, f.c, 0))
                    /\ lost'  = (lost \/ n > 0)
           \/ /\ \E i \in Found(f.o), fd \in Fds :
                    /\ obj_map[i].live => fd = obj_map[i].fd
                    /\ conns' = DownTo(TakeUp(k), fd, Msg("forward", f.o, f.c, conns[k].fd))
              /\ UNCHANGED lost
        /\ UNCHANGED <<busdVars, busVars, failures>>

\* busd_handle_forward_invoke_reply: to whoever has the caller's fd now.
BusdForwardReply(k) ==
    LET f == Head(conns[k].up)
    IN  /\ Comes(k, "forward_reply")
        /\ conns' = DownTo(TakeUp(k), f.fd, Msg("reply", f.o, f.c, 0))
        /\ UNCHANGED <<busdVars, busVars, failures, lost>>

BusdPing(k) ==
    /\ Comes(k, "ping")
    /\ conns' = DownTo(TakeUp(k), conns[k].fd, Msg("pong", None, None, 0))
    /\ UNCHANGED <<busdVars, busVars, failures, lost>>

\* Mutant: the end of a connection releases everything.
ReleaseEverything(fd) == obj_map' = << >>

\* busd_release_bus_object: for every object of this fd, the node the map
\* finds under its id is removed, and the object itself is freed.
Release(fd) ==
    LET of   == {i \in DOMAIN obj_map : obj_map[i].live /\ obj_map[i].fd = fd}
        keys == {obj_map[i].o : i \in of}
        node(i) == IF i \in of THEN [obj_map[i] EXCEPT !.live = FALSE] ELSE obj_map[i]
    IN  \E pick \in [keys -> DOMAIN obj_map] :
            /\ \A o \in keys : pick[o] \in Found(o)
            /\ \E left \in SetToSeqs(DOMAIN obj_map \ {pick[o] : o \in keys}) :
                  /\ \A i, j \in DOMAIN left : i < j => left[i] < left[j]
                  /\ obj_map' = [i \in DOMAIN left |-> node(left[i])]

\* recv returned 0: the objects go, then the server closes the descriptor.
BusdEof(k) ==
    /\ Comes(k, "eof")
    /\ Release(conns[k].fd)
    /\ conns' = [TakeUp(k) EXCEPT ![k].busd = FALSE]
    /\ UNCHANGED <<busd_up, busVars, failures, lost>>

BusdCallback(k) ==
    \/ BusdAdd(k) \/ BusdLookup(k) \/ BusdInvoke(k) \/ BusdForwardReply(k)
    \/ BusdPing(k) \/ BusdEof(k)

(***************************************************************************)
(* Failures.                                                               *)
(***************************************************************************)

\* The process of b dies: its end of the connection closes, its state is
\* gone and its callers with it.  It may be started again.
Crash(b) ==
    /\ b \in MayCrash /\ link[b] # 0 /\ failures < MaxFailures
    /\ failures' = failures + 1
    /\ conns' = [UpTo(conns, link[b], Eof) EXCEPT ![link[b]] =
                    [@ EXCEPT !.down = << >>, !.peer = FALSE]]
    /\ link'    = [link EXCEPT ![b] = 0] /\ blob' = [blob EXCEPT ![b] = None]
    /\ objs'    = [objs EXCEPT ![b] = {}] /\ added' = [added EXCEPT ![b] = FALSE]
    /\ req_map' = [req_map EXCEPT ![b] = {}]
    /\ call'    = [c \in Calls |->
                     IF Caller[c] = b /\ call[c] \in {"waiting", "answered"}
                     THEN "dead" ELSE call[c]]
    /\ UNCHANGED <<busdVars, offline, got, lost>>

\* The daemon dies: every connection ends, the registry is gone.
BusdCrash ==
    /\ busd_up /\ failures < MaxFailures
    /\ failures' = failures + 1
    /\ busd_up' = FALSE /\ obj_map' = << >>
    /\ conns' = [k \in DOMAIN conns |->
                   [conns[k] EXCEPT !.busd = FALSE, !.up = << >>,
                        !.down = IF conns[k].busd /\ conns[k].peer THEN Append(@, Eof) ELSE @]]
    /\ UNCHANGED <<busVars, lost>>

BusdStart ==
    /\ ~busd_up
    /\ busd_up' = TRUE
    /\ UNCHANGED <<conns, obj_map, busVars, failures, lost>>

Next ==
    \/ \E b \in Buses :
          \/ Create(b) \/ Ping(b) \/ Reconnect(b) \/ BusCallback(b) \/ Crash(b)
          \/ \E o \in Objects : AddObject(b, o)
    \/ \E c \in Calls : StartCall(c) \/ Return(c)
    \/ \E k \in DOMAIN conns : BusdCallback(k)
    \/ BusdCrash \/ BusdStart

\* The event threads run their callbacks for readable connections, the timer
\* of an off-line bus fires and a waiting thread sees its answer.  Nobody has
\* to call, add, ping, crash, or start the daemon again.
Fairness ==
    /\ \A b \in Buses : WF_vars(BusCallback(b)) /\ WF_vars(Reconnect(b))
    /\ \A c \in Calls : WF_vars(Return(c))
    /\ \A k \in 1 .. (2 * Cardinality(Buses) * (MaxFailures + 1)) :
          WF_vars(k \in DOMAIN conns /\ BusdCallback(k))

Spec     == Init /\ [][Next]_vars
FairSpec == Spec /\ Fairness

-----------------------------------------------------------------------------
\* Type invariant: every link, node and request refers to something there is.
TypeOK ==
    /\ conns \in Seq(Conn) /\ obj_map \in Seq(Node) /\ busd_up \in BOOLEAN
    /\ link \in [Buses -> 0 .. Len(conns)]
    /\ blob \in [Buses -> Objects \cup {None, NoId}]
    /\ objs \in [Buses -> SUBSET Objects]
    /\ added \in [Buses -> BOOLEAN] /\ offline \in [Buses -> BOOLEAN]
    /\ req_map \in [Buses -> SUBSET Calls]
    /\ call \in [Calls -> {"new", "waiting", "answered", "done", "dead"}]
    /\ got \in [Calls -> Calls \cup {None}]
    /\ failures \in 0 .. MaxFailures /\ lost \in BOOLEAN

RegisteredOn(k, o) ==
    \E i \in DOMAIN obj_map :
        obj_map[i].o = o /\ obj_map[i].live /\ obj_map[i].fd = conns[k].fd

\* The registry never routes to a closed descriptor, a reused one or a freed
\* object: every node belongs to an open connection of a bus that serves it.
NoStaleNode ==
    \A i \in DOMAIN obj_map :
        /\ obj_map[i].live
        /\ \E k \in DOMAIN conns : /\ conns[k].busd /\ conns[k].fd = obj_map[i].fd
                                   /\ obj_map[i].o \in Serves[conns[k].bus]

\* An object whose addition was confirmed stays registered for as long as its
\* connection is open: the end of one connection releases the objects of that
\* connection and no others.
RegisteredWhileServing ==
    \A k \in DOMAIN conns : conns[k].busd /\ conns[k].peer =>
        \A o \in conns[k].acked : RegisteredOn(k, o)

\* The registry is exactly what it should be: it holds what is served, on the
\* connection it is served on, and nothing of connections that have ended;
\* types included.
RegistrySound == TypeOK /\ NoStaleNode /\ RegisteredWhileServing

\* A caller gets the answer to its own request: routed by descriptor in the
\* daemon and by object@method in the bus, never another call's.
OwnReply == \A c \in Calls : got[c] \in {None, c}

\* bus_invoke_sync returns and the callback of bus_invoke_async is called,
\* also for an unknown object, unless something crashed or frames were thrown
\* away with a cache.
CallReturns ==
    \A c \in Calls : Kind[c] # "lookup" =>
        (call[c] = "waiting") ~> (call[c] # "waiting" \/ failures > 0 \/ lost)

\* A bus with a confirmed object recovers from a crash of the daemon: once the
\* daemon stays up all its objects are registered again, unless an add frame
\* was thrown away with a cache.
EventuallyServed ==
    \A b \in Buses :
        <>[](busd_up /\ added[b]) =>
            <>[](lost \/ (link[b] # 0 /\ \A o \in objs[b] : RegisteredOn(link[b], o)))
=============================================================================
