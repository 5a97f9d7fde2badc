----------------------------- MODULE BusProofs -----------------------------
(***************************************************************************)
(* Proofs about Bus: a caller gets the answer to its own request, and the  *)
(* daemon's registry is what it should be.                                 *)
(***************************************************************************)
EXTENDS Bus, FiniteSetTheorems, SequenceTheorems, TLAPS

\* Hypotheses of the theorems.  A process that calls does not die: the daemon
\* knows a caller by its descriptor, and gives that to another process.
CallersStay == \A c \in Calls : Caller[c] \notin MayCrash

\* No object is served by two buses.
ObjectsApart == \A a, b \in Buses : a # b => Serves[a] \cap Serves[b] = {}

-----------------------------------------------------------------------------
\* The two queues of a connection, and the frames in one of them.
Dirs == {"up", "down"}
Queue(r, d) == IF d = "up" THEN r.up ELSE r.down
InFlight(cn, k, d) == ToSet(Queue(cn[k], d))

\* No call is named twice in a queue, no object is added twice in it.
Once(q) == \A i, j \in DOMAIN q : q[i].c = q[j].c /\ q[i].c # None => i = j
AddsOnce(q) ==
    \A i, j \in DOMAIN q :
        q[i].t = "add" /\ q[j].t = "add" /\ q[i].o = q[j].o => i = j

(***************************************************************************)
(* What holds without hypotheses: descriptors in use are distinct, frames  *)
(* say what their receiver relies on, and a client is its bus's.           *)
(***************************************************************************)
IsConns(cn) == cn \in Seq(Conn)
FdsApart(cn) ==
    \A k, l \in DOMAIN cn : cn[k].busd /\ cn[l].busd /\ cn[k].fd = cn[l].fd => k = l

FrameOK(r, d, f) ==
    /\ f.t = "add" => f.o \in Serves[r.bus]
    /\ f.t = "add_reply" => f.o \in Objects
    /\ f.t = "eof" => IF d = "up" THEN r.bus \in MayCrash ELSE ~r.busd
FramesOK(cn) ==
    \A k \in DOMAIN cn, d \in Dirs : \A f \in InFlight(cn, k, d) : FrameOK(cn[k], d, f)
Sound(cn) == IsConns(cn) /\ FdsApart(cn) /\ FramesOK(cn)

LinksOwn(cn, lk) == \A b \in Buses : lk[b] # 0 => lk[b] \in DOMAIN cn /\ cn[lk[b]].bus = b
Shape ==
    /\ busd_up \in BOOLEAN /\ link \in [Buses -> Nat]
    /\ blob \in [Buses -> Objects \cup {None, NoId}]
    /\ objs \in [Buses -> SUBSET Objects]
    /\ \A b \in Buses : objs[b] \subseteq Serves[b] /\ IsFiniteSet(objs[b])
    /\ added \in [Buses -> BOOLEAN] /\ offline \in [Buses -> BOOLEAN]
    /\ req_map \in [Buses -> SUBSET Calls]
    /\ call \in [Calls -> {"new", "waiting", "answered", "done", "dead"}]
    /\ got \in [Calls -> Calls \cup {None}]
    /\ failures \in 0 .. MaxFailures /\ lost \in BOOLEAN
IsNodes(om) == om \in Seq(Node)
Base == Shape /\ IsNodes(obj_map) /\ Sound(conns) /\ LinksOwn(conns, link)

(***************************************************************************)
(* What OwnReply rests on: a call is named by at most one frame, anywhere, *)
(* and by none once it is answered; a frame that names a call is on its    *)
(* way between the call's bus and the service, and knows its way back.     *)
(***************************************************************************)
NamesApart(cn) ==
    \A k, l \in DOMAIN cn, d, e \in Dirs :
        /\ Once(Queue(cn[k], d))
        /\ \A f \in InFlight(cn, k, d), g \in InFlight(cn, l, e) :
              f.c = g.c /\ f.c # None => k = l /\ d = e

CallerFd(cn, c, fd) ==
    \E k \in DOMAIN cn : cn[k].busd /\ cn[k].bus = Caller[c] /\ cn[k].fd = fd
RouteOK(cn, r, f) ==
    /\ f.t \in {"invoke", "lookup", "reply", "lookup_reply"} =>
          f.c \in Calls /\ r.bus = Caller[f.c]
    /\ f.t \in {"forward", "forward_reply"} =>
          f.c \in Calls /\ (r.busd => CallerFd(cn, f.c, f.fd))
    /\ f.t \in {"invoke", "forward", "forward_reply", "reply"} =>
          Kind[f.c] # "lookup" /\ f.o = Target[f.c]
    /\ f.t \in {"lookup", "lookup_reply"} => Kind[f.c] = "lookup"
Routes(cn) ==
    \A k \in DOMAIN cn, d \in Dirs : \A f \in InFlight(cn, k, d) : RouteOK(cn, cn[k], f)

Pending(cl, rm, c) == cl[c] = "waiting" /\ c \in rm[Caller[c]]
NamesPending(cn, cl, rm) ==
    \A k \in DOMAIN cn, d \in Dirs : \A f \in InFlight(cn, k, d) :
        f.c # None => Pending(cl, rm, f.c)
Keys(rm) ==
    \A b \in Buses : \A c \in rm[b] :
        /\ Caller[c] = b
        /\ \A d \in rm[b] : SameKey(c, d) \/ Kind[c] = "lookup" => c = d

Flow(cn, cl, rm) ==
    Sound(cn) /\ NamesApart(cn) /\ Routes(cn) /\ NamesPending(cn, cl, rm)
Answering == Flow(conns, call, req_map) /\ Keys(req_map) /\ OwnReply

(***************************************************************************)
(* What RegistrySound rests on, where the daemon reads the end of a        *)
(* connection before frames of the next one.                               *)
(***************************************************************************)

\* A bus has one connection that the daemon holds open, and that is the one
\* of its client, if it has a client.
OneOpen(cn) ==
    \A k, l \in DOMAIN cn : cn[k].busd /\ cn[l].busd /\ cn[k].bus = cn[l].bus => k = l
PeersLinked(cn, lk) ==
    /\ \A k \in DOMAIN cn : /\ cn[k].peer => lk[cn[k].bus] = k
                            /\ cn[k].busd /\ lk[cn[k].bus] # 0 => lk[cn[k].bus] = k
    /\ \A b \in Buses : lk[b] # 0 => cn[lk[b]].peer
OfflineClosed(cn, lk, off) ==
    \A b \in Buses : off[b] =>
        lk[b] = 0 /\ \A k \in DOMAIN cn : cn[k].bus = b => ~cn[k].busd
Ends(cn, lk, off) == OneOpen(cn) /\ PeersLinked(cn, lk) /\ OfflineClosed(cn, lk, off)

\* An object is registered, or on its way to be, once.
Registered(om, fd, o) == \E n \in ToSet(om) : n.o = o /\ n.live /\ n.fd = fd
AddsOK(cn, om, ob) ==
    \A k \in DOMAIN cn : cn[k].busd =>
        /\ AddsOnce(Queue(cn[k], "up"))
        /\ \A f \in InFlight(cn, k, "up") : f.t = "add" =>
              /\ ~Registered(om, cn[k].fd, f.o)
              /\ cn[k].peer => f.o \in ob[cn[k].bus]
NodeOK(cn, n, ob) ==
    /\ n.live
    /\ \E k \in DOMAIN cn : /\ cn[k].busd /\ cn[k].fd = n.fd
                            /\ n.o \in Serves[cn[k].bus]
                            /\ cn[k].peer => n.o \in ob[cn[k].bus]
NodesOK(cn, om, ob) == \A n \in ToSet(om) : NodeOK(cn, n, ob)
KeysOnce(om) == \A i, j \in DOMAIN om : om[i].o = om[j].o => i = j

\* What the daemon confirmed, or is about to, is registered.
AcksOK(cn, om) ==
    \A k \in DOMAIN cn : cn[k].busd /\ cn[k].peer =>
        /\ \A o \in cn[k].acked : Registered(om, cn[k].fd, o)
        /\ \A f \in InFlight(cn, k, "down") :
              f.t = "add_reply" => Registered(om, cn[k].fd, f.o)

Served(cn, om, ob) == AddsOK(cn, om, ob) /\ NodesOK(cn, om, ob) /\ KeysOnce(om) /\ AcksOK(cn, om)
Serving == Ends(conns, link, offline) /\ Served(conns, obj_map, objs)

-----------------------------------------------------------------------------
(***************************************************************************)
(* Queues.  Taking frames away makes no frame and no duplicate.            *)
(***************************************************************************)
QueueKept(q, r) ==
    /\ ToSet(r) \subseteq ToSet(q)
    /\ Once(q) => Once(r)
    /\ AddsOnce(q) => AddsOnce(r)

\* What is left of a queue behind its first n frames.
LEMMA SuffixKept ==
    ASSUME NEW q \in Seq(Frame), NEW n \in 0 .. Len(q)
    PROVE  /\ SubSeq(q, n + 1, Len(q)) \in Seq(Frame)
           /\ QueueKept(q, SubSeq(q, n + 1, Len(q)))
<1> DEFINE r == SubSeq(q, n + 1, Len(q))
<1>1. r \in Seq(Frame) /\ DOMAIN r = 1 .. (Len(q) - n) /\ DOMAIN q = 1 .. Len(q)
  OBVIOUS
<1>2. \A i \in DOMAIN r : i + n \in DOMAIN q /\ r[i] = q[i + n]
  OBVIOUS
<1> HIDE DEF r
<1>3. ToSet(r) \subseteq ToSet(q)
  BY <1>2 DEF ToSet
<1>4. Once(q) => Once(r)
  BY <1>1, <1>2 DEF Once
<1>5. AddsOnce(q) => AddsOnce(r)
  BY <1>1, <1>2 DEF AddsOnce
<1> QED BY <1>1, <1>3, <1>4, <1>5 DEF QueueKept, r

\* The frame at the head is one of the queue, and what is left does not name
\* its call or add its object again.
LEMMA TailKept ==
    ASSUME NEW q \in Seq(Frame), q # << >>
    PROVE  /\ Head(q) \in Frame /\ Head(q) \in ToSet(q)
           /\ Tail(q) \in Seq(Frame) /\ QueueKept(q, Tail(q))
           /\ Once(q) => \A f \in ToSet(Tail(q)) : f.c = Head(q).c => f.c = None
           /\ AddsOnce(q) => \A f \in ToSet(Tail(q)) :
                                f.t = "add" /\ Head(q).t = "add" => f.o # Head(q).o
<1> DEFINE r == Tail(q)  h == Head(q)
<1>1. r \in Seq(Frame) /\ DOMAIN r = 1 .. (Len(q) - 1) /\ DOMAIN q = 1 .. Len(q) /\ Len(q) \in Nat
  OBVIOUS
<1>2. \A i \in DOMAIN r : i + 1 \in DOMAIN q /\ r[i] = q[i + 1]
  OBVIOUS
<1>3. h \in Frame /\ h = q[1] /\ 1 \in DOMAIN q
  OBVIOUS
<1> HIDE DEF r, h
<1>4. ToSet(r) \subseteq ToSet(q) /\ h \in ToSet(q)
  BY <1>2, <1>3 DEF ToSet
<1>5. Once(q) => Once(r)
  BY <1>1, <1>2 DEF Once
<1>6. AddsOnce(q) => AddsOnce(r)
  BY <1>1, <1>2 DEF AddsOnce
<1>7. ASSUME NEW f \in ToSet(r)
      PROVE  \E i \in DOMAIN q : i # 1 /\ f = q[i]
  BY <1>1, <1>2 DEF ToSet
<1>8. Once(q) => \A f \in ToSet(r) : f.c = h.c => f.c = None
  BY <1>3, <1>7 DEF Once
<1>9. AddsOnce(q) => \A f \in ToSet(r) : f.t = "add" /\ h.t = "add" => f.o # h.o
  BY <1>3, <1>7 DEF AddsOnce
<1> QED BY <1>1, <1>3, <1>4, <1>5, <1>6, <1>8, <1>9 DEF QueueKept, r, h

\* A frame sent is behind the others.
LEMMA AppendFrames ==
    ASSUME NEW q \in Seq(Frame), NEW f \in Frame
    PROVE  /\ Append(q, f) \in Seq(Frame)
           /\ ToSet(Append(q, f)) = ToSet(q) \cup {f}
           /\ Once(q) /\ (f.c = None \/ \A g \in ToSet(q) : g.c # f.c) => Once(Append(q, f))
           /\ AddsOnce(q) /\ (f.t # "add" \/ \A g \in ToSet(q) : g.t = "add" => g.o # f.o)
                => AddsOnce(Append(q, f))
<1> DEFINE r == Append(q, f)  n == Len(q) + 1
<1>1. r \in Seq(Frame) /\ DOMAIN q = 1 .. Len(q) /\ DOMAIN r = 1 .. n /\ Len(q) \in Nat
  OBVIOUS
<1>2. (\A i \in DOMAIN q : i \in DOMAIN r /\ r[i] = q[i]) /\ n \in DOMAIN r /\ r[n] = f
  OBVIOUS
<1>3. \A i \in DOMAIN r : i = n \/ i \in DOMAIN q
  BY <1>1
<1> HIDE DEF r, n
<1>4. ToSet(r) = ToSet(q) \cup {f}
  BY <1>2, <1>3 DEF ToSet
<1>5. \A i \in DOMAIN q : q[i] \in ToSet(q)
  BY DEF ToSet
<1>6. Once(q) /\ (f.c = None \/ \A g \in ToSet(q) : g.c # f.c) => Once(r)
  BY <1>2, <1>3, <1>5 DEF Once
<1>7. AddsOnce(q) /\ (f.t # "add" \/ \A g \in ToSet(q) : g.t = "add" => g.o # f.o) => AddsOnce(r)
  BY <1>2, <1>3, <1>5 DEF AddsOnce
<1> QED BY <1>1, <1>4, <1>6, <1>7 DEF r

\* No frames at all, and the same frames.
LEMMA EmptyKept ==
    /\ ToSet(<< >>) = {} /\ Once(<< >>) /\ AddsOnce(<< >>) /\ << >> \in Seq(Frame)
    /\ \A q : QueueKept(q, << >>) /\ QueueKept(q, q)
<1>1. ToSet(<< >>) = {}
  BY DEF ToSet
<1>2. Once(<< >>) /\ AddsOnce(<< >>)
  BY DEF Once, AddsOnce
<1> QED BY <1>1, <1>2 DEF QueueKept

(***************************************************************************)
(* Connections.  What an operation of Bus does to all of them, told queue  *)
(* by queue: nothing of one is new, one loses its head, one gains a frame. *)
(***************************************************************************)
Like(cn, dn) ==
    /\ IsConns(dn) /\ DOMAIN dn = DOMAIN cn
    /\ \A k \in DOMAIN cn : dn[k].bus = cn[k].bus /\ dn[k].fd = cn[k].fd
SameBusd(cn, dn) == \A k \in DOMAIN cn : dn[k].busd = cn[k].busd
SamePeer(cn, dn) == \A k \in DOMAIN cn : dn[k].peer = cn[k].peer
SameAcks(cn, dn) == \A k \in DOMAIN cn : dn[k].acked = cn[k].acked
Same(cn, dn) == Like(cn, dn) /\ SameBusd(cn, dn) /\ SamePeer(cn, dn) /\ SameAcks(cn, dn)
Closing(cn, dn) ==
    \A k \in DOMAIN cn : (dn[k].busd => cn[k].busd) /\ (dn[k].peer => cn[k].peer)
Kept(cn, dn) ==
    /\ Like(cn, dn) /\ Closing(cn, dn)
    /\ \A k \in DOMAIN cn, d \in Dirs : QueueKept(Queue(cn[k], d), Queue(dn[k], d))
Requeued(cn, dn, j, e, q) ==
    /\ Same(cn, dn) /\ j \in DOMAIN cn /\ e \in Dirs /\ Queue(dn[j], e) = q
    /\ \A k \in DOMAIN cn, d \in Dirs :
          k # j \/ d # e => Queue(dn[k], d) = Queue(cn[k], d)
Taken(cn, dn, j, e) ==
    Queue(cn[j], e) # << >> /\ Requeued(cn, dn, j, e, Tail(Queue(cn[j], e)))
Sent(cn, dn, j, e, f) ==
    f \in Frame /\ Requeued(cn, dn, j, e, Append(Queue(cn[j], e), f))

\* A connection and its queues have their types.
LEMMA ConnIs ==
    ASSUME NEW cn, IsConns(cn), NEW k \in DOMAIN cn
    PROVE  /\ cn[k] \in Conn
           /\ \A d \in Dirs : Queue(cn[k], d) \in Seq(Frame)
<1>1. cn[k] \in Conn
  BY DEF IsConns
<1> QED BY <1>1 DEF Conn, Dirs, Queue

\* Frames in flight are frames.
LEMMA InFlightFrames ==
    ASSUME NEW cn, IsConns(cn), NEW k \in DOMAIN cn, NEW d \in Dirs, NEW f \in InFlight(cn, k, d)
    PROVE  f \in Frame
<1>1. Queue(cn[k], d) \in Seq(Frame)
  BY ConnIs
<1> DEFINE q == Queue(cn[k], d)
<1>2. \A i \in DOMAIN q : q[i] \in Frame
  BY <1>1
<1> QED BY <1>2 DEF InFlight, ToSet

\* The connections changed in place are connections.
LEMMA ConnsAgain ==
    ASSUME NEW cn, IsConns(cn), NEW dn, dn = [k \in DOMAIN cn |-> dn[k]],
           \A k \in DOMAIN cn : dn[k] \in Conn
    PROVE  IsConns(dn)
<1>1. cn \in Seq(Conn)
  BY DEF IsConns
<1>2. PICK n \in Nat : DOMAIN cn = 1 .. n
  BY <1>1
<1>3. dn \in [1 .. n -> Conn]
  BY <1>2
<1> QED BY <1>3 DEF IsConns

\* Replacing one connection, by a record that differs in what is said.
LEMMA ReplaceOne ==
    ASSUME NEW cn, IsConns(cn), NEW j \in DOMAIN cn, NEW r \in Conn,
           r.bus = cn[j].bus, r.fd = cn[j].fd
    PROVE  LET dn == [cn EXCEPT ![j] = r]
           IN  /\ Like(cn, dn) /\ dn[j] = r
               /\ \A k \in DOMAIN cn : k # j => dn[k] = cn[k]
<1> DEFINE dn == [cn EXCEPT ![j] = r]
<1>0. cn = [k \in DOMAIN cn |-> cn[k]]
  BY DEF IsConns
<1>1. dn = [k \in DOMAIN cn |-> dn[k]] /\ dn[j] = r /\ \A k \in DOMAIN cn : k # j => dn[k] = cn[k]
  BY <1>0
<1> HIDE DEF dn
<1>2. \A k \in DOMAIN cn : cn[k] \in Conn
  BY ConnIs
<1>3. IsConns(dn) /\ DOMAIN dn = DOMAIN cn
  <2>1. DOMAIN dn = DOMAIN cn
    BY <1>1
  <2> QED BY <2>1, <1>1, <1>2, ConnsAgain
<1>4. Like(cn, dn)
  BY <1>1, <1>3 DEF Like
<1> QED BY <1>1, <1>4 DEF dn

\* A connection with one queue changed.
LEMMA WithQueue ==
    ASSUME NEW r \in Conn, NEW q \in Seq(Frame)
    PROVE  /\ LET s == [r EXCEPT !.up = q]
              IN  /\ s \in Conn /\ Queue(s, "up") = q /\ Queue(s, "down") = Queue(r, "down")
                  /\ s.bus = r.bus /\ s.fd = r.fd /\ s.busd = r.busd /\ s.peer = r.peer
                  /\ s.acked = r.acked
           /\ LET s == [r EXCEPT !.down = q]
              IN  /\ s \in Conn /\ Queue(s, "down") = q /\ Queue(s, "up") = Queue(r, "up")
                  /\ s.bus = r.bus /\ s.fd = r.fd /\ s.busd = r.busd /\ s.peer = r.peer
                  /\ s.acked = r.acked
BY DEF Conn, Queue

\* One connection with one queue changed, among the others.
LEMMA OneQueue ==
    ASSUME NEW cn, IsConns(cn), NEW j \in DOMAIN cn, NEW q \in Seq(Frame), NEW e \in Dirs, NEW dn,
           e = "up" => dn = [cn EXCEPT ![j].up = q],
           e = "down" => dn = [cn EXCEPT ![j].down = q]
    PROVE  Requeued(cn, dn, j, e, q)
<1>0. cn[j] \in Conn
  BY ConnIs
<1> DEFINE r == IF e = "up" THEN [cn[j] EXCEPT !.up = q] ELSE [cn[j] EXCEPT !.down = q]
<1>1. /\ r \in Conn /\ Queue(r, e) = q
      /\ \A d \in Dirs : d # e => Queue(r, d) = Queue(cn[j], d)
      /\ r.bus = cn[j].bus /\ r.fd = cn[j].fd /\ r.busd = cn[j].busd /\ r.peer = cn[j].peer
      /\ r.acked = cn[j].acked
  BY <1>0, WithQueue DEF Dirs
<1>2. dn = [cn EXCEPT ![j] = r]
  BY DEF Dirs
<1> HIDE DEF r
<1>3. /\ Like(cn, dn) /\ dn[j] = r
      /\ \A k \in DOMAIN cn : k # j => dn[k] = cn[k]
  BY <1>1, <1>2, ReplaceOne
<1>4. Same(cn, dn)
  BY <1>1, <1>3 DEF Same, SameBusd, SamePeer, SameAcks
<1> QED BY <1>1, <1>3, <1>4 DEF Requeued

\* TakeUp and TakeDown take a head.
LEMMA TakeIs ==
    ASSUME IsConns(conns), NEW k \in DOMAIN conns
    PROVE  /\ conns[k].up # << >> => Taken(conns, TakeUp(k), k, "up")
           /\ conns[k].down # << >> => Taken(conns, TakeDown(k), k, "down")
<1>1. ASSUME conns[k].up # << >> PROVE Taken(conns, TakeUp(k), k, "up")
  <2>1. Tail(Queue(conns[k], "up")) \in Seq(Frame) /\ Queue(conns[k], "up") = conns[k].up
    BY <1>1, ConnIs, TailKept DEF Dirs, Queue
  <2>2. TakeUp(k) = [conns EXCEPT ![k].up = Tail(Queue(conns[k], "up"))]
    BY <2>1 DEF TakeUp
  <2>3. Requeued(conns, TakeUp(k), k, "up", Tail(Queue(conns[k], "up")))
    BY <2>1, <2>2, OneQueue DEF Dirs
  <2> QED BY <1>1, <2>1, <2>3 DEF Taken
<1>2. ASSUME conns[k].down # << >> PROVE Taken(conns, TakeDown(k), k, "down")
  <2>1. Tail(Queue(conns[k], "down")) \in Seq(Frame) /\ Queue(conns[k], "down") = conns[k].down
    BY <1>2, ConnIs, TailKept DEF Dirs, Queue
  <2>2. TakeDown(k) = [conns EXCEPT ![k].down = Tail(Queue(conns[k], "down"))]
    BY <2>1 DEF TakeDown
  <2>3. Requeued(conns, TakeDown(k), k, "down", Tail(Queue(conns[k], "down")))
    BY <2>1, <2>2, OneQueue DEF Dirs
  <2> QED BY <1>2, <2>1, <2>3 DEF Taken
<1> QED BY <1>1, <1>2

\* The other frames are those there were.
LEMMA TakenKept ==
    ASSUME NEW cn, NEW dn, NEW j, NEW e, IsConns(cn), Taken(cn, dn, j, e)
    PROVE  Kept(cn, dn) /\ Same(cn, dn)
<1>1. \A k \in DOMAIN cn, d \in Dirs : QueueKept(Queue(cn[k], d), Queue(dn[k], d))
  BY EmptyKept, ConnIs, TailKept DEF Taken, Requeued
<1> QED BY <1>1 DEF Kept, Taken, Requeued, Same, SameBusd, SamePeer, Closing

\* Frames thrown away with a cache.
LEMMA DropIs ==
    ASSUME NEW cn, IsConns(cn), NEW k \in DOMAIN cn
    PROVE  /\ \A n \in Received(cn[k].up) : Kept(cn, DropUp(cn, k, n)) /\ Same(cn, DropUp(cn, k, n))
           /\ \A n \in Received(cn[k].down) : Kept(cn, DropDown(cn, k, n)) /\ Same(cn, DropDown(cn, k, n))
<1>1. ASSUME NEW dn, NEW e \in Dirs, NEW q, Requeued(cn, dn, k, e, q), QueueKept(Queue(cn[k], e), q)
      PROVE  Kept(cn, dn) /\ Same(cn, dn)
  <2>1. \A l \in DOMAIN cn, d \in Dirs : QueueKept(Queue(cn[l], d), Queue(dn[l], d))
    BY <1>1, EmptyKept DEF Requeued
  <2> QED BY <1>1, <2>1 DEF Kept, Requeued, Same, SameBusd, SamePeer, Closing
<1>2. ASSUME NEW n \in Received(cn[k].up)
      PROVE  Kept(cn, DropUp(cn, k, n)) /\ Same(cn, DropUp(cn, k, n))
  <2>1. cn[k].up \in Seq(Frame) /\ Queue(cn[k], "up") = cn[k].up /\ n \in 0 .. Len(cn[k].up)
    BY ConnIs DEF Dirs, Queue, Received
  <2> DEFINE q == SubSeq(cn[k].up, n + 1, Len(cn[k].up))
  <2>2. q \in Seq(Frame) /\ QueueKept(cn[k].up, q)
    BY <2>1, SuffixKept
  <2>3. DropUp(cn, k, n) = [cn EXCEPT ![k].up = q]
    BY DEF DropUp
  <2> HIDE DEF q
  <2>4. Requeued(cn, DropUp(cn, k, n), k, "up", q)
    BY <2>2, <2>3, OneQueue DEF Dirs
  <2> QED BY <1>1, <2>1, <2>2, <2>4 DEF Dirs
<1>3. ASSUME NEW n \in Received(cn[k].down)
      PROVE  Kept(cn, DropDown(cn, k, n)) /\ Same(cn, DropDown(cn, k, n))
  <2>1. cn[k].down \in Seq(Frame) /\ Queue(cn[k], "down") = cn[k].down /\ n \in 0 .. Len(cn[k].down)
    BY ConnIs DEF Dirs, Queue, Received
  <2> DEFINE q == SubSeq(cn[k].down, n + 1, Len(cn[k].down))
  <2>2. q \in Seq(Frame) /\ QueueKept(cn[k].down, q)
    BY <2>1, SuffixKept
  <2>3. DropDown(cn, k, n) = [cn EXCEPT ![k].down = q]
    BY DEF DropDown
  <2> HIDE DEF q
  <2>4. Requeued(cn, DropDown(cn, k, n), k, "down", q)
    BY <2>2, <2>3, OneQueue DEF Dirs
  <2> QED BY <1>1, <2>1, <2>2, <2>4 DEF Dirs
<1> QED BY <1>2, <1>3

\* bus_send: the frame goes up, or nobody is there to read it.
LEMMA UpToIs ==
    ASSUME NEW cn, IsConns(cn), NEW k \in DOMAIN cn, NEW f \in Frame
    PROVE  \/ UpTo(cn, k, f) = cn
           \/ cn[k].busd /\ Sent(cn, UpTo(cn, k, f), k, "up", f)
<1> SUFFICES ASSUME cn[k].busd PROVE Sent(cn, UpTo(cn, k, f), k, "up", f)
  BY DEF UpTo
<1> DEFINE q == Append(Queue(cn[k], "up"), f)
<1>1. q \in Seq(Frame)
  BY ConnIs, AppendFrames DEF Dirs
<1>2. UpTo(cn, k, f) = [cn EXCEPT ![k].up = q]
  BY DEF UpTo, Queue
<1> HIDE DEF q
<1>3. Requeued(cn, UpTo(cn, k, f), k, "up", q)
  BY <1>1, <1>2, OneQueue DEF Dirs
<1> QED BY <1>3 DEF Sent, q

\* send in the daemon: one connection at most has the descriptor.
LEMMA DownToIs ==
    ASSUME NEW cn, IsConns(cn), FdsApart(cn), NEW fd, NEW f \in Frame
    PROVE  \/ DownTo(cn, fd, f) = cn
           \/ \E j \in DOMAIN cn : /\ cn[j].busd /\ cn[j].peer /\ cn[j].fd = fd
                                   /\ Sent(cn, DownTo(cn, fd, f), j, "down", f)
<1> DEFINE dn == DownTo(cn, fd, f)
<1>0. cn = [k \in DOMAIN cn |-> cn[k]]
  BY DEF IsConns
<1>1. /\ dn = [k \in DOMAIN cn |-> dn[k]]
      /\ \A k \in DOMAIN cn : ~(cn[k].busd /\ cn[k].peer /\ cn[k].fd = fd) => dn[k] = cn[k]
      /\ \A k \in DOMAIN cn : cn[k].busd /\ cn[k].peer /\ cn[k].fd = fd =>
                                 dn[k] = [cn[k] EXCEPT !.down = Append(@, f)]
  BY DEF DownTo
<1> HIDE DEF dn
<1>2. CASE \A k \in DOMAIN cn : ~(cn[k].busd /\ cn[k].peer /\ cn[k].fd = fd)
  BY <1>0, <1>1, <1>2 DEF dn
<1>3. ASSUME NEW j \in DOMAIN cn, cn[j].busd, cn[j].peer, cn[j].fd = fd
      PROVE  Sent(cn, dn, j, "down", f)
  <2> DEFINE q == Append(Queue(cn[j], "down"), f)
  <2>1. q \in Seq(Frame)
    BY ConnIs, AppendFrames DEF Dirs
  <2>2. \A k \in DOMAIN cn : k # j => dn[k] = cn[k]
    BY <1>1, <1>3 DEF FdsApart
  <2>3. dn[j] = [cn[j] EXCEPT !.down = q]
    BY <1>1, <1>3 DEF Queue
  <2> HIDE DEF q
  <2>4. dn = [cn EXCEPT ![j].down = q]
    BY <1>0, <1>1, <2>2, <2>3
  <2>5. Requeued(cn, dn, j, "down", q)
    BY <2>1, <2>4, OneQueue DEF Dirs
  <2> QED BY <2>5 DEF Sent, q
<1> QED BY <1>2, <1>3 DEF dn

\* A new connection carries frames to the daemon only.
Opened(cn, dn, b, q) ==
    /\ IsConns(dn) /\ Len(cn) + 1 \in Nat \ DOMAIN cn
    /\ DOMAIN dn = DOMAIN cn \cup {Len(cn) + 1}
    /\ \A k \in DOMAIN cn : dn[k] = cn[k]
    /\ LET r == dn[Len(cn) + 1]
       IN  /\ r.bus = b /\ Queue(r, "up") = q /\ Queue(r, "down") = << >>
           /\ r.busd /\ r.peer /\ r.acked = {}
           /\ r.fd \in Fds /\ \A k \in DOMAIN cn : cn[k].busd => cn[k].fd # r.fd

\* accept: the descriptor is not in use.
LEMMA NewConnsIs ==
    ASSUME IsConns(conns), NEW b \in Buses, NEW cn \in NewConns(b), NEW q \in Seq(Frame), NEW dn,
           dn = [cn EXCEPT ![Len(cn)].up = q]
    PROVE  Opened(conns, dn, b, q) /\ Opened(conns, cn, b, << >>)
<1> DEFINE n == Len(conns) + 1
<1>1. PICK fd \in Fds \ OpenFds :
         cn = Append(conns, [bus |-> b, fd |-> fd, up |-> << >>, down |-> << >>,
                             busd |-> TRUE, peer |-> TRUE, acked |-> {}])
  BY DEF NewConns
<1> DEFINE new == [bus |-> b, fd |-> fd, up |-> << >>, down |-> << >>,
                   busd |-> TRUE, peer |-> TRUE, acked |-> {}]
<1>2. new \in Conn
  BY <1>1 DEF Conn
<1>3. conns \in Seq(Conn)
  BY DEF IsConns
<1>4. /\ cn \in Seq(Conn) /\ Len(cn) = n /\ n \in Nat /\ n \notin DOMAIN conns
      /\ DOMAIN cn = DOMAIN conns \cup {n} /\ cn[n] = new
      /\ \A k \in DOMAIN conns : cn[k] = conns[k]
  <2>1. new \in Conn /\ cn = Append(conns, new)
    BY <1>1, <1>2
  <2> HIDE DEF new
  <2> QED BY <1>3, <2>1, AppendProperties
<1>5. \A k \in DOMAIN conns : conns[k].busd => conns[k].fd # fd
  BY <1>1 DEF OpenFds
<1>6. Queue(new, "up") = << >> /\ Queue(new, "down") = << >>
  BY DEF Queue
<1>7. Opened(conns, cn, b, << >>)
  BY <1>1, <1>4, <1>5, <1>6 DEF Opened, IsConns
<1>8. IsConns(cn) /\ n \in DOMAIN cn /\ dn = [cn EXCEPT ![n].up = q]
  BY <1>4 DEF IsConns
<1>9. Requeued(cn, dn, n, "up", q)
  BY <1>8, OneQueue DEF Dirs
<1>10. \A k \in DOMAIN conns : dn[k] = cn[k]
  BY <1>8, <1>4
<1>11. /\ IsConns(dn) /\ DOMAIN dn = DOMAIN cn
       /\ dn[n].bus = cn[n].bus /\ dn[n].fd = cn[n].fd /\ dn[n].busd = cn[n].busd
       /\ dn[n].peer = cn[n].peer /\ dn[n].acked = cn[n].acked
       /\ Queue(dn[n], "up") = q /\ Queue(dn[n], "down") = Queue(cn[n], "down")
  BY <1>8, <1>9 DEF Requeued, Same, Like, SameBusd, SamePeer, SameAcks, Dirs
<1> HIDE DEF n
<1>12. Opened(conns, dn, b, q)
  BY <1>7, <1>10, <1>11 DEF Opened, n
<1> QED BY <1>7, <1>12

\* Where a frame in flight comes from.
LEMMA KeptFrames ==
    ASSUME NEW cn, NEW dn, Kept(cn, dn), NEW k \in DOMAIN dn, NEW d \in Dirs,
           NEW g \in InFlight(dn, k, d)
    PROVE  k \in DOMAIN cn /\ g \in InFlight(cn, k, d)
BY DEF Kept, Like, InFlight, QueueKept

\* A frame in flight after a send was so before, or is the one sent.
LEMMA SentFrames ==
    ASSUME NEW cn, IsConns(cn), NEW dn, NEW j, NEW e, NEW f, Sent(cn, dn, j, e, f),
           NEW k \in DOMAIN dn, NEW d \in Dirs, NEW g \in InFlight(dn, k, d)
    PROVE  k \in DOMAIN cn /\ (g \in InFlight(cn, k, d) \/ (k = j /\ d = e /\ g = f))
<1>1. j \in DOMAIN cn /\ e \in Dirs /\ DOMAIN dn = DOMAIN cn
  BY DEF Sent, Requeued, Same, Like
<1>2. ToSet(Append(Queue(cn[j], e), f)) = ToSet(Queue(cn[j], e)) \cup {f}
  BY <1>1, ConnIs, AppendFrames DEF Sent
<1> DEFINE q == Append(Queue(cn[j], e), f)
<1>3. Queue(dn[j], e) = q /\ (k # j \/ d # e => Queue(dn[k], d) = Queue(cn[k], d))
  BY <1>1 DEF Sent, Requeued
<1> HIDE DEF q
<1>4. ToSet(q) = InFlight(cn, j, e) \cup {f}
  BY <1>2 DEF InFlight, q
<1> QED BY <1>1, <1>3, <1>4 DEF InFlight

\* A frame in flight after a bus connects was so before, or comes with the connection.
LEMMA OpenedFrames ==
    ASSUME NEW cn, NEW dn, NEW b, NEW q, Opened(cn, dn, b, q),
           NEW k \in DOMAIN dn, NEW d \in Dirs, NEW g \in InFlight(dn, k, d)
    PROVE  \/ k \in DOMAIN cn /\ g \in InFlight(cn, k, d) /\ dn[k] = cn[k]
           \/ k = Len(cn) + 1 /\ d = "up" /\ g \in ToSet(q)
BY EmptyKept DEF InFlight, Opened, Dirs

-----------------------------------------------------------------------------
(***************************************************************************)
(* Each part of the invariant, under each effect.  First what holds        *)
(* without hypotheses.                                                     *)
(***************************************************************************)
LEMMA SoundKept ==
    ASSUME NEW cn, NEW dn, Sound(cn), Kept(cn, dn)
    PROVE  Sound(dn)
<1>1. IsConns(dn) /\ FdsApart(dn)
  BY DEF Sound, Kept, Like, Closing, FdsApart
<1>2. ASSUME NEW k \in DOMAIN dn, NEW d \in Dirs, NEW f \in InFlight(dn, k, d)
      PROVE  FrameOK(dn[k], d, f)
  <2>1. k \in DOMAIN cn /\ f \in InFlight(cn, k, d)
    BY <1>2, KeptFrames
  <2>2. FrameOK(cn[k], d, f)
    BY <2>1 DEF Sound, FramesOK
  <2> QED BY <2>1, <2>2 DEF FrameOK, Kept, Like, Closing
<1> QED BY <1>1, <1>2 DEF Sound, FramesOK

\* A frame that says what its receiver relies on may be sent.
LEMMA SoundSent ==
    ASSUME NEW cn, NEW dn, NEW j, NEW e, NEW f, Sound(cn), Sent(cn, dn, j, e, f),
           FrameOK(cn[j], e, f)
    PROVE  Sound(dn)
<1>1. IsConns(dn) /\ FdsApart(dn)
  BY DEF Sound, Sent, Requeued, Same, Like, SameBusd, FdsApart
<1>2. ASSUME NEW k \in DOMAIN dn, NEW d \in Dirs, NEW g \in InFlight(dn, k, d)
      PROVE  FrameOK(dn[k], d, g)
  <2>1. k \in DOMAIN cn /\ (g \in InFlight(cn, k, d) \/ (k = j /\ d = e /\ g = f))
    BY <1>2, SentFrames DEF Sound
  <2>2. FrameOK(cn[k], d, g)
    BY <2>1 DEF Sound, FramesOK
  <2>3. dn[k].bus = cn[k].bus /\ dn[k].busd = cn[k].busd
    BY <2>1 DEF Sent, Requeued, Same, Like, SameBusd
  <2> QED BY <2>2, <2>3 DEF FrameOK
<1> QED BY <1>1, <1>2 DEF Sound, FramesOK

\* A new connection may carry the additions of what its bus serves.
LEMMA SoundOpened ==
    ASSUME NEW cn, NEW dn, NEW b, NEW q, Sound(cn), Opened(cn, dn, b, q),
           \A f \in ToSet(q) : f.t = "add" /\ f.o \in Serves[b]
    PROVE  Sound(dn)
<1>1. IsConns(dn) /\ FdsApart(dn)
  <2> DEFINE n == Len(cn) + 1
  <2>1. /\ IsConns(dn) /\ DOMAIN dn = DOMAIN cn \cup {n} /\ \A k \in DOMAIN cn : dn[k] = cn[k]
        /\ \A k \in DOMAIN cn : cn[k].busd => cn[k].fd # dn[n].fd
    BY DEF Opened
  <2> HIDE DEF n
  <2> QED BY <2>1 DEF Sound, FdsApart
<1>2. ASSUME NEW k \in DOMAIN dn, NEW d \in Dirs, NEW f \in InFlight(dn, k, d)
      PROVE  FrameOK(dn[k], d, f)
  <2>1. \/ k \in DOMAIN cn /\ f \in InFlight(cn, k, d) /\ dn[k] = cn[k]
        \/ k = Len(cn) + 1 /\ d = "up" /\ f \in ToSet(q)
    BY <1>2, OpenedFrames
  <2>2. CASE k \in DOMAIN cn /\ f \in InFlight(cn, k, d) /\ dn[k] = cn[k]
    BY <2>2 DEF Sound, FramesOK
  <2>3. CASE k = Len(cn) + 1 /\ d = "up" /\ f \in ToSet(q)
    <3>1. dn[k].bus = b
      BY <2>3 DEF Opened
    <3> QED BY <3>1, <2>3 DEF FrameOK
  <2> QED BY <2>1, <2>2, <2>3
<1> QED BY <1>1, <1>2 DEF Sound, FramesOK

\* A client stays its bus's.
LEMMA LinksLike ==
    ASSUME NEW cn, NEW dn, NEW lk, LinksOwn(cn, lk), Like(cn, dn)
    PROVE  LinksOwn(dn, lk)
BY DEF LinksOwn, Like

\* A new client is its bus's.
LEMMA LinksOpened ==
    ASSUME NEW cn, NEW dn, NEW b \in Buses, NEW q, NEW lk, NEW mk, LinksOwn(cn, lk),
           Opened(cn, dn, b, q), lk \in [Buses -> Nat], NEW n, n = Len(cn) + 1,
           mk = [lk EXCEPT ![b] = n]
    PROVE  LinksOwn(dn, mk) /\ mk \in [Buses -> Nat]
<1>1. n \in Nat /\ n \in DOMAIN dn /\ dn[n].bus = b /\ \A k \in DOMAIN cn : k \in DOMAIN dn /\ dn[k] = cn[k]
  BY DEF Opened
<1> QED BY <1>1 DEF LinksOwn

\* A bus without a client.
LEMMA LinksClosed ==
    ASSUME NEW cn, NEW dn, NEW b \in Buses, NEW lk, NEW mk, LinksOwn(cn, lk),
           Like(cn, dn), lk \in [Buses -> Nat], mk = [lk EXCEPT ![b] = 0]
    PROVE  LinksOwn(dn, mk) /\ mk \in [Buses -> Nat]
BY DEF LinksOwn, Like

\* A client's connection is one of those there are.
LEMMA BaseTyped == Base => TypeOK
<1> SUFFICES ASSUME Base PROVE TypeOK
  OBVIOUS
<1>1. conns \in Seq(Conn) /\ obj_map \in Seq(Node)
  BY DEF Base, Sound, IsConns, IsNodes
<1>2. PICK n \in Nat : n = Len(conns) /\ DOMAIN conns = 1 .. n
  BY <1>1
<1>3. link \in [Buses -> 0 .. n]
  BY <1>2 DEF Base, Shape, LinksOwn
<1> QED BY <1>1, <1>2, <1>3 DEF Base, Shape, TypeOK

\* The frame a callback takes: one of those in flight.
LEMMA HeadIs ==
    ASSUME NEW cn, NEW dn, NEW j, NEW e, IsConns(cn), Taken(cn, dn, j, e)
    PROVE  /\ j \in DOMAIN cn /\ e \in Dirs /\ DOMAIN dn = DOMAIN cn
           /\ Head(Queue(cn[j], e)) \in Frame
           /\ Head(Queue(cn[j], e)) \in InFlight(cn, j, e)
           /\ cn[j].bus = dn[j].bus /\ cn[j].busd = dn[j].busd /\ cn[j].peer = dn[j].peer
           /\ cn[j].fd = dn[j].fd
<1>1. j \in DOMAIN cn /\ e \in Dirs /\ Queue(cn[j], e) # << >> /\ Same(cn, dn)
  BY DEF Taken, Requeued
<1>2. Queue(cn[j], e) \in Seq(Frame)
  BY <1>1, ConnIs
<1>3. Head(Queue(cn[j], e)) \in Frame /\ Head(Queue(cn[j], e)) \in ToSet(Queue(cn[j], e))
  BY <1>1, <1>2, TailKept
<1> QED BY <1>1, <1>3 DEF InFlight, Same, Like, SameBusd, SamePeer

\* Sends, where they go or not.
LEMMA SoundUpTo ==
    ASSUME NEW cn, Sound(cn), NEW k \in DOMAIN cn, NEW f \in Frame, FrameOK(cn[k], "up", f)
    PROVE  Sound(UpTo(cn, k, f)) /\ Same(cn, UpTo(cn, k, f))
<1>1. CASE UpTo(cn, k, f) = cn
  BY <1>1 DEF Same, Like, SameBusd, SamePeer, SameAcks, Sound
<1>2. CASE Sent(cn, UpTo(cn, k, f), k, "up", f)
  <2>1. Sound(UpTo(cn, k, f))
    BY <1>2, SoundSent
  <2> QED BY <1>2, <2>1 DEF Sent, Requeued
<1> QED BY <1>1, <1>2, UpToIs DEF Sound

\* The daemon sends what needs no ground but its type.
LEMMA SoundDownTo ==
    ASSUME NEW cn, Sound(cn), NEW fd, NEW f \in Frame,
           f.t \notin {"add", "eof"}, f.t = "add_reply" => f.o \in Objects
    PROVE  Sound(DownTo(cn, fd, f)) /\ Same(cn, DownTo(cn, fd, f))
<1>1. CASE DownTo(cn, fd, f) = cn
  BY <1>1 DEF Same, Like, SameBusd, SamePeer, SameAcks, Sound
<1>2. ASSUME NEW j \in DOMAIN cn, Sent(cn, DownTo(cn, fd, f), j, "down", f)
      PROVE  Sound(DownTo(cn, fd, f)) /\ Same(cn, DownTo(cn, fd, f))
  <2>1. FrameOK(cn[j], "down", f)
    BY DEF FrameOK
  <2>2. Sound(DownTo(cn, fd, f))
    BY <1>2, <2>1, SoundSent
  <2> QED BY <1>2, <2>2 DEF Sent, Requeued
<1> QED BY <1>1, <1>2, DownToIs DEF Sound

-----------------------------------------------------------------------------
(***************************************************************************)
(* What OwnReply rests on.                                                 *)
(***************************************************************************)
Free(cn, x) == \A k \in DOMAIN cn, d \in Dirs : \A g \in InFlight(cn, k, d) : g.c # x

\* A call that no frame names is not named when frames go.
LEMMA FreeKept ==
    ASSUME NEW cn, NEW dn, NEW x, Free(cn, x), Kept(cn, dn)
    PROVE  Free(dn, x)
BY KeptFrames DEF Free

\* Frames that go make no two name one call.
LEMMA NamesApartKept ==
    ASSUME NEW cn, NEW dn, NamesApart(cn), Kept(cn, dn)
    PROVE  NamesApart(dn)
<1>1. ASSUME NEW k \in DOMAIN dn, NEW d \in Dirs
      PROVE  Once(Queue(dn[k], d))
  BY <1>1 DEF NamesApart, Kept, Like, QueueKept
<1>2. ASSUME NEW k \in DOMAIN dn, NEW l \in DOMAIN dn, NEW d \in Dirs, NEW e \in Dirs,
             NEW f \in InFlight(dn, k, d), NEW g \in InFlight(dn, l, e), f.c = g.c, f.c # None
      PROVE  k = l /\ d = e
  <2>1. /\ k \in DOMAIN cn /\ f \in InFlight(cn, k, d)
        /\ l \in DOMAIN cn /\ g \in InFlight(cn, l, e)
    BY KeptFrames
  <2> QED BY <2>1, <1>2 DEF NamesApart
<1> QED BY <1>1, <1>2 DEF NamesApart

\* A frame that names a call no other names.
LEMMA NamesApartSent ==
    ASSUME NEW cn, NEW dn, NEW j, NEW e, NEW f, IsConns(cn), NamesApart(cn),
           Sent(cn, dn, j, e, f), f.c = None \/ Free(cn, f.c)
    PROVE  NamesApart(dn)
<1>0. j \in DOMAIN cn /\ e \in Dirs /\ DOMAIN dn = DOMAIN cn
  BY DEF Sent, Requeued, Same, Like
<1>1. ASSUME NEW k \in DOMAIN dn, NEW d \in Dirs
      PROVE  Once(Queue(dn[k], d))
  <2>1. CASE k = j /\ d = e
    <3>1. Once(Queue(cn[j], e)) /\ Queue(cn[j], e) \in Seq(Frame) /\ f \in Frame
      BY <1>0, ConnIs DEF NamesApart, Sent
    <3>2. f.c = None \/ \A g \in ToSet(Queue(cn[j], e)) : g.c # f.c
      BY <1>0 DEF Free, InFlight
    <3>3. Once(Append(Queue(cn[j], e), f))
      BY <3>1, <3>2, AppendFrames
    <3> QED BY <2>1, <3>3 DEF Sent, Requeued
  <2>2. CASE k # j \/ d # e
    BY <1>0, <1>1, <2>2 DEF Sent, Requeued, NamesApart
  <2> QED BY <2>1, <2>2
<1>2. ASSUME NEW k \in DOMAIN dn, NEW l \in DOMAIN dn, NEW d \in Dirs, NEW a \in Dirs,
             NEW g \in InFlight(dn, k, d), NEW h \in InFlight(dn, l, a), g.c = h.c, g.c # None
      PROVE  k = l /\ d = a
  <2>1. /\ k \in DOMAIN cn /\ (g \in InFlight(cn, k, d) \/ (k = j /\ d = e /\ g = f))
        /\ l \in DOMAIN cn /\ (h \in InFlight(cn, l, a) \/ (l = j /\ a = e /\ h = f))
    BY SentFrames
  <2>2. CASE g \in InFlight(cn, k, d) /\ h \in InFlight(cn, l, a)
    BY <2>1, <2>2, <1>2 DEF NamesApart
  <2>3. CASE g \in InFlight(cn, k, d) /\ l = j /\ a = e /\ h = f
    BY <2>1, <2>3, <1>2 DEF Free
  <2>4. CASE h \in InFlight(cn, l, a) /\ k = j /\ d = e /\ g = f
    BY <2>1, <2>4, <1>2 DEF Free
  <2> QED BY <2>1, <2>2, <2>3, <2>4
<1> QED BY <1>1, <1>2 DEF NamesApart

\* A connection that is open stays in place.
LEMMA CallerFdLike ==
    ASSUME NEW cn, NEW dn, Like(cn, dn), SameBusd(cn, dn), NEW c, NEW fd, CallerFd(cn, c, fd)
    PROVE  CallerFd(dn, c, fd)
BY DEF CallerFd, Like, SameBusd

\* A frame knows its way as long as the daemon closes nothing.
LEMMA RouteLike ==
    ASSUME NEW cn, NEW dn, Like(cn, dn), SameBusd(cn, dn), NEW k \in DOMAIN cn, NEW f,
           RouteOK(cn, cn[k], f)
    PROVE  RouteOK(dn, dn[k], f)
<1>1. dn[k].bus = cn[k].bus /\ dn[k].busd = cn[k].busd
  BY DEF Like, SameBusd
<1>2. CallerFd(cn, f.c, f.fd) => CallerFd(dn, f.c, f.fd)
  BY CallerFdLike
<1> QED BY <1>1, <1>2 DEF RouteOK

\* What a frame in flight relies on holds for those that are left.
LEMMA FlowKept ==
    ASSUME NEW cn, NEW dn, NEW cl, NEW rm, Flow(cn, cl, rm), Kept(cn, dn), SameBusd(cn, dn)
    PROVE  Flow(dn, cl, rm)
<1>1. Sound(dn) /\ NamesApart(dn)
  BY SoundKept, NamesApartKept DEF Flow
<1>2. ASSUME NEW k \in DOMAIN dn, NEW d \in Dirs, NEW f \in InFlight(dn, k, d)
      PROVE  RouteOK(dn, dn[k], f) /\ (f.c # None => Pending(cl, rm, f.c))
  <2>1. k \in DOMAIN cn /\ f \in InFlight(cn, k, d)
    BY <1>2, KeptFrames
  <2>2. RouteOK(cn, cn[k], f) /\ (f.c # None => Pending(cl, rm, f.c))
    BY <2>1 DEF Flow, Routes, NamesPending
  <2> QED BY <2>1, <2>2, RouteLike DEF Kept
<1> QED BY <1>1, <1>2 DEF Flow, Routes, NamesPending

\* A frame sent on its way, for a call that waits.
LEMMA FlowSent ==
    ASSUME NEW cn, NEW dn, NEW j, NEW e, NEW f, NEW cl, NEW rm, Flow(cn, cl, rm),
           Sent(cn, dn, j, e, f), FrameOK(cn[j], e, f), RouteOK(cn, cn[j], f),
           f.c = None \/ (Free(cn, f.c) /\ Pending(cl, rm, f.c))
    PROVE  Flow(dn, cl, rm)
<1>0. IsConns(cn) /\ Like(cn, dn) /\ SameBusd(cn, dn)
  BY DEF Flow, Sound, Sent, Requeued, Same
<1>1. Sound(dn) /\ NamesApart(dn)
  BY <1>0, SoundSent, NamesApartSent DEF Flow
<1>2. ASSUME NEW k \in DOMAIN dn, NEW d \in Dirs, NEW g \in InFlight(dn, k, d)
      PROVE  RouteOK(dn, dn[k], g) /\ (g.c # None => Pending(cl, rm, g.c))
  <2>1. k \in DOMAIN cn /\ (g \in InFlight(cn, k, d) \/ (k = j /\ d = e /\ g = f))
    BY <1>0, <1>2, SentFrames
  <2>2. RouteOK(cn, cn[k], g) /\ (g.c # None => Pending(cl, rm, g.c))
    BY <2>1 DEF Flow, Routes, NamesPending
  <2> QED BY <1>0, <2>1, <2>2, RouteLike
<1> QED BY <1>1, <1>2 DEF Flow, Routes, NamesPending

\* A frame a callback has taken off queue e of connection j, and may answer.
InHand(cn, j, e, h, cl, rm) ==
    /\ j \in DOMAIN cn /\ e \in Dirs /\ h \in Frame
    /\ FrameOK(cn[j], e, h) /\ RouteOK(cn, cn[j], h)
    /\ h.c # None => Free(cn, h.c) /\ Pending(cl, rm, h.c)

\* What holds of a frame just taken: nothing else names its call.
LEMMA FlowTaken ==
    ASSUME NEW cn, NEW dn, NEW j, NEW e, NEW cl, NEW rm, Flow(cn, cl, rm), Taken(cn, dn, j, e)
    PROVE  Flow(dn, cl, rm) /\ InHand(dn, j, e, Head(Queue(cn[j], e)), cl, rm)
<1> DEFINE h == Head(Queue(cn[j], e))
<1>0. IsConns(cn) /\ Kept(cn, dn) /\ Same(cn, dn)
  BY TakenKept DEF Flow, Sound
<1>1. Flow(dn, cl, rm)
  BY <1>0, FlowKept DEF Same
<1>2. /\ j \in DOMAIN cn /\ e \in Dirs /\ DOMAIN dn = DOMAIN cn /\ h \in Frame /\ h \in InFlight(cn, j, e)
      /\ cn[j].bus = dn[j].bus /\ cn[j].busd = dn[j].busd
  BY <1>0, HeadIs
<1>3. Queue(cn[j], e) \in Seq(Frame) /\ Queue(cn[j], e) # << >> /\ Once(Queue(cn[j], e))
  BY <1>0, <1>2, ConnIs DEF Flow, NamesApart, Taken
<1>4. \A f \in ToSet(Tail(Queue(cn[j], e))) : f.c = h.c => f.c = None
  BY <1>3, TailKept
<1> HIDE DEF h
<1>5. FrameOK(cn[j], e, h) /\ RouteOK(cn, cn[j], h) /\ (h.c # None => Pending(cl, rm, h.c))
  BY <1>2 DEF Flow, Sound, FramesOK, Routes, NamesPending
<1>6. FrameOK(dn[j], e, h) /\ RouteOK(dn, dn[j], h)
  BY <1>0, <1>2, <1>5, RouteLike DEF FrameOK, Same
<1>7. ASSUME h.c # None, NEW k \in DOMAIN dn, NEW d \in Dirs, NEW g \in InFlight(dn, k, d)
      PROVE  g.c # h.c
  <2>1. CASE k = j /\ d = e
    <3>1. g \in ToSet(Tail(Queue(cn[j], e)))
      BY <2>1, <1>7 DEF InFlight, Taken, Requeued
    <3> QED BY <3>1, <1>4, <1>7
  <2>2. CASE k # j \/ d # e
    <3>1. k \in DOMAIN cn /\ g \in InFlight(cn, k, d)
      BY <1>0, KeptFrames
    <3> QED BY <3>1, <2>2, <1>2, <1>7 DEF Flow, NamesApart
  <2> QED BY <2>1, <2>2
<1>8. InHand(dn, j, e, h, cl, rm)
  BY <1>2, <1>5, <1>6, <1>7 DEF InHand, Free
<1> QED BY <1>1, <1>8 DEF h

\* The frame in hand is the only one of its call while others go.
LEMMA InHandKept ==
    ASSUME NEW cn, NEW dn, NEW j, NEW e, NEW h, NEW cl, NEW rm, InHand(cn, j, e, h, cl, rm),
           Kept(cn, dn), SameBusd(cn, dn)
    PROVE  InHand(dn, j, e, h, cl, rm)
<1>1. j \in DOMAIN dn /\ dn[j].bus = cn[j].bus /\ dn[j].busd = cn[j].busd /\ Like(cn, dn)
  BY DEF InHand, Kept, Like, SameBusd
<1>2. FrameOK(dn[j], e, h) /\ RouteOK(dn, dn[j], h)
  BY <1>1, RouteLike DEF InHand, FrameOK
<1>3. h.c # None => Free(dn, h.c)
  BY FreeKept DEF InHand
<1> QED BY <1>1, <1>2, <1>3 DEF InHand

\* bus_send of a frame on its way, where it goes or not.
LEMMA FlowUpTo ==
    ASSUME NEW cn, NEW cl, NEW rm, Flow(cn, cl, rm), NEW k \in DOMAIN cn, NEW f \in Frame,
           FrameOK(cn[k], "up", f), RouteOK(cn, cn[k], f),
           f.c = None \/ (Free(cn, f.c) /\ Pending(cl, rm, f.c))
    PROVE  Flow(UpTo(cn, k, f), cl, rm)
<1>1. CASE UpTo(cn, k, f) = cn
  BY <1>1
<1>2. CASE Sent(cn, UpTo(cn, k, f), k, "up", f)
  BY <1>2, FlowSent
<1> QED BY <1>1, <1>2, UpToIs DEF Flow, Sound

\* send in the daemon, to whoever has the descriptor.
LEMMA FlowDownTo ==
    ASSUME NEW cn, NEW cl, NEW rm, Flow(cn, cl, rm), NEW fd, NEW f \in Frame,
           f.t \notin {"add", "eof"}, f.t = "add_reply" => f.o \in Objects,
           \A j \in DOMAIN cn : cn[j].busd /\ cn[j].fd = fd => RouteOK(cn, cn[j], f),
           f.c = None \/ (Free(cn, f.c) /\ Pending(cl, rm, f.c))
    PROVE  Flow(DownTo(cn, fd, f), cl, rm)
<1>1. CASE DownTo(cn, fd, f) = cn
  BY <1>1
<1>2. ASSUME NEW j \in DOMAIN cn, cn[j].busd, cn[j].fd = fd,
             Sent(cn, DownTo(cn, fd, f), j, "down", f)
      PROVE  Flow(DownTo(cn, fd, f), cl, rm)
  <2>1. FrameOK(cn[j], "down", f)
    BY DEF FrameOK
  <2> QED BY <1>2, <2>1, FlowSent
<1> QED BY <1>1, <1>2, DownToIs DEF Flow, Sound

\* A new connection names no call.
LEMMA FlowOpened ==
    ASSUME NEW cn, NEW dn, NEW b, NEW q, NEW cl, NEW rm, Flow(cn, cl, rm), Opened(cn, dn, b, q),
           \A f \in ToSet(q) : f.t = "add" /\ f.o \in Serves[b] /\ f.c = None
    PROVE  Flow(dn, cl, rm)
<1> DEFINE n == Len(cn) + 1
<1>0. /\ DOMAIN dn = DOMAIN cn \cup {n} /\ \A k \in DOMAIN cn : dn[k] = cn[k]
      /\ Queue(dn[n], "up") = q /\ Queue(dn[n], "down") = << >>
  BY DEF Opened
<1> HIDE DEF n
<1>1. Sound(dn)
  BY SoundOpened DEF Flow
<1>2. \A k \in DOMAIN dn, d \in Dirs : \A g \in InFlight(dn, k, d) :
         \/ k \in DOMAIN cn /\ g \in InFlight(cn, k, d) /\ dn[k] = cn[k]
         \/ g.t = "add" /\ g.c = None
  BY OpenedFrames
<1>3. ASSUME NEW k \in DOMAIN dn, NEW d \in Dirs
      PROVE  Once(Queue(dn[k], d))
  <2>1. Once(q)
    BY DEF Once, ToSet
  <2> QED BY <1>0, <2>1, EmptyKept DEF Flow, NamesApart, Dirs
<1>4. NamesApart(dn)
  BY <1>2, <1>3 DEF Flow, NamesApart
<1>5. ASSUME NEW k \in DOMAIN dn, NEW d \in Dirs, NEW g \in InFlight(dn, k, d)
      PROVE  RouteOK(dn, dn[k], g) /\ (g.c # None => Pending(cl, rm, g.c))
  <2>1. CASE k \in DOMAIN cn /\ g \in InFlight(cn, k, d) /\ dn[k] = cn[k]
    <3>1. RouteOK(cn, cn[k], g) /\ (g.c # None => Pending(cl, rm, g.c))
      BY <2>1 DEF Flow, Routes, NamesPending
    <3>2. CallerFd(cn, g.c, g.fd) => CallerFd(dn, g.c, g.fd)
      BY <1>0 DEF CallerFd
    <3> QED BY <2>1, <3>1, <3>2 DEF RouteOK
  <2>2. CASE g.t = "add" /\ g.c = None
    BY <2>2 DEF RouteOK
  <2> QED BY <1>2, <1>5, <2>1, <2>2
<1> QED BY <1>1, <1>4, <1>5 DEF Flow, Routes, NamesPending

-----------------------------------------------------------------------------
(***************************************************************************)
(* The ends of a connection.                                               *)
(***************************************************************************)

\* A connection replaced by one with the same queues, or less in them.
LEMMA ReplacedKept ==
    ASSUME NEW cn, IsConns(cn), NEW j \in DOMAIN cn, NEW r \in Conn, NEW dn,
           dn = [cn EXCEPT ![j] = r], r.bus = cn[j].bus, r.fd = cn[j].fd,
           r.busd => cn[j].busd, r.peer => cn[j].peer,
           \A d \in Dirs : QueueKept(Queue(cn[j], d), Queue(r, d))
    PROVE  /\ Kept(cn, dn) /\ dn[j] = r
           /\ \A k \in DOMAIN cn : k # j => dn[k] = cn[k]
<1>1. Like(cn, dn) /\ dn[j] = r /\ \A k \in DOMAIN cn : k # j => dn[k] = cn[k]
  BY ReplaceOne
<1> QED BY <1>1, EmptyKept DEF Kept, Closing

\* BusEof on the bus's side, BusdEof on the daemon's.
LEMMA EndsIs ==
    ASSUME NEW cn, IsConns(cn), NEW j \in DOMAIN cn
    PROVE  /\ \A dn : dn = [cn EXCEPT ![j].peer = FALSE] =>
                 /\ Kept(cn, dn) /\ SameBusd(cn, dn) /\ SameAcks(cn, dn) /\ ~dn[j].peer
                 /\ \A k \in DOMAIN cn : k # j => dn[k] = cn[k]
           /\ \A dn : dn = [cn EXCEPT ![j].busd = FALSE] =>
                 /\ Kept(cn, dn) /\ SamePeer(cn, dn) /\ SameAcks(cn, dn) /\ ~dn[j].busd
                 /\ \A k \in DOMAIN cn : k # j => dn[k] = cn[k]
<1>0. cn[j] \in Conn
  BY ConnIs
<1>1. ASSUME NEW dn, dn = [cn EXCEPT ![j].peer = FALSE]
      PROVE  /\ Kept(cn, dn) /\ SameBusd(cn, dn) /\ SameAcks(cn, dn) /\ ~dn[j].peer
             /\ \A k \in DOMAIN cn : k # j => dn[k] = cn[k]
  <2> DEFINE r == [cn[j] EXCEPT !.peer = FALSE]
  <2>1. /\ r \in Conn /\ r.bus = cn[j].bus /\ r.fd = cn[j].fd /\ r.busd = cn[j].busd /\ ~r.peer
        /\ r.acked = cn[j].acked /\ \A d \in Dirs : Queue(r, d) = Queue(cn[j], d)
    BY <1>0 DEF Conn, Queue
  <2>2. dn = [cn EXCEPT ![j] = r]
    BY <1>1
  <2> HIDE DEF r
  <2>3. \A d \in Dirs : QueueKept(Queue(cn[j], d), Queue(r, d))
    BY <2>1, EmptyKept
  <2>4. Kept(cn, dn) /\ dn[j] = r /\ \A k \in DOMAIN cn : k # j => dn[k] = cn[k]
    BY <2>1, <2>2, <2>3, ReplacedKept
  <2> QED BY <2>1, <2>4 DEF SameBusd, SameAcks
<1>2. ASSUME NEW dn, dn = [cn EXCEPT ![j].busd = FALSE]
      PROVE  /\ Kept(cn, dn) /\ SamePeer(cn, dn) /\ SameAcks(cn, dn) /\ ~dn[j].busd
             /\ \A k \in DOMAIN cn : k # j => dn[k] = cn[k]
  <2> DEFINE r == [cn[j] EXCEPT !.busd = FALSE]
  <2>1. /\ r \in Conn /\ r.bus = cn[j].bus /\ r.fd = cn[j].fd /\ r.peer = cn[j].peer /\ ~r.busd
        /\ r.acked = cn[j].acked /\ \A d \in Dirs : Queue(r, d) = Queue(cn[j], d)
    BY <1>0 DEF Conn, Queue
  <2>2. dn = [cn EXCEPT ![j] = r]
    BY <1>2
  <2> HIDE DEF r
  <2>3. \A d \in Dirs : QueueKept(Queue(cn[j], d), Queue(r, d))
    BY <2>1, EmptyKept
  <2>4. Kept(cn, dn) /\ dn[j] = r /\ \A k \in DOMAIN cn : k # j => dn[k] = cn[k]
    BY <2>1, <2>2, <2>3, ReplacedKept
  <2> QED BY <2>1, <2>4 DEF SamePeer, SameAcks
<1> QED BY <1>1, <1>2

\* A confirmation is noted.
LEMMA AckedIs ==
    ASSUME NEW cn, IsConns(cn), NEW j \in DOMAIN cn, NEW o \in Objects, NEW dn,
           dn = [cn EXCEPT ![j].acked = @ \cup {o}]
    PROVE  /\ Kept(cn, dn) /\ SameBusd(cn, dn) /\ SamePeer(cn, dn)
           /\ dn[j].acked = cn[j].acked \cup {o}
           /\ \A k \in DOMAIN cn : k # j => dn[k] = cn[k]
<1>0. cn[j] \in Conn
  BY ConnIs
<1> DEFINE r == [cn[j] EXCEPT !.acked = @ \cup {o}]
<1>1. /\ r \in Conn /\ r.bus = cn[j].bus /\ r.fd = cn[j].fd /\ r.peer = cn[j].peer
      /\ r.busd = cn[j].busd
      /\ r.acked = cn[j].acked \cup {o} /\ \A d \in Dirs : Queue(r, d) = Queue(cn[j], d)
  BY <1>0 DEF Conn, Queue
<1>2. dn = [cn EXCEPT ![j] = r]
  OBVIOUS
<1> HIDE DEF r
<1>3. \A d \in Dirs : QueueKept(Queue(cn[j], d), Queue(r, d))
  BY <1>1, EmptyKept
<1>4. (r.busd => cn[j].busd) /\ (r.peer => cn[j].peer)
  BY <1>1
<1>5. Kept(cn, dn) /\ dn[j] = r /\ \A k \in DOMAIN cn : k # j => dn[k] = cn[k]
  BY <1>1, <1>2, <1>3, <1>4, ReplacedKept
<1> QED BY <1>1, <1>5 DEF SamePeer, SameBusd

\* A process that dies sends the end of its stream and reads no more.
LEMMA CrashIs ==
    ASSUME NEW cn, IsConns(cn), NEW j \in DOMAIN cn, NEW dn,
           dn = [cn EXCEPT ![j] = [@ EXCEPT !.down = << >>, !.peer = FALSE]]
    PROVE  /\ Kept(cn, dn) /\ SameBusd(cn, dn) /\ SameAcks(cn, dn) /\ ~dn[j].peer
           /\ \A k \in DOMAIN cn : k # j => dn[k] = cn[k]
<1> DEFINE r == [cn[j] EXCEPT !.down = << >>, !.peer = FALSE]
<1>0. cn[j] \in Conn
  BY ConnIs
<1>1. /\ r \in Conn /\ r.bus = cn[j].bus /\ r.fd = cn[j].fd /\ r.busd = cn[j].busd /\ ~r.peer
      /\ r.acked = cn[j].acked /\ Queue(r, "up") = Queue(cn[j], "up") /\ Queue(r, "down") = << >>
  BY <1>0, EmptyKept DEF Conn, Queue
<1>2. dn = [cn EXCEPT ![j] = r]
  OBVIOUS
<1> HIDE DEF r
<1>3. \A d \in Dirs : QueueKept(Queue(cn[j], d), Queue(r, d))
  BY <1>1, EmptyKept DEF Dirs
<1>4. Kept(cn, dn) /\ dn[j] = r /\ \A k \in DOMAIN cn : k # j => dn[k] = cn[k]
  BY <1>1, <1>2, <1>3, ReplacedKept
<1> QED BY <1>1, <1>4 DEF SameBusd, SameAcks

\* When the daemon dies all connections end, and its peers are told.
LEMMA BusdCrashIs ==
    ASSUME IsConns(conns), BusdCrash
    PROVE  /\ Like(conns, conns') /\ SamePeer(conns, conns')
           /\ \A k \in DOMAIN conns : ~conns'[k].busd
           /\ \A k \in DOMAIN conns, d \in Dirs :
                 /\ Once(Queue(conns[k], d)) => Once(Queue(conns'[k], d))
                 /\ \A g \in InFlight(conns', k, d) :
                       g \in InFlight(conns, k, d) \/ (d = "down" /\ g = Eof)
<1> DEFINE cn == conns  dn == conns'
<1>1. /\ dn = [k \in DOMAIN cn |-> dn[k]]
      /\ \A k \in DOMAIN cn :
            dn[k] = [cn[k] EXCEPT !.busd = FALSE, !.up = << >>,
                        !.down = IF cn[k].busd /\ cn[k].peer THEN Append(@, Eof) ELSE @]
  BY DEF BusdCrash
<1>2. Eof \in Frame /\ Eof.c = None
  BY DEF Eof, Msg, Frame
<1> DEFINE q(k) == IF cn[k].busd /\ cn[k].peer THEN Append(cn[k].down, Eof) ELSE cn[k].down
<1>3. ASSUME NEW k \in DOMAIN cn
      PROVE  /\ q(k) \in Seq(Frame)
             /\ Once(Queue(cn[k], "down")) => Once(q(k))
             /\ \A g \in ToSet(q(k)) : g \in InFlight(cn, k, "down") \/ g = Eof
  <2>1. cn[k].down \in Seq(Frame) /\ Queue(cn[k], "down") = cn[k].down
    BY ConnIs DEF Dirs, Queue
  <2>2. /\ Append(cn[k].down, Eof) \in Seq(Frame)
        /\ ToSet(Append(cn[k].down, Eof)) = ToSet(cn[k].down) \cup {Eof}
        /\ Once(cn[k].down) => Once(Append(cn[k].down, Eof))
    BY <1>2, <2>1, AppendFrames
  <2> QED BY <2>1, <2>2 DEF InFlight
<1>4. ASSUME NEW k \in DOMAIN cn
      PROVE  dn[k] = [cn[k] EXCEPT !.busd = FALSE, !.up = << >>, !.down = q(k)]
  BY <1>1, <1>4
<1> HIDE DEF q
<1>5. ASSUME NEW k \in DOMAIN cn
      PROVE  /\ dn[k] \in Conn /\ dn[k].bus = cn[k].bus /\ dn[k].fd = cn[k].fd
             /\ dn[k].peer = cn[k].peer /\ ~dn[k].busd
             /\ Queue(dn[k], "up") = << >> /\ Queue(dn[k], "down") = q(k)
  <2>1. cn[k] \in Conn /\ q(k) \in Seq(Frame)
    BY <1>3, ConnIs
  <2> QED BY <2>1, <1>4, EmptyKept DEF Conn, Queue
<1>6. IsConns(dn) /\ DOMAIN dn = DOMAIN cn
  <2> HIDE DEF dn
  <2>1. \A k \in DOMAIN cn : dn[k] \in Conn
    BY <1>5
  <2> QED BY <1>1, <2>1, ConnsAgain
<1>7. Like(cn, dn) /\ SamePeer(cn, dn)
  BY <1>5, <1>6 DEF Like, SamePeer
<1>8. ASSUME NEW k \in DOMAIN cn, NEW d \in Dirs
      PROVE  /\ Once(Queue(cn[k], d)) => Once(Queue(dn[k], d))
             /\ \A g \in InFlight(dn, k, d) : g \in InFlight(cn, k, d) \/ (d = "down" /\ g = Eof)
  BY <1>3, <1>5, EmptyKept DEF Dirs, InFlight
<1> QED BY <1>5, <1>7, <1>8

-----------------------------------------------------------------------------
(***************************************************************************)
(* The registry.                                                           *)
(***************************************************************************)

\* Any order of a finite set of positions has each of them once.
LEMMA OrderIs ==
    ASSUME NEW S, IsFiniteSet(S), NEW s \in SetToSeqs(S)
    PROVE  \E m \in Nat : /\ s \in [1 .. m -> S] /\ \A x \in S : \E i \in 1 .. m : s[i] = x
                          /\ \A i, j \in 1 .. m : s[i] = s[j] => i = j
<1> DEFINE m == Cardinality(S)
<1>1. m \in Nat
  BY FS_CardinalityType
<1>2. s \in [1 .. m -> S] /\ \A i, j \in 1 .. m : i # j => s[i] # s[j]
  BY DEF SetToSeqs
<1>3. IsFiniteSet(1 .. m) /\ Cardinality(1 .. m) = m
  BY <1>1, FS_Interval
<1>4. s \in Injection(1 .. m, S)
  BY <1>2 DEF Injection, IsInjective
<1>5. s \in Surjection(1 .. m, S)
  BY <1>1, <1>3, <1>4, FS_Injection
<1>6. \A x \in S : \E i \in 1 .. m : s[i] = x
  BY <1>5 DEF Surjection
<1> QED BY <1>1, <1>2, <1>6

\* The nodes left by busd_release_bus_object, by their former places.
On(om, fd) == {i \in DOMAIN om : om[i].live /\ om[i].fd = fd}
Released(om, on, fd, m, pick, left) ==
    /\ \A i \in On(om, fd) : /\ pick[om[i].o] \in DOMAIN om
                             /\ om[pick[om[i].o]].o = om[i].o
    /\ left \in [1 .. m -> DOMAIN om]
    /\ \A i, j \in 1 .. m : left[i] = left[j] => i = j
    /\ \A x \in DOMAIN om : \/ \E i \in 1 .. m : left[i] = x
                            \/ \E i \in On(om, fd) : x = pick[om[i].o]
    /\ \A i \in 1 .. m : \A j \in On(om, fd) : left[i] # pick[om[j].o]
    /\ on = [i \in 1 .. m |-> IF left[i] \in On(om, fd)
                              THEN [om[left[i]] EXCEPT !.live = FALSE] ELSE om[left[i]]]

\* busd_release_bus_object leaves the nodes not picked, in their order.
LEMMA ReleaseIs ==
    ASSUME IsNodes(obj_map), NEW fd, Release(fd)
    PROVE  \E m \in Nat : \E pick, left : Released(obj_map, obj_map', fd, m, pick, left)
<1> DEFINE of   == On(obj_map, fd)
           keys == {obj_map[i].o : i \in of}
<1>1. PICK pick \in [keys -> DOMAIN obj_map] :
         /\ \A o \in keys : pick[o] \in Found(o)
         /\ \E left \in SetToSeqs(DOMAIN obj_map \ {pick[o] : o \in keys}) :
               obj_map' = [i \in DOMAIN left |-> IF left[i] \in of
                                                 THEN [obj_map[left[i]] EXCEPT !.live = FALSE]
                                                 ELSE obj_map[left[i]]]
  BY DEF Release, On
<1> DEFINE S == DOMAIN obj_map \ {pick[o] : o \in keys}
<1>2. PICK left \in SetToSeqs(S) :
         obj_map' = [i \in DOMAIN left |-> IF left[i] \in of
                                           THEN [obj_map[left[i]] EXCEPT !.live = FALSE]
                                           ELSE obj_map[left[i]]]
  BY <1>1
<1>3. PICK n \in Nat : DOMAIN obj_map = 1 .. n
  BY DEF IsNodes
<1>4. IsFiniteSet(S)
  <2>1. S \in SUBSET (1 .. n)
    BY <1>3
  <2> HIDE DEF S
  <2>2. IsFiniteSet(1 .. n)
    BY FS_Interval
  <2> QED BY <2>1, <2>2, FS_Subset
<1>5. /\ \A i \in of : pick[obj_map[i].o] \in DOMAIN obj_map /\ obj_map[pick[obj_map[i].o]].o = obj_map[i].o
      /\ \A x \in DOMAIN obj_map : x \in S \/ \E i \in of : x = pick[obj_map[i].o]
      /\ \A x \in S : x \in DOMAIN obj_map /\ \A j \in of : x # pick[obj_map[j].o]
  BY <1>1 DEF Found
<1> HIDE DEF S
<1>6. PICK m \in Nat : /\ left \in [1 .. m -> S] /\ \A x \in S : \E i \in 1 .. m : left[i] = x
                       /\ \A i, j \in 1 .. m : left[i] = left[j] => i = j
  <2>1. left \in SetToSeqs(S)
    BY <1>2
  <2> QED BY <1>4, <2>1, OrderIs
<1>7. obj_map' = [i \in 1 .. m |-> IF left[i] \in of
                                   THEN [obj_map[left[i]] EXCEPT !.live = FALSE]
                                   ELSE obj_map[left[i]]]
  BY <1>2, <1>6
<1> HIDE DEF of
<1>8. left \in [1 .. m -> DOMAIN obj_map]
  BY <1>5, <1>6
<1>9. \A x \in DOMAIN obj_map : \/ \E i \in 1 .. m : left[i] = x
                                \/ \E i \in of : x = pick[obj_map[i].o]
  BY <1>5, <1>6
<1>10. \A i \in 1 .. m : \A j \in of : left[i] # pick[obj_map[j].o]
  BY <1>5, <1>6
<1>11. Released(obj_map, obj_map', fd, m, pick, left)
  BY <1>5, <1>6, <1>7, <1>8, <1>9, <1>10 DEF Released, of
<1> QED BY <1>11

\* The registry stays a sequence of nodes.
LEMMA ReleaseNodes ==
    ASSUME IsNodes(obj_map), NEW fd, Release(fd)
    PROVE  IsNodes(obj_map')
<1>0. PICK m \in Nat : \E pick, left : Released(obj_map, obj_map', fd, m, pick, left)
  BY ReleaseIs
<1>1. PICK pick, left : Released(obj_map, obj_map', fd, m, pick, left)
  BY <1>0
<1>2. \A x \in DOMAIN obj_map : obj_map[x] \in Node /\ [obj_map[x] EXCEPT !.live = FALSE] \in Node
  <2>1. \A x \in DOMAIN obj_map : obj_map[x] \in Node
    BY DEF IsNodes
  <2> QED BY <2>1 DEF Node
<1>3. obj_map' \in [1 .. m -> Node]
  BY <1>1, <1>2 DEF Released
<1> QED BY <1>3 DEF IsNodes

\* With distinct keys and live nodes, the nodes of one descriptor go and no others.
LEMMA ReleaseExact ==
    ASSUME IsNodes(obj_map), NEW fd, Release(fd), KeysOnce(obj_map), \A n \in ToSet(obj_map) : n.live
    PROVE  /\ KeysOnce(obj_map')
           /\ ToSet(obj_map') = {n \in ToSet(obj_map) : n.fd # fd}
<1>0. PICK m \in Nat : \E pick, left : Released(obj_map, obj_map', fd, m, pick, left)
  BY ReleaseIs
<1>1. PICK pick, left : Released(obj_map, obj_map', fd, m, pick, left)
  BY <1>0
<1> DEFINE om == obj_map  on == obj_map'
<1>2. \A i \in DOMAIN om : om[i].live
  BY DEF ToSet
<1>3. On(om, fd) = {i \in DOMAIN om : om[i].fd = fd}
  BY <1>2 DEF On
<1>4. \A i \in On(om, fd) : pick[om[i].o] = i
  BY <1>1, <1>3 DEF Released, KeysOnce
<1>5. \A i \in 1 .. m : left[i] \in DOMAIN om /\ left[i] \notin On(om, fd)
  BY <1>1, <1>4 DEF Released
<1>6. DOMAIN on = 1 .. m /\ \A i \in 1 .. m : on[i] = om[left[i]]
  BY <1>1, <1>5 DEF Released
<1>7. \A i, j \in 1 .. m : left[i] = left[j] => i = j
  BY <1>1 DEF Released
<1>8. \A x \in DOMAIN om : x \notin On(om, fd) => \E i \in 1 .. m : left[i] = x
  BY <1>1, <1>4 DEF Released
<1>9. KeysOnce(on)
  BY <1>5, <1>6, <1>7 DEF KeysOnce
<1>10. ASSUME NEW n \in ToSet(on)
       PROVE  n \in ToSet(om) /\ n.fd # fd
  BY <1>3, <1>5, <1>6 DEF ToSet
<1>11. ASSUME NEW n \in ToSet(om), n.fd # fd
       PROVE  n \in ToSet(on)
  <2>1. PICK x \in DOMAIN om : n = om[x]
    BY DEF ToSet
  <2>2. PICK i \in 1 .. m : left[i] = x
    BY <2>1, <1>3, <1>8, <1>11
  <2> QED BY <2>1, <2>2, <1>6 DEF ToSet
<1> QED BY <1>9, <1>10, <1>11

-----------------------------------------------------------------------------
(***************************************************************************)
(* Every step keeps what holds without hypotheses.                         *)
(***************************************************************************)
LEMMA SameTrans ==
    ASSUME NEW cn, NEW dn, NEW en
    PROVE  /\ Like(cn, dn) /\ Like(dn, en) => Like(cn, en)
           /\ Same(cn, dn) /\ Same(dn, en) => Same(cn, en)
BY DEF Same, Like, SameBusd, SamePeer, SameAcks

\* Frames taken away twice.
LEMMA KeptTrans ==
    ASSUME NEW cn, NEW dn, NEW en, Kept(cn, dn), Kept(dn, en)
    PROVE  Kept(cn, en)
<1>1. \A k \in DOMAIN cn, d \in Dirs : QueueKept(Queue(cn[k], d), Queue(en[k], d))
  BY DEF Kept, Like, QueueKept
<1> QED BY <1>1 DEF Kept, Like, Closing

\* The client of a bus is one of the connections.
LEMMA LinkIs ==
    ASSUME Base, NEW b \in Buses, link[b] # 0
    PROVE  link[b] \in DOMAIN conns /\ conns[link[b]].bus = b
BY DEF Base, LinksOwn

\* A frame is made of its parts.
LEMMA MsgIs ==
    ASSUME NEW t, NEW o, NEW c, NEW fd
    PROVE  /\ Msg(t, o, c, fd).t = t /\ Msg(t, o, c, fd).o = o
           /\ Msg(t, o, c, fd).c = c /\ Msg(t, o, c, fd).fd = fd
           /\ t \in {"add", "add_reply", "lookup", "lookup_reply", "invoke", "forward",
                     "forward_reply", "reply", "ping", "pong", "eof"}
                /\ o \in Objects \cup {None, NoId} /\ c \in Calls \cup {None} /\ fd \in Fds \cup {0}
              => Msg(t, o, c, fd) \in Frame
BY DEF Msg, Frame

\* What a callback starts with, in the daemon and in a bus.
LEMMA ComesIs ==
    ASSUME Sound(conns), NEW k \in DOMAIN conns, NEW t, Comes(k, t)
    PROVE  /\ conns[k].busd /\ Taken(conns, TakeUp(k), k, "up")
           /\ Head(conns[k].up) = Head(Queue(conns[k], "up"))
           /\ Head(conns[k].up).t = t /\ Head(conns[k].up) \in Frame
           /\ Head(conns[k].up) \in InFlight(conns, k, "up")
           /\ FrameOK(conns[k], "up", Head(conns[k].up))
           /\ Sound(TakeUp(k)) /\ Same(conns, TakeUp(k)) /\ Kept(conns, TakeUp(k))
           /\ k \in DOMAIN TakeUp(k)
<1> DEFINE cn == TakeUp(k)  h == Head(conns[k].up)
<1>1. /\ conns[k].busd /\ conns[k].up # << >> /\ h.t = t
      /\ h = Head(Queue(conns[k], "up")) /\ IsConns(conns)
  BY DEF Comes, Queue, Sound
<1>2. Taken(conns, cn, k, "up")
  BY <1>1, TakeIs
<1> HIDE DEF h, cn
<1>3. h \in Frame /\ h \in InFlight(conns, k, "up") /\ "up" \in Dirs
  BY <1>1, <1>2, HeadIs
<1>4. FrameOK(conns[k], "up", h)
  BY <1>3 DEF Sound, FramesOK
<1>5. Kept(conns, cn) /\ Same(conns, cn)
  BY <1>1, <1>2, TakenKept
<1>6. Sound(cn) /\ k \in DOMAIN cn
  BY <1>5, SoundKept DEF Kept, Like
<1> QED BY <1>1, <1>2, <1>3, <1>4, <1>5, <1>6 DEF h, cn

\* What a callback of a bus starts with.
LEMMA GetsIs ==
    ASSUME Sound(conns), LinksOwn(conns, link), NEW b \in Buses, NEW k \in DOMAIN conns, NEW t, Gets(b, k, t)
    PROVE  /\ conns[k].bus = b /\ k = link[b] /\ link[b] # 0 /\ Taken(conns, TakeDown(k), k, "down")
           /\ Head(conns[k].down) = Head(Queue(conns[k], "down"))
           /\ Head(conns[k].down).t = t /\ Head(conns[k].down) \in Frame
           /\ Head(conns[k].down) \in InFlight(conns, k, "down")
           /\ FrameOK(conns[k], "down", Head(conns[k].down))
           /\ Sound(TakeDown(k)) /\ Same(conns, TakeDown(k)) /\ Kept(conns, TakeDown(k))
           /\ k \in DOMAIN TakeDown(k)
<1> DEFINE cn == TakeDown(k)  h == Head(conns[k].down)
<1>1. /\ k = link[b] /\ link[b] # 0 /\ conns[k].down # << >> /\ h.t = t
      /\ h = Head(Queue(conns[k], "down")) /\ IsConns(conns)
  BY DEF Gets, Queue, Sound
<1>2. Taken(conns, cn, k, "down")
  BY <1>1, TakeIs
<1> HIDE DEF h, cn
<1>3. h \in Frame /\ h \in InFlight(conns, k, "down") /\ "down" \in Dirs
  BY <1>1, <1>2, HeadIs
<1>4. FrameOK(conns[k], "down", h)
  BY <1>3 DEF Sound, FramesOK
<1>5. Kept(conns, cn) /\ Same(conns, cn)
  BY <1>1, <1>2, TakenKept
<1>6. Sound(cn) /\ k \in DOMAIN cn
  BY <1>5, SoundKept DEF Kept, Like
<1>7. conns[k].bus = b
  BY <1>1 DEF LinksOwn
<1> QED BY <1>1, <1>2, <1>3, <1>4, <1>5, <1>6, <1>7 DEF h, cn

\* bus_create.
LEMMA CreateBase ==
    ASSUME Base, NEW b \in Buses, Create(b)
    PROVE  Base'
<1>1. Opened(conns, conns', b, << >>)
  <2>1. conns' \in NewConns(b) /\ IsConns(conns) /\ << >> \in Seq(Frame)
    BY EmptyKept DEF Create, Base, Sound
  <2> QED BY <2>1, NewConnsIs
<1>2. Sound(conns')
  BY <1>1, SoundOpened, EmptyKept DEF Base
<1> DEFINE n == Len(conns) + 1
<1>3. link' = [link EXCEPT ![b] = n] /\ link \in [Buses -> Nat] /\ LinksOwn(conns, link)
  BY DEF Create, Base, Shape
<1> HIDE DEF n
<1>4. LinksOwn(conns', link') /\ link' \in [Buses -> Nat]
  BY <1>1, <1>3, LinksOpened DEF n
<1>5. IsNodes(obj_map')
  BY DEF Create, Base, busdVars
<1>6. Shape'
  BY <1>4 DEF Create, busdVars, Base, Shape
<1> QED BY <1>2, <1>4, <1>5, <1>6 DEF Base

\* One frame sent by a bus.
LEMMA SendBase ==
    ASSUME Base, NEW b \in Buses, link[b] # 0, NEW f \in Frame, FrameOK(conns[link[b]], "up", f),
           conns' = UpTo(conns, link[b], f), link' = link
    PROVE  Sound(conns') /\ LinksOwn(conns', link') /\ Same(conns, conns')
<1>1. link[b] \in DOMAIN conns
  BY LinkIs
<1>2. Sound(conns') /\ Same(conns, conns')
  BY <1>1, SoundUpTo DEF Base
<1>3. LinksOwn(conns', link')
  BY <1>2, LinksLike DEF Base, Same
<1> QED BY <1>2, <1>3

\* bus_add_object.
LEMMA AddObjectBase ==
    ASSUME Base, NEW b \in Buses, NEW o \in Objects, AddObject(b, o)
    PROVE  Base'
<1> DEFINE f == Msg("add", o, None, 0)
<1>1. link[b] # 0 /\ o \in Serves[b] /\ conns' = UpTo(conns, link[b], f) /\ link' = link
  BY DEF AddObject
<1>2. f \in Frame /\ f.t = "add" /\ f.o = o
  BY MsgIs
<1> HIDE DEF f
<1>3. FrameOK(conns[link[b]], "up", f)
  BY <1>1, <1>2, LinkIs DEF FrameOK
<1>4. Sound(conns') /\ LinksOwn(conns', link')
  BY <1>1, <1>2, <1>3, SendBase
<1>5. \A a \in Buses : IsFiniteSet(objs'[a])
  <2>1. IsFiniteSet(objs[b] \cup {o})
    BY FS_AddElement DEF Base, Shape
  <2> QED BY <2>1 DEF AddObject, Base, Shape
<1>6. IsNodes(obj_map') /\ Shape'
  BY <1>5 DEF AddObject, busdVars, Base, Shape
<1> QED BY <1>4, <1>6 DEF Base

\* What a request names.
LEMMA NamedIs ==
    ASSUME Base, NEW c \in Calls
    PROVE  /\ Named(c) \in Objects \cup {None, NoId} /\ Caller[c] \in Buses /\ Target[c] \in Objects
           /\ Kind[c] # "lookup" => Named(c) = Target[c]
BY ShapeAssumption DEF Base, Shape, Named

\* A request is sent.
LEMMA StartCallBase ==
    ASSUME Base, NEW c \in Calls, StartCall(c)
    PROVE  Base'
<1> DEFINE b == Caller[c]
           t == IF Kind[c] = "lookup" THEN "lookup" ELSE "invoke"
           f == Msg(t, Named(c), c, 0)
<1>1. b \in Buses /\ link[b] # 0 /\ conns' = UpTo(conns, link[b], f) /\ link' = link
  BY NamedIs DEF StartCall
<1>2. f \in Frame /\ f.t = t
  BY NamedIs, MsgIs
<1>3. FrameOK(conns[link[b]], "up", f)
  BY <1>2 DEF FrameOK
<1> HIDE DEF f
<1>4. Sound(conns') /\ LinksOwn(conns', link')
  BY <1>1, <1>2, <1>3, SendBase
<1>5. IsNodes(obj_map') /\ Shape'
  BY <1>1, NamedIs DEF StartCall, busdVars, Base, Shape
<1> QED BY <1>4, <1>5 DEF Base

\* The timer pings.
LEMMA PingBase ==
    ASSUME Base, NEW b \in Buses, Ping(b)
    PROVE  Base'
<1> DEFINE f == Msg("ping", NoId, None, 0)
<1>1. link[b] # 0 /\ conns' = UpTo(conns, link[b], f) /\ link' = link
  BY DEF Ping
<1>2. f \in Frame /\ f.t = "ping"
  BY MsgIs
<1> HIDE DEF f
<1>3. FrameOK(conns[link[b]], "up", f)
  BY <1>2 DEF FrameOK
<1>4. Sound(conns') /\ LinksOwn(conns', link')
  BY <1>1, <1>2, <1>3, SendBase
<1>5. IsNodes(obj_map') /\ Shape'
  BY DEF Ping, busdVars, Base, Shape
<1> QED BY <1>4, <1>5 DEF Base

\* A waiting thread returns.
LEMMA ReturnBase ==
    ASSUME Base, NEW c \in Calls, Return(c)
    PROVE  Base'
<1>1. conns' = conns /\ link' = link /\ obj_map' = obj_map
  BY DEF Return, busdVars
<1>2. Shape'
  BY ShapeAssumption DEF Return, busdVars, Base, Shape
<1> QED BY <1>1, <1>2 DEF Base

\* The frames that add every object again.
Adds(s) == [i \in DOMAIN s |-> Msg("add", s[i], None, 0)]

\* Each object of the bus is in one of them.
LEMMA AddsIs ==
    ASSUME Base, NEW b \in Buses, NEW s \in SetToSeqs(objs[b])
    PROVE  /\ Adds(s) \in Seq(Frame) /\ AddsOnce(Adds(s))
           /\ \A f \in ToSet(Adds(s)) : f.t = "add" /\ f.o \in objs[b] /\ f.o \in Serves[b] /\ f.c = None
           /\ s # << >> => Last(s) \in Objects
<1>1. objs[b] \subseteq Objects /\ objs[b] \subseteq Serves[b] /\ IsFiniteSet(objs[b])
  BY DEF Base, Shape
<1>2. PICK m \in Nat : s \in [1 .. m -> objs[b]] /\ \A i, j \in 1 .. m : s[i] = s[j] => i = j
  BY <1>1, OrderIs
<1> DEFINE q == Adds(s)
<1>3. DOMAIN q = 1 .. m /\ \A i \in 1 .. m : q[i] = Msg("add", s[i], None, 0)
  BY <1>2 DEF Adds
<1>4. \A i \in 1 .. m : q[i] \in Frame /\ q[i].t = "add" /\ q[i].o = s[i] /\ q[i].c = None /\ s[i] \in objs[b]
  BY <1>1, <1>2, <1>3, MsgIs
<1>5. q \in Seq(Frame)
  <2>1. q \in [1 .. m -> Frame]
    BY <1>2, <1>3, <1>4 DEF Adds
  <2> QED BY <2>1
<1> HIDE DEF q
<1>6. AddsOnce(q)
  BY <1>2, <1>3, <1>4 DEF AddsOnce
<1>7. \A f \in ToSet(q) : f.t = "add" /\ f.o \in objs[b] /\ f.o \in Serves[b] /\ f.c = None
  BY <1>1, <1>3, <1>4 DEF ToSet
<1>8. s # << >> => Last(s) \in Objects
  <2>1. s \in Seq(Objects)
    BY <1>1, <1>2
  <2> QED BY <2>1 DEF Last
<1> QED BY <1>5, <1>6, <1>7, <1>8 DEF q

\* The new connection of a bus that was off line.
LEMMA ReconnectIs ==
    ASSUME Base, NEW b \in Buses, Reconnect(b)
    PROVE  \E s \in SetToSeqs(objs[b]) :
              /\ Opened(conns, conns', b, Adds(s))
              /\ blob' = [blob EXCEPT ![b] = IF s = << >> THEN @ ELSE Last(s)]
<1>1. PICK cn \in NewConns(b), s \in SetToSeqs(objs[b]) :
         /\ conns' = [cn EXCEPT ![Len(cn)].up = Adds(s)]
         /\ blob' = [blob EXCEPT ![b] = IF s = << >> THEN @ ELSE Last(s)]
  BY DEF Reconnect, Adds
<1>2. Adds(s) \in Seq(Frame) /\ IsConns(conns)
  BY AddsIs DEF Base, Sound
<1>3. Opened(conns, conns', b, Adds(s))
  BY <1>1, <1>2, NewConnsIs
<1> QED BY <1>1, <1>3

\* The timer connects again.
LEMMA ReconnectBase ==
    ASSUME Base, NEW b \in Buses, Reconnect(b)
    PROVE  Base'
<1>1. PICK s \in SetToSeqs(objs[b]) :
         /\ Opened(conns, conns', b, Adds(s))
         /\ blob' = [blob EXCEPT ![b] = IF s = << >> THEN @ ELSE Last(s)]
  BY ReconnectIs
<1>2. Sound(conns')
  BY <1>1, SoundOpened, AddsIs DEF Base
<1> DEFINE n == Len(conns) + 1
<1>3. link' = [link EXCEPT ![b] = n] /\ link \in [Buses -> Nat] /\ LinksOwn(conns, link)
  BY DEF Reconnect, Base, Shape
<1> HIDE DEF n
<1>4. LinksOwn(conns', link') /\ link' \in [Buses -> Nat]
  BY <1>1, <1>3, LinksOpened DEF n
<1>5. IsNodes(obj_map')
  BY DEF Reconnect, Base, busdVars
<1>6. blob' \in [Buses -> Objects \cup {None, NoId}]
  <2>1. s # << >> => Last(s) \in Objects
    BY AddsIs
  <2> DEFINE v == Last(s)
  <2>2. CASE s = << >>
    BY <1>1, <2>2 DEF Base, Shape
  <2>3. CASE s # << >>
    <3>1. v \in Objects /\ blob' = [blob EXCEPT ![b] = v]
      BY <1>1, <2>1, <2>3
    <3> QED BY <3>1 DEF Base, Shape
  <2> QED BY <2>2, <2>3
<1>7. Shape'
  BY <1>4, <1>6 DEF Reconnect, busdVars, Base, Shape
<1> QED BY <1>2, <1>4, <1>5, <1>7 DEF Base

\* An addition is confirmed.
LEMMA BusAddReplyBase ==
    ASSUME Base, NEW b \in Buses, NEW k \in DOMAIN conns, BusAddReply(b, k)
    PROVE  Base'
<1> DEFINE cn == TakeDown(k)  o == Head(conns[k].down).o
<1>1. /\ conns' = [cn EXCEPT ![k].acked = @ \cup {o}] /\ Gets(b, k, "add_reply")
      /\ link' = link /\ obj_map' = obj_map
  BY DEF BusAddReply, busdVars
<1>2. Sound(cn) /\ Same(conns, cn) /\ k \in DOMAIN cn /\ o \in Objects
  BY <1>1, GetsIs DEF Base, FrameOK
<1> HIDE DEF cn, o
<1>3. Kept(cn, conns')
  BY <1>1, <1>2, AckedIs DEF Sound
<1>4. Sound(conns') /\ Like(conns, conns')
  BY <1>2, <1>3, SoundKept, SameTrans DEF Same, Kept
<1>5. LinksOwn(conns', link')
  BY <1>1, <1>4, LinksLike DEF Base
<1>6. Shape'
  BY DEF BusAddReply, busdVars, Base, Shape
<1> QED BY <1>1, <1>4, <1>5, <1>6 DEF Base

\* The answer to a lookup.
LEMMA BusLookupReplyBase ==
    ASSUME Base, NEW b \in Buses, NEW k \in DOMAIN conns, BusLookupReply(b, k)
    PROVE  Base'
<1> DEFINE cn == TakeDown(k)
<1>1. link' = link /\ obj_map' = obj_map /\ Gets(b, k, "lookup_reply")
  BY DEF BusLookupReply, busdVars
<1>2. Sound(cn) /\ Same(conns, cn) /\ k \in DOMAIN cn /\ Head(conns[k].down) \in Frame
  BY <1>1, GetsIs DEF Base
<1>3. conns' = cn \/ \E n \in Received(cn[k].down) : conns' = DropDown(cn, k, n)
  BY DEF BusLookupReply
<1> HIDE DEF cn
<1>4. Sound(conns') /\ Like(conns, conns')
  BY <1>2, <1>3, DropIs, SoundKept, SameTrans DEF Same, Sound
<1>5. LinksOwn(conns', link')
  BY <1>1, <1>4, LinksLike DEF Base
<1>6. Head(conns[k].down).c \in Calls \cup {None}
  BY <1>2 DEF Frame
<1>7. Shape'
  BY <1>6 DEF BusLookupReply, busdVars, Base, Shape
<1> QED BY <1>1, <1>4, <1>5, <1>7 DEF Base

\* The answer to a call.
LEMMA BusReplyBase ==
    ASSUME Base, NEW b \in Buses, NEW k \in DOMAIN conns, BusReply(b, k)
    PROVE  Base'
<1> DEFINE cn == TakeDown(k)
<1>1. link' = link /\ obj_map' = obj_map /\ Gets(b, k, "reply") /\ conns' = cn
  BY DEF BusReply, busdVars
<1>2. Sound(cn) /\ Same(conns, cn) /\ k \in DOMAIN cn /\ Head(conns[k].down) \in Frame
  BY <1>1, GetsIs DEF Base
<1>3. LinksOwn(conns', link')
  BY <1>1, <1>2, LinksLike DEF Base, Same
<1>4. Head(conns[k].down).c \in Calls \cup {None}
  BY <1>2 DEF Frame
<1>5. Shape'
  BY <1>4 DEF BusReply, busdVars, Base, Shape
<1> QED BY <1>1, <1>2, <1>3, <1>5 DEF Base

\* A method is called and its result sent back.
LEMMA BusForwardBase ==
    ASSUME Base, NEW b \in Buses, NEW k \in DOMAIN conns, BusForward(b, k)
    PROVE  Base'
<1> DEFINE cn == TakeDown(k)  h == Head(conns[k].down)
           f == Msg("forward_reply", h.o, h.c, h.fd)
<1>1. /\ link' = link /\ obj_map' = obj_map /\ Gets(b, k, "forward")
      /\ conns' = cn \/ conns' = UpTo(cn, k, f)
  BY DEF BusForward, busdVars
<1>2. Sound(cn) /\ Same(conns, cn) /\ k \in DOMAIN cn /\ h \in Frame
  BY <1>1, GetsIs DEF Base
<1>3. /\ h.o \in Objects \cup {None, NoId} /\ h.c \in Calls \cup {None} /\ h.fd \in Fds \cup {0}
  BY <1>2 DEF Frame
<1>4. f \in Frame /\ f.t = "forward_reply"
  BY <1>3, MsgIs
<1> HIDE DEF cn, h, f
<1>5. FrameOK(cn[k], "up", f)
  BY <1>4 DEF FrameOK
<1>6. Sound(conns') /\ Like(conns, conns')
  BY <1>1, <1>2, <1>4, <1>5, SoundUpTo, SameTrans DEF Same
<1>7. LinksOwn(conns', link')
  BY <1>1, <1>6, LinksLike DEF Base
<1>8. Shape'
  BY DEF BusForward, busdVars, Base, Shape
<1> QED BY <1>1, <1>6, <1>7, <1>8 DEF Base

\* The answer to a ping.
LEMMA BusPongBase ==
    ASSUME Base, NEW b \in Buses, NEW k \in DOMAIN conns, BusPong(b, k)
    PROVE  Base'
<1>1. link' = link /\ obj_map' = obj_map /\ Gets(b, k, "pong") /\ conns' = TakeDown(k)
  BY DEF BusPong, busdVars
<1>2. Sound(conns') /\ Same(conns, conns')
  BY <1>1, GetsIs DEF Base
<1>3. LinksOwn(conns', link')
  BY <1>1, <1>2, LinksLike DEF Base, Same
<1>4. Shape'
  BY DEF BusPong, busdVars, Base, Shape
<1> QED BY <1>1, <1>2, <1>3, <1>4 DEF Base

\* The bus's end of a connection that has ended is closed.
LEMMA BusEofIs ==
    ASSUME Base, NEW b \in Buses, NEW k \in DOMAIN conns, BusEof(b, k)
    PROVE  /\ Kept(TakeDown(k), conns') /\ SameBusd(TakeDown(k), conns') /\ SameAcks(TakeDown(k), conns')
           /\ ~conns'[k].peer /\ \A l \in DOMAIN conns : l # k => conns'[l] = TakeDown(k)[l]
<1> DEFINE cn == TakeDown(k)
<1>1. conns' = [cn EXCEPT ![k].peer = FALSE] /\ Gets(b, k, "eof")
  BY DEF BusEof
<1>2. Sound(cn) /\ Same(conns, cn) /\ k \in DOMAIN cn
  BY <1>1, GetsIs DEF Base
<1> HIDE DEF cn
<1> QED BY <1>1, <1>2, EndsIs DEF Sound, Same, Like, cn

\* The bus reads the end of its connection.
LEMMA BusEofBase ==
    ASSUME Base, NEW b \in Buses, NEW k \in DOMAIN conns, BusEof(b, k)
    PROVE  Base'
<1> DEFINE cn == TakeDown(k)
<1>1. obj_map' = obj_map /\ Gets(b, k, "eof") /\ link' = [link EXCEPT ![b] = 0] /\ link \in [Buses -> Nat]
  BY DEF BusEof, busdVars, Base, Shape
<1>2. Sound(cn) /\ Same(conns, cn) /\ Kept(cn, conns')
  BY <1>1, GetsIs, BusEofIs DEF Base
<1> HIDE DEF cn
<1>3. Sound(conns') /\ Like(conns, conns')
  BY <1>2, SoundKept, SameTrans DEF Same, Kept
<1>4. LinksOwn(conns', link') /\ link' \in [Buses -> Nat]
  BY <1>1, <1>3, LinksClosed DEF Base
<1>5. Shape'
  BY <1>4 DEF BusEof, busdVars, Base, Shape
<1> QED BY <1>1, <1>3, <1>4, <1>5 DEF Base

\* The steps of the daemon leave the buses alone.
LEMMA BusdBase ==
    ASSUME Base, UNCHANGED <<busd_up, busVars, failures>>, lost' \in BOOLEAN,
           IsNodes(obj_map'), Sound(conns'), Like(conns, conns')
    PROVE  Base'
<1>1. LinksOwn(conns', link')
  BY LinksLike DEF Base, busVars
<1>2. Shape'
  BY DEF busVars, Base, Shape
<1> QED BY <1>1, <1>2 DEF Base

\* The daemon adds a node.
LEMMA BusdAddBase ==
    ASSUME Base, NEW k \in DOMAIN conns, BusdAdd(k)
    PROVE  Base'
<1> DEFINE cn == TakeUp(k)  h == Head(conns[k].up)  f == Msg("add_reply", h.o, None, 0)
           n == [o |-> h.o, fd |-> conns[k].fd, live |-> TRUE, over |-> Len(obj_map) > 1]
<1>1. /\ Comes(k, "add") /\ obj_map' = Append(obj_map, n) /\ conns' = DownTo(cn, conns[k].fd, f)
      /\ UNCHANGED <<busd_up, busVars, failures, lost>>
  BY DEF BusdAdd
<1>2. Sound(cn) /\ Same(conns, cn) /\ h.o \in Serves[conns[k].bus]
  BY <1>1, ComesIs DEF Base, FrameOK
<1>3. conns[k] \in Conn
  BY ConnIs DEF Base, Sound
<1>4. h.o \in Objects /\ conns[k].fd \in Fds
  BY <1>2, <1>3, ShapeAssumption DEF Conn
<1>5. IsNodes(obj_map')
  <2>1. n \in Node
    BY <1>4 DEF Node
  <2> HIDE DEF n
  <2> QED BY <1>1, <2>1 DEF Base, IsNodes
<1>6. f \in Frame /\ f.t = "add_reply" /\ f.o = h.o
  BY <1>4, MsgIs
<1> HIDE DEF cn, h, f
<1>7. Sound(conns') /\ Like(conns, conns')
  BY <1>1, <1>2, <1>4, <1>6, SoundDownTo, SameTrans DEF Same
<1>8. lost' \in BOOLEAN
  BY <1>1 DEF Base, Shape
<1> QED BY <1>1, <1>5, <1>7, <1>8, BusdBase

\* The daemon looks an object up.
LEMMA BusdLookupBase ==
    ASSUME Base, NEW k \in DOMAIN conns, BusdLookup(k)
    PROVE  Base'
<1> DEFINE cn == TakeUp(k)  h == Head(conns[k].up)  f == Msg("lookup_reply", h.o, h.c, 0)
<1>1. /\ Comes(k, "lookup") /\ UNCHANGED <<busd_up, busVars, failures, obj_map>>
      /\ \/ conns' = cn \/ conns' = DownTo(cn, conns[k].fd, f)
         \/ \E n \in Received(cn[k].up) : conns' = DropUp(cn, k, n)
  BY DEF BusdLookup, busdVars
<1>2. Sound(cn) /\ Same(conns, cn) /\ h \in Frame /\ k \in DOMAIN cn
  BY <1>1, ComesIs DEF Base
<1>3. f \in Frame /\ f.t = "lookup_reply"
  <2>1. h.o \in Objects \cup {None, NoId} /\ h.c \in Calls \cup {None}
    BY <1>2 DEF Frame
  <2> QED BY <2>1, MsgIs
<1>4. lost' \in BOOLEAN
  BY DEF BusdLookup, Base, Shape
<1> HIDE DEF cn, f
<1>5. Sound(conns') /\ Like(conns, conns')
  <2>1. CASE conns' = cn
    BY <1>2, <2>1 DEF Same
  <2>2. CASE conns' = DownTo(cn, conns[k].fd, f)
    BY <1>2, <1>3, <2>2, SoundDownTo, SameTrans DEF Same
  <2>3. ASSUME NEW n \in Received(cn[k].up), conns' = DropUp(cn, k, n)
        PROVE  Sound(conns') /\ Like(conns, conns')
    BY <1>2, <2>3, DropIs, SoundKept, SameTrans DEF Same, Sound
  <2> QED BY <1>1, <2>1, <2>2, <2>3
<1>6. IsNodes(obj_map')
  BY <1>1 DEF Base
<1> QED BY <1>1, <1>4, <1>5, <1>6, BusdBase

\* The daemon forwards a call or answers for an unknown object.
LEMMA BusdInvokeBase ==
    ASSUME Base, NEW k \in DOMAIN conns, BusdInvoke(k)
    PROVE  Base'
<1> DEFINE cn == TakeUp(k)  h == Head(conns[k].up)
           f == Msg("reply", h.o, h.c, 0)  g == Msg("forward", h.o, h.c, conns[k].fd)
<1>1. /\ Comes(k, "invoke") /\ UNCHANGED <<busd_up, busVars, failures, obj_map>>
      /\ \/ \E n \in Received(cn[k].up) : conns' = DownTo(DropUp(cn, k, n), conns[k].fd, f)
         \/ \E fd \in Fds : conns' = DownTo(cn, fd, g)
  BY DEF BusdInvoke, busdVars
<1>2. Sound(cn) /\ Same(conns, cn) /\ h \in Frame /\ k \in DOMAIN cn
  BY <1>1, ComesIs DEF Base
<1>3. f \in Frame /\ f.t = "reply" /\ g \in Frame /\ g.t = "forward"
  <2>1. h.o \in Objects \cup {None, NoId} /\ h.c \in Calls \cup {None}
    BY <1>2 DEF Frame
  <2>2. conns[k].fd \in Fds
    BY ConnIs DEF Base, Sound, Conn
  <2> QED BY <2>1, <2>2, MsgIs
<1>4. lost' \in BOOLEAN
  BY DEF BusdInvoke, Base, Shape
<1> HIDE DEF cn, f, g
<1>5. Sound(conns') /\ Like(conns, conns')
  <2>1. ASSUME NEW n \in Received(cn[k].up), conns' = DownTo(DropUp(cn, k, n), conns[k].fd, f)
        PROVE  Sound(conns') /\ Like(conns, conns')
    <3>1. Sound(DropUp(cn, k, n)) /\ Same(conns, DropUp(cn, k, n))
      BY <1>2, DropIs, SoundKept, SameTrans DEF Sound
    <3> QED BY <1>3, <2>1, <3>1, SoundDownTo, SameTrans DEF Same
  <2>2. ASSUME NEW fd \in Fds, conns' = DownTo(cn, fd, g)
        PROVE  Sound(conns') /\ Like(conns, conns')
    BY <1>2, <1>3, <2>2, SoundDownTo, SameTrans DEF Same
  <2> QED BY <1>1, <2>1, <2>2
<1>6. IsNodes(obj_map')
  BY <1>1 DEF Base
<1> QED BY <1>1, <1>4, <1>5, <1>6, BusdBase

\* The daemon sends a result to the caller's descriptor.
LEMMA BusdForwardReplyBase ==
    ASSUME Base, NEW k \in DOMAIN conns, BusdForwardReply(k)
    PROVE  Base'
<1> DEFINE cn == TakeUp(k)  h == Head(conns[k].up)  f == Msg("reply", h.o, h.c, 0)
<1>1. /\ Comes(k, "forward_reply") /\ UNCHANGED <<busd_up, busVars, failures, obj_map, lost>>
      /\ conns' = DownTo(cn, h.fd, f)
  BY DEF BusdForwardReply, busdVars
<1>2. Sound(cn) /\ Same(conns, cn) /\ h \in Frame
  BY <1>1, ComesIs DEF Base
<1>3. f \in Frame /\ f.t = "reply"
  <2>1. h.o \in Objects \cup {None, NoId} /\ h.c \in Calls \cup {None}
    BY <1>2 DEF Frame
  <2> QED BY <2>1, MsgIs
<1> HIDE DEF cn, h, f
<1>4. Sound(conns') /\ Like(conns, conns')
  BY <1>1, <1>2, <1>3, SoundDownTo, SameTrans DEF Same
<1>5. IsNodes(obj_map') /\ lost' \in BOOLEAN
  BY <1>1 DEF Base, Shape
<1> QED BY <1>1, <1>4, <1>5, BusdBase

\* The daemon answers a ping.
LEMMA BusdPingBase ==
    ASSUME Base, NEW k \in DOMAIN conns, BusdPing(k)
    PROVE  Base'
<1> DEFINE cn == TakeUp(k)  f == Msg("pong", None, None, 0)
<1>1. /\ Comes(k, "ping") /\ UNCHANGED <<busd_up, busVars, failures, obj_map, lost>>
      /\ conns' = DownTo(cn, conns[k].fd, f)
  BY DEF BusdPing, busdVars
<1>2. Sound(cn) /\ Same(conns, cn)
  BY <1>1, ComesIs DEF Base
<1>3. f \in Frame /\ f.t = "pong"
  BY MsgIs
<1> HIDE DEF cn, f
<1>4. Sound(conns') /\ Like(conns, conns')
  BY <1>1, <1>2, <1>3, SoundDownTo, SameTrans DEF Same
<1>5. IsNodes(obj_map') /\ lost' \in BOOLEAN
  BY <1>1 DEF Base, Shape
<1> QED BY <1>1, <1>4, <1>5, BusdBase

\* The daemon's end of a connection that has ended is closed.
LEMMA BusdEofIs ==
    ASSUME Base, NEW k \in DOMAIN conns, BusdEof(k)
    PROVE  /\ Kept(TakeUp(k), conns') /\ SamePeer(TakeUp(k), conns') /\ SameAcks(TakeUp(k), conns')
           /\ ~conns'[k].busd /\ \A l \in DOMAIN conns : l # k => conns'[l] = TakeUp(k)[l]
<1> DEFINE cn == TakeUp(k)
<1>1. conns' = [cn EXCEPT ![k].busd = FALSE] /\ Comes(k, "eof")
  BY DEF BusdEof
<1>2. Sound(cn) /\ Same(conns, cn) /\ k \in DOMAIN cn
  BY <1>1, ComesIs DEF Base
<1> HIDE DEF cn
<1> QED BY <1>1, <1>2, EndsIs DEF Sound, Same, Like, cn

\* The daemon reads the end of a connection.
LEMMA BusdEofBase ==
    ASSUME Base, NEW k \in DOMAIN conns, BusdEof(k)
    PROVE  Base'
<1> DEFINE cn == TakeUp(k)
<1>1. Comes(k, "eof") /\ UNCHANGED <<busd_up, busVars, failures, lost>> /\ Release(conns[k].fd)
  BY DEF BusdEof
<1>2. Sound(cn) /\ Same(conns, cn) /\ Kept(cn, conns')
  BY <1>1, ComesIs, BusdEofIs DEF Base
<1> HIDE DEF cn
<1>3. Sound(conns') /\ Like(conns, conns')
  BY <1>2, SoundKept, SameTrans DEF Same, Kept
<1>4. IsNodes(obj_map') /\ lost' \in BOOLEAN
  BY <1>1, ReleaseNodes DEF Base, Shape
<1> QED BY <1>1, <1>3, <1>4, BusdBase

\* A process that dies: the end of its stream is sent, its end closed.
LEMMA CrashSteps ==
    ASSUME Base, NEW b \in Buses, Crash(b)
    PROVE  \E cn : /\ link[b] # 0 /\ link[b] \in DOMAIN conns /\ conns[link[b]].bus = b /\ b \in MayCrash
                   /\ cn = UpTo(conns, link[b], Eof) /\ Sound(cn) /\ Same(conns, cn)
                   /\ Kept(cn, conns') /\ SameBusd(cn, conns') /\ SameAcks(cn, conns')
                   /\ ~conns'[link[b]].peer
                   /\ \A l \in DOMAIN conns : l # link[b] => conns'[l] = cn[l]
<1> DEFINE cn == UpTo(conns, link[b], Eof)
<1>1. /\ link[b] # 0 /\ b \in MayCrash
      /\ conns' = [cn EXCEPT ![link[b]] = [@ EXCEPT !.down = << >>, !.peer = FALSE]]
  BY DEF Crash
<1>2. link[b] \in DOMAIN conns /\ conns[link[b]].bus = b
  BY <1>1, LinkIs
<1>3. Eof \in Frame /\ Eof.t = "eof"
  BY MsgIs DEF Eof
<1>4. FrameOK(conns[link[b]], "up", Eof)
  BY <1>1, <1>2, <1>3 DEF FrameOK
<1>5. Sound(cn) /\ Same(conns, cn)
  BY <1>2, <1>3, <1>4, SoundUpTo DEF Base
<1>6. IsConns(cn) /\ link[b] \in DOMAIN cn /\ DOMAIN cn = DOMAIN conns
  BY <1>2, <1>5 DEF Sound, Same, Like
<1> HIDE DEF cn
<1>7. /\ Kept(cn, conns') /\ SameBusd(cn, conns') /\ SameAcks(cn, conns') /\ ~conns'[link[b]].peer
      /\ \A l \in DOMAIN conns : l # link[b] => conns'[l] = cn[l]
  <2>1. PICK j : j = link[b]
    OBVIOUS
  <2>2. IsConns(cn) /\ j \in DOMAIN cn /\ DOMAIN cn = DOMAIN conns
    BY <1>6, <2>1
  <2>3. conns' = [cn EXCEPT ![j] = [@ EXCEPT !.down = << >>, !.peer = FALSE]]
    BY <1>1, <2>1
  <2>4. /\ Kept(cn, conns') /\ SameBusd(cn, conns') /\ SameAcks(cn, conns') /\ ~conns'[j].peer
        /\ \A l \in DOMAIN cn : l # j => conns'[l] = cn[l]
    BY <2>2, <2>3, CrashIs
  <2> QED BY <2>1, <2>2, <2>4
<1> QED BY <1>1, <1>2, <1>5, <1>7 DEF cn

\* A process dies.
LEMMA CrashBase ==
    ASSUME Base, NEW b \in Buses, Crash(b)
    PROVE  Base'
<1>1. PICK cn : Sound(cn) /\ Same(conns, cn) /\ Kept(cn, conns')
  BY CrashSteps
<1>2. Sound(conns') /\ Like(conns, conns')
  BY <1>1, SoundKept, SameTrans DEF Same, Kept
<1>3. obj_map' = obj_map /\ link' = [link EXCEPT ![b] = 0] /\ link \in [Buses -> Nat]
  BY DEF Crash, busdVars, Base, Shape
<1>4. LinksOwn(conns', link') /\ link' \in [Buses -> Nat]
  BY <1>2, <1>3, LinksClosed DEF Base
<1>5. Shape'
  <2>1. failures' \in 0 .. MaxFailures
    BY ShapeAssumption DEF Crash, Base, Shape
  <2>2. call' \in [Calls -> {"new", "waiting", "answered", "done", "dead"}]
    BY DEF Crash, Base, Shape
  <2>3. /\ objs' \in [Buses -> SUBSET Objects]
        /\ \A a \in Buses : objs'[a] \subseteq Serves[a] /\ IsFiniteSet(objs'[a])
    BY FS_EmptySet DEF Crash, Base, Shape
  <2> QED BY <1>4, <2>1, <2>2, <2>3 DEF Crash, busdVars, Base, Shape
<1> QED BY <1>2, <1>3, <1>4, <1>5 DEF Base

\* The daemon dies.
LEMMA BusdCrashBase ==
    ASSUME Base, BusdCrash
    PROVE  Base'
<1> DEFINE dn == conns'
<1>1. /\ Like(conns, dn) /\ \A k \in DOMAIN conns : ~dn[k].busd
      /\ \A k \in DOMAIN conns, d \in Dirs : \A g \in InFlight(dn, k, d) :
            g \in InFlight(conns, k, d) \/ (d = "down" /\ g = Eof)
  BY BusdCrashIs DEF Base, Sound
<1> HIDE DEF dn
<1>2. Eof.t = "eof"
  BY MsgIs DEF Eof
<1>3. Sound(dn)
  <2>1. IsConns(dn) /\ FdsApart(dn)
    BY <1>1 DEF Like, FdsApart
  <2>2. ASSUME NEW k \in DOMAIN dn, NEW d \in Dirs, NEW f \in InFlight(dn, k, d)
        PROVE  FrameOK(dn[k], d, f)
    <3>1. k \in DOMAIN conns /\ dn[k].bus = conns[k].bus /\ ~dn[k].busd
      BY <1>1 DEF Like
    <3>2. CASE f \in InFlight(conns, k, d)
      <4>1. FrameOK(conns[k], d, f)
        BY <3>1, <3>2 DEF Base, Sound, FramesOK
      <4> QED BY <3>1, <4>1 DEF FrameOK
    <3>3. CASE d = "down" /\ f = Eof
      BY <1>2, <3>1, <3>3 DEF FrameOK
    <3> QED BY <1>1, <3>1, <3>2, <3>3
  <2> QED BY <2>1, <2>2 DEF Sound, FramesOK
<1>4. LinksOwn(dn, link') /\ IsNodes(obj_map')
  <2>1. link' = link /\ obj_map' = << >>
    BY DEF BusdCrash, busVars
  <2>2. LinksOwn(dn, link)
    BY <1>1, LinksLike DEF Base
  <2> QED BY <2>1, <2>2 DEF IsNodes
<1>5. Shape'
  <2>1. failures' \in 0 .. MaxFailures
    <3>1. failures' = failures + 1 /\ failures < MaxFailures
      BY DEF BusdCrash
    <3>2. failures \in 0 .. MaxFailures /\ MaxFailures \in Nat
      BY ShapeAssumption DEF Base, Shape
    <3> QED BY <3>1, <3>2
  <2> QED BY <2>1 DEF BusdCrash, busVars, Base, Shape
<1> QED BY <1>3, <1>4, <1>5 DEF Base, dn

\* The daemon is started again.
LEMMA BusdStartBase ==
    ASSUME Base, BusdStart
    PROVE  Base'
<1>1. conns' = conns /\ link' = link /\ obj_map' = obj_map
  BY DEF BusdStart, busVars
<1>2. Shape'
  BY DEF BusdStart, busVars, Base, Shape
<1> QED BY <1>1, <1>2 DEF Base

\* What holds without hypotheses holds in every state.
LEMMA InitBase == Init => Base
<1> SUFFICES ASSUME Init PROVE Base
  OBVIOUS
<1>1. conns = << >> /\ obj_map = << >>
  BY DEF Init
<1>2. Sound(conns) /\ IsNodes(obj_map)
  BY <1>1 DEF Sound, IsConns, FdsApart, FramesOK, IsNodes
<1>3. LinksOwn(conns, link)
  BY DEF Init, LinksOwn
<1>4. Shape
  <2>1. failures \in 0 .. MaxFailures
    BY ShapeAssumption DEF Init
  <2> QED BY <2>1, FS_EmptySet DEF Init, Shape
<1> QED BY <1>2, <1>3, <1>4 DEF Base

\* Every step keeps what holds without hypotheses.
LEMMA BaseKept ==
    ASSUME Base, [Next]_vars
    PROVE  Base'
<1>1. CASE \E b \in Buses : \/ Create(b) \/ Ping(b) \/ Reconnect(b) \/ Crash(b)
                            \/ \E o \in Objects : AddObject(b, o)
  BY <1>1, CreateBase, PingBase, ReconnectBase, CrashBase, AddObjectBase
<1>2. CASE \E b \in Buses : BusCallback(b)
  <2>1. PICK b \in Buses, k \in DOMAIN conns :
           \/ BusAddReply(b, k) \/ BusLookupReply(b, k) \/ BusReply(b, k)
           \/ BusForward(b, k) \/ BusPong(b, k) \/ BusEof(b, k)
    BY <1>2 DEF BusCallback
  <2> QED BY <2>1, BusAddReplyBase, BusLookupReplyBase, BusReplyBase, BusForwardBase, BusPongBase,
             BusEofBase
<1>3. CASE \E c \in Calls : StartCall(c) \/ Return(c)
  BY <1>3, StartCallBase, ReturnBase
<1>4. CASE \E k \in DOMAIN conns : BusdCallback(k)
  BY <1>4, BusdAddBase, BusdLookupBase, BusdInvokeBase, BusdForwardReplyBase, BusdPingBase,
     BusdEofBase DEF BusdCallback
<1>5. CASE BusdCrash \/ BusdStart
  BY <1>5, BusdCrashBase, BusdStartBase
<1>6. CASE UNCHANGED vars
  <2>1. /\ conns' = conns /\ obj_map' = obj_map /\ link' = link
        /\ UNCHANGED <<busd_up, busVars, failures, lost>>
    BY <1>6 DEF vars, busdVars, busVars
  <2>2. Shape'
    BY <2>1 DEF busVars, Base, Shape
  <2> QED BY <2>1, <2>2 DEF Base
<1> QED BY <1>1, <1>2, <1>3, <1>4, <1>5, <1>6 DEF Next

-----------------------------------------------------------------------------
(***************************************************************************)
(* Every step keeps what OwnReply rests on, if callers stay.               *)
(***************************************************************************)

\* Calls that no frame names may change.
LEMMA FlowCalls ==
    ASSUME NEW cn, NEW cl, NEW rm, NEW dl, NEW sm, Flow(cn, cl, rm),
           \A x \in Calls : Pending(cl, rm, x) /\ ~Free(cn, x) => Pending(dl, sm, x)
    PROVE  Flow(cn, dl, sm)
<1>1. ASSUME NEW k \in DOMAIN cn, NEW d \in Dirs, NEW f \in InFlight(cn, k, d), f.c # None
      PROVE  Pending(dl, sm, f.c)
  <2>1. f \in Frame
    BY InFlightFrames DEF Flow, Sound
  <2>2. f.c \in Calls
    BY <1>1, <2>1 DEF Frame
  <2> QED BY <1>1, <2>2 DEF Flow, NamesPending, Free
<1> QED BY <1>1 DEF Flow, NamesPending

\* A call that is not waiting is not named.
LEMMA NotNamed ==
    ASSUME NEW cn, NEW cl, NEW rm, Flow(cn, cl, rm), NEW c \in Calls, cl[c] # "waiting"
    PROVE  Free(cn, c)
BY ShapeAssumption DEF Flow, NamesPending, Pending, Free

\* Steps that leave the calls alone.
LEMMA FlowAnswering ==
    ASSUME Answering, Flow(conns', call, req_map), UNCHANGED <<req_map, call, got>>
    PROVE  Answering'
BY DEF Answering, OwnReply

\* A new connection names no call.
LEMMA CreateAnswering ==
    ASSUME Base, Answering, NEW b \in Buses, Create(b)
    PROVE  Answering'
<1>1. Opened(conns, conns', b, << >>)
  <2>1. conns' \in NewConns(b) /\ IsConns(conns) /\ << >> \in Seq(Frame)
    BY EmptyKept DEF Create, Base, Sound
  <2> QED BY <2>1, NewConnsIs
<1>2. Flow(conns', call, req_map)
  BY <1>1, FlowOpened, EmptyKept DEF Answering
<1>3. UNCHANGED <<req_map, call, got>>
  BY DEF Create
<1> QED BY <1>2, <1>3, FlowAnswering

\* Nor does one that adds every object again.
LEMMA ReconnectAnswering ==
    ASSUME Base, Answering, NEW b \in Buses, Reconnect(b)
    PROVE  Answering'
<1>1. PICK s \in SetToSeqs(objs[b]) : Opened(conns, conns', b, Adds(s))
  BY ReconnectIs
<1>2. Flow(conns', call, req_map)
  BY <1>1, FlowOpened, AddsIs DEF Answering
<1>3. UNCHANGED <<req_map, call, got>>
  BY DEF Reconnect
<1> QED BY <1>2, <1>3, FlowAnswering

\* An addition names no call.
LEMMA AddObjectAnswering ==
    ASSUME Base, Answering, NEW b \in Buses, NEW o \in Objects, AddObject(b, o)
    PROVE  Answering'
<1> DEFINE f == Msg("add", o, None, 0)
<1>1. /\ link[b] \in DOMAIN conns /\ conns[link[b]].bus = b /\ o \in Serves[b]
      /\ conns' = UpTo(conns, link[b], f) /\ UNCHANGED <<req_map, call, got>>
  BY LinkIs DEF AddObject
<1>2. f \in Frame /\ f.t = "add" /\ f.o = o /\ f.c = None
  BY MsgIs
<1> HIDE DEF f
<1>3. FrameOK(conns[link[b]], "up", f) /\ RouteOK(conns, conns[link[b]], f)
  BY <1>1, <1>2 DEF FrameOK, RouteOK
<1>4. Flow(conns', call, req_map)
  BY <1>1, <1>2, <1>3, FlowUpTo DEF Answering
<1> QED BY <1>1, <1>4, FlowAnswering

\* Nor does a ping.
LEMMA PingAnswering ==
    ASSUME Base, Answering, NEW b \in Buses, Ping(b)
    PROVE  Answering'
<1> DEFINE f == Msg("ping", NoId, None, 0)
<1>1. /\ link[b] \in DOMAIN conns /\ conns' = UpTo(conns, link[b], f) /\ UNCHANGED <<req_map, call, got>>
  BY LinkIs DEF Ping
<1>2. f \in Frame /\ f.t = "ping" /\ f.c = None
  BY MsgIs
<1> HIDE DEF f
<1>3. FrameOK(conns[link[b]], "up", f) /\ RouteOK(conns, conns[link[b]], f)
  BY <1>2 DEF FrameOK, RouteOK
<1>4. Flow(conns', call, req_map)
  BY <1>1, <1>2, <1>3, FlowUpTo DEF Answering
<1> QED BY <1>1, <1>4, FlowAnswering

\* A new call is named nowhere: its request is the only frame that names it.
LEMMA StartCallAnswering ==
    ASSUME Base, Answering, NEW c \in Calls, StartCall(c)
    PROVE  Answering'
<1> DEFINE b == Caller[c]
           t == IF Kind[c] = "lookup" THEN "lookup" ELSE "invoke"
           f == Msg(t, Named(c), c, 0)
<1>1. /\ b \in Buses /\ link[b] \in DOMAIN conns /\ conns[link[b]].bus = b
      /\ call[c] = "new" /\ MayStart(c) /\ got' = got
      /\ conns' = UpTo(conns, link[b], f)
      /\ req_map' = [req_map EXCEPT ![b] = @ \cup {c}] /\ call' = [call EXCEPT ![c] = "waiting"]
  BY NamedIs, LinkIs DEF StartCall
<1>2. f \in Frame /\ f.t = t /\ f.o = Named(c) /\ f.c = c /\ c # None
  BY NamedIs, MsgIs, ShapeAssumption
<1>3. FrameOK(conns[link[b]], "up", f)
  BY <1>2 DEF FrameOK
<1>4. RouteOK(conns, conns[link[b]], f)
  BY <1>1, <1>2, NamedIs DEF RouteOK
<1>5. Free(conns, c)
  BY <1>1, NotNamed DEF Answering
<1> HIDE DEF f
<1>6. req_map \in [Buses -> SUBSET Calls] /\ call \in [Calls -> {"new", "waiting", "answered", "done", "dead"}]
  BY DEF Base, Shape
<1>7. \A x \in Calls : Pending(call, req_map, x) /\ ~Free(conns, x) => Pending(call', req_map', x)
  <2> SUFFICES ASSUME NEW x \in Calls, Pending(call, req_map, x), ~Free(conns, x)
               PROVE  Pending(call', req_map', x)
    OBVIOUS
  <2>1. x # c
    BY <1>5
  <2>2. call'[x] = call[x]
    BY <1>1, <1>6, <2>1
  <2>3. \A a : a \in req_map[Caller[x]] => a \in req_map'[Caller[x]]
    BY <1>1, <1>6
  <2> QED BY <2>2, <2>3 DEF Pending
<1>8. Flow(conns, call', req_map')
  BY <1>7, FlowCalls DEF Answering
<1>9. Pending(call', req_map', c)
  BY <1>1, <1>6 DEF Pending
<1>10. Flow(conns', call', req_map')
  BY <1>1, <1>2, <1>3, <1>4, <1>5, <1>8, <1>9, FlowUpTo
<1>11. Keys(req_map')
  <2>1. \A d \in req_map[b] : Kind[d] # "lookup" /\ ~SameKey(c, d) /\ ~SameKey(d, c)
    BY <1>1 DEF MayStart, SameKey
  <2>2. Kind[c] = "lookup" => req_map[b] = {}
    BY <1>1 DEF MayStart
  <2>3. ASSUME NEW a \in Buses, NEW x \in req_map'[a], NEW d \in req_map'[a]
        PROVE  Caller[x] = a /\ (SameKey(x, d) \/ Kind[x] = "lookup" => x = d)
    <3>1. CASE x \in req_map[a] /\ d \in req_map[a]
      BY <3>1 DEF Answering, Keys
    <3>2. CASE a = b /\ x = c
      BY <1>1, <1>6, <2>1, <2>2, <2>3, <3>2
    <3>3. CASE a = b /\ d = c /\ x \in req_map[a]
      BY <2>1, <3>3 DEF Answering, Keys
    <3> QED BY <1>1, <1>6, <2>3, <3>1, <3>2, <3>3
  <2> QED BY <2>3 DEF Keys
<1> QED BY <1>1, <1>10, <1>11 DEF Answering, OwnReply

\* The call that returns is not named any more.
LEMMA ReturnAnswering ==
    ASSUME Base, Answering, NEW c \in Calls, Return(c)
    PROVE  Answering'
<1>1. /\ call[c] = "answered" /\ conns' = conns /\ got' = got
      /\ req_map' = [req_map EXCEPT ![Caller[c]] = @ \ {c}] /\ call' = [call EXCEPT ![c] = "done"]
  BY DEF Return
<1>2. req_map \in [Buses -> SUBSET Calls] /\ call \in [Calls -> {"new", "waiting", "answered", "done", "dead"}]
  BY DEF Base, Shape
<1>3. ASSUME NEW x \in Calls, Pending(call, req_map, x)
      PROVE  Pending(call', req_map', x)
  <2>1. x # c
    BY <1>1, <1>3 DEF Pending
  <2> QED BY <1>1, <1>2, <1>3, <2>1 DEF Pending
<1>4. Flow(conns', call', req_map')
  <2>1. \A x \in Calls : Pending(call, req_map, x) /\ ~Free(conns, x) => Pending(call', req_map', x)
    BY <1>3
  <2>2. Flow(conns, call', req_map')
    BY <2>1, FlowCalls DEF Answering
  <2> QED BY <1>1, <2>2
<1>5. Keys(req_map')
  <2>1. \A a \in Buses : req_map'[a] \subseteq req_map[a]
    BY <1>1, <1>2
  <2> QED BY <2>1 DEF Answering, Keys
<1> QED BY <1>1, <1>4, <1>5 DEF Answering, OwnReply

\* What a bus's callback holds: a frame the flow has let go of.
LEMMA GetsFlow ==
    ASSUME Base, Answering, NEW b \in Buses, NEW k \in DOMAIN conns, NEW t, Gets(b, k, t)
    PROVE  /\ Flow(TakeDown(k), call, req_map) /\ k \in DOMAIN TakeDown(k)
           /\ InHand(TakeDown(k), k, "down", Head(conns[k].down), call, req_map)
           /\ TakeDown(k)[k].bus = b /\ Head(conns[k].down).t = t
<1>1. Taken(conns, TakeDown(k), k, "down") /\ Same(conns, TakeDown(k)) /\ conns[k].bus = b
      /\ Head(conns[k].down) = Head(Queue(conns[k], "down")) /\ Head(conns[k].down).t = t
  BY GetsIs DEF Base
<1>2. Flow(TakeDown(k), call, req_map) /\ InHand(TakeDown(k), k, "down", Head(conns[k].down), call, req_map)
  BY <1>1, FlowTaken DEF Answering
<1> QED BY <1>1, <1>2 DEF Same, Like

\* What a callback of the daemon has in hand.
LEMMA ComesFlow ==
    ASSUME Base, Answering, NEW k \in DOMAIN conns, NEW t, Comes(k, t)
    PROVE  /\ Flow(TakeUp(k), call, req_map) /\ Same(conns, TakeUp(k)) /\ k \in DOMAIN TakeUp(k)
           /\ InHand(TakeUp(k), k, "up", Head(conns[k].up), call, req_map)
           /\ conns[k].busd /\ Head(conns[k].up).t = t
<1>1. Taken(conns, TakeUp(k), k, "up") /\ Same(conns, TakeUp(k)) /\ conns[k].busd
      /\ Head(conns[k].up) = Head(Queue(conns[k], "up")) /\ Head(conns[k].up).t = t
  BY ComesIs DEF Base
<1>2. Flow(TakeUp(k), call, req_map) /\ InHand(TakeUp(k), k, "up", Head(conns[k].up), call, req_map)
  BY <1>1, FlowTaken DEF Answering
<1> QED BY <1>1, <1>2 DEF Same, Like

\* A confirmation names no call.
LEMMA BusAddReplyAnswering ==
    ASSUME Base, Answering, NEW b \in Buses, NEW k \in DOMAIN conns, BusAddReply(b, k)
    PROVE  Answering'
<1> DEFINE cn == TakeDown(k)  h == Head(conns[k].down)
<1>1. /\ Gets(b, k, "add_reply") /\ conns' = [cn EXCEPT ![k].acked = @ \cup {h.o}]
      /\ UNCHANGED <<req_map, call, got>>
  BY DEF BusAddReply
<1>2. Flow(cn, call, req_map) /\ k \in DOMAIN cn /\ h.o \in Objects
  BY <1>1, GetsFlow DEF InHand, FrameOK
<1> HIDE DEF cn, h
<1>3. Kept(cn, conns') /\ SameBusd(cn, conns')
  BY <1>1, <1>2, AckedIs DEF Flow, Sound
<1>4. Flow(conns', call, req_map)
  BY <1>2, <1>3, FlowKept
<1> QED BY <1>1, <1>4, FlowAnswering

\* One pending lookup is all that is pending on its bus.
LEMMA BusLookupReplyAnswering ==
    ASSUME Base, Answering, NEW b \in Buses, NEW k \in DOMAIN conns, BusLookupReply(b, k)
    PROVE  Answering'
<1> DEFINE cn == TakeDown(k)  h == Head(conns[k].down)
           reqs == {c \in req_map[b] : Kind[c] = "lookup" /\ Target[c] = h.o}
<1>1. Gets(b, k, "lookup_reply") /\ req_map' = req_map
  BY DEF BusLookupReply
<1>2. /\ Flow(cn, call, req_map) /\ k \in DOMAIN cn /\ InHand(cn, k, "down", h, call, req_map)
      /\ cn[k].bus = b /\ h.t = "lookup_reply"
  BY <1>1, GetsFlow
<1>3. \/ UNCHANGED <<call, got>> /\ \E n \in Received(cn[k].down) : conns' = DropDown(cn, k, n)
      \/ \E c \in reqs : /\ call' = [call EXCEPT ![c] = "answered"] /\ got' = [got EXCEPT ![c] = h.c]
                         /\ conns' = cn
  BY DEF BusLookupReply
<1> HIDE DEF cn, h
<1>4. CASE UNCHANGED <<call, got>> /\ \E n \in Received(cn[k].down) : conns' = DropDown(cn, k, n)
  <2>1. PICK n \in Received(cn[k].down) : conns' = DropDown(cn, k, n)
    BY <1>4
  <2>2. Kept(cn, conns') /\ Same(cn, conns')
    BY <1>2, <2>1, DropIs DEF Flow, Sound
  <2>3. Flow(conns', call, req_map)
    BY <1>2, <2>2, FlowKept DEF Same
  <2> QED BY <1>1, <1>4, <2>3, FlowAnswering
<1>5. ASSUME NEW c \in reqs, call' = [call EXCEPT ![c] = "answered"], got' = [got EXCEPT ![c] = h.c],
             conns' = cn
      PROVE  Answering'
  <2>1. /\ h.c \in Calls /\ Caller[h.c] = b /\ Kind[h.c] = "lookup"
        /\ h.c # None /\ Free(cn, h.c) /\ Pending(call, req_map, h.c)
    BY <1>2, ShapeAssumption DEF InHand, RouteOK
  <2>2. c = h.c
    BY <1>5, <2>1 DEF Pending, Answering, Keys
  <2>3. /\ call \in [Calls -> {"new", "waiting", "answered", "done", "dead"}]
        /\ got \in [Calls -> Calls \cup {None}]
    BY DEF Base, Shape
  <2>4. \A x \in Calls : Pending(call, req_map, x) /\ ~Free(cn, x) => Pending(call', req_map, x)
    BY <1>5, <2>1, <2>2, <2>3 DEF Pending
  <2>5. Flow(conns', call', req_map')
    BY <1>1, <1>2, <1>5, <2>4, FlowCalls
  <2>6. OwnReply'
    BY <1>5, <2>1, <2>2, <2>3 DEF Answering, OwnReply
  <2> QED BY <1>1, <2>5, <2>6 DEF Answering
<1> QED BY <1>3, <1>4, <1>5

\* The request found under object@method is the one the reply answers.
LEMMA BusReplyAnswering ==
    ASSUME Base, Answering, NEW b \in Buses, NEW k \in DOMAIN conns, BusReply(b, k)
    PROVE  Answering'
<1> DEFINE cn == TakeDown(k)  h == Head(conns[k].down)
<1>1. Gets(b, k, "reply") /\ conns' = cn
  BY DEF BusReply
<1>2. /\ Flow(cn, call, req_map) /\ InHand(cn, k, "down", h, call, req_map)
      /\ cn[k].bus = b /\ h.t = "reply"
  BY <1>1, GetsFlow
<1>3. \/ UNCHANGED <<req_map, call, got>>
      \/ \E c \in Requests(b, h.o) :
            /\ got' = [got EXCEPT ![c] = h.c]
            /\ \/ call' = [call EXCEPT ![c] = "answered"] /\ req_map' = req_map
               \/ call' = [call EXCEPT ![c] = "done"] /\ req_map' = [req_map EXCEPT ![b] = @ \ {c}]
  BY DEF BusReply
<1> HIDE DEF cn, h
<1>4. CASE UNCHANGED <<req_map, call, got>>
  BY <1>1, <1>2, <1>4, FlowAnswering
<1>5. ASSUME NEW c \in Requests(b, h.o), got' = [got EXCEPT ![c] = h.c],
             \/ call' = [call EXCEPT ![c] = "answered"] /\ req_map' = req_map
             \/ call' = [call EXCEPT ![c] = "done"] /\ req_map' = [req_map EXCEPT ![b] = @ \ {c}]
      PROVE  Answering'
  <2>1. /\ h.c \in Calls /\ Caller[h.c] = b /\ Kind[h.c] # "lookup" /\ Target[h.c] = h.o
        /\ h.c # None /\ Free(cn, h.c) /\ Pending(call, req_map, h.c)
    BY <1>2, ShapeAssumption DEF InHand, RouteOK
  <2>2. c = h.c
    BY <1>5, <2>1 DEF Requests, Pending, Answering, Keys, SameKey
  <2>3. /\ call \in [Calls -> {"new", "waiting", "answered", "done", "dead"}]
        /\ got \in [Calls -> Calls \cup {None}] /\ req_map \in [Buses -> SUBSET Calls]
    BY DEF Base, Shape
  <2>4. ASSUME NEW x \in Calls, Pending(call, req_map, x), ~Free(cn, x)
        PROVE  Pending(call', req_map', x)
    <3>1. x # c /\ Caller[x] \in Buses
      BY <2>1, <2>2, <2>4, ShapeAssumption
    <3>2. CASE call' = [call EXCEPT ![c] = "answered"] /\ req_map' = req_map
      BY <2>3, <2>4, <3>1, <3>2 DEF Pending
    <3>3. CASE call' = [call EXCEPT ![c] = "done"] /\ req_map' = [req_map EXCEPT ![b] = @ \ {c}]
      BY <2>3, <2>4, <3>1, <3>3 DEF Pending
    <3> QED BY <1>5, <3>2, <3>3
  <2>5. Flow(conns', call', req_map')
    BY <1>1, <1>2, <2>4, FlowCalls
  <2>6. OwnReply'
    BY <1>5, <2>1, <2>2, <2>3 DEF Answering, OwnReply
  <2>7. Keys(req_map')
    <3>1. \A a \in Buses : req_map'[a] \subseteq req_map[a]
      BY <1>5, <2>3
    <3> QED BY <3>1 DEF Answering, Keys
  <2> QED BY <2>5, <2>6, <2>7 DEF Answering
<1> QED BY <1>3, <1>4, <1>5

\* The service sends the caller's descriptor back with the result.
LEMMA BusForwardAnswering ==
    ASSUME Base, Answering, NEW b \in Buses, NEW k \in DOMAIN conns, BusForward(b, k)
    PROVE  Answering'
<1> DEFINE cn == TakeDown(k)  h == Head(conns[k].down)
           f == Msg("forward_reply", h.o, h.c, h.fd)
<1>1. /\ Gets(b, k, "forward")
      /\ conns' = cn \/ conns' = UpTo(cn, k, f)
      /\ UNCHANGED <<req_map, call, got>>
  BY DEF BusForward
<1>2. /\ Flow(cn, call, req_map) /\ k \in DOMAIN cn /\ InHand(cn, k, "down", h, call, req_map)
      /\ h.t = "forward"
  BY <1>1, GetsFlow
<1>3. /\ h.o \in Objects \cup {None, NoId} /\ h.c \in Calls \cup {None} /\ h.fd \in Fds \cup {0}
  BY <1>2 DEF InHand, Frame
<1>4. f \in Frame /\ f.t = "forward_reply" /\ f.o = h.o /\ f.c = h.c /\ f.fd = h.fd
  BY <1>3, MsgIs
<1> HIDE DEF cn, h, f
<1>5. FrameOK(cn[k], "up", f) /\ RouteOK(cn, cn[k], f)
  BY <1>2, <1>4 DEF FrameOK, RouteOK, InHand
<1>6. f.c = None \/ (Free(cn, f.c) /\ Pending(call, req_map, f.c))
  BY <1>2, <1>4 DEF InHand
<1>7. Flow(conns', call, req_map)
  BY <1>1, <1>2, <1>4, <1>5, <1>6, FlowUpTo
<1> QED BY <1>1, <1>7, FlowAnswering

\* The answer to a ping is gone.
LEMMA BusPongAnswering ==
    ASSUME Base, Answering, NEW b \in Buses, NEW k \in DOMAIN conns, BusPong(b, k)
    PROVE  Answering'
<1>1. Gets(b, k, "pong") /\ conns' = TakeDown(k) /\ UNCHANGED <<req_map, call, got>>
  BY DEF BusPong
<1>2. Flow(conns', call, req_map)
  BY <1>1, GetsFlow
<1> QED BY <1>1, <1>2, FlowAnswering

\* The bus's end of a connection bears no descriptor on its way.
LEMMA BusEofAnswering ==
    ASSUME Base, Answering, NEW b \in Buses, NEW k \in DOMAIN conns, BusEof(b, k)
    PROVE  Answering'
<1>1. Gets(b, k, "eof") /\ UNCHANGED <<req_map, call, got>>
  BY DEF BusEof
<1>2. Flow(TakeDown(k), call, req_map)
  BY <1>1, GetsFlow
<1>3. Flow(conns', call, req_map)
  BY <1>2, BusEofIs, FlowKept
<1> QED BY <1>1, <1>3, FlowAnswering

\* The steps of the daemon leave the calls alone.
LEMMA BusdAnswering ==
    ASSUME Answering, Flow(conns', call, req_map), UNCHANGED busVars
    PROVE  Answering'
BY FlowAnswering DEF busVars

\* The confirmation of an addition names no call.
LEMMA BusdAddAnswering ==
    ASSUME Base, Answering, NEW k \in DOMAIN conns, BusdAdd(k)
    PROVE  Answering'
<1> DEFINE cn == TakeUp(k)  h == Head(conns[k].up)  f == Msg("add_reply", h.o, None, 0)
<1>1. Comes(k, "add") /\ conns' = DownTo(cn, conns[k].fd, f) /\ UNCHANGED busVars
  BY DEF BusdAdd
<1>2. Flow(cn, call, req_map) /\ h.o \in Objects
  <2>1. h.o \in Serves[conns[k].bus] /\ conns[k] \in Conn
    BY <1>1, ComesIs, ConnIs DEF Base, Sound, FrameOK
  <2>2. h.o \in Objects
    BY <2>1, ShapeAssumption DEF Conn
  <2> QED BY <1>1, <2>2, ComesFlow
<1>3. f \in Frame /\ f.t = "add_reply" /\ f.o = h.o /\ f.c = None
  BY <1>2, MsgIs
<1> HIDE DEF cn, h, f
<1>4. \A j \in DOMAIN cn : RouteOK(cn, cn[j], f)
  BY <1>3 DEF RouteOK
<1>5. Flow(conns', call, req_map)
  BY <1>1, <1>2, <1>3, <1>4, FlowDownTo
<1> QED BY <1>1, <1>5, BusdAnswering

\* An answer to the frame in hand goes to where it came from.
LEMMA FlowBack ==
    ASSUME NEW cn, NEW k, NEW h, Flow(cn, call, req_map), InHand(cn, k, "up", h, call, req_map),
           cn[k].busd, NEW f \in Frame, f.o = h.o, f.c = h.c,
           \/ h.t = "invoke" /\ f.t = "reply"
           \/ h.t = "lookup" /\ f.t = "lookup_reply"
    PROVE  Flow(DownTo(cn, cn[k].fd, f), call, req_map)
<1>1. RouteOK(cn, cn[k], f)
  BY DEF InHand, RouteOK
<1>2. ASSUME NEW j \in DOMAIN cn, cn[j].busd, cn[j].fd = cn[k].fd
      PROVE  RouteOK(cn, cn[j], f)
  <2>1. j = k
    BY <1>2 DEF Flow, Sound, FdsApart, InHand
  <2> QED BY <1>1, <2>1
<1>3. f.c = None \/ (Free(cn, f.c) /\ Pending(call, req_map, f.c))
  BY DEF InHand
<1> QED BY <1>2, <1>3, FlowDownTo

\* The answer to a lookup goes back where the lookup came from.
LEMMA BusdLookupAnswering ==
    ASSUME Base, Answering, NEW k \in DOMAIN conns, BusdLookup(k)
    PROVE  Answering'
<1> DEFINE cn == TakeUp(k)  h == Head(conns[k].up)  f == Msg("lookup_reply", h.o, h.c, 0)
<1>1. /\ Comes(k, "lookup") /\ UNCHANGED busVars
      /\ \/ conns' = cn \/ conns' = DownTo(cn, conns[k].fd, f)
         \/ \E n \in Received(cn[k].up) : conns' = DropUp(cn, k, n)
  BY DEF BusdLookup
<1>2. /\ Flow(cn, call, req_map) /\ InHand(cn, k, "up", h, call, req_map) /\ k \in DOMAIN cn
      /\ cn[k].busd /\ cn[k].fd = conns[k].fd /\ h.t = "lookup"
  BY <1>1, ComesFlow DEF Same, SameBusd, Like
<1>3. f \in Frame /\ f.t = "lookup_reply" /\ f.o = h.o /\ f.c = h.c
  <2>1. h.o \in Objects \cup {None, NoId} /\ h.c \in Calls \cup {None}
    BY <1>2 DEF InHand, Frame
  <2> QED BY <2>1, MsgIs
<1> HIDE DEF cn, h, f
<1>4. Flow(conns', call, req_map)
  <2>1. CASE conns' = cn
    BY <1>2, <2>1
  <2>2. CASE conns' = DownTo(cn, cn[k].fd, f)
    BY <1>2, <1>3, <2>2, FlowBack
  <2>3. ASSUME NEW n \in Received(cn[k].up), conns' = DropUp(cn, k, n)
        PROVE  Flow(conns', call, req_map)
    BY <1>2, <2>3, DropIs, FlowKept DEF Same, Flow, Sound
  <2> QED BY <1>1, <1>2, <2>1, <2>2, <2>3
<1> QED BY <1>1, <1>4, BusdAnswering

\* The caller's descriptor goes along with the call.
LEMMA BusdInvokeAnswering ==
    ASSUME Base, Answering, NEW k \in DOMAIN conns, BusdInvoke(k)
    PROVE  Answering'
<1> DEFINE cn == TakeUp(k)  h == Head(conns[k].up)
           f == Msg("reply", h.o, h.c, 0)  g == Msg("forward", h.o, h.c, conns[k].fd)
<1>1. /\ Comes(k, "invoke") /\ UNCHANGED busVars
      /\ \/ \E n \in Received(cn[k].up) : conns' = DownTo(DropUp(cn, k, n), conns[k].fd, f)
         \/ \E fd \in Fds : conns' = DownTo(cn, fd, g)
  BY DEF BusdInvoke
<1>2. /\ Flow(cn, call, req_map) /\ InHand(cn, k, "up", h, call, req_map) /\ k \in DOMAIN cn
      /\ cn[k].busd /\ cn[k].fd = conns[k].fd /\ h.t = "invoke"
  BY <1>1, ComesFlow DEF Same, SameBusd, Like
<1>3. /\ f \in Frame /\ f.t = "reply" /\ f.o = h.o /\ f.c = h.c
      /\ g \in Frame /\ g.t = "forward" /\ g.o = h.o /\ g.c = h.c /\ g.fd = conns[k].fd
  <2>1. h.o \in Objects \cup {None, NoId} /\ h.c \in Calls \cup {None}
    BY <1>2 DEF InHand, Frame
  <2>2. conns[k].fd \in Fds
    BY ConnIs DEF Base, Sound, Conn
  <2> QED BY <2>1, <2>2, MsgIs
<1> HIDE DEF cn, h, f, g
<1>4. ASSUME NEW n \in Received(cn[k].up), conns' = DownTo(DropUp(cn, k, n), conns[k].fd, f)
      PROVE  Flow(conns', call, req_map)
  <2> DEFINE en == DropUp(cn, k, n)
  <2>1. Kept(cn, en) /\ Same(cn, en)
    BY <1>2, DropIs DEF Flow, Sound
  <2> HIDE DEF en
  <2>2. Flow(en, call, req_map) /\ InHand(en, k, "up", h, call, req_map)
    BY <1>2, <2>1, FlowKept, InHandKept DEF Same
  <2>3. en[k].busd /\ en[k].fd = conns[k].fd
    BY <1>2, <2>1 DEF Same, SameBusd, Like
  <2>4. Flow(DownTo(en, en[k].fd, f), call, req_map)
    BY <1>2, <1>3, <2>2, <2>3, FlowBack
  <2> QED BY <1>4, <2>3, <2>4 DEF en
<1>5. ASSUME NEW fd \in Fds, conns' = DownTo(cn, fd, g)
      PROVE  Flow(conns', call, req_map)
  <2>1. CallerFd(cn, h.c, conns[k].fd)
    BY <1>2 DEF CallerFd, InHand, RouteOK
  <2>2. \A j \in DOMAIN cn : RouteOK(cn, cn[j], g)
    BY <1>2, <1>3, <2>1 DEF InHand, RouteOK
  <2>3. g.c = None \/ (Free(cn, g.c) /\ Pending(call, req_map, g.c))
    BY <1>2, <1>3 DEF InHand
  <2> QED BY <1>2, <1>3, <1>5, <2>2, <2>3, FlowDownTo
<1>6. Flow(conns', call, req_map)
  BY <1>1, <1>4, <1>5
<1> QED BY <1>1, <1>6, BusdAnswering

\* The descriptor is still the caller's.
LEMMA BusdForwardReplyAnswering ==
    ASSUME Base, Answering, NEW k \in DOMAIN conns, BusdForwardReply(k)
    PROVE  Answering'
<1> DEFINE cn == TakeUp(k)  h == Head(conns[k].up)  f == Msg("reply", h.o, h.c, 0)
<1>1. Comes(k, "forward_reply") /\ conns' = DownTo(cn, h.fd, f) /\ UNCHANGED busVars
  BY DEF BusdForwardReply
<1>2. /\ Flow(cn, call, req_map) /\ InHand(cn, k, "up", h, call, req_map) /\ k \in DOMAIN cn
      /\ cn[k].busd /\ h.t = "forward_reply"
  BY <1>1, ComesFlow DEF Same, SameBusd
<1>3. f \in Frame /\ f.t = "reply" /\ f.o = h.o /\ f.c = h.c
  <2>1. h.o \in Objects \cup {None, NoId} /\ h.c \in Calls \cup {None}
    BY <1>2 DEF InHand, Frame
  <2> QED BY <2>1, MsgIs
<1> HIDE DEF cn, h, f
<1>4. ASSUME NEW j \in DOMAIN cn, cn[j].busd, cn[j].fd = h.fd
      PROVE  RouteOK(cn, cn[j], f)
  <2>1. CallerFd(cn, h.c, h.fd) /\ h.c \in Calls /\ Kind[h.c] # "lookup" /\ h.o = Target[h.c]
    BY <1>2 DEF InHand, RouteOK
  <2>2. cn[j].bus = Caller[h.c]
    BY <1>2, <1>4, <2>1 DEF CallerFd, Flow, Sound, FdsApart
  <2> QED BY <1>3, <2>1, <2>2 DEF RouteOK
<1>5. f.c = None \/ (Free(cn, f.c) /\ Pending(call, req_map, f.c))
  BY <1>2, <1>3 DEF InHand
<1>6. Flow(conns', call, req_map)
  BY <1>1, <1>2, <1>3, <1>4, <1>5, FlowDownTo
<1> QED BY <1>1, <1>6, BusdAnswering

\* The answer to a ping names no call.
LEMMA BusdPingAnswering ==
    ASSUME Base, Answering, NEW k \in DOMAIN conns, BusdPing(k)
    PROVE  Answering'
<1> DEFINE cn == TakeUp(k)  f == Msg("pong", None, None, 0)
<1>1. Comes(k, "ping") /\ conns' = DownTo(cn, conns[k].fd, f) /\ UNCHANGED busVars
  BY DEF BusdPing
<1>2. Flow(cn, call, req_map)
  BY <1>1, ComesFlow
<1>3. f \in Frame /\ f.t = "pong" /\ f.c = None
  BY MsgIs
<1> HIDE DEF cn, f
<1>4. \A j \in DOMAIN cn : RouteOK(cn, cn[j], f)
  BY <1>3 DEF RouteOK
<1>5. Flow(conns', call, req_map)
  BY <1>1, <1>2, <1>3, <1>4, FlowDownTo
<1> QED BY <1>1, <1>5, BusdAnswering

\* The connection that ends is no caller's: a descriptor on its way back stays good.
LEMMA BusdEofAnswering ==
    ASSUME CallersStay, Base, Answering, NEW k \in DOMAIN conns, BusdEof(k)
    PROVE  Answering'
<1> DEFINE cn == TakeUp(k)  dn == conns'
<1>1. Comes(k, "eof") /\ UNCHANGED busVars
  BY DEF BusdEof
<1>2. /\ Flow(cn, call, req_map) /\ k \in DOMAIN cn /\ InHand(cn, k, "up", Head(conns[k].up), call, req_map)
      /\ Head(conns[k].up).t = "eof" /\ DOMAIN cn = DOMAIN conns
  BY <1>1, ComesFlow DEF Same, Like
<1>3. cn[k].bus \in MayCrash
  BY <1>2 DEF InHand, FrameOK
<1>4. Kept(cn, dn) /\ \A l \in DOMAIN cn : l # k => dn[l] = cn[l]
  BY <1>2, BusdEofIs
<1> HIDE DEF cn, dn
<1>5. Sound(dn) /\ NamesApart(dn)
  BY <1>2, <1>4, SoundKept, NamesApartKept DEF Flow
<1>6. ASSUME NEW l \in DOMAIN dn, NEW d \in Dirs, NEW f \in InFlight(dn, l, d)
      PROVE  RouteOK(dn, dn[l], f) /\ (f.c # None => Pending(call, req_map, f.c))
  <2>1. l \in DOMAIN cn /\ f \in InFlight(cn, l, d)
    BY <1>4, KeptFrames
  <2>2. RouteOK(cn, cn[l], f) /\ (f.c # None => Pending(call, req_map, f.c))
    BY <1>2, <2>1 DEF Flow, Routes, NamesPending
  <2>3. ASSUME f.c \in Calls, CallerFd(cn, f.c, f.fd)
        PROVE  CallerFd(dn, f.c, f.fd)
    <3>1. PICK i \in DOMAIN cn : cn[i].busd /\ cn[i].bus = Caller[f.c] /\ cn[i].fd = f.fd
      BY <2>3 DEF CallerFd
    <3>2. i # k
      BY <1>3, <2>3, <3>1 DEF CallersStay
    <3>3. i \in DOMAIN dn /\ dn[i] = cn[i]
      BY <1>4, <3>2 DEF Kept, Like
    <3> QED BY <3>1, <3>3 DEF CallerFd
  <2>4. dn[l].bus = cn[l].bus /\ (dn[l].busd => cn[l].busd)
    BY <1>4, <2>1 DEF Kept, Like, Closing
  <2> QED BY <2>2, <2>3, <2>4 DEF RouteOK
<1>7. Flow(dn, call, req_map)
  BY <1>5, <1>6 DEF Flow, Routes, NamesPending
<1> QED BY <1>1, <1>7, BusdAnswering DEF dn

\* No call is lost with a process that makes none.
LEMMA CrashAnswering ==
    ASSUME CallersStay, Base, Answering, NEW b \in Buses, Crash(b)
    PROVE  Answering'
<1>1. PICK cn : /\ link[b] \in DOMAIN conns /\ b \in MayCrash /\ conns[link[b]].bus = b
                /\ cn = UpTo(conns, link[b], Eof) /\ Kept(cn, conns') /\ SameBusd(cn, conns')
  BY CrashSteps
<1>2. Eof \in Frame /\ Eof.t = "eof" /\ Eof.c = None
  BY MsgIs DEF Eof
<1>3. FrameOK(conns[link[b]], "up", Eof) /\ RouteOK(conns, conns[link[b]], Eof)
  BY <1>1, <1>2 DEF FrameOK, RouteOK
<1>4. Flow(cn, call, req_map)
  BY <1>1, <1>2, <1>3, FlowUpTo DEF Answering
<1>5. Flow(conns', call, req_map)
  BY <1>1, <1>4, FlowKept
<1>6. /\ req_map \in [Buses -> SUBSET Calls] /\ req_map' = [req_map EXCEPT ![b] = {}] /\ got' = got
      /\ \A c \in Calls : Caller[c] # b /\ call'[c] = call[c]
  BY <1>1 DEF Crash, Base, Shape, CallersStay
<1>7. \A x \in Calls : Pending(call, req_map, x) /\ ~Free(conns', x) => Pending(call', req_map', x)
  BY <1>6, ShapeAssumption DEF Pending
<1> DEFINE dn == conns'
<1>8. /\ Flow(dn, call, req_map)
      /\ \A x \in Calls : Pending(call, req_map, x) /\ ~Free(dn, x) => Pending(call', req_map', x)
  BY <1>5, <1>7
<1> HIDE DEF dn
<1>9. Flow(dn, call', req_map')
  BY <1>8, FlowCalls
<1>10. Keys(req_map')
  <2>1. \A a \in Buses : req_map'[a] \subseteq req_map[a]
    BY <1>6
  <2> QED BY <2>1 DEF Answering, Keys
<1> QED BY <1>6, <1>9, <1>10 DEF Answering, OwnReply, dn

\* The daemon's end loses frames and adds none that names a call.
LEMMA BusdCrashAnswering ==
    ASSUME Base, Answering, BusdCrash
    PROVE  Answering'
<1> DEFINE dn == conns'
<1>1. /\ Like(conns, dn) /\ \A k \in DOMAIN conns : ~dn[k].busd
      /\ \A k \in DOMAIN conns, d \in Dirs :
            /\ Once(Queue(conns[k], d)) => Once(Queue(dn[k], d))
            /\ \A g \in InFlight(dn, k, d) : g \in InFlight(conns, k, d) \/ (d = "down" /\ g = Eof)
  BY BusdCrashIs DEF Base, Sound
<1>2. Sound(dn)
  BY BusdCrashBase DEF Base
<1> HIDE DEF dn
<1>3. Eof.t = "eof" /\ Eof.c = None
  BY MsgIs DEF Eof
<1>4. \A k \in DOMAIN dn, d \in Dirs : \A g \in InFlight(dn, k, d) :
         k \in DOMAIN conns /\ (g \in InFlight(conns, k, d) \/ (g.t = "eof" /\ g.c = None))
  BY <1>1, <1>3 DEF Like
<1>5. NamesApart(dn)
  <2>1. \A k \in DOMAIN dn, d \in Dirs : Once(Queue(dn[k], d))
    BY <1>1 DEF Answering, Flow, NamesApart, Like
  <2> QED BY <1>4, <2>1 DEF Answering, Flow, NamesApart
<1>6. ASSUME NEW k \in DOMAIN dn, NEW d \in Dirs, NEW g \in InFlight(dn, k, d)
      PROVE  RouteOK(dn, dn[k], g) /\ (g.c # None => Pending(call, req_map, g.c))
  <2>1. CASE g \in InFlight(conns, k, d)
    <3>1. k \in DOMAIN conns /\ dn[k].bus = conns[k].bus /\ ~dn[k].busd
      BY <1>1 DEF Like
    <3>2. RouteOK(conns, conns[k], g) /\ (g.c # None => Pending(call, req_map, g.c))
      BY <2>1, <3>1 DEF Answering, Flow, Routes, NamesPending
    <3> QED BY <3>1, <3>2 DEF RouteOK
  <2>2. CASE g.t = "eof" /\ g.c = None
    BY <2>2 DEF RouteOK
  <2> QED BY <1>4, <1>6, <2>1, <2>2
<1>7. Flow(dn, call, req_map)
  BY <1>2, <1>5, <1>6 DEF Flow, Routes, NamesPending
<1>8. UNCHANGED busVars
  BY DEF BusdCrash
<1> QED BY <1>7, <1>8, BusdAnswering DEF dn

\* Every step keeps what OwnReply rests on.
LEMMA AnsweringKept ==
    ASSUME CallersStay, Base, Answering, [Next]_vars
    PROVE  Answering'
<1>1. CASE \E b \in Buses : \/ Create(b) \/ Ping(b) \/ Reconnect(b) \/ Crash(b)
                            \/ \E o \in Objects : AddObject(b, o)
  BY <1>1, CreateAnswering, PingAnswering, ReconnectAnswering, CrashAnswering, AddObjectAnswering
<1>2. CASE \E b \in Buses : BusCallback(b)
  <2>1. PICK b \in Buses, k \in DOMAIN conns :
           \/ BusAddReply(b, k) \/ BusLookupReply(b, k) \/ BusReply(b, k)
           \/ BusForward(b, k) \/ BusPong(b, k) \/ BusEof(b, k)
    BY <1>2 DEF BusCallback
  <2> QED BY <2>1, BusAddReplyAnswering, BusLookupReplyAnswering, BusReplyAnswering,
             BusForwardAnswering, BusPongAnswering, BusEofAnswering
<1>3. CASE \E c \in Calls : StartCall(c) \/ Return(c)
  BY <1>3, StartCallAnswering, ReturnAnswering
<1>4. CASE \E k \in DOMAIN conns : BusdCallback(k)
  BY <1>4, BusdAddAnswering, BusdLookupAnswering, BusdInvokeAnswering,
     BusdForwardReplyAnswering, BusdPingAnswering, BusdEofAnswering DEF BusdCallback
<1>5. CASE BusdCrash
  BY <1>5, BusdCrashAnswering
<1>6. CASE BusdStart \/ UNCHANGED vars
  BY <1>6 DEF BusdStart, vars, busVars, Answering, OwnReply
<1> QED BY <1>1, <1>2, <1>3, <1>4, <1>5, <1>6 DEF Next

\* At first nobody has called.
LEMMA InitAnswering == Init => Answering
<1> SUFFICES ASSUME Init PROVE Answering
  OBVIOUS
<1>1. Sound(conns)
  BY InitBase DEF Base
<1>2. conns = << >> /\ req_map = [b \in Buses |-> {}] /\ got = [c \in Calls |-> None]
  BY DEF Init
<1>3. Flow(conns, call, req_map)
  BY <1>1, <1>2 DEF Flow, NamesApart, Routes, NamesPending
<1>4. Keys(req_map) /\ OwnReply
  BY <1>2 DEF Keys, OwnReply
<1> QED BY <1>3, <1>4 DEF Answering

\* If callers stay, a caller gets the answer to its own request: the daemon's
\* routing by descriptor and the bus's by object@method never mix up two calls.
THEOREM RepliesReachTheirCallers ==
    ASSUME CallersStay
    PROVE  Spec => []OwnReply
<1>1. Init => Base /\ Answering
  BY InitBase, InitAnswering
<1>2. Base /\ Answering /\ [Next]_vars => (Base /\ Answering)'
  BY BaseKept, AnsweringKept
<1>3. Base /\ Answering => OwnReply
  BY DEF Answering
<1> QED BY <1>1, <1>2, <1>3, PTL DEF Spec

-----------------------------------------------------------------------------
(***************************************************************************)
(* What RegistrySound rests on: the ends of the connections.               *)
(***************************************************************************)

\* The parts of a connection that is there.
LEMMA ConnHas ==
    ASSUME NEW cn, IsConns(cn), NEW k \in DOMAIN cn
    PROVE  k \in Nat /\ k # 0 /\ cn[k].bus \in Buses /\ cn[k].fd \in Fds
<1>1. cn[k] \in Conn
  BY ConnIs
<1>2. k \in Nat /\ k # 0
  BY DEF IsConns
<1> QED BY <1>1, <1>2 DEF Conn

\* The daemon closes its ends, or nobody closes anything.
LEMMA EndsKept ==
    ASSUME NEW cn, NEW dn, NEW lk, NEW off, Ends(cn, lk, off), LinksOwn(cn, lk), Like(cn, dn),
           SamePeer(cn, dn), \A k \in DOMAIN cn : dn[k].busd => cn[k].busd
    PROVE  Ends(dn, lk, off)
<1>1. OneOpen(dn)
  BY DEF Ends, OneOpen, Like
<1>2. PeersLinked(dn, lk)
  BY DEF Ends, PeersLinked, Like, SamePeer, LinksOwn
<1>3. OfflineClosed(dn, lk, off)
  BY DEF Ends, OfflineClosed, Like
<1> QED BY <1>1, <1>2, <1>3 DEF Ends

\* A bus gives up its client, because it dies or because the daemon did.
LEMMA EndsClosed ==
    ASSUME NEW cn, NEW dn, NEW lk, NEW mk, NEW off, NEW pf, IsConns(cn), Ends(cn, lk, off),
           LinksOwn(cn, lk), Like(cn, dn), SameBusd(cn, dn),
           NEW b \in Buses, NEW j, j = lk[b], j # 0, ~dn[j].peer,
           \A k \in DOMAIN cn : k # j => dn[k].peer = cn[k].peer,
           mk[b] = 0, \A a \in Buses : a # b => mk[a] = lk[a] /\ pf[a] = off[a],
           pf[b] => off[b] \/ ~cn[j].busd
    PROVE  Ends(dn, mk, pf)
<1>1. j \in DOMAIN cn /\ cn[j].bus = b
  BY DEF LinksOwn
<1>2. \A k \in DOMAIN cn : cn[k].bus \in Buses /\ k # 0
  BY ConnHas
<1>3. OneOpen(dn)
  BY DEF Ends, OneOpen, Like, SameBusd
<1>4. \A k \in DOMAIN cn : cn[k].bus = b /\ k # j => ~cn[k].busd /\ ~cn[k].peer
  BY <1>1 DEF Ends, PeersLinked
<1>5. PeersLinked(dn, mk)
  <2>1. ASSUME NEW k \in DOMAIN dn
        PROVE  /\ dn[k].peer => mk[dn[k].bus] = k
               /\ dn[k].busd /\ mk[dn[k].bus] # 0 => mk[dn[k].bus] = k
    BY <1>1, <1>2, <1>4 DEF Ends, PeersLinked, Like, SameBusd
  <2>2. ASSUME NEW a \in Buses, mk[a] # 0
        PROVE  dn[mk[a]].peer
    BY <1>1, <2>2 DEF Ends, PeersLinked, LinksOwn
  <2> QED BY <2>1, <2>2 DEF PeersLinked
<1>6. OfflineClosed(dn, mk, pf)
  <2> SUFFICES ASSUME NEW a \in Buses, pf[a]
               PROVE  mk[a] = 0 /\ \A k \in DOMAIN dn : dn[k].bus = a => ~dn[k].busd
    BY DEF OfflineClosed
  <2>1. CASE a = b
    <3>1. ~cn[j].busd
      BY <2>1 DEF Ends, OfflineClosed
    <3> QED BY <1>1, <1>4, <2>1, <3>1 DEF Like, SameBusd
  <2>2. CASE a # b
    BY <1>1, <2>2 DEF Ends, OfflineClosed, Like, SameBusd
  <2> QED BY <2>1, <2>2
<1> QED BY <1>3, <1>5, <1>6 DEF Ends

\* A bus connects when the daemon holds no connection of it open.
LEMMA EndsOpened ==
    ASSUME NEW cn, NEW dn, NEW lk, NEW mk, NEW off, NEW pf, IsConns(cn), Ends(cn, lk, off),
           LinksOwn(cn, lk), NEW b \in Buses, NEW q, Opened(cn, dn, b, q),
           lk[b] = 0, \A k \in DOMAIN cn : cn[k].bus = b => ~cn[k].busd,
           NEW n, n = Len(cn) + 1, mk[b] = n, \A a \in Buses : a # b => mk[a] = lk[a],
           ~pf[b], \A a \in Buses : a # b => pf[a] = off[a]
    PROVE  Ends(dn, mk, pf)
<1>1. /\ n \in Nat /\ n \notin DOMAIN cn /\ DOMAIN dn = DOMAIN cn \cup {n}
      /\ dn[n].bus = b /\ dn[n].busd /\ dn[n].peer /\ \A k \in DOMAIN cn : dn[k] = cn[k]
  BY DEF Opened
<1>2. \A k \in DOMAIN cn : cn[k].bus \in Buses /\ k # 0
  BY ConnHas
<1>3. \A k \in DOMAIN cn : cn[k].bus = b => ~cn[k].busd /\ ~cn[k].peer
  BY <1>2 DEF Ends, PeersLinked
<1>4. OneOpen(dn)
  BY <1>1, <1>3 DEF Ends, OneOpen
<1>5. PeersLinked(dn, mk)
  <2>1. ASSUME NEW k \in DOMAIN dn
        PROVE  /\ dn[k].peer => mk[dn[k].bus] = k
               /\ dn[k].busd /\ mk[dn[k].bus] # 0 => mk[dn[k].bus] = k
    BY <1>1, <1>2, <1>3 DEF Ends, PeersLinked
  <2>2. ASSUME NEW a \in Buses, mk[a] # 0
        PROVE  dn[mk[a]].peer
    BY <1>1, <2>2 DEF Ends, PeersLinked, LinksOwn
  <2> QED BY <2>1, <2>2 DEF PeersLinked
<1>6. OfflineClosed(dn, mk, pf)
  BY <1>1 DEF Ends, OfflineClosed
<1> QED BY <1>4, <1>5, <1>6 DEF Ends

-----------------------------------------------------------------------------
(***************************************************************************)
(* What RegistrySound rests on: the registry and the frames about it.      *)
(***************************************************************************)

\* Nothing new is said, and the bus at an open end serves no less.
LEMMA ServedKept ==
    ASSUME NEW cn, NEW dn, NEW om, NEW ob, NEW pb, Served(cn, om, ob), Kept(cn, dn),
           SameBusd(cn, dn),
           \A k \in DOMAIN dn : dn[k].peer => ob[dn[k].bus] \subseteq pb[dn[k].bus],
           \A k \in DOMAIN cn : \A o \in dn[k].acked :
              o \in cn[k].acked \/ (cn[k].busd /\ cn[k].peer => Registered(om, cn[k].fd, o))
    PROVE  Served(dn, om, pb)
<1>1. /\ DOMAIN dn = DOMAIN cn /\ "up" \in Dirs /\ "down" \in Dirs
      /\ \A k \in DOMAIN cn : /\ dn[k].bus = cn[k].bus /\ dn[k].fd = cn[k].fd
                              /\ dn[k].busd = cn[k].busd /\ (dn[k].peer => cn[k].peer)
  BY DEF Kept, Like, Closing, SameBusd, Dirs
<1>2. \A k \in DOMAIN dn, d \in Dirs : \A g \in InFlight(dn, k, d) : g \in InFlight(cn, k, d)
  BY KeptFrames
<1>3. AddsOK(dn, om, pb)
  <2> SUFFICES ASSUME NEW k \in DOMAIN dn, dn[k].busd
               PROVE  /\ AddsOnce(Queue(dn[k], "up"))
                      /\ \A f \in InFlight(dn, k, "up") : f.t = "add" =>
                            /\ ~Registered(om, dn[k].fd, f.o)
                            /\ dn[k].peer => f.o \in pb[dn[k].bus]
    BY DEF AddsOK
  <2>1. AddsOnce(Queue(dn[k], "up"))
    BY <1>1 DEF Served, AddsOK, Kept, QueueKept
  <2> QED BY <1>1, <1>2, <2>1 DEF Served, AddsOK
<1>4. NodesOK(dn, om, pb)
  <2> SUFFICES ASSUME NEW n \in ToSet(om), NodeOK(cn, n, ob)
               PROVE  NodeOK(dn, n, pb)
    BY DEF Served, NodesOK
  <2>1. PICK k \in DOMAIN cn : /\ cn[k].busd /\ cn[k].fd = n.fd /\ n.o \in Serves[cn[k].bus]
                               /\ cn[k].peer => n.o \in ob[cn[k].bus]
    BY DEF NodeOK
  <2>2. k \in DOMAIN dn /\ dn[k].busd /\ dn[k].fd = n.fd /\ n.o \in Serves[dn[k].bus]
    BY <1>1, <2>1
  <2>3. dn[k].peer => n.o \in pb[dn[k].bus]
    BY <1>1, <2>1
  <2> QED BY <2>2, <2>3 DEF NodeOK
<1>5. AcksOK(dn, om)
  BY <1>1, <1>2 DEF Served, AcksOK
<1> QED BY <1>3, <1>4, <1>5 DEF Served

\* Fewer frames, and nothing else.
LEMMA ServedSame ==
    ASSUME NEW cn, NEW dn, NEW om, NEW ob, Served(cn, om, ob), Kept(cn, dn), Same(cn, dn)
    PROVE  Served(dn, om, ob)
BY ServedKept DEF Same, SameAcks

\* An object that is not registered on connection j, nor on its way to be.
NotAdded(cn, om, ob, j, o) ==
    /\ ~Registered(om, cn[j].fd, o)
    /\ cn[j].peer => o \in ob[cn[j].bus]
    /\ \A g \in InFlight(cn, j, "up") : g.t = "add" => g.o # o

\* A frame is sent: to add what is not added, or to confirm what is.
LEMMA ServedSent ==
    ASSUME NEW cn, NEW dn, NEW om, NEW ob, NEW j, NEW e, NEW f, IsConns(cn), Served(cn, om, ob),
           Sent(cn, dn, j, e, f),
           f.t = "add" => NotAdded(cn, om, ob, j, f.o),
           f.t = "add_reply" /\ e = "down" => Registered(om, cn[j].fd, f.o)
    PROVE  Served(dn, om, ob)
<1>1. /\ DOMAIN dn = DOMAIN cn /\ "up" \in Dirs /\ "down" \in Dirs /\ j \in DOMAIN cn /\ e \in Dirs
      /\ \A k \in DOMAIN cn : /\ dn[k].bus = cn[k].bus /\ dn[k].fd = cn[k].fd
                              /\ dn[k].busd = cn[k].busd /\ dn[k].acked = cn[k].acked
                              /\ dn[k].peer = cn[k].peer
  BY DEF Sent, Requeued, Same, Like, SameBusd, SameAcks, SamePeer, Dirs
<1>2. \A k \in DOMAIN dn, d \in Dirs : \A g \in InFlight(dn, k, d) :
         g \in InFlight(cn, k, d) \/ (k = j /\ d = e /\ g = f)
  BY SentFrames
<1>3. AddsOK(dn, om, ob)
  <2> SUFFICES ASSUME NEW k \in DOMAIN dn, dn[k].busd
               PROVE  /\ AddsOnce(Queue(dn[k], "up"))
                      /\ \A g \in InFlight(dn, k, "up") : g.t = "add" =>
                            /\ ~Registered(om, dn[k].fd, g.o)
                            /\ dn[k].peer => g.o \in ob[dn[k].bus]
    BY DEF AddsOK
  <2>1. AddsOnce(Queue(cn[k], "up"))
    BY <1>1 DEF Served, AddsOK
  <2>2. CASE k = j /\ e = "up"
    <3>1. Queue(cn[j], "up") \in Seq(Frame) /\ f \in Frame
      BY <1>1, ConnIs DEF Sent
    <3>2. f.t # "add" \/ \A g \in ToSet(Queue(cn[j], "up")) : g.t = "add" => g.o # f.o
      BY DEF NotAdded, InFlight
    <3>3. AddsOnce(Append(Queue(cn[j], "up"), f))
      BY <2>1, <2>2, <3>1, <3>2, AppendFrames
    <3>4. AddsOnce(Queue(dn[k], "up"))
      BY <2>2, <3>3 DEF Sent, Requeued
    <3> QED BY <1>1, <1>2, <3>4 DEF Served, AddsOK, NotAdded
  <2>3. CASE k # j \/ e # "up"
    <3>1. AddsOnce(Queue(dn[k], "up"))
      BY <1>1, <2>1, <2>3 DEF Sent, Requeued
    <3> QED BY <1>1, <1>2, <2>3, <3>1 DEF Served, AddsOK
  <2> QED BY <2>2, <2>3
<1>4. NodesOK(dn, om, ob)
  BY <1>1 DEF Served, NodesOK, NodeOK
<1>5. AcksOK(dn, om)
  BY <1>1, <1>2 DEF Served, AcksOK
<1> QED BY <1>3, <1>4, <1>5 DEF Served

\* Sends, where they go or not.
LEMMA ServedUpTo ==
    ASSUME NEW cn, NEW om, NEW ob, IsConns(cn), Served(cn, om, ob), NEW k \in DOMAIN cn,
           NEW f \in Frame, cn[k].busd /\ f.t = "add" => NotAdded(cn, om, ob, k, f.o)
    PROVE  Served(UpTo(cn, k, f), om, ob)
<1>1. CASE cn[k].busd /\ Sent(cn, UpTo(cn, k, f), k, "up", f)
  BY <1>1, ServedSent
<1> QED BY <1>1, UpToIs

\* The daemon sends no addition, and confirms only what is registered.
LEMMA ServedDownTo ==
    ASSUME NEW cn, NEW om, NEW ob, IsConns(cn), FdsApart(cn), Served(cn, om, ob), NEW fd,
           NEW f \in Frame, f.t # "add", f.t = "add_reply" => Registered(om, fd, f.o)
    PROVE  Served(DownTo(cn, fd, f), om, ob)
<1>1. ASSUME NEW j \in DOMAIN cn, cn[j].fd = fd, Sent(cn, DownTo(cn, fd, f), j, "down", f)
      PROVE  Served(DownTo(cn, fd, f), om, ob)
  BY <1>1, ServedSent
<1> QED BY <1>1, DownToIs

\* A new connection: the objects of its bus are added on it, each once.
LEMMA ServedOpened ==
    ASSUME NEW cn, NEW dn, NEW om, NEW ob, NEW b, NEW q, Served(cn, om, ob), Opened(cn, dn, b, q),
           AddsOnce(q), \A f \in ToSet(q) : f.o \in ob[b]
    PROVE  Served(dn, om, ob)
<1> DEFINE n == Len(cn) + 1
<1>1. /\ DOMAIN dn = DOMAIN cn \cup {n} /\ \A k \in DOMAIN cn : dn[k] = cn[k]
      /\ dn[n].bus = b /\ dn[n].acked = {} /\ Queue(dn[n], "up") = q /\ Queue(dn[n], "down") = << >>
      /\ \A k \in DOMAIN cn : cn[k].busd => cn[k].fd # dn[n].fd
  BY DEF Opened
<1> HIDE DEF n
<1>2. \A k \in DOMAIN cn, d \in Dirs : InFlight(dn, k, d) = InFlight(cn, k, d)
  BY <1>1 DEF InFlight
<1>3. \A o : ~Registered(om, dn[n].fd, o)
  BY <1>1 DEF Registered, Served, NodesOK, NodeOK
<1>4. "up" \in Dirs /\ "down" \in Dirs /\ InFlight(dn, n, "up") = ToSet(q) /\ InFlight(dn, n, "down") = {}
  BY <1>1, EmptyKept DEF InFlight, Dirs
<1>5. AddsOK(dn, om, ob)
  BY <1>1, <1>2, <1>3, <1>4 DEF Served, AddsOK
<1>6. NodesOK(dn, om, ob)
  BY <1>1 DEF Served, NodesOK, NodeOK
<1>7. AcksOK(dn, om)
  BY <1>1, <1>2, <1>4 DEF Served, AcksOK
<1> QED BY <1>5, <1>6, <1>7 DEF Served

\* The connections as they are.
LEMMA KeptSelf ==
    ASSUME NEW cn, IsConns(cn)
    PROVE  Kept(cn, cn) /\ Same(cn, cn)
BY EmptyKept DEF Kept, Closing, Same, Like, SameBusd, SamePeer, SameAcks

\* An add frame in hand is of an object that is not there yet.
LEMMA AddInHand ==
    ASSUME NEW cn, NEW dn, NEW om, NEW ob, NEW k, IsConns(cn), Served(cn, om, ob),
           Taken(cn, dn, k, "up"), cn[k].busd, Head(Queue(cn[k], "up")).t = "add"
    PROVE  NotAdded(dn, om, ob, k, Head(Queue(cn[k], "up")).o)
<1> DEFINE q == Queue(cn[k], "up")  h == Head(q)
<1>1. /\ k \in DOMAIN cn /\ "up" \in Dirs /\ h \in InFlight(cn, k, "up") /\ h.t = "add"
      /\ cn[k].bus = dn[k].bus /\ cn[k].peer = dn[k].peer /\ cn[k].fd = dn[k].fd
  BY HeadIs
<1>2. q \in Seq(Frame) /\ q # << >> /\ AddsOnce(q)
  BY <1>1, ConnIs DEF Taken, Served, AddsOK
<1>3. \A g \in ToSet(Tail(q)) : g.t = "add" => g.o # h.o
  BY <1>1, <1>2, TailKept
<1>4. InFlight(dn, k, "up") = ToSet(Tail(q))
  BY DEF Taken, Requeued, InFlight
<1> HIDE DEF h, q
<1>5. ~Registered(om, cn[k].fd, h.o) /\ (cn[k].peer => h.o \in ob[cn[k].bus])
  BY <1>1 DEF Served, AddsOK
<1>6. NotAdded(dn, om, ob, k, h.o)
  BY <1>1, <1>3, <1>4, <1>5 DEF NotAdded
<1> QED BY <1>6 DEF h, q

\* map->add of a node.
LEMMA AppendNode ==
    ASSUME NEW om, IsNodes(om), NEW n \in Node
    PROVE  /\ ToSet(Append(om, n)) = ToSet(om) \cup {n}
           /\ KeysOnce(om) /\ (\A m \in ToSet(om) : m.o # n.o) => KeysOnce(Append(om, n))
<1> DEFINE pm == Append(om, n)  l == Len(om) + 1
<1>1. om \in Seq(Node)
  BY DEF IsNodes
<1>2. /\ DOMAIN pm = DOMAIN om \cup {l} /\ pm[l] = n /\ l \notin DOMAIN om
      /\ \A i \in DOMAIN om : pm[i] = om[i]
  <2>1. /\ DOMAIN om = 1 .. Len(om) /\ Len(om) \in Nat /\ DOMAIN pm = 1 .. l
        /\ pm[l] = n /\ \A i \in 1 .. Len(om) : pm[i] = om[i]
    BY <1>1
  <2>2. 1 .. l = 1 .. Len(om) \cup {l} /\ l \notin 1 .. Len(om)
    BY <2>1
  <2> QED BY <2>1, <2>2
<1> HIDE DEF pm, l
<1>3. ToSet(pm) = ToSet(om) \cup {n}
  BY <1>2 DEF ToSet
<1>4. KeysOnce(om) /\ (\A m \in ToSet(om) : m.o # n.o) => KeysOnce(pm)
  BY <1>2 DEF KeysOnce, ToSet
<1> QED BY <1>3, <1>4 DEF pm

\* An object is served by one bus, which has one connection: no node has its key.
LEMMA ServedAdded ==
    ASSUME ObjectsApart, NEW cn, NEW om, NEW ob, IsConns(cn), FdsApart(cn), OneOpen(cn), IsNodes(om),
           Served(cn, om, ob), NEW k \in DOMAIN cn, cn[k].busd, NEW n \in Node, n.live,
           n.fd = cn[k].fd, n.o \in Serves[cn[k].bus], NotAdded(cn, om, ob, k, n.o)
    PROVE  Served(cn, Append(om, n), ob) /\ Registered(Append(om, n), cn[k].fd, n.o)
<1> DEFINE pm == Append(om, n)
<1>1. \A m \in ToSet(om) : m.o # n.o
  <2> SUFFICES ASSUME NEW m \in ToSet(om), m.o = n.o PROVE FALSE
    OBVIOUS
  <2>1. m.live /\ \E l \in DOMAIN cn : cn[l].busd /\ cn[l].fd = m.fd /\ m.o \in Serves[cn[l].bus]
    BY DEF Served, NodesOK, NodeOK
  <2>2. PICK l \in DOMAIN cn : cn[l].busd /\ cn[l].fd = m.fd /\ m.o \in Serves[cn[l].bus]
    BY <2>1
  <2>3. cn[l].bus \in Buses /\ cn[k].bus \in Buses
    BY ConnHas
  <2>4. cn[l].bus = cn[k].bus
    BY <2>2, <2>3 DEF ObjectsApart
  <2>5. l = k
    BY <2>2, <2>4 DEF OneOpen
  <2> QED BY <2>1, <2>2, <2>5 DEF NotAdded, Registered
<1>2. ToSet(pm) = ToSet(om) \cup {n} /\ KeysOnce(pm)
  BY <1>1, AppendNode DEF Served
<1> HIDE DEF pm
<1>3. \A fd, o : Registered(pm, fd, o) <=> Registered(om, fd, o) \/ (o = n.o /\ fd = cn[k].fd)
  BY <1>2 DEF Registered
<1>4. AddsOK(cn, pm, ob)
  BY <1>3 DEF Served, AddsOK, NotAdded, FdsApart
<1>5. NodeOK(cn, n, ob)
  BY DEF NodeOK, NotAdded
<1>6. NodesOK(cn, pm, ob)
  BY <1>2, <1>5 DEF Served, NodesOK
<1>7. AcksOK(cn, pm)
  BY <1>3 DEF Served, AcksOK
<1> QED BY <1>2, <1>3, <1>4, <1>6, <1>7 DEF Served, pm

\* The end of connection k: its nodes go, the others stay.
LEMMA ServedReleased ==
    ASSUME NEW cn, NEW dn, NEW om, NEW pm, NEW ob, FdsApart(cn), Served(cn, om, ob), Kept(cn, dn),
           NEW k \in DOMAIN cn, cn[k].busd, ~dn[k].busd, \A l \in DOMAIN cn : l # k => dn[l] = cn[l],
           KeysOnce(pm), ToSet(pm) = {n \in ToSet(om) : n.fd # cn[k].fd}
    PROVE  Served(dn, pm, ob)
<1>1. /\ DOMAIN dn = DOMAIN cn /\ \A l \in DOMAIN cn : dn[l].busd => l # k /\ dn[l] = cn[l]
      /\ \A l, d : l \in DOMAIN cn /\ l # k => InFlight(dn, l, d) = InFlight(cn, l, d)
  BY DEF Kept, Like, InFlight
<1>2. \A fd, o : Registered(pm, fd, o) <=> fd # cn[k].fd /\ Registered(om, fd, o)
  BY DEF Registered
<1>3. \A l \in DOMAIN dn : dn[l].busd => cn[l].fd # cn[k].fd
  BY <1>1 DEF FdsApart
<1>4. AddsOK(dn, pm, ob)
  BY <1>1, <1>2 DEF Served, AddsOK
<1>5. NodesOK(dn, pm, ob)
  <2> SUFFICES ASSUME NEW n \in ToSet(om), n.fd # cn[k].fd, NodeOK(cn, n, ob)
               PROVE  NodeOK(dn, n, ob)
    BY DEF Served, NodesOK
  <2>1. PICK l \in DOMAIN cn : /\ cn[l].busd /\ cn[l].fd = n.fd /\ n.o \in Serves[cn[l].bus]
                               /\ cn[l].peer => n.o \in ob[cn[l].bus]
    BY DEF NodeOK
  <2>2. l \in DOMAIN dn /\ dn[l] = cn[l]
    BY <1>1, <2>1
  <2> QED BY <2>1, <2>2 DEF NodeOK
<1>6. AcksOK(dn, pm)
  BY <1>1, <1>2, <1>3 DEF Served, AcksOK
<1> QED BY <1>4, <1>5, <1>6 DEF Served

-----------------------------------------------------------------------------
(***************************************************************************)
(* Every step keeps what RegistrySound rests on, if the daemon reads the   *)
(* end of a connection before the next one and no object has two buses.    *)
(***************************************************************************)

\* Steps that close and link nothing.
LEMMA SameServing ==
    ASSUME Base, Serving, Same(conns, conns'), UNCHANGED <<link, offline>>,
           Served(conns', obj_map', objs')
    PROVE  Serving'
BY EndsKept DEF Serving, Base, Same, SameBusd

\* Steps after which the connections carry no more than before.
LEMMA FewerServing ==
    ASSUME Base, Serving, Kept(conns, conns'), Same(conns, conns'),
           UNCHANGED <<link, offline, obj_map, objs>>
    PROVE  Serving'
BY SameServing, ServedSame DEF Serving

\* Without Overlap the daemon has closed the former connections of b.
LEMMA CreateServing ==
    ASSUME ~Overlap, Base, Serving, NEW b \in Buses, Create(b)
    PROVE  Serving'
<1>1. Opened(conns, conns', b, << >>) /\ IsConns(conns)
  <2>1. conns' \in NewConns(b) /\ IsConns(conns) /\ << >> \in Seq(Frame)
    BY EmptyKept DEF Create, Base, Sound
  <2> QED BY <2>1, NewConnsIs
<1> DEFINE n == Len(conns) + 1
<1>2. /\ link[b] = 0 /\ ~offline[b] /\ link' = [link EXCEPT ![b] = n] /\ offline' = offline
      /\ \A k \in DOMAIN conns : conns[k].bus = b => ~conns[k].busd
      /\ obj_map' = obj_map /\ objs' = objs
  BY DEF Create, FormerRead, busdVars
<1>3. link \in [Buses -> Nat] /\ LinksOwn(conns, link) /\ Ends(conns, link, offline)
  BY DEF Base, Shape, Serving
<1> HIDE DEF n
<1>4. /\ link'[b] = n /\ ~offline'[b]
      /\ \A a \in Buses : a # b => link'[a] = link[a] /\ offline'[a] = offline[a]
  BY <1>2, <1>3
<1>5. Ends(conns', link', offline')
  <2>1. PICK mk, pf, dn : mk = link' /\ pf = offline' /\ dn = conns'
    OBVIOUS
  <2>2. n = Len(conns) + 1 /\ Opened(conns, dn, b, << >>)
    BY <1>1, <2>1 DEF n
  <2>3. /\ mk[b] = n /\ ~pf[b] /\ \A a \in Buses : a # b => mk[a] = link[a]
        /\ \A a \in Buses : a # b => pf[a] = offline[a]
    BY <1>4, <2>1
  <2>4. Ends(dn, mk, pf)
    BY <1>1, <1>2, <1>3, <2>2, <2>3, EndsOpened
  <2> QED BY <2>1, <2>4
<1>6. Served(conns', obj_map', objs')
  BY <1>1, <1>2, ServedOpened, EmptyKept DEF Serving
<1> QED BY <1>5, <1>6 DEF Serving

\* A frame sent by a bus on its client.
LEMMA SendServing ==
    ASSUME Base, Serving, NEW b \in Buses, link[b] # 0, NEW f \in Frame, f.t \notin {"add", "add_reply", "eof"},
           conns' = UpTo(conns, link[b], f), UNCHANGED <<link, offline, obj_map, objs>>
    PROVE  Serving'
<1>1. link[b] \in DOMAIN conns /\ IsConns(conns)
  BY LinkIs DEF Base, Sound
<1>2. FrameOK(conns[link[b]], "up", f)
  BY <1>1 DEF FrameOK
<1>3. Same(conns, conns')
  BY <1>2, SendBase
<1>4. Served(conns', obj_map', objs')
  BY <1>1, ServedUpTo DEF Serving
<1> QED BY <1>3, <1>4, SameServing

\* An object that the bus has not added is not at the daemon.
LEMMA AddObjectServing ==
    ASSUME Base, Serving, NEW b \in Buses, NEW o \in Objects, AddObject(b, o)
    PROVE  Serving'
<1> DEFINE f == Msg("add", o, None, 0)
<1>1. /\ link[b] # 0 /\ o \in Serves[b] /\ o \notin objs[b] /\ conns' = UpTo(conns, link[b], f)
      /\ UNCHANGED <<link, offline, obj_map>>
  BY DEF AddObject, busdVars
<1>2. f \in Frame /\ f.t = "add" /\ f.o = o
  BY MsgIs
<1> HIDE DEF f
<1>3. PICK j : j = link[b]
  OBVIOUS
<1>4. j \in DOMAIN conns /\ conns[j].bus = b /\ IsConns(conns) /\ FdsApart(conns)
  BY <1>1, <1>3, LinkIs DEF Base, Sound
<1>5. Same(conns, conns')
  <2>1. FrameOK(conns[link[b]], "up", f)
    BY <1>1, <1>2, <1>3, <1>4 DEF FrameOK
  <2> QED BY <1>1, <1>2, <2>1, SendBase
<1>6. objs'[b] = objs[b] \cup {o} /\ \A a \in Buses : objs[a] \subseteq objs'[a]
  BY DEF AddObject, Base, Shape
<1> DEFINE pb == objs'
<1>7. Served(conns, obj_map, pb)
  <2>1. Kept(conns, conns) /\ SameBusd(conns, conns)
    BY <1>4, KeptSelf DEF Same
  <2>2. \A k \in DOMAIN conns : conns[k].peer => objs[conns[k].bus] \subseteq pb[conns[k].bus]
    BY <1>4, <1>6, ConnHas
  <2> HIDE DEF pb
  <2> QED BY <2>1, <2>2, ServedKept DEF Serving
<1>8. ASSUME conns[j].busd
      PROVE  NotAdded(conns, obj_map, pb, j, o)
  <2>1. conns[j].peer
    BY <1>1, <1>3 DEF Serving, Ends, PeersLinked
  <2>2. ~Registered(obj_map, conns[j].fd, o)
    <3> SUFFICES ASSUME NEW n \in ToSet(obj_map), n.o = o, n.fd = conns[j].fd PROVE FALSE
      BY DEF Registered
    <3>1. PICK l \in DOMAIN conns : /\ conns[l].busd /\ conns[l].fd = n.fd
                                    /\ conns[l].peer => n.o \in objs[conns[l].bus]
      BY DEF Serving, Served, NodesOK, NodeOK
    <3>2. l = j
      BY <1>4, <1>8, <3>1 DEF FdsApart
    <3> QED BY <1>1, <1>4, <2>1, <3>1, <3>2
  <2>3. \A g \in InFlight(conns, j, "up") : g.t = "add" => g.o # o
    BY <1>1, <1>4, <1>8, <2>1 DEF Serving, Served, AddsOK
  <2>4. o \in pb[conns[j].bus]
    BY <1>4, <1>6
  <2> QED BY <2>2, <2>3, <2>4 DEF NotAdded
<1> HIDE DEF pb
<1>9. Served(UpTo(conns, j, f), obj_map, pb)
  BY <1>2, <1>4, <1>7, <1>8, ServedUpTo
<1>10. Served(conns', obj_map', objs')
  BY <1>1, <1>3, <1>9 DEF pb
<1> QED BY <1>1, <1>5, <1>10, SameServing

\* A request adds nothing.
LEMMA StartCallServing ==
    ASSUME Base, Serving, NEW c \in Calls, StartCall(c)
    PROVE  Serving'
<1> DEFINE b == Caller[c]
           t == IF Kind[c] = "lookup" THEN "lookup" ELSE "invoke"
           f == Msg(t, Named(c), c, 0)
<1>1. /\ b \in Buses /\ link[b] # 0 /\ conns' = UpTo(conns, link[b], f)
      /\ UNCHANGED <<link, offline, obj_map, objs>>
  BY NamedIs DEF StartCall, busdVars
<1>2. f \in Frame /\ f.t \notin {"add", "add_reply", "eof"}
  BY NamedIs, MsgIs
<1> QED BY <1>1, <1>2, SendServing

\* Nor does a ping.
LEMMA PingServing ==
    ASSUME Base, Serving, NEW b \in Buses, Ping(b)
    PROVE  Serving'
<1> DEFINE f == Msg("ping", NoId, None, 0)
<1>1. link[b] # 0 /\ conns' = UpTo(conns, link[b], f) /\ UNCHANGED <<link, offline, obj_map, objs>>
  BY DEF Ping, busdVars
<1>2. f \in Frame /\ f.t = "ping"
  BY MsgIs
<1> QED BY <1>1, <1>2, SendServing

\* An off-line bus has no connection that the daemon holds open.
LEMMA ReconnectServing ==
    ASSUME Base, Serving, NEW b \in Buses, Reconnect(b)
    PROVE  Serving'
<1>1. PICK s \in SetToSeqs(objs[b]) : Opened(conns, conns', b, Adds(s))
  BY ReconnectIs
<1> DEFINE n == Len(conns) + 1  q == Adds(s)
<1>2. /\ offline[b] /\ link' = [link EXCEPT ![b] = n] /\ offline' = [offline EXCEPT ![b] = FALSE]
      /\ obj_map' = obj_map /\ objs' = objs
  BY DEF Reconnect, busdVars
<1>3. /\ link \in [Buses -> Nat] /\ LinksOwn(conns, link) /\ Ends(conns, link, offline)
      /\ IsConns(conns) /\ offline \in [Buses -> BOOLEAN]
  BY DEF Base, Shape, Serving, Sound
<1>4. AddsOnce(q) /\ \A f \in ToSet(q) : f.o \in objs[b]
  BY AddsIs
<1> HIDE DEF n, q
<1>5. link[b] = 0 /\ \A k \in DOMAIN conns : conns[k].bus = b => ~conns[k].busd
  BY <1>2, <1>3 DEF Ends, OfflineClosed
<1>6. /\ link'[b] = n /\ ~offline'[b]
      /\ \A a \in Buses : a # b => link'[a] = link[a] /\ offline'[a] = offline[a]
  BY <1>2, <1>3
<1>7. Ends(conns', link', offline')
  <2>1. PICK mk, pf, dn : mk = link' /\ pf = offline' /\ dn = conns'
    OBVIOUS
  <2>2. n = Len(conns) + 1 /\ Opened(conns, dn, b, q)
    BY <1>1, <2>1 DEF n, q
  <2>3. /\ mk[b] = n /\ ~pf[b] /\ \A a \in Buses : a # b => mk[a] = link[a]
        /\ \A a \in Buses : a # b => pf[a] = offline[a]
    BY <1>6, <2>1
  <2>4. Ends(dn, mk, pf)
    BY <1>3, <1>5, <2>2, <2>3, EndsOpened
  <2> QED BY <2>1, <2>4
<1>8. Served(conns', obj_map', objs')
  BY <1>1, <1>2, <1>4, ServedOpened DEF Serving, q
<1> QED BY <1>7, <1>8 DEF Serving

\* What is confirmed is registered.
LEMMA BusAddReplyServing ==
    ASSUME Base, Serving, NEW b \in Buses, NEW k \in DOMAIN conns, BusAddReply(b, k)
    PROVE  Serving'
<1> DEFINE cn == TakeDown(k)  h == Head(conns[k].down)  o == h.o
<1>1. /\ conns' = [cn EXCEPT ![k].acked = @ \cup {o}] /\ Gets(b, k, "add_reply")
      /\ UNCHANGED <<link, offline, obj_map, objs>>
  BY DEF BusAddReply, busdVars
<1>2. /\ Sound(cn) /\ Same(conns, cn) /\ Kept(conns, cn) /\ k \in DOMAIN cn /\ o \in Objects
      /\ h \in InFlight(conns, k, "down") /\ h.t = "add_reply"
  BY <1>1, GetsIs DEF Base, FrameOK
<1>3. conns[k].busd /\ conns[k].peer => Registered(obj_map, conns[k].fd, o)
  BY <1>2 DEF Serving, Served, AcksOK
<1>4. Served(cn, obj_map, objs)
  BY <1>2, ServedSame DEF Serving
<1> HIDE DEF cn, h, o
<1>5. /\ Kept(cn, conns') /\ SameBusd(cn, conns') /\ SamePeer(cn, conns')
      /\ conns'[k].acked = cn[k].acked \cup {o}
      /\ \A l \in DOMAIN cn : l # k => conns'[l] = cn[l]
  <2>1. PICK dn : dn = conns'
    OBVIOUS
  <2>2. IsConns(cn) /\ k \in DOMAIN cn /\ o \in Objects /\ dn = [cn EXCEPT ![k].acked = @ \cup {o}]
    BY <1>1, <1>2, <2>1 DEF Sound
  <2>3. Kept(cn, dn) /\ SameBusd(cn, dn) /\ SamePeer(cn, dn)
    BY <2>2, AckedIs
  <2>4. dn[k].acked = cn[k].acked \cup {o}
    BY <2>2, AckedIs
  <2>5. \A l \in DOMAIN cn : l # k => dn[l] = cn[l]
    BY <2>2, AckedIs
  <2> QED BY <2>1, <2>3, <2>4, <2>5
<1> DEFINE dn == conns'
<1>6. \A l \in DOMAIN cn : \A x \in dn[l].acked :
         x \in cn[l].acked \/ (cn[l].busd /\ cn[l].peer => Registered(obj_map, cn[l].fd, x))
  BY <1>2, <1>3, <1>5 DEF Same, Like, SameBusd, SamePeer
<1>7. Kept(cn, dn) /\ SameBusd(cn, dn)
  BY <1>5
<1> HIDE DEF dn
<1>8. Served(dn, obj_map, objs)
  BY <1>4, <1>6, <1>7, ServedKept
<1>9. Ends(dn, link, offline)
  <2>1. Like(conns, dn) /\ SamePeer(conns, dn) /\ \A l \in DOMAIN conns : dn[l].busd => conns[l].busd
    BY <1>2, <1>5 DEF dn, Same, SameBusd, SamePeer, Like, Kept
  <2> QED BY <2>1, EndsKept DEF Base, Serving
<1> QED BY <1>1, <1>8, <1>9 DEF Serving, dn

\* The answer to a lookup is gone, with frames behind it or without.
LEMMA BusLookupReplyServing ==
    ASSUME Base, Serving, NEW b \in Buses, NEW k \in DOMAIN conns, BusLookupReply(b, k)
    PROVE  Serving'
<1> DEFINE cn == TakeDown(k)
<1>1. Gets(b, k, "lookup_reply") /\ UNCHANGED <<link, offline, obj_map, objs>>
  BY DEF BusLookupReply, busdVars
<1>2. Sound(cn) /\ Same(conns, cn) /\ Kept(conns, cn) /\ k \in DOMAIN cn
  BY <1>1, GetsIs DEF Base
<1>3. conns' = cn \/ \E n \in Received(cn[k].down) : conns' = DropDown(cn, k, n)
  BY DEF BusLookupReply
<1> HIDE DEF cn
<1>4. Kept(cn, conns') /\ Same(cn, conns')
  BY <1>2, <1>3, DropIs, KeptSelf DEF Sound
<1>5. Served(conns', obj_map', objs')
  BY <1>1, <1>2, <1>4, ServedSame DEF Serving
<1>6. Same(conns, conns')
  BY <1>2, <1>4, SameTrans
<1> QED BY <1>1, <1>5, <1>6, SameServing

\* The answer to a call is gone.
LEMMA BusReplyServing ==
    ASSUME Base, Serving, NEW b \in Buses, NEW k \in DOMAIN conns, BusReply(b, k)
    PROVE  Serving'
<1>1. /\ Gets(b, k, "reply") /\ conns' = TakeDown(k)
      /\ UNCHANGED <<link, offline, obj_map, objs>>
  BY DEF BusReply, busdVars
<1>2. Kept(conns, conns') /\ Same(conns, conns')
  BY <1>1, GetsIs DEF Base
<1> QED BY <1>1, <1>2, FewerServing

\* A result adds and confirms nothing.
LEMMA BusForwardServing ==
    ASSUME Base, Serving, NEW b \in Buses, NEW k \in DOMAIN conns, BusForward(b, k)
    PROVE  Serving'
<1> DEFINE cn == TakeDown(k)  h == Head(conns[k].down)
           f == Msg("forward_reply", h.o, h.c, h.fd)
<1>1. /\ Gets(b, k, "forward") /\ UNCHANGED <<link, offline, obj_map, objs>>
      /\ conns' = cn \/ conns' = UpTo(cn, k, f)
  BY DEF BusForward, busdVars
<1>2. Sound(cn) /\ Same(conns, cn) /\ Kept(conns, cn) /\ k \in DOMAIN cn /\ h \in Frame
  BY <1>1, GetsIs DEF Base
<1>3. f \in Frame /\ f.t = "forward_reply"
  <2>1. h.o \in Objects \cup {None, NoId} /\ h.c \in Calls \cup {None} /\ h.fd \in Fds \cup {0}
    BY <1>2 DEF Frame
  <2> QED BY <2>1, MsgIs
<1>4. Served(cn, obj_map, objs) /\ IsConns(cn)
  BY <1>2, ServedSame DEF Serving, Sound
<1> HIDE DEF cn, h, f
<1>5. FrameOK(cn[k], "up", f)
  BY <1>3 DEF FrameOK
<1>6. Same(conns, conns')
  BY <1>1, <1>2, <1>3, <1>5, SoundUpTo, SameTrans
<1>7. Served(conns', obj_map', objs')
  BY <1>1, <1>2, <1>3, <1>4, ServedUpTo
<1> QED BY <1>1, <1>6, <1>7, SameServing

\* A bus that is told of a pong is on line.
LEMMA BusPongServing ==
    ASSUME Base, Serving, NEW b \in Buses, NEW k \in DOMAIN conns, BusPong(b, k)
    PROVE  Serving'
<1>1. /\ Gets(b, k, "pong") /\ conns' = TakeDown(k) /\ UNCHANGED <<link, obj_map, objs>>
      /\ offline' = [offline EXCEPT ![b] = FALSE]
  BY DEF BusPong, busdVars
<1>2. Kept(conns, conns') /\ Same(conns, conns')
  BY <1>1, GetsIs DEF Base
<1>3. Served(conns', obj_map', objs')
  BY <1>1, <1>2, ServedSame DEF Serving
<1> DEFINE dn == conns'
<1>4. Ends(dn, link, offline)
  BY <1>2, EndsKept DEF Base, Serving, Same, SameBusd
<1>5. \A a \in Buses : offline'[a] => offline[a]
  BY <1>1 DEF Base, Shape
<1> HIDE DEF dn
<1>6. Ends(dn, link, offline')
  BY <1>4, <1>5 DEF Ends, OfflineClosed
<1> QED BY <1>1, <1>3, <1>6 DEF Serving, dn

\* The bus was told of the end by the daemon, which had closed its own.
LEMMA BusEofServing ==
    ASSUME Base, Serving, NEW b \in Buses, NEW k \in DOMAIN conns, BusEof(b, k)
    PROVE  Serving'
<1> DEFINE cn == TakeDown(k)  dn == conns'
<1>1. /\ Gets(b, k, "eof") /\ link' = [link EXCEPT ![b] = 0] /\ UNCHANGED <<obj_map, objs>>
      /\ offline' = [offline EXCEPT ![b] = TRUE]
  BY DEF BusEof, busdVars
<1>2. /\ Same(conns, cn) /\ Kept(conns, cn) /\ k = link[b] /\ k # 0 /\ ~conns[k].busd
  BY <1>1, GetsIs DEF Base, FrameOK
<1>3. /\ Kept(cn, dn) /\ SameBusd(cn, dn) /\ SameAcks(cn, dn) /\ ~dn[k].peer
      /\ \A l \in DOMAIN conns : l # k => dn[l] = cn[l]
  BY BusEofIs
<1>4. Served(cn, obj_map, objs)
  BY <1>2, ServedSame DEF Serving
<1> HIDE DEF cn, dn
<1>5. Served(dn, obj_map, objs)
  BY <1>3, <1>4, ServedKept DEF SameAcks, Kept, Like
<1>6. /\ Like(conns, dn) /\ SameBusd(conns, dn)
      /\ \A l \in DOMAIN conns : l # k => dn[l].peer = conns[l].peer
  BY <1>2, <1>3 DEF Same, SameBusd, SamePeer, Like, Kept
<1>7. /\ IsConns(conns) /\ LinksOwn(conns, link) /\ Ends(conns, link, offline)
      /\ link \in [Buses -> Nat] /\ offline \in [Buses -> BOOLEAN]
  BY DEF Base, Sound, Shape, Serving
<1>8. Ends(dn, link', offline')
  <2>1. PICK mk, pf : mk = link' /\ pf = offline'
    OBVIOUS
  <2>2. /\ mk[b] = 0 /\ \A a \in Buses : a # b => mk[a] = link[a] /\ pf[a] = offline[a]
        /\ pf[b] => ~conns[k].busd
    BY <1>1, <1>2, <1>7, <2>1
  <2>3. k = link[b] /\ k # 0 /\ ~dn[k].peer
    BY <1>2, <1>3
  <2>4. Ends(dn, mk, pf)
    BY <1>6, <1>7, <2>2, <2>3, EndsClosed
  <2> QED BY <2>1, <2>4
<1> QED BY <1>1, <1>5, <1>8 DEF Serving, dn

\* The daemon adds an object once, and confirms it on the connection it came on.
LEMMA BusdAddServing ==
    ASSUME ObjectsApart, Base, Serving, NEW k \in DOMAIN conns, BusdAdd(k)
    PROVE  Serving'
<1> DEFINE cn == TakeUp(k)  h == Head(conns[k].up)  o == h.o  f == Msg("add_reply", o, None, 0)
           n == [o |-> o, fd |-> conns[k].fd, live |-> TRUE, over |-> Len(obj_map) > 1]
           pm == Append(obj_map, n)
<1>1. /\ Comes(k, "add") /\ obj_map' = pm /\ conns' = DownTo(cn, conns[k].fd, f)
      /\ UNCHANGED <<link, offline, objs>>
  BY DEF BusdAdd, busVars
<1>2. /\ Sound(cn) /\ Same(conns, cn) /\ Kept(conns, cn) /\ k \in DOMAIN cn
      /\ conns[k].busd /\ o \in Serves[conns[k].bus]
  BY <1>1, ComesIs DEF Base, FrameOK
<1>3. o \in Objects /\ conns[k].fd \in Fds
  BY <1>2, ConnHas, ShapeAssumption DEF Base, Sound
<1>4. n \in Node /\ n.o = o /\ n.fd = conns[k].fd /\ n.live
  BY <1>3 DEF Node
<1>5. f \in Frame /\ f.t = "add_reply" /\ f.o = o
  BY <1>3, MsgIs
<1>6. NotAdded(cn, obj_map, objs, k, o)
  <2>1. /\ Taken(conns, cn, k, "up") /\ h = Head(Queue(conns[k], "up")) /\ h.t = "add"
        /\ IsConns(conns) /\ Served(conns, obj_map, objs)
    BY <1>1, ComesIs DEF Base, Sound, Serving
  <2> HIDE DEF cn, h
  <2> QED BY <1>2, <2>1, AddInHand
<1>7. Served(cn, obj_map, objs)
  BY <1>2, ServedSame DEF Serving
<1>8. OneOpen(cn) /\ IsNodes(obj_map)
  BY <1>2 DEF Serving, Ends, OneOpen, Same, Like, SameBusd, Base
<1>9. cn[k].busd /\ cn[k].fd = conns[k].fd /\ cn[k].bus = conns[k].bus
  BY <1>2 DEF Same, Like, SameBusd
<1> HIDE DEF cn, h, o, f, n
<1>10. Served(cn, pm, objs) /\ Registered(pm, cn[k].fd, o)
  BY <1>2, <1>4, <1>6, <1>7, <1>8, <1>9, ServedAdded DEF Sound
<1> HIDE DEF pm
<1>11. Served(conns', pm, objs)
  <2>1. f.t # "add" /\ Registered(pm, conns[k].fd, f.o)
    BY <1>5, <1>9, <1>10
  <2> QED BY <1>1, <1>2, <1>5, <1>10, <2>1, ServedDownTo DEF Sound
<1>12. Same(conns, conns')
  BY <1>1, <1>2, <1>3, <1>5, SoundDownTo, SameTrans
<1> QED BY <1>1, <1>11, <1>12, SameServing

\* The daemon answers or forwards a frame, and keeps its registry.
LEMMA BusdServing ==
    ASSUME Base, Serving, NEW cn, Sound(cn), Same(conns, cn), Kept(conns, cn), NEW fd,
           NEW f \in Frame, f.t \notin {"add", "add_reply", "eof"}, conns' = DownTo(cn, fd, f),
           UNCHANGED busVars, obj_map' = obj_map
    PROVE  Serving'
<1>1. Served(cn, obj_map, objs)
  BY ServedSame DEF Serving
<1>2. Served(conns', obj_map, objs)
  BY <1>1, ServedDownTo DEF Sound
<1>3. Same(conns, conns')
  BY SoundDownTo, SameTrans
<1> QED BY <1>2, <1>3, SameServing DEF busVars

\* The answer to a lookup adds and confirms nothing.
LEMMA BusdLookupServing ==
    ASSUME Base, Serving, NEW k \in DOMAIN conns, BusdLookup(k)
    PROVE  Serving'
<1> DEFINE cn == TakeUp(k)  h == Head(conns[k].up)  f == Msg("lookup_reply", h.o, h.c, 0)
<1>1. /\ Comes(k, "lookup") /\ UNCHANGED busVars /\ obj_map' = obj_map
      /\ \/ conns' = cn \/ conns' = DownTo(cn, conns[k].fd, f)
         \/ \E n \in Received(cn[k].up) : conns' = DropUp(cn, k, n)
  BY DEF BusdLookup, busdVars
<1>2. Sound(cn) /\ Same(conns, cn) /\ Kept(conns, cn) /\ k \in DOMAIN cn /\ h \in Frame
  BY <1>1, ComesIs DEF Base
<1>3. f \in Frame /\ f.t = "lookup_reply"
  <2>1. h.o \in Objects \cup {None, NoId} /\ h.c \in Calls \cup {None}
    BY <1>2 DEF Frame
  <2> QED BY <2>1, MsgIs
<1> HIDE DEF cn, h, f
<1>4. CASE conns' = DownTo(cn, conns[k].fd, f)
  BY <1>1, <1>2, <1>3, <1>4, BusdServing
<1>5. ASSUME Kept(cn, conns'), Same(cn, conns')
      PROVE  Serving'
  <2>1. Served(conns', obj_map, objs) /\ Same(conns, conns')
    BY <1>2, <1>5, ServedSame, SameTrans DEF Serving
  <2> QED BY <1>1, <2>1, SameServing DEF busVars
<1>6. CASE conns' = cn
  BY <1>2, <1>5, <1>6, KeptSelf DEF Sound
<1>7. ASSUME NEW n \in Received(cn[k].up), conns' = DropUp(cn, k, n)
      PROVE  Serving'
  BY <1>2, <1>5, <1>7, DropIs DEF Sound
<1> QED BY <1>1, <1>4, <1>6, <1>7

\* Nor does a call forwarded, or answered for an unknown object.
LEMMA BusdInvokeServing ==
    ASSUME Base, Serving, NEW k \in DOMAIN conns, BusdInvoke(k)
    PROVE  Serving'
<1> DEFINE cn == TakeUp(k)  h == Head(conns[k].up)
           f == Msg("reply", h.o, h.c, 0)  g == Msg("forward", h.o, h.c, conns[k].fd)
<1>1. /\ Comes(k, "invoke") /\ UNCHANGED busVars /\ obj_map' = obj_map
      /\ \/ \E n \in Received(cn[k].up) : conns' = DownTo(DropUp(cn, k, n), conns[k].fd, f)
         \/ \E fd \in Fds : conns' = DownTo(cn, fd, g)
  BY DEF BusdInvoke, busdVars
<1>2. Sound(cn) /\ Same(conns, cn) /\ Kept(conns, cn) /\ k \in DOMAIN cn /\ h \in Frame
  BY <1>1, ComesIs DEF Base
<1>3. f \in Frame /\ f.t = "reply" /\ g \in Frame /\ g.t = "forward"
  <2>1. h.o \in Objects \cup {None, NoId} /\ h.c \in Calls \cup {None}
    BY <1>2 DEF Frame
  <2>2. conns[k].fd \in Fds
    BY ConnIs DEF Base, Sound, Conn
  <2> QED BY <2>1, <2>2, MsgIs
<1> HIDE DEF cn, h, f, g
<1>4. ASSUME NEW n \in Received(cn[k].up), conns' = DownTo(DropUp(cn, k, n), conns[k].fd, f)
      PROVE  Serving'
  <2> DEFINE en == DropUp(cn, k, n)
  <2>1. Kept(cn, en) /\ Same(cn, en)
    BY <1>2, DropIs DEF Sound
  <2> HIDE DEF en
  <2>2. Sound(en) /\ Same(conns, en)
    BY <1>2, <2>1, SoundKept, SameTrans
  <2>3. Kept(conns, en)
    BY <1>2, <2>1, KeptTrans
  <2> QED BY <1>1, <1>3, <1>4, <2>2, <2>3, BusdServing DEF en
<1>5. ASSUME NEW fd \in Fds, conns' = DownTo(cn, fd, g)
      PROVE  Serving'
  BY <1>1, <1>2, <1>3, <1>5, BusdServing
<1> QED BY <1>1, <1>4, <1>5

\* Nor does a result sent on.
LEMMA BusdForwardReplyServing ==
    ASSUME Base, Serving, NEW k \in DOMAIN conns, BusdForwardReply(k)
    PROVE  Serving'
<1> DEFINE cn == TakeUp(k)  h == Head(conns[k].up)  f == Msg("reply", h.o, h.c, 0)
<1>1. /\ Comes(k, "forward_reply") /\ UNCHANGED busVars /\ obj_map' = obj_map
      /\ conns' = DownTo(cn, h.fd, f)
  BY DEF BusdForwardReply, busdVars
<1>2. Sound(cn) /\ Same(conns, cn) /\ Kept(conns, cn) /\ h \in Frame
  BY <1>1, ComesIs DEF Base
<1>3. f \in Frame /\ f.t = "reply"
  <2>1. h.o \in Objects \cup {None, NoId} /\ h.c \in Calls \cup {None}
    BY <1>2 DEF Frame
  <2> QED BY <2>1, MsgIs
<1> HIDE DEF cn, h, f
<1> QED BY <1>1, <1>2, <1>3, BusdServing

\* Nor does the answer to a ping.
LEMMA BusdPingServing ==
    ASSUME Base, Serving, NEW k \in DOMAIN conns, BusdPing(k)
    PROVE  Serving'
<1> DEFINE cn == TakeUp(k)  f == Msg("pong", None, None, 0)
<1>1. /\ Comes(k, "ping") /\ UNCHANGED busVars /\ obj_map' = obj_map
      /\ conns' = DownTo(cn, conns[k].fd, f)
  BY DEF BusdPing, busdVars
<1>2. Sound(cn) /\ Same(conns, cn) /\ Kept(conns, cn)
  BY <1>1, ComesIs DEF Base
<1>3. f \in Frame /\ f.t = "pong"
  BY MsgIs
<1> HIDE DEF cn, f
<1> QED BY <1>1, <1>2, <1>3, BusdServing

\* The end of one connection releases the objects of that connection.
LEMMA BusdEofServing ==
    ASSUME Base, Serving, NEW k \in DOMAIN conns, BusdEof(k)
    PROVE  Serving'
<1> DEFINE cn == TakeUp(k)  dn == conns'
<1>1. Comes(k, "eof") /\ UNCHANGED busVars /\ Release(conns[k].fd)
  BY DEF BusdEof
<1>2. /\ Sound(cn) /\ Same(conns, cn) /\ Kept(conns, cn) /\ k \in DOMAIN cn /\ DOMAIN cn = DOMAIN conns
      /\ cn[k].busd /\ cn[k].fd = conns[k].fd
  BY <1>1, ComesIs DEF Base, Same, Like, SameBusd
<1>3. /\ Kept(cn, dn) /\ SamePeer(cn, dn) /\ ~dn[k].busd
      /\ \A l \in DOMAIN cn : l # k => dn[l] = cn[l]
  BY <1>2, BusdEofIs
<1>4. Served(cn, obj_map, objs)
  BY <1>2, ServedSame DEF Serving
<1> DEFINE pm == obj_map'
<1>5. KeysOnce(pm) /\ ToSet(pm) = {n \in ToSet(obj_map) : n.fd # cn[k].fd}
  <2>1. IsNodes(obj_map) /\ KeysOnce(obj_map) /\ \A n \in ToSet(obj_map) : n.live
    BY <1>4 DEF Base, Served, NodesOK, NodeOK
  <2>2. KeysOnce(pm) /\ ToSet(pm) = {n \in ToSet(obj_map) : n.fd # conns[k].fd}
    BY <1>1, <2>1, ReleaseExact
  <2> QED BY <1>2, <2>2
<1> HIDE DEF cn, dn, pm
<1>6. Served(dn, pm, objs)
  BY <1>2, <1>3, <1>4, <1>5, ServedReleased DEF Sound
<1>7. Ends(dn, link, offline)
  <2>1. Like(conns, dn) /\ SamePeer(conns, dn) /\ \A l \in DOMAIN conns : dn[l].busd => conns[l].busd
    BY <1>2, <1>3 DEF Same, SameBusd, SamePeer, Like, Kept, Closing
  <2> QED BY <2>1, EndsKept DEF Base, Serving
<1> QED BY <1>1, <1>6, <1>7 DEF Serving, busVars, dn, pm

\* A process that dies serves nothing: no open end of a connection is its.
LEMMA CrashServing ==
    ASSUME Base, Serving, NEW b \in Buses, Crash(b)
    PROVE  Serving'
<1> DEFINE dn == conns'  pb == objs'
<1>1. PICK cn, j : /\ j = link[b] /\ j # 0 /\ j \in DOMAIN conns /\ conns[j].bus = b
                   /\ cn = UpTo(conns, j, Eof) /\ Sound(cn) /\ Same(conns, cn)
                   /\ Kept(cn, dn) /\ SameBusd(cn, dn) /\ SameAcks(cn, dn) /\ ~dn[j].peer
                   /\ \A l \in DOMAIN conns : l # j => dn[l] = cn[l]
  BY CrashSteps
<1>2. /\ UNCHANGED <<obj_map, offline>> /\ link' = [link EXCEPT ![b] = 0]
      /\ \A a \in Buses : a # b => pb[a] = objs[a]
  BY DEF Crash, busdVars, Base, Shape
<1>3. /\ IsConns(conns) /\ LinksOwn(conns, link) /\ Ends(conns, link, offline)
      /\ link \in [Buses -> Nat] /\ offline \in [Buses -> BOOLEAN]
  BY DEF Base, Sound, Shape, Serving
<1> HIDE DEF dn, pb
<1>4. Eof \in Frame /\ Eof.t = "eof"
  BY MsgIs DEF Eof
<1>5. Served(cn, obj_map, objs)
  BY <1>1, <1>3, <1>4, ServedUpTo DEF Serving
<1>6. /\ Like(conns, dn) /\ SameBusd(conns, dn)
      /\ \A l \in DOMAIN conns : l # j => dn[l].peer = conns[l].peer
  BY <1>1 DEF Same, SameBusd, SamePeer, Like, Kept
<1>7. \A k \in DOMAIN dn : dn[k].peer => objs[dn[k].bus] \subseteq pb[dn[k].bus]
  <2> SUFFICES ASSUME NEW k \in DOMAIN dn, dn[k].peer
               PROVE  objs[dn[k].bus] \subseteq pb[dn[k].bus]
    OBVIOUS
  <2>1. k \in DOMAIN conns /\ k # j /\ conns[k].peer /\ dn[k].bus = conns[k].bus /\ dn[k].bus \in Buses
    BY <1>1, <1>3, <1>6, ConnHas DEF Like
  <2>2. dn[k].bus # b
    BY <1>1, <1>3, <2>1 DEF Ends, PeersLinked
  <2> QED BY <1>2, <2>1, <2>2
<1>8. Served(dn, obj_map, pb)
  BY <1>1, <1>5, <1>7, ServedKept DEF SameAcks
<1>9. Ends(dn, link', offline)
  <2>1. PICK mk, pf : mk = link' /\ pf = offline
    OBVIOUS
  <2>2. mk[b] = 0 /\ \A a \in Buses : a # b => mk[a] = link[a] /\ pf[a] = offline[a]
    BY <1>2, <1>3, <2>1
  <2>3. j = link[b] /\ j # 0 /\ ~dn[j].peer /\ (pf[b] => offline[b])
    BY <1>1, <2>1
  <2>4. Ends(dn, mk, pf)
    BY <1>3, <1>6, <2>2, <2>3, EndsClosed
  <2> QED BY <2>1, <2>4
<1> QED BY <1>2, <1>8, <1>9 DEF Serving, dn, pb

\* The daemon takes its registry and all connections with it.
LEMMA BusdCrashServing ==
    ASSUME Base, Serving, BusdCrash
    PROVE  Serving'
<1> DEFINE dn == conns'
<1>1. Like(conns, dn) /\ SamePeer(conns, dn) /\ \A k \in DOMAIN dn : ~dn[k].busd
  BY BusdCrashIs DEF Base, Sound, Like
<1>2. UNCHANGED <<link, offline, objs>> /\ obj_map' = << >>
  BY DEF BusdCrash, busVars
<1> HIDE DEF dn
<1>3. Ends(dn, link, offline)
  BY <1>1, EndsKept DEF Base, Serving, Like
<1>4. AddsOK(dn, << >>, objs) /\ AcksOK(dn, << >>)
  BY <1>1 DEF AddsOK, AcksOK
<1>5. NodesOK(dn, << >>, objs) /\ KeysOnce(<< >>)
  BY EmptyKept DEF NodesOK, KeysOnce
<1> QED BY <1>2, <1>3, <1>4, <1>5 DEF Serving, Served, dn

\* Steps that no connection shows.
LEMMA QuietServing ==
    ASSUME Serving, UNCHANGED <<conns, link, offline, obj_map, objs>>
    PROVE  Serving'
BY DEF Serving

\* Every step keeps what RegistrySound rests on.
LEMMA ServingKept ==
    ASSUME ~Overlap, ObjectsApart, Base, Serving, [Next]_vars
    PROVE  Serving'
<1>1. CASE \E b \in Buses : \/ Create(b) \/ Ping(b) \/ Reconnect(b) \/ Crash(b)
                            \/ \E o \in Objects : AddObject(b, o)
  BY <1>1, CreateServing, PingServing, ReconnectServing, CrashServing, AddObjectServing
<1>2. CASE \E b \in Buses : BusCallback(b)
  <2>1. PICK b \in Buses, k \in DOMAIN conns :
           \/ BusAddReply(b, k) \/ BusLookupReply(b, k) \/ BusReply(b, k)
           \/ BusForward(b, k) \/ BusPong(b, k) \/ BusEof(b, k)
    BY <1>2 DEF BusCallback
  <2> QED BY <2>1, BusAddReplyServing, BusLookupReplyServing, BusReplyServing,
             BusForwardServing, BusPongServing, BusEofServing
<1>3. CASE \E c \in Calls : StartCall(c)
  BY <1>3, StartCallServing
<1>4. CASE \E k \in DOMAIN conns : BusdCallback(k)
  BY <1>4, BusdAddServing, BusdLookupServing, BusdInvokeServing,
     BusdForwardReplyServing, BusdPingServing, BusdEofServing DEF BusdCallback
<1>5. CASE BusdCrash
  BY <1>5, BusdCrashServing
<1>6. CASE (\E c \in Calls : Return(c)) \/ BusdStart \/ UNCHANGED vars
  BY <1>6, QuietServing DEF Return, BusdStart, vars, busVars, busdVars
<1> QED BY <1>1, <1>2, <1>3, <1>4, <1>5, <1>6 DEF Next

\* At first there are no connections and no nodes.
LEMMA InitServing == Init => Serving
<1> SUFFICES ASSUME Init PROVE Serving
  OBVIOUS
<1>1. /\ conns = << >> /\ obj_map = << >> /\ \A b \in Buses : link[b] = 0 /\ ~offline[b]
  BY DEF Init
<1>2. Ends(conns, link, offline)
  BY <1>1 DEF Ends, OneOpen, PeersLinked, OfflineClosed
<1>3. AddsOK(conns, obj_map, objs) /\ AcksOK(conns, obj_map)
  BY <1>1 DEF AddsOK, AcksOK
<1>4. NodesOK(conns, obj_map, objs) /\ KeysOnce(obj_map)
  BY <1>1, EmptyKept DEF NodesOK, KeysOnce
<1> QED BY <1>2, <1>3, <1>4 DEF Serving, Served

\* What is registered is served on an open connection, what is confirmed is
\* registered.
LEMMA ServingSound == Base /\ Serving => RegistrySound
<1> SUFFICES ASSUME Base, Serving PROVE NoStaleNode /\ RegisteredWhileServing
  BY BaseTyped DEF RegistrySound
<1>1. \A i \in DOMAIN obj_map : obj_map[i] \in ToSet(obj_map)
  BY DEF ToSet
<1>2. NoStaleNode
  BY <1>1 DEF NoStaleNode, Serving, Served, NodesOK, NodeOK
<1>3. \A k, o : Registered(obj_map, conns[k].fd, o) => RegisteredOn(k, o)
  BY DEF Registered, RegisteredOn, ToSet
<1>4. RegisteredWhileServing
  BY <1>3 DEF RegisteredWhileServing, Serving, Served, AcksOK
<1> QED BY <1>2, <1>4

\* The registry is what it should be, if the daemon reads the end of a
\* process's connection before the frames of the next one and no object has
\* two buses: busd_release_bus_object, which removes by object id whatever the
\* map finds, removes the nodes of the descriptor that ended and no others.
THEOREM RegistryAlwaysSound ==
    ASSUME ~Overlap, ObjectsApart
    PROVE  Spec => []RegistrySound
<1>1. Init => Base /\ Serving
  BY InitBase, InitServing
<1>2. Base /\ Serving /\ [Next]_vars => (Base /\ Serving)'
  BY BaseKept, ServingKept
<1>3. Base /\ Serving => RegistrySound
  BY ServingSound
<1> QED BY <1>1, <1>2, <1>3, PTL DEF Spec

=============================================================================
