------------------------- MODULE EventThreadProofs -------------------------
(***************************************************************************)
(* The event thread for any workers, descriptors and notifier buffer:      *)
(* descriptors are never stale, for any number of threads that enroll and  *)
(* resign, if the usleep before a close is long enough; and select never   *)
(* sleeps through an enrolment if one thread drives all workers.           *)
(***************************************************************************)
EXTENDS EventThread, WellFoundedInduction, TLAPS

Pc(w) == act[Owner[w]].pc
Op(w) == act[Owner[w]].op

\* An operation in progress: whose it is, how far it can be, and the state of
\* its worker.  Only the two ways out of a destroyed worker pass "ready"
\* before the event thread runs.
Operation(a) ==
    LET w == act[a].w
    IN  IF act[a].pc = "idle" THEN w = None
        ELSE /\ w \in Workers /\ Owner[w] = a /\ stop_pc = "no"
             /\ \/ /\ act[a].op = "enroll" /\ state[w] = "made"
                   /\ act[a].pc \in {"ready", "map_add", "raise", "set", "send"}
                \/ /\ act[a].op = "adjust" /\ state[w] \in {"enrolled", "refused"}
                   /\ act[a].pc \in {"ready", "clear", "scan", "lower", "raise", "set", "send"}
                \/ /\ act[a].op = "resign" /\ state[w] = "resigning"
                   /\ act[a].pc \in {"ready", "clear", "scan", "lower", "map_del", "send", "free"}
                \/ /\ act[a].op = "resign" /\ state[w] = "freed" /\ act[a].pc = "close"
             /\ act[a].pc \notin {"ready", "free", "close"} => flags # "init"
             /\ act[a].pc = "scan" => act[a].maxfd >= 0
             /\ act[a].pc = "lower" => act[a].maxfd >= -1

\* Open descriptors have one worker each.
OneWorker ==
    \A w \in Workers : state[w] # "none" =>
        /\ fd_of[w] \in Fds
        /\ \A v \in Workers : state[v] # "none" /\ fd_of[v] = fd_of[w] => v = w

\* What is being destroyed is on its way out of the tables: out of the set
\* after "clear", out of the map after "map_del".
OnTheWayOut(w) ==
    /\ state[w] \in {"resigning", "freed"} => Busy(w)
    /\ state[w] # "none" /\ fd_of[w] \in in =>
          /\ state[w] # "freed"
          /\ state[w] = "made" => Busy(w) /\ Pc(w) = "send"
          /\ state[w] = "resigning" => Pc(w) \in {"ready", "clear"}
    /\ w \in io_map =>
          /\ state[w] \in {"made", "enrolled", "resigning"}
          /\ state[w] = "made" => Busy(w) /\ Pc(w) \in {"raise", "set", "send"}
          /\ state[w] = "resigning" => Pc(w) \in {"ready", "clear", "scan", "lower", "map_del"}

TablesOpen ==
    /\ in \subseteq Open \cup {NotifierFd}
    /\ flags = "init" => in = {} /\ io_map = {} /\ loop_pc = "start"
    /\ loop_pc = "start" => flags = "init"

\* What the loop has copied or found ready is still there.
LoopHolds ==
    /\ loop_pc # "dispatch" => todo = {} /\ cur = None
    /\ loop_pc = "select" => out \subseteq Open \cup {NotifierFd}
    /\ NotifierFd \in todo => notices > 0
    /\ todo \subseteq data \cup {NotifierFd}
    /\ cur # None => state[cur] # "none" /\ fd_of[cur] \in data \ todo
    /\ break_flag = 1 \/ flags = "destroyed" => stop_pc # "no"

Fresh ==
    /\ TypeOK /\ OneWorker /\ TablesOpen /\ LoopHolds
    /\ \A a \in Actors : Operation(a)
    /\ \A w \in Workers : OnTheWayOut(w)

-----------------------------------------------------------------------------
OneUser == \A v, w \in Workers : Owner[v] = Owner[w]

\* Between two operations maxfdp is above the whole set; in one, what it will
\* be set to is.
MaxfdpAbove ==
    /\ \A fd \in in : fd < maxfdp
    /\ \A a \in Actors : act[a].pc \in {"scan", "lower"} => \A fd \in in : fd <= act[a].maxfd
    /\ \A a \in Actors : act[a].pc = "set" => fd_of[act[a].w] < maxfdp

\* An enrolled worker is in the set, except while it is adjusted.
Settled(w) == state[w] = "enrolled" /\ ~Busy(w)
EnrolledSet ==
    \A w \in Workers :
        /\ state[w] = "enrolled" /\ (Busy(w) => Pc(w) \in {"ready", "clear"}) => fd_of[w] \in in
        /\ Busy(w) /\ Pc(w) = "send" /\ Op(w) # "resign" => fd_of[w] \in in

\* From the moment the loop has read maxfdp to the moment it sleeps, a worker
\* that came later has sent a datagram.
Announced ==
    \A w \in Workers : Settled(w) /\ notices = 0 =>
        /\ loop_pc \in {"copy", "select", "blocked"} => fd_of[w] < nfds
        /\ loop_pc \in {"select", "blocked"} => fd_of[w] \in out

Watching == MaxfdpAbove /\ EnrolledSet /\ Announced
-----------------------------------------------------------------------------
\* A set of numbers that is not empty has a least one.
LEMMA LeastNumber ==
    ASSUME NEW S, S \subseteq Nat, S # {}
    PROVE  \E x \in S : \A y \in S : x <= y
<1>1. PICK x \in S : \A y \in S : ~(<<y, x>> \in OpToRel(<, Nat))
  BY NatLessThanWellFounded, WFMin
<1>2. ASSUME NEW y \in S PROVE x <= y
  <2>1. ~(y < x)
    BY <1>1 DEF OpToRel
  <2> QED BY <2>1
<1> QED BY <1>2

\* The loop of __reclaim_io stops at the highest descriptor that is set.
LEMMA ScanFinds ==
    ASSUME NEW m \in Nat, NEW S, S \subseteq Nat
    PROVE  /\ ScanDown(m, S) \in Int /\ ScanDown(m, S) >= -1
           /\ \A i \in S : i <= m => i <= ScanDown(m, S)
<1> DEFINE below == {i \in S : i <= m}
           T == {k \in Nat : m - k \in below}
<1>1. CASE below = {}
  BY <1>1 DEF ScanDown
<1>2. CASE below # {}
  <2>1. PICK s \in below : TRUE
    BY <1>2
  <2>2. m - s \in T
    OBVIOUS
  <2>3. PICK k \in T : \A l \in T : k <= l
    BY <2>2, LeastNumber
  <2>4. ASSUME NEW y \in below PROVE y <= m - k
    <3>1. m - y \in T
      OBVIOUS
    <3>2. k <= m - y /\ k \in Nat /\ y \in Nat
      BY <2>3
    <3> QED BY <3>2
  <2>5. m - k \in below
    OBVIOUS
  <2>6. ScanDown(m, S) = CHOOSE i \in below : \A j \in below : j <= i
    BY DEF ScanDown
  <2>7. ScanDown(m, S) \in below /\ \A j \in below : j <= ScanDown(m, S)
    BY <2>4, <2>6
  <2>8. ScanDown(m, S) \in Nat
    BY <2>7
  <2>9. \A i \in S : i <= m => i <= ScanDown(m, S)
    BY <2>7
  <2> QED BY <2>8, <2>9
<1> QED BY <1>1, <1>2


\* A new socket takes a number that no worker has.
LEMMA OpenSocketFresh ==
    ASSUME Fresh, NEW w \in Workers, OpenSocket(w)
    PROVE  Fresh'
<1> USE OwnerAssumption, FdsAssumption, RoomAssumption DEF loopVars, tableVars, sockVars
<1>1. TypeOK'
  BY DEF Fresh, TypeOK, OpenSocket
<1>2. OneWorker'
  BY DEF Fresh, TypeOK, OneWorker, Open, OpenSocket
<1>3. TablesOpen'
  BY DEF Fresh, TablesOpen, Open, OpenSocket
<1>4. LoopHolds'
  BY DEF Fresh, Open, LoopHolds, OpenSocket
<1>5. (\A b \in Actors : Operation(b))'
  BY DEF Fresh, Operation, OpenSocket
<1>6. (\A v \in Workers : OnTheWayOut(v))'
  BY DEF Fresh, TypeOK, OnTheWayOut, Busy, Pc, TablesOpen, OpenSocket
<1> QED BY <1>1, <1>2, <1>3, <1>4, <1>5, <1>6 DEF Fresh

\* worker->enroll begins.
LEMMA EnrollFresh ==
    ASSUME Fresh, NEW w \in Workers, Enroll(w)
    PROVE  Fresh'
<1> USE OwnerAssumption, FdsAssumption, RoomAssumption DEF loopVars, tableVars, sockVars
<1>1. TypeOK'
  BY DEF Fresh, TypeOK, Statements, Enroll, Begin
<1>2. OneWorker'
  BY DEF Fresh, OneWorker, Enroll
<1>3. TablesOpen'
  BY DEF Fresh, TablesOpen, Open, Enroll
<1>4. LoopHolds'
  BY DEF Fresh, Open, LoopHolds, Enroll
<1>5. (\A b \in Actors : Operation(b))'
  BY DEF Fresh, Operation, Enroll, IdleActor, Begin
<1>6. (\A v \in Workers : OnTheWayOut(v))'
  BY DEF Fresh, Operation, OnTheWayOut, Busy, Pc, Enroll, IdleActor, Begin
<1> QED BY <1>1, <1>2, <1>3, <1>4, <1>5, <1>6 DEF Fresh

\* worker->adjust begins.
LEMMA AdjustFresh ==
    ASSUME Fresh, NEW w \in Workers, Adjust(w)
    PROVE  Fresh'
<1> USE OwnerAssumption, FdsAssumption, RoomAssumption DEF loopVars, tableVars, sockVars
<1>1. TypeOK'
  BY DEF Fresh, TypeOK, Statements, Adjust, Begin
<1>2. OneWorker'
  BY DEF Fresh, OneWorker, Adjust
<1>3. TablesOpen'
  BY DEF Fresh, TablesOpen, Open, Adjust
<1>4. LoopHolds'
  BY DEF Fresh, Open, LoopHolds, Adjust
<1>5. (\A b \in Actors : Operation(b))'
  BY DEF Fresh, Operation, Adjust, IdleActor, Begin
<1>6. (\A v \in Workers : OnTheWayOut(v))'
  BY DEF Fresh, Operation, OnTheWayOut, Busy, Pc, Adjust, IdleActor, Begin
<1> QED BY <1>1, <1>2, <1>3, <1>4, <1>5, <1>6 DEF Fresh

\* object_destroy of a worker begins.
LEMMA DestroyFresh ==
    ASSUME Fresh, NEW w \in Workers, Destroy(w)
    PROVE  Fresh'
<1> USE OwnerAssumption, FdsAssumption, RoomAssumption DEF loopVars, tableVars, sockVars
<1>1. TypeOK'
  BY DEF Fresh, TypeOK, Statements, Operation, LoopHolds, OneWorker, Destroy, Begin
<1>2. OneWorker'
  BY DEF Fresh, TypeOK, OneWorker, Destroy
<1>3. TablesOpen'
  BY DEF Fresh, TypeOK, TablesOpen, Open, Destroy
<1>4. LoopHolds'
  BY DEF Fresh, TypeOK, Open, LoopHolds, Destroy
<1>5. (\A b \in Actors : Operation(b))'
  <2>1. CASE state[w] = "made"
    BY DEF Fresh, TypeOK, Operation, Destroy, IdleActor, Begin
  <2>2. CASE state[w] # "made"
    BY DEF Fresh, TypeOK, Operation, Destroy, IdleActor, Begin
  <2> QED BY <2>1, <2>2
<1>6. (\A v \in Workers : OnTheWayOut(v))'
  BY DEF Fresh, TypeOK, Operation, OnTheWayOut, Busy, Pc, Destroy, IdleActor, Begin
<1> QED BY <1>1, <1>2, <1>3, <1>4, <1>5, <1>6 DEF Fresh

\* Data arrives.
LEMMA ArriveFresh ==
    ASSUME Fresh, NEW w \in Workers, Arrive(w)
    PROVE  Fresh'
<1> USE OwnerAssumption, FdsAssumption, RoomAssumption DEF loopVars, tableVars, sockVars
<1>1. TypeOK'
  <2>1. data' \subseteq Fds
    BY DEF Fresh, TypeOK, OneWorker, Arrive
  <2> QED BY <2>1 DEF Fresh, TypeOK, Arrive
<1>2. OneWorker'
  BY DEF Fresh, OneWorker, Arrive
<1>3. TablesOpen'
  BY DEF Fresh, TablesOpen, Open, Arrive
<1>4. LoopHolds'
  BY DEF Fresh, Open, LoopHolds, Arrive
<1>5. (\A b \in Actors : Operation(b))'
  BY DEF Fresh, Operation, Arrive
<1>6. (\A v \in Workers : OnTheWayOut(v))'
  BY DEF Fresh, OnTheWayOut, Busy, Pc, Arrive
<1> QED BY <1>1, <1>2, <1>3, <1>4, <1>5, <1>6 DEF Fresh

\* The event thread runs: the operation goes on.
LEMMA ReadyFresh ==
    ASSUME Fresh, NEW a \in Actors, Ready(a)
    PROVE  Fresh'
<1> USE OwnerAssumption, FdsAssumption, RoomAssumption DEF loopVars, tableVars, sockVars
<1>1. TypeOK'
  BY DEF Fresh, TypeOK, Statements, Operation, Ready, Goto
<1>2. OneWorker'
  BY DEF Fresh, OneWorker, Ready
<1>3. TablesOpen'
  BY DEF Fresh, TablesOpen, Open, Ready
<1>4. LoopHolds'
  BY DEF Fresh, Open, LoopHolds, Ready
<1>5. (\A b \in Actors : Operation(b))'
  BY DEF Fresh, Operation, Ready, At, Goto
<1>6. (\A v \in Workers : OnTheWayOut(v))'
  BY DEF Fresh, Operation, OnTheWayOut, Busy, Pc, Ready, At, Goto
<1> QED BY <1>1, <1>2, <1>3, <1>4, <1>5, <1>6 DEF Fresh

\* The event thread is gone: the operation ends without the tables.
LEMMA GiveUpFresh ==
    ASSUME Fresh, NEW a \in Actors, GiveUp(a)
    PROVE  Fresh'
<1> USE OwnerAssumption, FdsAssumption, RoomAssumption DEF loopVars, tableVars, sockVars
<1>1. TypeOK'
  <2>1. state' \in [Workers -> {"none", "made", "enrolled", "refused", "resigning", "freed"}]
    BY DEF Fresh, TypeOK, GiveUp, SetState
  <2>2. act' \in [Actors -> [pc : Statements, op : {"none", "enroll", "adjust", "resign"},
                           w : Workers \cup {None}, maxfd : Int]]
    BY DEF Fresh, TypeOK, Statements, GiveUp, Goto, Finish, Idle
  <2> QED BY <2>1, <2>2 DEF Fresh, TypeOK, GiveUp
<1>2. OneWorker'
  BY DEF Fresh, TypeOK, OneWorker, Operation, GiveUp, SetState
<1>3. TablesOpen'
  BY DEF Fresh, TablesOpen, GiveUp
<1>4. LoopHolds'
  BY DEF Fresh, TablesOpen, LoopHolds, GiveUp
<1>5. (\A b \in Actors : Operation(b))'
  BY DEF Fresh, TypeOK, Operation, TablesOpen, GiveUp, At, Goto, Finish, SetState, Idle
<1>6. (\A v \in Workers : OnTheWayOut(v))'
  BY DEF Fresh, TypeOK, Operation, OnTheWayOut, Busy, TablesOpen, GiveUp, Goto, Finish, SetState
<1> QED BY <1>1, <1>2, <1>3, <1>4, <1>5, <1>6 DEF Fresh

\* io_map->add: the worker is in the map from now on.
LEMMA MapAddFresh ==
    ASSUME Fresh, NEW a \in Actors, MapAdd(a)
    PROVE  Fresh'
<1> USE OwnerAssumption, FdsAssumption, RoomAssumption DEF loopVars, tableVars, sockVars
<1>1. TypeOK'
  BY DEF Fresh, TypeOK, Statements, Operation, MapAdd, At, Goto
<1>2. OneWorker'
  BY DEF Fresh, OneWorker, MapAdd
<1>3. TablesOpen'
  BY DEF Fresh, TablesOpen, Open, Operation, MapAdd, At
<1>4. LoopHolds'
  BY DEF Fresh, Open, LoopHolds, MapAdd
<1>5. (\A b \in Actors : Operation(b))'
  BY DEF Fresh, Operation, MapAdd, At, Goto
<1>6. (\A v \in Workers : OnTheWayOut(v))'
  BY DEF Fresh, TypeOK, Operation, OnTheWayOut, Busy, Pc, MapAdd, At, Goto
<1> QED BY <1>1, <1>2, <1>3, <1>4, <1>5, <1>6 DEF Fresh

\* maxfdp is raised above the descriptor.
LEMMA RaiseMaxfdpFresh ==
    ASSUME Fresh, NEW a \in Actors, RaiseMaxfdp(a)
    PROVE  Fresh'
<1> USE OwnerAssumption, FdsAssumption, RoomAssumption DEF loopVars, tableVars, sockVars
<1>1. TypeOK'
  BY DEF Fresh, TypeOK, Statements, Operation, RaiseMaxfdp, At, Goto, Fd, MaxfdpWith
<1>2. OneWorker'
  BY DEF Fresh, OneWorker, RaiseMaxfdp
<1>3. TablesOpen'
  BY DEF Fresh, TablesOpen, Open, RaiseMaxfdp
<1>4. LoopHolds'
  BY DEF Fresh, Open, LoopHolds, RaiseMaxfdp
<1>5. (\A b \in Actors : Operation(b))'
  BY DEF Fresh, Operation, RaiseMaxfdp, At, Goto
<1>6. (\A v \in Workers : OnTheWayOut(v))'
  BY DEF Fresh, OnTheWayOut, Busy, Pc, RaiseMaxfdp, At, Goto
<1> QED BY <1>1, <1>2, <1>3, <1>4, <1>5, <1>6 DEF Fresh

\* FD_SET, with maxfdp above it already.
LEMMA FdSetFresh ==
    ASSUME Fresh, NEW a \in Actors, FdSet(a)
    PROVE  Fresh'
<1> USE OwnerAssumption, FdsAssumption, RoomAssumption DEF loopVars, tableVars, sockVars
<1>1. TypeOK'
  BY DEF Fresh, TypeOK, Statements, Operation, OneWorker, FdSet, At, Goto, Fd
<1>2. OneWorker'
  BY DEF Fresh, OneWorker, FdSet
<1>3. TablesOpen'
  BY DEF Fresh, TablesOpen, Open, Operation, FdSet, At, Fd
<1>4. LoopHolds'
  BY DEF Fresh, Open, LoopHolds, FdSet
<1>5. (\A b \in Actors : Operation(b))'
  BY DEF Fresh, Operation, FdSet, At, Goto
<1>6. (\A v \in Workers : OnTheWayOut(v))'
  BY DEF Fresh, TypeOK, OneWorker, Operation, OnTheWayOut, Busy, Pc, FdSet, At, Goto, Fd
<1> QED BY <1>1, <1>2, <1>3, <1>4, <1>5, <1>6 DEF Fresh

\* An operation that goes on has the fields it had, but two.
LEMMA MovedOn ==
    ASSUME NEW P, NEW O, NEW W, NEW r \in [pc : P, op : O, w : W, maxfd : Int], NEW m \in Int, NEW p \in P
    PROVE  [r EXCEPT !.maxfd = m, !.pc = p] \in [pc : P, op : O, w : W, maxfd : Int]
OBVIOUS

\* FD_CLR: what is left to scan is below maxfdp.
LEMMA FdClearFresh ==
    ASSUME Fresh, NEW a \in Actors, FdClear(a)
    PROVE  Fresh'
<1> USE OwnerAssumption, FdsAssumption, RoomAssumption DEF loopVars, tableVars, sockVars
<1>1. TypeOK'
  <2>1. [act[a] EXCEPT !.maxfd = maxfdp, !.pc = "scan"]
           \in [pc : Statements, op : {"none", "enroll", "adjust", "resign"},
               w : Workers \cup {None}, maxfd : Int]
    <3>1. maxfdp \in Int /\ "scan" \in Statements
      BY DEF Fresh, TypeOK, Statements
    <3>2. act[a] \in [pc : Statements, op : {"none", "enroll", "adjust", "resign"},
                     w : Workers \cup {None}, maxfd : Int]
      BY DEF Fresh, TypeOK
    <3> QED BY <3>1, <3>2, MovedOn
  <2>2. act' \in [Actors -> [pc : Statements, op : {"none", "enroll", "adjust", "resign"},
                           w : Workers \cup {None}, maxfd : Int]]
    BY <2>1 DEF Fresh, TypeOK, FdClear
  <2> QED BY <2>2 DEF Fresh, TypeOK, FdClear
<1>2. OneWorker'
  BY DEF Fresh, OneWorker, FdClear
<1>3. TablesOpen'
  BY DEF Fresh, TablesOpen, Open, FdClear
<1>4. LoopHolds'
  BY DEF Fresh, Open, LoopHolds, FdClear
<1>5. (\A b \in Actors : Operation(b))'
  BY DEF Fresh, TypeOK, Statements, Operation, FdClear, At, Fd
<1>6. (\A v \in Workers : OnTheWayOut(v))'
  BY DEF Fresh, TypeOK, Operation, OnTheWayOut, Busy, Pc, OneWorker, FdClear, At, Fd
<1> QED BY <1>1, <1>2, <1>3, <1>4, <1>5, <1>6 DEF Fresh

\* The scan stops at the highest descriptor that is left.
LEMMA ScanFresh ==
    ASSUME Fresh, NEW a \in Actors, Scan(a)
    PROVE  Fresh'
<1> USE OwnerAssumption, FdsAssumption, RoomAssumption DEF loopVars, tableVars, sockVars
<1>0. /\ ScanDown(act[a].maxfd, in) \in Int /\ ScanDown(act[a].maxfd, in) >= -1
      /\ \A i \in in : i <= act[a].maxfd => i <= ScanDown(act[a].maxfd, in)
  <2>1. act[a].maxfd \in Nat /\ in \subseteq Nat
    BY DEF Fresh, TypeOK, Operation, Scan, At
  <2> QED BY <2>1, ScanFinds
<1>1. TypeOK'
  <2>1. [act[a] EXCEPT !.maxfd = ScanDown(act[a].maxfd, in), !.pc = "lower"]
           \in [pc : Statements, op : {"none", "enroll", "adjust", "resign"},
               w : Workers \cup {None}, maxfd : Int]
    <3>1. "lower" \in Statements
      BY DEF Fresh, TypeOK, Statements
    <3>2. act[a] \in [pc : Statements, op : {"none", "enroll", "adjust", "resign"},
                     w : Workers \cup {None}, maxfd : Int]
      BY DEF Fresh, TypeOK
    <3> QED BY <1>0, <3>1, <3>2, MovedOn
  <2>2. act' \in [Actors -> [pc : Statements, op : {"none", "enroll", "adjust", "resign"},
                           w : Workers \cup {None}, maxfd : Int]]
    BY <2>1 DEF Fresh, TypeOK, Scan
  <2> QED BY <2>2 DEF Fresh, TypeOK, Scan
<1>2. OneWorker'
  BY DEF Fresh, OneWorker, Scan
<1>3. TablesOpen'
  BY DEF Fresh, TablesOpen, Open, Scan
<1>4. LoopHolds'
  BY DEF Fresh, Open, LoopHolds, Scan
<1>5. (\A b \in Actors : Operation(b))'
  BY <1>0 DEF Fresh, TypeOK, Statements, Operation, Scan, At
<1>6. (\A v \in Workers : OnTheWayOut(v))'
  BY DEF Fresh, TypeOK, Operation, OnTheWayOut, Busy, Pc, OneWorker, Scan, At
<1> QED BY <1>1, <1>2, <1>3, <1>4, <1>5, <1>6 DEF Fresh

\* maxfdp is lowered to just above what was found.
LEMMA LowerMaxfdpFresh ==
    ASSUME Fresh, NEW a \in Actors, LowerMaxfdp(a)
    PROVE  Fresh'
<1> USE OwnerAssumption, FdsAssumption, RoomAssumption DEF loopVars, tableVars, sockVars
<1>1. TypeOK'
  BY DEF Fresh, TypeOK, Statements, Operation, LowerMaxfdp, At, Goto
<1>2. OneWorker'
  BY DEF Fresh, OneWorker, LowerMaxfdp
<1>3. TablesOpen'
  BY DEF Fresh, TablesOpen, Open, LowerMaxfdp
<1>4. LoopHolds'
  BY DEF Fresh, Open, LoopHolds, LowerMaxfdp
<1>5. (\A b \in Actors : Operation(b))'
  BY DEF Fresh, Operation, LowerMaxfdp, At, Goto
<1>6. (\A v \in Workers : OnTheWayOut(v))'
  BY DEF Fresh, Operation, OnTheWayOut, Busy, Pc, LowerMaxfdp, At, Goto
<1> QED BY <1>1, <1>2, <1>3, <1>4, <1>5, <1>6 DEF Fresh

\* io_map->remove: the worker is out of both tables.
LEMMA MapDelFresh ==
    ASSUME Fresh, NEW a \in Actors, MapDel(a)
    PROVE  Fresh'
<1> USE OwnerAssumption, FdsAssumption, RoomAssumption DEF loopVars, tableVars, sockVars
<1>1. TypeOK'
  BY DEF Fresh, TypeOK, Statements, MapDel, At, Goto
<1>2. OneWorker'
  BY DEF Fresh, OneWorker, MapDel
<1>3. TablesOpen'
  BY DEF Fresh, TablesOpen, Open, MapDel
<1>4. LoopHolds'
  BY DEF Fresh, Open, LoopHolds, MapDel
<1>5. (\A b \in Actors : Operation(b))'
  BY DEF Fresh, Operation, MapDel, At, Goto
<1>6. (\A v \in Workers : OnTheWayOut(v))'
  BY DEF Fresh, OnTheWayOut, Busy, Pc, MapDel, At, Goto, Fd
<1> QED BY <1>1, <1>2, <1>3, <1>4, <1>5, <1>6 DEF Fresh

\* The datagram is sent, or the notifier is full and one waits already.
LEMMA SendFresh ==
    ASSUME Fresh, NEW a \in Actors, Send(a)
    PROVE  Fresh'
<1> USE OwnerAssumption, FdsAssumption, RoomAssumption DEF loopVars, tableVars, sockVars
<1>1. TypeOK'
  <2>1. state' \in [Workers -> {"none", "made", "enrolled", "refused", "resigning", "freed"}]
    BY DEF Fresh, TypeOK, Send, SetState
  <2>2. act' \in [Actors -> [pc : Statements, op : {"none", "enroll", "adjust", "resign"},
                           w : Workers \cup {None}, maxfd : Int]]
    <3>1. CASE Goto(a, "free")
      BY <3>1 DEF Fresh, TypeOK, Statements, Goto
    <3>2. CASE Finish(a)
      BY <3>2 DEF Fresh, TypeOK, Statements, Finish, Idle
    <3> QED BY <3>1, <3>2 DEF Send
  <2>3. notices' \in 0 .. NotifierRoom
    BY DEF Fresh, TypeOK, Send, Notify
  <2> QED BY <2>1, <2>2, <2>3 DEF Fresh, TypeOK, Send
<1>2. OneWorker'
  BY DEF Fresh, TypeOK, OneWorker, Operation, Send, SetState
<1>3. TablesOpen'
  BY DEF Fresh, TypeOK, TablesOpen, Open, Send, SetState
<1>4. LoopHolds'
  BY DEF Fresh, TypeOK, Open, LoopHolds, Send, SetState, Notify
<1>5. (\A b \in Actors : Operation(b))'
  BY DEF Fresh, TypeOK, Operation, TablesOpen, Send, At, Goto, Finish, SetState, Idle
<1>6. (\A v \in Workers : OnTheWayOut(v))'
  BY DEF Fresh, TypeOK, Operation, OnTheWayOut, Busy, Pc, TablesOpen, Send, At, Goto, Finish, SetState
<1> QED BY <1>1, <1>2, <1>3, <1>4, <1>5, <1>6 DEF Fresh

\* The worker is freed.
LEMMA FreeFresh ==
    ASSUME Fresh, NEW a \in Actors, Free(a)
    PROVE  Fresh'
<1> USE OwnerAssumption, FdsAssumption, RoomAssumption DEF loopVars, tableVars, sockVars
<1>1. TypeOK'
  BY DEF Fresh, TypeOK, Statements, Operation, Free, At, Goto, SetState
<1>2. OneWorker'
  BY DEF Fresh, OneWorker, Operation, Free, SetState
<1>3. TablesOpen'
  BY DEF Fresh, TablesOpen, Open, Free, SetState
<1>4. LoopHolds'
  BY DEF Fresh, Open, LoopHolds, Free, SetState
<1>5. (\A b \in Actors : Operation(b))'
  BY DEF Fresh, TypeOK, Operation, Free, At, Goto, SetState
<1>6. (\A v \in Workers : OnTheWayOut(v))'
  BY DEF Fresh, Operation, OnTheWayOut, Busy, Pc, Free, At, Goto, SetState
<1> QED BY <1>1, <1>2, <1>3, <1>4, <1>5, <1>6 DEF Fresh

\* The socket is closed, after a usleep that was long enough.
LEMMA CloseFresh ==
    ASSUME Fresh, NEW a \in Actors, SleepSuffices, Close(a)
    PROVE  Fresh'
<1> USE OwnerAssumption, FdsAssumption, RoomAssumption DEF loopVars, tableVars, sockVars
<1>1. TypeOK'
  <2>1. state' \in [Workers -> {"none", "made", "enrolled", "refused", "resigning", "freed"}]
    BY DEF Fresh, TypeOK, Close, SetState
  <2>2. act' \in [Actors -> [pc : Statements, op : {"none", "enroll", "adjust", "resign"},
                           w : Workers \cup {None}, maxfd : Int]]
    BY DEF Fresh, TypeOK, Statements, Close, Finish, Idle
  <2> QED BY <2>1, <2>2 DEF Fresh, TypeOK, Close
<1>2. OneWorker'
  BY DEF Fresh, OneWorker, Close, SetState
<1>3. TablesOpen'
  <2> DEFINE w == act[a].w
  <2>1. w \in Workers /\ state[w] = "freed" /\ fd_of[w] \notin in
    BY DEF Fresh, Operation, OnTheWayOut, Close, At
  <2>2. \A v \in Workers \ {w} : state'[v] = state[v]
    BY DEF Close, SetState
  <2>3. in \subseteq Open' \cup {NotifierFd}
    BY <2>1, <2>2 DEF Fresh, TablesOpen, Open, Close
  <2> QED BY <2>3 DEF Fresh, TablesOpen, Close
<1>4. LoopHolds'
  BY DEF Fresh, Open, LoopHolds, Close, SetState, Fd, Held
<1>5. (\A b \in Actors : Operation(b))'
  BY DEF Fresh, TypeOK, Operation, Close, Finish, SetState, Idle
<1>6. (\A v \in Workers : OnTheWayOut(v))'
  BY DEF Fresh, TypeOK, Operation, OnTheWayOut, Busy, Pc, Close, At, Finish, SetState
<1> QED BY <1>1, <1>2, <1>3, <1>4, <1>5, <1>6 DEF Fresh

\* The loop begins.
LEMMA StartFresh ==
    ASSUME Fresh, Start
    PROVE  Fresh'
<1> USE OwnerAssumption, FdsAssumption, RoomAssumption DEF loopVars, tableVars, sockVars
<1>1. TypeOK'
  BY DEF Fresh, TypeOK, Start, MaxfdpWith
<1>2. OneWorker'
  BY DEF Fresh, OneWorker, Start
<1>3. TablesOpen'
  BY DEF Fresh, TablesOpen, Start
<1>4. LoopHolds'
  BY DEF Fresh, LoopHolds, Start
<1>5. (\A b \in Actors : Operation(b))'
  BY DEF Fresh, Operation, Start
<1>6. (\A v \in Workers : OnTheWayOut(v))'
  BY DEF Fresh, OneWorker, OnTheWayOut, Busy, TablesOpen, Start
<1> QED BY <1>1, <1>2, <1>3, <1>4, <1>5, <1>6 DEF Fresh

\* break_flag is looked at and maxfdp is read.
LEMMA CheckFresh ==
    ASSUME Fresh, Check
    PROVE  Fresh'
<1> USE OwnerAssumption, FdsAssumption, RoomAssumption DEF loopVars, tableVars, sockVars
<1>1. TypeOK'
  BY DEF Fresh, TypeOK, Check
<1>2. OneWorker'
  BY DEF Fresh, OneWorker, Check
<1>3. TablesOpen'
  BY DEF Fresh, TablesOpen, Open, Check
<1>4. LoopHolds'
  BY DEF Fresh, LoopHolds, Check
<1>5. (\A b \in Actors : Operation(b))'
  BY DEF Fresh, Operation, Check
<1>6. (\A v \in Workers : OnTheWayOut(v))'
  BY DEF Fresh, OnTheWayOut, Busy, Pc, Check
<1> QED BY <1>1, <1>2, <1>3, <1>4, <1>5, <1>6 DEF Fresh

\* The loop is left.
LEMMA ExitFresh ==
    ASSUME Fresh, Exit
    PROVE  Fresh'
<1> USE OwnerAssumption, FdsAssumption, RoomAssumption DEF loopVars, tableVars, sockVars
<1>1. TypeOK'
  BY DEF Fresh, TypeOK, Exit
<1>2. OneWorker'
  BY DEF Fresh, OneWorker, Exit
<1>3. TablesOpen'
  BY DEF Fresh, TablesOpen, Open, Exit
<1>4. LoopHolds'
  BY DEF Fresh, LoopHolds, Exit
<1>5. (\A b \in Actors : Operation(b))'
  BY DEF Fresh, Operation, Exit
<1>6. (\A v \in Workers : OnTheWayOut(v))'
  BY DEF Fresh, OnTheWayOut, Busy, Pc, Exit
<1> QED BY <1>1, <1>2, <1>3, <1>4, <1>5, <1>6 DEF Fresh

\* The sets are copied for select.
LEMMA CopySetsFresh ==
    ASSUME Fresh, CopySets
    PROVE  Fresh'
<1> USE OwnerAssumption, FdsAssumption, RoomAssumption DEF loopVars, tableVars, sockVars
<1>1. TypeOK'
  BY DEF Fresh, TypeOK, CopySets
<1>2. OneWorker'
  BY DEF Fresh, OneWorker, CopySets
<1>3. TablesOpen'
  BY DEF Fresh, TablesOpen, Open, CopySets
<1>4. LoopHolds'
  BY DEF Fresh, TablesOpen, Open, LoopHolds, CopySets
<1>5. (\A b \in Actors : Operation(b))'
  BY DEF Fresh, Operation, CopySets
<1>6. (\A v \in Workers : OnTheWayOut(v))'
  BY DEF Fresh, OnTheWayOut, Busy, Pc, CopySets
<1> QED BY <1>1, <1>2, <1>3, <1>4, <1>5, <1>6 DEF Fresh

\* select looks at the copies.
LEMMA SelectEnterFresh ==
    ASSUME Fresh, SelectEnter
    PROVE  Fresh'
<1> USE OwnerAssumption, FdsAssumption, RoomAssumption DEF loopVars, tableVars, sockVars
<1>1. TypeOK'
  BY DEF Fresh, TypeOK, SelectEnter
<1>2. OneWorker'
  BY DEF Fresh, OneWorker, SelectEnter
<1>3. TablesOpen'
  BY DEF Fresh, TablesOpen, Open, SelectEnter
<1>4. LoopHolds'
  <2>1. Closed = {}
    BY DEF Fresh, LoopHolds, SelectEnter, Closed, Watched
  <2>2. Open' = Open
    BY DEF SelectEnter, Open
  <2> QED BY <2>1 DEF Fresh, LoopHolds, SelectEnter
<1>5. (\A b \in Actors : Operation(b))'
  BY DEF Fresh, Operation, SelectEnter
<1>6. (\A v \in Workers : OnTheWayOut(v))'
  BY DEF Fresh, OnTheWayOut, Busy, Pc, SelectEnter
<1> QED BY <1>1, <1>2, <1>3, <1>4, <1>5, <1>6 DEF Fresh

\* select returns what has data.
LEMMA SelectReturnFresh ==
    ASSUME Fresh, SelectReturn
    PROVE  Fresh'
<1> USE OwnerAssumption, FdsAssumption, RoomAssumption DEF loopVars, tableVars, sockVars
<1>1. TypeOK'
  BY DEF Fresh, TypeOK, SelectReturn, ReadyFds
<1>2. OneWorker'
  BY DEF Fresh, OneWorker, SelectReturn
<1>3. TablesOpen'
  BY DEF Fresh, TablesOpen, Open, SelectReturn
<1>4. LoopHolds'
  BY DEF Fresh, TypeOK, LoopHolds, SelectReturn, ReadyFds
<1>5. (\A b \in Actors : Operation(b))'
  BY DEF Fresh, Operation, SelectReturn
<1>6. (\A v \in Workers : OnTheWayOut(v))'
  BY DEF Fresh, OnTheWayOut, Busy, Pc, SelectReturn
<1> QED BY <1>1, <1>2, <1>3, <1>4, <1>5, <1>6 DEF Fresh

\* A signal ends select.
LEMMA SelectInterruptedFresh ==
    ASSUME Fresh, SelectInterrupted
    PROVE  Fresh'
<1> USE OwnerAssumption, FdsAssumption, RoomAssumption DEF loopVars, tableVars, sockVars
<1>1. TypeOK'
  BY DEF Fresh, TypeOK, SelectInterrupted
<1>2. OneWorker'
  BY DEF Fresh, OneWorker, SelectInterrupted
<1>3. TablesOpen'
  BY DEF Fresh, TablesOpen, Open, SelectInterrupted
<1>4. LoopHolds'
  BY DEF Fresh, LoopHolds, SelectInterrupted
<1>5. (\A b \in Actors : Operation(b))'
  BY DEF Fresh, Operation, SelectInterrupted
<1>6. (\A v \in Workers : OnTheWayOut(v))'
  BY DEF Fresh, OnTheWayOut, Busy, Pc, SelectInterrupted
<1> QED BY <1>1, <1>2, <1>3, <1>4, <1>5, <1>6 DEF Fresh

\* activate_io finds a worker for a descriptor, or the notifier.
LEMMA ActivateFresh ==
    ASSUME Fresh, NEW fd \in Fds \cup {NotifierFd}, Activate(fd)
    PROVE  Fresh'
<1> USE OwnerAssumption, FdsAssumption, RoomAssumption DEF loopVars, tableVars, sockVars
<1>1. TypeOK'
  BY DEF Fresh, TypeOK, LoopHolds, Activate
<1>2. OneWorker'
  BY DEF Fresh, OneWorker, Activate
<1>3. TablesOpen'
  BY DEF Fresh, TablesOpen, Open, Activate
<1>4. LoopHolds'
  BY DEF Fresh, TypeOK, LoopHolds, OnTheWayOut, Activate
<1>5. (\A b \in Actors : Operation(b))'
  BY DEF Fresh, Operation, Activate
<1>6. (\A v \in Workers : OnTheWayOut(v))'
  BY DEF Fresh, OnTheWayOut, Busy, Pc, Activate
<1> QED BY <1>1, <1>2, <1>3, <1>4, <1>5, <1>6 DEF Fresh

\* A callback has received.
LEMMA CallbackReturnsFresh ==
    ASSUME Fresh, CallbackReturns
    PROVE  Fresh'
<1> USE OwnerAssumption, FdsAssumption, RoomAssumption DEF loopVars, tableVars, sockVars
<1>1. TypeOK'
  BY DEF Fresh, TypeOK, CallbackReturns
<1>2. OneWorker'
  BY DEF Fresh, OneWorker, CallbackReturns
<1>3. TablesOpen'
  BY DEF Fresh, TablesOpen, Open, CallbackReturns
<1>4. LoopHolds'
  BY DEF Fresh, LoopHolds, CallbackReturns
<1>5. (\A b \in Actors : Operation(b))'
  BY DEF Fresh, Operation, CallbackReturns
<1>6. (\A v \in Workers : OnTheWayOut(v))'
  BY DEF Fresh, OnTheWayOut, Busy, Pc, CallbackReturns
<1> QED BY <1>1, <1>2, <1>3, <1>4, <1>5, <1>6 DEF Fresh

\* The round is over.
LEMMA DispatchDoneFresh ==
    ASSUME Fresh, DispatchDone
    PROVE  Fresh'
<1> USE OwnerAssumption, FdsAssumption, RoomAssumption DEF loopVars, tableVars, sockVars
<1>1. TypeOK'
  BY DEF Fresh, TypeOK, DispatchDone
<1>2. OneWorker'
  BY DEF Fresh, OneWorker, DispatchDone
<1>3. TablesOpen'
  BY DEF Fresh, TablesOpen, Open, DispatchDone
<1>4. LoopHolds'
  BY DEF Fresh, LoopHolds, DispatchDone
<1>5. (\A b \in Actors : Operation(b))'
  BY DEF Fresh, Operation, DispatchDone
<1>6. (\A v \in Workers : OnTheWayOut(v))'
  BY DEF Fresh, OnTheWayOut, Busy, Pc, DispatchDone
<1> QED BY <1>1, <1>2, <1>3, <1>4, <1>5, <1>6 DEF Fresh

\* break_flag is set.
LEMMA StopFlagFresh ==
    ASSUME Fresh, StopFlag
    PROVE  Fresh'
<1> USE OwnerAssumption, FdsAssumption, RoomAssumption DEF loopVars, tableVars, sockVars
<1>1. TypeOK'
  BY DEF Fresh, TypeOK, StopFlag
<1>2. OneWorker'
  BY DEF Fresh, OneWorker, StopFlag
<1>3. TablesOpen'
  BY DEF Fresh, TablesOpen, Open, StopFlag
<1>4. LoopHolds'
  BY DEF Fresh, Open, LoopHolds, StopFlag
<1>5. (\A b \in Actors : Operation(b))'
  BY DEF Fresh, Operation, StopFlag, At
<1>6. (\A v \in Workers : OnTheWayOut(v))'
  BY DEF Fresh, OnTheWayOut, Busy, Pc, StopFlag
<1> QED BY <1>1, <1>2, <1>3, <1>4, <1>5, <1>6 DEF Fresh

\* The notifier is told to stop.
LEMMA StopSendFresh ==
    ASSUME Fresh, StopSend
    PROVE  Fresh'
<1> USE OwnerAssumption, FdsAssumption, RoomAssumption DEF loopVars, tableVars, sockVars
<1>1. TypeOK'
  BY DEF Fresh, TypeOK, StopSend, Notify
<1>2. OneWorker'
  BY DEF Fresh, OneWorker, StopSend
<1>3. TablesOpen'
  BY DEF Fresh, TablesOpen, Open, StopSend
<1>4. LoopHolds'
  BY DEF Fresh, TypeOK, Open, LoopHolds, StopSend, Notify
<1>5. (\A b \in Actors : Operation(b))'
  BY DEF Fresh, Operation, StopSend
<1>6. (\A v \in Workers : OnTheWayOut(v))'
  BY DEF Fresh, OnTheWayOut, Busy, Pc, StopSend
<1> QED BY <1>1, <1>2, <1>3, <1>4, <1>5, <1>6 DEF Fresh

\* The event thread was joined.
LEMMA StopDoneFresh ==
    ASSUME Fresh, StopDone
    PROVE  Fresh'
<1> USE OwnerAssumption, FdsAssumption, RoomAssumption DEF loopVars, tableVars, sockVars
<1>1. TypeOK'
  <2>1. in' \subseteq Nat /\ in' \subseteq Fds \cup {NotifierFd} /\ maxfdp \in Nat
    BY DEF Fresh, TypeOK, StopDone
  <2>2. ScanDown(maxfdp, in') \in Int /\ ScanDown(maxfdp, in') >= -1
    BY <2>1, ScanFinds
  <2>3. maxfdp' \in Nat
    BY <2>2 DEF StopDone
  <2> QED BY <2>3 DEF Fresh, TypeOK, StopDone
<1>2. OneWorker'
  BY DEF Fresh, OneWorker, StopDone
<1>3. TablesOpen'
  <2>1. Open' = Open /\ in' \subseteq in /\ flags' = flags /\ flags # "init"
        /\ loop_pc' = loop_pc
    BY DEF StopDone, Open
  <2> QED BY <2>1 DEF Fresh, TablesOpen
<1>4. LoopHolds'
  BY DEF Fresh, Open, LoopHolds, StopDone
<1>5. (\A b \in Actors : Operation(b))'
  BY DEF Fresh, Operation, StopDone
<1>6. (\A v \in Workers : OnTheWayOut(v))'
  BY DEF Fresh, OnTheWayOut, Busy, Pc, StopDone
<1> QED BY <1>1, <1>2, <1>3, <1>4, <1>5, <1>6 DEF Fresh

-----------------------------------------------------------------------------

\* A new socket takes a number that no worker has.
LEMMA OpenSocketWatching ==
    ASSUME OneUser, Fresh, Watching, NEW w \in Workers, OpenSocket(w)
    PROVE  Watching'
<1> USE OwnerAssumption, FdsAssumption, RoomAssumption DEF loopVars, tableVars, sockVars
<1>1. MaxfdpAbove'
  BY DEF Fresh, Operation, Watching, MaxfdpAbove, OpenSocket
<1>2. EnrolledSet'
  BY DEF Watching, EnrolledSet, Busy, Pc, Op, OpenSocket, IdleActor
<1>3. Announced'
  BY DEF Watching, Announced, Settled, Busy, OpenSocket
<1> QED BY <1>1, <1>2, <1>3 DEF Watching

\* worker->enroll begins.
LEMMA EnrollWatching ==
    ASSUME OneUser, Fresh, Watching, NEW w \in Workers, Enroll(w)
    PROVE  Watching'
<1> USE OwnerAssumption, FdsAssumption, RoomAssumption DEF loopVars, tableVars, sockVars
<1>1. MaxfdpAbove'
  BY DEF Watching, MaxfdpAbove, Enroll, Begin
<1>2. EnrolledSet'
  BY DEF Fresh, Operation, Watching, EnrolledSet, Busy, Pc, Op, Enroll, IdleActor, Begin
<1>3. Announced'
  BY DEF Fresh, Operation, Watching, Announced, Settled, Busy, Enroll, IdleActor, Begin
<1> QED BY <1>1, <1>2, <1>3 DEF Watching

\* worker->adjust begins.
LEMMA AdjustWatching ==
    ASSUME OneUser, Fresh, Watching, NEW w \in Workers, Adjust(w)
    PROVE  Watching'
<1> USE OwnerAssumption, FdsAssumption, RoomAssumption DEF loopVars, tableVars, sockVars
<1>1. MaxfdpAbove'
  BY DEF Watching, MaxfdpAbove, Adjust, Begin
<1>2. EnrolledSet'
  BY DEF Fresh, Operation, Watching, EnrolledSet, Busy, Pc, Op, Adjust, IdleActor, Begin
<1>3. Announced'
  BY DEF Fresh, Operation, Watching, Announced, Settled, Busy, Adjust, IdleActor, Begin
<1> QED BY <1>1, <1>2, <1>3 DEF Watching

\* object_destroy of a worker begins.
LEMMA DestroyWatching ==
    ASSUME OneUser, Fresh, Watching, NEW w \in Workers, Destroy(w)
    PROVE  Watching'
<1> USE OwnerAssumption, FdsAssumption, RoomAssumption DEF loopVars, tableVars, sockVars
<1>1. MaxfdpAbove'
  <2>1. \A b \in Actors : act'[b] = act[b] \/ act'[b].pc \in {"ready", "close"}
    BY DEF Fresh, TypeOK, Destroy, Begin
  <2> QED BY <2>1 DEF Watching, MaxfdpAbove, Destroy
<1>2. EnrolledSet'
  BY DEF OneUser, Fresh, TypeOK, Operation, Watching, EnrolledSet, Busy, Op, Destroy, IdleActor, Begin
<1>3. Announced'
  BY DEF Fresh, TypeOK, Operation, Watching, Announced, Settled, Busy, MaxfdpAbove, Destroy, IdleActor, Begin
<1> QED BY <1>1, <1>2, <1>3 DEF Watching

\* Data arrives.
LEMMA ArriveWatching ==
    ASSUME OneUser, Fresh, Watching, NEW w \in Workers, Arrive(w)
    PROVE  Watching'
<1> USE OwnerAssumption, FdsAssumption, RoomAssumption DEF loopVars, tableVars, sockVars
<1>1. MaxfdpAbove'
  BY DEF Watching, MaxfdpAbove, Arrive
<1>2. EnrolledSet'
  BY DEF Watching, EnrolledSet, Busy, Pc, Op, Arrive
<1>3. Announced'
  BY DEF Watching, Announced, Settled, Busy, Arrive
<1> QED BY <1>1, <1>2, <1>3 DEF Watching

\* The event thread runs: the operation goes on.
LEMMA ReadyWatching ==
    ASSUME OneUser, Fresh, Watching, NEW a \in Actors, Ready(a)
    PROVE  Watching'
<1> USE OwnerAssumption, FdsAssumption, RoomAssumption DEF loopVars, tableVars, sockVars
<1>1. MaxfdpAbove'
  BY DEF Watching, MaxfdpAbove, Ready, Goto
<1>2. EnrolledSet'
  BY DEF Watching, EnrolledSet, Busy, Pc, Op, Ready, At, Goto
<1>3. Announced'
  BY DEF Watching, Announced, Settled, Busy, Ready, Goto
<1> QED BY <1>1, <1>2, <1>3 DEF Watching

\* The event thread is gone: the operation ends without the tables.
LEMMA GiveUpWatching ==
    ASSUME OneUser, Fresh, Watching, NEW a \in Actors, GiveUp(a)
    PROVE  Watching'
<1> USE OwnerAssumption, FdsAssumption, RoomAssumption DEF loopVars, tableVars, sockVars
<1>1. MaxfdpAbove'
  BY DEF OneUser, Fresh, TypeOK, Watching, MaxfdpAbove, TablesOpen, GiveUp, Goto, Finish, Idle
<1>2. EnrolledSet'
  BY DEF OneUser, Fresh, TypeOK, Watching, EnrolledSet, Busy, Pc, Op, GiveUp, Goto, Finish, SetState, Idle
<1>3. Announced'
  BY DEF Fresh, TypeOK, Operation, Watching, Announced, Settled, Busy, MaxfdpAbove,
         GiveUp, At, Goto, Finish, SetState
<1> QED BY <1>1, <1>2, <1>3 DEF Watching

\* io_map->add: the worker is in the map from now on.
LEMMA MapAddWatching ==
    ASSUME OneUser, Fresh, Watching, NEW a \in Actors, MapAdd(a)
    PROVE  Watching'
<1> USE OwnerAssumption, FdsAssumption, RoomAssumption DEF loopVars, tableVars, sockVars
<1>1. MaxfdpAbove'
  BY DEF Watching, MaxfdpAbove, MapAdd, Goto
<1>2. EnrolledSet'
  BY DEF Watching, EnrolledSet, Busy, Pc, Op, MapAdd, Goto
<1>3. Announced'
  BY DEF Watching, Announced, Settled, Busy, MapAdd, Goto
<1> QED BY <1>1, <1>2, <1>3 DEF Watching

\* maxfdp is raised above the descriptor.
LEMMA RaiseMaxfdpWatching ==
    ASSUME OneUser, Fresh, Watching, NEW a \in Actors, RaiseMaxfdp(a)
    PROVE  Watching'
<1> USE OwnerAssumption, FdsAssumption, RoomAssumption DEF loopVars, tableVars, sockVars
<1>1. MaxfdpAbove'
  BY DEF OneUser, Fresh, TypeOK, Operation, Watching, MaxfdpAbove, RaiseMaxfdp, At, Goto, Fd, MaxfdpWith
<1>2. EnrolledSet'
  BY DEF Watching, EnrolledSet, Busy, Pc, Op, RaiseMaxfdp, Goto
<1>3. Announced'
  BY DEF Watching, Announced, Settled, Busy, RaiseMaxfdp, Goto
<1> QED BY <1>1, <1>2, <1>3 DEF Watching

\* FD_SET, with maxfdp above it already.
LEMMA FdSetWatching ==
    ASSUME OneUser, Fresh, Watching, NEW a \in Actors, FdSet(a)
    PROVE  Watching'
<1> USE OwnerAssumption, FdsAssumption, RoomAssumption DEF loopVars, tableVars, sockVars
<1>1. MaxfdpAbove'
  BY DEF OneUser, Fresh, Operation, Watching, MaxfdpAbove, FdSet, At, Goto, Fd
<1>2. EnrolledSet'
  BY DEF Watching, EnrolledSet, Busy, Pc, Op, FdSet, Goto, Fd
<1>3. Announced'
  BY DEF Watching, Announced, Settled, Busy, FdSet, Goto
<1> QED BY <1>1, <1>2, <1>3 DEF Watching

\* FD_CLR: what is left to scan is below maxfdp.
LEMMA FdClearWatching ==
    ASSUME OneUser, Fresh, Watching, NEW a \in Actors, FdClear(a)
    PROVE  Watching'
<1> USE OwnerAssumption, FdsAssumption, RoomAssumption DEF loopVars, tableVars, sockVars
<1>1. MaxfdpAbove'
  BY DEF OneUser, Fresh, TypeOK, Operation, OneWorker, Watching, MaxfdpAbove, FdClear, At, Fd
<1>2. EnrolledSet'
  BY DEF OneUser, Fresh, TypeOK, Operation, OneWorker, Watching, EnrolledSet, Busy, Pc, Op, FdClear, At, Fd
<1>3. Announced'
  BY DEF OneUser, Fresh, TypeOK, Operation, Watching, Announced, Settled, Busy, FdClear, At, Fd
<1> QED BY <1>1, <1>2, <1>3 DEF Watching

\* The scan stops at the highest descriptor that is left.
LEMMA ScanWatching ==
    ASSUME OneUser, Fresh, Watching, NEW a \in Actors, Scan(a)
    PROVE  Watching'
<1> USE OwnerAssumption, FdsAssumption, RoomAssumption DEF loopVars, tableVars, sockVars
<1>0. /\ ScanDown(act[a].maxfd, in) \in Int /\ ScanDown(act[a].maxfd, in) >= -1
      /\ \A i \in in : i <= act[a].maxfd => i <= ScanDown(act[a].maxfd, in)
  <2>1. act[a].maxfd \in Nat /\ in \subseteq Nat
    BY DEF Fresh, TypeOK, Operation, Scan, At
  <2> QED BY <2>1, ScanFinds
<1>1. MaxfdpAbove'
  BY <1>0 DEF OneUser, Fresh, TypeOK, Operation, OneWorker, Watching, MaxfdpAbove, Scan, At
<1>2. EnrolledSet'
  BY DEF OneUser, Fresh, TypeOK, Operation, OneWorker, Watching, EnrolledSet, Busy, Pc, Op, Scan, At
<1>3. Announced'
  BY DEF OneUser, Fresh, TypeOK, Operation, Watching, Announced, Settled, Busy, Scan, At
<1> QED BY <1>1, <1>2, <1>3 DEF Watching

\* maxfdp is lowered to just above what was found.
LEMMA LowerMaxfdpWatching ==
    ASSUME OneUser, Fresh, Watching, NEW a \in Actors, LowerMaxfdp(a)
    PROVE  Watching'
<1> USE OwnerAssumption, FdsAssumption, RoomAssumption DEF loopVars, tableVars, sockVars
<1>1. MaxfdpAbove'
  BY DEF OneUser, Fresh, TypeOK, Operation, Watching, MaxfdpAbove, LowerMaxfdp, At, Goto
<1>2. EnrolledSet'
  BY DEF Watching, EnrolledSet, Busy, Pc, Op, LowerMaxfdp, Goto
<1>3. Announced'
  BY DEF Watching, Announced, Settled, Busy, LowerMaxfdp, Goto
<1> QED BY <1>1, <1>2, <1>3 DEF Watching

\* io_map->remove: the worker is out of both tables.
LEMMA MapDelWatching ==
    ASSUME OneUser, Fresh, Watching, NEW a \in Actors, MapDel(a)
    PROVE  Watching'
<1> USE OwnerAssumption, FdsAssumption, RoomAssumption DEF loopVars, tableVars, sockVars
<1>1. MaxfdpAbove'
  BY DEF Watching, MaxfdpAbove, MapDel, Goto
<1>2. EnrolledSet'
  BY DEF Fresh, Operation, Watching, EnrolledSet, Busy, Pc, Op, MapDel, At, Goto
<1>3. Announced'
  BY DEF Watching, Announced, Settled, Busy, MapDel, Goto
<1> QED BY <1>1, <1>2, <1>3 DEF Watching

\* The datagram is sent, or the notifier is full and one waits already.
LEMMA SendWatching ==
    ASSUME OneUser, Fresh, Watching, NEW a \in Actors, Send(a)
    PROVE  Watching'
<1> USE OwnerAssumption, FdsAssumption, RoomAssumption DEF loopVars, tableVars, sockVars
<1>1. MaxfdpAbove'
  BY DEF OneUser, Fresh, TypeOK, Watching, MaxfdpAbove, Send, Goto, Finish, Idle
<1>2. EnrolledSet'
  BY DEF OneUser, Fresh, TypeOK, Operation, Watching, EnrolledSet, Busy, Pc, Op,
         Send, At, Goto, Finish, SetState, Idle
<1>3. Announced'
  BY DEF Fresh, TypeOK, Announced, Send, Notify
<1> QED BY <1>1, <1>2, <1>3 DEF Watching

\* The worker is freed.
LEMMA FreeWatching ==
    ASSUME OneUser, Fresh, Watching, NEW a \in Actors, Free(a)
    PROVE  Watching'
<1> USE OwnerAssumption, FdsAssumption, RoomAssumption DEF loopVars, tableVars, sockVars
<1>1. MaxfdpAbove'
  BY DEF Watching, MaxfdpAbove, Free, Goto
<1>2. EnrolledSet'
  BY DEF Watching, EnrolledSet, Busy, Pc, Op, Free, Goto, SetState
<1>3. Announced'
  BY DEF Watching, Announced, Settled, Busy, Free, Goto, SetState
<1> QED BY <1>1, <1>2, <1>3 DEF Watching

\* The socket is closed, after a usleep that was long enough.
LEMMA CloseWatching ==
    ASSUME OneUser, Fresh, Watching, NEW a \in Actors, Close(a)
    PROVE  Watching'
<1> USE OwnerAssumption, FdsAssumption, RoomAssumption DEF loopVars, tableVars, sockVars
<1>1. MaxfdpAbove'
  BY DEF Watching, MaxfdpAbove, Close, Finish, Idle
<1>2. EnrolledSet'
  BY DEF Fresh, Operation, Watching, EnrolledSet, Busy, Pc, Op, Close, At, Finish, SetState, Idle
<1>3. Announced'
  BY DEF Fresh, Operation, Watching, Announced, Settled, Busy, Close, At, Finish, SetState
<1> QED BY <1>1, <1>2, <1>3 DEF Watching

\* The loop begins.
LEMMA StartWatching ==
    ASSUME OneUser, Fresh, Watching, Start
    PROVE  Watching'
<1> USE OwnerAssumption, FdsAssumption, RoomAssumption DEF loopVars, tableVars, sockVars
<1>1. MaxfdpAbove'
  BY DEF Fresh, TypeOK, Operation, MaxfdpAbove, TablesOpen, Start, MaxfdpWith
<1>2. EnrolledSet'
  BY DEF Watching, EnrolledSet, Busy, Pc, Op, Start
<1>3. Announced'
  BY DEF Announced, Start
<1> QED BY <1>1, <1>2, <1>3 DEF Watching

\* break_flag is looked at and maxfdp is read.
LEMMA CheckWatching ==
    ASSUME OneUser, Fresh, Watching, Check
    PROVE  Watching'
<1> USE OwnerAssumption, FdsAssumption, RoomAssumption DEF loopVars, tableVars, sockVars
<1>1. MaxfdpAbove'
  BY DEF Watching, MaxfdpAbove, Check
<1>2. EnrolledSet'
  BY DEF Watching, EnrolledSet, Busy, Pc, Op, Check
<1>3. Announced'
  <2>1. \A w \in Workers : Settled(w) => fd_of[w] \in in
    BY DEF Watching, EnrolledSet, Settled
  <2>2. \A w \in Workers : Settled(w)' => Settled(w) /\ fd_of'[w] = fd_of[w]
    BY DEF Check, Settled, Busy
  <2>3. \A fd \in in : fd < nfds'
    BY DEF Watching, MaxfdpAbove, Check
  <2> QED BY <2>1, <2>2, <2>3 DEF Announced, Check
<1> QED BY <1>1, <1>2, <1>3 DEF Watching

\* The loop is left.
LEMMA ExitWatching ==
    ASSUME OneUser, Fresh, Watching, Exit
    PROVE  Watching'
<1> USE OwnerAssumption, FdsAssumption, RoomAssumption DEF loopVars, tableVars, sockVars
<1>1. MaxfdpAbove'
  BY DEF Watching, MaxfdpAbove, Exit
<1>2. EnrolledSet'
  BY DEF Watching, EnrolledSet, Busy, Pc, Op, Exit
<1>3. Announced'
  BY DEF Announced, Exit
<1> QED BY <1>1, <1>2, <1>3 DEF Watching

\* The sets are copied for select.
LEMMA CopySetsWatching ==
    ASSUME OneUser, Fresh, Watching, CopySets
    PROVE  Watching'
<1> USE OwnerAssumption, FdsAssumption, RoomAssumption DEF loopVars, tableVars, sockVars
<1>1. MaxfdpAbove'
  BY DEF Watching, MaxfdpAbove, CopySets
<1>2. EnrolledSet'
  BY DEF Watching, EnrolledSet, Busy, Pc, Op, CopySets
<1>3. Announced'
  <2>1. \A w \in Workers : Settled(w) => fd_of[w] \in in
    BY DEF Watching, EnrolledSet, Settled
  <2>2. \A w \in Workers : Settled(w)' => Settled(w) /\ fd_of'[w] = fd_of[w]
    BY DEF CopySets, Settled, Busy
  <2> QED BY <2>1, <2>2 DEF Watching, Announced, CopySets
<1> QED BY <1>1, <1>2, <1>3 DEF Watching

\* select looks at the copies.
LEMMA SelectEnterWatching ==
    ASSUME OneUser, Fresh, Watching, SelectEnter
    PROVE  Watching'
<1> USE OwnerAssumption, FdsAssumption, RoomAssumption DEF loopVars, tableVars, sockVars
<1>1. MaxfdpAbove'
  BY DEF Watching, MaxfdpAbove, SelectEnter
<1>2. EnrolledSet'
  BY DEF Watching, EnrolledSet, Busy, Pc, Op, SelectEnter
<1>3. Announced'
  BY DEF Watching, Announced, Settled, Busy, SelectEnter
<1> QED BY <1>1, <1>2, <1>3 DEF Watching

\* select returns what has data.
LEMMA SelectReturnWatching ==
    ASSUME OneUser, Fresh, Watching, SelectReturn
    PROVE  Watching'
<1> USE OwnerAssumption, FdsAssumption, RoomAssumption DEF loopVars, tableVars, sockVars
<1>1. MaxfdpAbove'
  BY DEF Watching, MaxfdpAbove, SelectReturn
<1>2. EnrolledSet'
  BY DEF Watching, EnrolledSet, Busy, Pc, Op, SelectReturn
<1>3. Announced'
  BY DEF Announced, SelectReturn
<1> QED BY <1>1, <1>2, <1>3 DEF Watching

\* A signal ends select.
LEMMA SelectInterruptedWatching ==
    ASSUME OneUser, Fresh, Watching, SelectInterrupted
    PROVE  Watching'
<1> USE OwnerAssumption, FdsAssumption, RoomAssumption DEF loopVars, tableVars, sockVars
<1>1. MaxfdpAbove'
  BY DEF Watching, MaxfdpAbove, SelectInterrupted
<1>2. EnrolledSet'
  BY DEF Watching, EnrolledSet, Busy, Pc, Op, SelectInterrupted
<1>3. Announced'
  BY DEF Announced, SelectInterrupted
<1> QED BY <1>1, <1>2, <1>3 DEF Watching

\* activate_io finds a worker for a descriptor, or the notifier.
LEMMA ActivateWatching ==
    ASSUME OneUser, Fresh, Watching, NEW fd \in Fds \cup {NotifierFd}, Activate(fd)
    PROVE  Watching'
<1> USE OwnerAssumption, FdsAssumption, RoomAssumption DEF loopVars, tableVars, sockVars
<1>1. MaxfdpAbove'
  BY DEF Watching, MaxfdpAbove, Activate
<1>2. EnrolledSet'
  BY DEF Watching, EnrolledSet, Busy, Pc, Op, Activate
<1>3. Announced'
  BY DEF Announced, Activate
<1> QED BY <1>1, <1>2, <1>3 DEF Watching

\* A callback has received.
LEMMA CallbackReturnsWatching ==
    ASSUME OneUser, Fresh, Watching, CallbackReturns
    PROVE  Watching'
<1> USE OwnerAssumption, FdsAssumption, RoomAssumption DEF loopVars, tableVars, sockVars
<1>1. MaxfdpAbove'
  BY DEF Watching, MaxfdpAbove, CallbackReturns
<1>2. EnrolledSet'
  BY DEF Watching, EnrolledSet, Busy, Pc, Op, CallbackReturns
<1>3. Announced'
  BY DEF Watching, Announced, Settled, Busy, CallbackReturns
<1> QED BY <1>1, <1>2, <1>3 DEF Watching

\* The round is over.
LEMMA DispatchDoneWatching ==
    ASSUME OneUser, Fresh, Watching, DispatchDone
    PROVE  Watching'
<1> USE OwnerAssumption, FdsAssumption, RoomAssumption DEF loopVars, tableVars, sockVars
<1>1. MaxfdpAbove'
  BY DEF Watching, MaxfdpAbove, DispatchDone
<1>2. EnrolledSet'
  BY DEF Watching, EnrolledSet, Busy, Pc, Op, DispatchDone
<1>3. Announced'
  BY DEF Announced, DispatchDone
<1> QED BY <1>1, <1>2, <1>3 DEF Watching

\* break_flag is set.
LEMMA StopFlagWatching ==
    ASSUME OneUser, Fresh, Watching, StopFlag
    PROVE  Watching'
<1> USE OwnerAssumption, FdsAssumption, RoomAssumption DEF loopVars, tableVars, sockVars
<1>1. MaxfdpAbove'
  BY DEF Watching, MaxfdpAbove, StopFlag
<1>2. EnrolledSet'
  BY DEF Watching, EnrolledSet, Busy, Pc, StopFlag, At
<1>3. Announced'
  BY DEF Watching, Announced, Settled, Busy, StopFlag
<1> QED BY <1>1, <1>2, <1>3 DEF Watching

\* The notifier is told to stop.
LEMMA StopSendWatching ==
    ASSUME OneUser, Fresh, Watching, StopSend
    PROVE  Watching'
<1> USE OwnerAssumption, FdsAssumption, RoomAssumption DEF loopVars, tableVars, sockVars
<1>1. MaxfdpAbove'
  BY DEF Watching, MaxfdpAbove, StopSend
<1>2. EnrolledSet'
  BY DEF Watching, EnrolledSet, Busy, Pc, Op, StopSend
<1>3. Announced'
  BY DEF Fresh, TypeOK, Announced, StopSend, Notify
<1> QED BY <1>1, <1>2, <1>3 DEF Watching

\* The event thread was joined.
LEMMA StopDoneWatching ==
    ASSUME OneUser, Fresh, Watching, StopDone
    PROVE  Watching'
<1> USE OwnerAssumption, FdsAssumption, RoomAssumption DEF loopVars, tableVars, sockVars
<1>1. MaxfdpAbove'
  <2>1. in' \subseteq in /\ in' \subseteq Nat /\ maxfdp \in Nat
    BY DEF Fresh, TypeOK, StopDone
  <2>2. \A fd \in in' : fd <= maxfdp
    BY <2>1 DEF Watching, MaxfdpAbove
  <2>3. ScanDown(maxfdp, in') \in Int /\ \A fd \in in' : fd <= ScanDown(maxfdp, in')
    BY <2>1, <2>2, ScanFinds
  <2>4. maxfdp' = ScanDown(maxfdp, in') + 1
    BY DEF StopDone
  <2>5. \A fd \in in' : fd < maxfdp'
    BY <2>1, <2>3, <2>4
  <2>6. \A b \in Actors : act[b].pc = "idle"
    BY DEF Fresh, Operation, StopDone
  <2> QED BY <2>5, <2>6 DEF MaxfdpAbove, StopDone
<1>2. EnrolledSet'
  BY DEF Fresh, Operation, Watching, EnrolledSet, Busy, OneWorker, StopDone
<1>3. Announced'
  BY DEF Watching, Announced, Settled, Busy, StopDone
<1> QED BY <1>1, <1>2, <1>3 DEF Watching

-----------------------------------------------------------------------------
\* Every step keeps the tables free of what was closed.
LEMMA FreshKept ==
    ASSUME SleepSuffices, Fresh, [Next]_vars
    PROVE  Fresh'
<1>1. CASE \E w \in Workers : OpenSocket(w) \/ Enroll(w) \/ Adjust(w) \/ Destroy(w) \/ Arrive(w)
  BY <1>1, OpenSocketFresh, EnrollFresh, AdjustFresh, DestroyFresh, ArriveFresh
<1>2. CASE \E a \in Actors : Step(a)
  <2> PICK a \in Actors : Step(a)
    BY <1>2
  <2> QED BY ReadyFresh, GiveUpFresh, MapAddFresh, RaiseMaxfdpFresh, FdSetFresh, FdClearFresh,
             ScanFresh, LowerMaxfdpFresh, MapDelFresh, SendFresh, FreeFresh, CloseFresh DEF Step
<1>3. CASE Loop
  BY <1>3, StartFresh, CheckFresh, ExitFresh, CopySetsFresh, SelectEnterFresh, SelectReturnFresh,
     ActivateFresh, CallbackReturnsFresh, DispatchDoneFresh DEF Loop
<1>4. CASE SelectInterrupted \/ StopFlag \/ StopSend \/ StopDone
  BY <1>4, SelectInterruptedFresh, StopFlagFresh, StopSendFresh, StopDoneFresh
<1>5. CASE UNCHANGED vars
  <2>1. TypeOK' /\ OneWorker' /\ TablesOpen' /\ LoopHolds'
    BY <1>5 DEF vars, loopVars, tableVars, sockVars, Fresh, TypeOK, OneWorker, TablesOpen, LoopHolds, Open
  <2>2. (\A a \in Actors : Operation(a))'
    BY <1>5 DEF vars, loopVars, sockVars, Fresh, Operation
  <2>3. (\A w \in Workers : OnTheWayOut(w))'
    BY <1>5 DEF vars, tableVars, sockVars, Fresh, OnTheWayOut, Busy, Pc
  <2> QED BY <2>1, <2>2, <2>3 DEF Fresh
<1> QED BY <1>1, <1>2, <1>3, <1>4, <1>5 DEF Next, Terminated

\* With one user, every step keeps what select will watch complete.
LEMMA WatchingKept ==
    ASSUME OneUser, Fresh, Watching, [Next]_vars
    PROVE  Watching'
<1>1. CASE \E w \in Workers : OpenSocket(w) \/ Enroll(w) \/ Adjust(w) \/ Destroy(w) \/ Arrive(w)
  BY <1>1, OpenSocketWatching, EnrollWatching, AdjustWatching, DestroyWatching, ArriveWatching
<1>2. CASE \E a \in Actors : Step(a)
  <2> PICK a \in Actors : Step(a)
    BY <1>2
  <2> QED BY ReadyWatching, GiveUpWatching, MapAddWatching, RaiseMaxfdpWatching, FdSetWatching,
             FdClearWatching, ScanWatching, LowerMaxfdpWatching, MapDelWatching, SendWatching,
             FreeWatching, CloseWatching DEF Step
<1>3. CASE Loop
  BY <1>3, StartWatching, CheckWatching, ExitWatching, CopySetsWatching, SelectEnterWatching,
     SelectReturnWatching, ActivateWatching, CallbackReturnsWatching, DispatchDoneWatching DEF Loop
<1>4. CASE SelectInterrupted \/ StopFlag \/ StopSend \/ StopDone
  BY <1>4, SelectInterruptedWatching, StopFlagWatching, StopSendWatching, StopDoneWatching
<1>5. CASE UNCHANGED vars
  BY <1>5 DEF vars, loopVars, tableVars, sockVars, Watching, MaxfdpAbove, EnrolledSet, Announced,
              Settled, Busy, Pc, Op
<1> QED BY <1>1, <1>2, <1>3, <1>4, <1>5 DEF Next, Terminated

\* Nothing is enrolled at the start.
LEMMA InitHolds == Init => Fresh /\ Watching
<1> SUFFICES ASSUME Init PROVE Fresh /\ Watching
  OBVIOUS
<1>1. TypeOK
  BY RoomAssumption DEF Init, TypeOK, Statements, Idle
<1>2. OneWorker /\ TablesOpen /\ LoopHolds
  BY DEF Init, OneWorker, TablesOpen, LoopHolds
<1>3. \A a \in Actors : Operation(a)
  BY DEF Init, Operation, Idle
<1>4. \A w \in Workers : OnTheWayOut(w)
  BY DEF Init, OnTheWayOut
<1>5. MaxfdpAbove /\ Announced
  BY DEF Init, MaxfdpAbove, Announced, Idle
<1>6. EnrolledSet
  BY OwnerAssumption DEF Init, EnrolledSet, Busy, Idle
<1> QED BY <1>1, <1>2, <1>3, <1>4, <1>5, <1>6 DEF Fresh, Watching

\* No descriptor is used after its close, however many threads enroll and
\* resign: select never meets a closed one, so the event thread ends only
\* when it is told to, and a callback that receives finds data.
THEOREM DescriptorsNeverStale ==
    ASSUME SleepSuffices
    PROVE  Spec => []NoStaleDescriptor
<1>1. Init => Fresh
  BY InitHolds
<1>2. Fresh /\ [Next]_vars => Fresh'
  BY FreshKept
<1>3. Fresh => NoStaleDescriptor
  BY DEF Fresh, LoopHolds, NoStaleDescriptor, LoopEndsOnlyOnStop, CallbackHasData
<1> QED BY <1>1, <1>2, <1>3, PTL DEF Spec

\* Every worker that is enrolled is watched by a select that blocks, or the
\* datagram that ends this select is waiting: the order of __trustee_io,
\* __reclaim_io and the send to the notifier leaves no window, as long as one
\* thread makes all the changes.
THEOREM EnrolmentsNeverMissed ==
    ASSUME SleepSuffices, OneUser
    PROVE  Spec => []NoMissedWakeup
<1>1. Init => Fresh /\ Watching
  BY InitHolds
<1>2. Fresh /\ Watching /\ [Next]_vars => (Fresh /\ Watching)'
  BY FreshKept, WatchingKept
<1>3. Fresh /\ Watching => NoMissedWakeup
  <2> SUFFICES ASSUME Fresh, Watching, loop_pc = "blocked", NEW w \in Workers,
                      state[w] = "enrolled", ~Busy(w)
               PROVE  fd_of[w] \in Watched \/ notices > 0
    BY DEF NoMissedWakeup
  <2>1. CASE notices = 0
    BY <2>1 DEF Watching, Announced, Settled, Watched
  <2>2. CASE notices # 0
    BY <2>2 DEF Fresh, TypeOK
  <2> QED BY <2>1, <2>2
<1> QED BY <1>1, <1>2, <1>3, PTL DEF Spec
=============================================================================
