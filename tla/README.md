# libobject in TLA+

A verification development for libobject (`src/`), a C library that builds an
object system, an event loop, message passing and network services on top of
plain C. The modules here model its concurrent and distributed core. TLC
checks them on small instances; TLAPS proves the central theorems for every
value of the constants.

Contents: 1 inventory, 2 modules and code, 3 runs and bounds, 4 fairness,
5 proofs, 6 findings, 7 assumptions and what is not modelled, 8 plan.
`PROJECT.json` holds the same in machine-readable form: the line map, the
hazards, the mutants.

Paths below are relative to `src/src/`.

## 1. Inventory

### Components and their state

| component | state | operations | talks to |
|---|---|---|---|
| ring buffer (`core/io/Ring_Buffer.c`) | memory, `size`, `r_offset`, `w_offset`, `last_operation_flag` | write, read, peek, read_to_string, read_to_buffer, find, get_needle_offset, get_len, set_size | used by the bus as a receive cache, by http for parsing |
| event base (`concurrent/event/Event_Base.c`, `os/unix/Select_Event_Base.c`) | `io_map` (fd to event), `maxfdp`, two `fd_set`s and their copies, `break_flag`, a timer tree | add, del, activate_io, loop, dispatch | runs worker callbacks |
| event thread (`concurrent/event/Event_Thread.c`) | `flags`, the notifier socket pair | add_event, del_event, update_event, start_routine, stop | owns an event base; other threads change its tables and wake it with a datagram |
| producer and worker (`concurrent/Producer.c`, `Worker.c`) | locked list of workers; per worker an event, a task, the resigned flag | enroll, adjust, resign, wait_producer_ready, destruction | call the event thread |
| message centor (`concurrent/message/`) | locked message queue, subscriber map, a UDP socket | publish_message, subscribe, event and work callbacks | publishers on any thread, one event thread |
| tcp/udp clients and servers (`concurrent/net/`) | socket, worker; server: leisure and working lists | connect, accept, get_worker, close_subsocket | workers on the event thread |
| bus (`net/bus/bus.c`) | client, `obj_map`, `req_map`, `blob`, added and off-line flags, timer | add_object, lookup, invoke (sync, async), ping, reply handlers, reconnect timer | one TCP connection to the daemon |
| bus daemon (`net/bus/busd.c`) | `obj_map`: object id to fd | add, lookup, invoke, forward reply, ping, release | one TCP connection per process |
| red-black tree map (`core/utils/data_structure/rbtree_map/`, `core/RBTree_Map.c`, `Map.c`) | nodes with colour, parent and children, the cached first node and count; equal keys are kept | insert, search, search of all equal keys, delete, remove, reset | registry, `io_map`, timers |
| timer (`concurrent/event/Rbtree_Timer.c`) | a tree keyed by pointers to the events' deadlines | add, del, remove, timeout_next, first | driven by the event base, changed by other threads |
| http server (`net/http/Http_Server.c`, `Request.c`, `Response.c`) | per connection a request in progress (`task->cache`), an open file and how much of it was written | read and write callbacks, process_request, response, write_file | workers of a tcp server, all on one event thread |
| p2p node (`net/p2p/p2p.c`, `stun/Stun.c`) | `register_done`, sessions by remote id, the port pool | sign in and out, create, close, send, keepalive timer, signal and session callbacks | server and other nodes over UDP |
| p2p server (`net/p2p/P2p_Server.c`) | who signed in from where, pending calls | sign-in, sign-out, invite, reply, punch-ok | nodes, over UDP |
| vpn (`net/vpn/vpn.c`) | hub: links, address pool, routes; dialer: its address | wait_link, exchange_addr, notify and ack, tick, tun callback | a p2p node below, a tun device |
| allocator (`core/utils/alloc/`) | two lists of pools, free and used slabs per size class, huge blocks, counters | alloc, free, destroy, each under `head_lock` | every object and buffer |
| signal events (`concurrent/event/signal.c`, `Event_Base.c`, `node/Node.c`) | the list of bases; per base a socket pair and a map from numbers to events; `break_flag`, `node_exit_flag` | handler, `evsig_cb`, add, del, quit callbacks, stop of the default producer | handler on any thread, loops, main thread |
| ssh, node commands, turn | - | - | the layers above |
| object system, other containers, strings, blob | sequential | - | everything |
| media, ui, archive, compress, crypto, database, attacher, stub, board | adapters, codecs | - | outside libraries |

### What is hard about it

* **One thread selects, others change its tables.** `maxfdp` and the fd sets
  are plain integers shared without a lock; a datagram to the loop's own socket
  is the only synchronisation, and a full socket drops it.
* **Objects die under callbacks.** A worker is resigned and freed by its user
  while the event thread may be inside its callback; a socket is closed while
  select still holds its number.
* **Two channels for one event.** A message goes into a queue, its wake-up byte
  into a socket; they can be reordered between publishers and a byte can be lost.
* **A byte stream is not a sequence of frames.** Both ends of the bus cut frames
  out of a ring buffer; any error path that leaves the ring off a frame boundary
  destroys the rest of the connection.
* **Numbers stand for processes.** The daemon routes by descriptor number and by
  object id. Both are reused by processes that come later.
* **No timeouts.** `bus_invoke_sync` and `bus_lookup_sync` poll a flag forever.
* **UDP below, agreement above.** Calls of the p2p layer are matched by names,
  sent once and repeated by nobody; the vpn repeats its request until answered
  and must give the same address each time.
* **Resources returned on many paths.** Ports, tunnel addresses, link slots and
  the workers of a server are taken in one place and given back in many.
* **Partial writes.** A file goes out in the pieces the socket takes; a handler's
  body keeps the event thread until it is out.
* **A signal is a byte to every loop.** The handler writes to sockets of bases
  that are being made or released; two callbacks set the same flag for the same
  SIGINT, and the loop that brings the last answer must not end first.
* **Memory is never joined.** The allocator cuts a pool by arithmetic on what
  is left of it, reuses slabs by class and trusts one flag against double frees.
* **Crash and restart.** The daemon forgets every registration; buses poll,
  reconnect and add their objects again.

### What makes each component correct

* Ring buffer: it is a bounded FIFO of bytes, whatever the wrap and the flag.
* Message centor: nothing is removed from an empty queue, every subscriber sees
  publication order, every message is taken when no byte is lost.
* Event thread: no enrolment is slept through, the loop ends only when stopped,
  a callback runs only for a descriptor with data, a stop terminates.
* Red-black tree map: it is an ordered map with equal keys, balanced, and its
  cached first node and count are right. Timer: an event is armed once, and
  a periodic one keeps firing.
* HTTP server: a worker is in exactly one list and carries nothing over, answers
  are whole and in order, everyone who waits is answered.
* P2P: ports belong to one session each, connected means that both directions
  worked, an undisturbed call connects.
* VPN: addresses are given once and come back, both ends agree on them and
  packets for one reach it, a dialer comes up, unconfirmed links are recycled.
* Allocator: blocks in use never overlap, nothing gets lost between the lists,
  memory is asked for only when there is none.
* Signals: every event of a caught signal is called; SIGINT ends the process
  and a command is aborted while there is still a loop to do it.
* Bus receive path: each frame is handled exactly once and in order.
* Bus: an answer reaches the caller that asked, the registry names only live
  connections, a confirmed object stays registered while its connection is
  open, calls return, services come back after a restart of the daemon.

The individual dangers, each at its line, are the `hazards` of `PROJECT.json`.

## 2. Modules and code

| module | models | kind |
|---|---|---|
| `RingBufferOps` | the methods of `Ring_Buffer.c` as operators on a ring record | operators |
| `RingBuffer` | one ring and its callers | state machine, refines `Fifo` |
| `Fifo` | what a ring promises: a bounded byte queue with replies | abstract specification |
| `RingBufferProofs` | theorems about `RingBuffer`, and with its lemmas about `BusReceive` | proofs |
| `MessageCentor` | `concurrent/message/*` | state machine |
| `EventThread`, `MCEventThread` | event base, event thread, producer, worker, client destruction | state machine |
| `EventThreadProofs` | theorems about `EventThread` | proofs |
| `BusReceive` | both receive callbacks, composed with `RingBufferOps` | state machine |
| `Bus`, `MCBus` | calls and registration between `bus_t`s and `busd` | state machine |
| `BusProofs` | theorems about `Bus` | proofs |
| `RBTree` | the tree and map of `rbtree.c`, `rbtree_map.c`, `RBTree_Map.c` | operators and a table |
| `OrderedMap` | what the map promises | abstract specification |
| `EventTimers`, `MCEventTimers` | the table alone, or the timer tree driven by `Event_Base.c` | state machine, composes `RBTree`, refines `OrderedMap` |
| `HttpServer`, `MCHttpServer` | `Server.c` with `Http_Server.c`, `Request.c`, `Response.c` | state machine |
| `HttpServerProofs` | theorems about `HttpServer` | proofs |
| `P2p`, `MCP2p` | `Stun.c`, `p2p.c`, `P2p_Server.c` | state machine |
| `P2pProofs` | theorems about `P2p` | proofs |
| `Vpn`, `MCVpn` | `vpn.c` on sessions as `P2p` has them | state machine |
| `VpnProofs` | theorems about `Vpn` | proofs |
| `CtrAlloc` | `allocator_ctr_alloc.c` and its slab and pool lists | state machine, refines `Heap` |
| `Heap` | what an allocator promises: blocks that do not overlap | abstract specification |
| `CtrAllocProofs` | theorems about `CtrAlloc`, its refinement of `Heap` among them | proofs |
| `Signals` | `signal.c`, the signal half of `Event_Base.c`, the exit path of `Node.c` and of the default producer | state machine |
| `WakeUpProofs` | theorems about the two components that wake a loop through a socket pair, `MessageCentor` and `Signals` | proofs |

**RingBuffer.** A ring is a record with the fields of the C struct; `addr` is a
function on `0 .. size-1` whose unwritten bytes are `Junk`. `FetchBytes` and
`StoreBytes` keep the one-piece and two-piece `memcpy` branches of the code,
`Readable`, `Room` and `GetLen` their three different case distinctions on
offsets and flag. `set_size` is a caller's action on an unused ring, which is
how the repository calls it. `reply` is what the last call returned.

**MessageCentor.** `publish_message` is two steps (`AddMessage`, `SendByte`),
the event thread's work is two steps (`RecvByte`, `WorkCallback`). `SendByte`
loses the byte when the socket is full. `subscriber_map` keeps equal pairs: who
subscribes twice gets a message twice, as in the code.

**EventThread.** The reads and writes of `maxfdp` and `in` in `__trustee_io`,
`__reclaim_io` and `__dispatch` are separate steps. An actor's operation is a
sequence of steps kept in `act[a].pc`; enroll, adjust (resign and enroll in the
tables) and destroy run through the same ones. `select` is modelled by what its
man page promises: a closed descriptor is an error, which ends the loop; data
makes it return; a signal interrupts it. `Close` is the end of a client's
destruction; the descriptor is then free to be handed out again.

**BusReceive.** A byte is its place (frame, position), so misalignment is
visible as a wrong byte at the head of the cache. What a misplaced byte says as
a header or a length is arbitrary. One callback is `Receive` (recv and
`rb->write`) and then, until it returns, `Incomplete`, `BadHeader` or `Handle`.
`side` selects the differences between `bus.c` and `busd.c`: who drops the
cache when it is empty, and what happens at the end of a connection.

**Bus.** A connection is a record with the frames in flight each way. A handler
is one step, the frames it sends included. The registry is a sequence of nodes
because the tree keeps equal keys: `Found` is the set of nodes a search may
return, and the field `over` says that rotations may have put a newer node
above an older one of the same key (never so with a single older node).
A freed object that stays in the registry is a node with `live = FALSE`.
An error of a handler throws the frames behind it away (`lost`), which is
possible exactly when they were received together.

**RBTree, EventTimers.** The two mirrored halves of each loop in `rbtree.c` are
one operator with the side as a parameter. A node is a key and a copy number.
In mode `map` the table is used alone and its in-order sequence is checked
against `OrderedMap`: equal keys go before each other, the newest first, and a
removal takes some entry with the key. In mode `timer` a key is the event's
deadline as the tree sees it, through a pointer, so it is relative to now and
changes with the event. A removal searches for the deadline and removes what
it meets; when it meets nothing the code goes on with an uninitialised
position, which is the place `wild`; what the process does then is not followed.
`clash` remembers that an event got the deadline of one in the tree, or of the
one whose callback runs, since the loop searches for that one afterwards. `spent`
is the set of one-shot events that were called at their deadline: they stay in
`io_map` and keep `ev_timeout`, as `process_timeout_events` leaves them. Events
are added and deleted at any time, in callbacks too, also an event in its own.

**HttpServer.** All callbacks run on the event thread and are one step each,
except `__write_body`, whose loop keeps the thread (`stuck`). A request is two
units of header, which must be in one segment, and its body; an answer is one
unit of header and its body; a socket holds `Cap` units. `Goes` is how every
callback ends: which request stays in the task, whether the worker waits for
writability, and how often `close_subsocket` was called. `Die` stands for
`exit(1)`, a signal, or the use of a pointer that is not set.

**P2p.** `net` is a set of datagrams, so they arrive in any order; a receive may
leave its datagram to arrive again and `Lose` takes one away, both counted as
faults. Sockets are numbered: a node that signs in again has another signalling
socket (`epoch`), a session has a port. NAT is the identity. `PortsOwned` is
about pools that name no port twice: `Stun.c` finds an entry by its port, and
with the same port twice it frees the first. A node that is on line at the
start has signed in once. `__signin` is
several steps because it clears `register_done` after its send.

**Vpn.** A dialer is where its `vpn_run` is; `run` counts its starts, since a
process that was started again is reached under the same id. Of the session
below, `Invite`, `Punch` and the two sides of CONNECTED are kept as `P2p` has
them. Addresses are 32-bit numbers and the pool's arithmetic is that of the
code, so that a hub address inside the pool and a small pool are real cases.

**CtrAlloc.** A slab is its pool, the place of its header and its class; `depth`
is what is left of a pool, from which the place of the next slab is computed.
Pools are numbered in the order they are made, and a list of pools is the set of
its numbers: the code only appends and removes, so a list is in order of age.
`alloc` is split by where the memory comes from (a free slab, a pool with room,
a new pool, malloc), with the two ways malloc can refuse. `Walked`, `PutAway`
and `FirstFit` are the walk of `mempool_find_appropriate_pool`, which also moves
used-up pools away. A free is allowed for any slab, free ones included: the
code looks at `stat_flag`. `live` is what the users hold; it is the state of
`Heap`.

**Signals.** Base `def` belongs to the default producer's thread, base `own` is
made, run and released by the main thread. There are four kinds of process: one
that polls `break_flag` (httpd, vpn), a node, a node that called a command and
must abort it, and one with a base of its own. The handler may run between any
two steps and sends its byte to every listed base. `fate` remembers what a
SIGINT met: `early`, before bases and events were complete; `lost`, a full
socket; `late`, Node's callback wrote its flag after the producer was told to
stop.

A definition called "Mutant" is a plausible mistake in the code. It is not part
of any specification; put in place of the definition it changes, it must make
TLC find a violation. There is one for every property of every passing run.

## 3. Runs and bounds

Sizes are distinct states found by TLC.

| run | result | what it shows |
|---|---|---|
| `ring_buffer` | pass, 2.5 k | `NoJunkReadable`: no read reaches unwritten memory. `GetLenExact`: `get_len` and `read` agree once the ring was used. `NeedleOffsetExact`: the search, with its three `memcmp` cases, finds the first occurrence. `RefinesFifo`: every call is a queue operation with the same reply. |
| `message_centor` | pass | `NeverRemovesNothing`, `DeliveredInOrder`, and `EveryMessageTaken` (liveness). |
| `bus_receive` | pass, 40 k | `StreamInStep` and `EveryFrameHandled` (liveness) until bytes are thrown away. |
| `event_thread` | pass, 464 k | `NoMissedWakeup`, `NoStaleDescriptor`; `DataIsReceived` and `StopCompletes` (liveness). |
| `event_thread_free` | violation | finding 1 |
| `bus` | pass, 150 k | `RegistrySound`, `OwnReply`; `CallReturns` and `EventuallyServed` (liveness). |
| `event_timers` | pass, 101 k | `MapSound`: balance, caches, complete search of equal keys. `RefinesOrderedMap`. `ArmedOnce` and `FiresUnlessClash` (liveness) for the timer. |
| `http_server` | pass, 14 k | `PoolSound`, `OwnResponses`; `EveryoneAnswered` (liveness). |
| `p2p` | pass, 125 k | `PortsOwned`, `ConnectedBothWays`; `CallConnects` (liveness). |
| `vpn` | pass, 66 k | `PoolBalanced`, `AddressAgreed`; `DialerComesUp` and `TickCatchesUp` (liveness). |
| `ctr_alloc` | pass, 302 k | `SlabsApart`, `Accounted` (slabs, pools, blocks and counter agree), `GrowsOnlyIfFull` (nothing is put away too early), `IsHeap` (refinement). |
| `signals` | pass, 42 k | `ShutdownInOrder`; `SignalSeen` and `ProcessEnds` (liveness). |

In `ring_buffer` and `message_centor` the type invariant is a property of its
own; elsewhere it is the first conjunct of the run's first invariant
(`StreamInStep`, `NoStaleDescriptor`, `RegistrySound`, `MapSound`, `PoolSound`,
`PortsOwned`, `PoolBalanced`, `SlabsApart`, `ShutdownInOrder`).

Every bound is a named constant.

* `ring_buffer`: sizes 1, 2, 4 and calls of up to 3 bytes. Size 1 makes every
  offset 0 so that only the flag distinguishes full from empty; in size 4 a call
  of 3 can start anywhere, wrap anywhere, be cut short, or fill and drain
  exactly. Two byte values suffice because the code never looks at a byte except
  to compare it with a needle. `RingBufferProofs` removes the bounds.
* `message_centor`: two publishers (any interleaving of two steps each), two
  subscribers, two subscriptions, a socket for one byte so that bytes are lost,
  four messages so that a byte can fetch an older message.
* `bus_receive`: frames of 2 and 3 bytes, ring and longest chunk 6 bytes, as in
  the code where both constants are equal; three frames can be split and
  coalesced in every way and make the ring wrap and overflow.
* `event_thread`: one user thread, two workers, two descriptors above the
  notifier's, a notifier for two datagrams: `maxfdp` rises, falls, and closed
  numbers are handed out again.
* `bus`: processes `s` and `c` with an object each. `c` makes a synchronous
  call to the other process, an asynchronous one to itself and a lookup; `s`
  pings. One failure: the daemon dies (and may start again) or `s` does. Three
  descriptors, so that they are reused.

* `event_timers`: five keys with two copies each as a table, which is every shape
  of a tree of up to ten nodes that insertions and deletions reach; three timer
  events, periodic, one-shot, with and without a descriptor; and a one-shot event
  with a descriptor that is called, deleted (also in its callback) and added
  again beside a periodic one.
* `http_server`: two clients, sockets of two units and files of up to five, so
  that every file is cut; five arrangements: keep-alive and close; a HEAD and a
  body in pieces beside a client that waits; a client that pipelines and lets its
  bodies hold the thread beside one that waits; aborts; a split header and an
  empty file. `EveryoneAnswered` speaks of both clients of the first and of one
  client each of the second and the third.
* `p2p`: three nodes in four arrangements (`MCP2p`): a caller that gives up and
  calls again; one fault of any kind; two callers of a node with one port; a
  callee that goes away and returns.
* `vpn`: two links, up to three dialers, in six arrangements (`MCVpn`): room for
  all, one address short because the hub has it, more dialers than links, up to
  two faults, a dialer stopped at any time and started again.

* `ctr_alloc`: classes of 1, 2 and 4 in pools of 8 with headers of 2, so that a
  pool takes two slabs of different classes and leaves rests that serve only the
  smallest class or none; up to three pools, one huge block, one refusal by
  malloc, sizes up to one more than the largest class.
* `signals`: three signals, sockets for two, so that one is lost; two user
  events with the same number, one of them one-shot.

For `event_timers`, `http_server`, `p2p` and `vpn` a behaviour has one
arrangement, chosen in `Init`: several
small instances are checked in one run.

Deadlock is checked where the model cannot stop. It is not checked for the
centor (all messages published), the bus (all calls made), the four runs just
named (all that their arrangement allows has happened), the allocator (it was
destroyed) and the signals (the process ended).

## 4. Fairness

Weak fairness only, and only for threads that are not blocked:
the event thread's steps (`Loop`, `RecvByte`, `WorkCallback`, `Receive`,
`Handle`, `BusCallback`, `BusdCallback`), the rest of an operation or a
publication that has begun, the reconnect timer of an off-line bus and the
waiting thread that polls its flag; for http the clients that read, send what
they still have to and connect again; for p2p and vpn the event threads, the
timers and the loops of `__signin`, `vpn_wait_link` and `vpn_exchange_addr`;
for the timers the loop and the clock; for the signals the event thread and the
main thread, which also runs its own base's loop. Nobody has to send a signal
or tell a node to exit. No run assumes that somebody publishes,
enrolls, calls, pings, stops, crashes or restarts the daemon, starts a node or a
dialer. Where a timeout competes with an answer (`SigninTimeout`, `Timeout`,
`Tick`), that the answer is still to come when the seconds have passed counts
as a fault, so the liveness properties, which exclude faults, rest on answers
that are faster than the timeouts of the code.
A select may be interrupted any number of times. `EventuallyServed` is
conditional: *if* the daemon stays up from some time on. `DataIsReceived` says
that data does not lie with an enrolled worker forever; a user who adjusts the
worker without end can keep it out of every round, which the property excludes.

## 5. Proofs

All for every value of the constants satisfying the named assumptions.

**RingBufferProofs** (`Sizes` a set of positive numbers, `Junk` not a byte,
`MaxCall` a number).

* `Inductive`, `RingBufferSafe`: `Spec => [](TypeOK /\ NoJunkReadable)`.
  The inductive invariant is `TypeOK /\ FreshIsEmpty /\ NoJunkReadable`;
  `FreshIsEmpty` is needed because only an unused ring may be resized, and the
  new memory holds no byte a caller wrote. The
  argument: `ReadablePlusRoom` (the two lengths the code starts from add up to
  the size), `StoreAt` (the one- or two-piece copy puts byte *i* at place *i*
  behind the write offset, modulo the size), hence `WriteStep` (a write appends
  and disturbs nothing held), and `ConsumeStep` (advancing the read offset
  removes a prefix).
* `LengthsAgree`: `Spec => []GetLenExact`.
* `RingBufferRefinesFifo`: `Spec => RefinesFifo`. `FetchIsPrefix` shows that the
  two branches of `read` and `peek` deliver the oldest bytes, `WriteIsPut` and
  `ReadIsTake` that each call is an operation of `Fifo`.
* `NeedleIsFound`: `Spec => []NeedleOffsetExact`. `FindAtExact` takes the three
  `memcmp` cases (before the wrap, after it, across it) to the same comparison
  with the bytes held, so the loop stops at the first occurrence; `DistanceBack`
  undoes the wrap of the place that `__find` returns. That there is a first
  occurrence is the well-foundedness of the numbers.

* `BusStreamInStep` (`StreamInStep` of `BusReceive`), for both sides, any ring,
  any length of chunk and any frames. Its hypothesis `Receiving` only says that
  the constants of the ring lemmas are those of the receive path: its ring is one
  of `Sizes`, a chunk is a call. That a callback meets a frame's first byte at the
  head of its cache is not inductive by itself: one has to know where the next
  frame begins. So `RxInv` says of cache and wire together that they hold places
  of frames that were sent, each byte one step behind the one before it, and end
  with the end of the last frame unless the sender has closed (`Coming`: `Sent`,
  `OnTrack`, `Whole`), and that they begin behind the frame handled last. What
  the ring does with the bytes is `WriteStep` and `ConsumeStep` again.

**WakeUpProofs**, the centor (`Publishers` finite, `CentorRoom`, `MaxMessages`,
`MaxSubs` numbers).

* `CentorNeverUnderflows`: `[](CentorTypeOK /\ Conservation /\
  NeverRemovesNothing)`. `NeverRemovesNothing` is not inductive: that the queue
  is not empty after a byte was received holds because every byte was paid for
  with a message, which is `Conservation`. The step needs the cardinality of the
  set of publishers between their two statements.
* `CentorDeliversInOrder`: `[](QueueIsSuffix /\ DeliveredInOrder)`, with the
  strengthening `DeliveredLeftQueue`: what was delivered is older than all that
  waits.

**WakeUpProofs**, the signals (`SignalAssumption`: any user events, signal
numbers, socket capacity and number of signals).

* `ShutdownIsOrdered` (`ShutdownInOrder`). `MainAndBases` ties the bases on the
  list to where the main thread is, `NodeAnswersQuit` is the reason why an abort
  still finds its loop: from the moment the node has added its event, whatever
  lets the quit callback set `break_flag` to 1 lets the node's callback set it
  to 2 in the same round. `ReadyFull` and `CallsServed` are what the step of one
  callback needs.

**CtrAllocProofs** (`ConfigAssumption`: any positive number of classes, any
class sizes in ascending order with the header's room in a pool, any capacity).

* `AllocatorInductive`: `Spec => []IInv`. The invariant adds to the properties
  where a pool's slabs are: a slab lies above what is left of its pool
  (`depth`), and a pool that was put away has no room for the smallest class.
* `SlabsNeverOverlap` (`SlabsApart`), `NothingGetsLost` (`Accounted`): the
  arithmetic is that of a new slab, which ends where the youngest one of its
  pool begins.
* `PoolsAreUsed` (`GrowsOnlyIfFull`, an action property): a new pool is taken
  only if none of the others has room, those included that
  `mempool_find_appropriate_pool` moved away earlier.
* `AllocatorRefinesHeap` (`IsHeap`): every step is a step of `Heap` or none.

**EventThreadProofs** (any workers, descriptors, owners of workers and size of
the notifier's buffer).

* `DescriptorsNeverStale` (`NoStaleDescriptor`), if `SleepSuffices`, for any
  number of user threads. The invariant `Fresh` says for each statement of
  enroll, adjust and resign which tables the worker can still be in
  (`Operation`, `OnTheWayOut`), that an open descriptor has one worker, and that
  what the loop copied or found ready is still open (`LoopHolds`).
* `EnrolmentsNeverMissed` (`NoMissedWakeup`), if also `OneUser`: all workers are
  driven by one thread, which the code needs (section 6). Three invariants on
  top of `Fresh`: `maxfdp` is above the set between two operations, and within
  one what it is about to be set to is; an enrolled worker is in the set; and a
  worker that came after the loop read `maxfdp` or copied the set has a datagram
  waiting (`Announced`).

**P2pProofs** (`P2pAssumption`: any nodes, pools and arrangements, so any number
of calls, sign-ins and faults).

* `PortsNeverLeak` (`PortsOwned`): an entry of the pool is in use exactly if a
  session has its port.
* `ConnectedWorked` (`ConnectedBothWays`). Neither part is inductive. For "it
  sends to nobody else" the invariant has to say who *knows* an address: a
  session aimed at it, or a datagram that announces it or was sent from it
  (`Knows`); then a port the kernel has not picked is known to nobody
  (`NoForesight`), and the address of a session only to its remote node
  (`Exclusive`). For "both directions worked", every PUNCHOK, mark of the server,
  CONNECTED and flag is backed by a packet that arrived (`Evidence`).

**VpnProofs** (`VpnAssumption`: any dialers, fewer than 16 links, any networks
and arrangements).

* `PoolNeverLeaks` (`PoolBalanced`): the used table is exact (`UsedExact`: an
  address in use is that of its index and some link has it), each link with an
  address has it in the table (`LinksPaid`), and links are counted, one per
  dialer and backed by an open session. `FreedExactly` shows that releasing a
  family of links frees their addresses and no other.
* `AddressesAgree` (`AddressAgreed`). While the session lasts, the link keeps
  the address that was answered (`Holds`): said of the dialer and of every
  answer in flight to the current run. That an old answer cannot be taken for a
  new one rests on the number of the session a run is aimed at (`PacketsAimed`).

**BusProofs** (`ShapeAssumption`: any buses, processes, objects, descriptors,
calls and kinds of failure).

* `RepliesReachTheirCallers` (`OwnReply`), if `CallersStay`: processes that make
  calls do not die. The daemon knows a caller by its descriptor only, so a reply
  to a call of a dead process goes to whoever was given the number (section 6).
  The invariant `Answering` says of every request and reply in flight, to the
  daemon or from it, that it knows its way: the descriptor it carries is one
  that the daemon has open for the caller (`Routes`), a call is named by one
  frame at a time (`NamesApart`) and only while it is pending (`NamesPending`),
  and a caller has one pending call per key (`Keys`), which is all the code
  compares.
* `RegistryAlwaysSound` (`RegistrySound`), if not `Overlap` and `ObjectsApart`
  (no object is served by two buses, which is how the repository names them).
  Without the first the property is false (section 6). `Serving` relates three
  places: the ends of connections (a bus has one connection that the daemon holds
  open, and it is that of its client: `OneOpen`, `PeersLinked`, `OfflineClosed`),
  the registrations under way (`AddsOK`) and the nodes (`NodesOK`, `KeysOnce`,
  `AcksOK`). `KeysOnce` is why a search finds the node that was meant, and it
  rests on the other two: a bus registers its objects again only on a new
  connection, and by then the end of the old one has taken the old nodes away.
* Both rest on `Base` (types, `FdsApart`, `FramesOK`, `LinksOwn`).

**HttpServerProofs** (`HttpAssumption`: any finite set of clients, any scripts
of requests and any capacity of a socket; `None` is not a client or a record).

* `PoolAlwaysSound` (`PoolSound`). `Pool` says who is on which list and that
  workers and open connections go one to one; that a worker at leisure is clean
  is preserved because of `resigned`, by which the second `close_subsocket` of a
  callback does nothing. It is proved together with `Steady`: what the server has
  taken of a client's requests is where its worker says it is. Without `Steady`
  the body still missing could be a negative number and the pool's types would
  not hold.
* `EveryoneGetsTheirOwn` (`OwnResponses`). `AllInTurn` says how far each client
  that waits for its answers has come, with what it was sent and with what it
  has asked: at rest between two requests, with one half read, or with an answer
  partly out (`Idle`, `Reading`, `Answering`). The property alone is not
  inductive: a worker may answer with the wrong request's units unless one knows
  that no second request is on its way before the client has read the last unit
  of the answer before.
* What clients send and expect is `FlattenSeq` of a sequence for each request.
  That operator of the library is a recursive function that is chosen; that
  there is such a function, that it grows by one element at a time, and hence
  where each request and answer begins (`StreamInLine`), is proved with the least
  counterexample in place of an induction.

Each of these invariants was first checked by TLC on the run of its module.

Only model-checked:

* all liveness (`EveryMessageTaken`, `EveryFrameHandled`, `DataIsReceived`,
  `StopCompletes`, `CallReturns`, `EventuallyServed`, `CallConnects`,
  `DialerComesUp`, `TickCatchesUp`, `FiresUnlessClash`, `EveryoneAnswered`,
  `SignalSeen`, `ProcessEnds`), because the prover handles neither fairness nor
  `ENABLED`;
* the red-black tree and with it all of `EventTimers` (`MapSound`, `ArmedOnce`,
  `RefinesOrderedMap`): its operators are recursive over the tree, and what they
  compute needs induction over data.

Three things in TLAPS 1.4.5 shape how this is written. An EXCEPT with several
updates that reach the same index makes the SMT encoding inconsistent, so the
modules write `[f EXCEPT ![a] = [@ EXCEPT !.x = ..., !.y = ...]]`. An `@` inside
such an inner EXCEPT is translated as the outer one, so there the modules write
out what it stands for. And with `Len` in an obligation, every function is taken
for a sequence:
sequences and functions with another domain are kept in different leaves, by
operators that stay folded (`Search`, `Compares`) or lemmas of their own
(`CopiedByte`). Every leaf was also proved with that axiom replaced by the sound
half of it (`DOMAIN s = 1..n => Len(s) = n`), and no leaf but those that argue by
contradiction proves `FALSE` from the facts it cites.

## 6. Findings

1. `event_thread_free` (`Worker.c:55`). The destruction of a worker does not
   wait for its callback; the callback uses the freed task afterwards.
   `Inet_Tcp_Client.c:63` wants to wait until the worker has left, but its wait
   comes after the worker was freed.

The passing runs exclude this and some more, each noted with its hazard:

* `event_thread` has one user thread. With two (`Actors`), `__reclaim_io` reads
  `maxfdp`, scans and stores, an enrolment in between is undone, and
  `NoMissedWakeup` fails.
* The properties of `bus_receive` hold until bytes are thrown away. A chunk is
  up to as long as the ring, so behind a partial frame its tail is dropped.
* `bus` lets the daemon read the end of a dead process's connection before the
  frames of its successor (`Overlap = FALSE`) and lets only a process that makes
  no calls die (`MayCrash = {s}`): the answer to a caller that died goes to its
  descriptor number, which may belong to another process by then. With
  `Overlap = TRUE` and `ServesTwo` of `MCBus`, `RegistrySound` fails
  (`busd.c:196`): the end of a connection removes by key, and when a restarted
  service has already registered again the search can find the new node. It
  needs three nodes, so that the tree has rotated.
* `PoolBalanced` and `TickCatchesUp` say nothing of a dialer that stops after it
  was connected: nothing takes `connected` back at the callee (`vpn.c:424`), so
  its link and address are not returned, although `src/doc/net/vpn/README.md:302`
  expects it.
* `CountCovers` allows the counter of the allocator to be too large by the huge
  requests that malloc refused: it is counted first
  (`allocator_ctr_alloc.c:123`).
* `ProcessEnds` excludes a SIGINT before the events were added, one that meets a
  full socket (`signal.c:73`), and one whose callback in `Node.c:41` writes 2 over
  the 1 of the producer's stop, after which the loop goes on. `SignalSeen` lets
  an event be removed: `evsig_del` goes by number (`signal.c:164`) and may take
  another event of the same number than the one that was meant.
* `ArmedOnce` and `FiresUnlessClash` exclude equal deadlines: a removal by
  deadline can take the other event's node, and the event that lost its node
  never fires again. Without equal deadlines two deletions search the timer for
  a deadline that is not there and delete at an uninitialised position
  (`Rbtree_Timer.c:99`): that of a one-shot event which was called at its
  deadline (`Event_Base.c:252` takes it from the timer only; `:144` deletes it
  later, or `:189` when its descriptor is ready), and that of the loop after a
  callback that deleted its own event (`:184`, `:248`, `:252`). `ArmedOnce`
  says that no other deletion does, and `FiresUnlessClash` stops there. The
  first half needs a user of the library: every event under `src/src` is
  `EV_PERSIST`.
* `ConnectedBothWays` is about ports that are not used again: a packet meant
  for a closed session re-aims the next session on the same port. `CallConnects`
  excludes two nodes that call each other at the same time, and faults: the
  signals are not repeated, and nodes do not sign in again after the server was
  restarted.
* `EveryoneAnswered` is about clients that wait for their answers, and excludes
  what ends the process (a header in two segments, an abort under a handler's
  body, an empty file) and a body in pieces after a HEAD of a file on the same
  connection, which is cut off. Pipelined requests in one segment are taken for
  a body and never answered. That neither client keeps its neighbour from being
  answered is checked.

## 7. Assumptions and what is not modelled

* Each operation on `io_map` and `obj_map` is one step; torn reads of the
  unlocked tree are left out.
* `SleepSuffices`: the `usleep` between resigning a worker and closing its
  socket outlasts the round of the loop that still holds the descriptor. The
  code relies on it; nothing enforces it. `LoopEndsOnlyOnStop` and
  `CallbackHasData` rest on it. With `FALSE`, the socket may be closed at once.
* One owner per worker. `EventThread` has no timers; `EventTimers` has them with
  each operation on the tree as one step; `Signals` has the signal half of the
  loop, with each operation on `evsig.map` as one step. An event freed by its
  own callback is memory that the models do not keep.
* `HttpServer`: a receive takes all that has arrived; the event thread serves
  descriptors in any order; what a handler answers is given by its size. The
  destruction of a server and the registration of handlers are left out.
* `P2p`: calls of the application are atomic with respect to the node's event
  thread except `__signin`; no NAT. `Vpn`: the session below is that of `P2p`
  without its datagrams; the context, which lives on the stack of `vpn_run`, is
  not used after its end.
* `Bus`: whole frames in order (`BusReceive` is about the cutting), one method
  per object which answers once, one outstanding request per key, a lookup made
  alone on its bus, no request while off line, `bus->blob` used by one thread at
  a time, the daemon's walk over its registry correct after a removal. The
  hazards say where the code depends on each of these.
* `bus_lookup` does not reset the blob; the model has what it then sends
  (`Named`), and an unregistered object is never answered. No property claims
  that lookups return.
* `Signals`: after SIGSEGV the process ends, whatever the handler still does.
  `CtrAlloc`: without the tags and the report of what is allocated.
* The lists of workers (`Producer.c:59`) and of the other containers are
  sequences with atomic operations wherever they occur; the list that is made
  without a mutex is a hazard without a property.
* Not modelled at all, with the reason for each in `PROJECT.json`: the object
  system, the other containers, strings, blob encoding, ssh, the node's
  commands, turn, media and ui (which no build of the repository contains),
  archive, compress, crypto, database, attacher, stub, board. Most are
  sequential code without shared state, adapters to other libraries, or codecs
  whose values are too large for TLC. They are also by far the largest part of
  the repository (players, file formats, parsers, widgets), so the share of its
  lines that has a model stays small; what is modelled is where processes,
  threads and messages meet.

## 8. Plan

Done: ring buffer, centor, receive path, event thread, bus, because each later
one uses what the earlier one promises; then the red-black tree map and the
timers, which justify `Found` in `Bus` and the tables of `EventThread`; the
server pool with http on top; p2p and the vpn on top of it; the allocator, on
which everything rests; signals and the end of a process.

Next, in this order:

1. The linked list with and without its mutex, at the level of single pointer
   assignments, and the iterators that outlive the lock.
2. A second destroyer of a worker and the destruction of a server with open
   connections, on the tables of `EventThread`.
3. The node's commands (call, abort, file copy) on the calls of `Bus`.
4. The http client.

Proofs to add: every safety property that the runs check has a theorem except
those of `EventTimers`. For these the tree would have to be stated again, as a
set of nodes with a parent and a side instead of a recursive record, so that a
rotation is an update of a few nodes and no induction is needed.
