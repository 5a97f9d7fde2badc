--------------------------- MODULE MessageCentor ---------------------------
(***************************************************************************)
(* The in-process message system of src/concurrent/message: publishers put *)
(* a message into the centor's locked queue and then send one byte to its  *)
(* UDP socket; the event thread takes one byte, removes one message and    *)
(* hands it to every subscription of the message's publisher.              *)
(*                                                                         *)
(* The two steps of a publisher are not atomic, and the byte may be lost   *)
(* (the socket buffer is full; the result of send is not looked at), so    *)
(* bytes and messages are counted apart.                                   *)
(***************************************************************************)
EXTENDS Integers, Sequences, FiniteSets

CONSTANTS
    Publishers,   \* publishers, each driven by a thread of its own
    Subscribers,
    CentorRoom,   \* bytes the centor's socket buffers
    MaxMessages,  \* bound: messages published in a behaviour
    MaxSubs       \* bound: subscriptions made in a behaviour

ASSUME PublishersAssumption == IsFiniteSet(Publishers)
ASSUME RoomAssumption       == CentorRoom \in Nat
ASSUME BoundsAssumption     == MaxMessages \in Nat /\ MaxSubs \in Nat

VARIABLES
    message_queue,   \* the messages waiting: number and publisher of each
    subscriber_map,  \* the (subscriber, publisher) pairs, in order of arrival;
                     \* the map accepts equal keys
    bytes,           \* bytes waiting in the centor's socket
    pub_pc,          \* per publisher: "idle", or "send" between add and send
    loop_pc,         \* "select", or "work" between recv and remove
    published,       \* number of messages published so far
    dropped,         \* bytes lost so far
    inbox            \* per subscriber: the message numbers its handler got

centorVars == <<message_queue, subscriber_map, bytes, pub_pc, loop_pc, published,
          dropped, inbox>>

CentorInit ==
    /\ message_queue = << >> /\ subscriber_map = << >> /\ bytes = 0
    /\ pub_pc = [p \in Publishers |-> "idle"] /\ loop_pc = "select"
    /\ published = 0 /\ dropped = 0
    /\ inbox = [s \in Subscribers |-> << >>]

\* subscriber->subscribe(subscriber, publisher)
Subscribe(s, p) ==
    /\ Len(subscriber_map) < MaxSubs
    /\ subscriber_map' = Append(subscriber_map, <<s, p>>)
    /\ UNCHANGED <<message_queue, bytes, pub_pc, loop_pc, published, dropped, inbox>>

\* Mutant: the message enters at the end it is removed from.
AddMessageFront(p) ==
    /\ pub_pc[p] = "idle" /\ published < MaxMessages
    /\ published'     = published + 1
    /\ message_queue' = <<[id |-> published + 1, publisher |-> p]>> \o message_queue
    /\ pub_pc'        = [pub_pc EXCEPT ![p] = "send"]
    /\ UNCHANGED <<subscriber_map, bytes, loop_pc, dropped, inbox>>

\* First half of publish_message: the message enters the queue.
AddMessage(p) ==
    /\ pub_pc[p] = "idle" /\ published < MaxMessages
    /\ published'     = published + 1
    /\ message_queue' = Append(message_queue, [id |-> published + 1, publisher |-> p])
    /\ pub_pc'        = [pub_pc EXCEPT ![p] = "send"]
    /\ UNCHANGED <<subscriber_map, bytes, loop_pc, dropped, inbox>>

\* Mutant: nobody is woken.
SendNothing(p) ==
    /\ pub_pc[p] = "send"
    /\ pub_pc' = [pub_pc EXCEPT ![p] = "idle"]
    /\ UNCHANGED <<message_queue, subscriber_map, bytes, loop_pc, published, dropped, inbox>>

\* Second half: one byte to the socket, which drops it when it is full.
SendByte(p) ==
    /\ pub_pc[p] = "send"
    /\ IF bytes < CentorRoom
       THEN bytes' = bytes + 1 /\ UNCHANGED dropped
       ELSE dropped' = dropped + 1 /\ UNCHANGED bytes
    /\ pub_pc' = [pub_pc EXCEPT ![p] = "idle"]
    /\ UNCHANGED <<message_queue, subscriber_map, loop_pc, published, inbox>>

\* Mutant: what recv returned is not looked at.
RecvUnchecked ==
    /\ loop_pc = "select"
    /\ bytes'   = bytes - 1
    /\ loop_pc' = "work"
    /\ UNCHANGED <<message_queue, subscriber_map, pub_pc, published, dropped, inbox>>

\* message_centor_ev_callback: one byte wakes the event thread.
RecvByte ==
    /\ loop_pc = "select" /\ bytes > 0
    /\ bytes'   = bytes - 1
    /\ loop_pc' = "work"
    /\ UNCHANGED <<message_queue, subscriber_map, pub_pc, published, dropped, inbox>>

\* How often the handler of s runs for a message of p: once per subscription.
Copies(s, p) == Cardinality({i \in 1 .. Len(subscriber_map) : subscriber_map[i] = <<s, p>>})

\* message_centor_work_callback: remove, find the subscribers, call them,
\* destroy.  On an empty queue the code goes on with an uninitialised pointer;
\* NeverRemovesNothing says that the guard below never blocks.
WorkCallback ==
    /\ loop_pc = "work" /\ message_queue # << >>
    /\ LET m == Head(message_queue)
       IN  inbox' = [s \in Subscribers |->
                       inbox[s] \o [i \in 1 .. Copies(s, m.publisher) |-> m.id]]
    /\ message_queue' = Tail(message_queue)
    /\ loop_pc' = "select"
    /\ UNCHANGED <<subscriber_map, bytes, pub_pc, published, dropped>>

CentorNext ==
    \/ \E s \in Subscribers, p \in Publishers : Subscribe(s, p)
    \/ \E p \in Publishers : AddMessage(p) \/ SendByte(p)
    \/ RecvByte \/ WorkCallback

CentorSpec == CentorInit /\ [][CentorNext]_centorVars

\* A publisher between its two statements goes on, and the event thread
\* serves a readable socket and finishes its callback.  Nobody has to publish
\* or subscribe.
Fairness ==
    /\ \A p \in Publishers : WF_centorVars(SendByte(p))
    /\ WF_centorVars(RecvByte) /\ WF_centorVars(WorkCallback)

CentorFairSpec == CentorSpec /\ Fairness

-----------------------------------------------------------------------------
Sending == {p \in Publishers : pub_pc[p] = "send"}
Working == IF loop_pc = "work" THEN 1 ELSE 0

\* Type invariant: counters never go below zero and both program counters stay
\* at the statements named above.
CentorTypeOK ==
    /\ message_queue \in Seq([id : Nat, publisher : Publishers])
    /\ subscriber_map \in Seq(Subscribers \X Publishers)
    /\ bytes \in Nat /\ published \in Nat /\ dropped \in Nat
    /\ pub_pc \in [Publishers -> {"idle", "send"}]
    /\ loop_pc \in {"select", "work"}
    /\ inbox \in [Subscribers -> Seq(Nat)]

\* The bookkeeping that ties the two channels together: each waiting message
\* has a byte in the socket, in the event thread's hands or about to be sent
\* by a publisher, or its byte was lost.
Conservation ==
    Len(message_queue) = bytes + Working + Cardinality(Sending) + dropped

\* The work callback never removes from an empty queue, so it never uses the
\* uninitialised message pointer of Centor.c.
NeverRemovesNothing == loop_pc = "work" => message_queue # << >>

\* The messages in flight are the latest ones published, in the order of
\* publication: the queue reorders nothing and skips nothing.
QueueIsSuffix ==
    \A i \in 1 .. Len(message_queue) :
        message_queue[i].id = published - Len(message_queue) + i

\* A handler sees messages in the order they were published, whatever other
\* publishers do in between; a message comes twice only to one who
\* subscribed twice.
DeliveredInOrder ==
    \A s \in Subscribers : \A i, j \in 1 .. Len(inbox[s]) :
        i < j => inbox[s][i] <= inbox[s][j]

\* No message is delivered again once it left the queue.
DeliveredLeftQueue ==
    \A s \in Subscribers : \A i \in 1 .. Len(inbox[s]) :
        inbox[s][i] <= published - Len(message_queue)

\* Every message published is taken from the queue, as long as no byte was
\* lost; a lost byte leaves one message waiting for the next publication.
EveryMessageTaken ==
    \A n \in 1 .. MaxMessages :
        (published >= n) ~> (published - Len(message_queue) >= n \/ dropped > 0)
=============================================================================
