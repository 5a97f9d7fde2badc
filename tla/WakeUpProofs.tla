---------------------------- MODULE WakeUpProofs ----------------------------
(***************************************************************************)
(* The two places where a byte in a socket pair wakes the event loop up    *)
(* for something that waits elsewhere: the message centor, for any number  *)
(* of publishers, subscribers, messages and any socket buffer, and the     *)
(* signal events of a base, for any number of user events, any socket and  *)
(* any number of signals.                                                  *)
(***************************************************************************)
EXTENDS MessageCentor, Signals, FiniteSetTheorems, SequenceTheorems, TLAPS

-----------------------------------------------------------------------------
(***************************************************************************)
(* MessageCentor: nothing is taken from an empty queue, and everybody gets *)
(* the messages in order.                                                  *)
(***************************************************************************)

\* The inductive invariant.  Conservation carries NeverRemovesNothing: the
\* event thread only works after it took a byte, and Conservation says that
\* every byte was paid for with a message.  The order of an inbox needs to
\* know that what was delivered is older than all that still waits.
Counting == CentorTypeOK /\ Conservation
Ordering == QueueIsSuffix /\ DeliveredLeftQueue /\ DeliveredInOrder
CentorInv     == Counting /\ Ordering

\* Only finitely many publishers stand between the queue and the byte.
LEMMA SendingFinite == IsFiniteSet(Sending) /\ Cardinality(Sending) \in Nat
<1>1. Sending \in SUBSET Publishers
  BY DEF Sending
<1>2. IsFiniteSet(Sending)
  BY <1>1, PublishersAssumption, FS_Subset
<1> QED BY <1>2, FS_CardinalityType

\* The number of copies a subscriber gets of a message is a number.
LEMMA CopiesNat ==
    ASSUME CentorTypeOK, NEW s \in Subscribers, NEW p \in Publishers
    PROVE  Copies(s, p) \in Nat
<1> DEFINE I == {i \in 1 .. Len(subscriber_map) : subscriber_map[i] = <<s, p>>}
<1>1. Len(subscriber_map) \in Int /\ 1 \in Int
  BY LenProperties DEF CentorTypeOK
<1>2. IsFiniteSet(1 .. Len(subscriber_map))
  BY <1>1, FS_Interval
<1>3. I \in SUBSET (1 .. Len(subscriber_map))
  OBVIOUS
<1>4. IsFiniteSet(I)
  BY <1>2, <1>3, FS_Subset
<1> QED BY <1>4, FS_CardinalityType DEF Copies

\* A function on 1 .. n is a sequence of length n.
LEMMA Tabulated ==
    ASSUME NEW S, NEW n \in Nat, NEW f \in [1 .. n -> S]
    PROVE  f \in Seq(S) /\ Len(f) = n
<1>1. f \in Seq(S)
  BY SeqDef
<1> QED BY <1>1, LenProperties

\* What a subscriber's inbox looks like after the work callback.
LEMMA WorkInbox ==
    ASSUME CentorTypeOK, WorkCallback, NEW s \in Subscribers
    PROVE  LET n == Copies(s, Head(message_queue).publisher)
           IN  /\ n \in Nat /\ inbox'[s] \in Seq(Nat) /\ Len(inbox'[s]) = Len(inbox[s]) + n
               /\ \A i \in 1 .. Len(inbox[s]) : inbox'[s][i] = inbox[s][i]
               /\ \A i \in Len(inbox[s]) + 1 .. Len(inbox[s]) + n :
                     inbox'[s][i] = Head(message_queue).id
<1> DEFINE m == Head(message_queue)
           n == Copies(s, m.publisher)
           t == [i \in 1 .. n |-> m.id]
<1>1. m \in [id : Nat, publisher : Publishers]
  BY HeadTailProperties DEF CentorTypeOK, WorkCallback
<1>2. m.id \in Nat /\ n \in Nat
  BY <1>1, CopiesNat
<1>3. inbox[s] \in Seq(Nat) /\ Len(inbox[s]) \in Nat
  BY LenProperties DEF CentorTypeOK
<1>4. inbox'[s] = inbox[s] \o t
  BY DEF WorkCallback
<1> HIDE DEF n, m
<1>5. t \in [1 .. n -> Nat]
  BY <1>2
<1>6. t \in Seq(Nat) /\ Len(t) = n /\ \A i \in 1 .. n : t[i] = m.id
  BY <1>2, <1>5, Tabulated
<1> HIDE DEF t
<1>7. /\ inbox[s] \o t \in Seq(Nat) /\ Len(inbox[s] \o t) = Len(inbox[s]) + Len(t)
      /\ \A i \in 1 .. Len(inbox[s]) + Len(t) : (inbox[s] \o t)[i] =
            IF i <= Len(inbox[s]) THEN inbox[s][i] ELSE t[i - Len(inbox[s])]
  BY <1>3, <1>6, ConcatProperties
<1>8. ASSUME NEW i \in Len(inbox[s]) + 1 .. Len(inbox[s]) + n
      PROVE  inbox'[s][i] = m.id
  <2>1. /\ i - Len(inbox[s]) \in 1 .. n /\ ~(i <= Len(inbox[s]))
        /\ i \in 1 .. Len(inbox[s]) + Len(t)
    BY <1>2, <1>3, <1>6
  <2> QED BY <1>4, <1>6, <1>7, <2>1
<1>9. ASSUME NEW i \in 1 .. Len(inbox[s]) PROVE inbox'[s][i] = inbox[s][i]
  BY <1>2, <1>3, <1>4, <1>6, <1>7
<1> QED BY <1>2, <1>4, <1>6, <1>7, <1>8, <1>9 DEF n, m

-----------------------------------------------------------------------------
\* Every step keeps the types and the account of bytes and messages.
LEMMA CountingStep == Counting /\ [CentorNext]_centorVars => Counting'
<1> SUFFICES ASSUME Counting, [CentorNext]_centorVars PROVE Counting'
  OBVIOUS
<1>t. /\ message_queue \in Seq([id : Nat, publisher : Publishers])
      /\ subscriber_map \in Seq(Subscribers \X Publishers)
      /\ bytes \in Nat /\ published \in Nat /\ dropped \in Nat
      /\ pub_pc \in [Publishers -> {"idle", "send"}]
      /\ loop_pc \in {"select", "work"}
      /\ inbox \in [Subscribers -> Seq(Nat)]
      /\ Len(message_queue) = bytes + Working + Cardinality(Sending) + dropped
      /\ IsFiniteSet(Sending) /\ Cardinality(Sending) \in Nat /\ Working \in Nat
  BY SendingFinite DEF Counting, CentorTypeOK, Conservation, Working
<1>1. ASSUME NEW s \in Subscribers, NEW p \in Publishers, Subscribe(s, p)
      PROVE  Counting'
  <2>1. subscriber_map' \in Seq(Subscribers \X Publishers)
    BY <1>t, <1>1, AppendProperties DEF Subscribe
  <2>2. CentorTypeOK'
    BY <1>t, <1>1, <2>1 DEF Subscribe, CentorTypeOK
  <2>3. Sending' = Sending /\ Working' = Working
    BY <1>1 DEF Subscribe, Sending, Working
  <2>4. Conservation'
    BY <1>t, <1>1, <2>3 DEF Subscribe, Conservation
  <2> QED BY <2>2, <2>4 DEF Counting
<1>2. ASSUME NEW p \in Publishers, AddMessage(p) PROVE Counting'
  <2> DEFINE m == [id |-> published + 1, publisher |-> p]
  <2>1. m \in [id : Nat, publisher : Publishers]
    BY <1>t
  <2>2. /\ message_queue' \in Seq([id : Nat, publisher : Publishers])
        /\ Len(message_queue') = Len(message_queue) + 1
    <3>1. message_queue' = Append(message_queue, m)
      BY <1>2 DEF AddMessage
    <3>2. message_queue \in Seq([id : Nat, publisher : Publishers])
      BY <1>t
    <3> HIDE DEF m
    <3> QED BY <2>1, <3>1, <3>2, AppendProperties, Zenon
  <2>3. pub_pc' \in [Publishers -> {"idle", "send"}] /\ published' \in Nat
    BY <1>t, <1>2 DEF AddMessage
  <2>4. CentorTypeOK'
    BY <1>t, <1>2, <2>2, <2>3 DEF AddMessage, CentorTypeOK
  <2>5. Sending' = Sending \cup {p} /\ p \notin Sending /\ Working' = Working
    BY <1>t, <1>2 DEF AddMessage, Sending, Working
  <2>6. Cardinality(Sending') = Cardinality(Sending) + 1
    BY <1>t, <2>5, FS_AddElement
  <2>7. bytes' = bytes /\ dropped' = dropped
    BY <1>2 DEF AddMessage
  <2>8. Len(message_queue') = bytes' + Working' + Cardinality(Sending') + dropped'
    BY <1>t, <2>2, <2>5, <2>6, <2>7
  <2> QED BY <2>4, <2>8 DEF Counting, Conservation
<1>3. ASSUME NEW p \in Publishers, SendByte(p) PROVE Counting'
  <2>1. CentorTypeOK'
    BY <1>t, <1>3, RoomAssumption DEF SendByte, CentorTypeOK
  <2>2. Sending' = Sending \ {p} /\ p \in Sending /\ Working' = Working
    BY <1>t, <1>3 DEF SendByte, Sending, Working
  <2>3. Cardinality(Sending') = Cardinality(Sending) - 1
    BY <1>t, <2>2, FS_RemoveElement
  <2>4. /\ message_queue' = message_queue
        /\ \/ bytes' = bytes + 1 /\ dropped' = dropped
           \/ bytes' = bytes /\ dropped' = dropped + 1
    BY <1>3 DEF SendByte
  <2>5. Len(message_queue') = bytes' + Working' + Cardinality(Sending') + dropped'
    BY <1>t, <2>2, <2>3, <2>4, SMTT(40)
  <2> QED BY <2>1, <2>5 DEF Counting, Conservation
<1>4. ASSUME RecvByte PROVE Counting'
  <2>1. CentorTypeOK'
    BY <1>t, <1>4 DEF RecvByte, CentorTypeOK
  <2>2. Sending' = Sending /\ Working = 0 /\ Working' = 1
    BY <1>4 DEF RecvByte, Sending, Working
  <2>3. Conservation'
    BY <1>t, <1>4, <2>2 DEF RecvByte, Conservation
  <2> QED BY <2>1, <2>3 DEF Counting
<1>5. ASSUME WorkCallback PROVE Counting'
  <2>1. /\ message_queue' \in Seq([id : Nat, publisher : Publishers])
        /\ Len(message_queue') = Len(message_queue) - 1
    BY <1>t, <1>5, HeadTailProperties DEF WorkCallback
  <2>2. inbox' \in [Subscribers -> Seq(Nat)]
    <3>1. \A s \in Subscribers : inbox'[s] \in Seq(Nat)
      BY <1>5, WorkInbox DEF Counting
    <3>2. inbox' = [s \in Subscribers |-> inbox'[s]]
      BY <1>5 DEF WorkCallback
    <3> QED BY <3>1, <3>2
  <2>3. CentorTypeOK'
    BY <1>t, <1>5, <2>1, <2>2 DEF WorkCallback, CentorTypeOK
  <2>4. Sending' = Sending /\ Working = 1 /\ Working' = 0
    BY <1>5 DEF WorkCallback, Sending, Working
  <2>5. bytes' = bytes /\ dropped' = dropped
    BY <1>5 DEF WorkCallback
  <2>6. Len(message_queue') = bytes' + Working' + Cardinality(Sending') + dropped'
    BY <1>t, <2>1, <2>4, <2>5
  <2> QED BY <2>3, <2>6 DEF Counting, Conservation
<1>6. CASE UNCHANGED centorVars
  BY <1>t, <1>6 DEF centorVars, Counting, CentorTypeOK, Conservation, Sending, Working
<1> QED BY <1>1, <1>2, <1>3, <1>4, <1>5, <1>6 DEF CentorNext

\* Every step keeps the queue in publication order and every inbox behind it.
LEMMA OrderingStep == Counting /\ Ordering /\ [CentorNext]_centorVars => Ordering'
<1> SUFFICES ASSUME Counting, Ordering, [CentorNext]_centorVars PROVE Ordering'
  OBVIOUS
<1>t. /\ message_queue \in Seq([id : Nat, publisher : Publishers])
      /\ published \in Nat /\ Len(message_queue) \in Nat
      /\ inbox \in [Subscribers -> Seq(Nat)]
  BY LenProperties DEF Counting, CentorTypeOK
<1>q. \A i \in 1 .. Len(message_queue) :
         message_queue[i].id = published - Len(message_queue) + i
  BY DEF Ordering, QueueIsSuffix
<1>1. ASSUME NEW p \in Publishers, AddMessage(p) PROVE Ordering'
  <2> DEFINE m == [id |-> published + 1, publisher |-> p]
  <2>1. message_queue' = Append(message_queue, m) /\ published' = published + 1 /\ inbox' = inbox
    BY <1>1 DEF AddMessage
  <2>2. m \in [id : Nat, publisher : Publishers] /\ m.id = published + 1
    BY <1>t
  <2> HIDE DEF m
  <2>3. /\ Len(message_queue') = Len(message_queue) + 1
        /\ \A i \in 1 .. Len(message_queue) : message_queue'[i] = message_queue[i]
        /\ message_queue'[Len(message_queue) + 1] = m
    BY <1>t, <2>1, <2>2, AppendProperties
  <2>4. QueueIsSuffix'
    <3> SUFFICES ASSUME NEW i \in 1 .. Len(message_queue')
                 PROVE  message_queue'[i].id = published' - Len(message_queue') + i
      BY DEF QueueIsSuffix
    <3>1. CASE i <= Len(message_queue)
      <4>1. i \in 1 .. Len(message_queue)
        BY <1>t, <2>3, <3>1
      <4>2. message_queue'[i].id = published - Len(message_queue) + i
        BY <1>q, <2>3, <4>1
      <4> QED BY <1>t, <2>1, <2>3, <4>2
    <3>2. CASE ~(i <= Len(message_queue))
      <4>1. i = Len(message_queue) + 1
        BY <1>t, <2>3, <3>2
      <4> QED BY <1>t, <2>1, <2>2, <2>3, <4>1
    <3> QED BY <3>1, <3>2
  <2>5. published' - Len(message_queue') = published - Len(message_queue)
    BY <1>t, <2>1, <2>3
  <2>6. DeliveredLeftQueue' /\ DeliveredInOrder'
    BY <2>1, <2>5 DEF Ordering, DeliveredLeftQueue, DeliveredInOrder
  <2> QED BY <2>4, <2>6 DEF Ordering
<1>2. ASSUME WorkCallback PROVE Ordering'
  <2>1. message_queue # << >> /\ message_queue' = Tail(message_queue) /\ published' = published
    BY <1>2 DEF WorkCallback
  <2>2. /\ Len(message_queue') = Len(message_queue) - 1
        /\ \A i \in 1 .. Len(message_queue') : message_queue'[i] = message_queue[i + 1]
    BY <1>t, <2>1, HeadTailProperties
  <2>3. Len(message_queue) \in Nat \ {0} /\ Head(message_queue) = message_queue[1]
    BY <1>t, <2>1, EmptySeq
  <2> DEFINE now == published - Len(message_queue) + 1
  <2>4. Head(message_queue).id = now /\ now \in Int /\ now = published' - Len(message_queue')
    BY <1>t, <1>q, <2>1, <2>2, <2>3
  <2>5. QueueIsSuffix'
    <3> SUFFICES ASSUME NEW i \in 1 .. Len(message_queue')
                 PROVE  message_queue'[i].id = published' - Len(message_queue') + i
      BY DEF QueueIsSuffix
    <3>1. i + 1 \in 1 .. Len(message_queue)
      BY <2>2, <2>3
    <3>2. message_queue'[i].id = published - Len(message_queue) + (i + 1)
      BY <1>q, <2>2, <3>1
    <3> QED BY <1>t, <2>1, <2>2, <3>2
  <2> HIDE DEF now
  <2>6. ASSUME NEW s \in Subscribers
        PROVE  /\ inbox'[s] \in Seq(Nat) /\ Len(inbox[s]) \in Nat
               /\ \A i \in 1 .. Len(inbox'[s]) :
                    \/ i \in 1 .. Len(inbox[s]) /\ inbox'[s][i] = inbox[s][i]
                    \/ i > Len(inbox[s]) /\ inbox'[s][i] = now
    <3> DEFINE n == Copies(s, Head(message_queue).publisher)
    <3>1. /\ n \in Nat /\ inbox'[s] \in Seq(Nat) /\ Len(inbox'[s]) = Len(inbox[s]) + n
          /\ \A i \in 1 .. Len(inbox[s]) : inbox'[s][i] = inbox[s][i]
          /\ \A i \in Len(inbox[s]) + 1 .. Len(inbox[s]) + n :
                inbox'[s][i] = Head(message_queue).id
      BY <1>2, WorkInbox DEF Counting
    <3>2. Len(inbox[s]) \in Nat
      BY <1>t, LenProperties
    <3> HIDE DEF n
    <3> QED BY <2>4, <3>1, <3>2
  <2>7. ASSUME NEW s \in Subscribers, NEW i \in 1 .. Len(inbox[s])
        PROVE  inbox[s][i] \in Nat /\ inbox[s][i] < now
    <3>1. inbox[s][i] \in Nat
      BY <1>t, ElementOfSeq
    <3>2. inbox[s][i] <= published - Len(message_queue)
      BY DEF Ordering, DeliveredLeftQueue
    <3> QED BY <1>t, <3>1, <3>2 DEF now
  <2>8. DeliveredLeftQueue'
    <3> SUFFICES ASSUME NEW s \in Subscribers, NEW i \in 1 .. Len(inbox'[s])
                 PROVE  inbox'[s][i] <= published' - Len(message_queue')
      BY DEF DeliveredLeftQueue
    <3>1. CASE i \in 1 .. Len(inbox[s]) /\ inbox'[s][i] = inbox[s][i]
      <4>1. inbox'[s][i] \in Nat /\ inbox'[s][i] < now
        BY <2>7, <3>1
      <4> QED BY <2>4, <4>1
    <3>2. CASE inbox'[s][i] = now
      BY <2>4, <3>2
    <3> QED BY <2>6, <3>1, <3>2
  <2>9. DeliveredInOrder'
    <3> SUFFICES ASSUME NEW s \in Subscribers, NEW i \in 1 .. Len(inbox'[s]),
                        NEW j \in 1 .. Len(inbox'[s]), i < j
                 PROVE  inbox'[s][i] <= inbox'[s][j]
      BY DEF DeliveredInOrder
    <3>1. Len(inbox[s]) \in Nat /\ i \in Nat /\ j \in Nat
      BY <2>6, LenProperties
    <3>2. CASE j \in 1 .. Len(inbox[s]) /\ inbox'[s][j] = inbox[s][j]
      <4>1. i \in 1 .. Len(inbox[s]) /\ inbox'[s][i] = inbox[s][i]
        BY <2>6, <3>1, <3>2
      <4> QED BY <3>2, <4>1 DEF Ordering, DeliveredInOrder
    <3>3. CASE j > Len(inbox[s]) /\ inbox'[s][j] = now
      <4>1. CASE i \in 1 .. Len(inbox[s]) /\ inbox'[s][i] = inbox[s][i]
        <5>1. inbox'[s][i] \in Nat /\ inbox'[s][i] < now
          BY <2>7, <4>1
        <5> QED BY <2>4, <3>3, <5>1
      <4>2. CASE inbox'[s][i] = now
        BY <2>4, <3>3, <4>2
      <4> QED BY <2>6, <4>1, <4>2
    <3> QED BY <2>6, <3>2, <3>3
  <2> QED BY <2>5, <2>8, <2>9 DEF Ordering
<1>3. ASSUME message_queue' = message_queue, published' = published, inbox' = inbox
      PROVE  Ordering'
  BY <1>3 DEF Ordering, QueueIsSuffix, DeliveredLeftQueue, DeliveredInOrder
<1> QED BY <1>1, <1>2, <1>3 DEF CentorNext, centorVars, Subscribe, SendByte, RecvByte

-----------------------------------------------------------------------------
\* A new centor has no bytes, no messages and empty inboxes.
LEMMA InitCentorInv == CentorInit => CentorInv
<1> SUFFICES ASSUME CentorInit PROVE CentorInv
  OBVIOUS
<1>1. CentorTypeOK
  <2>1. << >> \in Seq([id : Nat, publisher : Publishers])
    BY EmptySeq
  <2>2. << >> \in Seq(Subscribers \X Publishers) /\ << >> \in Seq(Nat)
    BY EmptySeq
  <2> QED BY <2>1, <2>2 DEF CentorInit, CentorTypeOK
<1>2. Sending = {} /\ Working = 0
  BY DEF CentorInit, Sending, Working
<1>3. Conservation
  BY <1>2, FS_EmptySet, EmptySeq DEF CentorInit, Conservation
<1>4. Ordering
  BY EmptySeq DEF CentorInit, Ordering, QueueIsSuffix, DeliveredLeftQueue, DeliveredInOrder
<1> QED BY <1>1, <1>3, <1>4 DEF CentorInv, Counting

\* Every step of a publisher, of the event thread and of a lost byte preserves
\* the inductive invariant.
THEOREM CentorInductive == CentorSpec => []CentorInv
<1>1. CentorInv /\ [CentorNext]_centorVars => CentorInv'
  BY CountingStep, OrderingStep DEF CentorInv
<1> QED BY <1>1, InitCentorInv, PTL DEF CentorSpec

\* Whatever the interleaving of publishers, event thread and lost bytes,
\* message_centor_work_callback never removes from an empty queue, so it never
\* reads the uninitialised message pointer; the account of bytes and messages
\* always balances.
THEOREM CentorNeverUnderflows == CentorSpec => [](CentorTypeOK /\ Conservation /\ NeverRemovesNothing)
<1>1. CentorInv => CentorTypeOK /\ Conservation /\ NeverRemovesNothing
  <2> SUFFICES ASSUME CentorInv, loop_pc = "work", message_queue = << >> PROVE FALSE
    BY DEF CentorInv, Counting, NeverRemovesNothing
  <2>1. Len(message_queue) = 0
    BY EmptySeq
  <2>2. Working = 1 /\ bytes \in Nat /\ dropped \in Nat
    BY DEF Working, CentorInv, Counting, CentorTypeOK
  <2> QED BY <2>1, <2>2, SendingFinite DEF CentorInv, Counting, Conservation
<1> QED BY <1>1, CentorInductive, PTL

\* Messages wait in the order they were published, and every subscriber's
\* handler sees them in that order, for any number of publishers racing.
THEOREM CentorDeliversInOrder == CentorSpec => [](QueueIsSuffix /\ DeliveredInOrder)
<1>1. CentorInv => QueueIsSuffix /\ DeliveredInOrder
  BY DEF CentorInv, Ordering
<1> QED BY <1>1, CentorInductive, PTL

-----------------------------------------------------------------------------
(***************************************************************************)
(* Signals, ShutdownInOrder: while a loop runs its base is on the list and *)
(* has its socket pair, and the loop outlives an abort.                    *)
(***************************************************************************)

Running == {"check", "select", "serve", "node_cb"}

\* A descriptor that select returned has something to read, and the producer
\* sends its one notice when it stops.
ReadyFull ==
    /\ \A b \in Bases : "signal" \in ready[b] => sock[b] # <<>>
    /\ \A b \in Bases : "notifier" \in ready[b] => b = "def" /\ notices = 1
    /\ main \notin {"join", "release_def", "unlist_def", "done"} => notices = 0

\* Events are called inside a round only.
CallsServed ==
    \A b \in Bases :
        /\ calls[b] # {} => loop[b] \in {"serve", "node_cb"}
        /\ loop[b] = "node_cb" => "node" \in calls[b]

\* How far the main thread is says which bases are there, and whose loop runs.
MainAndBases ==
    /\ loop["def"] # "none"
    /\ main \notin {"unlist_def", "done"} => "def" \in sender
    /\ main # "done" => "def" \in listed
    /\ main \in {"release_def", "unlist_def", "done"} => loop["def"] = "ended"
    /\ loop["own"] \in Running => app = "own" /\ main = "wait"
    /\ main = "made" => app = "own" /\ "own" \in listed
    /\ main = "wait" /\ app = "own" => "own" \in listed \cap sender
    /\ main = "abort" => app = "call"

\* Until the node has added its event no SIGINT is on its way; from then on
\* whatever lets the quit event set break_flag to 1 lets the node's event,
\* which is called in the same round, set it to 2 before the next check.
NodeAnswersQuit ==
    app = "call" /\ "early" \notin fate =>
        /\ main \in {"setup", "wait", "abort"} => loop["def"] # "ended"
        /\ main = "setup" =>
              /\ \A i \in 1 .. Len(sock["def"]) : sock["def"][i] # "INT"
              /\ {"quit", "node"} \cap calls["def"] = {} /\ break_flag["def"] = 0
              /\ "node" \notin map["def"]
        /\ main \in {"wait", "abort"} =>
              /\ "node" \in map["def"] \cup calls["def"] \/ break_flag["def"] = 2
              /\ "quit" \in calls["def"] => "node" \in calls["def"] \/ break_flag["def"] = 2
              /\ break_flag["def"] = 1 => "node" \in calls["def"]

IInv == TypeOK /\ ReadyFull /\ CallsServed /\ MainAndBases /\ NodeAnswersQuit
-----------------------------------------------------------------------------

\* A signal is caught.
LEMMA CatchStep ==
    ASSUME IInv, NEW s \in Numbers, Catch(s)
    PROVE  IInv'
<1>1. TypeOK'
  BY SignalAssumption DEF IInv, TypeOK, Catch, Full
<1>2. ReadyFull'
  <2>1. \A c \in Bases : sock[c] # <<>> => sock'[c] # <<>>
    <3> SUFFICES ASSUME NEW c \in Bases PROVE sock[c] # <<>> => sock'[c] # <<>>
      OBVIOUS
    <3>1. sock[c] \in Seq(Numbers) /\ (sock'[c] = sock[c] \/ sock'[c] = Append(sock[c], s))
      BY DEF IInv, TypeOK, Catch
    <3>2. Append(sock[c], s) # <<>>
      BY <3>1, AppendProperties, ZenonT(40)
    <3> QED BY <3>1, <3>2, Zenon
  <2> QED BY <2>1 DEF IInv, ReadyFull, Catch
<1>3. CallsServed'
  BY DEF IInv, CallsServed, Catch
<1>4. MainAndBases'
  BY DEF IInv, MainAndBases, Catch
<1>5. NodeAnswersQuit'
  BY DEF IInv, NodeAnswersQuit, Bases, Catch
<1> QED BY <1>1, <1>2, <1>3, <1>4, <1>5 DEF IInv

\* The loop looks at break_flag.
LEMMA CheckStep ==
    ASSUME IInv, NEW b \in Bases, Check(b)
    PROVE  IInv'
<1>1. TypeOK'
  BY DEF IInv, TypeOK, Check, LoopGo
<1>2. ReadyFull'
  BY DEF IInv, ReadyFull, Check
<1>3. CallsServed'
  BY DEF IInv, CallsServed, Check, LoopGo
<1>4. MainAndBases'
  BY DEF IInv, MainAndBases, Running, Check, LoopGo
<1>5. NodeAnswersQuit'
  BY DEF IInv, NodeAnswersQuit, CallsServed, Check, LoopGo
<1> QED BY <1>1, <1>2, <1>3, <1>4, <1>5 DEF IInv

\* Select returns.
LEMMA SelectStep ==
    ASSUME IInv, NEW b \in Bases, Select(b)
    PROVE  IInv'
<1>1. TypeOK'
  BY DEF IInv, TypeOK, Select, LoopGo, Readable
<1>2. ReadyFull'
  BY DEF IInv, ReadyFull, TypeOK, Select, Readable
<1>3. CallsServed'
  BY DEF IInv, CallsServed, Select, LoopGo
<1>4. MainAndBases'
  BY DEF IInv, MainAndBases, Running, Select, LoopGo
<1>5. NodeAnswersQuit'
  BY DEF IInv, NodeAnswersQuit, Select, LoopGo
<1> QED BY <1>1, <1>2, <1>3, <1>4, <1>5 DEF IInv

\* A datagram is read.
LEMMA EvsigCbStep ==
    ASSUME IInv, NEW b \in Bases, EvsigCb(b)
    PROVE  IInv'
<1>1. TypeOK'
  BY SignalAssumption DEF IInv, TypeOK, EvsigCb, Found, ReadyFull
<1>2. ReadyFull'
  BY DEF IInv, TypeOK, EvsigCb, ReadyFull
<1>3. CallsServed'
  BY DEF IInv, CallsServed, EvsigCb
<1>4. MainAndBases'
  BY DEF IInv, MainAndBases, EvsigCb
<1>5. NodeAnswersQuit'
  BY SignalAssumption DEF IInv, NodeAnswersQuit, EvsigCb, Found, NumberOf, ReadyFull
<1> QED BY <1>1, <1>2, <1>3, <1>4, <1>5 DEF IInv

\* The notice is read.
LEMMA NotifierCbStep ==
    ASSUME IInv, NEW b \in Bases, NotifierCb(b)
    PROVE  IInv'
<1>1. TypeOK'
  BY DEF IInv, TypeOK, ReadyFull, NotifierCb
<1>2. ReadyFull'
  BY DEF IInv, ReadyFull, TypeOK, NotifierCb
<1>3. CallsServed'
  BY DEF IInv, CallsServed, NotifierCb
<1>4. MainAndBases'
  BY DEF IInv, MainAndBases, NotifierCb
<1>5. NodeAnswersQuit'
  BY DEF IInv, NodeAnswersQuit, NotifierCb
<1> QED BY <1>1, <1>2, <1>3, <1>4, <1>5 DEF IInv

\* A round ends.
LEMMA RoundEndsStep ==
    ASSUME IInv, NEW b \in Bases, RoundEnds(b)
    PROVE  IInv'
<1>1. TypeOK'
  BY DEF IInv, TypeOK, RoundEnds, LoopGo
<1>2. ReadyFull'
  BY DEF IInv, ReadyFull, RoundEnds
<1>3. CallsServed'
  BY DEF IInv, CallsServed, RoundEnds, LoopGo
<1>4. MainAndBases'
  BY DEF IInv, MainAndBases, Running, RoundEnds, LoopGo
<1>5. NodeAnswersQuit'
  BY DEF IInv, NodeAnswersQuit, RoundEnds, LoopGo
<1> QED BY <1>1, <1>2, <1>3, <1>4, <1>5 DEF IInv

\* The quit event is called.
LEMMA QuitCbStep ==
    ASSUME IInv, NEW b \in Bases, QuitCb(b)
    PROVE  IInv'
<1>1. TypeOK'
  BY DEF IInv, TypeOK, Bases, QuitCb, SetFlag, Called, EvsigDel
<1>2. ReadyFull'
  BY DEF IInv, ReadyFull, QuitCb
<1>3. CallsServed'
  BY DEF IInv, CallsServed, QuitCb, Called
<1>4. MainAndBases'
  BY DEF IInv, MainAndBases, QuitCb
<1>5. NodeAnswersQuit'
  BY DEF IInv, NodeAnswersQuit, Bases, MainAndBases, Running, QuitCb, Called
<1> QED BY <1>1, <1>2, <1>3, <1>4, <1>5 DEF IInv

\* The node's event is called.
LEMMA NodeCbStep ==
    ASSUME IInv, NEW b \in Bases, NodeCb(b)
    PROVE  IInv'
<1>1. TypeOK'
  BY DEF IInv, TypeOK, NodeCb, LoopGo
<1>2. ReadyFull'
  BY DEF IInv, ReadyFull, NodeCb
<1>3. CallsServed'
  BY DEF IInv, CallsServed, NodeCb, LoopGo
<1>4. MainAndBases'
  BY DEF IInv, MainAndBases, Running, NodeCb, LoopGo
<1>5. NodeAnswersQuit'
  BY DEF IInv, NodeAnswersQuit, NodeCb, LoopGo
<1> QED BY <1>1, <1>2, <1>3, <1>4, <1>5 DEF IInv

\* The node's event sets break_flag.
LEMMA NodeCbFlagStep ==
    ASSUME IInv, NEW b \in Bases, NodeCbFlag(b)
    PROVE  IInv'
<1>1. TypeOK'
  BY DEF IInv, TypeOK, NodeCbFlag, LoopGo, SetFlag, Called
<1>2. ReadyFull'
  BY DEF IInv, ReadyFull, NodeCbFlag
<1>3. CallsServed'
  BY DEF IInv, CallsServed, TypeOK, NodeCbFlag, LoopGo, Called
<1>4. MainAndBases'
  BY DEF IInv, MainAndBases, Running, NodeCbFlag, LoopGo
<1>5. NodeAnswersQuit'
  BY DEF IInv, NodeAnswersQuit, TypeOK, CallsServed, NodeCbFlag, LoopGo, SetFlag, Called
<1> QED BY <1>1, <1>2, <1>3, <1>4, <1>5 DEF IInv

\* A user's event is called.
LEMMA UserCbStep ==
    ASSUME IInv, NEW b \in Bases, NEW e \in Users, UserCb(b, e)
    PROVE  IInv'
<1>1. TypeOK'
  BY DEF IInv, TypeOK, Bases, UserCb, Called, EvsigDel
<1>2. ReadyFull'
  BY DEF IInv, ReadyFull, UserCb
<1>3. CallsServed'
  BY DEF IInv, CallsServed, UserCb, Called
<1>4. MainAndBases'
  BY DEF IInv, MainAndBases, UserCb
<1>5. NodeAnswersQuit'
  BY SignalAssumption DEF IInv, NodeAnswersQuit, TypeOK, MainAndBases, UserCb, Called, EvsigDel, Alike, NumberOf
<1> QED BY <1>1, <1>2, <1>3, <1>4, <1>5 DEF IInv

\* A callback of the bus.
LEMMA BusCbStep ==
    ASSUME IInv, BusCb
    PROVE  IInv'
<1>1. TypeOK'
  BY DEF IInv, TypeOK, BusCb, LoopGo
<1>2. ReadyFull'
  BY DEF IInv, ReadyFull, BusCb
<1>3. CallsServed'
  BY DEF IInv, CallsServed, TypeOK, BusCb, LoopGo
<1>4. MainAndBases'
  BY DEF IInv, MainAndBases, TypeOK, Bases, BusCb, LoopGo
<1>5. NodeAnswersQuit'
  BY DEF IInv, NodeAnswersQuit, TypeOK, BusCb, LoopGo
<1> QED BY <1>1, <1>2, <1>3, <1>4, <1>5 DEF IInv

\* A user's event is added.
LEMMA AddUserStep ==
    ASSUME IInv, NEW e \in Users, AddUser(e)
    PROVE  IInv'
<1>1. TypeOK'
  BY DEF IInv, TypeOK, Events, AddUser
<1>2. ReadyFull'
  BY DEF IInv, ReadyFull, AddUser
<1>3. CallsServed'
  BY DEF IInv, CallsServed, AddUser
<1>4. MainAndBases'
  BY DEF IInv, MainAndBases, AddUser
<1>5. NodeAnswersQuit'
  BY DEF NodeAnswersQuit, AddUser
<1> QED BY <1>1, <1>2, <1>3, <1>4, <1>5 DEF IInv

\* A user's event is deleted.
LEMMA DelUserStep ==
    ASSUME IInv, NEW e \in Users, DelUser(e)
    PROVE  IInv'
<1>1. TypeOK'
  <2>1. map' \in [Bases -> SUBSET Events]
    <3>1. map \in [Bases -> SUBSET Events]
      BY DEF IInv, TypeOK
    <3>2. map' = map \/ \E x : map' = [map EXCEPT !["def"] = @ \ {x}]
      BY DEF DelUser, EvsigDel
    <3> HIDE DEF Events
    <3> QED BY <3>1, <3>2
  <2> QED BY <2>1 DEF IInv, TypeOK, DelUser
<1>2. ReadyFull'
  BY DEF IInv, ReadyFull, DelUser
<1>3. CallsServed'
  BY DEF IInv, CallsServed, DelUser
<1>4. MainAndBases'
  BY DEF IInv, MainAndBases, DelUser
<1>5. NodeAnswersQuit'
  BY SignalAssumption DEF IInv, NodeAnswersQuit, TypeOK, DelUser, EvsigDel, Alike, NumberOf
<1> QED BY <1>1, <1>2, <1>3, <1>4, <1>5 DEF IInv

\* The node adds its event.
LEMMA AddNodeStep ==
    ASSUME IInv, AddNode
    PROVE  IInv'
<1>1. TypeOK'
  BY DEF IInv, TypeOK, Mains, Events, AddNode, MainGo
<1>2. ReadyFull'
  BY DEF IInv, ReadyFull, AddNode, MainGo
<1>3. CallsServed'
  BY DEF IInv, CallsServed, AddNode
<1>4. MainAndBases'
  BY DEF IInv, MainAndBases, AddNode, MainGo
<1>5. NodeAnswersQuit'
  BY DEF IInv, NodeAnswersQuit, TypeOK, MainAndBases, AddNode, MainGo
<1> QED BY <1>1, <1>2, <1>3, <1>4, <1>5 DEF IInv

\* The base is on the list.
LEMMA NewBaseStep ==
    ASSUME IInv, NewBase
    PROVE  IInv'
<1>1. TypeOK'
  BY DEF IInv, TypeOK, Mains, Bases, NewBase, MainGo
<1>2. ReadyFull'
  BY DEF IInv, ReadyFull, NewBase, MainGo
<1>3. CallsServed'
  BY DEF IInv, CallsServed, NewBase
<1>4. MainAndBases'
  BY DEF IInv, MainAndBases, NewBase, MainGo
<1>5. NodeAnswersQuit'
  BY DEF NodeAnswersQuit, NewBase
<1> QED BY <1>1, <1>2, <1>3, <1>4, <1>5 DEF IInv

\* The base has its socket pair.
LEMMA InitBaseStep ==
    ASSUME IInv, InitBase
    PROVE  IInv'
<1>1. TypeOK'
  BY DEF IInv, TypeOK, Mains, Bases, Events, InitBase, MainGo, LoopGo
<1>2. ReadyFull'
  BY DEF IInv, ReadyFull, InitBase, MainGo
<1>3. CallsServed'
  BY DEF IInv, CallsServed, MainAndBases, Running, InitBase, MainGo, LoopGo
<1>4. MainAndBases'
  BY DEF IInv, MainAndBases, InitBase, MainGo, LoopGo
<1>5. NodeAnswersQuit'
  BY DEF IInv, NodeAnswersQuit, MainAndBases, InitBase, MainGo
<1> QED BY <1>1, <1>2, <1>3, <1>4, <1>5 DEF IInv

\* The main thread goes on.
LEMMA WaitedStep ==
    ASSUME IInv, Waited
    PROVE  IInv'
<1>1. TypeOK'
  BY DEF IInv, TypeOK, Mains, Waited, MainGo
<1>2. ReadyFull'
  BY DEF IInv, ReadyFull, Waited, MainGo
<1>3. CallsServed'
  BY DEF IInv, CallsServed, Waited
<1>4. MainAndBases'
  BY DEF IInv, MainAndBases, Running, Waited, MainGo
<1>5. NodeAnswersQuit'
  BY DEF IInv, NodeAnswersQuit, Waited, MainGo
<1> QED BY <1>1, <1>2, <1>3, <1>4, <1>5 DEF IInv

\* The command is aborted.
LEMMA AbortStep ==
    ASSUME IInv, Abort
    PROVE  IInv'
<1>1. TypeOK'
  BY DEF IInv, TypeOK, Mains, Bases, Abort, MainGo, SetFlag
<1>2. ReadyFull'
  BY DEF IInv, ReadyFull, Abort, MainGo
<1>3. CallsServed'
  BY DEF IInv, CallsServed, Abort
<1>4. MainAndBases'
  BY DEF IInv, MainAndBases, Abort, MainGo
<1>5. NodeAnswersQuit'
  BY DEF NodeAnswersQuit, Abort, MainGo
<1> QED BY <1>1, <1>2, <1>3, <1>4, <1>5 DEF IInv

\* The node is destroyed.
LEMMA DestroyNodeStep ==
    ASSUME IInv, DestroyNode
    PROVE  IInv'
<1>1. TypeOK'
  BY DEF IInv, TypeOK, Mains, DestroyNode, MainGo
<1>2. ReadyFull'
  BY DEF IInv, ReadyFull, DestroyNode, MainGo
<1>3. CallsServed'
  BY DEF IInv, CallsServed, DestroyNode
<1>4. MainAndBases'
  BY DEF IInv, MainAndBases, DestroyNode, MainGo
<1>5. NodeAnswersQuit'
  BY DEF NodeAnswersQuit, DestroyNode, MainGo
<1> QED BY <1>1, <1>2, <1>3, <1>4, <1>5 DEF IInv

\* Stop sets break_flag.
LEMMA StopFlagStep ==
    ASSUME IInv, StopFlag
    PROVE  IInv'
<1>1. TypeOK'
  BY DEF IInv, TypeOK, Mains, Bases, StopFlag, MainGo, SetFlag
<1>2. ReadyFull'
  BY DEF IInv, ReadyFull, StopFlag, MainGo
<1>3. CallsServed'
  BY DEF IInv, CallsServed, StopFlag
<1>4. MainAndBases'
  BY DEF IInv, MainAndBases, StopFlag, MainGo
<1>5. NodeAnswersQuit'
  BY DEF NodeAnswersQuit, StopFlag, MainGo
<1> QED BY <1>1, <1>2, <1>3, <1>4, <1>5 DEF IInv

\* Stop wakes the loop.
LEMMA StopSendStep ==
    ASSUME IInv, StopSend
    PROVE  IInv'
<1>1. TypeOK'
  BY DEF IInv, TypeOK, Mains, ReadyFull, StopSend, MainGo
<1>2. ReadyFull'
  BY DEF IInv, ReadyFull, StopSend, MainGo
<1>3. CallsServed'
  BY DEF IInv, CallsServed, StopSend
<1>4. MainAndBases'
  BY DEF IInv, MainAndBases, StopSend, MainGo
<1>5. NodeAnswersQuit'
  BY DEF NodeAnswersQuit, StopSend, MainGo
<1> QED BY <1>1, <1>2, <1>3, <1>4, <1>5 DEF IInv

\* The loop has ended.
LEMMA JoinStep ==
    ASSUME IInv, Join
    PROVE  IInv'
<1>1. TypeOK'
  BY DEF IInv, TypeOK, Mains, Join, MainGo
<1>2. ReadyFull'
  BY DEF IInv, ReadyFull, Join, MainGo
<1>3. CallsServed'
  BY DEF IInv, CallsServed, Join
<1>4. MainAndBases'
  BY DEF IInv, MainAndBases, Join, MainGo
<1>5. NodeAnswersQuit'
  BY DEF NodeAnswersQuit, Join, MainGo
<1> QED BY <1>1, <1>2, <1>3, <1>4, <1>5 DEF IInv

\* The own base loses its socket pair.
LEMMA ReleaseOwnStep ==
    ASSUME IInv, Release("own", "release_own", "unlist_own")
    PROVE  IInv'
<1>1. TypeOK'
  BY DEF IInv, TypeOK, Mains, Release, MainGo
<1>2. ReadyFull'
  BY DEF IInv, ReadyFull, Release, MainGo
<1>3. CallsServed'
  BY DEF IInv, CallsServed, Release
<1>4. MainAndBases'
  BY DEF IInv, MainAndBases, Release, MainGo
<1>5. NodeAnswersQuit'
  BY DEF NodeAnswersQuit, Release, MainGo
<1> QED BY <1>1, <1>2, <1>3, <1>4, <1>5 DEF IInv

\* The own base leaves the list.
LEMMA UnlistOwnStep ==
    ASSUME IInv, Unlist("own", "unlist_own", "stop")
    PROVE  IInv'
<1>1. TypeOK'
  BY DEF IInv, TypeOK, Mains, Unlist, MainGo
<1>2. ReadyFull'
  BY DEF IInv, ReadyFull, Unlist, MainGo
<1>3. CallsServed'
  BY DEF IInv, CallsServed, Unlist
<1>4. MainAndBases'
  BY DEF IInv, MainAndBases, Unlist, MainGo
<1>5. NodeAnswersQuit'
  BY DEF NodeAnswersQuit, Unlist, MainGo
<1> QED BY <1>1, <1>2, <1>3, <1>4, <1>5 DEF IInv

\* The default base loses its socket pair.
LEMMA ReleaseDefStep ==
    ASSUME IInv, Release("def", "release_def", "unlist_def")
    PROVE  IInv'
<1>1. TypeOK'
  BY DEF IInv, TypeOK, Mains, Release, MainGo
<1>2. ReadyFull'
  BY DEF IInv, ReadyFull, Release, MainGo
<1>3. CallsServed'
  BY DEF IInv, CallsServed, Release
<1>4. MainAndBases'
  BY DEF IInv, MainAndBases, Release, MainGo
<1>5. NodeAnswersQuit'
  BY DEF NodeAnswersQuit, Release, MainGo
<1> QED BY <1>1, <1>2, <1>3, <1>4, <1>5 DEF IInv

\* The default base leaves the list.
LEMMA UnlistDefStep ==
    ASSUME IInv, Unlist("def", "unlist_def", "done")
    PROVE  IInv'
<1>1. TypeOK'
  BY DEF IInv, TypeOK, Mains, Unlist, MainGo
<1>2. ReadyFull'
  BY DEF IInv, ReadyFull, Unlist, MainGo
<1>3. CallsServed'
  BY DEF IInv, CallsServed, Unlist
<1>4. MainAndBases'
  BY DEF IInv, MainAndBases, Unlist, MainGo
<1>5. NodeAnswersQuit'
  BY DEF NodeAnswersQuit, Unlist, MainGo
<1> QED BY <1>1, <1>2, <1>3, <1>4, <1>5 DEF IInv

\* Every step keeps the inductive invariant.
LEMMA StepKeeps == IInv /\ [Next]_vars => IInv'
<1> SUFFICES ASSUME IInv, [Next]_vars PROVE IInv'
  OBVIOUS
<1>1. CASE \E s \in Numbers : Catch(s)
  BY <1>1, CatchStep
<1>2. CASE \E b \in Bases : LoopStep(b)
  <2> PICK b \in Bases : LoopStep(b)
    BY <1>2
  <2> QED BY CheckStep, SelectStep, EvsigCbStep, NotifierCbStep, RoundEndsStep, QuitCbStep,
             NodeCbStep, NodeCbFlagStep, UserCbStep DEF LoopStep
<1>3. CASE BusCb
  BY <1>3, BusCbStep
<1>4. CASE \E e \in Users : AddUser(e) \/ DelUser(e)
  BY <1>4, AddUserStep, DelUserStep
<1>5. CASE MainStep
  BY <1>5, AddNodeStep, NewBaseStep, InitBaseStep, WaitedStep, AbortStep, DestroyNodeStep,
     StopFlagStep, StopSendStep, JoinStep, ReleaseOwnStep, UnlistOwnStep, ReleaseDefStep,
     UnlistDefStep DEF MainStep
<1>6. CASE UNCHANGED vars
  BY <1>6 DEF vars, IInv, TypeOK, ReadyFull, CallsServed, MainAndBases, NodeAnswersQuit
<1> QED BY <1>1, <1>2, <1>3, <1>4, <1>5, <1>6 DEF Next

\* The default producer runs and no signal came yet.
LEMMA InitHolds == Init => IInv
<1> SUFFICES ASSUME Init PROVE IInv
  OBVIOUS
<1>1. TypeOK
  <2>1. \A b \in Bases : sock[b] \in Seq(Numbers) /\ Len(sock[b]) = 0
    BY DEF Init
  <2>2. sock \in [Bases -> Seq(Numbers)] /\ \A b \in Bases : Len(sock[b]) <= SocketRoom
    BY SignalAssumption DEF Init
  <2>3. calls \in [Bases -> SUBSET Events] /\ map \in [Bases -> SUBSET Events]
    BY DEF Init, Events
  <2>4. /\ loop \in [Bases -> {"none", "check", "select", "serve", "node_cb", "ended"}]
        /\ ready \in [Bases -> SUBSET {"signal", "notifier"}]
        /\ break_flag \in [Bases -> 0 .. 2]
    BY DEF Init
  <2>5. app \in Apps /\ main \in Mains /\ notices \in 0 .. 1 /\ signals \in 0 .. MaxSignals
    BY SignalAssumption DEF Init, Mains
  <2> QED BY <2>2, <2>3, <2>4, <2>5 DEF Init, TypeOK, Bases
<1>2. ReadyFull /\ CallsServed
  BY DEF Init, ReadyFull, CallsServed
<1>3. MainAndBases
  BY DEF Init, MainAndBases, Bases, Running
<1>4. NodeAnswersQuit
  BY DEF Init, NodeAnswersQuit, Bases
<1> QED BY <1>1, <1>2, <1>3, <1>4 DEF IInv

\* The process is taken down in order: a base whose loop runs is on the list
\* and has its socket pair, so that neither signal_handler nor evsig_cb meets
\* a base that is gone, and the event thread does not end while the command
\* is being aborted over it, unless a SIGINT came before the node's event.
THEOREM ShutdownIsOrdered == Spec => []ShutdownInOrder
<1>1. IInv => ShutdownInOrder
  <2> SUFFICES ASSUME IInv PROVE ShutdownInOrder
    OBVIOUS
  <2>1. \A b \in Bases : loop[b] \in Running => b \in listed \cap sender
    BY DEF IInv, MainAndBases, Running, Bases
  <2>2. main = "abort" /\ "early" \notin fate => loop["def"] # "ended"
    BY DEF IInv, MainAndBases, NodeAnswersQuit
  <2> QED BY <2>1, <2>2 DEF IInv, ShutdownInOrder, Running
<1> QED BY InitHolds, StepKeeps, <1>1, PTL DEF Spec
=============================================================================
