---------------------------- MODULE EventTimers ----------------------------
(***************************************************************************)
(* The ordered tables of an event base. In mode "map" the red-black tree   *)
(* is used as the descriptor and signal tables use it (RBTree alone). In   *)
(* mode "timer" it is the tree of Rbtree_Timer.c, driven by Event_Base.c:  *)
(* events are armed and deleted by other threads while the loop waits for  *)
(* the first deadline, calls back and arms again.                          *)
(*                                                                         *)
(* The tree keeps pointers to the events' ev_timeout, so a key changes     *)
(* with its event. Time is relative: due[e] is ev_timeout minus now. One   *)
(* operation on the tree is one step, although the tree has no lock.       *)
(***************************************************************************)
EXTENDS RBTree

CONSTANTS
    MaxLag,   \* how late a callback may be before time waits for the loop
    Setups    \* see SetupOK

\* The mode; the events (numbers of Key) and their ev_tv, 0 = no timeout; which
\* are not EV_PERSIST; which have a descriptor as well; which are deleted and
\* how often an event is added.
SetupOK(s) ==
    /\ s.mode \in {"map", "timer"}
    /\ s.events \subseteq Key /\ s.tv \in [Key -> Nat]
    /\ s.once \subseteq s.events /\ s.io \subseteq s.events
    /\ s.deletes \subseteq s.events /\ s.adds \in Nat

ASSUME TimersAssumption == MaxLag \in Nat /\ \A s \in Setups : SetupOK(s)

VARIABLES
    due,     \* ev_timeout of each event, from now
    added,   \* events added to the event base
    adds,    \* calls of add so far
    pc,      \* the loop: "select", "first", "io" or "timeout" (in a callback
             \* from either), or "wild", see DelTimer
    cur,     \* the event whose callback runs, or whose deletion went wild
    clash,   \* history: two events had the same deadline, see Meets
    spent,   \* one-shot events that were called at their deadline and not
             \* added again
    setup    \* the arrangement of this behaviour

timerVars == <<due, added, adds, pc, cur, clash, spent>>
vars      == <<mapVars, timerVars, setup>>

\* The keys as the tree sees them.
Keys(d) == [n \in Node |-> d[n[1]]]
Armed   == {n[1] : n \in Members}

\* Mutant: an event that is in the event base is not armed again.
AddTimerOnce(m, e, d) ==
    IF setup.tv[e] = 0 \/ e \in added THEN {m}
    ELSE {Inserted(m, n, Keys(d)) : n \in Fresh(m, e)}

\* Rbtree_Timer add: nothing for an event without a timeout.
AddTimer(m, e, d) ==
    IF setup.tv[e] = 0 THEN {m} ELSE {Inserted(m, n, Keys(d)) : n \in Fresh(m, e)}

Called(e) == pc \in {"io", "timeout"} /\ cur = e

\* The deadline of e is that of an event in the tree, or of the event whose
\* callback runs: the loop will search for that one, in the tree or not.
Meets(m, e, d) ==
    \/ \E n \in ToSet(InOrder(m.tree, m.tree.root)) : d[n[1]] = d[e]
    \/ \E f \in Key \ {e} : Called(f) /\ d[f] = d[e]

\* Rbtree_Timer del and remove: delete what the search for the deadline meets.
\* When it meets nothing the position is uninitialised and so is what happens.
Found(m, e) == Search(m.tree, m.tree.root, due[e], Keys(due))
DelNothing(m, e) == m   \* Mutant.
DelTimer(m, e) == IF setup.tv[e] = 0 THEN m ELSE Removed(m, Found(m, e))
Wild(e) == setup.tv[e] # 0 /\ Found(Map, e) = Nil

\* The event e, already removed, gets a new deadline in the map m.
Arm(m, e) ==
    LET d == [due EXCEPT ![e] = setup.tv[e]]
    IN /\ due' = d
       /\ \E a \in AddTimer(m, e, d) : Becomes(a)
       /\ clash' = (clash \/ (setup.tv[e] # 0 /\ Meets(m, e, d)))

Crash(e) ==
    /\ pc' = "wild" /\ cur' = e
    /\ UNCHANGED <<mapVars, due, added, adds, clash, spent, setup>>

-----------------------------------------------------------------------------
\* Event_Base add, by another thread or in a callback.
AddEvent(e) ==
    /\ e \in setup.events \ added /\ adds < setup.adds /\ pc # "wild"
    /\ adds' = adds + 1
    /\ added' = added \cup {e}
    /\ spent' = spent \ {e}
    /\ Arm(Map, e)
    /\ UNCHANGED <<pc, cur, setup>>

\* Event_Base del, by another thread or in a callback, also the event's own. A
\* spent event still has the deadline at which it was called, and so the timer
\* is searched for it.
DelEvent(e) ==
    /\ e \in added \cap setup.deletes /\ pc # "wild"
    /\ IF Wild(e) THEN Crash(e)
       ELSE /\ Becomes(DelTimer(Map, e))
            /\ added' = added \ {e}
            /\ UNCHANGED <<due, adds, pc, cur, clash, spent, setup>>

\* The loop: timeout_next, select until the first deadline, then
\* process_timeout_events looks at the first event, one in a round.
SelectTimeout ==
    /\ pc = "select" /\ begin # Nil /\ due[begin[1]] <= 0
    /\ pc' = "first"
    /\ UNCHANGED <<mapVars, due, added, adds, cur, clash, spent, setup>>

First ==
    /\ pc = "first"
    /\ IF begin # Nil /\ due[begin[1]] <= 0
       THEN pc' = "timeout" /\ cur' = begin[1]
       ELSE pc' = "select" /\ UNCHANGED cur
    /\ UNCHANGED <<mapVars, due, added, adds, clash, spent, setup>>

\* activate_io: the descriptor of e is ready. One in a round here.
ActivateIo(e) ==
    /\ pc = "select" /\ e \in added \cap setup.io
    /\ pc' = "io" /\ cur' = e
    /\ UNCHANGED <<mapVars, due, added, adds, clash, spent, setup>>

\* After the callback: a persistent event is armed again, another deleted,
\* after a timeout only from the timer. Either is searched for, whatever the
\* callback has done. activate_io goes on to the timeouts.
AfterCallback ==
    /\ pc \in {"io", "timeout"}
    /\ IF Wild(cur) THEN Crash(cur)
       ELSE /\ pc' = IF pc = "io" THEN "first" ELSE "select"
            /\ \/ /\ cur \notin setup.once
                  /\ Arm(DelTimer(Map, cur), cur)
                  /\ UNCHANGED <<added, adds, cur, spent, setup>>
               \/ /\ cur \in setup.once
                  /\ Becomes(DelTimer(Map, cur))
                  /\ IF pc = "io"
                     THEN added' = added \ {cur} /\ UNCHANGED spent
                     ELSE spent' = spent \cup {cur} /\ UNCHANGED added
                  /\ UNCHANGED <<due, adds, cur, clash, setup>>

\* Time passes, as long as the loop keeps up.
Tick ==
    /\ setup.mode = "timer" /\ Armed # {}
    /\ \A e \in Armed : due[e] > -MaxLag
    /\ due' = [e \in Key |-> IF due[e] < -MaxLag THEN due[e] ELSE due[e] - 1]
    /\ UNCHANGED <<mapVars, added, adds, pc, cur, clash, spent, setup>>

-----------------------------------------------------------------------------
Init ==
    /\ setup \in Setups
    /\ EmptyMap
    /\ due = [e \in Key |-> 0]
    /\ added = {} /\ adds = 0 /\ pc = "select" /\ cur = 0 /\ clash = FALSE /\ spent = {}

UseMap == setup.mode = "map" /\ MapNext /\ UNCHANGED <<timerVars, setup>>
Loop   == SelectTimeout \/ First \/ AfterCallback
Next ==
    \/ UseMap
    \/ setup.mode = "timer" /\ (Loop \/ Tick \/ \E e \in Key : AddEvent(e) \/ DelEvent(e) \/ ActivateIo(e))

Spec == Init /\ [][Next]_vars

\* The loop goes on whenever it has something to do, and so does the clock.
LoopReady == setup.mode = "timer" /\ (ENABLED SelectTimeout \/ pc \in {"first", "io", "timeout"})
FairSpec ==
    /\ Spec
    /\ WF_pc(LoopReady /\ pc' \in {"select", "first", "io", "timeout", "wild"})
    /\ WF_due(Tick)

-----------------------------------------------------------------------------
\* Type invariant: the tree's links are nodes, and the loop is at a statement.
TypeOK ==
    /\ MapTypeOK
    /\ due \in [Key -> Int] /\ added \subseteq Key /\ adds \in 0..setup.adds
    /\ pc \in {"select", "first", "io", "timeout", "wild"} /\ cur \in Key \cup {0}
    /\ clash \in BOOLEAN /\ spent \subseteq setup.once

\* The tree implements the ordered map.
NodeKey(n) == n[1]
MapEntries == IF setup.mode = "map" THEN Entries ELSE <<>>
Abstract   == INSTANCE OrderedMap WITH Entry <- Node, KeyOf <- NodeKey, seq <- MapEntries
RefinesOrderedMap == Abstract!Spec

\* In a table with equal keys search_all_same_key delivers every entry with the
\* key, and each once, also after rotations have moved equal keys to the right
\* of each other.
SameKeysFound ==
    setup.mode = "map" =>
        \A k \in Key :
            LET found == AllSame(tree, tree.root, k)
            IN /\ ToSet(found) = {n \in Members : n[1] = k}
               /\ Len(found) = Cardinality(ToSet(found))

\* The tree is a balanced red-black tree, what is cached about it is exact, and
\* searches for equal keys are complete, after any insertions and deletions;
\* types included.
MapSound == TypeOK /\ Balanced /\ CachesExact /\ SameKeysFound

\* Every event with a timeout that was added is in the timer's tree once until
\* it is deleted or, when it is one-shot, was called; the first node is an
\* earliest deadline; a deletion goes through an uninitialised position only if
\* it is that of a one-shot event called before, or the loop's own after a
\* callback that deleted its event. Unless two deadlines were equal.
Timed == {e \in added : setup.tv[e] # 0}
ArmedOnce ==
    setup.mode = "timer" /\ ~clash =>
        /\ Armed = Timed \ spent
        /\ Len(Entries) = Cardinality(Armed)
        /\ \A e \in Armed : due[begin[1]] <= due[e]
        /\ pc = "wild" => cur \in spent \/ cur \notin added

\* A periodic event is called again and again until it is deleted, unless two
\* deadlines were equal (its node may then have been removed for another's) or
\* a deletion went through an uninitialised position (see ArmedOnce).
Periodic(e) == e \in Timed \ setup.once
FiresUnlessClash ==
    \A e \in Key : Periodic(e) ~> (Called(e) \/ e \notin added \/ clash \/ pc = "wild")
=============================================================================
