---------------------------- MODULE OrderedMap ----------------------------
(***************************************************************************)
(* What the red-black tree map promises to its users (the descriptor and   *)
(* signal tables of the event base, the timer, the registries of the bus): *)
(* a sequence of entries ordered by key. Equal keys are kept, the newest   *)
(* first; a search, and so a removal, meets some entry with the key.       *)
(***************************************************************************)
EXTENDS Integers, Sequences, FiniteSets, SequencesExt

CONSTANTS Entry, KeyOf(_)

VARIABLE seq

\* Where an entry with key k goes: before the first that is not smaller.
Place(s, k) == 1 + Cardinality({i \in DOMAIN s : KeyOf(s[i]) < k})

Matches(s, k) == {i \in DOMAIN s : KeyOf(s[i]) = k}

Init == seq = <<>>

Add(e) == e \notin ToSet(seq) /\ seq' = InsertAt(seq, Place(seq, KeyOf(e)), e)

Del(k) == \E i \in Matches(seq, k) : seq' = RemoveAt(seq, i)

Reset == seq' = <<>>

Next == (\E e \in Entry : Add(e) \/ Del(KeyOf(e))) \/ Reset

Spec == Init /\ [][Next]_seq
=============================================================================
