------------------------------ MODULE RBTree ------------------------------
(***************************************************************************)
(* The red-black tree map of src/core: rbtree.c (rotations and recolouring) *)
(* below rbtree_map.c (search, insert, delete, the cached begin) below     *)
(* RBTree_Map.c (search of all equal keys) and Map.c (reset).              *)
(*                                                                         *)
(* A node is <<k, copy>>; K gives its key, k unless a user of the tree     *)
(* says otherwise. The two mirrored halves of each rebalancing loop are    *)
(* one operator with the side as a parameter.                              *)
(***************************************************************************)
EXTENDS Integers, Sequences, FiniteSets, SequencesExt

CONSTANTS MaxKey, Copies

VARIABLES
    tree,    \* the nodes: root, children, parents and the red ones
    begin,   \* map->begin
    count    \* map->count

mapVars == <<tree, begin, count>>

Key    == 1..MaxKey
Node   == Key \X (1..Copies)
Side   == {"l", "r"}
Mirror(d) == IF d = "l" THEN "r" ELSE "l"
Nil    == <<0, 0>>   \* NULL
Blank  == [l |-> Nil, r |-> Nil, p |-> Nil]
NoTree == [root |-> Nil, at |-> [n \in Node |-> Blank], red |-> {}]

-----------------------------------------------------------------------------
(* rbtree.c                                                                *)

Kid(t, n, d) == t.at[n][d]
Parent(t, n) == t.at[n].p
IsRed(t, n)  == n \in t.red
SetRed(t, n)   == [t EXCEPT !.red = @ \cup {n}]
SetBlack(t, n) == [t EXCEPT !.red = @ \ {n}]
SetColor(t, n, m) == IF IsRed(t, m) THEN SetRed(t, n) ELSE SetBlack(t, n)

\* n takes the place of old below the parent p, or at the root.
Hang(t, p, old, n) ==
    IF p = Nil THEN [t EXCEPT !.root = n]
    ELSE [t EXCEPT !.at[p][IF t.at[p].l = old THEN "l" ELSE "r"] = n]
SetParent(t, n, p) == IF n = Nil THEN t ELSE [t EXCEPT !.at[n].p = p]

\* __rb_rotate_left for d = "l", __rb_rotate_right for d = "r".
Rotate(t, n, d) ==
    LET up    == Kid(t, n, Mirror(d))
        inner == Kid(t, up, d)
        t1 == SetParent([t EXCEPT !.at[n][Mirror(d)] = inner], inner, n)
        t2 == [t1 EXCEPT !.at[up][d] = n, !.at[up].p = Parent(t, n)]
    IN SetParent(Hang(t2, Parent(t, n), n, up), n, up)

\* Mutant: the first rotation of a bent path is left out.
StraightenOnce(t, n, par, gpar, d) ==
    Rotate(SetRed(SetBlack(t, par), gpar), gpar, Mirror(d))

\* One turn of the loop of rb_insert_color where the uncle is not red: two
\* rotations at most, after which the loop ends.
Straighten(t, n, par, gpar, d) ==
    LET bent == Kid(t, par, Mirror(d)) = n
        t1   == IF bent THEN Rotate(t, par, d) ELSE t
        top  == IF bent THEN n ELSE par
    IN Rotate(SetRed(SetBlack(t1, top), gpar), gpar, Mirror(d))

RECURSIVE InsertColor(_, _)
InsertColor(t, n) ==
    LET par   == Parent(t, n)
        gpar  == Parent(t, par)
        d     == IF Kid(t, gpar, "l") = par THEN "l" ELSE "r"
        uncle == Kid(t, gpar, Mirror(d))
    IN IF par = Nil \/ ~IsRed(t, par) THEN SetBlack(t, t.root)
       ELSE IF IsRed(t, uncle)
            THEN InsertColor(SetRed(SetBlack(SetBlack(t, uncle), par), gpar), gpar)
            ELSE LET s == Straighten(t, n, par, gpar, d) IN SetBlack(s, s.root)

\* __rb_erase_color: the side of par where n hangs is one black short.
RECURSIVE EraseColor(_, _, _)
EraseColor(t, n, par) ==
    IF IsRed(t, n) \/ n = t.root THEN SetBlack(t, n)
    ELSE
    LET d   == IF Kid(t, par, "l") = n THEN "l" ELSE "r"
        far == Mirror(d)
        o0  == Kid(t, par, far)
        t1  == IF IsRed(t, o0) THEN Rotate(SetRed(SetBlack(t, o0), par), par, d) ELSE t
        o1  == Kid(t1, par, far)
        near == ~IsRed(t1, Kid(t1, o1, far))
        t2  == IF near THEN Rotate(SetRed(SetBlack(t1, Kid(t1, o1, d)), o1), o1, far) ELSE t1
        o2  == Kid(t2, par, far)
        t3  == SetBlack(SetBlack(SetColor(t2, o2, par), par), Kid(t2, o2, far))
        t4  == Rotate(t3, par, d)
    IN IF ~IsRed(t1, Kid(t1, o1, "l")) /\ ~IsRed(t1, Kid(t1, o1, "r"))
       THEN EraseColor(SetRed(t1, o1), par, Parent(t1, par))
       ELSE SetBlack(t4, t4.root)

RECURSIVE Leftmost(_, _)
Leftmost(t, n) == IF n = Nil \/ Kid(t, n, "l") = Nil THEN n ELSE Leftmost(t, Kid(t, n, "l"))

\* rb_next: down to the right, or up past every right child.
RECURSIVE UpPast(_, _)
UpPast(t, n) ==
    LET p == Parent(t, n) IN IF p # Nil /\ Kid(t, p, "r") = n THEN UpPast(t, p) ELSE p
RbNext(t, n) == IF Kid(t, n, "r") # Nil THEN Leftmost(t, Kid(t, n, "r")) ELSE UpPast(t, n)

\* The freed node leaves the memory.
Forget(t, n) == [t EXCEPT !.at[n] = Blank, !.red = @ \ {n}]

\* rb_erase of a node with at most one child.
EraseSingle(t, n) ==
    LET child == IF Kid(t, n, "l") = Nil THEN Kid(t, n, "r") ELSE Kid(t, n, "l")
        par   == Parent(t, n)
        t1    == Hang(SetParent(t, child, par), par, n, child)
    IN IF IsRed(t, n) THEN t1 ELSE EraseColor(t1, child, par)

\* rb_erase of a node with two: its successor s takes its place and colour.
EraseDouble(t, n) ==
    LET s     == Leftmost(t, Kid(t, n, "r"))
        child == Kid(t, s, "r")
        par   == IF Parent(t, s) = n THEN s ELSE Parent(t, s)
        t1    == Hang(t, Parent(t, n), n, s)
        t2    == IF par = s THEN t1
                 ELSE SetParent([SetParent(t1, child, par) EXCEPT
                                    !.at[par].l = child, !.at[s].r = Kid(t, n, "r")],
                                Kid(t, n, "r"), s)
        t3    == SetColor([t2 EXCEPT !.at[s].p = Parent(t, n), !.at[s].l = Kid(t, n, "l")], s, n)
        t4    == SetParent(t3, Kid(t, n, "l"), s)
    IN IF IsRed(t, s) THEN t4 ELSE EraseColor(t4, child, par)

Erase(t, n) ==
    Forget(IF Nil \in {Kid(t, n, "l"), Kid(t, n, "r")} THEN EraseSingle(t, n)
           ELSE EraseDouble(t, n), n)

-----------------------------------------------------------------------------
(* rbtree_map.c                                                            *)

\* __rbtree_map_search: the first node with the key on the way down, or Nil.
RECURSIVE Search(_, _, _, _)
Search(t, n, k, K) ==
    IF n = Nil \/ K[n] = k THEN n
    ELSE Search(t, Kid(t, n, IF k < K[n] THEN "l" ELSE "r"), k, K)

\* Mutant: equal keys go to the right.
EqualRight(k, q) == IF k < q THEN "l" ELSE "r"

\* __rbtree_map_insert: equal keys go to the left.
SideOf(k, q) == IF k <= q THEN "l" ELSE "r"
RECURSIVE LinkBelow(_, _, _, _)
LinkBelow(t, at, n, K) ==
    LET d == SideOf(K[n], K[at])
    IN IF Kid(t, at, d) # Nil THEN LinkBelow(t, Kid(t, at, d), n, K)
       ELSE [t EXCEPT !.at[at][d] = n, !.at[n].p = at]
Insert(t, n, K) ==
    InsertColor(SetRed(IF t.root = Nil THEN [t EXCEPT !.root = n]
                       ELSE LinkBelow(t, t.root, n, K), n), n)

Map == [tree |-> tree, begin |-> begin, count |-> count]
Becomes(m) == tree' = m.tree /\ begin' = m.begin /\ count' = m.count

\* rbtree_map_insert: a new node for k in the map m.
Fresh(m, k) ==
    LET free == {c \in 1..Copies : m.tree.root # <<k, c>> /\ Parent(m.tree, <<k, c>>) = Nil}
    IN {<<k, c>> : c \in {x \in free : \A y \in free : x <= y}}
Inserted(m, n, K) ==
    LET t == Insert(m.tree, n, K)
    IN [tree |-> t, begin |-> Leftmost(t, t.root), count |-> m.count + 1]

\* rbtree_map_delete, rbtree_map_remove: the map m without the node n.
Removed(m, n) ==
    [tree  |-> Erase(m.tree, n),
     begin |-> IF n = m.begin THEN RbNext(m.tree, n) ELSE m.begin,
     count |-> m.count - 1]

\* The key of a node in a map that is used alone.
StaticKey == [n \in Node |-> n[1]]

Add(k) == \E n \in Fresh(Map, k) : Becomes(Inserted(Map, n, StaticKey))

\* del, remove: of the node that the search meets.
Del(k) ==
    LET n == Search(tree, tree.root, k, StaticKey)
    IN n # Nil /\ Becomes(Removed(Map, n))

\* Map.c reset: remove by the key of begin until begin is the end.
RECURSIVE Emptied(_)
Emptied(m) ==
    IF m.begin = Nil THEN m ELSE Emptied(Removed(m, Search(m.tree, m.tree.root, m.begin[1], StaticKey)))
Reset == begin # Nil /\ Becomes(Emptied(Map))

-----------------------------------------------------------------------------
(* RBTree_Map.c: search_all_same_key and __find_same_key_node.             *)

RECURSIVE AllSame(_, _, _)
AllSame(t, n, k) ==
    LET top == Search(t, n, k, StaticKey)
    IN IF top = Nil THEN <<>>
       ELSE <<top>> \o AllSame(t, Kid(t, top, "l"), k) \o AllSame(t, Kid(t, top, "r"), k)

-----------------------------------------------------------------------------
EmptyMap == tree = NoTree /\ begin = Nil /\ count = 0

MapNext == (\E k \in Key : Add(k) \/ Del(k)) \/ Reset

-----------------------------------------------------------------------------
RECURSIVE InOrder(_, _)
InOrder(t, n) ==
    IF n = Nil THEN <<>>
    ELSE InOrder(t, Kid(t, n, "l")) \o <<n>> \o InOrder(t, Kid(t, n, "r"))
Entries == InOrder(tree, tree.root)
Members == ToSet(Entries)

MapTypeOK ==
    /\ tree.root \in Node \cup {Nil}
    /\ tree.at \in [Node -> [l : Node \cup {Nil}, r : Node \cup {Nil}, p : Node \cup {Nil}]]
    /\ tree.red \subseteq Members
    /\ begin \in Node \cup {Nil} /\ count \in 0..Cardinality(Node)

\* The tree is balanced as red-black trees are: the root is black, no red
\* node has a red child, every path has as many black nodes. Parents and
\* children agree.
RECURSIVE BlackHeights(_, _)
BlackHeights(t, n) ==
    IF n = Nil THEN {0}
    ELSE {h + (IF IsRed(t, n) THEN 0 ELSE 1) :
             h \in BlackHeights(t, Kid(t, n, "l")) \cup BlackHeights(t, Kid(t, n, "r"))}
Balanced ==
    /\ ~IsRed(tree, tree.root)
    /\ \A n \in Members :
        /\ \A d \in Side : LET c == Kid(tree, n, d)
                           IN c # Nil => Parent(tree, c) = n /\ ~(IsRed(tree, n) /\ IsRed(tree, c))
        /\ Parent(tree, n) = Nil => n = tree.root
    /\ Cardinality(BlackHeights(tree, tree.root)) = 1

\* The cached begin and count are those of the tree, after every deletion of
\* the first, the last and the only entry.
CachesExact == count = Len(Entries) /\ begin = (IF Entries = <<>> THEN Nil ELSE Entries[1])
=============================================================================
