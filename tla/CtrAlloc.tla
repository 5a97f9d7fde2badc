------------------------------ MODULE CtrAlloc ------------------------------
(***************************************************************************)
(* The default allocator: allocator_ctr_alloc.c with its lists of slabs    *)
(* and of memory pools. A request is rounded up to a power of two, served  *)
(* from the free slabs of that class, else cut off the first pool that has *)
(* room, else off a new pool; what no class can hold goes to malloc. Slabs *)
(* are never joined or given back to a pool. allocator_mem_alloc and       *)
(* allocator_mem_free hold head_lock, so each of them is one step.         *)
(***************************************************************************)
EXTENDS Integers, Sequences, FiniteSets

CONSTANTS
    SlabMax,     \* slab_array_max_num, the number of classes
    DataMin,     \* data_min_size
    Capacity,    \* mempool_capacity
    Header,      \* sizeof(ctr_slab_t)
    Sizes,       \* the sizes that are asked for
    MaxPools,    \* bound on the pools that are made
    MaxHuge,     \* bound on the blocks that are taken from malloc
    MaxFails     \* bound on the calls of malloc that return NULL

Classes   == 0 .. SlabMax - 1
Class(i)  == 2^i * DataMin

\* The classes grow, and the largest one fits into a pool: so it is for the
\* default allocator, with 12 classes from 8 bytes on in pools of 2^12 * 8.
ASSUME ConfigAssumption ==
    /\ SlabMax \in Nat \ {0} /\ Header \in Nat \ {0} /\ Capacity \in Nat
    /\ \A i \in Classes : Class(i) \in Nat \ {0} /\ Class(i) + Header <= Capacity
    /\ \A i, j \in Classes : i < j => Class(i) < Class(j)
    /\ Class(0) = DataMin
    /\ Sizes \subseteq Nat \ {0}
    /\ MaxPools \in Nat \ {0} /\ MaxHuge \in Nat /\ MaxFails \in Nat

VARIABLES
    pool,         \* the pools with room. Their list is in the order of age: a
                  \* pool is numbered when it is made and enters in front
    empty_pool,   \* the pools that are used up
    depth,        \* bytes left in each pool that was made
    free_slabs,   \* class to the list of its free slabs
    used_slabs,   \* slabs in use
    huge,         \* used_huge_slabs: what was asked for, by number
    stat_flag,    \* the slabs whose stat_flag is 1
    alloc_count,
    live,         \* the blocks their users still hold, as Heap has them
    fails,        \* how often malloc returned NULL
    destroyed

vars == <<pool, empty_pool, depth, free_slabs, used_slabs, huge, stat_flag,
          alloc_count, live, fails, destroyed>>

\* A slab: its pool, where its header starts and the room after it.
Slabs == used_slabs \cup UNION {{free_slabs[i][k] : k \in DOMAIN free_slabs[i]} : i \in Classes}

Pools == DOMAIN depth

\* The block a user gets: the bytes after the header.
Block(s, size)     == [area |-> s.pool, at |-> s.at + Header, len |-> size]
HugeBlock(k, size) == [area |-> -k, at |-> Header, len |-> size]

-----------------------------------------------------------------------------
Fits(i, size) ==
    LET whole == size \div Class(i)
    IN whole = 0 \/ (whole = 1 /\ size % Class(i) = 0)

\* slab_get_slab_index: the first class that fits, or -1.
Index(size) ==
    IF \E i \in Classes : Fits(i, size)
    THEN CHOOSE i \in Classes : Fits(i, size) /\ \A j \in Classes : Fits(j, size) => i <= j
    ELSE -1

TooBig(size) == size > Capacity \/ Index(size) < 0

\* Mutant: the header is forgotten.
SlabSizeNoHeader(size) == Class(Index(size))

SlabSize(size) == Class(Index(size)) + Header

\* depth is signed and is compared with a size_t.
HasRoom(p, size) == depth[p] < 0 \/ depth[p] >= SlabSize(size)

\* Mutant: a pool counts as used up when it cannot serve the largest class.
UsedUpEarly(p) == depth[p] < Class(SlabMax - 1) + Header

UsedUp(p) == depth[p] < DataMin + Header

\* mempool_find_appropriate_pool walks the list, the youngest pool first, up
\* to the first pool with room and puts away the used up ones that it meets.
Walked(size)   == {p \in pool : \A q \in pool : q >= p => ~HasRoom(q, size)}
PutAway(size)  == {p \in Walked(size) : UsedUp(p)}
Kept(size)     == pool \ PutAway(size)
Found(size)    == Walked(size) # pool
FirstFit(size) ==
    CHOOSE p \in pool : HasRoom(p, size) /\ \A q \in pool : HasRoom(q, size) => q <= p

-----------------------------------------------------------------------------
\* What every way to serve a request does in the end.
HandOut(s, size) ==
    /\ used_slabs' = used_slabs \cup {s}
    /\ stat_flag' = stat_flag \cup {s}
    /\ alloc_count' = alloc_count + 1
    /\ live' = live \cup {Block(s, size)}

\* Mutant: the slab stays on the free list.
AllocReuseKept(size) ==
    /\ ~TooBig(size) /\ free_slabs[Index(size)] # <<>>
    /\ HandOut(Head(free_slabs[Index(size)]), size)
    /\ UNCHANGED <<free_slabs, pool, empty_pool, depth, huge, fails>>

\* slab_detach_front_list_from_free_slabs.
AllocReuse(size) ==
    /\ ~TooBig(size) /\ free_slabs[Index(size)] # <<>>
    /\ HandOut(Head(free_slabs[Index(size)]), size)
    /\ free_slabs' = [free_slabs EXCEPT ![Index(size)] = Tail(@)]
    /\ UNCHANGED <<pool, empty_pool, depth, huge, fails>>

\* The slab at the end of what is used of pool p.
Cut(p, left, size) == [pool |-> p, at |-> Capacity - left, size |-> Class(Index(size))]

NeedsPool(size) == ~TooBig(size) /\ free_slabs[Index(size)] = <<>>

\* mempool_alloc_slab_list from a pool that has room.
AllocCut(size) ==
    /\ NeedsPool(size) /\ Found(size)
    /\ pool' = Kept(size)
    /\ empty_pool' = empty_pool \cup PutAway(size)
    /\ depth' = [depth EXCEPT ![FirstFit(size)] = @ - SlabSize(size)]
    /\ HandOut(Cut(FirstFit(size), depth[FirstFit(size)], size), size)
    /\ UNCHANGED <<free_slabs, huge, fails>>

NewPool == Cardinality(Pools) + 1

\* mempool_alloc_slab_list from a new pool, which is not asked for its room.
AllocPool(size) ==
    /\ NeedsPool(size) /\ ~Found(size) /\ NewPool <= MaxPools
    /\ pool' = {NewPool} \cup Kept(size)
    /\ empty_pool' = empty_pool \cup PutAway(size)
    /\ depth' = [p \in Pools \cup {NewPool} |->
                    IF p = NewPool THEN Capacity - SlabSize(size) ELSE depth[p]]
    /\ HandOut(Cut(NewPool, Capacity, size), size)
    /\ UNCHANGED <<free_slabs, huge, fails>>

\* The same when malloc returns NULL: the request fails.
AllocPoolFails(size) ==
    /\ NeedsPool(size) /\ ~Found(size) /\ fails < MaxFails
    /\ fails' = fails + 1
    /\ pool' = Kept(size)
    /\ empty_pool' = empty_pool \cup PutAway(size)
    /\ UNCHANGED <<depth, free_slabs, used_slabs, huge, stat_flag, alloc_count, live>>

\* alloc_huge_slab.
AllocHuge(size) ==
    /\ TooBig(size)
    /\ \E k \in 1 .. MaxHuge :
        /\ k \notin {h[1] : h \in huge}
        /\ huge' = huge \cup {<<k, size>>}
        /\ live' = live \cup {HugeBlock(k, size)}
    /\ alloc_count' = alloc_count + 1
    /\ UNCHANGED <<pool, empty_pool, depth, free_slabs, used_slabs, stat_flag, fails>>

\* alloc_huge_slab counts before it asks malloc.
AllocHugeFails(size) ==
    /\ TooBig(size) /\ fails < MaxFails
    /\ fails' = fails + 1
    /\ alloc_count' = alloc_count + 1
    /\ UNCHANGED <<pool, empty_pool, depth, free_slabs, used_slabs, huge, stat_flag, live>>

\* What __free takes for a huge block.
FreedAsHuge(size) == size >= Capacity \/ Index(size) < 0

Released(s) ==
    /\ used_slabs' = used_slabs \ {s}
    /\ stat_flag' = stat_flag \ {s}
    /\ free_slabs' = [free_slabs EXCEPT ![Index(s.size)] = <<s>> \o @]
    /\ alloc_count' = alloc_count - 1

\* Mutant: stat_flag is not looked at.
FreeSlabTwice(s) ==
    /\ s \in Slabs /\ ~FreedAsHuge(s.size)
    /\ Released(s)
    /\ live' = {b \in live : ~(b.area = s.pool /\ b.at = s.at + Header)}
    /\ UNCHANGED <<pool, empty_pool, depth, huge, fails>>

\* free_normal_slab. A slab that is free already is left alone.
FreeSlab(s) ==
    /\ s \in Slabs /\ ~FreedAsHuge(s.size)
    /\ s \in stat_flag
    /\ Released(s)
    /\ live' = {b \in live : ~(b.area = s.pool /\ b.at = s.at + Header)}
    /\ UNCHANGED <<pool, empty_pool, depth, huge, fails>>

\* free_huge_slab.
FreeHuge(h) ==
    /\ FreedAsHuge(h[2])
    /\ huge' = huge \ {h}
    /\ live' = live \ {HugeBlock(h[1], h[2])}
    /\ alloc_count' = alloc_count - 1
    /\ UNCHANGED <<pool, empty_pool, depth, free_slabs, used_slabs, stat_flag, fails>>

\* __destroy releases the pools of both lists and the huge blocks.
Destroy ==
    /\ destroyed' = TRUE
    /\ pool' = {} /\ empty_pool' = {} /\ huge' = {} /\ live' = {}
    /\ depth' = [p \in Pools \ (empty_pool \cup pool) |-> depth[p]]
    /\ free_slabs' = [i \in Classes |-> <<>>] /\ used_slabs' = {} /\ stat_flag' = {}
    /\ UNCHANGED <<alloc_count, fails>>

-----------------------------------------------------------------------------
\* __init makes the first pool.
Init ==
    /\ pool = {1} /\ empty_pool = {}
    /\ depth = [p \in {1} |-> Capacity]
    /\ free_slabs = [i \in Classes |-> <<>>] /\ used_slabs = {} /\ huge = {}
    /\ stat_flag = {} /\ alloc_count = 0
    /\ live = {} /\ fails = 0 /\ destroyed = FALSE

Alloc(size) ==
    \/ AllocReuse(size) \/ AllocCut(size) \/ AllocPool(size) \/ AllocPoolFails(size)
    \/ AllocHuge(size) \/ AllocHugeFails(size)

Next ==
    /\ ~destroyed
    /\ \/ /\ \/ \E size \in Sizes : Alloc(size)
             \/ \E s \in Slabs : FreeSlab(s)
             \/ \E h \in huge : FreeHuge(h)
          /\ UNCHANGED destroyed
       \/ Destroy

Spec == Init /\ [][Next]_vars

-----------------------------------------------------------------------------
SlabType == [pool : 1 .. MaxPools, at : 0 .. Capacity, size : {Class(i) : i \in Classes}]

\* Type invariant: no pool is overdrawn and no count runs past its bound.
TypeOK ==
    /\ Pools \subseteq 1 .. MaxPools /\ depth \in [Pools -> 0 .. Capacity]
    /\ pool \subseteq Pools /\ empty_pool \subseteq Pools
    /\ free_slabs \in [Classes -> Seq(SlabType)]
    /\ used_slabs \subseteq SlabType /\ stat_flag \subseteq SlabType
    /\ huge \subseteq (1 .. MaxHuge) \X Sizes
    /\ alloc_count \in Nat /\ fails \in 0 .. MaxFails /\ destroyed \in BOOLEAN

Apart(s, t) == s.pool # t.pool \/ s.at + Header + s.size <= t.at \/ t.at + Header + t.size <= s.at

\* No two slabs of a pool share a byte, headers included, and all lie in the
\* part of the pool that was cut off, whatever was freed and reused
\* (mempool_alloc_slab_list computes the place from depth alone); types included.
SlabsApart ==
    /\ TypeOK
    /\ \A s, t \in Slabs : s # t => Apart(s, t)
    /\ \A s \in Slabs : s.pool \in Pools /\ s.at + Header + s.size <= Capacity - depth[s.pool]

\* Every slab is in use or on the free list of its class, once, and its
\* stat_flag tells which.
SlabsListed ==
    /\ stat_flag = used_slabs
    /\ \A i \in Classes : \A k \in DOMAIN free_slabs[i] :
        /\ free_slabs[i][k].size = Class(i)
        /\ free_slabs[i][k] \notin used_slabs
        /\ \A l \in DOMAIN free_slabs[i] : free_slabs[i][k] = free_slabs[i][l] => k = l

\* Every pool is on one of the two lists, once, so that __destroy finds it.
PoolsListed == Pools = empty_pool \cup pool /\ empty_pool \cap pool = {}

\* The block a user holds is what the allocator keeps as used: the room after
\* the header of one used slab, or one huge block.
Holder(b) == {s \in used_slabs : s.pool = b.area /\ s.at + Header = b.at /\ b.len <= s.size}
LiveBacked ==
    /\ \A b \in live : Cardinality(Holder(b)) = 1 \/ <<-b.area, b.len>> \in huge
    /\ Cardinality(live) = Cardinality(used_slabs) + Cardinality(huge)

\* alloc_count, which the destructor of the default allocator reports as the
\* number of blocks not released, is never below it, and above it only by the
\* requests that malloc refused.
CountCovers == ~destroyed => alloc_count - Cardinality(live) \in 0 .. fails

\* Nothing gets lost and nothing is kept twice: slabs, pools, the blocks of
\* the users and their count agree, after any requests, refusals and frees,
\* second frees included (__alloc, __free and what they call).
Accounted == SlabsListed /\ PoolsListed /\ LiveBacked /\ CountCovers

\* A pool is made only when no pool, on either list, has room for the slab and
\* no slab of its class is free: nothing is put away too early.
GrowsOnlyIfFull ==
    [][\A s \in used_slabs' \ used_slabs :
          s.pool \notin Pools =>
              /\ \A p \in Pools : depth[p] < s.size + Header
              /\ \A t \in Slabs \ used_slabs : t.size # s.size]_vars

\* The allocator is a heap: no block overlaps one that is in use.
H == INSTANCE Heap
IsHeap == H!Spec
=============================================================================
