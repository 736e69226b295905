----------------------------- MODULE Containers -----------------------------
(***************************************************************************)
(* The containers of libuavcan in the memory pool of a node: Map and       *)
(* Multiset, linked lists of groups of slots, one group per block of a     *)
(* PoolAllocator; and another user of the pool, which has its blocks       *)
(* through a LimitedPoolAllocator, as the transmission queues do.          *)
(***************************************************************************)
EXTENDS Integers, Sequences, FiniteSets, SequencesExt

CONSTANTS
  Keys, Values,
  Slots,      \* NumKV and NumItems
  Blocks,     \* the blocks of the pool
  MaxBlocks,  \* max_blocks_ of the LimitedPoolAllocator
  MaxItems,   \* bound on the items ever made in the multiset
  None

VARIABLES
  free,    \* free_list_ of the pool
  map,     \* list_ of the Map: the block of every group and its pairs
  set,     \* list_ of the Multiset: the block of every chunk and its items
  items,   \* number of items made so far
  queued,  \* blocks held through the LimitedPoolAllocator
  used     \* its used_blocks_

containersVars == <<free, map, set, items, queued, used>>

ContainersInit ==
  /\ free = SetToSeq(Blocks)
  /\ map = <<>> /\ set = <<>>
  /\ items = 0
  /\ queued = {} /\ used = 0

-----------------------------------------------------------------------------
\* Lists of groups.  A group is the block it is in and its slots; None is an empty slot.
Group(b) == [at |-> b, slot |-> [i \in 1..Slots |-> None]]
Places(l) == (1..Len(l)) \X (1..Slots)
At(l, p) == l[p[1]].slot[p[2]]
Set(l, p, x) == [l EXCEPT ![p[1]].slot[p[2]] = x]
Filled(l) == {p \in Places(l) : At(l, p) # None}
First(ps) == CHOOSE p \in ps : \A q \in ps : p[1] < q[1] \/ (p[1] = q[1] /\ p[2] <= q[2])

\* A list and the free list of the pool, as an operation leaves them.
Here(l, f) == [list |-> l, free |-> f]

allocate(f) == Tail(f)
deallocate(f, b) == <<b>> \o f

compactMoving(c) ==
  LET all == SelectSeq(FlattenSeq([g \in 1..Len(c.list) |-> c.list[g].slot]), LAMBDA x : x # None)
      n == (Len(all) + Slots - 1) \div Slots
  IN Here([g \in 1..n |-> [at |-> c.list[g].at,
             slot |-> [i \in 1..Slots |-> IF (g - 1) * Slots + i <= Len(all) THEN all[(g - 1) * Slots + i] ELSE None]]],
          FoldLeft(deallocate, c.free, [g \in 1..Len(c.list) - n |-> c.list[n + g].at]))

\* compact: the blocks of the groups without a pair go back to the pool.
compact(c) ==
  LET Emptied(g) == \A i \in 1..Slots : g.slot[i] = None
      gone == SelectSeq(c.list, Emptied)
  IN Here(SelectSeq(c.list, LAMBDA g : ~Emptied(g)),
          FoldLeft(deallocate, c.free, [i \in 1..Len(gone) |-> gone[i].at]))

removeAtOnly(c, ps) ==
  [c EXCEPT !.list = [g \in 1..Len(@) |->
    [@[g] EXCEPT !.slot = [i \in 1..Slots |-> IF <<g, i>> \in ps THEN None ELSE @[i]]]]]

\* removeAllWhere, of the slots at the places ps.
removeAt(c, ps) ==
  IF ps = {} THEN c
  ELSE compact([c EXCEPT !.list = [g \in 1..Len(@) |->
         [@[g] EXCEPT !.slot = [i \in 1..Slots |-> IF <<g, i>> \in ps THEN None ELSE @[i]]]]])

\* findOrCreateFreeSlot, and what is put there; without memory nothing is.
putInFreeSlot(c, x) ==
  LET empty == Places(c.list) \ Filled(c.list)
  IN IF empty # {} THEN [c EXCEPT !.list = Set(@, First(empty), x)]
     ELSE IF c.free = <<>> THEN c
     ELSE Here(Set(<<Group(Head(c.free))>> \o c.list, <<1, 1>>, x), allocate(c.free))

-----------------------------------------------------------------------------
\* Map.  A pair is <<key, value>>.
Becomes(c) == map' = c.list /\ free' = c.free
findKey(l, k) == {p \in Filled(l) : At(l, p)[1] = k}

remove(c, k) ==
  removeAt(c, IF findKey(c.list, k) = {} THEN {} ELSE {First(findKey(c.list, k))})

MapInsertFirst(k, v) ==
  /\ Becomes(putInFreeSlot(Here(map, free), <<k, v>>))
  /\ UNCHANGED <<set, items, queued, used>>

MapInsert(k, v) ==
  /\ Becomes(putInFreeSlot(remove(Here(map, free), k), <<k, v>>))
  /\ UNCHANGED <<set, items, queued, used>>

MapRemove(k) ==
  /\ Becomes(remove(Here(map, free), k))
  /\ UNCHANGED <<set, items, queued, used>>

\* removeAllWhere, and clear, where the predicate is true of every key.
MapRemoveAllWhere(ks) ==
  /\ Becomes(removeAt(Here(map, free), {p \in Filled(map) : At(map, p)[1] \in ks}))
  /\ UNCHANGED <<set, items, queued, used>>

-----------------------------------------------------------------------------
\* Multiset.  An item is <<number, value>>, the number standing for the object.
SetBecomes(c) == set' = c.list /\ free' = c.free

Emplace(v) ==
  /\ items < MaxItems
  /\ items' = items + 1
  /\ SetBecomes(putInFreeSlot(Here(set, free), <<items + 1, v>>))
  /\ UNCHANGED <<map, queued, used>>

\* removeWhere, RemoveAll or RemoveOne.
SetRemoveWhere(v, all) ==
  LET ps == {p \in Filled(set) : At(set, p)[2] = v}
  IN /\ SetBecomes(removeAt(Here(set, free), IF all \/ ps = {} THEN ps ELSE {First(ps)}))
     /\ UNCHANGED <<map, items, queued, used>>

-----------------------------------------------------------------------------
\* LimitedPoolAllocator: the counter goes up before the pool is asked.
LimitedAllocate ==
  /\ used < MaxBlocks
  /\ used' = used + 1
  /\ IF free = <<>> THEN UNCHANGED <<free, queued>>
     ELSE free' = allocate(free) /\ queued' = queued \cup {Head(free)}
  /\ UNCHANGED <<map, set, items>>

LimitedDeallocate(b) ==
  /\ queued' = queued \ {b}
  /\ free' = deallocate(free, b)
  /\ used' = IF used > 0 THEN used - 1 ELSE used
  /\ UNCHANGED <<map, set, items>>

ContainersNext ==
  \/ \E k \in Keys, v \in Values : MapInsert(k, v)
  \/ \E k \in Keys : MapRemove(k)
  \/ \E ks \in SUBSET Keys : MapRemoveAllWhere(ks)
  \/ \E v \in Values : Emplace(v) \/ \E all \in BOOLEAN : SetRemoveWhere(v, all)
  \/ LimitedAllocate
  \/ \E b \in queued : LimitedDeallocate(b)

ContainersSpec == ContainersInit /\ [][ContainersNext]_containersVars

-----------------------------------------------------------------------------
\* Map is a dictionary, whatever the groups look like and whoever else takes memory: an
\* insertion that replaces a value always finds the memory, although it removes first.
D == INSTANCE Dictionary WITH dict <- {At(map, p) : p \in Filled(map)}
MapIsDictionary == D!DictionarySpec

\* "Unlike Map<>, this container does not move objects": an item of the multiset stays
\* where it is in memory, so that pointers to it stay good.
Lies(l, n) == {<<l[p[1]].at, p[2]>> : p \in {q \in Filled(l) : At(l, q)[1] = n}}
ItemsStay == [][\A n \in 1..items : Lies(set', n) \subseteq Lies(set, n)]_containersVars

\* Every block is in one place: no container is given a block another one has, and an empty
\* container holds none.
Held(l) == {l[g].at : g \in 1..Len(l)}
BlocksAccounted ==
  /\ Len(free) + Len(map) + Len(set) + Cardinality(queued) = Cardinality(Blocks)
  /\ ToSet(free) \cup Held(map) \cup Held(set) \cup queued = Blocks
  /\ \A l \in {map, set} : Len(l) <= Cardinality(Filled(l))
=============================================================================
