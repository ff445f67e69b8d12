---------------------------- MODULE PlaylistStorage ----------------------------
(***************************************************************************)
(* LinearStorage (playlist/supp/storage.cpp): a list whose items are       *)
(* reached by walking from the nearest of its ends or of the iterators     *)
(* that were cached on earlier walks.  PlaylistIndices says what the       *)
(* operations have to compute; here is how they find their items.          *)
(*                                                                         *)
(* An item is the number of its node in the list, and an iterator is the   *)
(* node it points to, or End: both survive whatever happens to others.     *)
(***************************************************************************)
EXTENDS PlaylistIndices, SequencesExt

CONSTANTS
  MaxItems,          (* bound: items in the list                           *)
  CACHE_THRESHOLD,   (* walks that are longer leave an iterator            *)
  IndexMod           (* Model::IndexType has this many values              *)

ASSUME StorageAssumption ==
  /\ MaxItems \in Nat /\ CACHE_THRESHOLD \in Nat
  /\ IndexMod \in Nat /\ IndexMod > 2 * MaxItems

VARIABLES
  nodes,   (* LinearStorage::Items                                         *)
  cache    (* LinearStorage::IteratorsCache                                *)

storageVars == <<nodes, cache>>

Nodes == 1 .. MaxItems
End == 0
NoCache == [n \in {} |-> End]

StorageInit == nodes = <<>> /\ cache = NoCache

-----------------------------------------------------------------------------
(* Iterators.  An entry is <<index, iterator>>.                            *)

IteratorAt(s, n) == IF n = Len(s) THEN End ELSE At(s, n)

Place(s, it) == IF it = End THEN Len(s) ELSE CHOOSE n \in Indices(s) : At(s, n) = it

Far(entry, idx) == IF idx >= entry[1] THEN idx - entry[1] ELSE entry[1] - idx

(* The differences wrap around: for idx = size() the last item is far.     *)
GetNearestPredefinedIterator(s, idx) ==
  LET lastIndex == (Len(s) - 1) % IndexMod
  IN  IF idx <= (lastIndex - idx) % IndexMod
        THEN <<0, IteratorAt(s, 0)>>
        ELSE <<lastIndex, At(s, Len(s) - 1)>>

GetNearestCachedIterator(c, idx) ==
  LET lower == {n \in DOMAIN c : n <= idx}
      upper == DOMAIN c \ lower
      Entry(n) == <<n, c[n]>>
  IN  IF lower = {} THEN Entry(Min(upper))
      ELSE IF upper = {} \/ idx - Max(lower) <= Min(upper) - idx THEN Entry(Max(lower))
      ELSE Entry(Min(upper))

GetNearestIterator(s, c, idx) ==
  LET predefined == GetNearestPredefinedIterator(s, idx)
      cached == GetNearestCachedIterator(c, idx)
  IN  IF Far(predefined, idx) <= CACHE_THRESHOLD \/ DOMAIN c = {} THEN predefined
      ELSE IF Far(cached, idx) <= CACHE_THRESHOLD \/ Far(cached, idx) < Far(predefined, idx)
        THEN cached ELSE predefined

(* std::map::insert keeps what is there.                                   *)
Inserted(c, idx, it) ==
  [n \in DOMAIN c \cup {idx} |-> IF n \in DOMAIN c THEN c[n] ELSE it]

(* The iterator, and the cache after the walk.                             *)
GetIteratorByIndex(s, c, idx) ==
  LET entry == GetNearestIterator(s, c, idx)
      it == IteratorAt(s, Place(s, entry[2]) + idx - entry[1])
  IN  [it |-> it,
       cache |-> IF Far(entry, idx) > CACHE_THRESHOLD THEN Inserted(c, idx, it) ELSE c]

(* ForChoosenItems: the items it meets.  It walks on from the first one by *)
(* the differences of the indices; if all are chosen it meets all.         *)
Walks(s, set) == s # <<>> /\ set # {} /\ Cardinality(set) # Len(s)
ForChoosenItems(s, c, set) ==
  LET first == GetIteratorByIndex(s, c, Min(set)).it
  IN  IF s = <<>> \/ set = {} THEN <<>>
      ELSE IF Cardinality(set) = Len(s) THEN s
      ELSE Chosen(s, {Place(s, first) + n - Min(set) : n \in set})

CacheAfterWalk(s, c, set) ==
  IF Walks(s, set) THEN GetIteratorByIndex(s, c, Min(set)).cache ELSE c

Without(s, gone) == Chosen(s, {n \in Indices(s) : At(s, n) \notin ToSet(gone)})

(* What is left after RemoveItems.                                         *)
Remaining(s, c, set) == Without(s, ForChoosenItems(s, c, set))

MoveItemsInternal(s, c, set, dest) ==
  LET delimiter == GetIteratorByIndex(s, c, dest)
      moved == ForChoosenItems(s, delimiter.cache, set)
      rest == Without(s, moved)
      place == Place(rest, delimiter.it)
  IN  IF set = {} THEN s
      ELSE SubSeq(rest, 1, place) \o moved \o SubSeq(rest, place + 1, Len(rest))

MoveItems(s, c, set, dest) ==
  MoveItemsInternal(s, c, set, IF dest \in set THEN MoveTarget(s, set, dest) ELSE dest)

-----------------------------------------------------------------------------
Add ==
  /\ Len(nodes) < MaxItems
  /\ \E n \in Nodes \ ToSet(nodes) : nodes' = Append(nodes, n)
  /\ UNCHANGED cache

GetItem(idx) ==
  cache' = GetIteratorByIndex(nodes, cache, idx).cache /\ UNCHANGED nodes

ForSpecifiedItems(set) ==
  cache' = CacheAfterWalk(nodes, cache, set) /\ UNCHANGED nodes

(* Variant: the cached iterators are kept.                                 *)
RemoveKeepingCache(set) ==
  /\ set # {}
  /\ nodes' = Remaining(nodes, cache, set) /\ UNCHANGED cache

RemoveItems(set) ==
  /\ set # {}
  /\ nodes' = Remaining(nodes, cache, set) /\ cache' = NoCache

Move(set, dest) ==
  /\ set # {}
  /\ nodes' = MoveItems(nodes, cache, set, dest) /\ cache' = NoCache

(* Sort.  Shuffle makes new nodes; nothing points to the old ones then.    *)
Orders == [n \in 0 .. MaxItems |-> Bijection(1 .. n, 1 .. n)]
Reorder ==
  /\ nodes # <<>> /\ cache' = NoCache
  /\ \E order \in Orders[Len(nodes)] : nodes' = [k \in DOMAIN nodes |-> nodes[order[k]]]

(* The copy constructor leaves the cache behind.                           *)
Clone == cache' = NoCache /\ UNCHANGED nodes

StorageNext ==
  \/ Add \/ Reorder \/ Clone
  \/ \E idx \in Indices(nodes) : GetItem(idx)
  \/ \E set \in SUBSET Indices(nodes) :
       \/ ForSpecifiedItems(set) \/ RemoveItems(set)
       \/ \E dest \in 0 .. Len(nodes) : Move(set, dest)

StorageSpec == StorageInit /\ [][StorageNext]_storageVars

-----------------------------------------------------------------------------
(* A cached iterator points to the item that its index names.              *)
Hold(s, c) == \A n \in DOMAIN c : n \in 0 .. Len(s) /\ c[n] = IteratorAt(s, n)

StorageInv ==
  /\ nodes \in Seq(Nodes) /\ Len(nodes) <= MaxItems /\ IsInjective(nodes)
  /\ Hold(nodes, cache) /\ DOMAIN cache \subseteq Indices(nodes)

(* Whatever was called before and whatever iterators it left, the storage  *)
(* finds the items that the indices name, and moves and removes those, at  *)
(* either end and in the middle: what PlaylistIndices says is done.        *)
FindsItems ==
  /\ StorageInv
  /\ \A idx \in Indices(nodes) : GetIteratorByIndex(nodes, cache, idx).it = At(nodes, idx)
  /\ \A set \in SUBSET Indices(nodes) :
       /\ ForChoosenItems(nodes, cache, set) = Chosen(nodes, set)
       /\ Remaining(nodes, cache, set) = Removed(nodes, set)
       /\ \A dest \in 0 .. Len(nodes) :
            MoveItems(nodes, cache, set, dest) = Moved(nodes, set, dest)
=============================================================================
