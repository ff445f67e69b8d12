---------------------------- MODULE PlaylistIndices ----------------------------
(***************************************************************************)
(* What the storage of a playlist (playlist/supp/storage.cpp) computes,    *)
(* as functions of the list, and the look-up of moved indices in           *)
(* OldToNewIndexMap (playlist/supp/model.cpp).  How the storage finds the  *)
(* items is the subject of PlaylistStorage.                                *)
(*                                                                         *)
(* A list is a sequence of IndexedItem; an index counts from 0.            *)
(***************************************************************************)
EXTENDS Integers, Sequences, FiniteSetsExt

IndexedItem(i, n) == [item |-> i, index |-> n]

Indices(s) == 0 .. Len(s) - 1

At(s, n) == s[n + 1]

Contents(s) == {s[k].item : k \in DOMAIN s}

(* The items of s at the indices in set, in their order.                   *)
Chosen(s, set) ==
  LET Nth(k) == CHOOSE n \in set : Cardinality({m \in set : m < n}) = k - 1
  IN  [k \in 1 .. Cardinality(set) |-> At(s, Nth(k))]

Added(s, new) ==
  s \o [k \in DOMAIN new |-> IndexedItem(new[k], Len(s) + k - 1)]

Removed(s, set) == Chosen(s, Indices(s) \ set)

(* The first index from target on that is not selected, or the size.       *)
MoveTarget(s, set, target) == Min((target .. Len(s)) \ set)

(* The selected items go before the first one from target on that stays.   *)
Moved(s, set, target) ==
  LET place == MoveTarget(s, set, target)
  IN  IF set = {} THEN s
      ELSE Chosen(s, (0 .. place - 1) \ set) \o Chosen(s, set)
             \o Chosen(s, (place .. Len(s) - 1) \ set)

(* ResetIndices: the map from the old index of every item to its place,    *)
(* and the list with the places as the new indices.                        *)
IndicesChanges(s) ==
  [old \in {s[k].index : k \in DOMAIN s} |->
     Min({k \in DOMAIN s : s[k].index = old}) - 1]

Reindexed(s) == [k \in DOMAIN s |-> IndexedItem(s[k].item, k - 1)]

(* FindNewSuitableIndex of a map that is not empty: where the item went,   *)
(* else the next one that is still there, else the previous one.           *)
FindNewSuitableIndex(map, old) ==
  LET next == {n \in DOMAIN map : n >= old}
  IN  map[IF next # {} THEN Min(next) ELSE Max(DOMAIN map)]
=============================================================================
