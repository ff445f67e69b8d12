------------------------------ MODULE ObjectsCache ------------------------------
(***************************************************************************)
(* The cache of files behind the items of a playlist                       *)
(* (playlist/supp/data_provider.cpp): ObjectsCache, and CachedDataProvider *)
(* which keeps it within the limits of the options.                        *)
(*                                                                         *)
(* CachedDataProvider::Mutex is held for a whole call, reading the file    *)
(* included, so at most one call is in progress; the options, though, may  *)
(* change at any time, and a file may have another size when it is read    *)
(* again.                                                                  *)
(***************************************************************************)
EXTENDS Integers, SequencesExt

CONSTANTS
  Paths,        (* paths of files                                          *)
  NoPath,
  MaxWeight,    (* bound: the size of a file                               *)
  MaxOption,    (* bound: the options                                      *)
  Megabyte,     (* the unit of the memory limit                            *)
  SizeMod       (* std::size_t has this many values                        *)

ASSUME CacheAssumption ==
  /\ NoPath \notin Paths
  /\ MaxWeight \in Nat /\ MaxOption \in Nat
  /\ Megabyte \in Nat \ {0} /\ SizeMod \in Nat \ {0}

VARIABLES
  items,         (* ObjectsCache::Items                                    *)
  total,         (* ObjectsCache::TotalWeight                              *)
  files, memory, (* the options                                            *)
  path,          (* the argument of GetData in progress, or NoPath         *)
  filesLimit     (* its local of this name                                 *)

vars == <<items, total, files, memory, path, filesLimit>>

Options == 0 .. MaxOption
Item(id, weight) == [id |-> id, weight |-> weight]

Init ==
  /\ items = <<>> /\ total = 0
  /\ files = 0 /\ memory = 0
  /\ path = NoPath /\ filesLimit = 0

-----------------------------------------------------------------------------
(* ObjectsCache, as functions of its list.                                 *)

Ids(s) == {s[k].id : k \in DOMAIN s}
Place(s, id) == CHOOSE k \in DOMAIN s : s[k].id = id
Sums(s) == LET sum[n \in 0 .. Len(s)] == IF n = 0 THEN 0 ELSE sum[n - 1] + s[n].weight IN sum
Weights(s) == Sums(s)[Len(s)]

(* FindItem exchanges the item found and the one at the front.             *)
FindItem(s, id) == [s EXCEPT ![1] = s[Place(s, id)], ![Place(s, id)] = s[1]]

(* Variant: one of the limits will do.                                     *)
EnoughOfEither(s, w, n, maxCount, maxWeight) ==
  n <= maxCount \/ w - Weights(SubSeq(s, n + 1, Len(s))) <= maxWeight

(* Fit drops items from the back until what is left is within both limits. *)
(* n items are left if that is enough for the kept weight w.               *)
Enough(s, w, n, maxCount, maxWeight) ==
  n <= maxCount /\ w - Weights(SubSeq(s, n + 1, Len(s))) <= maxWeight

Fit(s, w, maxCount, maxWeight) ==
  CHOOSE n \in 0 .. Len(s) :
    /\ Enough(s, w, n, maxCount, maxWeight)
    /\ \A m \in n + 1 .. Len(s) : ~Enough(s, w, m, maxCount, maxWeight)

-----------------------------------------------------------------------------
(* CacheParameters::MemoryLimit, in bytes.                                 *)
MemoryLimit == (memory * Megabyte) % SizeMod

ChangeOptions ==
  /\ \/ files' \in Options /\ UNCHANGED memory
     \/ memory' \in Options /\ UNCHANGED files
  /\ UNCHANGED <<items, total, path, filesLimit>>

(* GetData: the first option is read, then the second.                     *)
GetDataBegin(id) ==
  /\ path = NoPath /\ path' = id
  /\ filesLimit' = files
  /\ UNCHANGED <<items, total, files, memory>>

Return == path' = NoPath /\ filesLimit' = 0 /\ UNCHANGED <<files, memory>>

(* Without limits nothing is cached.                                       *)
GetDataUncached ==
  /\ path # NoPath /\ (filesLimit = 0 \/ MemoryLimit = 0)
  /\ items' = <<>> /\ total' = 0
  /\ Return

GetDataCached ==
  /\ path # NoPath /\ filesLimit # 0 /\ MemoryLimit # 0
  /\ path \in Ids(items)
  /\ items' = FindItem(items, path) /\ UNCHANGED total
  /\ Return

(* The file is read and added, or it cannot be read.                       *)
GetDataLoaded ==
  /\ path # NoPath /\ filesLimit # 0 /\ MemoryLimit # 0
  /\ path \notin Ids(items)
  /\ \/ UNCHANGED <<items, total>>
     \/ \E weight \in 0 .. MaxWeight :
          LET added == <<Item(path, weight)>> \o items
              left == Fit(added, total + weight, filesLimit, MemoryLimit)
          IN  /\ items' = SubSeq(added, 1, left)
              /\ total' = total + weight - Weights(SubSeq(added, left + 1, Len(added)))
  /\ Return

(* Variant: the item goes, its weight stays.                               *)
FlushKeepingWeight(id) ==
  /\ path = NoPath /\ id \in Ids(items)
  /\ items' = RemoveAt(items, Place(items, id))
  /\ UNCHANGED <<total, files, memory, path, filesLimit>>

(* FlushCachedData, when the last item of a file is gone.                  *)
FlushCachedData(id) ==
  /\ path = NoPath /\ id \in Ids(items)
  /\ total' = total - items[Place(items, id)].weight
  /\ items' = RemoveAt(items, Place(items, id))
  /\ UNCHANGED <<files, memory, path, filesLimit>>

Next ==
  \/ ChangeOptions
  \/ \E id \in Paths : GetDataBegin(id) \/ FlushCachedData(id)
  \/ GetDataUncached \/ GetDataCached \/ GetDataLoaded

Spec == Init /\ [][Next]_vars

-----------------------------------------------------------------------------
(* A file is cached once, and the weight that is kept by additions and     *)
(* subtractions is the weight of what is cached: with a weight too small   *)
(* the cache grows beyond its limit, and with one too large Fit drops      *)
(* everything and goes on to drop from an empty list.                      *)
WeightIsSum ==
  /\ items \in Seq([id : Paths, weight : 0 .. MaxWeight])
  /\ \A j, k \in DOMAIN items : items[j].id = items[k].id => j = k
  /\ total = Weights(items)
  /\ path \in Paths \cup {NoPath} /\ {files, filesLimit, memory} \subseteq Options

(* A file that is read leaves the cache within the limits of that call,    *)
(* whatever is in it, and what was just read is the last to be dropped.    *)
FitsLimits ==
  [][path # NoPath /\ path' = NoPath /\ path \notin Ids(items) /\ items' # items =>
       /\ Len(items') <= filesLimit
       /\ Weights(items') <= MemoryLimit
       /\ items' # <<>> => Head(items').id = path]_vars
=============================================================================
