---------------------------- MODULE PlaylistProofs ----------------------------
(***************************************************************************)
(* Proofs about Playlist, for any number of items and of calls, and about  *)
(* PlaylistStorage, for any size of the list and threshold of its cache.   *)
(***************************************************************************)
EXTENDS Playlist, PlaylistStorage, NatLemmas, FunctionTheorems, SequenceTheorems, TLAPS

(* An interval from 1 has as many members as its end says.                 *)
LEMMA IntervalCardinality ==
  ASSUME NEW n \in Nat
  PROVE  IsFiniteSet(1..n) /\ Cardinality(1..n) = n
<1>1. IsFiniteSet(1..n)
  BY FS_Interval
<1>2. Cardinality(1..n) = IF 1 > n THEN 0 ELSE (n - 1) + 1
  BY FS_Interval
<1> QED BY <1>1, <1>2

(* What the entries of a list are made of.                                 *)
LEMMA EntryFields == \A e \in Entries : e.item \in Items /\ e.index \in Rows /\ e.index \in Nat
BY PlaylistAssumption DEF Entries, Rows

(* A function on 1..n is a list of length n.                               *)
LEMMA SeqByLength ==
  ASSUME NEW S, NEW n \in Nat, NEW f, f = [k \in 1..n |-> f[k]], \A k \in 1..n : f[k] \in S
  PROVE  f \in Seq(S) /\ Len(f) = n /\ DOMAIN f = 1..n
<1>1. f \in [1..n -> S]
  OBVIOUS
<1>2. f \in Seq(S)
  BY <1>1
<1> QED BY <1>1, <1>2

-----------------------------------------------------------------------------
(* Lists.                                                                  *)

(* The places of a list and the indices of its entries, one apart.         *)
LEMMA ListBasics ==
  ASSUME NEW s \in Seq(Entries)
  PROVE  /\ Len(s) \in Nat /\ DOMAIN s = 1..Len(s)
         /\ \A k \in 1..Len(s) : s[k] \in Entries /\ k - 1 \in Indices(s)
         /\ \A n \in Indices(s) : n \in Nat /\ n + 1 \in 1..Len(s) /\ At(s, n) \in Entries
BY DEF Indices, At

(* A list whose items are different is no longer than there are items.     *)
LEMMA DistinctItems ==
  ASSUME NEW E, NEW s \in Seq(E), \A k \in DOMAIN s : s[k].item \in Items, Distinct(s)
  PROVE  Len(s) <= ItemCount /\ Cardinality(Contents(s)) = Len(s)
<1> DEFINE f == [k \in 1..Len(s) |-> s[k].item]
           C == Contents(s)
<1>1. Len(s) \in Nat /\ \A k \in 1..Len(s) : s[k].item \in Items
  OBVIOUS
<1>2. C = {s[k].item : k \in 1..Len(s)} /\ C \subseteq Items
  BY <1>1 DEF Contents
<1>3. f \in [1..Len(s) -> C] /\ \A j, k \in 1..Len(s) : f[j] = f[k] => j = k
  BY <1>2 DEF Distinct
<1>4. \A x \in C : \E k \in 1..Len(s) : f[k] = x
  BY <1>2
<1> HIDE DEF f, C
<1>5. f \in Bijection(1..Len(s), C)
  BY <1>3, <1>4, Fun_IsBij
<1>6. IsFiniteSet(1..Len(s)) /\ Cardinality(1..Len(s)) = Len(s)
  <2>1. Len(s) \in Nat
    BY <1>1
  <2> HIDE <1>1
  <2> QED BY <2>1, IntervalCardinality
<1>7. IsFiniteSet(C) /\ Cardinality(C) = Cardinality(1..Len(s))
  <2>1. ExistsBijection(1..Len(s), C)
    BY <1>5 DEF ExistsBijection
  <2> QED BY <1>6, <2>1, FS_Bijection
<1>8. IsFiniteSet(Items) /\ Cardinality(Items) = ItemCount
  BY PlaylistAssumption, IntervalCardinality DEF Items
<1>9. Cardinality(C) <= Cardinality(Items)
  BY <1>2, <1>8, FS_Subset
<1>10. Cardinality(C) = Len(s)
  BY <1>6, <1>7, Zenon
<1>11. Len(s) <= ItemCount
  BY <1>8, <1>9, <1>10
<1> QED BY <1>10, <1>11 DEF C

(* A list without repetitions is no longer than the number of items.       *)
LEMMA DistinctIsShort ==
  ASSUME NEW s \in Seq(Entries), Distinct(s)
  PROVE  Len(s) <= ItemCount /\ Cardinality(Contents(s)) = Len(s)
<1>1. \A k \in DOMAIN s : s[k].item \in Items
  BY EntryFields
<1> QED BY <1>1, DistinctItems

(* c has the items of s at the indices in set, each once, in some order.   *)
Picks(c, s, set) ==
  /\ c \in Seq(Entries)
  /\ \E f \in [1..Len(c) -> set] :
       /\ \A k \in 1..Len(c) : c[k] = At(s, f[k])
       /\ \A j, k \in 1..Len(c) : f[j] = f[k] => j = k
       /\ \A n \in set : \E k \in 1..Len(c) : f[k] = n

(* The place of a chosen index among the chosen ones, counted from 1.      *)
Rank(set, n) == Cardinality(Smaller(set, n)) + 1

(* Chosen is the list of the chosen items by their ranks.                  *)
LEMMA ChosenByRank ==
  ASSUME NEW E, NEW s \in Seq(E), NEW set \in SUBSET Indices(s)
  PROVE  /\ IsFiniteSet(set) /\ Cardinality(set) \in Nat /\ Cardinality(set) <= Len(s)
         /\ Chosen(s, set) \in Seq(E) /\ Len(Chosen(s, set)) = Cardinality(set)
         /\ \A n \in set : Rank(set, n) \in 1..Cardinality(set) /\ Chosen(s, set)[Rank(set, n)] = At(s, n)
         /\ \A k \in 1..Cardinality(set) : \E n \in set : Rank(set, n) = k
         /\ \A m, n \in set : Rank(set, m) = Rank(set, n) => m = n
<1> DEFINE Nth(k) == CHOOSE n \in set : Cardinality({m \in set : m < n}) = k - 1
           c == Chosen(s, set)
<1>1. Len(s) \in Nat /\ set \in SUBSET (0..Len(s) - 1)
  BY DEF Indices
<1>2. IsFiniteSet(set) /\ set \in SUBSET Nat /\ Cardinality(set) \in Nat /\ Cardinality(set) <= Len(s)
  <2>1. IsFiniteSet(0..Len(s) - 1) /\ Cardinality(0..Len(s) - 1) = Len(s)
    <3>1. Len(s) = 0 => 0..Len(s) - 1 = {}
      OBVIOUS
    <3>2. Len(s) # 0 => Cardinality(0..Len(s) - 1) = (Len(s) - 1) - 0 + 1
      BY <1>1, FS_Interval
    <3>3. IsFiniteSet(0..Len(s) - 1)
      BY <1>1, FS_Interval
    <3>4. (Len(s) - 1) - 0 + 1 = Len(s)
      BY <1>1
    <3> QED BY <3>1, <3>2, <3>3, <3>4, FS_EmptySet
  <2>2. IsFiniteSet(set) /\ Cardinality(set) <= Cardinality(0..Len(s) - 1)
    BY <1>1, <2>1, FS_Subset
  <2>3. set \in SUBSET Nat
    BY <1>1
  <2>4. Cardinality(set) \in Nat
    BY <2>2, FS_CardinalityType
  <2> QED BY <2>1, <2>2, <2>3, <2>4
<1>3. \A n \in set : Cardinality(Smaller(set, n)) \in Nat
  <2> TAKE n \in set
  <2>1. Smaller(set, n) \in SUBSET set
    BY DEF Smaller
  <2> QED BY <1>2, <2>1, FS_Subset, FS_CardinalityType
<1>4. ASSUME NEW k \in 1..Cardinality(set)
      PROVE  Nth(k) \in set /\ Cardinality(Smaller(set, Nth(k))) = k - 1
  <2>1. \E n \in set : Cardinality({m \in set : m < n}) = k - 1
    BY <1>1, NthExists DEF Smaller
  <2> QED BY <2>1 DEF Smaller
<1>5. c = [k \in 1..Cardinality(set) |-> At(s, Nth(k))]
  BY DEF Chosen
<1> HIDE DEF Nth
<1>6. c \in Seq(E) /\ Len(c) = Cardinality(set) /\ \A k \in 1..Cardinality(set) : c[k] = At(s, Nth(k))
  <2>1. \A n \in Indices(s) : At(s, n) \in E
    BY DEF Indices, At
  <2>2. \A k \in 1..Cardinality(set) : At(s, Nth(k)) \in E
    BY <1>4, <2>1
  <2> HIDE DEF c
  <2> QED BY <1>2, <1>5, <2>2
<1> HIDE DEF c
<1>7. \A n \in set : Rank(set, n) \in 1..Cardinality(set) /\ Rank(set, n) - 1 = Cardinality(Smaller(set, n))
  <2> TAKE n \in set
  <2>1. Cardinality(Smaller(set, n)) + 1 \in 1..Cardinality(set)
    BY <1>2, SmallerInRange
  <2> QED BY <1>3, <2>1 DEF Rank
<1>8. \A m, n \in set : Rank(set, m) = Rank(set, n) => m = n
  <2> TAKE m, n \in set
  <2>1. Rank(set, m) = Rank(set, n) => Cardinality(Smaller(set, m)) = Cardinality(Smaller(set, n))
    BY <1>7
  <2> QED BY <1>2, <2>1, SmallerInRange
<1>9. ASSUME NEW n \in set PROVE c[Rank(set, n)] = At(s, n)
  <2> DEFINE k == Rank(set, n)
  <2>1. k \in 1..Cardinality(set) /\ k - 1 = Cardinality(Smaller(set, n))
    BY <1>7
  <2> HIDE DEF k
  <2>2. Nth(k) \in set /\ Cardinality(Smaller(set, Nth(k))) = Cardinality(Smaller(set, n))
    BY <1>4, <2>1
  <2>3. Nth(k) = n
    BY <1>2, <2>2, SmallerInRange
  <2> QED BY <1>6, <2>1, <2>3 DEF k
<1>10. ASSUME NEW k \in 1..Cardinality(set) PROVE \E n \in set : Rank(set, n) = k
  <2>1. Nth(k) \in set /\ Cardinality(Smaller(set, Nth(k))) = k - 1
    BY <1>4
  <2>2. Rank(set, Nth(k)) = k
    BY <2>1 DEF Rank
  <2> QED BY <2>1, <2>2
<1> QED BY <1>2, <1>6, <1>7, <1>8, <1>9, <1>10 DEF c

(* Chosen takes each named entry once, whatever order they come in.        *)
LEMMA ChosenPicks ==
  ASSUME NEW s \in Seq(Entries), NEW set \in SUBSET Indices(s)
  PROVE  Picks(Chosen(s, set), s, set)
<1> DEFINE c == Chosen(s, set)
           Nth(k) == CHOOSE n \in set : Rank(set, n) = k
           f == [k \in 1..Len(c) |-> Nth(k)]
<1>1. /\ c \in Seq(Entries) /\ Len(c) = Cardinality(set)
      /\ \A n \in set : Rank(set, n) \in 1..Cardinality(set) /\ c[Rank(set, n)] = At(s, n)
      /\ \A k \in 1..Cardinality(set) : \E n \in set : Rank(set, n) = k
      /\ \A m, n \in set : Rank(set, m) = Rank(set, n) => m = n
  BY ChosenByRank
<1> HIDE DEF c
<1>2. ASSUME NEW k \in 1..Len(c) PROVE Nth(k) \in set /\ Rank(set, Nth(k)) = k
  BY <1>1
<1> HIDE DEF Nth
<1>3. f \in [1..Len(c) -> set] /\ \A k \in 1..Len(c) : f[k] = Nth(k)
  BY <1>2
<1> HIDE DEF f
<1>4. \A k \in 1..Len(c) : c[k] = At(s, f[k])
  BY <1>1, <1>2, <1>3
<1>5. \A j, k \in 1..Len(c) : f[j] = f[k] => j = k
  BY <1>2, <1>3
<1>6. ASSUME NEW n \in set PROVE \E k \in 1..Len(c) : f[k] = n
  <2>1. Rank(set, n) \in 1..Len(c)
    BY <1>1
  <2>2. f[Rank(set, n)] = n
    BY <1>1, <1>2, <1>3, <2>1
  <2> QED BY <2>1, <2>2
<1> QED BY <1>1, <1>3, <1>4, <1>5, <1>6 DEF Picks, c

(* Two choices of different entries, one after the other, are a choice.    *)
LEMMA ConcatPicks ==
  ASSUME NEW s, NEW A, NEW B, A \cap B = {}, NEW c, NEW d, Picks(c, s, A), Picks(d, s, B)
  PROVE  Picks(c \o d, s, A \cup B)
<1>1. PICK f \in [1..Len(c) -> A] :
         /\ \A k \in 1..Len(c) : c[k] = At(s, f[k])
         /\ \A j, k \in 1..Len(c) : f[j] = f[k] => j = k
         /\ \A n \in A : \E k \in 1..Len(c) : f[k] = n
  BY DEF Picks
<1>2. PICK g \in [1..Len(d) -> B] :
         /\ \A k \in 1..Len(d) : d[k] = At(s, g[k])
         /\ \A j, k \in 1..Len(d) : g[j] = g[k] => j = k
         /\ \A n \in B : \E k \in 1..Len(d) : g[k] = n
  BY DEF Picks
<1>3. c \in Seq(Entries) /\ d \in Seq(Entries)
  BY DEF Picks
<1> DEFINE e == c \o d
<1>4. /\ e \in Seq(Entries) /\ Len(e) = Len(c) + Len(d) /\ Len(c) \in Nat /\ Len(d) \in Nat
      /\ \A k \in 1..Len(c) + Len(d) : e[k] = IF k <= Len(c) THEN c[k] ELSE d[k - Len(c)]
  BY <1>3, ConcatProperties
<1> HIDE DEF e
<1> DEFINE h == [k \in 1..Len(e) |-> IF k <= Len(c) THEN f[k] ELSE g[k - Len(c)]]
<1>5. \A k \in 1..Len(e) : k > Len(c) => k - Len(c) \in 1..Len(d)
  BY <1>4
<1>6. \A k \in 1..Len(e) : IF k <= Len(c) THEN h[k] = f[k] /\ f[k] \in A
                            ELSE h[k] = g[k - Len(c)] /\ g[k - Len(c)] \in B
  <2>1. ASSUME NEW k \in 1..Len(e), k <= Len(c) PROVE h[k] = f[k] /\ f[k] \in A
    <3>1. k \in 1..Len(c)
      BY <1>4, <2>1
    <3>2. f[k] \in A
      BY <1>1, <3>1
    <3> QED BY <2>1, <3>2
  <2>2. ASSUME NEW k \in 1..Len(e), ~(k <= Len(c)) PROVE h[k] = g[k - Len(c)] /\ g[k - Len(c)] \in B
    <3>1. k - Len(c) \in 1..Len(d)
      BY <1>4, <1>5, <2>2
    <3>2. g[k - Len(c)] \in B
      BY <1>2, <3>1
    <3> QED BY <2>2, <3>2
  <2> QED BY <2>1, <2>2
<1>7. h \in [1..Len(e) -> A \cup B]
  BY <1>6
<1> HIDE DEF h
<1>8. ASSUME NEW k \in 1..Len(e) PROVE e[k] = At(s, h[k])
  <2>1. CASE k <= Len(c)
    BY <1>1, <1>4, <1>6, <2>1
  <2>2. CASE ~(k <= Len(c))
    <3>1. k - Len(c) \in 1..Len(d)
      BY <1>4, <1>5, <2>2
    <3>2. d[k - Len(c)] = At(s, g[k - Len(c)])
      BY <1>2, <3>1
    <3> QED BY <1>4, <1>6, <2>2, <3>2
  <2> QED BY <2>1, <2>2
<1>9. ASSUME NEW j \in 1..Len(e), NEW k \in 1..Len(e), h[j] = h[k] PROVE j = k
  <2>1. CASE j <= Len(c) /\ k <= Len(c)
    BY <1>1, <1>4, <1>6, <1>9, <2>1
  <2>2. CASE ~(j <= Len(c)) /\ ~(k <= Len(c))
    <3>1. g[j - Len(c)] = g[k - Len(c)]
      BY <1>6, <1>9, <2>2
    <3>2. j - Len(c) \in 1..Len(d) /\ k - Len(c) \in 1..Len(d)
      BY <1>4, <1>5, <2>2
    <3>3. j - Len(c) = k - Len(c)
      BY <1>2, <3>1, <3>2
    <3> QED BY <1>4, <3>3
  <2>3. CASE (j <= Len(c)) # (k <= Len(c))
    BY <1>6, <1>9, <2>3
  <2> QED BY <2>1, <2>2, <2>3
<1>10. ASSUME NEW n \in A \cup B PROVE \E k \in 1..Len(e) : h[k] = n
  <2>1. CASE n \in A
    <3>1. PICK k \in 1..Len(c) : f[k] = n
      BY <1>1, <2>1
    <3>2. k \in 1..Len(e) /\ k <= Len(c)
      BY <1>4
    <3> QED BY <1>6, <3>1, <3>2
  <2>2. CASE n \in B
    <3>1. PICK k \in 1..Len(d) : g[k] = n
      BY <1>2, <2>2
    <3>2. k + Len(c) \in 1..Len(e) /\ ~(k + Len(c) <= Len(c)) /\ (k + Len(c)) - Len(c) = k
      BY <1>4
    <3> QED BY <1>6, <3>1, <3>2
  <2> QED BY <2>1, <2>2
<1> QED BY <1>4, <1>7, <1>8, <1>9, <1>10 DEF Picks, e

(* A list as the model keeps it: every index is the place of its item.     *)
Proper(s) ==
  s \in Seq(Entries) /\ Distinct(s) /\ \A k \in DOMAIN s : s[k].index = k - 1

(* A list to become the model's: no item and no index comes twice.         *)
Unique(c) ==
  c \in Seq(Entries) /\ Distinct(c) /\ \A j, k \in DOMAIN c : c[j].index = c[k].index => j = k

(* In a proper list (indices renumbered, no item twice) an entry knows its *)
(* place.                                                                  *)
LEMMA ProperAt ==
  ASSUME NEW s, Proper(s), NEW n \in Indices(s)
  PROVE  At(s, n).index = n /\ n \in Rows /\ At(s, n).item \in Contents(s)
<1>1. s \in Seq(Entries) /\ n + 1 \in DOMAIN s /\ n \in Nat
  BY ListBasics DEF Proper
<1>2. At(s, n).index = (n + 1) - 1 /\ (n + 1) - 1 = n
  BY <1>1 DEF Proper, At
<1>3. At(s, n).index \in Rows
  BY <1>1, ListBasics, EntryFields
<1>4. At(s, n).item \in Contents(s)
  BY <1>1 DEF Contents, At
<1> QED BY <1>2, <1>3, <1>4

(* A proper list holds no index and no item twice.                         *)
LEMMA ProperIsUnique ==
  ASSUME NEW s, Proper(s)
  PROVE  Unique(s)
<1>1. s \in Seq(Entries) /\ DOMAIN s = 1..Len(s) /\ Len(s) \in Nat
  BY ListBasics DEF Proper
<1>2. ASSUME NEW j \in DOMAIN s, NEW k \in DOMAIN s, s[j].index = s[k].index PROVE j = k
  <2>1. j - 1 = k - 1
    BY <1>2 DEF Proper
  <2> QED BY <1>1, <2>1
<1> QED BY <1>1, <1>2 DEF Unique, Proper

PickedFrom(c, s, set) ==
  /\ \A k \in DOMAIN c : c[k].index \in set /\ c[k] = At(s, c[k].index)
  /\ \A n \in set : \E k \in DOMAIN c : c[k].index = n
  /\ \A x : x \in Contents(c) <=> \E n \in set : x = At(s, n).item

(* Neither does any choice of its entries.                                 *)
LEMMA PicksAreUnique ==
  ASSUME NEW s, Proper(s), NEW set \in SUBSET Indices(s), NEW c, Picks(c, s, set)
  PROVE  Unique(c) /\ PickedFrom(c, s, set)
<1>1. PICK f \in [1..Len(c) -> set] :
         /\ \A k \in 1..Len(c) : c[k] = At(s, f[k])
         /\ \A j, k \in 1..Len(c) : f[j] = f[k] => j = k
         /\ \A n \in set : \E k \in 1..Len(c) : f[k] = n
  BY DEF Picks
<1>2. c \in Seq(Entries) /\ DOMAIN c = 1..Len(c)
  BY DEF Picks
<1>3. \A n \in set : At(s, n).index = n
  BY ProperAt
<1>4. \A k \in DOMAIN c : c[k].index = f[k] /\ f[k] \in set /\ c[k] = At(s, f[k])
  BY <1>1, <1>2, <1>3
<1>5. ASSUME NEW j \in DOMAIN c, NEW k \in DOMAIN c, c[j].item = c[k].item PROVE j = k
  <2>1. At(s, f[j]).item = At(s, f[k]).item /\ f[j] \in Indices(s) /\ f[k] \in Indices(s)
    BY <1>4, <1>5
  <2>2. s[f[j] + 1].item = s[f[k] + 1].item /\ f[j] + 1 \in DOMAIN s /\ f[k] + 1 \in DOMAIN s
    BY <2>1, ListBasics DEF At, Proper
  <2>3. f[j] + 1 = f[k] + 1
    BY <2>2 DEF Proper, Distinct
  <2>4. f[j] \in Nat /\ f[k] \in Nat
    BY <2>1, ListBasics DEF Proper
  <2> QED BY <1>1, <1>2, <2>3, <2>4
<1>6. Unique(c)
  BY <1>1, <1>2, <1>4, <1>5 DEF Unique, Distinct
<1>7. \A n \in set : \E k \in DOMAIN c : c[k].index = n
  BY <1>1, <1>2, <1>4
<1>8. \A x : x \in Contents(c) <=> \E n \in set : x = At(s, n).item
  BY <1>1, <1>2, <1>4 DEF Contents
<1> QED BY <1>4, <1>6, <1>7, <1>8 DEF PickedFrom

(* The new list and the map of a replacement.                              *)
LEMMA Replacement ==
  ASSUME NEW c, Unique(c)
  PROVE  /\ Proper(Reindexed(c)) /\ Len(Reindexed(c)) = Len(c)
         /\ Contents(Reindexed(c)) = Contents(c)
         /\ IndicesChanges(c) \in Maps
         /\ DOMAIN IndicesChanges(c) = {c[k].index : k \in DOMAIN c}
         /\ \A k \in DOMAIN c :
              /\ IndicesChanges(c)[c[k].index] = k - 1 /\ k - 1 \in Indices(Reindexed(c))
              /\ At(Reindexed(c), k - 1).item = c[k].item
<1> DEFINE r == Reindexed(c)  m == IndicesChanges(c)
<1>1. c \in Seq(Entries) /\ DOMAIN c = 1..Len(c) /\ Len(c) \in Nat /\ Len(c) <= ItemCount
  BY ListBasics, DistinctIsShort DEF Unique
<1>2. \A k \in DOMAIN c : c[k].item \in Items /\ c[k].index \in Rows /\ k - 1 \in Rows
  BY <1>1, EntryFields, PlaylistAssumption DEF Rows
<1>3. r = [k \in 1..Len(c) |-> [item |-> c[k].item, index |-> k - 1]]
  BY <1>1 DEF Reindexed, IndexedItem
<1>4. /\ r \in Seq(Entries) /\ Len(r) = Len(c) /\ DOMAIN r = DOMAIN c
      /\ \A k \in DOMAIN c : r[k].item = c[k].item /\ r[k].index = k - 1
  <2>1. \A k \in 1..Len(c) : [item |-> c[k].item, index |-> k - 1] \in Entries
    BY <1>1, <1>2 DEF Entries
  <2> HIDE DEF r
  <2> QED BY <1>1, <1>3, <2>1
<1> HIDE DEF r
<1>5. Proper(r)
  BY <1>4 DEF Proper, Unique, Distinct
<1>6. Contents(r) = Contents(c)
  BY <1>4 DEF Contents
<1>7. ASSUME NEW k \in DOMAIN c PROVE Min({l \in DOMAIN c : c[l].index = c[k].index}) = k
  <2>1. {l \in DOMAIN c : c[l].index = c[k].index} = {k}
    BY DEF Unique
  <2>2. Min({k}) = k
    BY <1>1 DEF Min
  <2> QED BY <2>1, <2>2, Zenon
<1>8. DOMAIN m = {c[k].index : k \in DOMAIN c} /\ \A k \in DOMAIN c : m[c[k].index] = k - 1
  BY <1>7 DEF IndicesChanges
<1>9. m = [old \in DOMAIN m |-> m[old]]
  BY DEF IndicesChanges
<1> HIDE DEF m
<1>10. DOMAIN m \in SUBSET Rows /\ \A old \in DOMAIN m : m[old] \in Rows
  BY <1>2, <1>8
<1>11. m \in Maps
  BY <1>9, <1>10 DEF Maps
<1>12. \A k \in DOMAIN c : k - 1 \in Indices(r) /\ At(r, k - 1).item = c[k].item
  BY <1>1, <1>4 DEF Indices, At
<1> QED BY <1>4, <1>5, <1>6, <1>8, <1>11, <1>12 DEF r, m

(* New items at the end of a proper list leave it proper.                  *)
LEMMA AddedIsProper ==
  ASSUME NEW s, Proper(s), NEW n \in Nat, found \in Nat, found + n <= ItemCount,
         Contents(s) \in SUBSET (1..found)
  PROVE  LET a == Added(s, New(n))
         IN  /\ Proper(a) /\ Len(a) = Len(s) + n
             /\ Contents(a) = Contents(s) \cup (found + 1..found + n)
             /\ \A k \in DOMAIN s : k \in DOMAIN a /\ a[k] = s[k]
<1> DEFINE d == [k \in 1..n |-> [item |-> found + k, index |-> Len(s) + k - 1]]
           a == s \o d
<1>1. s \in Seq(Entries) /\ Len(s) \in Nat /\ DOMAIN s = 1..Len(s)
  BY ListBasics DEF Proper
<1>2. Added(s, New(n)) = a
  <2>1. DOMAIN New(n) = 1..n /\ \A k \in 1..n : New(n)[k] = found + k
    BY DEF New
  <2> QED BY <2>1 DEF Added, IndexedItem
<1> DEFINE E == [item : Nat, index : Nat]
<1>3. d \in Seq(E) /\ Len(d) = n /\ \A k \in 1..n : d[k].item = found + k /\ d[k].index = (Len(s) + k) - 1
  <2>1. \A k \in 1..n : [item |-> found + k, index |-> (Len(s) + k) - 1] \in E /\ (Len(s) + k) - 1 = Len(s) + k - 1
    BY <1>1
  <2>2. \A k \in 1..n : d[k].item = found + k /\ d[k].index = (Len(s) + k) - 1
    BY <2>1
  <2>3. d = [k \in 1..n |-> d[k]]
    OBVIOUS
  <2>4. \A k \in 1..n : d[k] = [item |-> found + k, index |-> (Len(s) + k) - 1]
    BY <2>1
  <2> HIDE DEF E, d
  <2>5. \A k \in 1..n : d[k] \in E
    BY <2>1, <2>4
  <2>6. d \in Seq(E) /\ Len(d) = n
    BY <2>3, <2>5, SeqByLength
  <2> QED BY <2>2, <2>6
<1> HIDE DEF d
<1>4. s \in Seq(E)
  <2>1. Entries \subseteq E
    BY PlaylistAssumption DEF Entries, Items, Rows
  <2> HIDE DEF E
  <2> QED BY <1>1, <2>1
<1> HIDE DEF E
<1>5. /\ a \in Seq(E) /\ Len(a) = Len(s) + n
      /\ \A k \in 1..Len(s) + n : a[k] = IF k <= Len(s) THEN s[k] ELSE d[k - Len(s)]
  BY <1>1, <1>3, <1>4, ConcatProperties
<1>6. DOMAIN a = 1..Len(s) + n
  BY <1>5
<1> HIDE DEF a
<1>7. ASSUME NEW k \in DOMAIN a, k <= Len(s)
      PROVE  k \in DOMAIN s /\ a[k] = s[k] /\ s[k].item \in 1..found /\ s[k].index = k - 1
  <2>1. k \in DOMAIN s /\ a[k] = s[k]
    BY <1>1, <1>5, <1>6, <1>7
  <2> QED BY <2>1 DEF Proper, Contents
<1>8. ASSUME NEW k \in DOMAIN a, ~(k <= Len(s))
      PROVE  /\ k - Len(s) \in 1..n /\ a[k].item = found + (k - Len(s)) /\ a[k].index = k - 1
  <2>1. k - Len(s) \in 1..n /\ k \in Nat
    BY <1>1, <1>6, <1>8
  <2>2. a[k] = d[k - Len(s)]
    BY <1>5, <1>6, <1>8
  <2>3. (Len(s) + (k - Len(s))) - 1 = k - 1
    BY <1>1, <2>1
  <2> QED BY <1>3, <2>1, <2>2, <2>3
<1>9. \A k \in DOMAIN s : k \in DOMAIN a /\ k <= Len(s)
  BY <1>1, <1>6
<1>10. Contents(a) = Contents(s) \cup (found + 1..found + n)
  <2>1. ASSUME NEW x \in Contents(a) PROVE x \in Contents(s) \cup (found + 1..found + n)
    <3>1. PICK k \in DOMAIN a : x = a[k].item
      BY DEF Contents
    <3>2. CASE k <= Len(s)
      BY <1>7, <3>1, <3>2 DEF Contents
    <3>3. CASE ~(k <= Len(s))
      BY <1>8, <3>1, <3>3
    <3> QED BY <3>2, <3>3
  <2>2. ASSUME NEW x \in Contents(s) PROVE x \in Contents(a)
    <3>1. PICK k \in DOMAIN s : x = s[k].item
      BY DEF Contents
    <3> QED BY <1>7, <1>9, <3>1 DEF Contents
  <2>3. ASSUME NEW x \in found + 1..found + n PROVE x \in Contents(a)
    <3>1. /\ Len(s) + (x - found) \in DOMAIN a /\ ~(Len(s) + (x - found) <= Len(s))
          /\ (Len(s) + (x - found)) - Len(s) = x - found /\ found + (x - found) = x
      BY <1>1, <1>6
    <3>2. a[Len(s) + (x - found)].item = x
      BY <1>8, <3>1
    <3> QED BY <3>1, <3>2 DEF Contents
  <2> QED BY <2>1, <2>2, <2>3
<1>11. \A k \in DOMAIN a : a[k].item \in 1..found + n /\ a[k].index = k - 1
  BY <1>7, <1>8
<1>12. ASSUME NEW j \in DOMAIN a, NEW k \in DOMAIN a, a[j].item = a[k].item PROVE j = k
  <2>1. CASE j <= Len(s) /\ k <= Len(s)
    BY <1>7, <1>12, <2>1 DEF Proper, Distinct
  <2>2. CASE ~(j <= Len(s)) /\ ~(k <= Len(s))
    <3>1. found + (j - Len(s)) = found + (k - Len(s))
      BY <1>8, <1>12, <2>2
    <3> QED BY <1>1, <1>6, <3>1
  <2>3. CASE j <= Len(s) /\ ~(k <= Len(s))
    BY <1>7, <1>8, <1>12, <2>3
  <2>4. CASE ~(j <= Len(s)) /\ k <= Len(s)
    BY <1>7, <1>8, <1>12, <2>4
  <2> QED BY <2>1, <2>2, <2>3, <2>4
<1>13. Len(s) + n <= ItemCount
  <2>1. Distinct(a) /\ \A k \in DOMAIN a : a[k].item \in Items
    BY <1>11, <1>12, PlaylistAssumption DEF Distinct, Items
  <2> QED BY <1>5, <2>1, DistinctItems
<1>14. a \in Seq(Entries)
  <2>1. \A k \in DOMAIN a : a[k] \in E /\ a[k].item \in Items /\ a[k].index \in Rows
    BY <1>5, <1>6, <1>11, <1>13, PlaylistAssumption DEF Items, Rows
  <2>2. \A k \in DOMAIN a : a[k] \in Entries
    BY <2>1 DEF E, Entries
  <2> QED BY <1>5, <1>6, <2>2
<1> QED BY <1>2, <1>5, <1>7, <1>9, <1>10, <1>11, <1>12, <1>14 DEF Proper, Distinct

-----------------------------------------------------------------------------
(* The modifications of the user.                                          *)

(* The library's Min and Max are what they say, for sets of numbers.       *)
LEMMA MinAndMax ==
  ASSUME NEW S \in SUBSET Nat, S # {}
  PROVE  /\ Min(S) \in S /\ \A y \in S : Min(S) <= y
         /\ \A b \in Nat : (\A y \in S : y <= b) => Max(S) \in S /\ \A y \in S : y <= Max(S)
<1>1. \E x \in S : \A y \in S : x <= y
  BY LeastExists
<1>2. ASSUME NEW b \in Nat, \A y \in S : y <= b PROVE \E x \in S : \A y \in S : x >= y
  <2>1. PICK x \in S : \A y \in S : y <= x
    BY <1>2, GreatestExists
  <2> QED BY <2>1
<1>3. Min(S) \in S /\ \A y \in S : Min(S) <= y
  BY <1>1 DEF Min
<1>4. ASSUME NEW b \in Nat, \A y \in S : y <= b PROVE Max(S) \in S /\ \A y \in S : y <= Max(S)
  <2>1. Max(S) \in S /\ \A y \in S : Max(S) >= y
    BY <1>2, <1>4 DEF Max
  <2> QED BY <2>1
<1> QED BY <1>3, <1>4

(* A list is a choice of all its entries.                                  *)
LEMMA WholePicks ==
  ASSUME NEW s \in Seq(Entries)
  PROVE  Picks(s, s, Indices(s))
<1> DEFINE f == [k \in 1..Len(s) |-> k - 1]
<1>1. Len(s) \in Nat /\ f \in [1..Len(s) -> Indices(s)] /\ \A k \in 1..Len(s) : f[k] = k - 1
  BY ListBasics
<1>2. \A k \in 1..Len(s) : s[k] = At(s, f[k])
  <2>1. \A k \in 1..Len(s) : (k - 1) + 1 = k
    OBVIOUS
  <2> QED BY <1>1, <2>1 DEF At
<1>3. \A j, k \in 1..Len(s) : f[j] = f[k] => j = k
  BY <1>1
<1>4. \A n \in Indices(s) : n + 1 \in 1..Len(s) /\ f[n + 1] = n
  BY <1>1, ListBasics
<1> HIDE DEF f
<1>5. \A n \in Indices(s) : \E k \in 1..Len(s) : f[k] = n
  BY <1>4
<1> QED BY <1>1, <1>2, <1>3, <1>5 DEF Picks

(* Removed leaves a choice of the entries that were not named.             *)
LEMMA RemovedPicks ==
  ASSUME NEW s \in Seq(Entries), NEW set
  PROVE  Picks(Removed(s, set), s, Indices(s) \ set)
BY ChosenPicks DEF Removed

(* Every item has a place in the list that was moved around.               *)
LEMMA MovedPicks ==
  ASSUME NEW s \in Seq(Entries), NEW set \in SUBSET Indices(s), NEW target \in 0..Len(s)
  PROVE  Picks(Moved(s, set, target), s, Indices(s))
<1> DEFINE p == MoveTarget(s, set, target)
           A == (0..p - 1) \ set
           C == (p..Len(s) - 1) \ set
<1>1. Len(s) \in Nat
  OBVIOUS
<1>2. p \in 0..Len(s)
  <2> DEFINE S == (target..Len(s)) \ set
  <2>1. S \in SUBSET Nat /\ S \in SUBSET (0..Len(s)) /\ Len(s) \in S
    BY <1>1 DEF Indices
  <2> HIDE DEF S
  <2>2. Min(S) \in S
    BY <2>1, MinAndMax
  <2> QED BY <2>1, <2>2 DEF MoveTarget, S
<1> HIDE DEF p
<1>3. /\ A \in SUBSET Indices(s) /\ C \in SUBSET Indices(s) /\ A \cap set = {}
      /\ (A \cup set) \cap C = {} /\ (A \cup set) \cup C = Indices(s)
  <2>1. p \in Nat /\ p <= Len(s)
    BY <1>1, <1>2
  <2>2. Indices(s) = 0..Len(s) - 1
    BY DEF Indices
  <2>3. A \in SUBSET Indices(s) /\ C \in SUBSET Indices(s)
    BY <1>1, <2>1, <2>2
  <2>4. \A n \in A : n \notin C
    BY <2>1
  <2>5. \A n \in Indices(s) : n \in A \/ n \in set \/ n \in C
    BY <1>1, <2>1, <2>2
  <2>6. A \cap set = {} /\ C \cap set = {}
    OBVIOUS
  <2> HIDE DEF A, C
  <2> QED BY <2>3, <2>4, <2>5, <2>6
<1> HIDE DEF A, C
<1>4. Picks(Chosen(s, A), s, A) /\ Picks(Chosen(s, set), s, set) /\ Picks(Chosen(s, C), s, C)
  BY <1>3, ChosenPicks
<1>5. Picks(Chosen(s, A) \o Chosen(s, set), s, A \cup set)
  BY <1>3, <1>4, ConcatPicks
<1>6. Picks((Chosen(s, A) \o Chosen(s, set)) \o Chosen(s, C), s, Indices(s))
  <2>1. Picks((Chosen(s, A) \o Chosen(s, set)) \o Chosen(s, C), s, (A \cup set) \cup C)
    BY <1>3, <1>4, <1>5, ConcatPicks
  <2> QED BY <1>3, <2>1
<1>7. Moved(s, set, target) = IF set = {} THEN s ELSE (Chosen(s, A) \o Chosen(s, set)) \o Chosen(s, C)
  BY DEF Moved, p, A, C
<1> QED BY <1>6, <1>7, WholePicks

(* The index that takes the place of one that is gone.                     *)
LEMMA NewIndex ==
  ASSUME NEW map \in Maps, map # NoMap, NEW i \in Nat
  PROVE  /\ DOMAIN map # {}
         /\ \E n \in DOMAIN map : FindNewSuitableIndex(map, i) = map[n]
         /\ FindNewSuitableIndex(map, i) \in Rows
<1>1. DOMAIN map \in SUBSET Rows /\ map \in [DOMAIN map -> Rows]
  BY DEF Maps
<1>2. DOMAIN map # {}
  <2>1. ASSUME DOMAIN map = {} PROVE map = <<>>
    BY <1>1, <2>1
  <2> QED BY <2>1 DEF NoMap
<1>3. DOMAIN map \in SUBSET Nat /\ \A y \in DOMAIN map : y <= ItemCount
  BY <1>1, PlaylistAssumption DEF Rows
<1> DEFINE next == {n \in DOMAIN map : n >= i}
<1>4. next # {} => Min(next) \in DOMAIN map
  <2>1. next \in SUBSET DOMAIN map
    OBVIOUS
  <2> HIDE DEF next
  <2> QED BY <1>3, <2>1, MinAndMax
<1>5. Max(DOMAIN map) \in DOMAIN map
  BY <1>2, <1>3, MinAndMax, PlaylistAssumption
<1>6. FindNewSuitableIndex(map, i) = map[IF next # {} THEN Min(next) ELSE Max(DOMAIN map)]
  BY DEF FindNewSuitableIndex
<1> HIDE DEF next
<1> QED BY <1>1, <1>2, <1>4, <1>5, <1>6

(* A sort leaves a choice of all the entries.                              *)
LEMMA SortedPicks ==
  ASSUME NEW s \in Seq(Entries), NEW order \in Bijection(DOMAIN s, DOMAIN s)
  PROVE  Picks([k \in DOMAIN s |-> s[order[k]]], s, Indices(s))
<1> DEFINE c == [k \in DOMAIN s |-> s[order[k]]]
           f == [k \in 1..Len(s) |-> order[k] - 1]
<1>1. /\ Len(s) \in Nat /\ DOMAIN s = 1..Len(s) /\ order \in [1..Len(s) -> 1..Len(s)]
      /\ \A j, k \in 1..Len(s) : order[j] = order[k] => j = k
      /\ \A k \in 1..Len(s) : \E j \in 1..Len(s) : order[j] = k
  <2>1. Len(s) \in Nat /\ DOMAIN s = 1..Len(s)
    OBVIOUS
  <2> QED BY <2>1 DEF Bijection, Injection, Surjection, IsInjective
<1>2. c \in Seq(Entries) /\ Len(c) = Len(s) /\ \A k \in 1..Len(s) : c[k] = s[order[k]]
  BY <1>1, SeqByLength
<1> HIDE DEF c
<1>3. f \in [1..Len(s) -> Indices(s)] /\ \A k \in 1..Len(s) : f[k] = order[k] - 1 /\ f[k] + 1 = order[k]
  <2>1. ASSUME NEW k \in 1..Len(s) PROVE order[k] - 1 \in Indices(s) /\ (order[k] - 1) + 1 = order[k]
    <3>1. order[k] \in 1..Len(s)
      BY <1>1
    <3> QED BY <1>1, <3>1 DEF Indices
  <2> QED BY <2>1
<1> HIDE DEF f
<1>4. \A k \in 1..Len(s) : c[k] = At(s, f[k])
  BY <1>2, <1>3 DEF At
<1>5. \A j, k \in 1..Len(s) : f[j] = f[k] => j = k
  BY <1>1, <1>3
<1>6. ASSUME NEW n \in Indices(s) PROVE \E k \in 1..Len(s) : f[k] = n
  <2>1. n + 1 \in 1..Len(s) /\ n \in Nat
    BY ListBasics
  <2>2. PICK k \in 1..Len(s) : order[k] = n + 1
    BY <1>1, <2>1
  <2> QED BY <1>3, <2>1, <2>2
<1>7. Picks(c, s, Indices(s))
  BY <1>2, <1>3, <1>4, <1>5, <1>6 DEF Picks
<1> QED BY <1>7 DEF c

-----------------------------------------------------------------------------
(* The list of the model and what takes its place.                         *)

(* What the type and list invariants say of the model's list.              *)
LEMMA Lists ==
  ASSUME TypeOK, ListInv
  PROVE  /\ Proper(items) /\ clone \in Seq(Entries) /\ items \in Seq(Entries)
         /\ Len(items) \in Nat /\ Len(items) <= ItemCount /\ Indices(items) \in SUBSET Rows
         /\ Contents(items) \in SUBSET (1..found) /\ found \in Nat /\ found <= ItemCount
         /\ Cardinality(Contents(items)) = Len(items)
<1>1. items \in Seq(Entries) /\ clone \in Seq(Entries) /\ found \in 0..ItemCount
  BY DEF TypeOK
<1>2. Proper(items) /\ Distinct(items)
  BY <1>1 DEF ListInv, Proper
<1>3. Contents(items) \in SUBSET (1..found)
  BY DEF ListInv
<1>4. Len(items) \in Nat /\ Len(items) <= ItemCount /\ Cardinality(Contents(items)) = Len(items)
  BY <1>1, <1>2, DistinctIsShort
<1>5. Indices(items) \in SUBSET Rows
  BY <1>2, ProperAt
<1> QED BY <1>1, <1>2, <1>3, <1>4, <1>5, PlaylistAssumption

(* What replacing the list by a choice of its entries does: the list is    *)
(* proper again, and the map sends every old index to the new place of the *)
(* same item.                                                              *)
LEMMA ReplaceStep ==
  ASSUME TypeOK, NEW t \in {"gui", "op", "scan"}, NEW c, Unique(c), Replace(t, c)
  PROVE  /\ Proper(items') /\ items' \in Seq(Entries) /\ Len(items') = Len(c) /\ fetched' = Len(items')
         /\ Contents(items') = Contents(c)
         /\ remap' \in [{"gui", "op", "scan"} -> Maps]
         /\ \A u \in {"gui", "op", "scan"} : u # t => remap'[u] = remap[u]
         /\ DOMAIN remap'[t] = {c[k].index : k \in DOMAIN c}
         /\ \A k \in DOMAIN c :
              /\ remap'[t][c[k].index] = k - 1 /\ k - 1 \in Indices(items')
              /\ At(items', k - 1).item = c[k].item
<1> DEFINE m == IndicesChanges(c)  r == Reindexed(c)
<1>1. /\ Proper(r) /\ Len(r) = Len(c) /\ Contents(r) = Contents(c)
      /\ m \in Maps /\ DOMAIN m = {c[k].index : k \in DOMAIN c}
      /\ \A k \in DOMAIN c :
           /\ m[c[k].index] = k - 1 /\ k - 1 \in Indices(r)
           /\ At(r, k - 1).item = c[k].item
  BY Replacement
<1>2. items' = r /\ fetched' = Len(c) /\ remap' = [remap EXCEPT ![t] = m]
  BY DEF Replace
<1>3. remap \in [{"gui", "op", "scan"} -> Maps]
  BY DEF TypeOK
<1> HIDE DEF m, r
<1>4. remap'[t] = m /\ \A u \in {"gui", "op", "scan"} : u # t => remap'[u] = remap[u]
  BY <1>2, <1>3
<1>5. remap' \in [{"gui", "op", "scan"} -> Maps]
  BY <1>1, <1>2, <1>3
<1>6. r \in Seq(Entries)
  BY <1>1 DEF Proper
<1>7. items' = r /\ fetched' = Len(items')
  BY <1>1, <1>2
<1> HIDE <1>2
<1> QED BY <1>1, <1>4, <1>5, <1>6, <1>7

(* What the user's modification leaves.                                    *)
LEMMA ModifyResult ==
  ASSUME TypeOK, ListInv, CallInv, gpc = "modify", ~OutOfRange
  PROVE  /\ Unwanted \in SUBSET Indices(items) /\ Picks(Result, items, Indices(items) \ Unwanted)
         /\ Unique(Result)
<1>1. items \in Seq(Entries) /\ Proper(items)
  BY Lists
<1>2. gcall.op \in {"Clear", "RemoveItems", "MoveItems"}
  BY DEF CallInv
<1>3. Unwanted \in SUBSET Indices(items) /\ Picks(Result, items, Indices(items) \ Unwanted)
  <2>1. CASE gcall.op = "Clear"
    <3>1. Result = <<>> /\ Unwanted = Indices(items)
      BY <2>1 DEF Result, Unwanted
    <3>2. Picks(<<>>, items, {})
      <4>1. <<>> \in Seq(Entries) /\ Len(<<>>) = 0
        OBVIOUS
      <4>2. \E f \in [1..0 -> {}] : TRUE
        BY [x \in 1..0 |-> 0] \in [1..0 -> {}]
      <4> QED BY <4>1, <4>2 DEF Picks
    <3> QED BY <3>1, <3>2
  <2>2. CASE gcall.op = "RemoveItems"
    <3>1. Result = Removed(items, gcall.set) /\ Unwanted = gcall.set \cap Indices(items)
      BY <2>2 DEF Result, Unwanted
    <3>2. Picks(Result, items, Indices(items) \ gcall.set)
      BY <1>1, <3>1, RemovedPicks
    <3>3. Indices(items) \ gcall.set = Indices(items) \ Unwanted
      BY <3>1
    <3> QED BY <3>1, <3>2, <3>3
  <2>3. CASE gcall.op = "MoveItems"
    <3>1. Result = Moved(items, gcall.set, gcall.target) /\ Unwanted = {}
      BY <2>3 DEF Result, Unwanted
    <3>2. gcall.set \in SUBSET Indices(items) /\ gcall.target \in 0..Len(items)
      <4>1. gcall \in [op : {"MoveItems"}, set : SUBSET Rows, target : 0..ItemCount]
        BY <2>3 DEF TypeOK, Calls, NoCall, Operations
      <4>2. gcall.set \subseteq Indices(items) /\ gcall.target <= Len(items)
        BY <2>3 DEF CallInv
      <4> QED BY <1>1, <4>1, <4>2, PlaylistAssumption
    <3>3. Picks(Result, items, Indices(items))
      BY <1>1, <3>1, <3>2, MovedPicks
    <3> QED BY <3>1, <3>3
  <2> QED BY <1>2, <2>1, <2>2, <2>3
<1>4. Unique(Result)
  BY <1>1, <1>3, PicksAreUnique
<1> QED BY <1>3, <1>4

(* What a scan adds.                                                       *)
LEMMA AddResult ==
  ASSUME TypeOK, ListInv, NEW n \in Nat, found + n <= ItemCount
  PROVE  LET a == Added(items, New(n))
         IN  /\ Proper(a) /\ Unique(a) /\ a \in Seq(Entries) /\ Len(a) = Len(items) + n
             /\ Contents(a) = Contents(items) \cup (found + 1..found + n)
             /\ \A k \in DOMAIN items : k \in DOMAIN a /\ a[k] = items[k]
<1>1. Proper(items) /\ found \in Nat /\ Contents(items) \in SUBSET (1..found)
  BY Lists
<1> DEFINE a == Added(items, New(n))
<1>2. /\ Proper(a) /\ Len(a) = Len(items) + n
      /\ Contents(a) = Contents(items) \cup (found + 1..found + n)
      /\ \A k \in DOMAIN items : k \in DOMAIN a /\ a[k] = items[k]
  BY <1>1, AddedIsProper
<1> HIDE DEF a
<1>3. Unique(a) /\ a \in Seq(Entries)
  BY <1>2, ProperIsUnique DEF Proper
<1> QED BY <1>2, <1>3 DEF a

-----------------------------------------------------------------------------
(* Types.                                                                  *)

(* The signals of the model are of the type of the queue.                  *)
LEMMA SignalTypes ==
  /\ \A t \in {"OperationStarted", "OperationStopped", "selected"} : Signal(t) \in Signals
  /\ \A set \in SUBSET Rows : [type |-> "ResultAcquired", set |-> set] \in Signals
  /\ \A map \in Maps : [type |-> "indices", map |-> map] \in Signals
  /\ NoMap \in Maps
<1>1. NoMap \in [{} -> Rows]
  BY DEF NoMap
<1>2. NoMap \in Maps
  BY <1>1 DEF Maps
<1> QED BY <1>2 DEF Signals, Signal

(* Both iterator updates keep the iterator's types.                        *)
LEMMA UpdateTypes ==
  ASSUME TypeOK, ListInv, NEW map \in Maps, NEW queue, NEW direct \in BOOLEAN,
         UpdateIndices(map, queue, direct)
  PROVE  index' \in {NO_INDEX} \cup Rows /\ current' \in {0} \cup Items /\ crossed' \in BOOLEAN
<1>1. /\ index \in {NO_INDEX} \cup Rows /\ current \in {0} \cup Items /\ crossed \in BOOLEAN
  BY DEF TypeOK
<1>2. \A n \in Indices(items) : n \in Rows /\ At(items, n).item \in Items
  BY Lists, ListBasics, EntryFields
<1>3. InFlight(queue) \in BOOLEAN
  BY DEF InFlight
<1>4. CASE index = NO_INDEX /\ SelectItem(0, queue)
  BY <1>1, <1>2, <1>3, <1>4 DEF SelectItem, iterVars
<1>5. CASE index # NO_INDEX /\ index \in DOMAIN map /\ index' = map[index] /\ UNCHANGED current
             /\ crossed' = (crossed \/ (direct /\ InFlight(queue)))
  <2>1. map[index] \in Rows
    BY <1>5 DEF Maps
  <2> QED BY <1>1, <1>5, <2>1
<1>6. ASSUME index # NO_INDEX,
             IF map # NoMap /\ FindNewSuitableIndex(map, index) \in Indices(items)
               THEN Replaced(FindNewSuitableIndex(map, index), queue)
               ELSE index' = NO_INDEX /\ current' = 0 /\ UNCHANGED crossed
      PROVE  index' \in {NO_INDEX} \cup Rows /\ current' \in {0} \cup Items /\ crossed' \in BOOLEAN
  BY <1>1, <1>2, <1>3, <1>6 DEF Replaced
<1> QED BY <1>4, <1>5, <1>6 DEF UpdateIndices

(* Selecting an item keeps the iterator's types.                           *)
LEMMA SelectTypes ==
  ASSUME TypeOK, ListInv, NEW n, NEW queue, SelectItem(n, queue)
  PROVE  index' \in {NO_INDEX} \cup Rows /\ current' \in {0} \cup Items /\ crossed' \in BOOLEAN
<1>1. \A m \in Indices(items) : m \in Rows /\ At(items, m).item \in Items
  BY Lists, ListBasics, EntryFields
<1>2. InFlight(queue) \in BOOLEAN
  BY DEF InFlight
<1> QED BY <1>1, <1>2 DEF SelectItem, TypeOK, iterVars

(* Every step keeps the types.                                             *)
LEMMA TypeStep ==
  ASSUME TypeOK, ListInv, CloneInv, CallInv, [Next]_vars
  PROVE  TypeOK'
<1>l. /\ Proper(items) /\ Len(items) \in Nat /\ Len(items) <= ItemCount
      /\ Indices(items) \in SUBSET Rows /\ found \in Nat
  BY Lists
<1>r. ItemCount \in Nat /\ MaxCalls \in Nat /\ Rows = 0..ItemCount - 1
  BY PlaylistAssumption DEF Rows
<1>h. Received => /\ Head(events) \in Signals /\ events' \in Seq(Signals)
  <2>1. events \in Seq(Signals)
    BY DEF TypeOK
  <2> QED BY <2>1 DEF Received
<1>t. events \in Seq(Signals) /\ remap \in [{"gui", "op", "scan"} -> Maps] /\ fetched \in 0..Len(items)
  BY DEF TypeOK
<1>b. ASSUME NEW to \in {"modify", "perform"}, NEW call \in Calls, Begin(to, call) PROVE TypeOK'
  <2>1. calls' \in 0..MaxCalls
    BY <1>b, <1>r DEF Begin, TypeOK
  <2> QED BY <1>b, <2>1 DEF Begin, TypeOK, listVars, iterVars, opVars, scanVars
<1>1. CASE Modification
  <2>1. 0..fetched - 1 \in SUBSET Rows /\ 0..fetched \in SUBSET (0..ItemCount)
    BY <1>t, <1>l, <1>r
  <2>2. [op |-> "Clear"] \in Calls
    BY DEF Calls
  <2>3. ASSUME NEW set \in SUBSET (0..fetched - 1)
        PROVE  [op |-> "RemoveItems", set |-> set] \in Calls
    BY <2>1 DEF Calls
  <2>4. ASSUME NEW set \in SUBSET (0..fetched - 1), NEW n \in 0..fetched
        PROVE  [op |-> "MoveItems", set |-> set, target |-> n] \in Calls
    BY <2>1 DEF Calls
  <2> QED BY <1>1, <1>b, <2>2, <2>3, <2>4 DEF Modification
<1>2. CASE Request
  <2>1. \A o \in Operations : [op |-> o] \in Calls
    BY DEF Calls
  <2> QED BY <1>2, <1>b, <2>1 DEF Request
<1>3. CASE FetchMore
  BY <1>3, <1>l DEF FetchMore, TypeOK, iterVars, guiVars, opVars, scanVars
<1>4. ASSUME NEW n \in Rows, Reset(n) PROVE TypeOK'
  <2>1. SelectItem(n, events)
    BY <1>4 DEF Reset
  <2>2. index' \in {NO_INDEX} \cup Rows /\ current' \in {0} \cup Items /\ crossed' \in BOOLEAN
    BY <2>1, SelectTypes
  <2>3. calls' \in 0..MaxCalls
    BY <1>4, <1>r DEF Reset, TypeOK
  <2> QED BY <1>4, <2>2, <2>3 DEF Reset, TypeOK, listVars, opVars, scanVars
<1>5. ASSUME NEW step, NEW looped, NEW randomized, Navigate(step, looped, randomized) PROVE TypeOK'
  <2>1. PICK m : SelectItem(m, events)
    BY <1>5 DEF Navigate
  <2>2. index' \in {NO_INDEX} \cup Rows /\ current' \in {0} \cup Items /\ crossed' \in BOOLEAN
    BY <2>1, SelectTypes
  <2>3. calls' \in 0..MaxCalls
    BY <1>5, <1>r DEF Navigate, TypeOK
  <2> QED BY <1>5, <2>2, <2>3 DEF Navigate, TypeOK, listVars, opVars, scanVars
<1>6. CASE Modify
  <2>1. CASE OutOfRange
    BY <1>6, <2>1 DEF Modify, TypeOK, listVars, iterVars, opVars, scanVars
  <2>2. CASE ~OutOfRange
    <3>1. gpc = "modify" /\ Replace("gui", Result) /\ Unwanted \in SUBSET Indices(items) /\ Unique(Result)
      BY <1>6, <2>2, ModifyResult DEF Modify
    <3>2. items' \in Seq(Entries) /\ fetched' = Len(items') /\ remap' \in [{"gui", "op", "scan"} -> Maps]
      BY <3>1, ReplaceStep
    <3>3. fetched' \in 0..Len(items')
      BY <3>2
    <3>4. removed' \subseteq Items
      <4>1. \A n \in Unwanted : At(items, n).item \in Items
        BY <3>1, Lists, ListBasics, EntryFields
      <4>2. removed' = removed \cup {At(items, n).item : n \in Unwanted} /\ removed \subseteq Items
        BY <1>6, <2>2 DEF Modify, TypeOK
      <4> QED BY <4>1, <4>2
    <3> QED BY <1>6, <2>2, <3>2, <3>3, <3>4 DEF Modify, TypeOK, iterVars, opVars, scanVars
  <2> QED BY <2>1, <2>2
<1>7. CASE NotifyDirectly
  <2>1. remap["gui"] \in Maps /\ remap' \in [{"gui", "op", "scan"} -> Maps]
    BY <1>7, SignalTypes DEF NotifyDirectly, TypeOK
  <2>2. index' \in {NO_INDEX} \cup Rows /\ current' \in {0} \cup Items /\ crossed' \in BOOLEAN
    BY <1>7, <2>1, UpdateTypes DEF NotifyDirectly
  <2> QED BY <1>7, <2>1, <2>2 DEF NotifyDirectly, TypeOK, Calls, listVars, opVars, scanVars
<1>8. CASE Perform
  <2>1. gcall' \in Calls /\ gpc' = "idle"
    BY <1>8 DEF Perform, Calls
  <2>2. /\ opc' \in {"acquire", "failed"}
        /\ opKind' \in {"none", "load"} \cup Operations /\ canceled' \in BOOLEAN
    BY <1>8 DEF Perform, TypeOK, CallInv
  <2> QED BY <1>8, <2>1, <2>2 DEF Perform, TypeOK, listVars, iterVars, scanVars
<1>9. CASE CancelLongOperation
  <2>1. gpc' \in {"idle", "cancel"} /\ canceled' \in BOOLEAN
    BY <1>9 DEF CancelLongOperation, TypeOK
  <2>2. UNCHANGED <<listVars, iterVars, gcall, calls, viewEnabled, opc, opKind, clone, locked,
                    scanVars, events, remap>>
    BY <1>9 DEF CancelLongOperation
  <2> HIDE <1>9
  <2> QED BY <2>1, <2>2 DEF TypeOK, listVars, iterVars, scanVars
<1>10. CASE DeliverState
  <2>1. viewEnabled' \in BOOLEAN
    BY <1>10 DEF DeliverState
  <2>2. events' \in Seq(Signals)
    BY <1>10, <1>h DEF DeliverState
  <2> QED BY <1>10, <2>1, <2>2 DEF DeliverState, TypeOK, listVars, iterVars, opVars, scanVars
<1>11. CASE DeliverResult
  <2>1. Head(events).set \in SUBSET Rows
    BY <1>11, <1>h DEF DeliverResult, Signals
  <2> QED BY <1>11, <1>h, <2>1 DEF DeliverResult, TypeOK, Calls, listVars, iterVars, opVars, scanVars
<1>12. CASE DeliverIndices
  <2>1. Head(events).map \in Maps
    BY <1>12, <1>h DEF DeliverIndices, Signals
  <2>2. index' \in {NO_INDEX} \cup Rows /\ current' \in {0} \cup Items /\ crossed' \in BOOLEAN
    BY <1>12, <2>1, UpdateTypes DEF DeliverIndices
  <2> QED BY <1>12, <1>h, <2>2 DEF DeliverIndices, TypeOK, listVars, guiVars, opVars, scanVars
<1>13. CASE OpAcquire
  <2>1. events' \in Seq(Signals)
    BY <1>13, <1>t, SignalTypes DEF OpAcquire, Emit
  <2> QED BY <1>13, <2>1 DEF OpAcquire, TypeOK, listVars, iterVars, guiVars, scanVars
<1>14. CASE OpRun
  <2>u. UNCHANGED <<listVars, iterVars, guiVars, opKind, canceled, scanVars, remap>>
    BY <1>14 DEF OpRun
  <2>1. ASSUME NEW set \in SUBSET Indices(items), Finds(set) PROVE events' \in Seq(Signals)
    BY <1>l, <2>1, SignalTypes DEF Finds, Emit, TypeOK
  <2>2. ASSUME NEW order \in Bijection(DOMAIN clone, DOMAIN clone)
        PROVE  [k \in DOMAIN clone |-> clone[order[k]]] \in Seq(Entries)
    <3>1. clone \in Seq(Entries)
      BY Lists
    <3>2. Picks([k \in DOMAIN clone |-> clone[order[k]]], clone, Indices(clone))
      BY <2>2, <3>1, SortedPicks
    <3> QED BY <3>2 DEF Picks
  <2>3. ASSUME NEW n \in 0..ItemCount - found - 1, opc = "run"
        PROVE  Added(clone, New(n)) \in Seq(Entries)
    <3>1. clone = items
      BY <2>3 DEF CloneInv
    <3>2. n \in Nat /\ found + n <= ItemCount
      BY <1>l, <1>r
    <3> QED BY <3>1, <3>2, AddResult
  <2>4. opc' \in {"stop", "swap", "failed"} /\ locked' \in BOOLEAN
    BY <1>14 DEF OpRun, TypeOK
  <2>5. clone' \in Seq(Entries) /\ events' \in Seq(Signals)
    BY <1>14, <2>1, <2>2, <2>3 DEF OpRun, TypeOK
  <2> QED BY <2>u, <2>4, <2>5 DEF TypeOK, listVars, iterVars, guiVars, scanVars
<1>15. CASE OpSwap
  <2>1. Unique(clone)
    BY <1>15, Lists DEF OpSwap, CloneInv, Rearranged, Unique
  <2>2. items' \in Seq(Entries) /\ fetched' = Len(items') /\ remap' \in [{"gui", "op", "scan"} -> Maps]
    BY <1>15, <2>1, ReplaceStep DEF OpSwap
  <2>3. fetched' \in 0..Len(items')
    BY <2>2
  <2>4. found' \in 0..ItemCount
    <3> DEFINE S == {found} \cup Contents(clone)
    <3>1. S \in SUBSET (0..ItemCount) /\ S # {}
      <4>1. Contents(clone) \in SUBSET Items
        <5>1. \A k \in DOMAIN clone : clone[k].item \in Items
          BY Lists, ListBasics, EntryFields
        <5> QED BY <5>1 DEF Contents
      <4> QED BY <4>1 DEF TypeOK, Items
    <3>2. S \in SUBSET Nat /\ \A y \in S : y <= ItemCount
      BY <1>r, <3>1
    <3> HIDE DEF S
    <3>3. Max(S) \in S
      BY <1>r, <3>1, <3>2, MinAndMax
    <3>4. found' = Max(S)
      BY <1>15 DEF OpSwap, S
    <3> QED BY <3>1, <3>3, <3>4
  <2> QED BY <1>15, <2>2, <2>3, <2>4 DEF OpSwap, TypeOK, iterVars, guiVars, scanVars
<1>16. CASE OpStop
  <2>1. events' \in Seq(Signals)
    BY <1>16, SignalTypes DEF OpStop, Emit, TypeOK
  <2>2. clone' \in Seq(Entries)
    BY <1>16 DEF OpStop
  <2>3. opc' \in {"done", "notify"} /\ locked' = FALSE
    BY <1>16 DEF OpStop
  <2>4. UNCHANGED <<listVars, iterVars, guiVars, opKind, canceled, scanVars, remap>>
    BY <1>16 DEF OpStop
  <2>5. locked' \in BOOLEAN /\ opc' \in {"done", "notify"}
    BY <2>3
  <2> QED BY <2>1, <2>2, <2>4, <2>5 DEF TypeOK, listVars, iterVars, guiVars, scanVars
<1>17. CASE OpNotify
  <2>1. events' \in Seq(Signals) /\ remap' \in [{"gui", "op", "scan"} -> Maps]
    BY <1>17, SignalTypes DEF OpNotify, Notify, Emit, TypeOK
  <2> QED BY <1>17, <2>1 DEF OpNotify, TypeOK, listVars, iterVars, guiVars, scanVars
<1>18. CASE AddItem
  BY <1>18 DEF AddItem, TypeOK, listVars, iterVars, guiVars, opVars
<1>19. CASE AddItemLocked
  <2>1. found + 1 <= ItemCount /\ 1 \in Nat
    BY <1>19, <1>l, <1>r DEF AddItemLocked, ListInv
  <2>2. Unique(Added(items, New(1))) /\ Added(items, New(1)) \in Seq(Entries) /\ Len(Added(items, New(1))) = Len(items) + 1
    BY <2>1, AddResult
  <2>3. items' \in Seq(Entries) /\ fetched' \in 0..Len(items') /\ remap' \in [{"gui", "op", "scan"} -> Maps]
    <3>1. CASE sawEmpty
      <4>1. Replace("scan", Added(items, New(1)))
        BY <1>19, <3>1 DEF AddItemLocked
      <4>2. items' \in Seq(Entries) /\ fetched' = Len(items') /\ remap' \in [{"gui", "op", "scan"} -> Maps]
        BY <2>2, <4>1, ReplaceStep
      <4> QED BY <4>2
    <3>2. CASE ~sawEmpty
      BY <1>19, <1>l, <2>2, <3>2 DEF AddItemLocked, TypeOK
    <3> QED BY <3>1, <3>2
  <2>4. found' \in 0..ItemCount
    BY <1>19, <1>l, <1>r, <2>1 DEF AddItemLocked
  <2>5. spc' \in {"idle", "notify"} /\ sawEmpty' \in BOOLEAN /\ skipped' \in BOOLEAN
    BY <1>19 DEF AddItemLocked, TypeOK
  <2>6. UNCHANGED <<removed, iterVars, guiVars, opVars, events>>
    BY <1>19 DEF AddItemLocked
  <2> QED BY <2>3, <2>4, <2>5, <2>6 DEF TypeOK, iterVars, guiVars, opVars
<1>20. ASSUME NEW n \in 1..ItemCount, AddItems(n) PROVE TypeOK'
  <2>1. n \in Nat /\ found + n <= ItemCount
    BY <1>20, <1>l, <1>r DEF AddItems
  <2>2. Unique(Added(items, New(n)))
    BY <2>1, AddResult
  <2>3. items' \in Seq(Entries) /\ fetched' = Len(items') /\ remap' \in [{"gui", "op", "scan"} -> Maps]
    BY <1>20, <2>2, ReplaceStep DEF AddItems
  <2>4. fetched' \in 0..Len(items') /\ found' \in 0..ItemCount
    BY <1>20, <1>l, <1>r, <2>1, <2>3 DEF AddItems
  <2> QED BY <1>20, <2>3, <2>4 DEF AddItems, TypeOK, iterVars, guiVars, opVars
<1>21. CASE ScanNotify
  <2>1. events' \in Seq(Signals) /\ remap' \in [{"gui", "op", "scan"} -> Maps]
    BY <1>21, SignalTypes DEF ScanNotify, Notify, Emit, TypeOK
  <2> QED BY <1>21, <2>1 DEF ScanNotify, TypeOK, listVars, guiVars, opVars
<1>22. CASE UNCHANGED vars
  BY <1>22 DEF vars, TypeOK
<1>23. Rest => UNCHANGED vars
  BY DEF Rest
<1> QED BY <1>1, <1>2, <1>3, <1>4, <1>5, <1>6, <1>7, <1>8, <1>9, <1>10, <1>11, <1>12, <1>13,
           <1>14, <1>15, <1>16, <1>17, <1>18, <1>19, <1>20, <1>21, <1>22, <1>23
    DEF Next, User, GuiCall, OpStep, ScanCall, ScanStep, Rows

-----------------------------------------------------------------------------
(* The list.                                                               *)

(* The items that stay when indices are removed are all but theirs.        *)
LEMMA ContentsByIndex ==
  ASSUME NEW s, Proper(s), NEW set \in SUBSET Indices(s)
  PROVE  {At(s, n).item : n \in Indices(s) \ set} = Contents(s) \ {At(s, n).item : n \in set}
<1>1. s \in Seq(Entries)
  BY DEF Proper
<1>2. ASSUME NEW m \in Indices(s), NEW n \in Indices(s), At(s, m).item = At(s, n).item PROVE m = n
  <2>1. m + 1 \in DOMAIN s /\ n + 1 \in DOMAIN s /\ m \in Nat /\ n \in Nat
    BY <1>1, ListBasics
  <2>2. m + 1 = n + 1
    BY <1>2, <2>1 DEF Proper, Distinct, At
  <2> QED BY <2>1, <2>2
<1>3. \A n \in Indices(s) : At(s, n).item \in Contents(s)
  BY ProperAt
<1>4. ASSUME NEW x \in Contents(s) PROVE \E n \in Indices(s) : At(s, n).item = x
  <2>1. PICK k \in DOMAIN s : x = s[k].item
    BY DEF Contents
  <2>2. k - 1 \in Indices(s) /\ (k - 1) + 1 = k
    BY <1>1, ListBasics
  <2> QED BY <2>1, <2>2 DEF At
<1> QED BY <1>2, <1>3, <1>4

(* A load is over: the items found are those the list had and those that   *)
(* the copy has got.                                                       *)
LEMMA SwapResult ==
  ASSUME TypeOK, ListInv, Rearranged(clone)
  PROVE  /\ Unique(clone)
         /\ \E n \in 0..ItemCount - found :
              /\ Contents(clone) = Contents(items) \cup (found + 1..found + n)
              /\ n = 0 \/ found + n < ItemCount
              /\ Max({found} \cup Contents(clone)) = found + n
<1>1. Unique(clone)
  BY Lists DEF Unique, Rearranged
<1>2. PICK n \in 0..ItemCount - found :
        /\ Contents(clone) = Contents(items) \cup (found + 1..found + n)
        /\ n = 0 \/ found + n < ItemCount
  BY DEF Rearranged
<1>3. found \in Nat /\ n \in Nat /\ Contents(items) \in SUBSET (1..found)
  BY Lists
<1> DEFINE S == {found} \cup Contents(clone)
<1>4. S \in SUBSET Nat /\ found + n \in S /\ \A y \in S : y <= found + n
  <2>1. \A x \in Contents(items) : x \in Nat /\ x <= found
    BY <1>3
  <2>2. \A x \in found + 1..found + n : x \in Nat /\ x <= found + n
    BY <1>3
  <2>3. found + n \in S
    BY <1>2, <1>3
  <2>4. \A x \in S : x = found \/ x \in Contents(items) \/ x \in found + 1..found + n
    BY <1>2
  <2> HIDE DEF S
  <2>5. \A x \in S : x \in Nat /\ x <= found + n
    BY <1>3, <2>1, <2>2, <2>4
  <2> QED BY <2>3, <2>5
<1> HIDE DEF S
<1>5. Max(S) \in S /\ \A y \in S : y <= Max(S)
  BY <1>3, <1>4, MinAndMax
<1>6. Max(S) = found + n
  <2>1. Max(S) \in Nat /\ Max(S) <= found + n /\ found + n <= Max(S)
    BY <1>4, <1>5
  <2> QED BY <1>3, <2>1
<1> QED BY <1>1, <1>2, <1>6 DEF S

(* Every step keeps the list proper and the account of items exact.        *)
LEMMA ListStep ==
  ASSUME TypeOK, ListInv, CloneInv, CallInv, [Next]_vars
  PROVE  ListInv'
<1>l. /\ Proper(items) /\ Len(items) \in Nat /\ found \in Nat /\ found <= ItemCount
      /\ Contents(items) \in SUBSET (1..found)
      /\ Contents(items) = 1..found \ removed /\ removed \subseteq 1..found
  BY Lists DEF ListInv
<1>r. ItemCount \in Nat
  BY PlaylistAssumption
<1>p. ASSUME Proper(items'), Contents(items') = 1..found' \ removed', removed' \subseteq 1..found',
             spc' = "add" => found' < ItemCount
      PROVE  ListInv'
  BY <1>p DEF ListInv, Proper
<1>1. CASE UNCHANGED <<items, found, removed, spc>>
  BY <1>1 DEF ListInv
<1>2. CASE Modify
  <2>1. CASE OutOfRange
    BY <1>1, <1>2, <2>1 DEF Modify, listVars, scanVars
  <2>2. CASE ~OutOfRange
    <3>1. gpc = "modify" /\ Replace("gui", Result) /\ Unwanted \in SUBSET Indices(items) /\ Unique(Result)
          /\ Picks(Result, items, Indices(items) \ Unwanted)
      BY <1>2, <2>2, ModifyResult DEF Modify
    <3>2. Proper(items') /\ Contents(items') = Contents(Result)
      BY <3>1, ReplaceStep
    <3> DEFINE Gone == {At(items, n).item : n \in Unwanted}
    <3>3. Contents(items') = Contents(items) \ Gone
      <4>1. Contents(Result) = {At(items, n).item : n \in Indices(items) \ Unwanted}
        <5> DEFINE kept == Indices(items) \ Unwanted
        <5>1. kept \in SUBSET Indices(items) /\ Picks(Result, items, kept)
          BY <3>1
        <5> HIDE DEF kept
        <5>2. \A x : x \in Contents(Result) <=> \E n \in kept : x = At(items, n).item
          <6>1. PickedFrom(Result, items, kept)
            BY <1>l, <5>1, PicksAreUnique
          <6> QED BY <6>1 DEF PickedFrom
        <5> QED BY <5>2 DEF kept
      <4> QED BY <1>l, <3>1, <3>2, <4>1, ContentsByIndex
    <3>4. Gone \subseteq Contents(items)
      BY <1>l, <3>1, ProperAt
    <3>5. removed' = removed \cup Gone /\ UNCHANGED <<found, spc>>
      BY <1>2, <2>2 DEF Modify, scanVars
    <3>6. spc' = "add" => found' < ItemCount
      BY <3>5 DEF ListInv
    <3> HIDE DEF Gone
    <3>7. Contents(items') = 1..found' \ removed' /\ removed' \subseteq 1..found'
      BY <1>l, <3>3, <3>4, <3>5
    <3> QED BY <1>p, <3>2, <3>6, <3>7
  <2> QED BY <2>1, <2>2
<1>3. CASE OpSwap
  <2>1. Rearranged(clone) /\ Replace("op", clone) /\ found' = Max({found} \cup Contents(clone))
        /\ UNCHANGED <<removed, spc>>
    BY <1>3 DEF OpSwap, CloneInv, scanVars
  <2>2. PICK n \in 0..ItemCount - found :
          /\ Contents(clone) = Contents(items) \cup (found + 1..found + n)
          /\ n = 0 \/ found + n < ItemCount
          /\ found' = found + n
    BY <2>1, SwapResult
  <2>3. Proper(items') /\ Contents(items') = Contents(clone)
    BY <2>1, SwapResult, ReplaceStep
  <2>4. Contents(items') = 1..found' \ removed' /\ removed' \subseteq 1..found'
    <3>1. \A x : x \in 1..found + n <=> x \in 1..found \/ x \in found + 1..found + n
      BY <1>l, <2>2
    <3>2. \A x \in 1..found : x \notin found + 1..found + n
      BY <1>l
    <3> QED BY <1>l, <2>1, <2>2, <2>3, <3>1, <3>2
  <2>5. spc' = "add" => found' < ItemCount
    BY <1>l, <2>1, <2>2 DEF ListInv
  <2> QED BY <1>p, <2>3, <2>4, <2>5
<1>a. ASSUME NEW n \in Nat, found + n <= ItemCount, Proper(items'), UNCHANGED removed,
             Contents(items') = Contents(items) \cup (found + 1..found + n),
             found' = found + n, spc' # "add"
      PROVE  ListInv'
  <2>1. \A x : x \in 1..found + n <=> x \in 1..found \/ x \in found + 1..found + n
    BY <1>l
  <2>2. \A x \in 1..found : x \notin found + 1..found + n
    BY <1>l
  <2>3. Contents(items') = 1..found' \ removed' /\ removed' \subseteq 1..found'
    BY <1>l, <1>a, <2>1, <2>2
  <2> QED BY <1>a, <1>p, <2>3
<1>4. CASE AddItemLocked
  <2>1. found + 1 <= ItemCount
    BY <1>4, <1>l, <1>r DEF AddItemLocked, ListInv
  <2> DEFINE a == Added(items, New(1))
  <2>2. Unique(a) /\ Proper(a) /\ Contents(a) = Contents(items) \cup (found + 1..found + 1)
    BY <2>1, AddResult
  <2> HIDE DEF a
  <2>3. Proper(items') /\ Contents(items') = Contents(a)
    <3>1. CASE sawEmpty
      <4>1. Replace("scan", a)
        BY <1>4, <3>1 DEF AddItemLocked, a
      <4> QED BY <2>2, <4>1, ReplaceStep
    <3>2. CASE ~sawEmpty
      <4>1. items' = a
        BY <1>4, <3>2 DEF AddItemLocked, a
      <4> QED BY <2>2, <4>1
    <3> QED BY <3>1, <3>2
  <2>4. found' = found + 1 /\ spc' # "add" /\ UNCHANGED removed
    BY <1>4 DEF AddItemLocked
  <2> QED BY <1>a, <2>1, <2>2, <2>3, <2>4
<1>5. ASSUME NEW n \in 1..ItemCount, AddItems(n) PROVE ListInv'
  <2>1. n \in Nat /\ found + n <= ItemCount
    BY <1>5, <1>l, <1>r DEF AddItems
  <2> DEFINE a == Added(items, New(n))
  <2>2. Unique(a) /\ Proper(a) /\ Contents(a) = Contents(items) \cup (found + 1..found + n)
    BY <2>1, AddResult
  <2>3. Replace("scan", a) /\ found' = found + n /\ spc' # "add" /\ UNCHANGED removed
    BY <1>5 DEF AddItems
  <2> HIDE DEF a
  <2>4. Proper(items') /\ Contents(items') = Contents(a)
    BY <2>2, <2>3, ReplaceStep
  <2> QED BY <1>a, <2>1, <2>2, <2>3, <2>4
<1>6. CASE AddItem
  BY <1>6 DEF AddItem, listVars, ListInv
<1>7. CASE ScanNotify
  BY <1>7 DEF ScanNotify, listVars, ListInv
<1>8. CASE User \/ NotifyDirectly \/ Perform \/ CancelLongOperation \/ DeliverState \/ DeliverResult
             \/ DeliverIndices \/ Rest \/ UNCHANGED vars
  BY <1>1, <1>8 DEF User, Modification, Request, Begin, FetchMore, Reset, Navigate, NotifyDirectly, Perform,
       CancelLongOperation, DeliverState, DeliverResult, DeliverIndices, Rest, vars, listVars, scanVars
<1>9. CASE OpAcquire \/ OpRun \/ OpStop \/ OpNotify
  BY <1>1, <1>9 DEF OpAcquire, OpRun, OpStop, OpNotify, listVars, scanVars
<1> QED BY <1>2, <1>3, <1>4, <1>5, <1>6, <1>7, <1>8, <1>9 DEF Next, GuiCall, OpStep, ScanCall, ScanStep

-----------------------------------------------------------------------------
(* The copy that an operation works on.                                    *)

(* A sort of the clone is a rearrangement of the model's list.             *)
LEMMA SortRearranges ==
  ASSUME TypeOK, ListInv, NEW c, Picks(c, items, Indices(items)), Len(c) = Len(items)
  PROVE  Rearranged(c)
<1>1. Proper(items) /\ items \in Seq(Entries) /\ found \in Nat /\ found <= ItemCount
  BY Lists
<1>2. /\ Unique(c)
      /\ \A k \in DOMAIN c : c[k].index \in Indices(items) /\ c[k] = At(items, c[k].index)
      /\ \A n \in Indices(items) : \E k \in DOMAIN c : c[k].index = n
      /\ \A x : x \in Contents(c) <=> \E n \in Indices(items) : x = At(items, n).item
  <2>1. Unique(c) /\ PickedFrom(c, items, Indices(items))
    BY <1>1, PicksAreUnique
  <2> QED BY <2>1 DEF PickedFrom
<1>3. Indices(c) = Indices(items)
  BY DEF Indices
<1>4. Contents(c) = Contents(items)
  <2>1. \A n \in Indices(items) : At(items, n).item \in Contents(items)
    BY <1>1, ProperAt
  <2>2. \A k \in DOMAIN items : k - 1 \in Indices(items) /\ At(items, k - 1).item = items[k].item
    <3>1. \A k \in DOMAIN items : k - 1 \in Indices(items) /\ (k - 1) + 1 = k
      BY <1>1, ListBasics
    <3> QED BY <3>1 DEF At
  <2>3. \A x \in Contents(items) : \E k \in DOMAIN items : x = items[k].item
    BY DEF Contents
  <2>4. \A x \in Contents(c) : x \in Contents(items)
    BY <1>2, <2>1
  <2>5. \A x \in Contents(items) : x \in Contents(c)
    BY <1>2, <2>2, <2>3
  <2> QED BY <2>4, <2>5
<1>5. \E n \in 0..ItemCount - found :
        /\ Contents(c) = Contents(items) \cup (found + 1..found + n)
        /\ n = 0 \/ found + n < ItemCount
  <2>1. 0 \in 0..ItemCount - found
    BY <1>1, PlaylistAssumption
  <2>2. found + 1..found + 0 = {}
    BY <1>1
  <2>3. Contents(c) = Contents(items) \cup (found + 1..found + 0)
    BY <1>4, <2>2
  <2> QED BY <2>1, <2>3
<1> QED BY <1>2, <1>3, <1>5 DEF Rearranged, Unique

(* So is the model's list after more items were added to it.               *)
LEMMA AddRearranges ==
  ASSUME TypeOK, ListInv, NEW n \in 0..ItemCount - found - 1
  PROVE  Rearranged(Added(items, New(n)))
<1>1. Proper(items) /\ items \in Seq(Entries) /\ found \in Nat /\ found <= ItemCount
  BY Lists
<1>2. n \in Nat /\ found + n < ItemCount /\ n \in 0..ItemCount - found /\ found + n <= ItemCount
  BY <1>1, PlaylistAssumption
<1> DEFINE a == Added(items, New(n))
<1>3. /\ Proper(a) /\ Unique(a) /\ a \in Seq(Entries) /\ Len(a) = Len(items) + n
      /\ Contents(a) = Contents(items) \cup (found + 1..found + n)
      /\ \A k \in DOMAIN items : k \in DOMAIN a /\ a[k] = items[k]
  BY <1>2, AddResult
<1> HIDE DEF a
<1>4. DOMAIN a = 1..Len(a) /\ \A k \in DOMAIN a : a[k].index = k - 1 /\ k - 1 \in Indices(a)
  BY <1>3, ListBasics DEF Proper
<1>5. ASSUME NEW i \in Indices(items) PROVE i + 1 \in DOMAIN a /\ a[i + 1] = At(items, i) /\ a[i + 1].index = i
  <2>1. i + 1 \in DOMAIN items /\ i \in Nat /\ (i + 1) - 1 = i
    BY <1>1, ListBasics
  <2> QED BY <1>3, <1>4, <2>1 DEF At
<1>6. \A k \in DOMAIN a : a[k].index \in Indices(items) => a[k] = At(items, a[k].index)
  <2>1. ASSUME NEW k \in DOMAIN a, a[k].index \in Indices(items) PROVE a[k] = At(items, a[k].index)
    <3>1. k - 1 \in Indices(items) /\ (k - 1) + 1 = k
      BY <1>3, <1>4, <2>1
    <3>2. a[(k - 1) + 1] = At(items, k - 1)
      BY <1>5, <3>1
    <3> QED BY <1>4, <3>1, <3>2
  <2> QED BY <2>1
<1>7. Indices(items) \subseteq {a[k].index : k \in DOMAIN a}
  BY <1>5
<1>8. \A k \in DOMAIN a : a[k].index \in Indices(a)
  BY <1>4
<1>9. \E l \in 0..ItemCount - found :
        /\ Contents(a) = Contents(items) \cup (found + 1..found + l)
        /\ l = 0 \/ found + l < ItemCount
  BY <1>2, <1>3
<1> QED BY <1>3, <1>6, <1>7, <1>8, <1>9 DEF Rearranged, Unique, a

(* Every step keeps the clone of a running operation a rearrangement.      *)
LEMMA CloneStep ==
  ASSUME TypeOK, ListInv, CloneInv, [Next]_vars
  PROVE  CloneInv'
<1>1. ASSUME UNCHANGED <<opc, locked, items, found, clone>> PROVE CloneInv'
  BY <1>1 DEF CloneInv, Rearranged
<1>2. ASSUME UNCHANGED <<opc, locked>>, ~locked PROVE CloneInv'
  BY <1>2 DEF CloneInv
<1>3. CASE Modify \/ AddItemLocked \/ \E n \in 1..ItemCount : AddItems(n)
  BY <1>2, <1>3 DEF Modify, AddItemLocked, AddItems, opVars
<1>4. CASE Perform
  <2>1. CASE opc = "failed" /\ UNCHANGED <<opc, opKind, canceled>>
    BY <1>1, <1>4, <2>1 DEF Perform, listVars
  <2>2. CASE opc \in {"none", "done"} /\ opc' = "acquire"
    BY <1>4, <2>2 DEF Perform, CloneInv
  <2> QED BY <1>4, <2>1, <2>2 DEF Perform
<1>5. CASE OpAcquire
  BY <1>5 DEF OpAcquire, CloneInv, listVars
<1>6. CASE OpRun
  <2>1. UNCHANGED <<items, found>> /\ opc = "run" /\ clone = items /\ locked = TRUE
    BY <1>6 DEF OpRun, CloneInv, listVars, TypeOK
  <2>2. CASE opc' = "stop" /\ UNCHANGED locked
    BY <2>1, <2>2 DEF CloneInv
  <2>3. CASE opc' = "failed" /\ locked' = FALSE
    BY <2>1, <2>3 DEF CloneInv
  <2>4. ASSUME opc' = "swap", UNCHANGED locked, Rearranged(clone')
        PROVE  CloneInv'
    <3>1. Rearranged(clone)'
      BY <2>1, <2>4 DEF Rearranged
    <3> QED BY <2>1, <2>4, <3>1 DEF CloneInv
  <2>5. ASSUME NEW order \in Bijection(DOMAIN clone, DOMAIN clone),
               clone' = [k \in DOMAIN clone |-> clone[order[k]]]
        PROVE  Rearranged(clone')
    <3>1. items \in Seq(Entries) /\ clone' = [k \in DOMAIN items |-> items[order[k]]]
          /\ order \in Bijection(DOMAIN items, DOMAIN items)
      BY <2>1, <2>5, Lists
    <3>2. Picks(clone', items, Indices(items))
      BY <3>1, SortedPicks
    <3>3. Len(clone') = Len(items)
      <4>1. clone' \in Seq(Entries) /\ DOMAIN clone' = DOMAIN items
        BY <3>1, <3>2 DEF Picks
      <4> QED BY <3>1, <4>1
    <3> QED BY <3>2, <3>3, SortRearranges
  <2>6. ASSUME NEW n \in 0..ItemCount - found - 1, clone' = Added(clone, New(n))
        PROVE  Rearranged(clone')
    <3>1. clone' = Added(items, New(n))
      BY <2>1, <2>6
    <3>2. Rearranged(Added(items, New(n)))
      BY AddRearranges
    <3> QED BY <3>1, <3>2
  <2> QED BY <1>6, <2>2, <2>3, <2>4, <2>5, <2>6 DEF OpRun
<1>7. CASE OpSwap
  BY <1>7 DEF OpSwap, CloneInv
<1>8. CASE OpStop
  BY <1>8 DEF OpStop, CloneInv
<1>9. CASE OpNotify
  BY <1>9 DEF OpNotify, CloneInv
<1>10. CASE User \/ NotifyDirectly \/ CancelLongOperation \/ DeliverState \/ DeliverResult
              \/ DeliverIndices \/ Rest \/ UNCHANGED vars
  BY <1>1, <1>10 DEF User, Modification, Request, Begin, FetchMore, Reset, Navigate, NotifyDirectly,
       CancelLongOperation, DeliverState, DeliverResult, DeliverIndices, Rest, vars, listVars, opVars
<1>11. CASE AddItem \/ ScanNotify
  BY <1>1, <1>11 DEF AddItem, ScanNotify, listVars, opVars
<1> QED BY <1>3, <1>4, <1>5, <1>6, <1>7, <1>8, <1>9, <1>10, <1>11
    DEF Next, GuiCall, OpStep, ScanCall, ScanStep

-----------------------------------------------------------------------------
(* The calls of the GUI.  The list only grows before a call is made.       *)

(* Every step keeps the account of the calls under way.                    *)
LEMMA CallStep ==
  ASSUME TypeOK, ListInv, CloneInv, CallInv, [Next]_vars
  PROVE  CallInv'
<1>l. items \in Seq(Entries) /\ Len(items) \in Nat /\ Proper(items)
  BY Lists
<1>1. ASSUME UNCHANGED <<gpc, gcall>>, Len(items') \in Nat, Len(items) <= Len(items') PROVE CallInv'
  <2>1. Indices(items) \subseteq Indices(items')
    BY <1>1, <1>l DEF Indices
  <2>2. gpc = "modify" /\ gcall.op = "MoveItems" => gcall.target \in 0..ItemCount
    <3>1. ASSUME gcall.op = "MoveItems" PROVE gcall \in [op : {"MoveItems"}, set : SUBSET Rows, target : 0..ItemCount]
      BY <3>1 DEF TypeOK, Calls, NoCall, Operations
    <3> QED BY <3>1
  <2>3. gpc = "modify" /\ gcall.op = "MoveItems" => gcall.set \subseteq Indices(items') /\ gcall.target <= Len(items')
    BY <1>1, <1>l, <2>1, <2>2, PlaylistAssumption DEF CallInv
  <2> QED BY <1>1, <2>3 DEF CallInv
<1>2. ASSUME gpc' \notin {"modify", "perform"} PROVE CallInv'
  BY <1>2 DEF CallInv
<1>3. CASE Modification
  <2>1. /\ gpc' = "modify" /\ items' = items
        /\ \/ gcall' = [op |-> "Clear"]
           \/ \E set \in SUBSET (0..fetched - 1) : gcall' = [op |-> "RemoveItems", set |-> set]
           \/ \E set \in SUBSET (0..fetched - 1), n \in 0..fetched :
                gcall' = [op |-> "MoveItems", set |-> set, target |-> n]
    BY <1>3 DEF Modification, Begin, listVars
  <2>2. fetched \in Nat /\ fetched <= Len(items) /\ 0..fetched - 1 \subseteq Indices(items)
    BY <1>l DEF TypeOK, Indices
  <2>3. ASSUME NEW set \in SUBSET (0..fetched - 1), NEW n \in 0..fetched,
               gcall' = [op |-> "MoveItems", set |-> set, target |-> n]
        PROVE  gcall'.op = "MoveItems" /\ gcall'.set \subseteq Indices(items') /\ gcall'.target <= Len(items')
    BY <1>l, <2>1, <2>2, <2>3
  <2>4. gcall'.op \in {"Clear", "RemoveItems", "MoveItems"}
    BY <2>1
  <2>5. gcall'.op = "MoveItems" => gcall'.set \subseteq Indices(items') /\ gcall'.target <= Len(items')
    BY <2>1, <2>3
  <2> QED BY <2>1, <2>4, <2>5 DEF CallInv
<1>4. CASE Request
  BY <1>4 DEF Request, Begin, CallInv, Operations
<1>5. CASE DeliverResult
  <2>1. CASE UNCHANGED <<gpc, gcall>>
    BY <1>1, <1>5, <1>l, <2>1 DEF DeliverResult, listVars
  <2>2. CASE gpc' = "modify" /\ gcall' = [op |-> "RemoveItems", set |-> Head(events).set]
    BY <2>2 DEF CallInv
  <2> QED BY <1>5, <2>1, <2>2 DEF DeliverResult
<1>6. CASE OpSwap
  <2>1. Rearranged(clone) /\ Replace("op", clone) /\ UNCHANGED <<gpc, gcall>>
    BY <1>6 DEF OpSwap, CloneInv, guiVars
  <2>2. Unique(clone) /\ clone \in Seq(Entries) /\ Len(clone) \in Nat
    BY <2>1, SwapResult, Lists
  <2>3. Len(items') = Len(clone)
    BY <2>1, <2>2, ReplaceStep
  <2>4. Indices(items) \subseteq Indices(clone)
    BY <2>1 DEF Rearranged
  <2>5. Len(items) <= Len(clone)
    <3>1. Len(items) = 0 \/ Len(items) - 1 \in Indices(items)
      BY <1>l DEF Indices
    <3> QED BY <1>l, <2>2, <2>4, <3>1 DEF Indices
  <2> QED BY <1>1, <2>1, <2>2, <2>3, <2>5
<1>7. CASE AddItemLocked
  <2>1. found + 1 <= ItemCount
    BY <1>7, Lists, PlaylistAssumption DEF AddItemLocked, ListInv
  <2> DEFINE a == Added(items, New(1))
  <2>2. Unique(a) /\ Len(a) = Len(items) + 1
    BY <2>1, AddResult
  <2> HIDE DEF a
  <2>3. Len(items') = Len(a)
    <3>1. CASE sawEmpty
      <4>1. Replace("scan", a)
        BY <1>7, <3>1 DEF AddItemLocked, a
      <4> QED BY <2>2, <4>1, ReplaceStep
    <3>2. CASE ~sawEmpty
      BY <1>7, <3>2 DEF AddItemLocked, a
    <3> QED BY <3>1, <3>2
  <2>4. Len(items') \in Nat /\ Len(items) <= Len(items') /\ UNCHANGED <<gpc, gcall>>
    BY <1>7, <1>l, <2>2, <2>3 DEF AddItemLocked, guiVars
  <2> QED BY <1>1, <2>4
<1>8. ASSUME NEW n \in 1..ItemCount, AddItems(n) PROVE CallInv'
  <2>1. n \in Nat /\ found + n <= ItemCount
    BY <1>8, Lists, PlaylistAssumption DEF AddItems
  <2> DEFINE a == Added(items, New(n))
  <2>2. Unique(a) /\ Len(a) = Len(items) + n
    BY <2>1, AddResult
  <2>3. Replace("scan", a) /\ UNCHANGED <<gpc, gcall>>
    BY <1>8 DEF AddItems, guiVars
  <2> HIDE DEF a
  <2>4. Len(items') = Len(a)
    BY <2>2, <2>3, ReplaceStep
  <2>5. Len(items') \in Nat /\ Len(items) <= Len(items')
    BY <1>l, <2>1, <2>2, <2>4
  <2> QED BY <1>1, <2>3, <2>5
<1>9. CASE Modify \/ NotifyDirectly \/ Perform \/ CancelLongOperation
  BY <1>2, <1>9 DEF Modify, NotifyDirectly, Perform, CancelLongOperation
<1>10. CASE FetchMore \/ DeliverState \/ DeliverIndices \/ OpAcquire \/ OpRun \/ OpStop \/ OpNotify
              \/ AddItem \/ ScanNotify \/ Rest \/ UNCHANGED vars
  <2>1. UNCHANGED <<items, gpc, gcall>>
    BY <1>10 DEF FetchMore, DeliverState, DeliverIndices, OpAcquire, OpRun, OpStop, OpNotify, AddItem,
         ScanNotify, Rest, vars, listVars, guiVars
  <2> QED BY <1>1, <1>l, <2>1
<1>11. ASSUME NEW n, NEW step, NEW looped, NEW randomized, Reset(n) \/ Navigate(step, looped, randomized)
       PROVE  CallInv'
  BY <1>1, <1>11, <1>l DEF Reset, Navigate, listVars
<1> QED BY <1>3, <1>4, <1>5, <1>6, <1>7, <1>8, <1>9, <1>10, <1>11
    DEF Next, User, GuiCall, OpStep, ScanCall, ScanStep

-----------------------------------------------------------------------------
(* The view.                                                               *)

(* Append, place by place.                                                 *)
LEMMA AppendExtends ==
  ASSUME NEW S, NEW q \in Seq(S), NEW e \in S
  PROVE  /\ Append(q, e) \in Seq(S) /\ Len(q) \in Nat /\ Len(Append(q, e)) = Len(q) + 1
         /\ DOMAIN q = 1..Len(q) /\ DOMAIN Append(q, e) = 1..Len(q) + 1
         /\ \A k \in DOMAIN q : k \in DOMAIN Append(q, e) /\ Append(q, e)[k] = q[k]
         /\ Append(q, e)[Len(q) + 1] = e
OBVIOUS

(* Tail, place by place.                                                   *)
LEMMA TailShifts ==
  ASSUME NEW S, NEW q \in Seq(S), q # <<>>
  PROVE  /\ Head(q) = q[1] /\ 1 \in DOMAIN q /\ Tail(q) \in Seq(S)
         /\ Len(Tail(q)) = Len(q) - 1 /\ Len(q) \in Nat /\ DOMAIN q = 1..Len(q)
         /\ \A k \in DOMAIN Tail(q) : k \in Nat /\ k + 1 \in DOMAIN q /\ Tail(q)[k] = q[k + 1]
         /\ \A k \in DOMAIN q : k # 1 => k - 1 \in DOMAIN Tail(q) /\ (k - 1) + 1 = k
OBVIOUS

(* A queue that enables the view again goes on to when a signal is added.  *)
LEMMA AppendKeepsEnabling ==
  ASSUME NEW q \in Seq(Signals), NEW e \in Signals, NEW enabled
  PROVE  /\ e.type # "OperationStarted" /\ Enabling(q, enabled) => Enabling(Append(q, e), enabled)
         /\ e.type \in {"OperationStopped", "selected"} => Enabling(Append(q, e), enabled)
<1> DEFINE a == Append(q, e)
<1>1. /\ Len(q) \in Nat /\ DOMAIN q = 1..Len(q) /\ DOMAIN a = 1..Len(q) + 1
      /\ \A k \in DOMAIN q : k \in DOMAIN a /\ a[k] = q[k]
      /\ a[Len(q) + 1] = e
  BY AppendExtends
<1>2. \A k \in DOMAIN a : k = Len(q) + 1 \/ k \in DOMAIN q
  BY <1>1
<1> HIDE DEF a
<1>3. ASSUME e.type # "OperationStarted", Enabling(q, enabled) PROVE Enabling(a, enabled)
  <2>1. CASE enabled /\ \A k \in DOMAIN q : q[k].type # "OperationStarted"
    BY <1>1, <1>2, <1>3, <2>1 DEF Enabling
  <2>2. ASSUME NEW k \in DOMAIN q, q[k].type \in {"OperationStopped", "selected"},
               \A j \in DOMAIN q : j > k => q[j].type # "OperationStarted"
        PROVE  Enabling(a, enabled)
    <3>1. k \in DOMAIN a /\ a[k].type \in {"OperationStopped", "selected"}
      BY <1>1, <2>2
    <3>2. \A j \in DOMAIN a : j > k => a[j].type # "OperationStarted"
      BY <1>1, <1>2, <1>3, <2>2
    <3> QED BY <3>1, <3>2 DEF Enabling
  <2> QED BY <1>3, <2>1, <2>2 DEF Enabling
<1>4. ASSUME e.type \in {"OperationStopped", "selected"} PROVE Enabling(a, enabled)
  <2>1. Len(q) + 1 \in DOMAIN a /\ \A j \in DOMAIN a : ~(j > Len(q) + 1)
    BY <1>1
  <2> QED BY <1>1, <1>4, <2>1 DEF Enabling
<1> QED BY <1>3, <1>4 DEF a

(* It goes on to when the first signal is delivered.                       *)
LEMMA TailKeepsEnabling ==
  ASSUME NEW q \in Seq(Signals), q # <<>>, NEW enabled, NEW next, Enabling(q, enabled),
         Head(q).type = "OperationStarted" \/ (Head(q).type \in {"OperationStopped", "selected"} /\ next)
           \/ (Head(q).type \notin {"OperationStopped", "selected"} /\ next = enabled)
  PROVE  Enabling(Tail(q), next)
<1> DEFINE t == Tail(q)
<1>1. /\ Head(q) = q[1] /\ 1 \in DOMAIN q /\ DOMAIN q = 1..Len(q) /\ Len(q) \in Nat
      /\ \A k \in DOMAIN t : k \in Nat /\ k + 1 \in DOMAIN q /\ t[k] = q[k + 1]
      /\ \A k \in DOMAIN q : k # 1 => k - 1 \in DOMAIN t /\ (k - 1) + 1 = k
  BY TailShifts
<1> HIDE DEF t
<1>2. ASSUME enabled, \A k \in DOMAIN q : q[k].type # "OperationStarted" PROVE Enabling(t, next)
  <2>1. next
    BY <1>1, <1>2
  <2>2. \A k \in DOMAIN t : t[k].type # "OperationStarted"
    BY <1>1, <1>2
  <2> QED BY <2>1, <2>2 DEF Enabling
<1>3. ASSUME NEW k \in DOMAIN q, q[k].type \in {"OperationStopped", "selected"},
             \A j \in DOMAIN q : j > k => q[j].type # "OperationStarted"
      PROVE  Enabling(t, next)
  <2>1. CASE k = 1
    <3>1. next
      BY <1>1, <1>3, <2>1
    <3>2. \A j \in DOMAIN t : t[j].type # "OperationStarted"
      <4>1. \A j \in DOMAIN t : j + 1 > 1
        BY <1>1
      <4> QED BY <1>1, <1>3, <2>1, <4>1
    <3> QED BY <3>1, <3>2 DEF Enabling
  <2>2. CASE k # 1
    <3>1. k - 1 \in DOMAIN t /\ t[k - 1].type \in {"OperationStopped", "selected"}
      BY <1>1, <1>3, <2>2
    <3>2. \A j \in DOMAIN t : j > k - 1 => j + 1 > k
      BY <1>1
    <3>3. \A j \in DOMAIN t : j > k - 1 => t[j].type # "OperationStarted"
      BY <1>1, <1>3, <3>2
    <3> QED BY <3>1, <3>3 DEF Enabling
  <2> QED BY <2>1, <2>2
<1> QED BY <1>2, <1>3 DEF Enabling, t

(* Every step keeps the account of the view and its signals.               *)
LEMMA ViewStep ==
  ASSUME TypeOK, ViewInv, [Next]_vars
  PROVE  ViewInv'
<1>t. events \in Seq(Signals) /\ remap \in [{"gui", "op", "scan"} -> Maps]
  BY DEF TypeOK
<1> DEFINE Settled == {"none", "acquire", "notify", "done"}
<1>1. ASSUME UNCHANGED <<events, viewEnabled>>, opc' \in Settled => opc \in Settled PROVE ViewInv'
  BY <1>1 DEF ViewInv, Enabling
<1>2. ASSUME opc' \notin Settled PROVE ViewInv'
  BY <1>2 DEF ViewInv
<1>3. ASSUME NEW e \in Signals, Emit(e), UNCHANGED viewEnabled,
             \/ e.type # "OperationStarted" /\ (opc' \in Settled => opc \in Settled)
             \/ e.type \in {"OperationStopped", "selected"}
      PROVE  ViewInv'
  <2>1. opc' \in Settled => Enabling(Append(events, e), viewEnabled)
    BY <1>3, <1>t, AppendKeepsEnabling DEF ViewInv
  <2>2. events' = Append(events, e) /\ viewEnabled' = viewEnabled
    BY <1>3 DEF Emit
  <2> QED BY <2>1, <2>2 DEF ViewInv, Enabling
<1>4. ASSUME Received, UNCHANGED opc,
             Head(events).type = "OperationStarted" \/ (Head(events).type \in {"OperationStopped", "selected"} /\ viewEnabled')
               \/ (Head(events).type \notin {"OperationStopped", "selected"} /\ viewEnabled' = viewEnabled)
      PROVE  ViewInv'
  <2>1. events # <<>> /\ events' = Tail(events)
    BY <1>4 DEF Received
  <2>2. opc \in Settled => Enabling(Tail(events), viewEnabled')
    BY <1>4, <1>t, <2>1, TailKeepsEnabling DEF ViewInv
  <2> QED BY <1>4, <2>1, <2>2 DEF ViewInv, Enabling
<1> HIDE DEF Settled
<1>5. CASE DeliverState
  BY <1>4, <1>5 DEF DeliverState, opVars
<1>6. CASE DeliverResult
  BY <1>4, <1>6 DEF DeliverResult, opVars
<1>7. CASE DeliverIndices
  BY <1>4, <1>7 DEF DeliverIndices, opVars, guiVars
<1>8. CASE OpAcquire
  BY <1>2, <1>8 DEF OpAcquire, Settled
<1>9. CASE OpRun
  BY <1>2, <1>9 DEF OpRun, Settled
<1>10. CASE OpSwap
  BY <1>2, <1>10 DEF OpSwap, Settled
<1>11. CASE OpStop
  <2>1. Signal("OperationStopped") \in Signals /\ Signal("OperationStopped").type = "OperationStopped"
    BY SignalTypes DEF Signal
  <2> QED BY <1>3, <1>11, <2>1 DEF OpStop, guiVars
<1>12. CASE OpNotify
  <2>1. [type |-> "indices", map |-> remap["op"]] \in Signals
    BY <1>t, SignalTypes
  <2>2. Emit([type |-> "indices", map |-> remap["op"]]) /\ UNCHANGED viewEnabled /\ opc = "notify"
    BY <1>12 DEF OpNotify, Notify, guiVars
  <2> QED BY <1>3, <2>1, <2>2 DEF Settled
<1>13. CASE ScanNotify
  <2>1. [type |-> "indices", map |-> remap["scan"]] \in Signals
    BY <1>t, SignalTypes
  <2>2. Emit([type |-> "indices", map |-> remap["scan"]]) /\ UNCHANGED <<viewEnabled, opc>>
    BY <1>13 DEF ScanNotify, Notify, guiVars, opVars
  <2> QED BY <1>3, <2>1, <2>2
<1>14. CASE Perform
  BY <1>1, <1>14 DEF Perform, Settled
<1>15. CASE FetchMore \/ Modification \/ Request \/ Modify \/ NotifyDirectly \/ CancelLongOperation
              \/ AddItem \/ AddItemLocked \/ Rest \/ UNCHANGED vars
  BY <1>1, <1>15 DEF FetchMore, Modification, Request, Begin, Modify, NotifyDirectly, CancelLongOperation,
       AddItem, AddItemLocked, Rest, vars, guiVars, opVars
<1>16. ASSUME NEW n, NEW step, NEW looped, NEW randomized,
              Reset(n) \/ Navigate(step, looped, randomized) \/ AddItems(n)
       PROVE  ViewInv'
  BY <1>1, <1>16 DEF Reset, Navigate, AddItems, guiVars, opVars
<1> QED BY <1>5, <1>6, <1>7, <1>8, <1>9, <1>10, <1>11, <1>12, <1>13, <1>14, <1>15, <1>16
    DEF Next, User, GuiCall, OpStep, ScanCall, ScanStep

-----------------------------------------------------------------------------
(* The way of an index through the maps in the queue.                      *)

Leads(to, q, i) ==
  /\ to = [k \in 0..Len(q) |-> to[k]] /\ to[0] = i
  /\ \A k \in 1..Len(q) : to[k] = Onward(q[k], to[k - 1])

Welcome(to, q) ==
  \A k \in DOMAIN q : q[k].type = "indices" => to[k - 1] \in DOMAIN q[k].map

(* The maps of q take i to n, and each of them has a place for it.         *)
Arrives(q, i, n) == \E to : Leads(to, q, i) /\ Welcome(to, q) /\ to[Len(q)] = n

(* The maps of a queue lead every index somewhere.                         *)
LEMMA LeadExists ==
  ASSUME NEW q \in Seq(Signals), NEW i
  PROVE  \E to : Leads(to, q, i)
<1> DEFINE Way(to, n) ==
      /\ to = [k \in 0..n |-> to[k]] /\ to[0] = i
      /\ \A k \in 1..n : to[k] = Onward(q[k], to[k - 1])
           T == {n \in Nat : \E to : Way(to, n)}
<1>1. 0 \in T
  <2> DEFINE to == [k \in 0..0 |-> i]
  <2>1. Way(to, 0)
    OBVIOUS
  <2> QED BY <2>1
<1>2. ASSUME NEW n \in T PROVE n + 1 \in T
  <2>1. PICK f : Way(f, n)
    OBVIOUS
  <2> DEFINE g == [k \in 0..n + 1 |-> IF k = n + 1 THEN Onward(q[k], f[k - 1]) ELSE f[k]]
  <2>2. g[0] = i /\ g = [k \in 0..n + 1 |-> g[k]]
    BY <2>1
  <2>3. ASSUME NEW k \in 1..n + 1 PROVE g[k] = Onward(q[k], g[k - 1])
    <3>1. k - 1 \in 0..n + 1 /\ k - 1 # n + 1 /\ k \in 0..n + 1
      OBVIOUS
    <3>2. g[k - 1] = f[k - 1]
      BY <3>1
    <3>3. CASE k = n + 1
      BY <3>1, <3>2, <3>3
    <3>4. CASE k # n + 1
      <4>1. k \in 1..n /\ g[k] = f[k]
        BY <3>1, <3>4
      <4> QED BY <2>1, <3>2, <4>1
    <3> QED BY <3>3, <3>4
  <2> HIDE DEF g
  <2>4. Way(g, n + 1)
    BY <2>2, <2>3
  <2> HIDE DEF Way
  <2>5. n + 1 \in Nat /\ \E to : Way(to, n + 1)
    BY <2>4
  <2> QED BY <2>5
<1>3. T = Nat
  <2>1. T \in SUBSET Nat
    OBVIOUS
  <2> HIDE DEF T
  <2> QED BY <1>1, <1>2, <2>1, InductionOverNat
<1>4. Len(q) \in T
  <2> HIDE DEF T
  <2> QED BY <1>3
<1> QED BY <1>4 DEF Leads

(* They lead it to one place only.                                         *)
LEMMA LeadIsUnique ==
  ASSUME NEW q \in Seq(Signals), NEW i, NEW f, NEW g, Leads(f, q, i), Leads(g, q, i)
  PROVE  f = g
<1> DEFINE T == {n \in Nat : n <= Len(q) => f[n] = g[n]}
<1>1. 0 \in T
  BY DEF Leads
<1>2. ASSUME NEW n \in T PROVE n + 1 \in T
  <2> SUFFICES ASSUME n + 1 <= Len(q) PROVE f[n + 1] = g[n + 1]
    OBVIOUS
  <2>1. n + 1 \in 1..Len(q) /\ (n + 1) - 1 = n /\ f[n] = g[n]
    OBVIOUS
  <2> QED BY <2>1 DEF Leads
<1>3. T = Nat
  <2>1. T \in SUBSET Nat
    OBVIOUS
  <2> HIDE DEF T
  <2> QED BY <1>1, <1>2, <2>1, InductionOverNat
<1>4. \A k \in 0..Len(q) : f[k] = g[k]
  <2>1. \A k \in 0..Len(q) : k \in T /\ k <= Len(q)
    <3> HIDE DEF T
    <3> QED BY <1>3
  <2> QED BY <2>1
<1> QED BY <1>4 DEF Leads

(* Route computes where.                                                   *)
LEMMA RouteLeads ==
  ASSUME NEW q \in Seq(Signals), NEW i
  PROVE  Leads(Route(q, i), q, i)
<1> DEFINE Step(to) == [k \in 0..Len(q) |-> IF k = 0 THEN i ELSE Onward(q[k], to[k - 1])]
           r == Route(q, i)
<1>1. PICK f : Leads(f, q, i)
  BY LeadExists
<1>2. f = Step(f)
  <2>1. Len(q) \in Nat
    OBVIOUS
  <2>2. \A k \in 0..Len(q) : f[k] = IF k = 0 THEN i ELSE Onward(q[k], f[k - 1])
    <3>1. f[0] = i /\ \A k \in 1..Len(q) : f[k] = Onward(q[k], f[k - 1])
      BY <1>1 DEF Leads
    <3>2. \A k \in 0..Len(q) : k = 0 \/ k \in 1..Len(q)
      BY <2>1
    <3>3. \A k \in 1..Len(q) : k # 0
      BY <2>1
    <3> QED BY <3>1, <3>2, <3>3
  <2>3. f = [k \in 0..Len(q) |-> f[k]]
    BY <1>1 DEF Leads
  <2> QED BY <2>2, <2>3
<1>3. r = CHOOSE to : to = Step(to)
  BY DEF Route
<1> HIDE DEF r
<1>4. r = Step(r)
  <2> HIDE DEF Step
  <2> QED BY <1>2, <1>3
<1>5. Len(q) \in Nat
  OBVIOUS
<1> HIDE <1>3
<1>6. r = [k \in 0..Len(q) |-> r[k]] /\ r[0] = i
      /\ \A k \in 1..Len(q) : r[k] = Onward(q[k], r[k - 1])
  BY <1>4, <1>5
<1> QED BY <1>6 DEF Leads, r

(* So the route can stand for the existential statement.                   *)
LEMMA RouteArrives ==
  ASSUME NEW q \in Seq(Signals), NEW i
  PROVE  \A n : Arrives(q, i, n) <=> n = Route(q, i)[Len(q)] /\ Welcome(Route(q, i), q)
<1>1. Leads(Route(q, i), q, i)
  BY RouteLeads
<1>2. ASSUME NEW n, Arrives(q, i, n) PROVE n = Route(q, i)[Len(q)] /\ Welcome(Route(q, i), q)
  <2>1. PICK to : Leads(to, q, i) /\ Welcome(to, q) /\ to[Len(q)] = n
    BY <1>2 DEF Arrives
  <2>2. to = Route(q, i)
    BY <1>1, <2>1, LeadIsUnique
  <2> QED BY <2>1, <2>2
<1> QED BY <1>1, <1>2 DEF Arrives

(* Without a map in the queue the index stays where it is.                 *)
LEMMA ArrivesAtOnce ==
  ASSUME NEW q \in Seq(Signals), NEW i, \A k \in DOMAIN q : q[k].type # "indices"
  PROVE  \A n : Arrives(q, i, n) <=> n = i
<1> DEFINE to == [k \in 0..Len(q) |-> i]
<1>1. Len(q) \in Nat /\ DOMAIN q = 1..Len(q)
  OBVIOUS
<1>2. \A k \in 1..Len(q) : to[k] = Onward(q[k], to[k - 1])
  <2>1. \A k \in 1..Len(q) : to[k] = i /\ to[k - 1] = i
    BY <1>1
  <2> HIDE DEF to
  <2> QED BY <1>1, <2>1 DEF Onward
<1>3. to = [k \in 0..Len(q) |-> to[k]] /\ to[0] = i /\ to[Len(q)] = i
  BY <1>1
<1> HIDE DEF to
<1>4. Leads(to, q, i) /\ Welcome(to, q)
  BY <1>2, <1>3 DEF Leads, Welcome
<1>5. Arrives(q, i, i)
  BY <1>3, <1>4 DEF Arrives
<1>6. ASSUME NEW n, Arrives(q, i, n) PROVE n = i
  BY <1>5, <1>6, RouteArrives
<1> QED BY <1>5, <1>6

(* A new signal at the end of the queue.                                   *)
LEMMA ArrivesOnAppend ==
  ASSUME NEW q \in Seq(Signals), NEW i, NEW n, NEW e \in Signals, Arrives(q, i, n),
         e.type = "indices" => n \in DOMAIN e.map
  PROVE  Arrives(Append(q, e), i, Onward(e, n))
<1> DEFINE a == Append(q, e)
<1>1. PICK f : Leads(f, q, i) /\ Welcome(f, q) /\ f[Len(q)] = n
  BY DEF Arrives
<1>2. /\ Len(q) \in Nat /\ Len(a) = Len(q) + 1
      /\ DOMAIN q = 1..Len(q) /\ DOMAIN a = 1..Len(q) + 1
      /\ \A k \in DOMAIN q : a[k] = q[k]
      /\ a[Len(q) + 1] = e
  BY AppendExtends
<1> HIDE DEF a
<1> DEFINE g == [k \in 0..Len(q) + 1 |-> IF k = Len(q) + 1 THEN Onward(e, n) ELSE f[k]]
<1>3. g = [k \in 0..Len(q) + 1 |-> g[k]] /\ g[Len(q) + 1] = Onward(e, n)
      /\ \A k \in 0..Len(q) : g[k] = f[k]
  BY <1>2
<1> HIDE DEF g
<1>4. g[0] = i /\ g[Len(q)] = n
  <2>1. 0 \in 0..Len(q) /\ Len(q) \in 0..Len(q)
    BY <1>2
  <2>2. f[0] = i /\ f[Len(q)] = n
    BY <1>1 DEF Leads
  <2> QED BY <1>3, <2>1, <2>2
<1>5. ASSUME NEW k \in 1..Len(q) + 1
      PROVE  g[k] = Onward(a[k], g[k - 1]) /\ (a[k].type = "indices" => g[k - 1] \in DOMAIN a[k].map)
  <2>1. CASE k = Len(q) + 1
    <3>1. k - 1 = Len(q)
      BY <1>2, <2>1
    <3> QED BY <1>2, <1>3, <1>4, <2>1, <3>1
  <2>2. CASE k # Len(q) + 1
    <3>1. k \in 1..Len(q) /\ k \in 0..Len(q) /\ k - 1 \in 0..Len(q)
      BY <1>2, <2>2
    <3>2. g[k] = f[k] /\ g[k - 1] = f[k - 1] /\ a[k] = q[k]
      BY <1>2, <1>3, <3>1
    <3> QED BY <1>1, <1>2, <3>1, <3>2 DEF Leads, Welcome
  <2> QED BY <2>1, <2>2
<1>6. Leads(g, a, i) /\ Welcome(g, a) /\ g[Len(a)] = Onward(e, n)
  BY <1>2, <1>3, <1>4, <1>5 DEF Leads, Welcome
<1>7. Arrives(a, i, Onward(e, n))
  BY <1>6 DEF Arrives
<1> QED BY <1>7 DEF a

(* The first signal has been handled.                                      *)
LEMMA ArrivesOnTail ==
  ASSUME NEW q \in Seq(Signals), q # <<>>, NEW i, NEW n, Arrives(q, i, n)
  PROVE  /\ Head(q).type = "indices" => i \in DOMAIN Head(q).map
         /\ Arrives(Tail(q), Onward(Head(q), i), n)
<1> DEFINE t == Tail(q)
<1>1. PICK f : Leads(f, q, i) /\ Welcome(f, q) /\ f[Len(q)] = n
  BY DEF Arrives
<1>2. /\ Head(q) = q[1] /\ 1 \in DOMAIN q /\ t \in Seq(Signals)
      /\ Len(t) = Len(q) - 1 /\ Len(q) \in Nat /\ DOMAIN q = 1..Len(q)
      /\ \A k \in DOMAIN t : k \in Nat /\ k + 1 \in DOMAIN q /\ t[k] = q[k + 1]
  BY TailShifts
<1>3. DOMAIN t = 1..Len(t) /\ Len(t) \in Nat /\ Len(t) + 1 = Len(q)
  BY <1>2
<1> HIDE DEF t
<1> DEFINE g == [k \in 0..Len(t) |-> f[k + 1]]
<1>4. g = [k \in 0..Len(t) |-> g[k]] /\ \A k \in 0..Len(t) : g[k] = f[k + 1]
  OBVIOUS
<1> HIDE DEF g
<1>5. f[0] = i /\ (Head(q).type = "indices" => i \in DOMAIN Head(q).map) /\ f[1] = Onward(Head(q), i)
  <2>1. 1 \in 1..Len(q) /\ 1 - 1 = 0
    BY <1>2
  <2> QED BY <1>1, <1>2, <2>1 DEF Leads, Welcome
<1>6. g[0] = Onward(Head(q), i) /\ g[Len(t)] = n
  BY <1>1, <1>3, <1>4, <1>5
<1>7. ASSUME NEW k \in 1..Len(t)
      PROVE  g[k] = Onward(t[k], g[k - 1]) /\ (t[k].type = "indices" => g[k - 1] \in DOMAIN t[k].map)
  <2>1. k \in 0..Len(t) /\ k - 1 \in 0..Len(t) /\ k + 1 \in 1..Len(q) /\ (k + 1) - 1 = k /\ (k - 1) + 1 = k
    BY <1>3
  <2>2. g[k] = f[k + 1] /\ g[k - 1] = f[k] /\ t[k] = q[k + 1]
    BY <1>2, <1>3, <1>4, <2>1
  <2>3. f[k + 1] = Onward(q[k + 1], f[k]) /\ (q[k + 1].type = "indices" => f[k] \in DOMAIN q[k + 1].map)
    BY <1>1, <1>2, <2>1 DEF Leads, Welcome
  <2> QED BY <2>2, <2>3
<1>8. Leads(g, t, Onward(Head(q), i)) /\ Welcome(g, t)
  BY <1>3, <1>4, <1>6, <1>7 DEF Leads, Welcome
<1>9. Arrives(t, Onward(Head(q), i), n)
  BY <1>6, <1>8 DEF Arrives
<1> QED BY <1>5, <1>9 DEF t

-----------------------------------------------------------------------------
(* The iterator follows its item.                                          *)

(* Through the queue, or through the queue and then the map of an          *)
(* operation, the index comes to the item cur of the list s.               *)
Ahead(q, i, s, cur) ==
  \E n \in Indices(s) : Arrives(q, i, n) /\ At(s, n).item = cur

AheadOp(q, i, map, s, cur) ==
  /\ DOMAIN map \subseteq Indices(s)
  /\ \E n \in DOMAIN map : Arrives(q, i, n) /\ map[n] \in Indices(s) /\ At(s, map[n]).item = cur

(* No item of s has moved in t.                                            *)
Stays(s, t) == \A n \in Indices(s) : n \in Indices(t) /\ At(t, n).item = At(s, n).item

(* A longer list that keeps its entries leaves what is ahead as it was.    *)
LEMMA AheadInGrown ==
  ASSUME NEW q, NEW i, NEW map, NEW s, NEW cur, NEW t, Stays(s, t)
  PROVE  /\ Ahead(q, i, s, cur) => Ahead(q, i, t, cur)
         /\ AheadOp(q, i, map, s, cur) => AheadOp(q, i, map, t, cur)
BY DEF Ahead, AheadOp, Stays

(* So does a signal that carries no map.                                   *)
LEMMA AheadOfOther ==
  ASSUME NEW q \in Seq(Signals), NEW i, NEW map, NEW s, NEW cur, NEW e \in Signals, e.type # "indices"
  PROVE  /\ Ahead(q, i, s, cur) => Ahead(Append(q, e), i, s, cur)
         /\ AheadOp(q, i, map, s, cur) => AheadOp(Append(q, e), i, map, s, cur)
<1>1. \A n : Arrives(q, i, n) => Arrives(Append(q, e), i, n)
  <2>1. \A n : Onward(e, n) = n
    BY DEF Onward
  <2>2. ASSUME NEW n, Arrives(q, i, n) PROVE Arrives(Append(q, e), i, Onward(e, n))
    BY <2>2, ArrivesOnAppend
  <2> QED BY <2>1, <2>2
<1> QED BY <1>1 DEF Ahead, AheadOp

(* Delivering the first signal moves the iterator one step along its       *)
(* route.                                                                  *)
LEMMA AheadOfTail ==
  ASSUME NEW q \in Seq(Signals), q # <<>>, NEW i, NEW map, NEW s, NEW cur
  PROVE  /\ Ahead(q, i, s, cur) =>
              /\ Head(q).type = "indices" => i \in DOMAIN Head(q).map
              /\ Ahead(Tail(q), Onward(Head(q), i), s, cur)
         /\ AheadOp(q, i, map, s, cur) =>
              /\ Head(q).type = "indices" => i \in DOMAIN Head(q).map
              /\ AheadOp(Tail(q), Onward(Head(q), i), map, s, cur)
<1>1. \A n : Arrives(q, i, n) =>
        /\ Head(q).type = "indices" => i \in DOMAIN Head(q).map
        /\ Arrives(Tail(q), Onward(Head(q), i), n)
  BY ArrivesOnTail
<1> QED BY <1>1 DEF Ahead, AheadOp

(* With no map in the queue, the iterator must be right now.               *)
LEMMA AheadAtOnce ==
  ASSUME NEW q \in Seq(Signals), NEW i, NEW s, NEW cur, \A k \in DOMAIN q : q[k].type # "indices"
  PROVE  Ahead(q, i, s, cur) <=> i \in Indices(s) /\ At(s, i).item = cur
<1>1. \A n : Arrives(q, i, n) <=> n = i
  BY ArrivesAtOnce
<1> QED BY <1>1 DEF Ahead

(* RouteInv in terms of what is ahead, with or without an operation's map. *)
LEMMA RouteInvMeans ==
  ASSUME events \in Seq(Signals)
  PROVE  /\ OpPending => (RouteInv <=> AheadOp(events, index, remap["op"], items, current))
         /\ ~OpPending => (RouteInv <=> Ahead(events, index, items, current))
<1> DEFINE r == Route(events, index)
           q == r[Len(events)]
<1>1. \A n : Arrives(events, index, n) <=> n = q /\ Welcome(r, events)
  BY RouteArrives
<1> HIDE DEF r, q
<1>2. RouteInv <=>
        LET n == IF OpPending THEN remap["op"][q] ELSE q
        IN  /\ Welcome(r, events)
            /\ OpPending => q \in DOMAIN remap["op"] /\ DOMAIN remap["op"] \subseteq Indices(items)
            /\ n \in Indices(items) /\ At(items, n).item = current
  BY DEF RouteInv, Welcome, r, q
<1>3. CASE OpPending
  BY <1>1, <1>2, <1>3 DEF AheadOp
<1>4. CASE ~OpPending
  BY <1>1, <1>2, <1>4 DEF Ahead
<1> QED BY <1>3, <1>4

(* The same after a step.                                                  *)
LEMMA RouteInvNext ==
  ASSUME events' \in Seq(Signals)
  PROVE  /\ OpPending' => (RouteInv' <=> AheadOp(events', index', remap'["op"], items', current'))
         /\ ~OpPending' => (RouteInv' <=> Ahead(events', index', items', current'))
<1> DEFINE r == Route(events', index')
           q == r[Len(events')]
<1>1. \A n : Arrives(events', index', n) <=> n = q /\ Welcome(r, events')
  BY RouteArrives
<1> HIDE DEF r, q
<1>2. RouteInv' <=>
        LET n == IF OpPending' THEN remap'["op"][q] ELSE q
        IN  /\ Welcome(r, events')
            /\ OpPending' => q \in DOMAIN remap'["op"] /\ DOMAIN remap'["op"] \subseteq Indices(items')
            /\ n \in Indices(items') /\ At(items', n).item = current'
  BY DEF RouteInv, Welcome, r, q
<1>3. CASE OpPending'
  BY <1>1, <1>2, <1>3 DEF AheadOp
<1>4. CASE ~OpPending'
  BY <1>1, <1>2, <1>4 DEF Ahead
<1> QED BY <1>3, <1>4

(* The index has just been set and no map is on its way.                   *)
LEMMA FreshIndex ==
  ASSUME events' \in Seq(Signals), UNCHANGED items, index' \in Indices(items),
         current' = At(items, index').item, ~InFlight(events)'
  PROVE  RouteInv'
<1>1. ~OpPending' /\ \A k \in DOMAIN events' : events'[k].type # "indices"
  BY DEF InFlight, OpPending
<1>2. Ahead(events', index', items', current')
  BY <1>1, AheadAtOnce
<1> QED BY <1>1, <1>2, RouteInvNext

(* A list that has been replaced: its items have moved as the map says.    *)
LEMMA ReplacedPlaces ==
  ASSUME TypeOK, NEW t \in {"gui", "op", "scan"}, NEW c, Unique(c), Replace(t, c),
         NEW i, i \in DOMAIN remap'[t]
  PROVE  \E k \in DOMAIN c : /\ c[k].index = i /\ remap'[t][i] \in Indices(items')
                             /\ At(items', remap'[t][i]).item = c[k].item
<1>1. /\ DOMAIN remap'[t] = {c[k].index : k \in DOMAIN c}
      /\ \A k \in DOMAIN c :
           /\ remap'[t][c[k].index] = k - 1 /\ k - 1 \in Indices(items')
           /\ At(items', k - 1).item = c[k].item
  BY ReplaceStep
<1>2. PICK k \in DOMAIN c : c[k].index = i
  BY <1>1
<1> QED BY <1>1, <1>2

(* What is added leaves the rest in its place, and the map says so.        *)
LEMMA AddStays ==
  ASSUME TypeOK, ListInv, NEW n \in Nat, found + n <= ItemCount
  PROVE  /\ items' = Added(items, New(n)) => Stays(items, items')
         /\ Replace("scan", Added(items, New(n))) =>
              Stays(items, items') /\ \A i \in DOMAIN remap'["scan"] : remap'["scan"][i] = i
<1> DEFINE a == Added(items, New(n))
<1>1. /\ Proper(a) /\ Unique(a) /\ a \in Seq(Entries) /\ Len(a) = Len(items) + n
      /\ \A k \in DOMAIN items : k \in DOMAIN a /\ a[k] = items[k]
  BY AddResult
<1> HIDE DEF a
<1>2. items \in Seq(Entries)
  BY Lists
<1>3. ASSUME NEW i \in Indices(items)
      PROVE  i + 1 \in DOMAIN a /\ (i + 1) - 1 = i /\ a[i + 1].item = At(items, i).item /\ i \in Indices(a)
  <2>1. i + 1 \in DOMAIN items /\ (i + 1) - 1 = i
    BY <1>2, ListBasics
  <2>2. (i + 1) - 1 \in Indices(a)
    BY <1>1, <2>1, ListBasics
  <2> QED BY <1>1, <2>1, <2>2 DEF At
<1>4. ASSUME items' = a PROVE Stays(items, items')
  BY <1>3, <1>4 DEF Stays, At
<1>5. ASSUME Replace("scan", a)
      PROVE  Stays(items, items') /\ \A i \in DOMAIN remap'["scan"] : remap'["scan"][i] = i
  <2>1. /\ DOMAIN remap'["scan"] = {a[k].index : k \in DOMAIN a}
        /\ \A k \in DOMAIN a :
             /\ remap'["scan"][a[k].index] = k - 1 /\ k - 1 \in Indices(items')
             /\ At(items', k - 1).item = a[k].item
    BY <1>1, <1>5, ReplaceStep
  <2>2. \A k \in DOMAIN a : a[k].index = k - 1
    BY <1>1 DEF Proper
  <2>3. \A i \in DOMAIN remap'["scan"] : remap'["scan"][i] = i
    <3>1. ASSUME NEW i \in DOMAIN remap'["scan"] PROVE remap'["scan"][i] = i
      <4>1. PICK k \in DOMAIN a : a[k].index = i
        BY <2>1
      <4> QED BY <2>1, <2>2, <4>1
    <3> QED BY <3>1
  <2>4. ASSUME NEW i \in Indices(items) PROVE i \in Indices(items') /\ At(items', i).item = At(items, i).item
    <3>1. i + 1 \in DOMAIN a /\ (i + 1) - 1 = i /\ a[i + 1].item = At(items, i).item
      BY <1>3
    <3>2. (i + 1) - 1 \in Indices(items') /\ At(items', (i + 1) - 1).item = a[i + 1].item
      BY <2>1, <3>1
    <3> QED BY <3>1, <3>2
  <2> QED BY <2>3, <2>4 DEF Stays
<1> QED BY <1>4, <1>5 DEF a

MapQueued(q) == \E k \in DOMAIN q : q[k].type = "indices"

(* Whether a map is queued, after Append and Tail.                         *)
LEMMA MapQueuedOf ==
  ASSUME NEW q \in Seq(Signals)
  PROVE  /\ \A e \in Signals : MapQueued(Append(q, e)) <=> MapQueued(q) \/ e.type = "indices"
         /\ q # <<>> /\ Head(q).type # "indices" => (MapQueued(Tail(q)) <=> MapQueued(q))
<1>1. ASSUME NEW e \in Signals PROVE MapQueued(Append(q, e)) <=> MapQueued(q) \/ e.type = "indices"
  <2>1. /\ Len(q) \in Nat /\ DOMAIN q = 1..Len(q) /\ DOMAIN Append(q, e) = 1..Len(q) + 1
        /\ \A k \in DOMAIN q : k \in DOMAIN Append(q, e) /\ Append(q, e)[k] = q[k]
        /\ Append(q, e)[Len(q) + 1] = e
    BY AppendExtends
  <2>2. \A k \in 1..Len(q) + 1 : k = Len(q) + 1 \/ k \in 1..Len(q)
    BY <2>1
  <2>3. Len(q) + 1 \in 1..Len(q) + 1
    BY <2>1
  <2>4. (\E k \in DOMAIN Append(q, e) : Append(q, e)[k].type = "indices")
          <=> (\E k \in DOMAIN q : q[k].type = "indices") \/ e.type = "indices"
    BY <2>1, <2>2, <2>3
  <2> QED BY <2>4 DEF MapQueued
<1>2. ASSUME q # <<>>, Head(q).type # "indices" PROVE MapQueued(Tail(q)) <=> MapQueued(q)
  <2>1. /\ Head(q) = q[1]
        /\ \A k \in DOMAIN Tail(q) : k \in Nat /\ k + 1 \in DOMAIN q /\ Tail(q)[k] = q[k + 1]
        /\ \A k \in DOMAIN q : k # 1 => k - 1 \in DOMAIN Tail(q) /\ (k - 1) + 1 = k
    BY <1>2, TailShifts
  <2>2. (\E k \in DOMAIN Tail(q) : Tail(q)[k].type = "indices") <=> (\E k \in DOMAIN q : q[k].type = "indices")
    BY <1>2, <2>1
  <2> QED BY <2>2 DEF MapQueued
<1> QED BY <1>1, <1>2

(* While the scanner has a map to send, the map changes nothing.           *)
ScanMapInv == spc = "notify" => \A i \in DOMAIN remap["scan"] : remap["scan"][i] = i

(* Every step keeps the scanner's map in step with the list until it may   *)
(* be overtaken.                                                           *)
LEMMA ScanMapStep ==
  ASSUME TypeOK, ListInv, ScanMapInv, [Next]_vars
  PROVE  ScanMapInv'
<1>t. remap \in [{"gui", "op", "scan"} -> Maps]
  BY DEF TypeOK
<1>1. ASSUME UNCHANGED spc, remap'["scan"] = remap["scan"] PROVE ScanMapInv'
  BY <1>1 DEF ScanMapInv
<1>2. ASSUME spc' # "notify" PROVE ScanMapInv'
  BY <1>2 DEF ScanMapInv
<1>3. CASE Modify
  BY <1>1, <1>3, <1>t DEF Modify, Replace, scanVars
<1>4. CASE NotifyDirectly
  BY <1>1, <1>4, <1>t DEF NotifyDirectly, scanVars
<1>5. CASE OpSwap
  BY <1>1, <1>5, <1>t DEF OpSwap, Replace, scanVars
<1>6. CASE OpNotify
  BY <1>1, <1>6, <1>t DEF OpNotify, Notify, scanVars
<1>7. CASE AddItemLocked
  <2>1. found + 1 <= ItemCount
    BY <1>7, Lists, PlaylistAssumption DEF AddItemLocked, ListInv
  <2> QED BY <1>2, <1>7, <2>1, AddStays DEF AddItemLocked, ScanMapInv
<1>8. ASSUME NEW n \in 1..ItemCount, AddItems(n) PROVE ScanMapInv'
  <2>1. n \in Nat /\ found + n <= ItemCount
    BY <1>8, Lists, PlaylistAssumption DEF AddItems
  <2> QED BY <1>8, <2>1, AddStays DEF AddItems, ScanMapInv
<1>9. CASE AddItem \/ ScanNotify
  BY <1>2, <1>9 DEF AddItem, ScanNotify
<1>10. CASE UNCHANGED <<spc, remap>>
  BY <1>1, <1>10
<1>11. CASE Modification \/ Request \/ FetchMore \/ Perform \/ CancelLongOperation
              \/ DeliverState \/ DeliverResult \/ DeliverIndices \/ Rest \/ UNCHANGED vars
  BY <1>10, <1>11 DEF Modification, Request, Begin, FetchMore, Perform,
       CancelLongOperation, DeliverState, DeliverResult, DeliverIndices, Rest, vars, scanVars
<1>12. CASE OpAcquire \/ OpRun \/ OpStop
  BY <1>10, <1>12 DEF OpAcquire, OpRun, OpStop, scanVars
<1>13. ASSUME NEW n, NEW step, NEW looped, NEW randomized, Reset(n) \/ Navigate(step, looped, randomized)
       PROVE  ScanMapInv'
  BY <1>10, <1>13 DEF Reset, Navigate, scanVars
<1> QED BY <1>3, <1>4, <1>5, <1>6, <1>7, <1>8, <1>9, <1>11, <1>12, <1>13
    DEF Next, User, GuiCall, OpStep, ScanCall, ScanStep

(* Of a step that leaves the iterator alone.                               *)
LEMMA AddedStays ==
  ASSUME TypeOK, ListInv, NEW n, AddItemLocked \/ (n \in 1..ItemCount /\ AddItems(n))
  PROVE  Stays(items, items')
<1>1. CASE AddItemLocked
  <2>1. found + 1 <= ItemCount
    BY <1>1, Lists, PlaylistAssumption DEF AddItemLocked, ListInv
  <2> QED BY <1>1, <2>1, AddStays DEF AddItemLocked
<1>2. CASE n \in 1..ItemCount /\ AddItems(n)
  <2>1. n \in Nat /\ found + n <= ItemCount
    BY <1>2, Lists, PlaylistAssumption DEF AddItems
  <2> QED BY <1>2, <2>1, AddStays DEF AddItems
<1> QED BY <1>1, <1>2

Following == index # NO_INDEX /\ ~crossed /\ gpc # "notify" => RouteInv

(* The user and the queue set the index or let it go on its way.           *)
LEMMA IteratorStep ==
  ASSUME TypeOK, ListInv, CloneInv, CallInv, FollowInv, TypeOK',
         \/ \E n : Reset(n)
         \/ \E step, looped, randomized : Navigate(step, looped, randomized)
         \/ NotifyDirectly \/ DeliverIndices
  PROVE  Following'
<1>t. events \in Seq(Signals) /\ events' \in Seq(Signals) /\ index \in {NO_INDEX} \cup Rows
  BY DEF TypeOK
<1>s. ASSUME NEW n, SelectItem(n, events'), UNCHANGED <<items, opc, spc>>,
             UNCHANGED <<events, remap>>, gpc # "notify"
      PROVE  Following'
  <2>1. CASE n \in Indices(items)
    <3>1. index' = n /\ current' = At(items, n).item /\ crossed' = InFlight(events')
      BY <1>s, <2>1 DEF SelectItem
    <3>2. InFlight(events)' <=> crossed'
      BY <1>s, <3>1 DEF InFlight
    <3> QED BY <1>s, <1>t, <2>1, <3>1, <3>2, FreshIndex DEF Following
  <2>2. CASE UNCHANGED iterVars
    BY <1>s, <2>2 DEF FollowInv, Following, RouteInv, OpPending, iterVars
  <2> QED BY <1>s, <2>1, <2>2 DEF SelectItem
<1>1. ASSUME NEW n, Reset(n) PROVE Following'
  BY <1>1, <1>s DEF Reset, listVars, opVars, scanVars
<1>2. ASSUME NEW step, NEW looped, NEW randomized, Navigate(step, looped, randomized) PROVE Following'
  BY <1>2, <1>s DEF Navigate, listVars, opVars, scanVars
(* Of a map that meets no index.                                           *)
<1>n. ASSUME index = NO_INDEX, SelectItem(0, events'), UNCHANGED <<items, opc, spc>>
      PROVE  Following'
  <2>1. CASE 0 \in Indices(items)
    <3>1. index' = 0 /\ current' = At(items, 0).item /\ crossed' = InFlight(events')
      BY <1>n, <2>1 DEF SelectItem
    <3>2. InFlight(events)' <=> crossed'
      BY <1>n, <3>1 DEF InFlight
    <3> QED BY <1>n, <1>t, <2>1, <3>1, <3>2, FreshIndex DEF Following
  <2>2. CASE UNCHANGED iterVars
    BY <1>n, <2>2 DEF Following, iterVars
  <2> QED BY <1>n, <2>1, <2>2 DEF SelectItem
<1>3. CASE NotifyDirectly
  <2> DEFINE map == remap["gui"]
  <2>1. gpc = "notify" /\ UpdateIndices(map, events, TRUE) /\ UNCHANGED <<items, opc, spc, events, removed>>
    BY <1>3 DEF NotifyDirectly, listVars, opVars, scanVars
  <2>d. index # NO_INDEX /\ ~crossed /\ ~InFlight(events) => DirectInv
    BY <2>1 DEF FollowInv
  <2>i. InFlight(events)' <=> InFlight(events)
    BY <2>1 DEF InFlight
  <2>2. CASE index = NO_INDEX /\ SelectItem(0, events)
    BY <1>n, <2>1, <2>2
  <2>3. CASE index # NO_INDEX /\ index \in DOMAIN map /\ index' = map[index] /\ UNCHANGED current
               /\ crossed' = (crossed \/ (TRUE /\ InFlight(events)))
    <3>1. SUFFICES ASSUME ~crossed' PROVE RouteInv'
      BY DEF Following
    <3>2. ~crossed /\ ~InFlight(events)
      BY <2>3, <3>1
    <3>3. map[index] \in Indices(items) /\ At(items, map[index]).item = current
      BY <2>3, <2>d, <3>2 DEF DirectInv
    <3> QED BY <1>t, <2>1, <2>3, <2>i, <3>2, <3>3, FreshIndex
  <2>4. ASSUME NEW n \in Indices(items), index # NO_INDEX, index \notin DOMAIN map, Replaced(n, events)
        PROVE  Following'
    <3>1. SUFFICES ASSUME ~crossed' PROVE RouteInv'
      BY DEF Following
    <3>2. ~InFlight(events) /\ index' = n
          /\ current' = IF crossed \/ current \in removed THEN At(items, n).item ELSE current
      BY <2>4, <3>1 DEF Replaced
    <3>3. crossed \/ current \in removed
      BY <2>4, <2>d, <3>2 DEF DirectInv
    <3>4. current' = At(items, n).item
      BY <3>2, <3>3
    <3> QED BY <1>t, <2>1, <2>4, <2>i, <3>2, <3>4, FreshIndex
  <2>5. CASE index' = NO_INDEX
    BY <2>5 DEF Following
  <2> HIDE DEF map
  <2> QED BY <2>1, <2>2, <2>3, <2>4, <2>5 DEF UpdateIndices
<1>4. CASE DeliverIndices
  <2> DEFINE map == Head(events).map
  <2>1. /\ gpc = "idle" /\ events # <<>> /\ events' = Tail(events) /\ Head(events).type = "indices"
        /\ UpdateIndices(map, Tail(events), FALSE) /\ UNCHANGED <<items, opc, spc, remap>>
    BY <1>4 DEF DeliverIndices, Received, listVars, opVars, scanVars
  <2>d. index # NO_INDEX /\ ~crossed => RouteInv
    BY <2>1 DEF FollowInv
  <2>p. OpPending' <=> OpPending
    BY <2>1 DEF OpPending
  <2>m. RouteInv => /\ index \in DOMAIN map
                    /\ OpPending => AheadOp(Tail(events), map[index], remap["op"], items, current)
                    /\ ~OpPending => Ahead(Tail(events), map[index], items, current)
    <3>1. index \in DOMAIN map => Onward(Head(events), index) = map[index]
      BY <2>1 DEF Onward
    <3> HIDE DEF map
    <3>2. CASE OpPending
      <4>1. RouteInv => AheadOp(events, index, remap["op"], items, current)
        BY <1>t, <3>2, RouteInvMeans
      <4> QED BY <1>t, <2>1, <3>1, <3>2, <4>1, AheadOfTail DEF map
    <3>3. CASE ~OpPending
      <4>1. RouteInv => Ahead(events, index, items, current)
        BY <1>t, <3>3, RouteInvMeans
      <4> QED BY <1>t, <2>1, <3>1, <3>3, <4>1, AheadOfTail DEF map
    <3> QED BY <3>2, <3>3
  <2> HIDE DEF map
  <2>2. CASE index = NO_INDEX /\ SelectItem(0, Tail(events))
    BY <1>n, <2>1, <2>2
  <2>3. CASE index # NO_INDEX /\ index \in DOMAIN map /\ index' = map[index] /\ UNCHANGED current
               /\ crossed' = (crossed \/ (FALSE /\ InFlight(Tail(events))))
    <3>1. SUFFICES ASSUME ~crossed' PROVE RouteInv'
      BY DEF Following
    <3>2. RouteInv
      BY <2>3, <2>d, <3>1
    <3>3. /\ OpPending' => AheadOp(events', index', remap'["op"], items', current')
          /\ ~OpPending' => Ahead(events', index', items', current')
      BY <2>1, <2>3, <2>m, <2>p, <3>2
    <3> QED BY <1>t, <3>3, RouteInvNext
  <2>4. ASSUME NEW n \in Indices(items), index # NO_INDEX, index \notin DOMAIN map, Replaced(n, Tail(events))
        PROVE  Following'
    <3>1. SUFFICES ASSUME ~crossed' PROVE RouteInv'
      BY DEF Following
    <3>2. ~InFlight(Tail(events)) /\ index' = n
          /\ current' = IF crossed \/ current \in removed THEN At(items, n).item ELSE current
      BY <2>4, <3>1 DEF Replaced
    <3>3. crossed
      BY <2>4, <2>d, <2>m
    <3>4. current' = At(items, n).item
      BY <3>2, <3>3
    <3>5. InFlight(events)' <=> InFlight(Tail(events))
      BY <2>1 DEF InFlight
    <3> QED BY <1>t, <2>1, <2>4, <3>2, <3>4, <3>5, FreshIndex
  <2>5. CASE index' = NO_INDEX
    BY <2>5 DEF Following
  <2> QED BY <2>1, <2>2, <2>3, <2>4, <2>5 DEF UpdateIndices
<1> QED BY <1>1, <1>2, <1>3, <1>4

(* The rest: the list changes, an operation or a scan sends its map.       *)
LEMMA OtherStep ==
  ASSUME TypeOK, ListInv, CloneInv, CallInv, FollowInv, TypeOK', UNCHANGED <<index, current>>,
         \/ Modification \/ Request \/ FetchMore \/ Modify \/ Perform \/ CancelLongOperation
         \/ DeliverState \/ DeliverResult
         \/ OpAcquire \/ OpRun \/ OpSwap \/ OpStop \/ OpNotify
         \/ AddItem \/ AddItemLocked \/ \E n \in 1..ItemCount : AddItems(n)
         \/ ScanNotify \/ UNCHANGED vars
  PROVE  Following'
<1>t. /\ events \in Seq(Signals) /\ events' \in Seq(Signals)
      /\ remap \in [{"gui", "op", "scan"} -> Maps]
  BY DEF TypeOK
<1>x. SUFFICES ASSUME index # NO_INDEX, ~crossed', gpc' # "notify" PROVE RouteInv'
  BY DEF Following
<1>i. crossed' = crossed /\ gpc # "notify" => RouteInv
  BY <1>x DEF FollowInv
<1>a. RouteInv => /\ OpPending => AheadOp(events, index, remap["op"], items, current)
                  /\ ~OpPending => Ahead(events, index, items, current)
  BY <1>t, RouteInvMeans
<1>b. ASSUME OpPending' => AheadOp(events', index, remap'["op"], items', current),
             ~OpPending' => Ahead(events', index, items', current)
      PROVE  RouteInv'
  BY <1>b, <1>t, RouteInvNext
<1>c. ASSUME UNCHANGED <<items, events>>, crossed' = crossed, remap'["op"] = remap["op"],
             OpPending' <=> OpPending, gpc # "notify"
      PROVE  RouteInv'
  BY <1>a, <1>b, <1>c, <1>i
<1>d. ASSUME NEW e \in Signals, e.type # "indices", Emit(e), UNCHANGED items, crossed' = crossed,
             remap'["op"] = remap["op"], OpPending' <=> OpPending, gpc # "notify"
      PROVE  RouteInv'
  <2>1. /\ OpPending => AheadOp(Append(events, e), index, remap["op"], items, current)
        /\ ~OpPending => Ahead(Append(events, e), index, items, current)
    BY <1>a, <1>d, <1>i, <1>t, AheadOfOther
  <2>2. events' = Append(events, e)
    BY <1>d DEF Emit
  <2> QED BY <1>b, <1>d, <2>1, <2>2
<1>1. CASE Modification \/ Request \/ FetchMore \/ AddItem \/ UNCHANGED vars
  BY <1>1, <1>c, <1>x DEF Modification, Request, Begin, FetchMore, AddItem, vars, listVars, iterVars,
       opVars, guiVars, OpPending
<1>2. CASE Perform \/ CancelLongOperation
  <2>1. UNCHANGED <<items, events, remap, crossed>> /\ gpc # "notify" /\ (OpPending' <=> OpPending)
    BY <1>2 DEF Perform, CancelLongOperation, listVars, iterVars, OpPending
  <2> QED BY <1>c, <2>1
<1>3. CASE Modify
  <2>1. OutOfRange /\ gpc = "modify" /\ UNCHANGED <<items, remap, events, crossed, opc>>
    BY <1>3, <1>x DEF Modify, listVars, iterVars, opVars
  <2> QED BY <1>c, <2>1 DEF OpPending
<1>4. CASE DeliverState \/ DeliverResult
  <2>1. /\ gpc = "idle" /\ events # <<>> /\ events' = Tail(events) /\ Head(events).type # "indices"
        /\ UNCHANGED <<items, crossed, opc, remap>>
    BY <1>4 DEF DeliverState, DeliverResult, Received, listVars, iterVars, opVars
  <2>2. Onward(Head(events), index) = index
    BY <2>1 DEF Onward
  <2>3. RouteInv /\ (OpPending' <=> OpPending)
    BY <1>i, <2>1 DEF OpPending
  <2>4. /\ OpPending => AheadOp(Tail(events), index, remap["op"], items, current)
        /\ ~OpPending => Ahead(Tail(events), index, items, current)
    BY <1>a, <1>t, <2>1, <2>2, <2>3, AheadOfTail
  <2> QED BY <1>b, <2>1, <2>3, <2>4
<1>5. CASE OpAcquire
  <2>1. UNCHANGED <<items, crossed, remap, gpc>> /\ (OpPending' <=> OpPending)
        /\ (Emit(Signal("OperationStarted")) \/ UNCHANGED events)
    BY <1>5 DEF OpAcquire, listVars, iterVars, guiVars, OpPending
  <2>2. Signal("OperationStarted") \in Signals /\ Signal("OperationStarted").type # "indices"
    BY SignalTypes DEF Signal
  <2> QED BY <1>c, <1>d, <1>x, <2>1, <2>2
<1>6. CASE OpRun
  <2>1. /\ UNCHANGED <<items, crossed, remap, gpc>> /\ (OpPending' <=> OpPending)
        /\ (UNCHANGED events \/ \E set \in SUBSET Indices(items) : Finds(set))
    BY <1>6 DEF OpRun, listVars, iterVars, guiVars, OpPending
  <2>2. ASSUME NEW set \in SUBSET Indices(items), Finds(set)
        PROVE  \E e \in Signals : e.type # "indices" /\ Emit(e)
    <3>1. Signal("selected") \in Signals /\ Signal("selected").type # "indices"
      BY SignalTypes DEF Signal
    <3>2. [type |-> "ResultAcquired", set |-> set] \in Signals
      BY Lists, SignalTypes
    <3> QED BY <2>2, <3>1, <3>2 DEF Finds
  <2> QED BY <1>c, <1>d, <1>x, <2>1, <2>2
<1>7. CASE OpSwap
  <2>1. /\ Rearranged(clone) /\ Replace("op", clone) /\ Unique(clone) /\ ~OpPending /\ OpPending'
        /\ UNCHANGED <<events, crossed, gpc>>
    BY <1>7, SwapResult DEF OpSwap, CloneInv, iterVars, guiVars, OpPending
  <2>2. PICK q \in Indices(items) : Arrives(events, index, q) /\ At(items, q).item = current
    BY <1>a, <1>i, <1>x, <2>1 DEF Ahead
  <2>3. /\ DOMAIN remap'["op"] = {clone[k].index : k \in DOMAIN clone}
        /\ Len(items') = Len(clone)
    BY <2>1, ReplaceStep
  <2>4. DOMAIN remap'["op"] \subseteq Indices(items')
    <3>1. Indices(items') = Indices(clone)
      BY <2>3 DEF Indices
    <3>2. \A k \in DOMAIN clone : clone[k].index \in Indices(clone)
      BY <2>1 DEF Rearranged
    <3> QED BY <2>3, <3>1, <3>2
  <2>5. q \in DOMAIN remap'["op"]
    BY <2>1, <2>3 DEF Rearranged
  <2>6. PICK k \in DOMAIN clone : /\ clone[k].index = q /\ remap'["op"][q] \in Indices(items')
                                  /\ At(items', remap'["op"][q]).item = clone[k].item
    BY <2>1, <2>5, ReplacedPlaces
  <2>7. clone[k] = At(items, q)
    BY <2>1, <2>6 DEF Rearranged
  <2>8. AheadOp(events', index, remap'["op"], items', current)
    BY <2>1, <2>2, <2>4, <2>5, <2>6, <2>7 DEF AheadOp
  <2> QED BY <1>b, <2>1, <2>8
<1>8. CASE OpStop
  <2>1. /\ UNCHANGED <<items, crossed, remap, gpc>> /\ (OpPending' <=> OpPending)
        /\ Emit(Signal("OperationStopped"))
    BY <1>8 DEF OpStop, listVars, iterVars, guiVars, OpPending
  <2>2. Signal("OperationStopped") \in Signals /\ Signal("OperationStopped").type # "indices"
    BY SignalTypes DEF Signal
  <2> QED BY <1>d, <1>x, <2>1, <2>2
<1>9. CASE OpNotify
  <2> DEFINE e == [type |-> "indices", map |-> remap["op"]]
  <2>1. /\ events' = Append(events, e) /\ OpPending /\ ~OpPending' /\ UNCHANGED <<items, crossed, gpc>>
    BY <1>9 DEF OpNotify, Notify, Emit, OpPending, listVars, iterVars, guiVars
  <2>2. e \in Signals /\ e.type = "indices" /\ e.map = remap["op"]
    BY <1>t, SignalTypes
  <2> HIDE DEF e
  <2>3. PICK q \in DOMAIN remap["op"] : /\ Arrives(events, index, q) /\ remap["op"][q] \in Indices(items)
                                        /\ At(items, remap["op"][q]).item = current
    BY <1>a, <1>i, <1>x, <2>1 DEF AheadOp
  <2>4. Arrives(Append(events, e), index, remap["op"][q])
    <3>1. Onward(e, q) = remap["op"][q]
      BY <2>2, <2>3 DEF Onward
    <3>2. Arrives(Append(events, e), index, Onward(e, q))
      BY <1>t, <2>2, <2>3, ArrivesOnAppend
    <3> QED BY <3>1, <3>2
  <2>5. Ahead(events', index, items', current)
    BY <2>1, <2>3, <2>4 DEF Ahead
  <2> QED BY <1>b, <2>1, <2>5
<1>10. ASSUME NEW n, AddItemLocked \/ (n \in 1..ItemCount /\ AddItems(n)) PROVE RouteInv'
  <2>1. Stays(items, items')
    BY <1>10, AddedStays
  <2>2. UNCHANGED <<events, crossed, gpc, opc>> /\ remap'["op"] = remap["op"]
    BY <1>10, <1>t DEF AddItemLocked, AddItems, Replace, iterVars, guiVars, opVars
  <2>3. /\ OpPending => AheadOp(events, index, remap["op"], items', current)
        /\ ~OpPending => Ahead(events, index, items', current)
    BY <1>a, <1>i, <1>x, <2>1, <2>2, AheadInGrown
  <2> QED BY <1>b, <2>2, <2>3 DEF OpPending
<1>11. CASE ScanNotify
  <2> DEFINE map == remap["scan"]
             e == [type |-> "indices", map |-> map]
  <2>1. /\ events' = Append(events, e) /\ spc = "notify" /\ UNCHANGED <<items, gpc, opc>>
        /\ crossed' = (crossed \/ DOMAIN map # Indices(items)) /\ remap'["op"] = remap["op"]
    BY <1>11, <1>t DEF ScanNotify, Notify, Emit, listVars, guiVars, opVars
  <2>2. e \in Signals /\ e.type = "indices" /\ e.map = map
    BY <1>t, SignalTypes
  <2>3. \A n \in DOMAIN map : map[n] = n
    BY <2>1 DEF FollowInv
  <2> HIDE DEF e, map
  <2>4. ~crossed /\ DOMAIN map = Indices(items)
    BY <1>x, <2>1
  <2>5. RouteInv
    BY <1>x, <2>1, <2>4 DEF FollowInv
  <2>6. ASSUME NEW q \in Indices(items), Arrives(events, index, q) PROVE Arrives(events', index, q)
    <3>1. Onward(e, q) = q
      BY <2>2, <2>3, <2>4 DEF Onward
    <3>2. Arrives(Append(events, e), index, Onward(e, q))
      BY <1>t, <2>2, <2>4, <2>6, ArrivesOnAppend
    <3> QED BY <2>1, <3>1, <3>2
  <2>7. CASE OpPending
    <3>1. AheadOp(events, index, remap["op"], items, current)
      BY <1>a, <2>5, <2>7
    <3>2. AheadOp(events', index, remap'["op"], items', current)
      BY <2>1, <2>6, <3>1 DEF AheadOp
    <3> QED BY <1>b, <2>1, <2>7, <3>2 DEF OpPending
  <2>8. CASE ~OpPending
    <3>1. Ahead(events, index, items, current)
      BY <1>a, <2>5, <2>8
    <3>2. Ahead(events', index, items', current)
      BY <2>1, <2>6, <3>1 DEF Ahead
    <3> QED BY <1>b, <2>1, <2>8, <3>2 DEF OpPending
  <2> QED BY <2>7, <2>8
<1> QED BY <1>1, <1>2, <1>3, <1>4, <1>5, <1>6, <1>7, <1>8, <1>9, <1>10, <1>11

(* Whether a map is under way, before and after a step.                    *)
LEMMA InFlightNext ==
  ASSUME events \in Seq(Signals)
  PROVE  /\ InFlight(events) <=> MapQueued(events) \/ OpPending \/ spc = "notify"
         /\ (InFlight(events))' <=> MapQueued(events') \/ OpPending' \/ spc' = "notify"
BY DEF InFlight, MapQueued, OpPending

(* The threads beside the GUI: either a map is on its way after the step,  *)
(* or none was before it, and what the list had is still there.            *)
LEMMA BesideGui ==
  ASSUME TypeOK, ListInv,
         \/ OpAcquire \/ OpRun \/ OpSwap \/ OpStop \/ OpNotify
         \/ AddItem \/ AddItemLocked \/ \E n \in 1..ItemCount : AddItems(n)
         \/ ScanNotify \/ UNCHANGED vars
  PROVE  \/ (InFlight(events))'
         \/ /\ InFlight(events) => (InFlight(events))'
            /\ Stays(items, items') /\ remap'["gui"] = remap["gui"]
            /\ UNCHANGED <<index, current, crossed, removed, gpc>>
            /\ skipped => skipped'
            /\ items = <<>> => items' = <<>> \/ skipped'
<1>t. events \in Seq(Signals) /\ remap \in [{"gui", "op", "scan"} -> Maps] /\ skipped \in BOOLEAN
  BY DEF TypeOK
<1>s. UNCHANGED items => Stays(items, items')
  BY DEF Stays
<1>a. \A e \in Signals : MapQueued(Append(events, e)) <=> MapQueued(events) \/ e.type = "indices"
  BY <1>t, MapQueuedOf
<1>1. CASE OpAcquire \/ OpStop \/ AddItem \/ UNCHANGED vars
  <2>1. /\ UNCHANGED <<items, remap, index, current, crossed, removed, gpc, skipped>>
        /\ (OpPending' <=> OpPending) /\ (spc = "notify" => spc' = "notify")
        /\ UNCHANGED events \/ \E e \in Signals : events' = Append(events, e)
    <3>1. \A type \in {"OperationStarted", "OperationStopped"} :
            Emit(Signal(type)) => \E e \in Signals : events' = Append(events, e)
      BY SignalTypes DEF Emit
    <3>2. CASE OpAcquire
      BY <3>1, <3>2 DEF OpAcquire, OpPending, listVars, iterVars, guiVars, scanVars
    <3>3. CASE OpStop
      BY <3>1, <3>3 DEF OpStop, OpPending, listVars, iterVars, guiVars, scanVars
    <3>4. CASE AddItem \/ UNCHANGED vars
      BY <3>4 DEF AddItem, vars, OpPending, listVars, iterVars, guiVars, opVars
    <3> QED BY <1>1, <3>2, <3>3, <3>4
  <2> QED BY <1>a, <1>s, <1>t, <2>1, InFlightNext
<1>2. CASE OpRun
  <2>1. /\ UNCHANGED <<items, remap, index, current, crossed, removed, gpc, skipped, spc>>
        /\ (OpPending' <=> OpPending)
        /\ UNCHANGED events \/ \E set \in SUBSET Indices(items) : Finds(set)
    BY <1>2 DEF OpRun, OpPending, listVars, iterVars, guiVars, scanVars
  <2>2. ASSUME NEW set \in SUBSET Indices(items), Finds(set)
        PROVE  \E e \in Signals : events' = Append(events, e)
    <3>1. Signal("selected") \in Signals /\ [type |-> "ResultAcquired", set |-> set] \in Signals
      BY Lists, SignalTypes
    <3> QED BY <2>2, <3>1 DEF Finds, Emit
  <2> QED BY <1>a, <1>s, <1>t, <2>1, <2>2, InFlightNext
<1>3. CASE OpSwap
  BY <1>3, <1>t, InFlightNext DEF OpSwap, OpPending
<1>4. CASE OpNotify
  <2>1. [type |-> "indices", map |-> remap["op"]] \in Signals
    BY <1>t, SignalTypes
  <2>2. events' = Append(events, [type |-> "indices", map |-> remap["op"]])
    BY <1>4 DEF OpNotify, Notify, Emit
  <2>3. MapQueued(events')
    BY <1>a, <2>1, <2>2
  <2> QED BY <1>t, <2>3, InFlightNext
<1>5. CASE ScanNotify
  <2>1. [type |-> "indices", map |-> remap["scan"]] \in Signals
    BY <1>t, SignalTypes
  <2>2. events' = Append(events, [type |-> "indices", map |-> remap["scan"]])
    BY <1>5 DEF ScanNotify, Notify, Emit
  <2>3. MapQueued(events')
    BY <1>a, <2>1, <2>2
  <2> QED BY <1>t, <2>3, InFlightNext
<1>6. ASSUME NEW n \in 1..ItemCount, AddItems(n) PROVE (InFlight(events))'
  BY <1>6, <1>t, InFlightNext DEF AddItems
<1>7. CASE AddItemLocked
  <2>1. CASE sawEmpty
    BY <1>7, <1>t, <2>1, InFlightNext DEF AddItemLocked
  <2>2. CASE ~sawEmpty
    <3>1. /\ UNCHANGED <<remap, index, current, crossed, removed, gpc, events, opc>> /\ spc = "add"
          /\ skipped' = (skipped \/ (items = <<>> /\ ~sawEmpty))
      BY <1>7, <2>2 DEF AddItemLocked, iterVars, guiVars, opVars
    <3>2. Stays(items, items')
      BY <1>7, AddedStays
    <3>3. InFlight(events) => (InFlight(events))'
      BY <1>t, <3>1, InFlightNext DEF OpPending
    <3> QED BY <2>2, <3>1, <3>2, <3>3
  <2> QED BY <2>1, <2>2
<1> QED BY <1>1, <1>2, <1>3, <1>4, <1>5, <1>6, <1>7

(* The GUI between a modification and its signal.                          *)
Directing == index # NO_INDEX /\ ~crossed /\ gpc = "notify" /\ ~InFlight(events) => DirectInv

(* Every step keeps the order in which the maps reach the iterator.        *)
LEMMA DirectStep ==
  ASSUME TypeOK, ListInv, CloneInv, CallInv, FollowInv, [Next]_vars
  PROVE  Directing'
<1>t. events \in Seq(Signals) /\ remap \in [{"gui", "op", "scan"} -> Maps] /\ Proper(items)
  BY Lists DEF TypeOK
<1>1. ASSUME gpc' # "notify" PROVE Directing'
  BY <1>1 DEF Directing
<1>2. CASE Modify
  <2> SUFFICES ASSUME index' # NO_INDEX, ~crossed', gpc' = "notify", ~(InFlight(events))' PROVE DirectInv'
    BY DEF Directing
  <2>1. ~OutOfRange /\ gpc = "modify" /\ Replace("gui", Result)
        /\ removed' = removed \cup {At(items, n).item : n \in Unwanted}
        /\ UNCHANGED <<index, current, crossed, events, opc, spc>>
    BY <1>2 DEF Modify, iterVars, opVars, scanVars
  <2>2. Picks(Result, items, Indices(items) \ Unwanted) /\ Unique(Result) /\ Unwanted \in SUBSET Indices(items)
    BY <2>1, ModifyResult
  <2>3. index \in Indices(items) /\ At(items, index).item = current
    <3>1. RouteInv /\ ~OpPending /\ ~MapQueued(events)
      BY <1>t, <2>1, InFlightNext DEF FollowInv, OpPending
    <3>2. Ahead(events, index, items, current)
      BY <1>t, <3>1, RouteInvMeans
    <3> QED BY <1>t, <3>1, <3>2, AheadAtOnce DEF MapQueued
  <2> DEFINE kept == Indices(items) \ Unwanted
  <2>4. PickedFrom(Result, items, kept)
    <3>1. kept \in SUBSET Indices(items) /\ Picks(Result, items, kept)
      BY <2>2
    <3> HIDE DEF kept
    <3> QED BY <1>t, <3>1, PicksAreUnique
  <2>5. CASE index \in DOMAIN remap'["gui"]
    <3>1. PICK k \in DOMAIN Result : /\ Result[k].index = index /\ remap'["gui"][index] \in Indices(items')
                                     /\ At(items', remap'["gui"][index]).item = Result[k].item
      BY <2>1, <2>2, <2>5, ReplacedPlaces
    <3>2. Result[k] = At(items, index)
      BY <2>4, <3>1 DEF PickedFrom
    <3> QED BY <2>1, <2>3, <2>5, <3>1, <3>2 DEF DirectInv
  <2>6. CASE index \notin DOMAIN remap'["gui"]
    <3>1. DOMAIN remap'["gui"] = {Result[k].index : k \in DOMAIN Result}
      BY <2>1, <2>2, ReplaceStep
    <3>2. index \notin kept
      BY <2>4, <2>6, <3>1 DEF PickedFrom
    <3>3. index \in Unwanted
      BY <2>3, <3>2
    <3>4. current' \in removed'
      BY <2>1, <2>3, <3>3
    <3> QED BY <2>1, <2>6, <3>4 DEF DirectInv
  <2> QED BY <2>5, <2>6
<1>3. CASE \/ OpAcquire \/ OpRun \/ OpSwap \/ OpStop \/ OpNotify
           \/ AddItem \/ AddItemLocked \/ \E n \in 1..ItemCount : AddItems(n)
           \/ ScanNotify \/ UNCHANGED vars
  <2> SUFFICES ASSUME index' # NO_INDEX, ~crossed', gpc' = "notify", ~(InFlight(events))' PROVE DirectInv'
    BY DEF Directing
  <2>1. /\ InFlight(events) => (InFlight(events))'
        /\ Stays(items, items') /\ remap'["gui"] = remap["gui"]
        /\ UNCHANGED <<index, current, crossed, removed, gpc>>
    BY <1>3, BesideGui
  <2>2. DirectInv
    BY <2>1 DEF FollowInv
  <2> QED BY <2>1, <2>2 DEF DirectInv, Stays
<1>4. CASE Modification \/ Request \/ FetchMore \/ NotifyDirectly \/ Perform \/ CancelLongOperation
             \/ DeliverState \/ DeliverResult \/ DeliverIndices
  BY <1>1, <1>4 DEF Modification, Request, Begin, FetchMore, NotifyDirectly, Perform, CancelLongOperation,
       DeliverState, DeliverResult, DeliverIndices, Received, guiVars
<1>5. ASSUME NEW n, NEW step, NEW looped, NEW randomized, Reset(n) \/ Navigate(step, looped, randomized)
      PROVE  Directing'
  BY <1>1, <1>5 DEF Reset, Navigate
<1>6. Rest => UNCHANGED vars
  BY DEF Rest
<1> QED BY <1>2, <1>3, <1>4, <1>5, <1>6 DEF Next, User, GuiCall, OpStep, ScanCall, ScanStep

(* Every step keeps the iterator on its way to its item.                   *)
LEMMA FollowStep ==
  ASSUME TypeOK, ListInv, CloneInv, CallInv, FollowInv, [Next]_vars
  PROVE  FollowInv'
<1>1. TypeOK'
  BY TypeStep
<1>2. ScanMapInv'
  BY ScanMapStep DEF FollowInv, ScanMapInv
<1>3. Directing'
  BY DirectStep
<1>4. Following'
  <2>1. CASE \/ Modification \/ Request \/ FetchMore \/ Modify \/ Perform \/ CancelLongOperation
             \/ DeliverState \/ DeliverResult
             \/ OpAcquire \/ OpRun \/ OpSwap \/ OpStop \/ OpNotify
             \/ AddItem \/ AddItemLocked \/ \E n \in 1..ItemCount : AddItems(n)
             \/ ScanNotify \/ UNCHANGED vars
    <3>1. UNCHANGED <<index, current>>
      BY <2>1 DEF Modification, Request, Begin, FetchMore, Modify, Perform, CancelLongOperation, DeliverState,
           DeliverResult, OpAcquire, OpRun, OpSwap, OpStop, OpNotify, AddItem, AddItemLocked, AddItems,
           ScanNotify, vars, iterVars
    <3> QED BY <1>1, <2>1, <3>1, OtherStep
  <2>2. ASSUME \/ \E n : Reset(n)
               \/ \E step, looped, randomized : Navigate(step, looped, randomized)
               \/ NotifyDirectly \/ DeliverIndices
        PROVE  Following'
    BY <1>1, <2>2, IteratorStep
  <2>3. Rest => UNCHANGED vars
    BY DEF Rest
  <2> QED BY <2>1, <2>2, <2>3 DEF Next, User, GuiCall, OpStep, ScanCall, ScanStep
<1> QED BY <1>2, <1>3, <1>4 DEF FollowInv, ScanMapInv, Directing, Following

-----------------------------------------------------------------------------
(* A playlist with items gets a current one.                               *)

(* Every step keeps the first item announced or about to be.               *)
LEMMA FirstStep ==
  ASSUME TypeOK, ListInv, CloneInv, CallInv, FollowInv, FirstInv, [Next]_vars
  PROVE  FirstInv'
<1>t. /\ events \in Seq(Signals) /\ remap \in [{"gui", "op", "scan"} -> Maps]
      /\ items \in Seq(Entries) /\ index \in {NO_INDEX} \cup Rows /\ skipped \in BOOLEAN
  BY DEF TypeOK
<1>r. \A n \in Rows : n # NO_INDEX /\ n \in Nat
  BY PlaylistAssumption DEF Rows, NO_INDEX
<1>l. Indices(items) \in SUBSET Rows /\ (items # <<>> => 0 \in Indices(items))
  BY <1>t, Lists DEF Indices
<1>1. ASSUME UNCHANGED <<items, index, crossed, skipped>>, InFlight(events) => (InFlight(events))',
             gpc # "notify", gpc' # "notify"
      PROVE  FirstInv'
  BY <1>1 DEF FirstInv
<1>2. CASE Modify
  <2>1. CASE OutOfRange
    <3>1. gpc = "modify" /\ gpc' = "aborted" /\ UNCHANGED <<items, index, crossed, skipped, events, opc, spc>>
      BY <1>2, <2>1 DEF Modify, listVars, iterVars, opVars, scanVars
    <3> QED BY <1>1, <3>1 DEF InFlight
  <2>2. CASE ~OutOfRange
    <3>1. gpc = "modify" /\ gpc' = "notify" /\ Replace("gui", Result) /\ Unique(Result)
      BY <1>2, <2>2, ModifyResult DEF Modify
    <3>2. /\ items' \in Seq(Entries) /\ Len(items') = Len(Result)
          /\ DOMAIN remap'["gui"] = {Result[k].index : k \in DOMAIN Result}
      BY <3>1, ReplaceStep
    <3>3. \A i \in DOMAIN remap'["gui"] : remap'["gui"][i] \in Indices(items')
      BY <3>1, ReplacedPlaces
    <3>4. DOMAIN remap'["gui"] = {} => items' = <<>>
      <4>1. Result \in Seq(Entries)
        BY <3>1 DEF Unique
      <4>2. ASSUME DOMAIN remap'["gui"] = {} PROVE Len(Result) = 0
        <5>1. \A k \in DOMAIN Result : FALSE
          BY <3>2, <4>2
        <5> QED BY <4>1, <5>1
      <4>3. Len(items') = 0 => items' = <<>>
        BY <3>2
      <4> QED BY <3>2, <4>2, <4>3
    <3> QED BY <3>1, <3>3, <3>4 DEF FirstInv
  <2> QED BY <2>1, <2>2
<1>3. CASE \/ OpAcquire \/ OpRun \/ OpSwap \/ OpStop \/ OpNotify
           \/ AddItem \/ AddItemLocked \/ \E n \in 1..ItemCount : AddItems(n)
           \/ ScanNotify \/ UNCHANGED vars
  <2>1. CASE (InFlight(events))'
    BY <2>1 DEF FirstInv
  <2>2. CASE ~(InFlight(events))'
    <3>1. /\ ~InFlight(events) /\ Stays(items, items') /\ remap'["gui"] = remap["gui"]
          /\ UNCHANGED <<index, current, crossed, removed, gpc>>
          /\ skipped => skipped'
          /\ items = <<>> => items' = <<>> \/ skipped'
      BY <1>3, <2>2, BesideGui
    <3> QED BY <3>1 DEF FirstInv, Stays
  <2> QED BY <2>1, <2>2
<1>4. CASE NotifyDirectly
  <2> DEFINE map == remap["gui"]
  <2>1. /\ gpc = "notify" /\ gpc' = "idle" /\ UpdateIndices(map, events, TRUE)
        /\ UNCHANGED <<items, opc, spc, events, skipped>>
    BY <1>4 DEF NotifyDirectly, listVars, opVars, scanVars
  <2>2. (InFlight(events))' <=> InFlight(events)
    BY <2>1 DEF InFlight
  <2>3. SUFFICES ASSUME ~skipped, ~crossed', items # <<>>, index' = NO_INDEX, ~InFlight(events) PROVE FALSE
    BY <2>1, <2>2 DEF FirstInv
  <2>4. map \in Maps /\ DOMAIN map # {} /\ \A i \in DOMAIN map : map[i] \in Indices(items)
    BY <1>t, <2>1, <2>3 DEF FirstInv
  <2> HIDE DEF map
  <2>5. CASE index = NO_INDEX /\ SelectItem(0, events)
    BY <1>l, <1>r, <2>3, <2>5 DEF SelectItem
  <2>6. CASE index # NO_INDEX /\ index \in DOMAIN map /\ index' = map[index]
    BY <1>l, <1>r, <2>3, <2>4, <2>6
  <2>7. ASSUME index # NO_INDEX, index \notin DOMAIN map,
               IF map # NoMap /\ FindNewSuitableIndex(map, index) \in Indices(items)
                 THEN Replaced(FindNewSuitableIndex(map, index), events)
                 ELSE index' = NO_INDEX /\ current' = 0 /\ UNCHANGED crossed
        PROVE  FALSE
    <3>1. map # NoMap
      BY <2>4 DEF NoMap
    <3>2. FindNewSuitableIndex(map, index) \in Indices(items)
      <4>1. index \in Nat
        BY <1>r, <1>t, <2>7
      <4>2. \E n \in DOMAIN map : FindNewSuitableIndex(map, index) = map[n]
        BY <2>4, <3>1, <4>1, NewIndex
      <4> QED BY <2>4, <4>2
    <3>3. index' = FindNewSuitableIndex(map, index)
      BY <2>7, <3>1, <3>2 DEF Replaced
    <3> QED BY <1>l, <1>r, <2>3, <3>2, <3>3
  <2> QED BY <2>1, <2>5, <2>6, <2>7 DEF UpdateIndices
<1>5. CASE DeliverIndices
  <2> DEFINE map == Head(events).map
             q == Tail(events)
  <2>1. /\ gpc = "idle" /\ gpc' = "idle" /\ UpdateIndices(map, q, FALSE) /\ UNCHANGED <<items, opc, spc, skipped>>
        /\ events # <<>> /\ Head(events).type = "indices" /\ Head(events) \in Signals
    <3>1. events # <<>> => Head(events) \in Signals
      BY <1>t
    <3> QED BY <1>5, <3>1 DEF DeliverIndices, Received, listVars, opVars, scanVars, guiVars
  <2>2. SUFFICES ASSUME ~skipped, ~crossed', items # <<>>, index' = NO_INDEX PROVE FALSE
    BY <2>1 DEF FirstInv
  <2>3. index # NO_INDEX /\ ~crossed => index \in DOMAIN map
    <3>1. ASSUME index # NO_INDEX, ~crossed PROVE index \in DOMAIN map
      <4>1. RouteInv
        BY <2>1, <3>1 DEF FollowInv
      <4>2. \E n : Arrives(events, index, n)
        <5>1. OpPending \/ ~OpPending
          OBVIOUS
        <5> QED BY <1>t, <4>1, <5>1, RouteInvMeans DEF Ahead, AheadOp
      <4> QED BY <1>t, <2>1, <4>2, ArrivesOnTail
    <3> QED BY <3>1
  <2>4. map \in Maps
    BY <2>1 DEF Signals
  <2> HIDE DEF map, q
  <2>5. CASE index = NO_INDEX /\ SelectItem(0, q)
    BY <1>l, <1>r, <2>2, <2>5 DEF SelectItem
  <2>6. CASE index # NO_INDEX /\ index \in DOMAIN map /\ index' = map[index]
    <3>1. map[index] \in Rows
      BY <2>4, <2>6 DEF Maps
    <3> QED BY <1>r, <2>2, <2>6, <3>1
  <2>7. ASSUME index # NO_INDEX, index \notin DOMAIN map,
               IF map # NoMap /\ FindNewSuitableIndex(map, index) \in Indices(items)
                 THEN Replaced(FindNewSuitableIndex(map, index), q)
                 ELSE index' = NO_INDEX /\ current' = 0 /\ UNCHANGED crossed
        PROVE  FALSE
    <3>1. crossed
      BY <2>3, <2>7
    <3>2. FindNewSuitableIndex(map, index) \in Indices(items) /\ index' = FindNewSuitableIndex(map, index)
      BY <2>2, <2>7, <3>1 DEF Replaced
    <3> QED BY <1>l, <1>r, <2>2, <3>2
  <2> QED BY <2>1, <2>5, <2>6, <2>7 DEF UpdateIndices
<1>6. CASE DeliverState \/ DeliverResult
  <2>1. /\ gpc = "idle" /\ gpc' # "notify" /\ events # <<>> /\ events' = Tail(events) /\ Head(events).type # "indices"
        /\ UNCHANGED <<items, index, crossed, skipped, opc, spc>>
    BY <1>6 DEF DeliverState, DeliverResult, Received, listVars, iterVars, opVars, scanVars
  <2>2. MapQueued(Tail(events)) <=> MapQueued(events)
    BY <1>t, <2>1, MapQueuedOf
  <2>3. InFlight(events) => (InFlight(events))'
    BY <1>t, <2>1, <2>2, InFlightNext DEF OpPending
  <2> QED BY <1>1, <2>1, <2>3
<1>7. CASE Modification \/ Request \/ FetchMore \/ Perform \/ CancelLongOperation
  <2>1. /\ gpc # "notify" /\ gpc' # "notify" /\ UNCHANGED <<items, index, crossed, skipped, events, spc>>
        /\ opc \in {"stopNotify", "notify"} => opc' = opc
    BY <1>7 DEF Modification, Request, Begin, FetchMore, Perform, CancelLongOperation, listVars, iterVars,
         guiVars, opVars, scanVars
  <2> QED BY <1>1, <2>1 DEF InFlight
<1>8. ASSUME NEW n, SelectItem(n, events), gpc # "notify", UNCHANGED <<gpc, items, events, opc, spc, skipped>>
      PROVE  FirstInv'
  <2>1. CASE n \in Indices(items)
    <3>1. index' # NO_INDEX /\ gpc' # "notify"
      BY <1>8, <1>l, <1>r, <2>1 DEF SelectItem
    <3> QED BY <3>1 DEF FirstInv
  <2>2. CASE UNCHANGED iterVars
    BY <1>1, <1>8, <2>2 DEF InFlight, iterVars
  <2> QED BY <1>8, <2>1, <2>2 DEF SelectItem
<1>9. ASSUME NEW n, NEW step, NEW looped, NEW randomized, Reset(n) \/ Navigate(step, looped, randomized)
      PROVE  FirstInv'
  BY <1>8, <1>9 DEF Reset, Navigate, listVars, opVars, scanVars
<1>10. Rest => UNCHANGED vars
  BY DEF Rest
<1> QED BY <1>2, <1>3, <1>4, <1>5, <1>6, <1>7, <1>9, <1>10 DEF Next, User, GuiCall, OpStep, ScanCall, ScanStep

-----------------------------------------------------------------------------
(* What holds of every behaviour.                                          *)

(* The initial state satisfies the inductive invariant.                    *)
LEMMA Initially == Init => IInv
<1> SUFFICES ASSUME Init PROVE IInv
  OBVIOUS
<1>1. NoMap \in Maps /\ NoCall \in Calls
  BY SignalTypes DEF Calls
<1>e. /\ <<>> \in Seq(Entries) /\ <<>> \in Seq(Signals) /\ Len(<<>>) = 0
      /\ Contents(<<>>) = {} /\ Distinct(<<>>) /\ DOMAIN <<>> = {}
  BY DEF Contents, Distinct
<1>2. TypeOK
  <2>1. calls \in 0..MaxCalls
    <3> QED BY PlaylistAssumption DEF Init
  <2>2. items = <<>> /\ clone = <<>> /\ events = <<>> /\ remap = [t \in {"gui", "op", "scan"} |-> NoMap]
        /\ fetched = 0 /\ found = 0 /\ removed = {} /\ index = NO_INDEX /\ current = 0
    BY DEF Init
  <2>3. /\ items \in Seq(Entries) /\ clone \in Seq(Entries) /\ events \in Seq(Signals)
        /\ remap \in [{"gui", "op", "scan"} -> Maps]
    BY <1>1, <1>e, <2>2
  <2>4. fetched \in 0..Len(items) /\ found \in 0..ItemCount /\ removed \subseteq Items
    BY <1>e, <2>2, PlaylistAssumption
  <2>5. index \in {NO_INDEX} \cup Rows /\ current \in {0} \cup Items
    BY <2>2
  <2>6. crossed \in BOOLEAN /\ viewEnabled \in BOOLEAN /\ locked \in BOOLEAN /\ canceled \in BOOLEAN
        /\ sawEmpty \in BOOLEAN /\ skipped \in BOOLEAN
    BY DEF Init
  <2>7. /\ gpc = "idle" /\ gcall \in Calls /\ opc \in {"none", "acquire"} /\ opKind \in {"none", "load"}
        /\ spc = "idle"
    BY <1>1 DEF Init
  <2> QED BY <2>1, <2>3, <2>4, <2>5, <2>6, <2>7 DEF TypeOK
<1>3. ListInv
  BY <1>e DEF Init, ListInv
<1>4. CloneInv /\ CallInv /\ FollowInv /\ FirstInv
  BY DEF Init, CloneInv, CallInv, FollowInv, FirstInv
<1>5. ViewInv
  BY <1>e DEF Init, ViewInv, Enabling
<1> QED BY <1>2, <1>3, <1>4, <1>5 DEF IInv

(* Every step keeps what is true of the list, the copy, the calls and the  *)
(* signals.                                                                *)
THEOREM Invariance == Spec => []IInv
<1>1. Init => IInv
  BY Initially
<1>2. IInv /\ [Next]_vars => IInv'
  BY TypeStep, ListStep, CloneStep, CallStep, ViewStep, FollowStep, FirstStep DEF IInv
<1> QED BY <1>1, <1>2, PTL DEF Spec

(* No item is lost or doubled while operations work on a copy of the list  *)
(* and the scanner adds (SwapStorage, AddItems, DeleteItems, MoveItems).   *)
THEOREM ItemsAreConserved == Spec => []Conservation
<1>1. IInv => Conservation
  BY Lists DEF IInv, ListInv, Conservation
<1> QED BY <1>1, Invariance, PTL

(* When all signals have arrived the iterator stands on the item that was  *)
(* selected (OnPlaylistChanged, UpdateIndices).                            *)
THEOREM SelectionIsKept == Spec => []IteratorFollows
<1>1. IInv => IteratorFollows
  <2> SUFFICES ASSUME IInv, Quiet, index # NO_INDEX, ~crossed
               PROVE  index \in Indices(items) /\ At(items, index).item = current
    BY DEF IteratorFollows
  <2>1. RouteInv /\ ~OpPending /\ events = <<>>
    BY DEF IInv, FollowInv, Quiet, OpPending
  <2>2. events \in Seq(Signals) /\ \A k \in DOMAIN events : events[k].type # "indices"
    BY <2>1 DEF IInv, TypeOK
  <2>3. Ahead(events, index, items, current)
    BY <2>1, <2>2, RouteInvMeans
  <2> QED BY <2>2, <2>3, AheadAtOnce
<1> QED BY <1>1, Invariance, PTL

(* A playlist that has got items has a current one when all signals have   *)
(* arrived (AddItem, AddAndNotify).                                        *)
THEOREM FirstIsSelected == Spec => []FirstItemNotified
<1>1. IInv => FirstItemNotified
  <2> SUFFICES ASSUME IInv, Quiet, ~skipped, ~crossed, items # <<>>, index = NO_INDEX PROVE FALSE
    BY DEF FirstItemNotified
  <2>1. ~InFlight(events) /\ gpc # "notify"
    BY DEF Quiet, InFlight
  <2> QED BY <2>1 DEF IInv, FirstInv
<1> QED BY <1>1, Invariance, PTL

(* An operation that has told that it started tells that it stopped, and   *)
(* the view hears it last (ExecuteOperation, LongOperationCancel).         *)
THEOREM ViewIsReleased == Spec => []ViewReenabled
<1>1. IInv => ViewReenabled
  BY DEF IInv, ViewInv, Enabling, Quiet, ViewReenabled
<1> QED BY <1>1, Invariance, PTL

-----------------------------------------------------------------------------
(* The storage.                                                            *)

(* The list of the storage: no node comes twice.                           *)
Listed(s) == s \in Seq(Nodes) /\ Len(s) <= MaxItems /\ IsInjective(s)

(* Nodes and the end are different, and so are the nodes of a list.        *)
LEMMA ListedBasics ==
  ASSUME NEW s, Listed(s)
  PROVE  /\ s \in Seq(Nodes) /\ Len(s) \in Nat /\ DOMAIN s = 1..Len(s) /\ Len(s) <= MaxItems
         /\ Indices(s) = 0..Len(s) - 1
         /\ \A n \in Indices(s) : n \in Nat /\ n + 1 \in 1..Len(s) /\ At(s, n) \in Nodes /\ At(s, n) # End
         /\ \A m, n \in Indices(s) : At(s, m) = At(s, n) => m = n
<1>1. s \in Seq(Nodes) /\ Len(s) \in Nat /\ DOMAIN s = 1..Len(s) /\ Len(s) <= MaxItems
  BY DEF Listed
<1>2. \A n \in Indices(s) : n \in Nat /\ n + 1 \in 1..Len(s)
  BY <1>1 DEF Indices
<1>3. \A n \in Nodes : n # End
  BY StorageAssumption DEF Nodes, End
<1>4. \A n \in Indices(s) : At(s, n) \in Nodes /\ At(s, n) # End
  BY <1>1, <1>2, <1>3 DEF At
<1>5. ASSUME NEW m \in Indices(s), NEW n \in Indices(s), At(s, m) = At(s, n) PROVE m = n
  <2>1. m + 1 = n + 1
    BY <1>1, <1>2, <1>5 DEF Listed, IsInjective, At
  <2> QED BY <1>2, <2>1
<1> QED BY <1>1, <1>2, <1>4, <1>5 DEF Indices

(* An iterator is found where it points to.                                *)
LEMMA PlaceOfIterator ==
  ASSUME NEW s, Listed(s), NEW n \in 0..Len(s)
  PROVE  Place(s, IteratorAt(s, n)) = n
<1>1. CASE n = Len(s)
  BY <1>1 DEF IteratorAt, Place
<1>2. CASE n # Len(s)
  <2>1. n \in Indices(s)
    BY <1>2, ListedBasics
  <2>2. IteratorAt(s, n) = At(s, n) /\ At(s, n) # End
    BY <1>2, <2>1, ListedBasics DEF IteratorAt
  <2>3. \A m \in Indices(s) : At(s, m) = At(s, n) <=> m = n
    BY <2>1, ListedBasics
  <2>4. Place(s, At(s, n)) = CHOOSE m \in Indices(s) : At(s, m) = At(s, n)
    BY <2>2 DEF Place
  <2> QED BY <2>1, <2>2, <2>3, <2>4
<1> QED BY <1>1, <1>2

(* An entry of an index and the iterator there.                            *)
Points(s, entry) == \E n \in 0..Len(s) : entry = <<n, IteratorAt(s, n)>>

(* The ends are such entries, whatever the differences wrap to.            *)
LEMMA PredefinedPoints ==
  ASSUME NEW s, Listed(s), NEW idx \in 0..Len(s)
  PROVE  Points(s, GetNearestPredefinedIterator(s, idx))
<1> DEFINE last == (Len(s) - 1) % IndexMod
           toLast == (last - idx) % IndexMod
<1>1. /\ Len(s) \in Nat /\ Len(s) <= MaxItems /\ MaxItems \in Nat
      /\ IndexMod \in Nat /\ IndexMod > 2 * MaxItems
  BY ListedBasics, StorageAssumption
<1>2. IndexMod > 0 /\ last \in Nat
  BY <1>1
<1>3. toLast >= 0
  <2>1. last - idx \in Int
    BY <1>1, <1>2
  <2> HIDE DEF last
  <2> QED BY <1>1, <1>2, <2>1
<1>4. CASE idx <= toLast
  <2>1. GetNearestPredefinedIterator(s, idx) = <<0, IteratorAt(s, 0)>>
    BY <1>4 DEF GetNearestPredefinedIterator
  <2> QED BY <1>1, <2>1 DEF Points
<1>5. CASE ~(idx <= toLast)
  <2>1. Len(s) > 0
    BY <1>1, <1>3, <1>5
  <2>2. last = Len(s) - 1
    BY <1>1, <1>2, <2>1
  <2>3. GetNearestPredefinedIterator(s, idx) = <<last, At(s, Len(s) - 1)>>
    BY <1>5 DEF GetNearestPredefinedIterator
  <2>4. IteratorAt(s, Len(s) - 1) = At(s, Len(s) - 1)
    BY <1>1 DEF IteratorAt
  <2>5. Len(s) - 1 \in 0..Len(s)
    BY <1>1, <2>1
  <2> HIDE DEF last
  <2> QED BY <2>2, <2>3, <2>4, <2>5 DEF Points
<1> QED BY <1>4, <1>5

(* So is the nearest of the cached ones.                                   *)
LEMMA CachedPoints ==
  ASSUME NEW s, Listed(s), NEW c, Hold(s, c), DOMAIN c # {}, NEW idx \in 0..Len(s)
  PROVE  Points(s, GetNearestCachedIterator(c, idx))
<1> DEFINE lower == {n \in DOMAIN c : n <= idx}
           upper == DOMAIN c \ lower
<1>1. Len(s) \in Nat /\ DOMAIN c \in SUBSET (0..Len(s))
  BY ListedBasics DEF Hold
<1>2. \A n \in DOMAIN c : Points(s, <<n, c[n]>>)
  BY DEF Hold, Points
<1>3. /\ lower \in SUBSET Nat /\ lower \in SUBSET (DOMAIN c)
      /\ upper \in SUBSET Nat /\ upper \in SUBSET (DOMAIN c)
  BY <1>1
<1>4. \A n \in lower : n <= Len(s)
  BY <1>1
<1>5. lower = {} => upper # {}
  OBVIOUS
<1>6. /\ GetNearestCachedIterator(c, idx) =
           IF lower = {} THEN <<Min(upper), c[Min(upper)]>>
           ELSE IF upper = {} \/ idx - Max(lower) <= Min(upper) - idx THEN <<Max(lower), c[Max(lower)]>>
           ELSE <<Min(upper), c[Min(upper)]>>
  BY DEF GetNearestCachedIterator
<1> HIDE DEF lower, upper
<1>7. upper # {} => Min(upper) \in DOMAIN c
  BY <1>3, MinAndMax
<1>8. lower # {} => Max(lower) \in DOMAIN c
  BY <1>1, <1>3, <1>4, MinAndMax
<1>9. GetNearestCachedIterator(c, idx) \in {<<n, c[n]>> : n \in DOMAIN c}
  BY <1>5, <1>6, <1>7, <1>8
<1> QED BY <1>2, <1>9

(* The walk from the nearest entry arrives at the index, and what it       *)
(* leaves in the cache points to its index.                                *)
LEMMA WalkArrives ==
  ASSUME NEW s, Listed(s), NEW c, Hold(s, c), NEW idx \in 0..Len(s)
  PROVE  /\ GetIteratorByIndex(s, c, idx).it = IteratorAt(s, idx)
         /\ Hold(s, GetIteratorByIndex(s, c, idx).cache)
         /\ DOMAIN GetIteratorByIndex(s, c, idx).cache \in SUBSET (DOMAIN c \cup {idx})
<1> DEFINE entry == GetNearestIterator(s, c, idx)
           it == IteratorAt(s, Place(s, entry[2]) + idx - entry[1])
           left == GetIteratorByIndex(s, c, idx).cache
<1>1. Points(s, entry)
  <2>1. Points(s, GetNearestPredefinedIterator(s, idx))
    BY PredefinedPoints
  <2>2. DOMAIN c # {} => Points(s, GetNearestCachedIterator(c, idx))
    BY CachedPoints
  <2>3. \/ entry = GetNearestPredefinedIterator(s, idx)
        \/ DOMAIN c # {} /\ entry = GetNearestCachedIterator(c, idx)
    BY DEF GetNearestIterator
  <2> HIDE DEF entry
  <2> QED BY <2>1, <2>2, <2>3
<1>2. it = IteratorAt(s, idx)
  <2> HIDE DEF entry
  <2>1. PICK n \in 0..Len(s) : entry = <<n, IteratorAt(s, n)>>
    BY <1>1 DEF Points
  <2>2. Place(s, entry[2]) = n /\ entry[1] = n
    BY <2>1, PlaceOfIterator
  <2>3. Place(s, entry[2]) + idx - entry[1] = idx
    BY <2>2, ListedBasics
  <2> QED BY <2>3
<1>3. GetIteratorByIndex(s, c, idx).it = it
  BY DEF GetIteratorByIndex
<1>4. left = IF Far(entry, idx) > CACHE_THRESHOLD THEN Inserted(c, idx, it) ELSE c
  BY DEF GetIteratorByIndex
<1> HIDE DEF it, entry, left
<1>5. Hold(s, Inserted(c, idx, it)) /\ DOMAIN Inserted(c, idx, it) = DOMAIN c \cup {idx}
  BY <1>2 DEF Hold, Inserted
<1>6. Hold(s, left) /\ DOMAIN left \in SUBSET (DOMAIN c \cup {idx})
  BY <1>4, <1>5
<1> QED BY <1>2, <1>3, <1>6 DEF left

(* Lists of a length with the same elements are the same.                  *)
LEMMA SameList ==
  ASSUME NEW E, NEW s \in Seq(E), NEW t \in Seq(E), Len(s) = Len(t), \A k \in 1..Len(s) : s[k] = t[k]
  PROVE  s = t
<1>1. DOMAIN s = 1..Len(s) /\ DOMAIN t = 1..Len(s)
  OBVIOUS
<1>2. s = [k \in 1..Len(s) |-> s[k]] /\ t = [k \in 1..Len(s) |-> t[k]]
  BY <1>1
<1> QED BY <1>2

(* A choice of all items is the list.                                      *)
LEMMA ChosenAll ==
  ASSUME NEW E, NEW s \in Seq(E)
  PROVE  Cardinality(Indices(s)) = Len(s) /\ Chosen(s, Indices(s)) = s
<1> DEFINE set == Indices(s)
           c == Chosen(s, set)
<1>1. Len(s) \in Nat /\ set = 0..Len(s) - 1
  BY DEF Indices
<1>2. ASSUME NEW n \in Nat PROVE Cardinality(0..n - 1) = n
  <2>1. n = 0 => 0..n - 1 = {}
    OBVIOUS
  <2>2. n # 0 => Cardinality(0..n - 1) = (n - 1) - 0 + 1
    BY FS_Interval
  <2>3. (n - 1) - 0 + 1 = n
    OBVIOUS
  <2> QED BY <2>1, <2>2, <2>3, FS_EmptySet
<1>3. Cardinality(set) = Len(s)
  BY <1>1, <1>2
<1>4. ASSUME NEW n \in set PROVE Rank(set, n) = n + 1
  <2>1. Smaller(set, n) = 0..n - 1
    BY <1>1 DEF Smaller
  <2>2. Cardinality(Smaller(set, n)) = n
    BY <1>1, <1>2, <2>1
  <2> QED BY <2>2 DEF Rank
<1>5. /\ c \in Seq(E) /\ Len(c) = Len(s)
      /\ \A n \in set : c[Rank(set, n)] = At(s, n)
  <2>1. set \in SUBSET Indices(s)
    OBVIOUS
  <2> HIDE DEF set
  <2> QED BY <1>3, <2>1, ChosenByRank
<1>6. ASSUME NEW k \in 1..Len(s) PROVE c[k] = s[k]
  <2>1. k - 1 \in set /\ (k - 1) + 1 = k
    BY <1>1
  <2>2. c[Rank(set, k - 1)] = At(s, k - 1) /\ Rank(set, k - 1) = k
    BY <1>4, <1>5, <2>1
  <2> QED BY <2>1, <2>2 DEF At
<1> HIDE DEF c
<1>7. c = s
  BY <1>5, <1>6, SameList
<1> QED BY <1>3, <1>7 DEF c

(* What is chosen before all others comes first.                           *)
LEMMA ChosenConcat ==
  ASSUME NEW E, NEW s \in Seq(E), NEW A \in SUBSET Indices(s), NEW B \in SUBSET Indices(s),
         \A a \in A, b \in B : a < b
  PROVE  /\ Chosen(s, A \cup B) = Chosen(s, A) \o Chosen(s, B)
         /\ Cardinality(A \cup B) = Cardinality(A) + Cardinality(B)
<1> DEFINE U == A \cup B
           c == Chosen(s, A)
           d == Chosen(s, B)
           e == Chosen(s, U)
           cd == c \o d
<1>1. \A n \in U : n \in Nat
  BY DEF Indices
<1>2. /\ IsFiniteSet(A) /\ Cardinality(A) \in Nat /\ c \in Seq(E) /\ Len(c) = Cardinality(A)
      /\ \A n \in A : Rank(A, n) \in 1..Cardinality(A) /\ c[Rank(A, n)] = At(s, n)
  BY ChosenByRank
<1>3. /\ IsFiniteSet(B) /\ Cardinality(B) \in Nat /\ d \in Seq(E) /\ Len(d) = Cardinality(B)
      /\ \A n \in B : Rank(B, n) \in 1..Cardinality(B) /\ d[Rank(B, n)] = At(s, n)
  BY ChosenByRank
<1>4. /\ e \in Seq(E) /\ Len(e) = Cardinality(U)
      /\ \A n \in U : e[Rank(U, n)] = At(s, n)
      /\ \A k \in 1..Cardinality(U) : \E n \in U : Rank(U, n) = k
  <2>1. U \in SUBSET Indices(s)
    OBVIOUS
  <2> HIDE DEF U
  <2> QED BY <2>1, ChosenByRank
<1>5. ASSUME NEW S \in SUBSET A, NEW T \in SUBSET B
      PROVE  /\ IsFiniteSet(S) /\ IsFiniteSet(T) /\ Cardinality(S) \in Nat /\ Cardinality(T) \in Nat
             /\ Cardinality(S \cup T) = Cardinality(S) + Cardinality(T)
  <2>1. IsFiniteSet(S) /\ IsFiniteSet(T) /\ Cardinality(S) \in Nat /\ Cardinality(T) \in Nat
    BY <1>2, <1>3, FS_Subset, FS_CardinalityType
  <2>2. S \cap T = {}
    BY <1>1
  <2>3. Cardinality(S \cup T) = Cardinality(S) + Cardinality(T) - Cardinality(S \cap T)
    BY <2>1, FS_Union
  <2>4. Cardinality(S \cap T) = 0
    BY <2>2, FS_EmptySet, Zenon
  <2> QED BY <2>1, <2>3, <2>4
<1>6. Cardinality(U) = Cardinality(A) + Cardinality(B)
  BY <1>5
<1>7. ASSUME NEW n \in A PROVE Rank(U, n) = Rank(A, n)
  <2>1. Smaller(U, n) = Smaller(A, n)
    BY <1>1 DEF Smaller
  <2> QED BY <2>1 DEF Rank
<1>8. ASSUME NEW n \in B PROVE Rank(U, n) = Cardinality(A) + Rank(B, n)
  <2>1. Smaller(U, n) = A \cup Smaller(B, n) /\ Smaller(B, n) \in SUBSET B
    BY DEF Smaller
  <2>2. Cardinality(Smaller(U, n)) = Cardinality(A) + Cardinality(Smaller(B, n))
    BY <1>5, <2>1
  <2>3. Cardinality(Smaller(B, n)) \in Nat
    BY <1>5, <2>1
  <2> QED BY <1>2, <2>2, <2>3 DEF Rank
<1>9. /\ cd \in Seq(E) /\ Len(cd) = Len(c) + Len(d)
      /\ \A k \in 1..Len(c) + Len(d) : cd[k] = IF k <= Len(c) THEN c[k] ELSE d[k - Len(c)]
  <2> HIDE DEF c, d
  <2> QED BY <1>2, <1>3, ConcatProperties
<1> HIDE DEF c, d, e, cd
<1>10. ASSUME NEW k \in 1..Len(e) PROVE e[k] = cd[k]
  <2>1. PICK n \in U : Rank(U, n) = k /\ e[k] = At(s, n)
    BY <1>4
  <2>2. CASE n \in A
    <3>1. Rank(A, n) = k /\ k \in 1..Cardinality(A) /\ c[k] = At(s, n)
      BY <1>2, <1>7, <2>1, <2>2
    <3>2. cd[k] = c[k]
      BY <1>2, <1>3, <1>9, <3>1
    <3> QED BY <2>1, <3>1, <3>2
  <2>3. CASE n \in B
    <3> DEFINE r == Rank(B, n)
    <3>1. k = Cardinality(A) + r /\ r \in 1..Cardinality(B) /\ d[r] = At(s, n)
      BY <1>3, <1>8, <2>1, <2>3
    <3> HIDE DEF r
    <3>2. k - Len(c) = r /\ ~(k <= Len(c)) /\ k \in 1..Len(c) + Len(d)
      BY <1>2, <1>3, <3>1
    <3>3. cd[k] = d[r]
      BY <1>9, <3>2
    <3> QED BY <2>1, <3>1, <3>3
  <2> QED BY <2>2, <2>3
<1>11. e = cd
  BY <1>2, <1>3, <1>4, <1>6, <1>9, <1>10, SameList
<1> QED BY <1>6, <1>11 DEF e, cd, c, d

(* What the chosen items are, and that none is chosen twice.               *)
LEMMA ChosenItems ==
  ASSUME NEW s, Listed(s), NEW set \in SUBSET Indices(s)
  PROVE  /\ Listed(Chosen(s, set))
         /\ ToSet(Chosen(s, set)) = {At(s, n) : n \in set}
<1> DEFINE c == Chosen(s, set)
<1>1. s \in Seq(Nodes) /\ Len(s) <= MaxItems /\ Len(s) \in Nat
  BY ListedBasics
<1>2. /\ c \in Seq(Nodes) /\ Len(c) = Cardinality(set) /\ Cardinality(set) \in Nat /\ Cardinality(set) <= Len(s)
      /\ \A n \in set : Rank(set, n) \in 1..Cardinality(set) /\ c[Rank(set, n)] = At(s, n)
      /\ \A k \in 1..Cardinality(set) : \E n \in set : Rank(set, n) = k
  BY <1>1, ChosenByRank
<1> HIDE DEF c
<1>3. DOMAIN c = 1..Cardinality(set)
  BY <1>2
<1>4. \A k \in DOMAIN c : \E n \in set : Rank(set, n) = k /\ c[k] = At(s, n)
  BY <1>2, <1>3
<1>5. ASSUME NEW j \in DOMAIN c, NEW k \in DOMAIN c, c[j] = c[k] PROVE j = k
  <2>1. PICK m \in set : Rank(set, m) = j /\ c[j] = At(s, m)
    BY <1>4
  <2>2. PICK n \in set : Rank(set, n) = k /\ c[k] = At(s, n)
    BY <1>4
  <2>3. m = n
    BY <1>5, <2>1, <2>2, ListedBasics
  <2> QED BY <2>1, <2>2, <2>3
<1>6. Listed(c)
  <2>1. IsInjective(c)
    BY <1>5 DEF IsInjective
  <2>2. MaxItems \in Nat
    BY StorageAssumption
  <2> QED BY <1>1, <1>2, <2>1, <2>2 DEF Listed
<1>7. ToSet(c) = {At(s, n) : n \in set}
  <2>1. ToSet(c) = {c[k] : k \in DOMAIN c}
    BY DEF ToSet
  <2>2. \A n \in set : Rank(set, n) \in DOMAIN c /\ c[Rank(set, n)] = At(s, n)
    BY <1>2, <1>3
  <2> QED BY <1>4, <2>1, <2>2
<1> QED BY <1>6, <1>7 DEF c

(* The walker meets the chosen items.                                      *)
LEMMA WalkerFinds ==
  ASSUME NEW s, Listed(s), NEW c, Hold(s, c), NEW set \in SUBSET Indices(s)
  PROVE  ForChoosenItems(s, c, set) = Chosen(s, set)
<1>1. s \in Seq(Nodes) /\ Len(s) \in Nat /\ Indices(s) = 0..Len(s) - 1
  BY ListedBasics
<1>2. Chosen(s, set) \in Seq(Nodes) /\ Len(Chosen(s, set)) = Cardinality(set) /\ IsFiniteSet(set)
  BY <1>1, ChosenByRank
<1>3. CASE set = {}
  <2>1. Len(Chosen(s, set)) = 0
    BY <1>2, <1>3, FS_EmptySet
  <2>2. Chosen(s, set) = <<>>
    BY <1>2, <2>1
  <2> QED BY <1>3, <2>2 DEF ForChoosenItems
<1>4. CASE set # {}
  <2>1. s # <<>>
    <3>1. Len(s) # 0
      BY <1>1, <1>4
    <3> QED BY <3>1
  <2>2. CASE Cardinality(set) = Len(s)
    <3>1. Cardinality(Indices(s)) = Len(s) /\ Chosen(s, Indices(s)) = s
      BY <1>1, ChosenAll
    <3>2. IsFiniteSet(Indices(s))
      BY <1>1, FS_Interval
    <3>3. set = Indices(s)
      BY <2>2, <3>1, <3>2, FS_Subset
    <3> QED BY <1>4, <2>1, <2>2, <3>1, <3>3 DEF ForChoosenItems
  <2>3. CASE Cardinality(set) # Len(s)
    <3> DEFINE min == Min(set)
               first == GetIteratorByIndex(s, c, min).it
    <3>1. set \in SUBSET Nat
      BY <1>1
    <3>2. min \in set
      BY <1>4, <3>1, MinAndMax
    <3>3. min \in 0..Len(s)
      BY <1>1, <3>2
    <3> HIDE DEF min
    <3>4. first = IteratorAt(s, min) /\ Place(s, IteratorAt(s, min)) = min
      BY <3>3, WalkArrives, PlaceOfIterator
    <3>5. Place(s, first) = min
      BY <3>4
    <3>6. ForChoosenItems(s, c, set) = Chosen(s, {Place(s, first) + n - min : n \in set})
      BY <1>4, <2>1, <2>3 DEF ForChoosenItems, min
    <3> HIDE DEF first
    <3>7. \A n \in set : Place(s, first) + n - min = n
      BY <3>1, <3>3, <3>5
    <3>8. {Place(s, first) + n - min : n \in set} = set
      BY <3>7
    <3> QED BY <3>6, <3>8
  <2> QED BY <2>2, <2>3
<1> QED BY <1>3, <1>4

(* Without the chosen items the others are left.                           *)
LEMMA OthersAreLeft ==
  ASSUME NEW s, Listed(s), NEW set \in SUBSET Indices(s)
  PROVE  Without(s, Chosen(s, set)) = Removed(s, set)
<1>1. ToSet(Chosen(s, set)) = {At(s, n) : n \in set}
  BY ChosenItems
<1>2. ASSUME NEW n \in Indices(s) PROVE At(s, n) \in {At(s, m) : m \in set} <=> n \in set
  BY ListedBasics
<1>3. {n \in Indices(s) : At(s, n) \notin {At(s, m) : m \in set}} = Indices(s) \ set
  BY <1>2
<1> QED BY <1>1, <1>3 DEF Without, Removed

(* The place that Moved moves to.                                          *)
LEMMA TargetStays ==
  ASSUME NEW s \in Seq(Nodes), NEW set \in SUBSET Indices(s), NEW dest \in 0..Len(s)
  PROVE  /\ MoveTarget(s, set, dest) \in 0..Len(s) /\ MoveTarget(s, set, dest) \notin set
         /\ dest \notin set => MoveTarget(s, set, dest) = dest
<1> DEFINE S == (dest..Len(s)) \ set
<1>1. Len(s) \in Nat /\ Len(s) \notin set
  BY DEF Indices
<1>2. S \in SUBSET Nat /\ S \in SUBSET (0..Len(s)) /\ Len(s) \in S /\ (dest \notin set => dest \in S)
  BY <1>1
<1>3. \A n \in S : dest <= n /\ n \notin set
  OBVIOUS
<1> HIDE DEF S
<1>4. Min(S) \in S /\ \A n \in S : Min(S) <= n
  BY <1>2, MinAndMax
<1>5. dest \notin set => Min(S) = dest
  <2>1. dest \notin set => Min(S) <= dest /\ dest <= Min(S)
    BY <1>2, <1>3, <1>4
  <2>2. Min(S) \in Nat /\ dest \in Nat
    <3>1. dest \in Nat
      BY <1>1
    <3> QED BY <1>2, <1>4, <3>1
  <2> QED BY <2>1, <2>2
<1>6. MoveTarget(s, set, dest) = Min(S)
  BY DEF MoveTarget, S
<1> QED BY <1>2, <1>3, <1>4, <1>5, <1>6

(* Two parts of a list, and their concatenation.                           *)
LEMMA ConcatParts ==
  ASSUME NEW E, NEW c \in Seq(E), NEW d \in Seq(E)
  PROVE  /\ SubSeq(c \o d, 1, Len(c)) = c
         /\ SubSeq(c \o d, Len(c) + 1, Len(c \o d)) = d
         /\ IsInjective(c) /\ IsInjective(d) /\ ToSet(c) \cap ToSet(d) = {} => IsInjective(c \o d)
         /\ ToSet(c \o d) = ToSet(c) \cup ToSet(d)
<1> DEFINE e == c \o d
<1>1. /\ e \in Seq(E) /\ Len(e) = Len(c) + Len(d) /\ Len(c) \in Nat /\ Len(d) \in Nat
      /\ \A k \in 1..Len(c) + Len(d) : e[k] = IF k <= Len(c) THEN c[k] ELSE d[k - Len(c)]
  BY ConcatProperties
<1>2. DOMAIN c = 1..Len(c) /\ DOMAIN d = 1..Len(d)
  OBVIOUS
<1> HIDE DEF e
<1>3. DOMAIN e = 1..Len(c) + Len(d)
  BY <1>1
<1>4. SubSeq(e, 1, Len(c)) = c
  <2>1. SubSeq(e, 1, Len(c)) \in Seq(E) /\ Len(SubSeq(e, 1, Len(c))) = Len(c)
    BY <1>1
  <2>2. ASSUME NEW k \in 1..Len(c) PROVE SubSeq(e, 1, Len(c))[k] = c[k]
    <3>1. k \in 1..Len(c) + Len(d) /\ k <= Len(c)
      BY <1>1
    <3> QED BY <1>1, <3>1
  <2> QED BY <2>1, <2>2, SameList
<1>5. SubSeq(e, Len(c) + 1, Len(e)) = d
  <2> DEFINE t == SubSeq(e, Len(c) + 1, Len(e))
  <2>1. t \in Seq(E) /\ Len(t) = Len(d) /\ \A k \in 1..Len(d) : t[k] = e[Len(c) + k]
    BY <1>1
  <2> HIDE DEF t
  <2>2. ASSUME NEW k \in 1..Len(d) PROVE t[k] = d[k]
    <3>1. Len(c) + k \in 1..Len(c) + Len(d) /\ ~(Len(c) + k <= Len(c)) /\ (Len(c) + k) - Len(c) = k
      BY <1>1
    <3> QED BY <1>1, <2>1, <3>1
  <2>3. t = d
    BY <2>1, <2>2, SameList
  <2> QED BY <2>3 DEF t
<1>6. ASSUME NEW k \in DOMAIN e
      PROVE  \/ k \in DOMAIN c /\ e[k] = c[k]
             \/ k - Len(c) \in DOMAIN d /\ e[k] = d[k - Len(c)]
  BY <1>1, <1>2, <1>3
<1>7. \A k \in DOMAIN c : k \in DOMAIN e /\ e[k] = c[k]
  BY <1>1, <1>2, <1>3
<1>8. ASSUME NEW k \in DOMAIN d PROVE Len(c) + k \in DOMAIN e /\ e[Len(c) + k] = d[k]
  <2>1. Len(c) + k \in 1..Len(c) + Len(d) /\ ~(Len(c) + k <= Len(c)) /\ (Len(c) + k) - Len(c) = k
    BY <1>1, <1>2
  <2> QED BY <1>1, <1>3, <2>1
<1>9. /\ ToSet(c) = {c[k] : k \in DOMAIN c} /\ ToSet(d) = {d[k] : k \in DOMAIN d}
      /\ ToSet(e) = {e[k] : k \in DOMAIN e}
  BY DEF ToSet
<1>10. ToSet(e) = ToSet(c) \cup ToSet(d)
  BY <1>6, <1>7, <1>8, <1>9
<1>11. ASSUME IsInjective(c), IsInjective(d), ToSet(c) \cap ToSet(d) = {} PROVE IsInjective(e)
  <2> SUFFICES ASSUME NEW j \in DOMAIN e, NEW k \in DOMAIN e, e[j] = e[k] PROVE j = k
    BY DEF IsInjective
  <2>1. CASE j \in DOMAIN c /\ e[j] = c[j] /\ k \in DOMAIN c /\ e[k] = c[k]
    BY <1>11, <2>1 DEF IsInjective
  <2>2. CASE j - Len(c) \in DOMAIN d /\ e[j] = d[j - Len(c)] /\ k - Len(c) \in DOMAIN d /\ e[k] = d[k - Len(c)]
    <3>1. j - Len(c) = k - Len(c)
      BY <1>11, <2>2 DEF IsInjective
    <3> QED BY <1>1, <1>3, <3>1
  <2>3. \A l \in DOMAIN c, m \in DOMAIN d : c[l] # d[m]
    BY <1>9, <1>11
  <2> QED BY <1>6, <2>1, <2>2, <2>3
<1> QED BY <1>4, <1>5, <1>10, <1>11 DEF e

(* What is moved is moved to its place, and nothing is lost or doubled.    *)
LEMMA MoveFinds ==
  ASSUME NEW s, Listed(s), NEW c, Hold(s, c), NEW set \in SUBSET Indices(s), NEW dest \in 0..Len(s)
  PROVE  /\ MoveItems(s, c, set, dest) = Moved(s, set, dest)
         /\ Listed(Moved(s, set, dest))
<1> DEFINE t == MoveTarget(s, set, dest)
           A == (0..t - 1) \ set
           B == (t..Len(s) - 1) \ set
           cA == Chosen(s, A)
           cB == Chosen(s, B)
           moved == Chosen(s, set)
           rest == Removed(s, set)
<1>1. s \in Seq(Nodes) /\ Len(s) \in Nat /\ Indices(s) = 0..Len(s) - 1
  BY ListedBasics
<1>2. t \in 0..Len(s) /\ t \notin set /\ (dest \notin set => t = dest)
  BY <1>1, TargetStays
<1>3. MoveItems(s, c, set, dest) = MoveItemsInternal(s, c, set, t)
  BY <1>2 DEF MoveItems
<1>4. Moved(s, set, dest) = IF set = {} THEN s ELSE (cA \o moved) \o cB
  BY DEF Moved
<1> HIDE DEF t
<1>5. /\ A \in SUBSET Indices(s) /\ B \in SUBSET Indices(s) /\ A \cup B = Indices(s) \ set
      /\ \A a \in A, b \in B : a < b
      /\ A \cap set = {} /\ B \cap set = {} /\ A \cap B = {}
      /\ (t # Len(s) => t \in B) /\ \A n \in B : t <= n
      /\ (t = Len(s) => B = {})
  <2>1. t \in Nat /\ t <= Len(s)
    BY <1>1, <1>2
  <2>2. A \in SUBSET Indices(s) /\ B \in SUBSET Indices(s)
    BY <1>1, <2>1
  <2>3. \A a \in A, b \in B : a < b
    BY <2>1
  <2>4. \A n \in Indices(s) \ set : n \in A \/ n \in B
    BY <1>1, <2>1
  <2>5. A \cap set = {} /\ B \cap set = {}
    OBVIOUS
  <2>6. \A n \in A : n \notin B
    BY <2>1
  <2>7. (t # Len(s) => t \in B) /\ (t = Len(s) => B = {}) /\ \A n \in B : t <= n
    BY <1>1, <1>2, <2>1
  <2> HIDE DEF A, B
  <2> QED BY <2>2, <2>3, <2>4, <2>5, <2>6, <2>7
<1> HIDE DEF A, B
<1>6. /\ Listed(cA) /\ ToSet(cA) = {At(s, n) : n \in A}
      /\ Listed(cB) /\ ToSet(cB) = {At(s, n) : n \in B}
      /\ Listed(moved) /\ ToSet(moved) = {At(s, n) : n \in set}
  BY <1>5, ChosenItems
<1>7. /\ Len(cA) = Cardinality(A) /\ Len(cB) = Cardinality(B) /\ Len(moved) = Cardinality(set)
      /\ Cardinality(A) \in Nat /\ Cardinality(B) \in Nat /\ Cardinality(set) \in Nat
      /\ IsFiniteSet(A) /\ IsFiniteSet(B) /\ IsFiniteSet(set)
      /\ \A n \in B : Rank(B, n) \in 1..Cardinality(B) /\ cB[Rank(B, n)] = At(s, n)
  BY <1>1, <1>5, ChosenByRank
<1>8. rest = cA \o cB /\ Cardinality(Indices(s) \ set) = Cardinality(A) + Cardinality(B)
  <2>1. rest = Chosen(s, A \cup B)
    BY <1>5 DEF Removed
  <2>2. Chosen(s, A \cup B) = cA \o cB /\ Cardinality(A \cup B) = Cardinality(A) + Cardinality(B)
    <3>1. A \in SUBSET Indices(s) /\ B \in SUBSET Indices(s) /\ \A a \in A, b \in B : a < b
      BY <1>5
    <3>2. s \in Seq(Nodes)
      BY <1>1
    <3> QED BY ONLY <3>1, <3>2, ChosenConcat
  <2> QED BY <1>5, <2>1, <2>2
<1>9. Listed(rest)
  BY ChosenItems DEF Removed
<1>10. cA \in Seq(Nodes) /\ cB \in Seq(Nodes) /\ moved \in Seq(Nodes)
  BY <1>6 DEF Listed
<1>11. Len(rest) = Cardinality(A) + Cardinality(B)
  <2> HIDE DEF cA, cB, rest
  <2> QED BY <1>7, <1>8, <1>10, ConcatProperties
<1>12. Place(rest, IteratorAt(s, t)) = Cardinality(A)
  <2>1. CASE t = Len(s)
    <3>1. Len(rest) = Cardinality(A)
      BY <1>5, <1>7, <1>11, <2>1, FS_EmptySet
    <3> QED BY <2>1, <3>1 DEF IteratorAt, Place
  <2>2. CASE t # Len(s)
    <3>1. t \in B /\ Smaller(B, t) = {}
      <4>1. \A n \in B : n \in Nat /\ t <= n /\ t \in Nat
        BY <1>1, <1>2, <1>5
      <4>2. \A n \in B : ~(n < t)
        BY <4>1
      <4> QED BY <1>5, <2>2, <4>2 DEF Smaller
    <3>2. Rank(B, t) = 1
      BY <3>1, FS_EmptySet DEF Rank
    <3>3. cB[1] = At(s, t) /\ Cardinality(B) >= 1
      BY <1>7, <3>1, <3>2
    <3>4. rest[Cardinality(A) + 1] = cB[1]
      <4> HIDE DEF cA, cB, rest
      <4>1. \A k \in 1..Len(cA) + Len(cB) : rest[k] = IF k <= Len(cA) THEN cA[k] ELSE cB[k - Len(cA)]
        BY <1>8, <1>10, ConcatProperties
      <4>2. /\ Cardinality(A) + 1 \in 1..Len(cA) + Len(cB) /\ ~(Cardinality(A) + 1 <= Len(cA))
            /\ (Cardinality(A) + 1) - Len(cA) = 1
        BY <1>7, <3>3
      <4> QED BY <4>1, <4>2
    <3>5. IteratorAt(rest, Cardinality(A)) = IteratorAt(s, t)
      BY <1>7, <1>11, <2>2, <3>3, <3>4 DEF IteratorAt, At
    <3>6. Cardinality(A) \in 0..Len(rest)
      BY <1>7, <1>11
    <3> QED BY <1>9, <3>5, <3>6, PlaceOfIterator
  <2> QED BY <2>1, <2>2
<1>13. SubSeq(rest, 1, Cardinality(A)) = cA /\ SubSeq(rest, Cardinality(A) + 1, Len(rest)) = cB
  <2> HIDE DEF cA, cB, rest
  <2>1. SubSeq(cA \o cB, 1, Len(cA)) = cA /\ SubSeq(cA \o cB, Len(cA) + 1, Len(cA \o cB)) = cB
    <3>1. cA \in Seq(Nodes) /\ cB \in Seq(Nodes)
      BY <1>10
    <3> QED BY ONLY <3>1, ConcatParts
  <2>2. Len(cA) = Cardinality(A)
    BY <1>7
  <2> QED BY <1>8, <2>1, <2>2, Zenon
<1>14. set # {} => MoveItemsInternal(s, c, set, t) = (cA \o moved) \o cB
  <2> DEFINE delimiter == GetIteratorByIndex(s, c, t)
             walked == ForChoosenItems(s, delimiter.cache, set)
             left == Without(s, walked)
             place == Place(left, delimiter.it)
  <2>1. delimiter.it = IteratorAt(s, t) /\ Hold(s, delimiter.cache)
    BY <1>2, WalkArrives
  <2>2. set # {} => MoveItemsInternal(s, c, set, t) =
                      (SubSeq(left, 1, place) \o walked) \o SubSeq(left, place + 1, Len(left))
    BY DEF MoveItemsInternal
  <2> HIDE DEF delimiter
  <2>3. walked = moved
    BY <2>1, WalkerFinds
  <2> HIDE DEF walked
  <2>4. left = rest
    BY <2>3, OthersAreLeft
  <2> HIDE DEF left, rest, moved
  <2>5. place = Cardinality(A)
    BY <1>12, <2>1, <2>4
  <2> HIDE DEF place, cA, cB
  <2> QED BY <1>13, <2>2, <2>3, <2>4, <2>5
<1>15. MoveItems(s, c, set, dest) = Moved(s, set, dest)
  <2>1. set = {} => MoveItemsInternal(s, c, set, t) = s
    BY DEF MoveItemsInternal
  <2> HIDE DEF cA, cB, moved
  <2> QED BY <1>3, <1>4, <1>14, <2>1
<1>16. Listed((cA \o moved) \o cB)
  <2> DEFINE first == cA \o moved
             all == first \o cB
  <2>1. \A m, n \in Indices(s) : At(s, m) = At(s, n) => m = n
    BY ListedBasics
  <2>2. ToSet(cA) \cap ToSet(moved) = {}
    BY <1>5, <1>6, <2>1
  <2>3. (ToSet(cA) \cup ToSet(moved)) \cap ToSet(cB) = {}
    BY <1>5, <1>6, <2>1
  <2>4. IsInjective(cA) /\ IsInjective(moved) /\ IsInjective(cB)
    BY <1>6 DEF Listed
  <2>5. Cardinality(A) + Cardinality(B) + Cardinality(set) = Len(s)
    <3>1. IsFiniteSet(Indices(s)) /\ Cardinality(Indices(s)) = Len(s)
      BY <1>1, FS_Interval, ChosenAll
    <3> DEFINE others == Indices(s) \ set
    <3>2. IsFiniteSet(others) /\ Indices(s) = others \cup set /\ others \cap set = {}
      BY <3>1, FS_Subset
    <3> HIDE DEF others
    <3>3. Cardinality(others \cup set) = Cardinality(others) + Cardinality(set) - Cardinality(others \cap set)
      BY <1>7, <3>2, FS_Union
    <3>4. Cardinality(others \cap set) = 0
      BY <3>2, FS_EmptySet, Zenon
    <3>5. Cardinality(others) = Cardinality(A) + Cardinality(B)
      BY <1>8 DEF others
    <3>6. Cardinality(Indices(s)) = Cardinality(others) + Cardinality(set) - 0
      BY <3>2, <3>3, <3>4, Zenon
    <3> QED BY <1>7, <3>1, <3>5, <3>6
  <2> HIDE DEF cA, cB, moved, first, all
  <2>6. first \in Seq(Nodes) /\ Len(first) = Len(cA) + Len(moved)
    BY <1>10, ConcatProperties DEF first
  <2>7. IsInjective(first) /\ ToSet(first) = ToSet(cA) \cup ToSet(moved)
    BY <1>10, <2>2, <2>4, ConcatParts DEF first
  <2>8. all \in Seq(Nodes) /\ Len(all) = Len(first) + Len(cB)
    BY <1>10, <2>6, ConcatProperties DEF all
  <2>9. IsInjective(all)
    BY <1>10, <2>3, <2>4, <2>6, <2>7, ConcatParts DEF all
  <2>10. Len(all) = Len(s)
    BY <1>7, <2>5, <2>6, <2>8
  <2>11. Listed(all)
    BY <2>8, <2>9, <2>10, ListedBasics DEF Listed
  <2> QED BY <2>11 DEF all, first
<1> HIDE DEF cA, cB, moved
<1> QED BY <1>4, <1>15, <1>16

(* An item added to the end leaves the iterators where they are.           *)
LEMMA AddKeepsStorage ==
  ASSUME StorageInv, Add
  PROVE  StorageInv'
<1>1. PICK n \in Nodes \ ToSet(nodes) : nodes' = Append(nodes, n)
  BY DEF Add
<1>2. nodes \in Seq(Nodes) /\ Len(nodes) \in Nat /\ Len(nodes) < MaxItems /\ cache' = cache
  BY DEF Add, StorageInv
<1>3. /\ nodes' \in Seq(Nodes) /\ Len(nodes') = Len(nodes) + 1
      /\ \A k \in 1..Len(nodes) : nodes'[k] = nodes[k]
      /\ nodes'[Len(nodes) + 1] = n
  BY <1>1, <1>2
<1>4. \A k \in 1..Len(nodes) : nodes[k] # n
  BY <1>1, <1>2 DEF ToSet
<1>5. IsInjective(nodes')
  <2>1. DOMAIN nodes = 1..Len(nodes) /\ DOMAIN nodes' = 1..Len(nodes) + 1
    BY <1>2, <1>3
  <2>2. \A k \in DOMAIN nodes' : k \in 1..Len(nodes) \/ k = Len(nodes) + 1
    BY <1>2, <2>1
  <2>3. \A j, k \in DOMAIN nodes : nodes[j] = nodes[k] => j = k
    BY DEF StorageInv, IsInjective
  <2>4. \A j, k \in DOMAIN nodes' : nodes'[j] = nodes'[k] => j = k
    BY <1>3, <1>4, <2>1, <2>2, <2>3
  <2> QED BY <2>4 DEF IsInjective
<1>6. ASSUME NEW k \in DOMAIN cache
      PROVE  /\ k \in Indices(nodes) /\ k \in 0..Len(nodes) /\ k \in Indices(nodes') /\ k \in 0..Len(nodes')
             /\ IteratorAt(nodes', k) = IteratorAt(nodes, k)
  <2>1. k \in Indices(nodes)
    BY DEF StorageInv
  <2>2. k \in Nat /\ k < Len(nodes) /\ k + 1 \in 1..Len(nodes)
    BY <1>2, <2>1 DEF Indices
  <2>3. IteratorAt(nodes, k) = nodes[k + 1] /\ IteratorAt(nodes', k) = nodes'[k + 1]
    BY <1>2, <1>3, <2>2 DEF IteratorAt, At
  <2> QED BY <1>2, <1>3, <2>1, <2>2, <2>3 DEF Indices
<1>7. Hold(nodes', cache') /\ DOMAIN cache' \subseteq Indices(nodes')
  BY <1>2, <1>6 DEF StorageInv, Hold
<1>8. Len(nodes') <= MaxItems
  BY <1>2, <1>3, StorageAssumption
<1> QED BY <1>3, <1>5, <1>7, <1>8 DEF StorageInv

(* Any list without repetitions and with an empty cache is a good one.     *)
LEMMA FreshStorage ==
  ASSUME Listed(nodes'), cache' = NoCache
  PROVE  StorageInv'
<1>1. DOMAIN cache' = {}
  BY DEF NoCache
<1> QED BY <1>1 DEF StorageInv, Listed, Hold

(* A sorted list has the same nodes in another order.                      *)
LEMMA ReorderKeepsStorage ==
  ASSUME StorageInv, Reorder
  PROVE  StorageInv'
<1>1. PICK order \in Orders[Len(nodes)] : nodes' = [k \in DOMAIN nodes |-> nodes[order[k]]]
  BY DEF Reorder
<1>2. /\ Len(nodes) \in 0..MaxItems /\ Len(nodes) \in Nat /\ DOMAIN nodes = 1..Len(nodes)
      /\ nodes \in Seq(Nodes) /\ IsInjective(nodes)
  BY StorageAssumption DEF StorageInv
<1>3. order \in [1..Len(nodes) -> 1..Len(nodes)] /\ \A j, k \in 1..Len(nodes) : order[j] = order[k] => j = k
  <2>1. order \in Bijection(1..Len(nodes), 1..Len(nodes))
    BY <1>1, <1>2 DEF Orders
  <2> QED BY <2>1 DEF Bijection, Injection, IsInjective
<1>4. \A k \in 1..Len(nodes) : nodes'[k] = nodes[order[k]] /\ nodes[order[k]] \in Nodes
  BY <1>1, <1>2, <1>3
<1>5. nodes' \in Seq(Nodes) /\ Len(nodes') = Len(nodes) /\ DOMAIN nodes' = 1..Len(nodes)
  <2>1. nodes' = [k \in 1..Len(nodes) |-> nodes'[k]]
    BY <1>1, <1>2
  <2>2. \A k \in 1..Len(nodes) : nodes'[k] \in Nodes
    BY <1>4
  <2>3. Len(nodes) \in Nat
    BY <1>2
  <2> HIDE <1>1, <1>2
  <2> QED BY <2>1, <2>2, <2>3, SeqByLength
<1>6. IsInjective(nodes')
  BY <1>2, <1>3, <1>4, <1>5 DEF IsInjective
<1>7. Listed(nodes') /\ cache' = NoCache
  BY <1>2, <1>5, <1>6 DEF Listed, Reorder
<1> QED BY <1>7, FreshStorage

(* A walk to an index leaves the list alone and the cache in order.        *)
LEMMA WalkKeepsStorage ==
  ASSUME StorageInv, NEW idx \in Indices(nodes), UNCHANGED nodes,
         cache' = GetIteratorByIndex(nodes, cache, idx).cache
  PROVE  StorageInv'
<1>1. Listed(nodes) /\ Hold(nodes, cache) /\ DOMAIN cache \subseteq Indices(nodes)
  BY DEF StorageInv, Listed
<1>2. idx \in 0..Len(nodes)
  BY <1>1, ListedBasics
<1>3. Hold(nodes, cache') /\ DOMAIN cache' \subseteq Indices(nodes)
  BY <1>1, <1>2, WalkArrives
<1> QED BY <1>1, <1>3 DEF StorageInv, Listed

(* Every operation leaves a list without repetitions and a cache whose     *)
(* iterators point to the items of their indices.                          *)
LEMMA StorageStep ==
  ASSUME StorageInv, [StorageNext]_storageVars
  PROVE  StorageInv'
<1>1. Listed(nodes) /\ Hold(nodes, cache) /\ DOMAIN cache \subseteq Indices(nodes)
  BY DEF StorageInv, Listed
<1>2. CASE Add
  BY <1>2, AddKeepsStorage
<1>3. CASE Reorder
  BY <1>3, ReorderKeepsStorage
<1>4. CASE Clone
  BY <1>1, <1>4, FreshStorage DEF Clone
<1>5. ASSUME NEW idx \in Indices(nodes), GetItem(idx) PROVE StorageInv'
  BY <1>5, WalkKeepsStorage DEF GetItem
<1>6. ASSUME NEW set \in SUBSET Indices(nodes) PROVE
        /\ ForSpecifiedItems(set) => StorageInv'
        /\ RemoveItems(set) => StorageInv'
        /\ \A dest \in 0..Len(nodes) : Move(set, dest) => StorageInv'
  <2>1. ASSUME ForSpecifiedItems(set) PROVE StorageInv'
    <3>1. CASE Walks(nodes, set)
      <4>1. set \in SUBSET Nat /\ set # {}
        BY <1>1, <3>1, ListedBasics DEF Walks
      <4>2. Min(set) \in Indices(nodes)
        BY <4>1, MinAndMax
      <4>3. cache' = GetIteratorByIndex(nodes, cache, Min(set)).cache /\ UNCHANGED nodes
        BY <2>1, <3>1 DEF ForSpecifiedItems, CacheAfterWalk
      <4> QED BY <4>2, <4>3, WalkKeepsStorage
    <3>2. CASE ~Walks(nodes, set)
      <4>1. UNCHANGED <<nodes, cache>>
        BY <2>1, <3>2 DEF ForSpecifiedItems, CacheAfterWalk
      <4> QED BY <4>1 DEF StorageInv
    <3> QED BY <3>1, <3>2
  <2>2. ASSUME RemoveItems(set) PROVE StorageInv'
    <3>1. nodes' = Removed(nodes, set) /\ cache' = NoCache
      BY <1>1, <2>2, WalkerFinds, OthersAreLeft DEF RemoveItems, Remaining
    <3>2. Listed(Removed(nodes, set))
      BY <1>1, ChosenItems DEF Removed
    <3> QED BY <3>1, <3>2, FreshStorage
  <2>3. ASSUME NEW dest \in 0..Len(nodes), Move(set, dest) PROVE StorageInv'
    <3>1. nodes' = Moved(nodes, set, dest) /\ cache' = NoCache /\ Listed(Moved(nodes, set, dest))
      BY <1>1, <2>3, MoveFinds DEF Move
    <3> QED BY <3>1, FreshStorage
  <2> QED BY <2>1, <2>2, <2>3
<1>7. CASE UNCHANGED storageVars
  BY <1>7 DEF StorageInv, storageVars
<1> QED BY <1>2, <1>3, <1>4, <1>5, <1>6, <1>7 DEF StorageNext

(* The invariant of the storage holds, for any size of the list and any    *)
(* threshold of the cache.                                                 *)
THEOREM StorageInvariance == StorageSpec => []StorageInv
<1>1. StorageInit => StorageInv
  <2> SUFFICES ASSUME StorageInit PROVE StorageInv
    OBVIOUS
  <2>1. nodes = <<>> /\ cache = NoCache /\ DOMAIN cache = {}
    BY DEF StorageInit, NoCache
  <2>2. nodes \in Seq(Nodes) /\ Len(nodes) = 0 /\ DOMAIN nodes = {}
    BY <2>1
  <2> QED BY <2>1, <2>2, StorageAssumption DEF StorageInv, Hold, IsInjective
<1>2. StorageInv /\ [StorageNext]_storageVars => StorageInv'
  BY StorageStep
<1> QED BY <1>1, <1>2, PTL DEF StorageSpec

(* With whatever iterators earlier walks have left, the storage finds,     *)
(* moves and removes the items that the indices name.                      *)
THEOREM ItemsAreFound == StorageSpec => []FindsItems
<1>1. StorageInv => FindsItems
  <2> SUFFICES ASSUME StorageInv PROVE FindsItems
    OBVIOUS
  <2>1. Listed(nodes) /\ Hold(nodes, cache)
    BY DEF StorageInv, Listed
  <2>2. ASSUME NEW idx \in Indices(nodes) PROVE GetIteratorByIndex(nodes, cache, idx).it = At(nodes, idx)
    <3>1. idx \in 0..Len(nodes) /\ idx # Len(nodes)
      BY <2>1, ListedBasics
    <3> QED BY <2>1, <3>1, WalkArrives DEF IteratorAt
  <2>3. ASSUME NEW set \in SUBSET Indices(nodes)
        PROVE  /\ ForChoosenItems(nodes, cache, set) = Chosen(nodes, set)
               /\ Remaining(nodes, cache, set) = Removed(nodes, set)
               /\ \A dest \in 0..Len(nodes) :
                    MoveItems(nodes, cache, set, dest) = Moved(nodes, set, dest)
    <3>1. ForChoosenItems(nodes, cache, set) = Chosen(nodes, set)
      BY <2>1, WalkerFinds
    <3>2. Remaining(nodes, cache, set) = Removed(nodes, set)
      BY <2>1, <3>1, OthersAreLeft DEF Remaining
    <3> QED BY <2>1, <3>1, <3>2, MoveFinds
  <2> QED BY <2>2, <2>3 DEF FindsItems
<1> QED BY <1>1, StorageInvariance, PTL
===============================================================================
