-------------------------- MODULE ObjectsCacheProofs --------------------------
(***************************************************************************)
(* Proofs about ObjectsCache, for any files and weights, any options and   *)
(* any range of std::size_t.                                               *)
(***************************************************************************)
EXTENDS ObjectsCache, NatLemmas, SequenceTheorems, TLAPS

(* The sums exist: no sum is left undefined.                               *)
LEMMA SumsDefined ==
  ASSUME NEW s, Len(s) \in Nat
  PROVE  Sums(s) = [n \in 0..Len(s) |-> IF n = 0 THEN 0 ELSE Sums(s)[n - 1] + s[n].weight]
<1> DEFINE IsSum(f, k) == f = [n \in 0..k |-> IF n = 0 THEN 0 ELSE f[n - 1] + s[n].weight]
           S == {k \in Nat : \E f : IsSum(f, k)}
<1>1. 0 \in S
  <2>1. IsSum([n \in 0..0 |-> 0], 0)
    OBVIOUS
  <2> QED BY <2>1
<1>2. ASSUME NEW k \in S PROVE k + 1 \in S
  <2>1. PICK f : IsSum(f, k)
    OBVIOUS
  <2> DEFINE g == [n \in 0..k + 1 |-> IF n = k + 1 THEN f[k] + s[n].weight ELSE f[n]]
  <2>2. ASSUME NEW n \in 0..k + 1 PROVE g[n] = IF n = 0 THEN 0 ELSE g[n - 1] + s[n].weight
    <3>1. CASE n = k + 1
      BY <3>1
    <3>2. CASE n \in 0..k
      <4>1. f[n] = IF n = 0 THEN 0 ELSE f[n - 1] + s[n].weight
        BY <2>1, <3>2
      <4> QED BY <3>2, <4>1
    <3> QED BY <3>1, <3>2
  <2>3. IsSum(g, k + 1)
    BY <2>2
  <2> HIDE DEF g, IsSum
  <2> QED BY <2>3
<1>3. S = Nat
  <2> HIDE DEF S
  <2>1. S \in SUBSET Nat
    BY DEF S
  <2> QED BY <1>1, <1>2, <2>1, InductionOverNat
<1>4. \E f : IsSum(f, Len(s))
  BY <1>3
<1> QED BY <1>4 DEF Sums

(* What Weights is: the sums, one weight after the other.                  *)
LEMMA SumSteps ==
  ASSUME NEW s, Len(s) \in Nat
  PROVE  /\ Sums(s)[0] = 0
         /\ \A n \in 1..Len(s) : Sums(s)[n] = Sums(s)[n - 1] + s[n].weight
<1>1. 0 \in 0..Len(s) /\ \A n \in 1..Len(s) : n \in 0..Len(s) /\ n # 0
  OBVIOUS
<1> DEFINE f == Sums(s)
<1>2. f = [n \in 0..Len(s) |-> IF n = 0 THEN 0 ELSE f[n - 1] + s[n].weight]
  BY SumsDefined
<1> HIDE DEF f
<1>3. f[0] = 0
  BY <1>1, <1>2
<1>4. ASSUME NEW n \in 1..Len(s) PROVE f[n] = f[n - 1] + s[n].weight
  BY <1>1, <1>2
<1> QED BY <1>3, <1>4 DEF f

(* Lists of items with weights.                                            *)
Weighted == [id : Paths, weight : Nat]

(* All the partial sums are numbers.                                       *)
LEMMA SumsAreNat ==
  ASSUME NEW s \in Seq(Weighted), NEW n \in 0..Len(s)
  PROVE  Sums(s)[n] \in Nat
<1> DEFINE S == {k \in Nat : k <= Len(s) => Sums(s)[k] \in Nat}
<1>1. 0 \in S
  BY SumSteps
<1>2. ASSUME NEW k \in S PROVE k + 1 \in S
  <2> SUFFICES ASSUME k + 1 <= Len(s) PROVE Sums(s)[k + 1] \in Nat
    OBVIOUS
  <2>1. k + 1 \in 1..Len(s) /\ (k + 1) - 1 = k /\ s[k + 1].weight \in Nat
    <3>1. k + 1 \in 1..Len(s)
      OBVIOUS
    <3>2. s[k + 1] \in Weighted
      BY <3>1
    <3> QED BY <3>1, <3>2 DEF Weighted
  <2>2. Sums(s)[k + 1] = Sums(s)[k] + s[k + 1].weight
    BY <2>1, SumSteps
  <2> QED BY <2>1, <2>2
<1>3. S = Nat
  <2>1. S \in SUBSET Nat
    OBVIOUS
  <2> HIDE DEF S
  <2> QED BY <1>1, <1>2, <2>1, InductionOverNat
<1>4. n \in Nat /\ n <= Len(s)
  OBVIOUS
<1> QED BY <1>3, <1>4

(* Lists that agree from one place on differ by the sums before it.        *)
LEMMA SumsShift ==
  ASSUME NEW s \in Seq(Weighted), NEW t \in Seq(Weighted), NEW i \in 0..Len(s), NEW j \in 0..Len(t),
         NEW m \in Nat, i + m <= Len(s), j + m <= Len(t),
         \A k \in 1..m : s[i + k].weight = t[j + k].weight
  PROVE  Sums(s)[i + m] - Sums(s)[i] = Sums(t)[j + m] - Sums(t)[j]
<1> DEFINE S == {k \in Nat : k <= m => Sums(s)[i + k] - Sums(s)[i] = Sums(t)[j + k] - Sums(t)[j]}
<1>1. 0 \in S
  <2>1. Sums(s)[i] \in Nat /\ Sums(t)[j] \in Nat
    BY SumsAreNat
  <2> QED BY <2>1
<1>2. ASSUME NEW k \in S PROVE k + 1 \in S
  <2> SUFFICES ASSUME k + 1 <= m
               PROVE  Sums(s)[i + (k + 1)] - Sums(s)[i] = Sums(t)[j + (k + 1)] - Sums(t)[j]
    OBVIOUS
  <2>1. /\ i + (k + 1) \in 1..Len(s) /\ (i + (k + 1)) - 1 = i + k /\ i + k \in 0..Len(s)
        /\ j + (k + 1) \in 1..Len(t) /\ (j + (k + 1)) - 1 = j + k /\ j + k \in 0..Len(t)
    OBVIOUS
  <2>2. /\ Sums(s)[i + (k + 1)] = Sums(s)[i + k] + s[i + (k + 1)].weight
        /\ Sums(t)[j + (k + 1)] = Sums(t)[j + k] + t[j + (k + 1)].weight
    <3>1. Len(s) \in Nat /\ Len(t) \in Nat
      OBVIOUS
    <3>2. \A n \in 1..Len(s) : Sums(s)[n] = Sums(s)[n - 1] + s[n].weight
      BY <3>1, SumSteps
    <3>3. \A n \in 1..Len(t) : Sums(t)[n] = Sums(t)[n - 1] + t[n].weight
      BY <3>1, SumSteps
    <3>4. Sums(s)[i + (k + 1)] = Sums(s)[i + k] + s[i + (k + 1)].weight
      BY <2>1, <3>2
    <3> QED BY <2>1, <3>3, <3>4
  <2>3. /\ Sums(s)[i] \in Nat /\ Sums(t)[j] \in Nat
        /\ Sums(s)[i + k] \in Nat /\ Sums(t)[j + k] \in Nat
    BY <2>1, SumsAreNat
  <2>4. s[i + (k + 1)].weight = t[j + (k + 1)].weight /\ s[i + (k + 1)].weight \in Nat
    <3>1. k + 1 \in 1..m /\ s[i + (k + 1)] \in Weighted
      BY <2>1
    <3> QED BY <3>1 DEF Weighted
  <2>5. Sums(s)[i + k] - Sums(s)[i] = Sums(t)[j + k] - Sums(t)[j]
    OBVIOUS
  <2> HIDE DEF S
  <2> DEFINE a == Sums(s)[i + (k + 1)]  b == Sums(s)[i + k]  c == Sums(s)[i]
             d == Sums(t)[j + (k + 1)]  e == Sums(t)[j + k]  g == Sums(t)[j]
             w == s[i + (k + 1)].weight
  <2>6. a = b + w /\ d = e + w /\ b - c = e - g
    BY <2>2, <2>4, <2>5
  <2>7. b \in Nat /\ c \in Nat /\ e \in Nat /\ g \in Nat /\ w \in Nat
    BY <2>3, <2>4
  <2> HIDE DEF a, b, c, d, e, g, w
  <2>8. a - c = d - g
    BY <2>6, <2>7
  <2> QED BY <2>8 DEF a, c, d, g
<1>3. S = Nat
  <2>1. S \in SUBSET Nat
    OBVIOUS
  <2> HIDE DEF S
  <2> QED BY <1>1, <1>2, <2>1, InductionOverNat
<1>4. m \in S
  BY <1>3
<1> QED BY <1>4

(* Equal parts of two lists add the same to their sums.                    *)
LEMMA SumsAgree ==
  ASSUME NEW s \in Seq(Weighted), NEW i \in 0..Len(s), NEW ii \in i..Len(s),
         NEW t \in Seq(Weighted), NEW j \in 0..Len(t), NEW jj \in j..Len(t), ii - i = jj - j,
         \A k \in 1..ii - i : s[i + k].weight = t[j + k].weight
  PROVE  /\ Sums(s)[ii] - Sums(s)[i] = Sums(t)[jj] - Sums(t)[j]
         /\ Sums(s)[ii] \in Nat /\ Sums(s)[i] \in Nat /\ Sums(t)[jj] \in Nat /\ Sums(t)[j] \in Nat
<1> DEFINE m == ii - i
<1>1. /\ m \in Nat /\ i + m <= Len(s) /\ j + m <= Len(t) /\ i + m = ii /\ j + m = jj
      /\ \A k \in 1..m : s[i + k].weight = t[j + k].weight
  OBVIOUS
<1> HIDE DEF m
<1>2. Sums(s)[i + m] - Sums(s)[i] = Sums(t)[j + m] - Sums(t)[j]
  BY <1>1, SumsShift
<1>3. ii \in 0..Len(s) /\ jj \in 0..Len(t)
  OBVIOUS
<1> QED BY <1>1, <1>2, <1>3, SumsAreNat

(* So is the weight of a list.                                             *)
LEMMA WeightsAreNat ==
  ASSUME NEW s \in Seq(Weighted)
  PROVE  Weights(s) \in Nat /\ Sums(s)[0] = 0 /\ \A k \in 1..Len(s) : s[k].weight \in Nat
<1>1. Len(s) \in Nat /\ Len(s) \in 0..Len(s)
  OBVIOUS
<1>2. ASSUME NEW k \in 1..Len(s) PROVE s[k].weight \in Nat
  <2>1. s[k] \in Weighted
    OBVIOUS
  <2> QED BY <2>1 DEF Weighted
<1> QED BY <1>1, <1>2, SumsAreNat, SumSteps DEF Weights

-----------------------------------------------------------------------------
(* The weight of a part of a list, of two lists, of a list without an item *)
(* and of one in which FindItem has exchanged two.                         *)

(* The weight of a part is the difference of two partial sums.             *)
LEMMA WeightOfPart ==
  ASSUME NEW s \in Seq(Weighted), NEW m \in 1..Len(s) + 1, NEW n \in 0..Len(s), m <= n + 1
  PROVE  /\ SubSeq(s, m, n) \in Seq(Weighted) /\ Len(SubSeq(s, m, n)) = n + 1 - m
         /\ Weights(SubSeq(s, m, n)) = Sums(s)[n] - Sums(s)[m - 1]
<1> DEFINE t == SubSeq(s, m, n)
<1>1. /\ t \in Seq(Weighted) /\ Len(t) = n + 1 - m
      /\ \A k \in 1..n + 1 - m : t[k] = s[(m - 1) + k]
  <2>1. \A k \in m..n : s[k] \in Weighted
    OBVIOUS
  <2>2. /\ t \in Seq(Weighted) /\ Len(t) = IF m <= n THEN n - m + 1 ELSE 0
        /\ \A k \in 1..n - m + 1 : t[k] = s[m + k - 1]
    BY <2>1, SubSeqProperties
  <2> HIDE DEF t
  <2> QED BY <2>2
<1> HIDE DEF t
<1>2. Sums(s)[n] - Sums(s)[m - 1] = Sums(t)[Len(t)] - Sums(t)[0] /\ Sums(t)[Len(t)] \in Nat
  <2>1. /\ m - 1 \in 0..Len(s) /\ n \in m - 1..Len(s)
        /\ 0 \in 0..Len(t) /\ Len(t) \in 0..Len(t) /\ n - (m - 1) = Len(t) - 0
    BY <1>1
  <2>2. \A k \in 1..n - (m - 1) : s[(m - 1) + k].weight = t[0 + k].weight
    BY <1>1
  <2> QED BY <1>1, <2>1, <2>2, SumsAgree
<1>3. Sums(t)[0] = 0
  BY <1>1, WeightsAreNat
<1>4. Sums(s)[n] - Sums(s)[m - 1] = Weights(t)
  BY <1>2, <1>3 DEF Weights
<1> QED BY <1>1, <1>4 DEF t

(* The weights of two lists add up.                                        *)
LEMMA WeightOfConcat ==
  ASSUME NEW s \in Seq(Weighted), NEW t \in Seq(Weighted)
  PROVE  s \o t \in Seq(Weighted) /\ Weights(s \o t) = Weights(s) + Weights(t)
<1> DEFINE u == s \o t
<1>1. /\ u \in Seq(Weighted) /\ Len(u) = Len(s) + Len(t) /\ Len(s) \in Nat /\ Len(t) \in Nat
      /\ \A k \in 1..Len(s) : u[0 + k] = s[0 + k]
      /\ \A k \in 1..Len(t) : u[Len(s) + k] = t[0 + k]
  BY ConcatProperties
<1> HIDE DEF u
<1>2. Sums(u)[Len(s)] - Sums(u)[0] = Sums(s)[Len(s)] - Sums(s)[0]
  <2>1. /\ 0 \in 0..Len(u) /\ Len(s) \in 0..Len(u) /\ 0 \in 0..Len(s) /\ Len(s) \in 0..Len(s)
        /\ Len(s) - 0 = Len(s)
    BY <1>1
  <2>2. \A k \in 1..Len(s) - 0 : u[0 + k].weight = s[0 + k].weight
    BY <1>1
  <2> QED BY <1>1, <2>1, <2>2, SumsAgree, ZenonT(60)
<1>3. /\ Sums(u)[Len(u)] - Sums(u)[Len(s)] = Sums(t)[Len(t)] - Sums(t)[0]
      /\ Sums(u)[Len(s)] \in Nat
  <2>1. /\ Len(s) \in 0..Len(u) /\ Len(u) \in Len(s)..Len(u) /\ 0 \in 0..Len(t) /\ Len(t) \in 0..Len(t)
        /\ Len(u) - Len(s) = Len(t) - 0
    BY <1>1
  <2>2. \A k \in 1..Len(u) - Len(s) : u[Len(s) + k].weight = t[0 + k].weight
    BY <1>1
  <2> QED BY <1>1, <2>1, <2>2, SumsAgree, ZenonT(60)
<1>4. /\ Sums(u)[0] = 0 /\ Sums(s)[0] = 0 /\ Sums(t)[0] = 0
      /\ Weights(u) \in Nat /\ Weights(s) \in Nat /\ Weights(t) \in Nat
  BY <1>1, WeightsAreNat
<1> QED BY <1>1, <1>2, <1>3, <1>4 DEF Weights, u

(* A list of one item weighs what the item does.                           *)
LEMMA WeightOfOne ==
  ASSUME NEW x \in Weighted
  PROVE  <<x>> \in Seq(Weighted) /\ Weights(<<x>>) = x.weight
<1> DEFINE s == <<x>>
<1>1. s \in Seq(Weighted) /\ Len(s) = 1 /\ s[1] = x
  OBVIOUS
<1> HIDE DEF s
<1>2. Sums(s)[1] = Sums(s)[1 - 1] + s[1].weight /\ Sums(s)[0] = 0
  BY <1>1, SumSteps
<1> QED BY <1>1, <1>2 DEF Weights, s, Weighted

(* Removing an item takes its weight away.                                 *)
LEMMA WeightWithout ==
  ASSUME NEW s \in Seq(Weighted), NEW k \in 1..Len(s)
  PROVE  RemoveAt(s, k) \in Seq(Weighted) /\ Weights(RemoveAt(s, k)) = Weights(s) - s[k].weight
<1>1. SubSeq(s, 1, k - 1) \in Seq(Weighted) /\ Weights(SubSeq(s, 1, k - 1)) = Sums(s)[k - 1] - Sums(s)[0]
  <2>1. 1 \in 1..Len(s) + 1 /\ k - 1 \in 0..Len(s) /\ 1 <= (k - 1) + 1 /\ 1 - 1 = 0
    OBVIOUS
  <2> QED BY <2>1, WeightOfPart
<1>2. /\ SubSeq(s, k + 1, Len(s)) \in Seq(Weighted)
      /\ Weights(SubSeq(s, k + 1, Len(s))) = Sums(s)[Len(s)] - Sums(s)[k]
  <2>1. k + 1 \in 1..Len(s) + 1 /\ Len(s) \in 0..Len(s) /\ k + 1 <= Len(s) + 1 /\ (k + 1) - 1 = k
    OBVIOUS
  <2> QED BY <2>1, WeightOfPart
<1>3. Sums(s)[k] = Sums(s)[k - 1] + s[k].weight /\ Sums(s)[0] = 0
  BY SumSteps, WeightsAreNat
<1>4. /\ Sums(s)[k] \in Nat /\ Sums(s)[k - 1] \in Nat /\ Sums(s)[Len(s)] \in Nat
      /\ s[k].weight \in Nat
  <2>1. k \in 0..Len(s) /\ k - 1 \in 0..Len(s) /\ Len(s) \in 0..Len(s)
    OBVIOUS
  <2> QED BY <2>1, SumsAreNat, WeightsAreNat
<1>5. /\ RemoveAt(s, k) \in Seq(Weighted)
      /\ Weights(RemoveAt(s, k)) = Weights(SubSeq(s, 1, k - 1)) + Weights(SubSeq(s, k + 1, Len(s)))
  BY <1>1, <1>2, WeightOfConcat DEF RemoveAt
<1> DEFINE a == Sums(s)[k - 1]  b == Sums(s)[k]  c == Sums(s)[Len(s)]  w == s[k].weight
<1>6. a \in Nat /\ b \in Nat /\ c \in Nat /\ w \in Nat /\ b = a + w
  BY <1>3, <1>4
<1>7. Weights(RemoveAt(s, k)) = (a - 0) + (c - b)
  BY <1>1, <1>2, <1>3, <1>5, Zenon
<1> HIDE DEF a, b, c, w
<1>8. (a - 0) + (c - b) = c - w
  BY <1>6
<1>9. Weights(RemoveAt(s, k)) = c - w
  BY <1>7, <1>8, Zenon
<1> QED BY <1>5, <1>9, Zenon DEF Weights, c, w

(* Exchanging two items changes no weight.                                 *)
LEMMA WeightOfExchange ==
  ASSUME NEW s \in Seq(Weighted), NEW p \in 1..Len(s), NEW t \in Seq(Weighted), Len(t) = Len(s),
         t[1] = s[p], t[p] = s[1], \A k \in 1..Len(s) : k # 1 /\ k # p => t[k] = s[k]
  PROVE  Weights(t) = Weights(s)
<1>1. Len(s) \in Nat /\ 1 \in 1..Len(s)
  OBVIOUS
<1>2. CASE p = 1
  <2>1. t = s
    BY <1>2, SeqEqual
  <2> QED BY <1>1, <2>1
<1>3. CASE p # 1
  <2>1. /\ Sums(t)[1] = t[1].weight /\ Sums(s)[1] = s[1].weight
        /\ Sums(t)[p] = Sums(t)[p - 1] + t[p].weight /\ Sums(s)[p] = Sums(s)[p - 1] + s[p].weight
    <3>1. /\ Sums(t)[1] = Sums(t)[1 - 1] + t[1].weight /\ Sums(s)[1] = Sums(s)[1 - 1] + s[1].weight
          /\ Sums(t)[p] = Sums(t)[p - 1] + t[p].weight /\ Sums(s)[p] = Sums(s)[p - 1] + s[p].weight
      <4>1. p \in 1..Len(t) /\ 1 \in 1..Len(t) /\ Len(t) \in Nat
        BY <1>1
      <4> QED BY <1>1, <4>1, SumSteps
    <3>2. Sums(t)[0] = 0 /\ Sums(s)[0] = 0 /\ t[1].weight \in Nat /\ s[1].weight \in Nat
      BY <1>1, WeightsAreNat
    <3> QED BY <3>1, <3>2
  <2>2. /\ Sums(t)[p - 1] - Sums(t)[1] = Sums(s)[p - 1] - Sums(s)[1]
        /\ Sums(t)[p - 1] \in Nat /\ Sums(s)[p - 1] \in Nat
    <3> DEFINE q == p - 1
    <3>1. 1 \in 0..Len(s) /\ q \in 1..Len(s) /\ 1 \in 0..Len(t) /\ q \in 1..Len(t)
      BY <1>1, <1>3
    <3>2. \A k \in 1..q - 1 : t[1 + k].weight = s[1 + k].weight
      BY <1>1
    <3> HIDE DEF q
    <3>3. /\ Sums(t)[q] - Sums(t)[1] = Sums(s)[q] - Sums(s)[1]
          /\ Sums(t)[q] \in Nat /\ Sums(s)[q] \in Nat
      BY <3>1, <3>2, SumsAgree, ZenonT(60)
    <3> QED BY <3>3 DEF q
  <2>3. /\ Sums(t)[Len(s)] - Sums(t)[p] = Sums(s)[Len(s)] - Sums(s)[p]
        /\ Sums(t)[Len(s)] \in Nat /\ Sums(s)[Len(s)] \in Nat /\ Sums(t)[p] \in Nat /\ Sums(s)[p] \in Nat
    <3>1. /\ p \in 0..Len(s) /\ Len(s) \in p..Len(s)
          /\ p \in 0..Len(t) /\ Len(t) \in p..Len(t) /\ Len(s) - p = Len(t) - p
      BY <1>1
    <3>2. ASSUME NEW k \in 1..Len(s) - p PROVE s[p + k].weight = t[p + k].weight
      <4>1. p + k \in 1..Len(s) /\ p + k # 1 /\ p + k # p
        BY <1>1
      <4> QED BY <4>1
    <3>3. /\ Sums(s)[Len(s)] - Sums(s)[p] = Sums(t)[Len(t)] - Sums(t)[p]
          /\ Sums(s)[Len(s)] \in Nat /\ Sums(s)[p] \in Nat /\ Sums(t)[Len(t)] \in Nat /\ Sums(t)[p] \in Nat
      BY <3>1, <3>2, SumsAgree, ZenonT(60)
    <3> QED BY <3>3
  <2>4. s[1].weight \in Nat /\ s[p].weight \in Nat /\ t[1].weight = s[p].weight /\ t[p].weight = s[1].weight
    BY <1>1, WeightsAreNat
  <2> DEFINE a == Sums(s)[p - 1]  b == Sums(s)[p]  c == Sums(s)[Len(s)]  v == s[1].weight
             d == Sums(t)[p - 1]  e == Sums(t)[p]  f == Sums(t)[Len(s)]  w == s[p].weight
  <2>5. a - v = d - w /\ b = a + w /\ e = d + v /\ c - b = f - e
    BY <2>1, <2>2, <2>3, <2>4
  <2>6. /\ a \in Nat /\ b \in Nat /\ c \in Nat /\ v \in Nat
        /\ d \in Nat /\ e \in Nat /\ f \in Nat /\ w \in Nat
    BY <2>2, <2>3, <2>4
  <2> HIDE DEF a, b, c, d, e, f, v, w
  <2>7. c = f
    BY <2>5, <2>6
  <2> QED BY <1>1, <2>7 DEF Weights, c, f
<1> QED BY <1>2, <1>3

-----------------------------------------------------------------------------
(* The list of the cache is a list of items with weights.                  *)
LEMMA ItemsAreWeighted ==
  ASSUME WeightIsSum
  PROVE  items \in Seq(Weighted) /\ Len(items) \in Nat /\ total \in Nat
<1>1. [id : Paths, weight : 0 .. MaxWeight] \subseteq Weighted
  BY CacheAssumption DEF Weighted
<1>2. items \in Seq(Weighted)
  BY <1>1, SeqMonotonic DEF WeightIsSum
<1> QED BY <1>2, WeightsAreNat DEF WeightIsSum

(* Fit finds a number of items to leave: with none left, nothing weighs.   *)
LEMMA FitFinds ==
  ASSUME NEW s \in Seq(Weighted), NEW maxCount \in Nat, NEW maxWeight \in Nat
  PROVE  /\ Fit(s, Weights(s), maxCount, maxWeight) \in 0..Len(s)
         /\ Enough(s, Weights(s), Fit(s, Weights(s), maxCount, maxWeight), maxCount, maxWeight)
<1> DEFINE w == Weights(s)
           Fits(n) == Enough(s, w, n, maxCount, maxWeight)
<1>1. Fits(0)
  <2>1. Weights(SubSeq(s, 0 + 1, Len(s))) = Sums(s)[Len(s)] - Sums(s)[0]
    <3>1. 0 + 1 \in 1..Len(s) + 1 /\ Len(s) \in 0..Len(s) /\ 0 + 1 <= Len(s) + 1 /\ (0 + 1) - 1 = 0
      OBVIOUS
    <3> QED BY <3>1, WeightOfPart
  <2>2. Weights(SubSeq(s, 0 + 1, Len(s))) = w /\ w \in Nat
    BY <2>1, WeightsAreNat DEF Weights
  <2> QED BY <2>2 DEF Enough
<1>2. \E n \in 0..Len(s) : Fits(n) /\ \A m \in n + 1..Len(s) : ~Fits(m)
  <2> SUFFICES ASSUME \A n \in 0..Len(s) : Fits(n) => \E m \in n + 1..Len(s) : Fits(m)
               PROVE  FALSE
    OBVIOUS
  <2> DEFINE T == {k \in Nat : \E n \in 0..Len(s) : n >= k /\ Fits(n)}
  <2>1. 0 \in T
    <3>1. 0 \in 0..Len(s)
      OBVIOUS
    <3> QED BY <1>1, <3>1
  <2>2. ASSUME NEW k \in T PROVE k + 1 \in T
    <3> HIDE DEF Fits
    <3>1. PICK n \in 0..Len(s) : n >= k /\ Fits(n)
      OBVIOUS
    <3>2. PICK m \in n + 1..Len(s) : Fits(m)
      BY <3>1
    <3>3. m \in 0..Len(s) /\ m >= k + 1
      BY <3>1
    <3> QED BY <3>2, <3>3
  <2>3. T = Nat
    <3>1. T \in SUBSET Nat
      OBVIOUS
    <3> HIDE DEF T
    <3> QED BY <2>1, <2>2, <3>1, InductionOverNat
  <2>4. Len(s) + 1 \in T
    <3> HIDE DEF T
    <3> QED BY <2>3
  <2> QED BY <2>4
<1> QED BY <1>2 DEF Fit

-----------------------------------------------------------------------------
(* What the operations do to the list, its weights and its identities.     *)

Distinct(s) == \A j, k \in DOMAIN s : s[j].id = s[k].id => j = k
Entries == [id : Paths, weight : 0 .. MaxWeight]

(* The entries of the cache are items with weights.                        *)
LEMMA EntriesAreWeighted ==
  ASSUME NEW s \in Seq(Entries)
  PROVE  s \in Seq(Weighted) /\ Len(s) \in Nat /\ DOMAIN s = 1..Len(s)
<1>1. Entries \subseteq Weighted
  BY CacheAssumption DEF Entries, Weighted
<1> QED BY <1>1, SeqMonotonic

(* A hit: two items change places.                                         *)
LEMMA AfterFindItem ==
  ASSUME NEW s \in Seq(Entries), Distinct(s), NEW id \in Ids(s)
  PROVE  /\ FindItem(s, id) \in Seq(Entries) /\ Distinct(FindItem(s, id))
         /\ Weights(FindItem(s, id)) = Weights(s)
<1> DEFINE p == Place(s, id)
           t == FindItem(s, id)
<1>1. p \in 1..Len(s) /\ Len(s) \in Nat
  BY DEF Place, Ids
<1> HIDE DEF p
<1>2. t = [s EXCEPT ![1] = s[p], ![p] = s[1]]
  BY DEF FindItem, p
<1> HIDE DEF t
<1>3. t \in Seq(Entries) /\ Len(t) = Len(s) /\ DOMAIN t = 1..Len(s)
  BY <1>1, <1>2
<1>4. t[1] = s[p] /\ t[p] = s[1] /\ \A k \in 1..Len(s) : k # 1 /\ k # p => t[k] = s[k]
  BY <1>1, <1>2
<1>5. Weights(t) = Weights(s)
  BY <1>1, <1>3, <1>4, EntriesAreWeighted, WeightOfExchange
<1>6. Distinct(t)
  <2> SUFFICES ASSUME NEW j \in 1..Len(s), NEW k \in 1..Len(s), t[j].id = t[k].id
               PROVE  j = k
    BY <1>3 DEF Distinct
  <2> DEFINE From(i) == IF i = 1 THEN p ELSE IF i = p THEN 1 ELSE i
  <2>1. \A i \in 1..Len(s) : From(i) \in 1..Len(s) /\ t[i] = s[From(i)]
    BY <1>1, <1>4
  <2>2. From(j) = From(k)
    BY <2>1 DEF Distinct
  <2> QED BY <2>2
<1> QED BY <1>3, <1>5, <1>6 DEF t

(* An item is removed.                                                     *)
LEMMA AfterRemoval ==
  ASSUME NEW s \in Seq(Entries), Distinct(s), NEW id \in Ids(s)
  PROVE  /\ RemoveAt(s, Place(s, id)) \in Seq(Entries) /\ Distinct(RemoveAt(s, Place(s, id)))
         /\ Weights(RemoveAt(s, Place(s, id))) = Weights(s) - s[Place(s, id)].weight
<1> DEFINE p == Place(s, id)
           t == RemoveAt(s, p)
<1>1. p \in 1..Len(s) /\ Len(s) \in Nat
  BY DEF Place, Ids
<1> HIDE DEF p
<1>2. Weights(t) = Weights(s) - s[p].weight
  BY <1>1, EntriesAreWeighted, WeightWithout
<1>3. /\ SubSeq(s, 1, p - 1) \in Seq(Entries) /\ Len(SubSeq(s, 1, p - 1)) = p - 1
      /\ \A i \in 1..p - 1 : SubSeq(s, 1, p - 1)[i] = s[i]
  <2>1. 1 \in Int /\ p - 1 \in Int /\ \A i \in 1..p - 1 : s[i] \in Entries
    BY <1>1
  <2>2. /\ SubSeq(s, 1, p - 1) \in Seq(Entries)
        /\ Len(SubSeq(s, 1, p - 1)) = IF 1 <= p - 1 THEN (p - 1) - 1 + 1 ELSE 0
        /\ \A i \in 1..(p - 1) - 1 + 1 : SubSeq(s, 1, p - 1)[i] = s[1 + i - 1]
    BY <2>1, SubSeqProperties
  <2> QED BY <1>1, <2>2
<1>4. /\ SubSeq(s, p + 1, Len(s)) \in Seq(Entries) /\ Len(SubSeq(s, p + 1, Len(s))) = Len(s) - p
      /\ \A i \in 1..Len(s) - p : SubSeq(s, p + 1, Len(s))[i] = s[p + i]
  <2>1. p + 1 \in Int /\ Len(s) \in Int /\ \A i \in p + 1..Len(s) : s[i] \in Entries
    BY <1>1
  <2>2. /\ SubSeq(s, p + 1, Len(s)) \in Seq(Entries)
        /\ Len(SubSeq(s, p + 1, Len(s))) = IF p + 1 <= Len(s) THEN Len(s) - (p + 1) + 1 ELSE 0
        /\ \A i \in 1..Len(s) - (p + 1) + 1 : SubSeq(s, p + 1, Len(s))[i] = s[(p + 1) + i - 1]
    BY <2>1, SubSeqProperties
  <2> QED BY <1>1, <2>2
<1>5. /\ t \in Seq(Entries) /\ Len(t) = (p - 1) + (Len(s) - p)
      /\ \A i \in 1..(p - 1) + (Len(s) - p) :
           t[i] = IF i <= p - 1 THEN SubSeq(s, 1, p - 1)[i] ELSE SubSeq(s, p + 1, Len(s))[i - (p - 1)]
  <2> DEFINE a == SubSeq(s, 1, p - 1)  b == SubSeq(s, p + 1, Len(s))
  <2>1. t = a \o b
    BY DEF RemoveAt
  <2>2. a \in Seq(Entries) /\ b \in Seq(Entries) /\ Len(a) = p - 1 /\ Len(b) = Len(s) - p
    BY <1>3, <1>4
  <2> HIDE DEF t, a, b
  <2>3. /\ t \in Seq(Entries) /\ Len(t) = (p - 1) + (Len(s) - p)
        /\ \A i \in 1..(p - 1) + (Len(s) - p) : t[i] = IF i <= p - 1 THEN a[i] ELSE b[i - (p - 1)]
    BY <2>1, <2>2, ConcatProperties
  <2> QED BY <2>3 DEF t, a, b
<1>6. Len(t) = Len(s) - 1 /\ DOMAIN t = 1..Len(s) - 1
  BY <1>1, <1>5
<1>7. ASSUME NEW i \in 1..Len(s) - 1 PROVE t[i] = IF i < p THEN s[i] ELSE s[i + 1]
  <2>1. t[i] = IF i <= p - 1 THEN SubSeq(s, 1, p - 1)[i] ELSE SubSeq(s, p + 1, Len(s))[i - (p - 1)]
    BY <1>1, <1>5
  <2>2. CASE i < p
    BY <1>1, <1>3, <2>1, <2>2
  <2>3. CASE ~(i < p)
    <3>1. i - (p - 1) \in 1..Len(s) - p /\ p + (i - (p - 1)) = i + 1
      BY <1>1, <2>3
    <3> QED BY <1>1, <1>4, <2>1, <2>3, <3>1
  <2> QED BY <2>2, <2>3
<1> HIDE DEF t
<1>8. Distinct(t)
  <2> SUFFICES ASSUME NEW j \in 1..Len(s) - 1, NEW k \in 1..Len(s) - 1, t[j].id = t[k].id
               PROVE  j = k
    BY <1>6 DEF Distinct
  <2> DEFINE From(i) == IF i < p THEN i ELSE i + 1
  <2>1. \A i \in 1..Len(s) - 1 : From(i) \in 1..Len(s) /\ t[i] = s[From(i)]
    BY <1>1, <1>7
  <2>2. From(j) = From(k)
    BY <2>1 DEF Distinct
  <2> QED BY <1>1, <2>2
<1> QED BY <1>2, <1>5, <1>8 DEF t, p

(* A file is read: its item comes first.                                   *)
LEMMA AfterAdding ==
  ASSUME NEW s \in Seq(Entries), Distinct(s), NEW x \in Entries, x.id \notin Ids(s)
  PROVE  /\ <<x>> \o s \in Seq(Entries) /\ Distinct(<<x>> \o s)
         /\ (<<x>> \o s)[1] = x /\ Len(<<x>> \o s) = Len(s) + 1
         /\ Weights(<<x>> \o s) = Weights(s) + x.weight
<1> DEFINE t == <<x>> \o s
<1>1. /\ t \in Seq(Entries) /\ Len(t) = Len(s) + 1 /\ Len(s) \in Nat /\ DOMAIN t = 1..Len(s) + 1
      /\ t[1] = x /\ \A i \in 1..Len(s) + 1 : i # 1 => t[i] = s[i - 1]
  OBVIOUS
<1>2. Weights(t) = Weights(s) + x.weight
  <2>1. x \in Weighted /\ s \in Seq(Weighted)
    <3>1. Entries \subseteq Weighted
      BY CacheAssumption DEF Entries, Weighted
    <3> QED BY <3>1, EntriesAreWeighted
  <2>2. Weights(<<x>> \o s) = x.weight + Weights(s)
    BY <2>1, WeightOfOne, WeightOfConcat
  <2>3. x.weight \in Nat /\ Weights(s) \in Nat
    BY <2>1, WeightsAreNat DEF Weighted
  <2> QED BY <2>2, <2>3
<1> HIDE DEF t
<1>3. Distinct(t)
  <2> SUFFICES ASSUME NEW j \in 1..Len(s) + 1, NEW k \in 1..Len(s) + 1, t[j].id = t[k].id
               PROVE  j = k
    BY <1>1 DEF Distinct
  <2>1. \A i \in 1..Len(s) + 1 : i # 1 => i - 1 \in 1..Len(s) /\ t[i] = s[i - 1] /\ t[i].id # x.id
    BY <1>1 DEF Ids
  <2>2. CASE j = 1 \/ k = 1
    BY <1>1, <2>1, <2>2
  <2>3. CASE j # 1 /\ k # 1
    <3>1. /\ j - 1 \in DOMAIN s /\ k - 1 \in DOMAIN s
          /\ s[j - 1].id = s[k - 1].id
      BY <2>1, <2>3
    <3>2. j - 1 = k - 1
      BY <3>1 DEF Distinct
    <3> QED BY <3>2
  <2> QED BY <2>2, <2>3
<1> QED BY <1>1, <1>2, <1>3 DEF t

(* The items that are left when others are dropped from the back.          *)
LEMMA AfterDropping ==
  ASSUME NEW s \in Seq(Entries), Distinct(s), NEW n \in 0..Len(s)
  PROVE  /\ SubSeq(s, 1, n) \in Seq(Entries) /\ Distinct(SubSeq(s, 1, n))
         /\ Len(SubSeq(s, 1, n)) = n /\ (n # 0 => SubSeq(s, 1, n)[1] = s[1])
         /\ Weights(SubSeq(s, 1, n)) = Weights(s) - Weights(SubSeq(s, n + 1, Len(s)))
<1> DEFINE t == SubSeq(s, 1, n)
<1>1. /\ t \in Seq(Entries) /\ Len(t) = n /\ DOMAIN t = 1..n
      /\ \A i \in 1..n : t[i] = s[i] /\ i \in 1..Len(s)
  <2>1. 1 \in Int /\ n \in Int /\ \A i \in 1..n : s[i] \in Entries
    OBVIOUS
  <2>2. /\ t \in Seq(Entries) /\ Len(t) = IF 1 <= n THEN n - 1 + 1 ELSE 0
        /\ \A i \in 1..n - 1 + 1 : t[i] = s[1 + i - 1]
    BY <2>1, SubSeqProperties
  <2> HIDE DEF t
  <2> QED BY <2>2
<1> HIDE DEF t
<1>2. Distinct(t)
  BY <1>1 DEF Distinct
<1>3. n # 0 => t[1] = s[1]
  BY <1>1
<1>4. Weights(t) = Sums(s)[n] - Sums(s)[0]
  <2>1. 1 \in 1..Len(s) + 1 /\ n \in 0..Len(s) /\ 1 <= n + 1 /\ 1 - 1 = 0
    BY EntriesAreWeighted
  <2> QED BY <2>1, EntriesAreWeighted, WeightOfPart DEF t
<1>5. Weights(SubSeq(s, n + 1, Len(s))) = Sums(s)[Len(s)] - Sums(s)[n]
  <2>1. n + 1 \in 1..Len(s) + 1 /\ Len(s) \in 0..Len(s) /\ n + 1 <= Len(s) + 1 /\ (n + 1) - 1 = n
    OBVIOUS
  <2> QED BY <2>1, EntriesAreWeighted, WeightOfPart
<1>6. Sums(s)[0] = 0 /\ Sums(s)[n] \in Nat /\ Sums(s)[Len(s)] \in Nat
  <2>1. Len(s) \in 0..Len(s)
    OBVIOUS
  <2> QED BY <2>1, EntriesAreWeighted, SumsAreNat, WeightsAreNat
<1>7. Weights(t) = Weights(s) - Weights(SubSeq(s, n + 1, Len(s)))
  BY <1>4, <1>5, <1>6 DEF Weights
<1> QED BY <1>1, <1>2, <1>3, <1>7 DEF t

-----------------------------------------------------------------------------
(* The limits of a call, whatever they are multiplied and wrapped by.      *)
LEMMA LimitsAreNat ==
  ASSUME WeightIsSum
  PROVE  filesLimit \in Nat /\ MemoryLimit \in Nat
<1>1. filesLimit \in Nat /\ memory \in Nat
  BY CacheAssumption DEF WeightIsSum, Options
<1>2. memory * Megabyte \in Nat
  BY <1>1, CacheAssumption
<1> DEFINE m == memory * Megabyte
<1> HIDE DEF m
<1>3. m % SizeMod \in Nat
  BY <1>2, CacheAssumption DEF m
<1> QED BY <1>1, <1>3 DEF MemoryLimit, m

(* What is known of the list, by the names used above.                     *)
LEMMA ListIsKnown ==
  ASSUME WeightIsSum
  PROVE  items \in Seq(Entries) /\ Distinct(items) /\ total = Weights(items)
BY DEF WeightIsSum, Entries, Distinct

(* The step that reads a file: the list and the weight it leaves.          *)
LEMMA LoadedList ==
  ASSUME WeightIsSum, GetDataLoaded, items' # items \/ total' # total
  PROVE  /\ items' \in Seq(Entries) /\ Distinct(items') /\ total' = Weights(items')
         /\ Len(items') <= filesLimit /\ Weights(items') <= MemoryLimit
         /\ items' # <<>> => Head(items').id = path
<1>1. PICK weight \in 0..MaxWeight :
         LET added == <<Item(path, weight)>> \o items
             left == Fit(added, total + weight, filesLimit, MemoryLimit)
         IN  /\ items' = SubSeq(added, 1, left)
             /\ total' = total + weight - Weights(SubSeq(added, left + 1, Len(added)))
  BY DEF GetDataLoaded
<1> DEFINE added == <<Item(path, weight)>> \o items
           left == Fit(added, total + weight, filesLimit, MemoryLimit)
           kept == SubSeq(added, 1, left)
           rest == Weights(SubSeq(added, left + 1, Len(added)))
<1>2. items' = kept /\ total' = total + weight - rest
  BY <1>1
<1>3. /\ Item(path, weight) \in Entries /\ Item(path, weight).id = path
      /\ Item(path, weight).weight = weight /\ path \notin Ids(items)
  BY DEF GetDataLoaded, WeightIsSum, Entries, Item
<1>4. /\ added \in Seq(Entries) /\ Distinct(added) /\ added[1].id = path
      /\ Len(added) \in Nat /\ Weights(added) = total + weight
  <2> HIDE DEF added
  <2> QED BY <1>3, ListIsKnown, AfterAdding, EntriesAreWeighted DEF added
<1> HIDE DEF added
<1>5. left \in 0..Len(added) /\ Enough(added, total + weight, left, filesLimit, MemoryLimit)
  BY <1>4, LimitsAreNat, EntriesAreWeighted, FitFinds
<1> HIDE DEF left
<1>6. /\ kept \in Seq(Entries) /\ Distinct(kept) /\ Len(kept) = left
      /\ (left # 0 => kept[1] = added[1]) /\ Weights(kept) = Weights(added) - rest
  BY <1>4, <1>5, AfterDropping
<1> HIDE DEF kept
<1>7. left <= filesLimit /\ (total + weight) - rest <= MemoryLimit
  BY <1>5, Zenon DEF Enough
<1> HIDE DEF rest
<1>8. total' = Weights(kept)
  <2>1. weight \in Nat /\ total \in Nat
    BY CacheAssumption, ItemsAreWeighted
  <2>2. rest \in Nat
    <3>1. /\ left + 1 \in 1..Len(added) + 1 /\ Len(added) \in 0..Len(added)
          /\ left + 1 <= Len(added) + 1
      BY <1>4, <1>5
    <3> QED BY <1>4, <3>1, EntriesAreWeighted, WeightOfPart, WeightsAreNat DEF rest
  <2>3. total + weight - rest = (total + weight) - rest
    BY <2>1, <2>2
  <2> QED BY <1>2, <1>4, <1>6, <2>3, Zenon
<1>9. Len(kept) <= filesLimit /\ Weights(kept) <= MemoryLimit
  BY <1>4, <1>6, <1>7, Zenon
<1>10. kept # <<>> => Head(kept).id = path
  BY <1>4, <1>6
<1> QED BY <1>2, <1>6, <1>8, <1>9, <1>10

(* Initially nothing is cached and nothing weighs.                         *)
LEMMA WeightInit == Init => WeightIsSum
<1> SUFFICES ASSUME Init PROVE WeightIsSum
  OBVIOUS
<1>1. Weights(<<>>) = 0
  <2>1. Len(<<>>) = 0
    OBVIOUS
  <2> QED BY <2>1, SumSteps DEF Weights
<1> QED BY <1>1, CacheAssumption DEF Init, WeightIsSum, Options

(* Every step keeps the total the sum of the weights.                      *)
LEMMA WeightNext == WeightIsSum /\ [Next]_vars => WeightIsSum'
<1> SUFFICES ASSUME WeightIsSum, [Next]_vars PROVE WeightIsSum'
  OBVIOUS
<1>1. ASSUME UNCHANGED <<items, total>>
      PROVE  /\ items' \in Seq(Entries) /\ Distinct(items') /\ total' = Weights(items')
  BY <1>1, ListIsKnown
<1>2. ASSUME items' \in Seq(Entries), Distinct(items'), total' = Weights(items'),
             path' \in Paths \cup {NoPath}, {files', filesLimit', memory'} \subseteq Options
      PROVE  WeightIsSum'
  BY <1>2 DEF WeightIsSum, Entries, Distinct
<1>3. /\ path \in Paths \cup {NoPath} /\ {files, filesLimit, memory} \subseteq Options
      /\ 0 \in Options
  BY CacheAssumption DEF WeightIsSum, Options
<1>4. CASE ChangeOptions
  BY <1>1, <1>2, <1>3, <1>4 DEF ChangeOptions
<1>5. ASSUME NEW id \in Paths, GetDataBegin(id) PROVE WeightIsSum'
  BY <1>1, <1>2, <1>3, <1>5 DEF GetDataBegin
<1>6. ASSUME NEW id \in Paths, FlushCachedData(id) PROVE WeightIsSum'
  <2>1. id \in Ids(items) /\ items' = RemoveAt(items, Place(items, id))
        /\ total' = total - items[Place(items, id)].weight /\ UNCHANGED <<files, memory, path, filesLimit>>
    BY <1>6 DEF FlushCachedData
  <2>2. items' \in Seq(Entries) /\ Distinct(items') /\ total' = Weights(items')
    BY <2>1, ListIsKnown, AfterRemoval
  <2> QED BY <1>2, <1>3, <2>1, <2>2
<1>7. CASE GetDataUncached
  <2>1. items' = <<>> /\ total' = 0 /\ Return
    BY <1>7 DEF GetDataUncached
  <2>2. Weights(<<>>) = 0
    <3>1. Len(<<>>) = 0
      OBVIOUS
    <3> QED BY <3>1, SumSteps DEF Weights
  <2>3. items' \in Seq(Entries) /\ Distinct(items') /\ total' = Weights(items')
    BY <2>1, <2>2 DEF Distinct
  <2> QED BY <1>2, <1>3, <2>1, <2>3 DEF Return
<1>8. CASE GetDataCached
  <2>1. path \in Ids(items) /\ items' = FindItem(items, path) /\ total' = total /\ Return
    BY <1>8 DEF GetDataCached
  <2>2. items' \in Seq(Entries) /\ Distinct(items') /\ total' = Weights(items')
    BY <2>1, ListIsKnown, AfterFindItem
  <2> QED BY <1>2, <1>3, <2>1, <2>2 DEF Return
<1>9. CASE GetDataLoaded
  <2>1. items' \in Seq(Entries) /\ Distinct(items') /\ total' = Weights(items')
    BY <1>1, <1>9, LoadedList
  <2>2. Return
    BY <1>9 DEF GetDataLoaded
  <2> QED BY <1>2, <1>3, <2>1, <2>2 DEF Return
<1>10. CASE UNCHANGED vars
  BY <1>1, <1>2, <1>3, <1>10 DEF vars
<1> QED BY <1>4, <1>5, <1>6, <1>7, <1>8, <1>9, <1>10 DEF Next

(* A file is cached once, and the weight the cache keeps by additions and  *)
(* subtractions is the weight of what it holds: Add, Delete, FindItem and  *)
(* Fit of ObjectsCache keep the two together, whatever their order.        *)
THEOREM WeightIsKept == Spec => []WeightIsSum
<1> QED BY WeightInit, WeightNext, PTL DEF Spec

(* A file that was read leaves the cache within the limits of the call     *)
(* that read it, and what was read is the last to be dropped: Fit looks at *)
(* the kept weight only, so that this rests on WeightIsSum.                *)
THEOREM LimitsAreKept == Spec => FitsLimits
<1> DEFINE Step == path # NoPath /\ path' = NoPath /\ path \notin Ids(items) /\ items' # items =>
                     /\ Len(items') <= filesLimit
                     /\ Weights(items') <= MemoryLimit
                     /\ items' # <<>> => Head(items').id = path
<1>1. WeightIsSum /\ [Next]_vars => [Step]_vars
  <2> SUFFICES ASSUME WeightIsSum, Next, path # NoPath, path' = NoPath,
                      path \notin Ids(items), items' # items
               PROVE  /\ Len(items') <= filesLimit
                      /\ Weights(items') <= MemoryLimit
                      /\ items' # <<>> => Head(items').id = path
    OBVIOUS
  <2>1. CASE GetDataUncached
    <3>1. Len(<<>>) = 0 /\ Weights(<<>>) = 0
      <4>1. Len(<<>>) = 0
        OBVIOUS
      <4> QED BY <4>1, SumSteps DEF Weights
    <3>2. items' = <<>>
      BY <2>1 DEF GetDataUncached
    <3>3. 0 <= filesLimit /\ 0 <= MemoryLimit
      BY LimitsAreNat
    <3> QED BY <3>1, <3>2, <3>3
  <2>2. CASE GetDataLoaded
    BY <2>2, LoadedList
  <2>3. CASE GetDataCached
    BY <2>3 DEF GetDataCached
  <2>4. ASSUME NEW id \in Paths, GetDataBegin(id) \/ FlushCachedData(id) PROVE FALSE
    BY <2>4 DEF GetDataBegin, FlushCachedData
  <2>5. CASE ChangeOptions
    BY <2>5 DEF ChangeOptions
  <2> QED BY <2>1, <2>2, <2>3, <2>4, <2>5 DEF Next
<1>2. WeightIsSum /\ [Next]_vars => [path # NoPath /\ path' = NoPath /\ path \notin Ids(items) /\ items' # items =>
                     /\ Len(items') <= filesLimit
                     /\ Weights(items') <= MemoryLimit
                     /\ items' # <<>> => Head(items').id = path]_vars
  BY <1>1
<1> HIDE DEF Step
<1> QED BY <1>2, WeightInit, WeightNext, PTL DEF Spec, FitsLimits
===============================================================================
