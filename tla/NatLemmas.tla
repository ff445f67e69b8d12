------------------------------- MODULE NatLemmas -------------------------------
(***************************************************************************)
(* Induction over the natural numbers and its first consequences, stated   *)
(* for sets of numbers.  The proofs about the playlist, its cache and its  *)
(* scanner need them.                                                      *)
(***************************************************************************)
EXTENDS Integers, FiniteSetTheorems, WellFoundedInduction, TLAPS

(* A set of numbers that has 0 and the successor of each element is Nat.   *)
LEMMA InductionOverNat ==
  ASSUME NEW S \in SUBSET Nat, 0 \in S, \A n \in S : n + 1 \in S
  PROVE  S = Nat
<1> DEFINE Rel == OpToRel(<, Nat)
<1>1. IsWellFoundedOn(Rel, Nat)
  BY NatLessThanWellFounded
<1>2. \A m, n \in Nat : m < n => <<m, n>> \in Rel
  BY DEF OpToRel
<1> HIDE DEF Rel
<1> SUFFICES ASSUME Nat \ S # {} PROVE FALSE
  OBVIOUS
<1>3. PICK x \in Nat \ S : \A y \in Nat \ S : ~(<<y, x>> \in Rel)
  BY <1>1, WFMin
<1>4. x # 0 /\ x - 1 \in Nat
  BY <1>3
<1>5. <<x - 1, x>> \in Rel
  <2>1. x - 1 < x
    BY <1>3
  <2> QED BY <1>2, <1>4, <2>1
<1>6. x - 1 \in S
  BY <1>3, <1>4, <1>5
<1>7. (x - 1) + 1 = x
  BY <1>3
<1> QED BY <1>3, <1>6, <1>7

(* A set of numbers that is not empty has a least element, and if it is    *)
(* bounded a greatest one.                                                 *)
LEMMA LeastExists ==
  ASSUME NEW S \in SUBSET Nat, S # {}
  PROVE  \E x \in S : \A y \in S : x <= y
<1> SUFFICES ASSUME \A x \in S : \E y \in S : ~(x <= y) PROVE FALSE
  OBVIOUS
<1> DEFINE T == {n \in Nat : \A y \in S : n <= y}
<1>1. 0 \in T
  OBVIOUS
<1>2. ASSUME NEW n \in T PROVE n + 1 \in T
  <2>1. n \notin S
    BY <1>2
  <2> QED BY <2>1
<1>3. T = Nat
  <2>1. T \in SUBSET Nat
    OBVIOUS
  <2> HIDE DEF T
  <2> QED BY <1>1, <1>2, <2>1, InductionOverNat
<1>4. PICK x \in S : TRUE
  OBVIOUS
<1>5. x + 1 \in T
  <2> HIDE DEF T
  <2> QED BY <1>3
<1> QED BY <1>5

(* A bounded set of numbers that is not empty has a greatest member.       *)
LEMMA GreatestExists ==
  ASSUME NEW S \in SUBSET Nat, S # {}, NEW b \in Nat, \A y \in S : y <= b
  PROVE  \E x \in S : \A y \in S : y <= x
<1> DEFINE T == {b - y : y \in S}
<1>1. T \in SUBSET Nat /\ T # {}
  <2>1. \A y \in S : b - y \in Nat
    OBVIOUS
  <2> QED BY <2>1
<1>2. PICK t \in T : \A u \in T : t <= u
  <2> HIDE DEF T
  <2> QED BY <1>1, LeastExists
<1>3. PICK x \in S : t = b - x
  OBVIOUS
<1>4. \A y \in S : b - x <= b - y
  BY <1>2, <1>3
<1> QED BY <1>4

(* The elements of a finite set of numbers can be counted in their order:  *)
(* the k-th is the one with k - 1 smaller ones.                            *)
Smaller(S, n) == {m \in S : m < n}

(* The k-th member exists for every k up to their number.                  *)
LEMMA NthExists ==
  ASSUME NEW b \in Nat, NEW S \in SUBSET (0 .. b - 1), NEW k \in 1 .. Cardinality(S)
  PROVE  \E n \in S : Cardinality(Smaller(S, n)) = k - 1
<1> DEFINE Counted(U) == \A j \in 1 .. Cardinality(U) : \E n \in U : Cardinality(Smaller(U, n)) = j - 1
           T == {c \in Nat : \A U \in SUBSET (0 .. c - 1) : Counted(U)}
<1>1. 0 \in T
  <2> SUFFICES ASSUME NEW U \in SUBSET (0 .. 0 - 1), NEW j \in 1 .. Cardinality(U) PROVE FALSE
    OBVIOUS
  <2>1. U = {}
    OBVIOUS
  <2>2. Cardinality(U) = 0
    BY <2>1, FS_EmptySet, Zenon
  <2> QED BY <2>2
<1>2. ASSUME NEW c \in T PROVE c + 1 \in T
  <2> SUFFICES ASSUME NEW U \in SUBSET (0 .. c) PROVE Counted(U)
    BY (c + 1) - 1 = c
  <2> DEFINE V == U \ {c}
  <2>1. V \in SUBSET (0 .. c - 1) /\ IsFiniteSet(V) /\ IsFiniteSet(U) /\ Cardinality(V) \in Nat
    <3>1. V \in SUBSET (0 .. c - 1)
      OBVIOUS
    <3>2. IsFiniteSet(0 .. c) /\ IsFiniteSet(0 .. c - 1)
      BY FS_Interval
    <3> HIDE DEF V
    <3> QED BY <3>1, <3>2, FS_Subset, FS_CardinalityType
  <2>2. Counted(V)
    BY <2>1
  <2>3. \A n \in V : Smaller(U, n) = Smaller(V, n)
    BY DEF Smaller
  <2>4. CASE c \notin U
    <3>1. V = U
      BY <2>4
    <3> HIDE DEF V, Counted
    <3> QED BY <2>2, <3>1
  <2>5. CASE c \in U
    <3>1. Cardinality(V) = Cardinality(U) - 1 /\ Cardinality(U) \in Nat
      BY <2>1, <2>5, FS_RemoveElement, FS_CardinalityType
    <3>2. Smaller(U, c) = V
      <4>1. \A m \in U : m < c <=> m # c
        OBVIOUS
      <4> QED BY <4>1 DEF Smaller
    <3>3. ASSUME NEW j \in 1 .. Cardinality(U)
          PROVE  \E n \in U : Cardinality(Smaller(U, n)) = j - 1
      <4> HIDE DEF V
      <4>1. CASE j = Cardinality(U)
        <5>1. Cardinality(Smaller(U, c)) = j - 1
          <6>1. Cardinality(V) = j - 1
            BY <3>1, <4>1
          <6> QED BY <3>2, <6>1, Zenon
        <5> QED BY <2>5, <5>1
      <4>2. CASE j # Cardinality(U)
        <5>1. j \in 1 .. Cardinality(V)
          BY <3>1, <4>2
        <5>2. PICK n \in V : Cardinality(Smaller(V, n)) = j - 1
          BY <2>2, <5>1
        <5>3. Cardinality(Smaller(U, n)) = j - 1
          BY <2>3, <5>2, Zenon
        <5> QED BY <5>3 DEF V
      <4> QED BY <4>1, <4>2
    <3> QED BY <3>3
  <2> QED BY <2>4, <2>5
<1>3. T = Nat
  <2>1. T \in SUBSET Nat
    OBVIOUS
  <2> HIDE DEF T
  <2> QED BY <1>1, <1>2, <2>1, InductionOverNat
<1>4. b \in T
  <2> HIDE DEF T
  <2> QED BY <1>3
<1> QED BY <1>4

(* Every member is the k-th for one such k, and no other member is.        *)
LEMMA SmallerInRange ==
  ASSUME NEW S, IsFiniteSet(S), S \in SUBSET Nat, NEW n \in S
  PROVE  /\ Cardinality(Smaller(S, n)) + 1 \in 1 .. Cardinality(S)
         /\ \A m \in S : Cardinality(Smaller(S, m)) = Cardinality(Smaller(S, n)) => m = n
<1>1. ASSUME NEW m \in S, NEW l \in S, m < l
      PROVE  Cardinality(Smaller(S, m)) < Cardinality(Smaller(S, l))
  <2> DEFINE A == Smaller(S, m)  B == Smaller(S, l)
  <2>1. A \in SUBSET B /\ B \in SUBSET S /\ m \in B /\ m \notin A
    <3>1. \A x \in S : x < m => x < l
      BY <1>1
    <3>2. ~(m < m)
      OBVIOUS
    <3> QED BY <1>1, <3>1, <3>2 DEF Smaller
  <2> HIDE DEF A, B
  <2>2. IsFiniteSet(B)
    BY <2>1, FS_Subset
  <2>3. Cardinality(A) <= Cardinality(B) /\ (Cardinality(A) = Cardinality(B) => B = A) /\ IsFiniteSet(A)
    BY <2>1, <2>2, FS_Subset
  <2>4. Cardinality(A) # Cardinality(B)
    BY <2>1, <2>3
  <2>5. Cardinality(A) \in Nat /\ Cardinality(B) \in Nat
    BY <2>2, <2>3, FS_CardinalityType
  <2> QED BY <2>3, <2>4, <2>5 DEF A, B
<1>2. ASSUME NEW m \in S PROVE Cardinality(Smaller(S, m)) \in Nat /\ Cardinality(Smaller(S, m)) < Cardinality(S)
  <2> DEFINE A == Smaller(S, m)
  <2>1. A \in SUBSET S /\ m \notin A
    BY DEF Smaller
  <2> HIDE DEF A
  <2>2. Cardinality(A) <= Cardinality(S) /\ IsFiniteSet(A) /\ (Cardinality(S) = Cardinality(A) => S = A)
    BY <2>1, FS_Subset
  <2>3. Cardinality(A) # Cardinality(S)
    BY <2>1, <2>2
  <2>4. Cardinality(A) \in Nat /\ Cardinality(S) \in Nat
    BY <2>2, FS_CardinalityType
  <2> QED BY <2>2, <2>3, <2>4 DEF A
<1>3. ASSUME NEW m \in S, Cardinality(Smaller(S, m)) = Cardinality(Smaller(S, n)) PROVE m = n
  <2>1. m \in Nat /\ n \in Nat
    OBVIOUS
  <2>2. ~(m < n) /\ ~(n < m)
    BY <1>1, <1>2, <1>3
  <2> QED BY <2>1, <2>2
<1>4. Cardinality(S) \in Nat
  BY FS_CardinalityType
<1> QED BY <1>2, <1>3, <1>4
===============================================================================
