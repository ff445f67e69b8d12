----------------------------- MODULE ScannerProofs -----------------------------
(***************************************************************************)
(* Proofs about Scanner: the inductive invariant and the safety properties *)
(* of scanner.cfg, for any numbers of names, files and calls and for any   *)
(* bounds of the prefetching.                                              *)
(***************************************************************************)
EXTENDS Scanner, NatLemmas, SequenceTheorems, TLAPS

Queues == [source : Seq(Names), curDir : Seq(Places), cache : Seq(Places)]

-----------------------------------------------------------------------------
(* Sequences and their elements.                                           *)

(* The elements of two sequences in a row.                                 *)
LEMMA ToSetConcat ==
  ASSUME NEW S, NEW s \in Seq(S), NEW t \in Seq(S)
  PROVE  ToSet(s \o t) = ToSet(s) \cup ToSet(t)
<1> DEFINE u == s \o t
<1>1. /\ u \in Seq(S) /\ Len(u) = Len(s) + Len(t) /\ Len(s) \in Nat /\ Len(t) \in Nat
      /\ \A i \in 1 .. Len(s) + Len(t) : u[i] = IF i <= Len(s) THEN s[i] ELSE t[i - Len(s)]
  BY ConcatProperties
<1>2. DOMAIN u = 1 .. Len(s) + Len(t) /\ DOMAIN s = 1 .. Len(s) /\ DOMAIN t = 1 .. Len(t)
  BY <1>1
<1> HIDE DEF u
<1>3. ASSUME NEW i \in DOMAIN u PROVE u[i] \in ToSet(s) \cup ToSet(t)
  <2>1. CASE i <= Len(s)
    BY <1>1, <1>2, <2>1 DEF ToSet
  <2>2. CASE ~(i <= Len(s))
    <3>1. i - Len(s) \in DOMAIN t /\ u[i] = t[i - Len(s)]
      BY <1>1, <1>2, <2>2
    <3> QED BY <3>1 DEF ToSet
  <2> QED BY <2>1, <2>2
<1>4. ASSUME NEW i \in DOMAIN s PROVE s[i] \in ToSet(u)
  <2>1. i \in DOMAIN u /\ u[i] = s[i]
    BY <1>1, <1>2
  <2> QED BY <2>1 DEF ToSet
<1>5. ASSUME NEW i \in DOMAIN t PROVE t[i] \in ToSet(u)
  <2>1. i + Len(s) \in DOMAIN u /\ u[i + Len(s)] = t[(i + Len(s)) - Len(s)] /\ (i + Len(s)) - Len(s) = i
    BY <1>1, <1>2
  <2> QED BY <2>1 DEF ToSet
<1> QED BY <1>3, <1>4, <1>5 DEF ToSet, u

(* One element in front of, or behind, the others.                         *)
LEMMA ToSetOfOne ==
  ASSUME NEW e
  PROVE  ToSet(<<e>>) = {e} /\ ToSet(<<>>) = {}
BY DEF ToSet

(* Rows of files can be put together in any order.                         *)
LEMMA PlacesAssociate ==
  \A s, t, u \in Seq(Places) : s \o (t \o u) = (s \o t) \o u
BY ConcatAssociative

(* A sequence that is not empty is its head and its tail.                  *)
LEMMA HeadAndTail ==
  ASSUME NEW S, NEW s \in Seq(S), s # <<>>
  PROVE  /\ Head(s) \in S /\ Tail(s) \in Seq(S) /\ Len(Tail(s)) = Len(s) - 1
         /\ s = <<Head(s)>> \o Tail(s)
         /\ ToSet(s) = {Head(s)} \cup ToSet(Tail(s))
<1>1. Head(s) \in S /\ Tail(s) \in Seq(S) /\ Len(Tail(s)) = Len(s) - 1
      /\ \A i \in 1 .. Len(Tail(s)) : Tail(s)[i] = s[i + 1]
  BY HeadTailProperties
<1>2. Len(s) \in Nat /\ Len(s) >= 1 /\ <<Head(s)>> \in Seq(S) /\ Len(<<Head(s)>>) = 1 /\ Head(s) = s[1]
  BY <1>1
<1> DEFINE u == <<Head(s)>> \o Tail(s)
<1>3. u \in Seq(S) /\ Len(u) = Len(s)
      /\ \A i \in 1 .. Len(s) : u[i] = IF i <= 1 THEN <<Head(s)>>[i] ELSE Tail(s)[i - 1]
  <2>1. 1 + Len(Tail(s)) = Len(s)
    BY <1>1, <1>2
  <2> QED BY <1>1, <1>2, <2>1, ConcatProperties
<1> HIDE DEF u
<1>4. \A i \in 1 .. Len(s) : u[i] = s[i]
  <2> TAKE i \in 1 .. Len(s)
  <2>1. CASE i = 1
    BY <1>2, <1>3, <2>1
  <2>2. CASE i # 1
    <3>1. i - 1 \in 1 .. Len(Tail(s)) /\ (i - 1) + 1 = i /\ ~(i <= 1)
      BY <1>1, <1>2, <2>2
    <3> QED BY <1>1, <1>3, <3>1
  <2> QED BY <2>1, <2>2
<1>5. s = u
  BY <1>3, <1>4, SeqEqual
<1>6. ToSet(u) = ToSet(<<Head(s)>>) \cup ToSet(Tail(s))
  <2> DEFINE a == <<Head(s)>>  t == Tail(s)
  <2>1. a \in Seq(S) /\ t \in Seq(S)
    BY <1>1, <1>2
  <2>2. u = a \o t
    BY DEF u
  <2> HIDE DEF a, t
  <2>3. ToSet(a \o t) = ToSet(a) \cup ToSet(t)
    BY <2>1, ToSetConcat
  <2> QED BY <2>2, <2>3 DEF a, t
<1> QED BY <1>1, <1>5, <1>6, ToSetOfOne DEF u

(* The elements of a sequence with one more at its end.                    *)
LEMMA ToSetAppend ==
  ASSUME NEW S, NEW s \in Seq(S), NEW e \in S
  PROVE  ToSet(Append(s, e)) = ToSet(s) \cup {e}
<1>1. Append(s, e) = s \o <<e>> /\ <<e>> \in Seq(S)
  BY AppendIsConcat
<1>2. ToSet(s \o <<e>>) = ToSet(s) \cup ToSet(<<e>>)
  <2> DEFINE o == <<e>>
  <2>1. o \in Seq(S)
    BY <1>1
  <2> HIDE DEF o
  <2>2. ToSet(s \o o) = ToSet(s) \cup ToSet(o)
    BY <2>1, ToSetConcat
  <2> QED BY <2>2 DEF o
<1>3. ToSet(<<e>>) = {e}
  BY ToSetOfOne
<1> QED BY <1>1, <1>2, <1>3, Zenon

-----------------------------------------------------------------------------
(* The order of files.                                                     *)

(* Two ordered sequences in a row are ordered if the second comes after.   *)
LEMMA OrderedConcat ==
  ASSUME NEW s \in Seq(Places), NEW t \in Seq(Places)
  PROVE  Ordered(s \o t) <=> /\ Ordered(s) /\ Ordered(t)
                             /\ \A i \in DOMAIN s, j \in DOMAIN t : Before(s[i], t[j])
<1> DEFINE u == s \o t
<1>1. /\ Len(u) = Len(s) + Len(t) /\ Len(s) \in Nat /\ Len(t) \in Nat
      /\ \A i \in 1 .. Len(s) + Len(t) : u[i] = IF i <= Len(s) THEN s[i] ELSE t[i - Len(s)]
      /\ DOMAIN u = 1 .. Len(s) + Len(t) /\ DOMAIN s = 1 .. Len(s) /\ DOMAIN t = 1 .. Len(t)
  <2>1. u \in Seq(Places) /\ Len(u) = Len(s) + Len(t)
        /\ \A i \in 1 .. Len(s) + Len(t) : u[i] = IF i <= Len(s) THEN s[i] ELSE t[i - Len(s)]
    BY ConcatProperties
  <2> HIDE DEF u
  <2> QED BY <2>1
<1> HIDE DEF u
<1>2. \A i \in DOMAIN s : i \in DOMAIN u /\ u[i] = s[i]
  BY <1>1
<1>3. \A j \in DOMAIN t : j + Len(s) \in DOMAIN u /\ u[j + Len(s)] = t[j]
  <2> TAKE j \in DOMAIN t
  <2>1. j + Len(s) \in 1 .. Len(s) + Len(t) /\ ~(j + Len(s) <= Len(s)) /\ (j + Len(s)) - Len(s) = j
    BY <1>1
  <2> QED BY <1>1, <2>1
<1>4. ASSUME Ordered(u)
      PROVE  Ordered(s) /\ Ordered(t) /\ \A i \in DOMAIN s, j \in DOMAIN t : Before(s[i], t[j])
  <2>1. Ordered(s)
    BY <1>2, <1>4 DEF Ordered
  <2>2. Ordered(t)
    <3> SUFFICES ASSUME NEW i \in DOMAIN t, NEW j \in DOMAIN t, i < j PROVE Before(t[i], t[j])
      BY DEF Ordered
    <3>1. i + Len(s) < j + Len(s)
      BY <1>1
    <3> QED BY <1>3, <1>4, <3>1 DEF Ordered
  <2>3. ASSUME NEW i \in DOMAIN s, NEW j \in DOMAIN t PROVE Before(s[i], t[j])
    <3>1. i < j + Len(s)
      BY <1>1
    <3> QED BY <1>2, <1>3, <1>4, <3>1 DEF Ordered
  <2> QED BY <2>1, <2>2, <2>3
<1>5. ASSUME Ordered(s), Ordered(t), \A i \in DOMAIN s, j \in DOMAIN t : Before(s[i], t[j])
      PROVE  Ordered(u)
  <2> SUFFICES ASSUME NEW i \in DOMAIN u, NEW j \in DOMAIN u, i < j PROVE Before(u[i], u[j])
    BY DEF Ordered
  <2>1. CASE j <= Len(s)
    <3>1. i \in DOMAIN s /\ j \in DOMAIN s
      BY <1>1, <2>1
    <3> QED BY <1>2, <1>5, <3>1 DEF Ordered
  <2>2. CASE ~(j <= Len(s)) /\ i <= Len(s)
    <3>1. i \in DOMAIN s /\ j - Len(s) \in DOMAIN t /\ u[j] = t[j - Len(s)]
      BY <1>1, <2>2
    <3> QED BY <1>2, <1>5, <3>1
  <2>3. CASE ~(i <= Len(s))
    <3>1. /\ i - Len(s) \in DOMAIN t /\ u[i] = t[i - Len(s)]
          /\ j - Len(s) \in DOMAIN t /\ u[j] = t[j - Len(s)] /\ i - Len(s) < j - Len(s)
      BY <1>1, <2>3
    <3> QED BY <1>5, <3>1 DEF Ordered
  <2> QED BY <2>1, <2>2, <2>3
<1> QED BY <1>4, <1>5 DEF u

(* Continues in terms of elements: nothing is said of where they are.      *)
LEMMA ContinuesMeans ==
  ASSUME NEW names \in Seq(Names), NEW line \in Seq(Places)
  PROVE  Continues(names, line) <=>
           /\ Ordered(line)
           /\ \A f \in ToSet(line), n \in ToSet(names) : f[1] < n.id
           /\ \A m, n \in DOMAIN names : m < n => names[m].id < names[n].id
BY DEF Continues, ToSet

(* The files of a name: all of it, in order.                               *)
LEMMA FilesOfName ==
  ASSUME NEW n \in Names
  PROVE  /\ Files(n) \in Seq(Places) /\ Len(Files(n)) = n.files /\ Ordered(Files(n))
         /\ \A f \in ToSet(Files(n)) : f[1] = n.id
         /\ n.files > 0 <=> Files(n) # <<>>
<1>1. n.id \in 1 .. MaxNames /\ n.files \in 0 .. MaxFiles /\ n.files \in Nat
  BY ScannerAssumption DEF Names
<1>2. \A k \in 1 .. n.files : <<n.id, k>> \in Places
  BY <1>1, ScannerAssumption DEF Places
<1>3. Files(n) \in Seq(Places) /\ DOMAIN Files(n) = 1 .. n.files /\ Len(Files(n)) = n.files
  BY <1>1, <1>2 DEF Files
<1>4. \A k \in 1 .. n.files : Files(n)[k] = <<n.id, k>>
  BY DEF Files
<1>5. Ordered(Files(n))
  BY <1>1, <1>3, <1>4 DEF Ordered, Before
<1>6. \A f \in ToSet(Files(n)) : f[1] = n.id
  BY <1>3, <1>4 DEF ToSet
<1>7. n.files > 0 <=> Files(n) # <<>>
  BY <1>1, <1>3
<1> QED BY <1>3, <1>5, <1>6, <1>7

-----------------------------------------------------------------------------
(* The queue: what a turn of the prefetching leaves as it is.              *)

Line(q, done) == done \o (q.cache \o q.curDir)

(* Names and files go on from q to p, none is lost and none changes place. *)
Reaches(q, p) ==
  /\ p \in Queues /\ FilesOf(p) = FilesOf(q)
  /\ ToSet(p.source) \subseteq ToSet(q.source)
  /\ p.source # <<>> => q.source # <<>> /\ Last(p.source) = Last(q.source)
  /\ \A done \in Seq(Places) :
       Continues(q.source, Line(q, done)) => Continues(p.source, Line(p, done))

(* Opening: the first name with files is the open directory, the names     *)
(* before it had none.                                                     *)
LEMMA OpenReaches ==
  ASSUME NEW q \in Queues, ~Exhausted(q)
  PROVE  Reaches(q, Open(q)) /\ Open(q).curDir # <<>> /\ Open(q).cache = q.cache
<1>1. CASE q.curDir # <<>>
  <2>1. Open(q) = q
    BY <1>1 DEF Open
  <2> QED BY <1>1, <2>1 DEF Reaches
<1>2. CASE q.curDir = <<>>
  <2> DEFINE s == q.source  i == Min(Holding(q))  t == SubSeq(s, i + 1, Len(s))  f == Files(s[i])
             o == Open(q)
  <2>1. s \in Seq(Names) /\ Len(s) \in Nat /\ DOMAIN s = 1 .. Len(s)
        /\ q.curDir \in Seq(Places) /\ q.cache \in Seq(Places)
    BY DEF Queues
  <2>2. i \in Holding(q) /\ \A j \in Holding(q) : i <= j
    <3>1. Holding(q) # {} /\ Holding(q) \in SUBSET Nat
      BY <1>2, <2>1 DEF Exhausted, Holding
    <3> DEFINE H == Holding(q)
    <3> HIDE DEF H
    <3>2. \E x \in H : \A y \in H : x <= y
      BY <3>1, LeastExists DEF H
    <3>3. Min(H) \in H /\ \A j \in H : Min(H) <= j
      BY <3>2 DEF Min
    <3> QED BY <3>3 DEF H
  <2>3. i \in 1 .. Len(s) /\ s[i].files > 0
    BY <2>1, <2>2 DEF Holding
  <2>5. o = [q EXCEPT !.source = t, !.curDir = f]
    BY <1>2 DEF Open
  <2> HIDE DEF i
  <2>4. \A j \in 1 .. Len(s) : j < i => ~(s[j].files > 0)
    <3> SUFFICES ASSUME NEW j \in 1 .. Len(s), j < i, s[j].files > 0 PROVE FALSE
      OBVIOUS
    <3>1. j \in Holding(q)
      BY <2>1 DEF Holding
    <3> QED BY <2>2, <2>3, <3>1
  <2>6. t \in Seq(Names) /\ Len(t) = Len(s) - i /\ Len(t) \in Nat /\ DOMAIN t = 1 .. Len(t)
        /\ \A j \in 1 .. Len(t) : t[j] = s[j + i]
    <3>1. \A j \in i + 1 .. Len(s) : s[j] \in Names
      BY <2>1, <2>3
    <3>2. t \in Seq(Names) /\ Len(t) = (IF i + 1 <= Len(s) THEN Len(s) - (i + 1) + 1 ELSE 0)
          /\ \A j \in 1 .. Len(s) - (i + 1) + 1 : t[j] = s[(i + 1) + j - 1]
      BY <2>1, <2>3, <3>1, SubSeqProperties
    <3>3. Len(t) = Len(s) - i
      BY <2>1, <2>3, <3>2
    <3>4. \A j \in 1 .. Len(t) : t[j] = s[j + i]
      <4> TAKE j \in 1 .. Len(t)
      <4>1. j \in 1 .. Len(s) - (i + 1) + 1 /\ (i + 1) + j - 1 = j + i
        BY <2>1, <2>3, <3>3
      <4> QED BY <3>2, <4>1
    <3> HIDE DEF t
    <3> QED BY <2>1, <2>3, <3>2, <3>3, <3>4
  <2>6a. \A j \in DOMAIN t : j + i \in DOMAIN s /\ t[j] = s[j + i]
    <3> HIDE DEF t
    <3> TAKE j \in DOMAIN t
    <3>1. j \in 1 .. Len(t) /\ j + i \in 1 .. Len(s)
      BY <2>1, <2>3, <2>6
    <3> QED BY <2>1, <2>6, <3>1
  <2>7. s[i] \in Names /\ f \in Seq(Places) /\ f # <<>> /\ Ordered(f)
        /\ \A e \in ToSet(f) : e[1] = s[i].id
    <3>1. s[i] \in Names
      BY <2>1, <2>3
    <3> QED BY <2>3, <3>1, FilesOfName
  <2> HIDE DEF t, f
  <2>8. o \in Queues /\ o.source = t /\ o.curDir = f /\ o.cache = q.cache
    <3> HIDE DEF o
    <3> QED BY <2>5, <2>6, <2>7 DEF Queues
  <2> HIDE DEF o
  <2>9. FilesOf(o) = FilesOf(q)
    <3>1. \A n \in ToSet(t) : n \in ToSet(s)
      BY <2>6a DEF ToSet
    <3>2. ASSUME NEW n \in ToSet(s), NEW e \in ToSet(Files(n))
          PROVE  n \in ToSet(t) \/ e \in ToSet(f)
      <4>1. PICK j \in 1 .. Len(s) : n = s[j]
        BY <2>1 DEF ToSet
      <4>2. CASE j < i
        <5>1. n \in Names /\ ~(n.files > 0)
          BY <2>1, <2>4, <4>1, <4>2
        <5>2. Files(n) = <<>>
          BY <5>1, FilesOfName
        <5> QED BY <3>2, <5>2, ToSetOfOne
      <4>3. CASE j = i
        BY <3>2, <4>1, <4>3 DEF f
      <4>4. CASE j > i
        <5>1. j - i \in 1 .. Len(t) /\ t[j - i] = s[(j - i) + i] /\ (j - i) + i = j
          BY <2>1, <2>3, <2>6, <4>4
        <5> QED BY <2>6, <4>1, <5>1 DEF ToSet
      <4> QED BY <2>3, <4>2, <4>3, <4>4
    <3>3. s[i] \in ToSet(s) /\ f = Files(s[i])
      BY <2>1, <2>3 DEF ToSet, f
    <3>4. ToSet(q.curDir) = {}
      BY <1>2, ToSetOfOne
    <3>5. UNION {ToSet(Files(n)) : n \in ToSet(s)} = ToSet(f) \cup UNION {ToSet(Files(n)) : n \in ToSet(t)}
      BY <3>1, <3>2, <3>3
    <3> QED BY <2>8, <3>4, <3>5 DEF FilesOf, s
  <2>10. ToSet(t) \subseteq ToSet(s) /\ (t # <<>> => s # <<>> /\ Last(t) = Last(s))
    <3>1. ToSet(t) \subseteq ToSet(s)
      BY <2>6a DEF ToSet
    <3>2. ASSUME t # <<>> PROVE s # <<>> /\ Last(t) = Last(s)
      <4>1. Len(t) \in 1 .. Len(t) /\ Len(t) + i = Len(s) /\ Len(s) # 0
        BY <2>1, <2>3, <2>6, <3>2
      <4>2. t[Len(t)] = s[Len(s)]
        BY <2>6, <4>1
      <4> QED BY <4>1, <4>2 DEF Last
    <3> QED BY <3>1, <3>2
  <2>11. ASSUME NEW done \in Seq(Places), Continues(s, Line(q, done))
         PROVE  Continues(t, Line(o, done))
    <3> DEFINE b == done \o q.cache
    <3>1. b \in Seq(Places) /\ Line(q, done) = b /\ Line(o, done) = b \o f
      <4>1. b \in Seq(Places)
        BY <2>1, ConcatProperties
      <4>2. q.cache \o q.curDir = q.cache
        BY <1>2, <2>1, ConcatEmptySeq
      <4>3. done \o (q.cache \o f) = (done \o q.cache) \o f
        BY <2>1, <2>7, PlacesAssociate, Zenon
      <4> QED BY <2>8, <4>1, <4>2, <4>3 DEF Line
    <3> HIDE DEF b
    <3>2. Ordered(b) /\ (\A e \in ToSet(b), n \in ToSet(s) : e[1] < n.id)
          /\ \A m, n \in DOMAIN s : m < n => s[m].id < s[n].id
      BY <2>1, <2>11, <3>1, ContinuesMeans
    <3>3. s[i] \in ToSet(s)
      BY <2>1, <2>3 DEF ToSet
    <3>4. Ordered(b \o f)
      <4> SUFFICES ASSUME NEW k \in DOMAIN b, NEW j \in DOMAIN f PROVE Before(b[k], f[j])
        BY <2>7, <3>1, <3>2, OrderedConcat
      <4>1. b[k] \in ToSet(b) /\ f[j] \in ToSet(f)
        BY DEF ToSet
      <4>2. b[k][1] < s[i].id /\ f[j][1] = s[i].id
        BY <2>7, <3>2, <3>3, <4>1
      <4> QED BY <4>2 DEF Before
    <3>5. \A m, n \in DOMAIN t : m < n => t[m].id < t[n].id
      <4> TAKE m, n \in DOMAIN t
      <4> HAVE m < n
      <4>1. m + i < n + i
        BY <2>3, <2>6
      <4> QED BY <2>6a, <3>2, <4>1
    <3>6. ASSUME NEW e \in ToSet(b \o f), NEW n \in ToSet(t) PROVE e[1] < n.id
      <4>1. CASE e \in ToSet(b)
        BY <2>10, <3>2, <4>1
      <4>2. CASE e \in ToSet(f)
        <5>1. PICK j \in DOMAIN t : n = t[j]
          BY DEF ToSet
        <5>2. j + i \in DOMAIN s /\ i \in DOMAIN s /\ i < j + i /\ t[j] = s[j + i]
          <6>1. j + i \in DOMAIN s /\ t[j] = s[j + i]
            BY <2>6a
          <6>2. i \in DOMAIN s /\ i \in Nat
            BY <2>1, <2>3
          <6>3. j \in Nat \ {0}
            BY <2>6
          <6> QED BY <6>1, <6>2, <6>3
        <5>3. s[i].id < s[j + i].id
          BY <3>2, <5>2
        <5> QED BY <2>7, <4>2, <5>1, <5>2, <5>3
      <4>3. e \in ToSet(b) \/ e \in ToSet(f)
        BY <2>7, <3>1, ToSetConcat
      <4> QED BY <4>1, <4>2, <4>3
    <3>7. b \o f \in Seq(Places)
      BY <2>7, <3>1, ConcatProperties
    <3> QED BY <2>6, <3>1, <3>4, <3>5, <3>6, <3>7, ContinuesMeans
  <2>12. Reaches(q, o)
    BY <2>8, <2>9, <2>10, <2>11 DEF Reaches, s
  <2> QED BY <2>7, <2>8, <2>12 DEF o
<1> QED BY <1>1, <1>2

(* Fetching: the first file of the open directory becomes the last of the  *)
(* cache.                                                                  *)
LEMMA FetchReaches ==
  ASSUME NEW q \in Queues, ~Exhausted(q)
  PROVE  Reaches(q, Fetch(q)) /\ Len(Fetch(q).cache) = Len(q.cache) + 1
<1> DEFINE o == Open(q)  h == Head(o.curDir)  p == Fetch(q)
<1>1. Reaches(q, o) /\ o.curDir # <<>> /\ o.cache = q.cache
  BY OpenReaches
<1>2. p = [o EXCEPT !.cache = Append(@, h), !.curDir = Tail(@)]
  BY DEF Fetch
<1> HIDE DEF o
<1>3. o \in Queues /\ o.curDir \in Seq(Places) /\ o.cache \in Seq(Places)
  BY <1>1 DEF Reaches, Queues
<1>4. h \in Places /\ Tail(o.curDir) \in Seq(Places) /\ o.curDir = <<h>> \o Tail(o.curDir)
      /\ ToSet(o.curDir) = {h} \cup ToSet(Tail(o.curDir))
  BY <1>1, <1>3, HeadAndTail
<1> HIDE DEF h
<1>5. /\ Append(o.cache, h) \in Seq(Places) /\ Len(Append(o.cache, h)) = Len(o.cache) + 1
      /\ Append(o.cache, h) = o.cache \o <<h>> /\ ToSet(Append(o.cache, h)) = ToSet(o.cache) \cup {h}
      /\ <<h>> \in Seq(Places)
  <2>1. Append(o.cache, h) \in Seq(Places) /\ Len(Append(o.cache, h)) = Len(o.cache) + 1
    BY <1>3, <1>4, AppendProperties
  <2>2. Append(o.cache, h) = o.cache \o <<h>>
    BY <1>3, <1>4, AppendIsConcat
  <2>3. ToSet(Append(o.cache, h)) = ToSet(o.cache) \cup {h}
    BY <1>3, <1>4, ToSetAppend
  <2> QED BY <1>4, <2>1, <2>2, <2>3
<1>6. /\ p \in Queues /\ p.source = o.source /\ p.curDir = Tail(o.curDir)
      /\ p.cache = Append(o.cache, h)
  <2> HIDE DEF p
  <2> QED BY <1>2, <1>3, <1>4, <1>5 DEF Queues
<1> HIDE DEF p
<1>7. p.cache \o p.curDir = o.cache \o o.curDir
  <2>1. p.cache \o p.curDir = (o.cache \o <<h>>) \o Tail(o.curDir)
    BY <1>5, <1>6
  <2>2. o.cache \o (<<h>> \o Tail(o.curDir)) = (o.cache \o <<h>>) \o Tail(o.curDir)
    BY <1>3, <1>4, <1>5, PlacesAssociate, Zenon
  <2> QED BY <1>4, <2>1, <2>2, Zenon
<1>8. FilesOf(p) = FilesOf(o)
  <2>1. ToSet(p.cache) \cup ToSet(p.curDir) = ToSet(o.cache) \cup ToSet(o.curDir)
    BY <1>4, <1>5, <1>6
  <2> QED BY <1>6, <2>1 DEF FilesOf
<1>9. \A done \in Seq(Places) : Line(p, done) = Line(o, done)
  BY <1>7 DEF Line
<1>10. Reaches(q, p)
  BY <1>1, <1>6, <1>8, <1>9 DEF Reaches
<1> QED BY <1>1, <1>5, <1>6, <1>10 DEF p

(* Reaching goes on: after a turn, and after two.                          *)
LEMMA ReachesTransitive ==
  ASSUME NEW q, NEW p, NEW r, Reaches(q, p), Reaches(p, r)
  PROVE  Reaches(q, r)
<1>1. r \in Queues /\ FilesOf(r) = FilesOf(q) /\ ToSet(r.source) \subseteq ToSet(q.source)
  BY DEF Reaches
<1>2. r.source # <<>> => q.source # <<>> /\ Last(r.source) = Last(q.source)
  BY DEF Reaches
<1>3. \A done \in Seq(Places) : Continues(q.source, Line(q, done)) => Continues(r.source, Line(r, done))
  BY DEF Reaches
<1> QED BY <1>1, <1>2, <1>3, Zenon DEF Reaches

(* The turns exist: each follows from the one before it.                   *)
LEMMA TurnsDefined ==
  ASSUME NEW q, NEW bound \in Nat
  PROVE  /\ Turns(q, bound)[0] = q
         /\ \A n \in 1 .. bound : Turns(q, bound)[n] = Turn(Turns(q, bound)[n - 1], bound)
<1> DEFINE IsTurns(f, k) == f = [n \in 0 .. k |-> IF n = 0 THEN q ELSE Turn(f[n - 1], bound)]
           S == {k \in Nat : \E f : IsTurns(f, k)}
<1>1. 0 \in S
  <2>1. IsTurns([n \in 0 .. 0 |-> q], 0)
    OBVIOUS
  <2> QED BY <2>1
<1>2. ASSUME NEW k \in S PROVE k + 1 \in S
  <2>1. PICK f : IsTurns(f, k)
    OBVIOUS
  <2> DEFINE g == [n \in 0 .. k + 1 |-> IF n = k + 1 THEN Turn(f[k], bound) ELSE f[n]]
  <2>2. ASSUME NEW n \in 0 .. k + 1 PROVE g[n] = IF n = 0 THEN q ELSE Turn(g[n - 1], bound)
    <3>1. CASE n = k + 1
      <4>1. g[k] = f[k] /\ (k + 1) - 1 = k /\ k + 1 # 0
        OBVIOUS
      <4> QED BY <3>1, <4>1
    <3>2. CASE n \in 0 .. k
      <4>1. f[n] = IF n = 0 THEN q ELSE Turn(f[n - 1], bound)
        BY <2>1, <3>2
      <4>2. g[n] = f[n] /\ (n # 0 => g[n - 1] = f[n - 1])
        BY <3>2
      <4> QED BY <4>1, <4>2
    <3> QED BY <3>1, <3>2
  <2>3. IsTurns(g, k + 1)
    BY <2>2
  <2> HIDE DEF g, IsTurns
  <2> QED BY <2>3
<1>3. S = Nat
  <2> HIDE DEF S
  <2>1. S \in SUBSET Nat
    BY DEF S
  <2> QED BY <1>1, <1>2, <2>1, InductionOverNat
<1>4. \E f : IsTurns(f, bound)
  BY <1>3
<1> DEFINE f == Turns(q, bound)
<1>5. IsTurns(f, bound)
  BY <1>4 DEF Turns
<1> HIDE DEF f
<1>6. f[0] = q
  BY <1>5
<1>7. ASSUME NEW n \in 1 .. bound PROVE f[n] = Turn(f[n - 1], bound)
  <2>1. n \in 0 .. bound /\ n # 0
    OBVIOUS
  <2> QED BY <1>5, <2>1
<1> QED BY <1>6, <1>7 DEF f

(* Filling: there are as many as wanted, or no file is left.               *)
LEMMA FillReaches ==
  ASSUME NEW q \in Queues, NEW bound \in Nat, Len(q.cache) <= bound
  PROVE  /\ Reaches(q, Fill(q, bound))
         /\ Len(Fill(q, bound).cache) <= bound
         /\ Len(Fill(q, bound).cache) >= bound \/ Exhausted(Fill(q, bound))
         /\ Fill(q, bound) = q \/ Fill(q, bound).cache # <<>>
<1> DEFINE f == Turns(q, bound)
           Good(p, k) ==
             /\ Reaches(q, p) /\ Len(p.cache) <= bound
             /\ Exhausted(p) \/ Len(p.cache) >= bound \/ Len(p.cache) = Len(q.cache) + k
             /\ p = q \/ p.cache # <<>>
           S == {k \in Nat : k <= bound => Good(f[k], k)}
<1>1. f[0] = q /\ \A n \in 1 .. bound : f[n] = Turn(f[n - 1], bound)
  BY TurnsDefined
<1> HIDE DEF f
<1>2. Len(q.cache) \in Nat /\ Reaches(q, q)
  BY DEF Queues, Reaches
<1>3. 0 \in S
  BY <1>1, <1>2
<1>4. ASSUME NEW k \in S PROVE k + 1 \in S
  <2>0. k \in Nat /\ k + 1 \in Nat
    OBVIOUS
  <2> HIDE DEF Good
  <2> SUFFICES ASSUME k + 1 <= bound PROVE Good(f[k + 1], k + 1)
    BY <2>0
  <2> DEFINE p == f[k]
  <2>1. f[k + 1] = Turn(p, bound)
    <3>1. k + 1 \in 1 .. bound /\ (k + 1) - 1 = k
      OBVIOUS
    <3> QED BY <1>1, <3>1
  <2>2. Good(p, k)
    BY <2>0
  <2> HIDE DEF p, S
  <2> USE DEF Good
  <2>3. p \in Queues /\ Len(p.cache) \in Nat
    BY <2>2 DEF Reaches, Queues
  <2>4. CASE Len(p.cache) < bound /\ ~Exhausted(p)
    <3> DEFINE r == Fetch(p)
    <3>1. Reaches(p, r) /\ Len(r.cache) = Len(p.cache) + 1
      BY <2>3, <2>4, FetchReaches
    <3>2. Turn(p, bound) = r
      BY <2>4 DEF Turn
    <3> HIDE DEF r
    <3>3. Reaches(q, r)
      BY <2>2, <3>1, ReachesTransitive
    <3>4. r.cache # <<>>
      <4>1. Len(r.cache) # 0
        BY <2>3, <3>1
      <4> QED BY <4>1
    <3>5. Len(p.cache) = Len(q.cache) + k
      BY <2>2, <2>3, <2>4
    <3>6. Len(r.cache) <= bound /\ Len(r.cache) = Len(q.cache) + (k + 1)
      <4> DEFINE a == Len(p.cache)  b == Len(q.cache)  c == Len(r.cache)
      <4>1. a \in Nat /\ b \in Nat /\ c = a + 1 /\ a = b + k /\ a < bound
        BY <1>2, <2>3, <2>4, <3>1, <3>5
      <4> HIDE DEF a, b, c
      <4>2. c <= bound /\ c = b + (k + 1)
        BY <2>0, <4>1
      <4> QED BY <4>2 DEF a, b, c
    <3>7. Good(r, k + 1)
      BY <3>3, <3>4, <3>6
    <3> QED BY <2>1, <3>2, <3>7
  <2>5. CASE ~(Len(p.cache) < bound /\ ~Exhausted(p))
    <3>1. Turn(p, bound) = p
      BY <2>5 DEF Turn
    <3>2. Good(p, k + 1)
      BY <2>2, <2>3, <2>5
    <3> QED BY <2>1, <3>1, <3>2
  <2> QED BY <2>4, <2>5
<1>5. S = Nat
  <2>1. S \in SUBSET Nat
    OBVIOUS
  <2> HIDE DEF S
  <2> QED BY <1>3, <1>4, <2>1, InductionOverNat
<1>6. Good(f[bound], bound)
  BY <1>5
<1>7. f[bound] = Fill(q, bound)
  BY DEF Fill, f
<1>8. Len(f[bound].cache) >= bound \/ Exhausted(f[bound])
  BY <1>2, <1>6
<1> QED BY <1>6, <1>7, <1>8

(* Prefetching changes nothing but where the files wait.  Whoever asks a   *)
(* queue that is not empty gets a file, and else the last name has none.   *)
LEMMA PrefetchReaches ==
  ASSUME NEW q \in Queues, Len(q.cache) < UpperBound
  PROVE  /\ Reaches(q, Prefetch(q)) /\ Len(Prefetch(q).cache) <= UpperBound
         /\ ~QueueEmpty(q) /\ ~Underflow(q) => Prefetch(q).cache # <<>>
         /\ Underflow(q) => q.source # <<>> /\ Last(q.source).files = 0
<1> DEFINE p == Prefetch(q)  r == Fill(q, UpperBound)
<1>1. Len(q.cache) \in Nat /\ q.cache \in Seq(Places) /\ UpperBound \in Nat /\ LowerBound \in Nat \ {0}
      /\ LowerBound <= UpperBound
  BY ScannerAssumption DEF Queues
<1>2. CASE ~Fetches(q)
  <2>1. p = q /\ ~Underflow(q) /\ Reaches(q, q)
    BY <1>2 DEF Prefetch, Underflow, Reaches
  <2>2. q.cache # <<>>
    <3>1. Len(q.cache) # 0
      BY <1>1, <1>2 DEF Fetches
    <3> QED BY <3>1
  <2> QED BY <1>1, <2>1, <2>2
<1>3. CASE Fetches(q)
  <2>1. p = r
    BY <1>3 DEF Prefetch
  <2>2. /\ Reaches(q, r) /\ Len(r.cache) <= UpperBound
        /\ Len(r.cache) >= UpperBound \/ Exhausted(r)
        /\ r = q \/ r.cache # <<>>
    <3>1. Len(q.cache) <= UpperBound
      BY <1>1
    <3> QED BY <1>1, <3>1, FillReaches
  <2> HIDE DEF p, r
  <2>3. r \in Queues /\ Len(r.cache) \in Nat /\ r.source \in Seq(Names)
    BY <2>2 DEF Reaches, Queues
  <2>4. ASSUME r.cache = <<>>, ~QueueEmpty(q) PROVE Underflow(q)
    <3>1. r = q
      BY <2>2, <2>4
    <3>2. ~ResolvedEmpty(q)
      BY <2>4, <3>1 DEF QueueEmpty
    <3>3. Len(r.cache) < UpperBound
      BY <1>1, <2>4
    <3> QED BY <1>3, <2>1, <3>1, <3>2, <3>3 DEF Underflow, p
  <2>5. ASSUME Underflow(q) PROVE q.source # <<>> /\ Last(q.source).files = 0
    <3>1. Len(r.cache) < UpperBound /\ ~ResolvedEmpty(r)
      BY <2>1, <2>5 DEF Underflow, p
    <3>2. Exhausted(r)
      BY <1>1, <2>2, <2>3, <3>1
    <3>3. r.source # <<>> /\ Holding(r) = {}
      BY <3>1, <3>2 DEF Exhausted, ResolvedEmpty
    <3>4. Len(r.source) \in DOMAIN r.source /\ r.source[Len(r.source)] \in Names
      BY <2>3, <3>3
    <3>5. ~(r.source[Len(r.source)].files > 0)
      BY <3>3, <3>4 DEF Holding
    <3>6. r.source[Len(r.source)].files \in Nat
      BY <3>4, ScannerAssumption DEF Names
    <3>7. Last(r.source).files = 0
      BY <3>5, <3>6 DEF Last
    <3>8. q.source # <<>> /\ Last(r.source) = Last(q.source)
      BY <2>2, <3>3 DEF Reaches
    <3> QED BY <3>7, <3>8
  <2> QED BY <2>1, <2>2, <2>4, <2>5 DEF p
<1> QED BY <1>2, <1>3

-----------------------------------------------------------------------------
(* The invariant.                                                          *)

(* At first there is nothing.                                              *)
LEMMA InitHolds == Init => IInv
<1> SUFFICES ASSUME Init PROVE IInv
  OBVIOUS
<1> USE ScannerAssumption
<1>1. queue \in Queues /\ Len(queue.cache) = 0
  BY DEF Init, EmptyQueue, Queues
<1>2. TypeOK
  <2>1. Len(queue.cache) < UpperBound
    BY <1>1
  <2>2. gcall \in Names \cup {NoName} /\ file \in Places \cup {NoFile} /\ scanned \in Seq(Places)
        /\ signals \in Seq({"ScanStarted", "ScanStopped"})
    BY DEF Init
  <2>3. queue \in [source : Seq(Names), curDir : Seq(Places), cache : Seq(Places)]
    BY <1>1 DEF Queues
  <2>3a. checked \in BOOLEAN
    BY DEF Init
  <2>4. /\ session \in Nat /\ target \in 0 .. session
        /\ calls \in 0 .. MaxCalls /\ added \in 0 .. MaxNames
        /\ expected \subseteq Places /\ dropped \subseteq Places /\ late \subseteq Places
        /\ event = "NONE" /\ spc = "none" /\ why = "none" /\ gpc = "idle"
    BY DEF Init
  <2> QED BY <2>1, <2>2, <2>3, <2>3a, <2>4 DEF TypeOK
<1>3. Taken = <<>> /\ FilesOf(queue) = {} /\ ToSet(queue.source) = {} /\ queue.source = <<>>
  BY DEF Init, Taken, FilesOf, EmptyQueue, ToSet
<1>4. Taken \o (queue.cache \o queue.curDir) = <<>>
  <2>1. queue.cache = <<>> /\ queue.curDir = <<>>
    BY DEF Init, EmptyQueue
  <2>2. <<>> \in Seq(Places)
    OBVIOUS
  <2>3. <<>> \o <<>> = <<>>
    BY <2>2, ConcatEmptySeq
  <2> QED BY <1>3, <2>1, <2>3
<1>5. OrderInv
  <2>1. Continues(<<>>, <<>>)
    BY DEF Continues, Ordered
  <2>2. ToSet(Taken) = {}
    BY <1>3, ToSetOfOne
  <2> QED BY <1>3, <1>4, <2>1, <2>2 DEF OrderInv
<1>6. ControlInv /\ AddInv /\ PlaceInv /\ LateInv /\ CrashOnlyByEmptyDir
  BY <1>3 DEF Init, ControlInv, AddInv, PlaceInv, LateInv, CrashOnlyByEmptyDir, Ending
<1> QED BY <1>2, <1>5, <1>6 DEF IInv

(* What says nothing of the GUI stays if the queue and the histories do.   *)
LEMMA QueueUntouched ==
  ASSUME IInv, UNCHANGED <<queue, file, scanned, dropped, addVars>>
  PROVE  OrderInv' /\ PlaceInv'
<1>1. OrderInv'
  BY DEF IInv, OrderInv, Taken, Given, addVars
<1>2. PlaceInv'
  BY DEF IInv, PlaceInv, addVars
<1> QED BY <1>1, <1>2

-----------------------------------------------------------------------------
(* The GUI's steps.                                                        *)

(* AddItems names what is added next.                                      *)
LEMMA AddItemsKeeps ==
  ASSUME IInv, spc # "crashed", NEW dir \in BOOLEAN, NEW files \in 0 .. MaxFiles, AddItems(dir, files)
  PROVE  IInv'
<1> USE ScannerAssumption
<1>1. /\ gpc = "idle" /\ gpc' = "add" /\ added < MaxNames /\ target' = session
      /\ gcall' = [id |-> added + 1, dir |-> dir, files |-> files]
      /\ UNCHANGED <<queue, session, event, spc, why, file, signals, checked, calls, added,
                     expected, late, scanned, dropped>>
  BY DEF AddItems, Step, jobVars, addVars
<1>2. TypeOK /\ ControlInv /\ LateInv
  BY DEF IInv
<1>3. gcall' \in Names /\ gcall'.id = added + 1
  BY <1>1, <1>2 DEF TypeOK, Names
<1>4. TypeOK'
  BY <1>1, <1>2, <1>3 DEF TypeOK
<1>5. OrderInv' /\ PlaceInv'
  BY <1>1, QueueUntouched DEF addVars
<1>6. ControlInv' /\ LateInv' /\ AddInv' /\ CrashOnlyByEmptyDir'
  BY <1>1, <1>2, <1>3 DEF ControlInv, LateInv, AddInv, CrashOnlyByEmptyDir, Ending
<1> QED BY <1>4, <1>5, <1>6 DEF IInv

(* The buttons.                                                            *)
LEMMA ControlKeeps ==
  ASSUME IInv, spc # "crashed", NEW o, Control(o)
  PROVE  IInv'
<1> USE ScannerAssumption
<1>1. /\ gpc = "idle" /\ gpc' \in {"pause", "start", "stop"} /\ calls < MaxCalls /\ calls' = calls + 1
      /\ UNCHANGED <<queue, session, event, spc, why, file, gcall, target, signals, added,
                     expected, late, scanned, dropped>>
  BY DEF Control, Step, jobVars, addVars
<1>2. TypeOK /\ ControlInv /\ LateInv
  BY DEF IInv
<1>3. TypeOK'
  <2>1. checked' \in BOOLEAN
    BY <1>2 DEF Control, TypeOK
  <2> QED BY <1>1, <1>2, <2>1 DEF TypeOK
<1>4. OrderInv' /\ PlaceInv'
  BY <1>1, QueueUntouched DEF addVars
<1>5. ControlInv' /\ LateInv' /\ AddInv' /\ CrashOnlyByEmptyDir'
  BY <1>1, <1>2 DEF ControlInv, LateInv, AddInv, CrashOnlyByEmptyDir, Ending
<1> QED BY <1>3, <1>4, <1>5 DEF IInv

(* A signal for the widget.                                                *)
LEMMA DeliverKeeps ==
  ASSUME IInv, spc # "crashed", Deliver
  PROVE  IInv'
<1>1. /\ gpc = "idle" /\ gpc' \in {"idle", "start"} /\ signals # <<>> /\ signals' = Tail(signals)
      /\ UNCHANGED <<queue, session, event, spc, why, file, gcall, target, calls, added,
                     expected, late, scanned, dropped>>
  BY DEF Deliver, jobVars, addVars
<1>2. TypeOK /\ ControlInv /\ LateInv
  BY DEF IInv
<1>3. signals' \in Seq({"ScanStarted", "ScanStopped"})
  BY <1>1, <1>2, HeadTailProperties DEF TypeOK
<1>4. TypeOK'
  <2>1. checked' \in BOOLEAN
    BY <1>2 DEF Deliver, TypeOK
  <2> QED BY <1>1, <1>2, <1>3, <2>1 DEF TypeOK
<1>5. OrderInv' /\ PlaceInv'
  BY <1>1, QueueUntouched DEF addVars
<1>6. ControlInv' /\ LateInv' /\ AddInv' /\ CrashOnlyByEmptyDir'
  BY <1>1, <1>2 DEF ControlInv, LateInv, AddInv, CrashOnlyByEmptyDir, Ending
<1> QED BY <1>4, <1>5, <1>6 DEF IInv

(* Start: a session that runs stays, for one that ended comes another.     *)
LEMMA StartKeeps ==
  ASSUME IInv, spc # "crashed", Start
  PROVE  IInv'
<1>1. /\ gpc \in {"start", "startWait"} /\ event' \in {event, "STARTING"}
      /\ UNCHANGED <<queue, session, spc, why, file, gcall, target, signals, checked, calls, added,
                     expected, late, scanned, dropped>>
  BY DEF Start, Step, addVars
<1>2. \/ gpc = "start" /\ spc = "none" /\ gpc' = "spawn"
      \/ gpc = "start" /\ spc = "done" /\ gpc' = "restart"
      \/ gpc = "start" /\ Executed /\ gpc' \in {"startWait", "idle"}
      \/ gpc = "startWait" /\ gpc' \in {"idle", "stop"}
  BY DEF Start, Step, Executed
<1>3. TypeOK /\ ControlInv /\ LateInv
  BY DEF IInv
<1>4. TypeOK'
  BY <1>1, <1>2, <1>3 DEF TypeOK
<1>5. OrderInv' /\ PlaceInv'
  BY <1>1, QueueUntouched DEF addVars
<1>6. ControlInv' /\ LateInv' /\ AddInv' /\ CrashOnlyByEmptyDir'
  BY <1>1, <1>2, <1>3 DEF ControlInv, LateInv, AddInv, CrashOnlyByEmptyDir, Ending, Executed
<1> QED BY <1>4, <1>5, <1>6 DEF IInv

(* A new session is told to the widget and is there.                       *)
LEMMA SpawnKeeps ==
  ASSUME IInv, spc # "crashed", Spawn
  PROVE  IInv'
<1>1. /\ UNCHANGED <<queue, session, file, gcall, target, checked, calls, added,
                     expected, late, scanned, dropped>>
      /\ \/ /\ gpc = "spawn" /\ gpc' = "publish" /\ spc' = "test" /\ why' = "none"
            /\ signals' = Append(signals, "ScanStarted") /\ event' = event
         \/ /\ gpc = "publish" /\ gpc' = "idle" /\ event' = "STARTED"
            /\ UNCHANGED <<spc, why, signals>>
  BY DEF Spawn, Step, addVars
<1>2. TypeOK /\ ControlInv /\ LateInv
  BY DEF IInv
<1>3. signals' \in Seq({"ScanStarted", "ScanStopped"})
  <2>1. signals \in Seq({"ScanStarted", "ScanStopped"})
    BY <1>2 DEF TypeOK
  <2>2. Append(signals, "ScanStarted") \in Seq({"ScanStarted", "ScanStopped"})
    BY <2>1, AppendProperties
  <2> QED BY <1>1, <2>1, <2>2
<1>4. TypeOK'
  BY <1>1, <1>2, <1>3 DEF TypeOK
<1>5. OrderInv' /\ PlaceInv'
  BY <1>1, QueueUntouched DEF addVars
<1>6. ControlInv' /\ LateInv' /\ AddInv' /\ CrashOnlyByEmptyDir'
  BY <1>1, <1>2 DEF ControlInv, LateInv, AddInv, CrashOnlyByEmptyDir, Ending
<1> QED BY <1>4, <1>5, <1>6 DEF IInv

(* Pause.                                                                  *)
LEMMA PauseKeeps ==
  ASSUME IInv, spc # "crashed", Pause
  PROVE  IInv'
<1>1. /\ gpc \in {"pause", "pauseWait"} /\ gpc' \in {"idle", "stop", "pauseWait"}
      /\ event' \in {event, "PAUSING"}
      /\ UNCHANGED <<queue, session, spc, why, file, gcall, target, signals, checked, calls, added,
                     expected, late, scanned, dropped>>
  BY DEF Pause, Step, addVars
<1>2. TypeOK /\ ControlInv /\ LateInv
  BY DEF IInv
<1>3. TypeOK'
  BY <1>1, <1>2 DEF TypeOK
<1>4. OrderInv' /\ PlaceInv'
  BY <1>1, QueueUntouched DEF addVars
<1>5. ControlInv' /\ LateInv' /\ AddInv' /\ CrashOnlyByEmptyDir'
  BY <1>1, <1>2 DEF ControlInv, LateInv, AddInv, CrashOnlyByEmptyDir, Ending
<1> QED BY <1>3, <1>4, <1>5 DEF IInv

(* The end of a session: only its thread is joined.                        *)
LEMMA FinishKeeps ==
  ASSUME IInv, spc # "crashed", Finish
  PROVE  IInv'
<1>1. UNCHANGED <<queue, session, why, file, gcall, target, signals, checked, calls, added,
                  expected, late, scanned, dropped>>
  BY DEF Finish, addVars
<1>2. \/ gpc = "stop" /\ gpc' \in {"idle", "stopWait"} /\ event' \in {event, "STOPPING"} /\ spc' = spc
      \/ gpc = "restart" /\ gpc' = "restartWait" /\ event' = "STOPPING" /\ spc' = spc
      \/ gpc = "stopWait" /\ gpc' = "idle" /\ spc = "done" /\ spc' = "none" /\ event' = "NONE"
      \/ gpc = "restartWait" /\ gpc' = "spawn" /\ spc = "done" /\ spc' = "none" /\ event' = "NONE"
  BY DEF Finish
<1>3. TypeOK /\ ControlInv /\ LateInv
  BY DEF IInv
<1>4. TypeOK'
  BY <1>1, <1>2, <1>3 DEF TypeOK
<1>5. OrderInv' /\ PlaceInv'
  BY <1>1, QueueUntouched DEF addVars
<1>6. ControlInv' /\ LateInv' /\ AddInv' /\ CrashOnlyByEmptyDir'
  BY <1>1, <1>2, <1>3 DEF ControlInv, LateInv, AddInv, CrashOnlyByEmptyDir, Ending
<1> QED BY <1>4, <1>5, <1>6 DEF IInv

(* What an invariant says of the files in the queue, in one place.         *)
LEMMA QueueTypes ==
  ASSUME TypeOK
  PROVE  /\ queue \in Queues /\ queue.source \in Seq(Names) /\ queue.curDir \in Seq(Places)
         /\ queue.cache \in Seq(Places) /\ queue.cache \o queue.curDir \in Seq(Places)
         /\ Taken \in Seq(Places) /\ Line(queue, Taken) \in Seq(Places)
         /\ NoFile \notin Places
<1>1. /\ queue \in Queues /\ queue.source \in Seq(Names) /\ queue.curDir \in Seq(Places)
      /\ queue.cache \in Seq(Places)
  BY DEF TypeOK, Queues
<1>2. queue.cache \o queue.curDir \in Seq(Places)
  BY <1>1, ConcatProperties
<1>3. Taken \in Seq(Places)
  <2>1. scanned \in Seq(Places) /\ (file # NoFile => file \in Places)
    BY DEF TypeOK
  <2> QED BY <2>1, AppendProperties DEF Taken
<1>4. Line(queue, Taken) \in Seq(Places)
  BY <1>2, <1>3, ConcatProperties DEF Line
<1>5. NoFile \notin Places
  BY ScannerAssumption DEF NoFile, Places
<1> QED BY <1>1, <1>2, <1>3, <1>4, <1>5

(* What a line of files is made of.                                        *)
LEMMA LineElements ==
  ASSUME NEW q \in Queues, NEW done \in Seq(Places)
  PROVE  /\ Line(q, done) \in Seq(Places)
         /\ ToSet(Line(q, done)) = ToSet(done) \cup (ToSet(q.cache) \cup ToSet(q.curDir))
<1> DEFINE d == q.cache \o q.curDir
<1>1. q.cache \in Seq(Places) /\ q.curDir \in Seq(Places)
  BY DEF Queues
<1>2. d \in Seq(Places)
  BY <1>1, ConcatProperties
<1>3. ToSet(d) = ToSet(q.cache) \cup ToSet(q.curDir)
  BY <1>1, ToSetConcat
<1> HIDE DEF d
<1>4. ToSet(done \o d) = ToSet(done) \cup ToSet(d)
  BY <1>2, ToSetConcat
<1>5. done \o d \in Seq(Places)
  BY <1>2, ConcatProperties
<1>6. Line(q, done) = done \o d
  BY DEF Line, d
<1> QED BY <1>3, <1>4, <1>5, <1>6

(* All files there are are places.                                         *)
LEMMA FilesArePlaces ==
  ASSUME TypeOK
  PROVE  ToSet(Taken) \cup FilesOf(queue) \subseteq Places
<1>1. /\ queue.source \in Seq(Names) /\ queue.curDir \in Seq(Places)
      /\ queue.cache \in Seq(Places) /\ Taken \in Seq(Places)
  BY QueueTypes
<1>2. ToSet(queue.cache) \subseteq Places /\ ToSet(queue.curDir) \subseteq Places /\ ToSet(Taken) \subseteq Places
  BY <1>1 DEF ToSet
<1>3. \A n \in ToSet(queue.source) : n \in Names
  BY <1>1 DEF ToSet
<1>4. \A n \in Names : ToSet(Files(n)) \subseteq Places
  <2> TAKE n \in Names
  <2>1. Files(n) \in Seq(Places)
    BY FilesOfName
  <2> QED BY <2>1 DEF ToSet
<1> QED BY <1>2, <1>3, <1>4 DEF FilesOf

(* The name is appended to the queue that was read, or lost with it.       *)
LEMMA QueueAddKeeps ==
  ASSUME IInv, spc # "crashed", QueueAdd
  PROVE  IInv'
<1> USE ScannerAssumption
<1> DEFINE new == ToSet(Files(gcall))  s == queue.source
<1>1. /\ gpc = "add" /\ gpc' = "start"
      /\ queue' = IF target = session THEN [queue EXCEPT !.source = Append(@, gcall)] ELSE queue
      /\ added' = added + 1 /\ expected' = expected \cup new
      /\ late' = IF target # session \/ spc \in {"setStopped", "finalize", "createQueue", "exit"}
                   THEN late \cup new ELSE late
      /\ gcall' = NoName /\ target' = 0
      /\ UNCHANGED <<session, event, spc, why, file, signals, checked, calls, scanned, dropped>>
  BY DEF QueueAdd, Step, jobVars
<1>2. TypeOK /\ OrderInv /\ ControlInv /\ AddInv /\ PlaceInv /\ LateInv
  BY DEF IInv
<1>3. gcall \in Names /\ gcall.id = added + 1 /\ added \in Nat /\ added + 1 <= MaxNames
  <2>1. gcall \in Names /\ gcall.id = added + 1 /\ added \in 0 .. MaxNames
    BY <1>1, <1>2 DEF AddInv, TypeOK
  <2>2. gcall.id \in 1 .. MaxNames
    BY <2>1 DEF Names
  <2> QED BY <2>1, <2>2
<1>4. new \subseteq Places /\ \A f \in new : f[1] = added + 1
  <2>1. Files(gcall) \in Seq(Places) /\ \A f \in new : f[1] = gcall.id
    BY <1>3, FilesOfName
  <2> QED BY <1>3, <2>1 DEF ToSet
<1> HIDE DEF new
<1>5. queue \in Queues /\ s \in Seq(Names) /\ Line(queue, Taken) \in Seq(Places) /\ Taken' = Taken
  BY <1>1, <1>2, QueueTypes DEF Taken
<1>6. /\ Append(s, gcall) \in Seq(Names) /\ Len(Append(s, gcall)) = Len(s) + 1
      /\ \A i \in 1 .. Len(s) : Append(s, gcall)[i] = s[i]
      /\ Append(s, gcall)[Len(s) + 1] = gcall /\ Append(s, gcall) # <<>>
      /\ ToSet(Append(s, gcall)) = ToSet(s) \cup {gcall}
      /\ Len(s) \in Nat /\ DOMAIN s = 1 .. Len(s)
      /\ DOMAIN Append(s, gcall) = 1 .. Len(s) + 1
  <2>1. /\ Append(s, gcall) \in Seq(Names) /\ Len(Append(s, gcall)) = Len(s) + 1
        /\ \A i \in 1 .. Len(s) : Append(s, gcall)[i] = s[i]
        /\ Append(s, gcall)[Len(s) + 1] = gcall /\ Append(s, gcall) # <<>>
    BY <1>3, <1>5, AppendProperties
  <2>2. ToSet(Append(s, gcall)) = ToSet(s) \cup {gcall}
    BY <1>3, <1>5, ToSetAppend
  <2>3. Len(s) \in Nat /\ DOMAIN s = 1 .. Len(s)
    BY <1>5
  <2>4. DOMAIN Append(s, gcall) = 1 .. Len(s) + 1
    BY <2>1
  <2> QED BY <2>1, <2>2, <2>3, <2>4
<1>7. /\ queue' \in Queues /\ queue'.cache = queue.cache /\ queue'.curDir = queue.curDir
      /\ queue'.source = IF target = session THEN Append(s, gcall) ELSE s
  BY <1>1, <1>5, <1>6 DEF Queues
<1> DEFINE t == queue'.source
<1>8. FilesOf(queue') = IF target = session THEN FilesOf(queue) \cup new ELSE FilesOf(queue)
  <2>1. CASE target = session
    <3>1. UNION {ToSet(Files(n)) : n \in ToSet(t)} = new \cup UNION {ToSet(Files(n)) : n \in ToSet(s)}
      <4>1. ToSet(t) = ToSet(s) \cup {gcall}
        BY <1>6, <1>7, <2>1
      <4> QED BY <4>1 DEF new
    <3> QED BY <1>7, <2>1, <3>1 DEF FilesOf
  <2>2. CASE target # session
    BY <1>1, <2>2
  <2> QED BY <2>1, <2>2
<1>9. TypeOK'
  <2>1. queue' \in [source : Seq(Names), curDir : Seq(Places), cache : Seq(Places)]
        /\ Len(queue'.cache) < UpperBound
    BY <1>2, <1>7 DEF TypeOK, Queues
  <2>2. /\ expected' \subseteq Places /\ late' \subseteq Places /\ added' \in 0 .. MaxNames
        /\ target' \in 0 .. session' /\ gcall' \in Names \cup {NoName} /\ session' \in Nat
    <3>1. expected' \subseteq Places
      BY <1>1, <1>2, <1>4 DEF TypeOK
    <3>2. late' \subseteq Places
      BY <1>1, <1>2, <1>4 DEF TypeOK
    <3>3. session' \in Nat /\ target' \in 0 .. session'
      BY <1>1, <1>2 DEF TypeOK
    <3>4. added' \in 0 .. MaxNames /\ gcall' \in Names \cup {NoName}
      BY <1>1, <1>3
    <3> QED BY <3>1, <3>2, <3>3, <3>4
  <2> QED BY <1>1, <1>2, <2>1, <2>2 DEF TypeOK
<1>10. OrderInv'
  <2> DEFINE l == Line(queue, Taken)
  <2>1. /\ Ordered(l) /\ (\A f \in ToSet(l), n \in ToSet(s) : f[1] < n.id)
        /\ \A m, n \in DOMAIN s : m < n => s[m].id < s[n].id
    BY <1>2, <1>5, ContinuesMeans DEF OrderInv, Line
  <2>2. (\A f \in ToSet(Taken) \cup FilesOf(queue) : f[1] <= added) /\ \A n \in ToSet(s) : n.id <= added
    BY <1>2, <1>3 DEF OrderInv, Given
  <2>3. ToSet(l) \subseteq ToSet(Taken) \cup FilesOf(queue) /\ l \in Seq(Places)
    <3>1. ToSet(l) = ToSet(Taken) \cup (ToSet(queue.cache) \cup ToSet(queue.curDir))
      BY <1>2, QueueTypes, LineElements
    <3> HIDE DEF l
    <3> QED BY <1>5, <3>1 DEF FilesOf, l
  <2>4. Line(queue', Taken') = l
    BY <1>5, <1>7 DEF Line
  <2>5. Continues(t, l)
    <3>1. CASE target = session
      <4>1. \A f \in ToSet(l), n \in ToSet(t) : f[1] < n.id
        <5> TAKE f \in ToSet(l), n \in ToSet(t)
        <5>1. n \in ToSet(s) \/ n = gcall
          BY <1>6, <1>7, <3>1
        <5>2. f[1] <= added /\ f[1] \in Nat
          <6>1. f \in Places
            BY <2>3 DEF ToSet
          <6> QED BY <2>2, <2>3, <6>1 DEF Places
        <5> QED BY <1>3, <2>1, <5>1, <5>2
      <4>2. \A m, n \in DOMAIN t : m < n => t[m].id < t[n].id
        <5> TAKE m, n \in DOMAIN t
        <5> HAVE m < n
        <5>1. m \in 1 .. Len(s) /\ t[m] = s[m]
          BY <1>6, <1>7, <3>1
        <5>2. CASE n = Len(s) + 1
          <6>1. t[n] = gcall /\ s[m] \in ToSet(s) /\ s[m] \in Names
            BY <1>5, <1>6, <1>7, <3>1, <5>1, <5>2 DEF ToSet
          <6>2. s[m].id \in Nat /\ s[m].id <= added
            BY <2>2, <6>1 DEF Names
          <6> QED BY <1>3, <5>1, <6>1, <6>2
        <5>3. CASE n # Len(s) + 1
          <6>1. n \in 1 .. Len(s) /\ t[n] = s[n]
            BY <1>6, <1>7, <3>1, <5>3
          <6> QED BY <1>6, <2>1, <5>1, <6>1
        <5> QED BY <5>2, <5>3
      <4>3. t \in Seq(Names)
        BY <1>6, <1>7, <3>1
      <4> HIDE DEF l
      <4> QED BY <2>1, <2>3, <4>1, <4>2, <4>3, ContinuesMeans
    <3>2. CASE target # session
      <4>1. t = s
        BY <1>7, <3>2
      <4> QED BY <1>2, <4>1 DEF OrderInv, Line
    <3> QED BY <3>1, <3>2
  <2>6. \A f \in ToSet(Taken) \cup FilesOf(queue') : f[1] <= added + 1
    <3> TAKE f \in ToSet(Taken) \cup FilesOf(queue')
    <3>1. f \in ToSet(Taken) \cup FilesOf(queue) \/ f \in new
      BY <1>8
    <3>2. ASSUME f \in ToSet(Taken) \cup FilesOf(queue) PROVE f[1] <= added + 1
      <4>1. f \in Places
        BY <1>2, <3>2, FilesArePlaces
      <4>2. f[1] \in Nat /\ f[1] <= added
        BY <2>2, <3>2, <4>1 DEF Places
      <4> QED BY <1>3, <4>2
    <3> QED BY <1>3, <1>4, <3>1, <3>2
  <2>7. \A n \in ToSet(t) : n.id <= added + 1
    <3> TAKE n \in ToSet(t)
    <3>1. n \in ToSet(s) \/ n = gcall
      BY <1>6, <1>7
    <3>2. ASSUME n \in ToSet(s) PROVE n.id <= added + 1
      <4>1. n \in Names
        BY <1>5, <3>2 DEF ToSet
      <4>2. n.id \in Nat /\ n.id <= added
        BY <2>2, <3>2, <4>1 DEF Names
      <4> QED BY <1>3, <4>2
    <3> QED BY <1>3, <3>1, <3>2
  <2> QED BY <1>1, <1>3, <1>5, <2>4, <2>5, <2>6, <2>7 DEF OrderInv, Given, Line
<1>11. ControlInv' /\ AddInv' /\ CrashOnlyByEmptyDir'
  <2>1. spc = "getNext" => ~QueueEmpty(queue')
    BY <1>2, <1>6, <1>7 DEF ControlInv, QueueEmpty, ResolvedEmpty
  <2> QED BY <1>1, <1>2, <2>1 DEF ControlInv, AddInv, CrashOnlyByEmptyDir, Ending
<1>12. PlaceInv'
  <2>1. expected \subseteq ToSet(scanned) \cup dropped \cup late \cup FilesOf(queue) \cup {file}
    BY <1>2 DEF PlaceInv
  <2>2. late \subseteq late' /\ FilesOf(queue) \subseteq FilesOf(queue') /\ new \subseteq late' \cup FilesOf(queue')
    BY <1>1, <1>8
  <2> QED BY <1>1, <2>1, <2>2 DEF PlaceInv
<1>13. LateInv'
  <2> SUFFICES ASSUME (spc \in Ending /\ why = "normal") \/ spc = "exit" PROVE FilesOf(queue') \subseteq late'
    BY <1>1 DEF LateInv
  <2>1. FilesOf(queue) \subseteq late
    BY <1>2 DEF LateInv
  <2>2. late' = late \cup new
    BY <1>1 DEF Ending
  <2> QED BY <1>8, <2>1, <2>2
<1> QED BY <1>9, <1>10, <1>11, <1>12, <1>13 DEF IInv

(* What is scanned is the beginning of the line.                           *)
LEMMA OrderedSoFar ==
  ASSUME TypeOK, OrderInv
  PROVE  Ordered(scanned)
<1> DEFINE d == queue.cache \o queue.curDir
<1>1. d \in Seq(Places) /\ Taken \in Seq(Places) /\ scanned \in Seq(Places)
  BY QueueTypes DEF TypeOK
<1>2. Ordered(Taken \o d)
  BY DEF OrderInv, Continues
<1> HIDE DEF d
<1>3. Ordered(Taken)
  BY <1>1, <1>2, OrderedConcat
<1>4. CASE file = NoFile
  BY <1>3, <1>4 DEF Taken
<1>5. CASE file # NoFile
  <2>1. file \in Places /\ <<file>> \in Seq(Places)
    BY <1>5 DEF TypeOK
  <2>2. Taken = scanned \o <<file>>
    BY <1>1, <1>5, <2>1, AppendIsConcat DEF Taken
  <2> QED BY <1>1, <1>3, <2>1, <2>2, OrderedConcat
<1> QED BY <1>4, <1>5

-----------------------------------------------------------------------------
(* The routine's steps.                                                    *)

(* The look at the queue.                                                  *)
LEMMA TestEmptyKeeps ==
  ASSUME IInv, TestEmpty
  PROVE  IInv'
<1>1. /\ spc = "test"
      /\ \/ QueueEmpty(queue) /\ spc' = "setStopped" /\ why' = "normal"
         \/ ~QueueEmpty(queue) /\ spc' = "getNext" /\ why' = why
      /\ UNCHANGED <<queue, session, event, file, gpc, gcall, target, checked, calls, signals, added,
                     expected, late, scanned, dropped>>
  BY DEF TestEmpty, Goto, guiVars, addVars
<1>2. TypeOK /\ ControlInv /\ AddInv
  BY DEF IInv
<1>3. TypeOK'
  BY <1>1, <1>2 DEF TypeOK
<1>4. OrderInv' /\ PlaceInv'
  BY <1>1, QueueUntouched DEF addVars
<1>5. QueueEmpty(queue) => FilesOf(queue) = {}
  BY ToSetOfOne DEF QueueEmpty, ResolvedEmpty, FilesOf
<1>6. ControlInv' /\ LateInv' /\ AddInv' /\ CrashOnlyByEmptyDir'
  BY <1>1, <1>2, <1>5 DEF ControlInv, LateInv, AddInv, CrashOnlyByEmptyDir, Ending
<1> QED BY <1>3, <1>4, <1>6 DEF IInv

(* The next file leaves the cache.                                         *)
LEMMA GetNextKeeps ==
  ASSUME IInv, GetNext
  PROVE  IInv'
<1> USE ScannerAssumption
<1> DEFINE p == Prefetch(queue)  h == Head(p.cache)
<1>1. /\ spc = "getNext"
      /\ UNCHANGED <<session, event, why, gpc, gcall, target, checked, calls, signals, added,
                     expected, late, scanned, dropped>>
  BY DEF GetNext, Goto, guiVars, addVars
<1>2. TypeOK /\ OrderInv /\ ControlInv /\ AddInv /\ PlaceInv
  BY DEF IInv
<1>3. queue \in Queues /\ Len(queue.cache) < UpperBound /\ ~QueueEmpty(queue) /\ file = NoFile
  BY <1>1, <1>2, QueueTypes DEF TypeOK, ControlInv, Ending
<1>4. /\ Reaches(queue, p) /\ Len(p.cache) <= UpperBound
      /\ ~Underflow(queue) => p.cache # <<>>
      /\ Underflow(queue) => queue.source # <<>> /\ Last(queue.source).files = 0
  BY <1>3, PrefetchReaches
<1>5. CASE Underflow(queue)
  <2>1. spc' = "crashed" /\ UNCHANGED <<queue, file>>
    BY <1>5 DEF GetNext, Goto
  <2>2. TypeOK'
    BY <1>1, <1>2, <2>1 DEF TypeOK
  <2>3. OrderInv' /\ PlaceInv'
    BY <1>1, <2>1, QueueUntouched DEF addVars
  <2>4. CrashOnlyByEmptyDir'
    BY <1>4, <1>5, <2>1 DEF CrashOnlyByEmptyDir
  <2>5. ControlInv' /\ LateInv' /\ AddInv'
    BY <1>1, <1>2, <1>3, <2>1 DEF ControlInv, LateInv, AddInv, Ending
  <2> QED BY <2>2, <2>3, <2>4, <2>5 DEF IInv
<1>6. CASE ~Underflow(queue)
  <2>1. spc' = "scan" /\ file' = h /\ queue' = [p EXCEPT !.cache = Tail(@)]
    BY <1>6 DEF GetNext, Goto
  <2> HIDE DEF p
  <2>2. p \in Queues /\ p.cache \in Seq(Places) /\ p.curDir \in Seq(Places) /\ p.source \in Seq(Names)
        /\ p.cache # <<>>
    BY <1>4, <1>6 DEF Reaches, Queues
  <2>3. h \in Places /\ Tail(p.cache) \in Seq(Places) /\ Len(Tail(p.cache)) = Len(p.cache) - 1
        /\ p.cache = <<h>> \o Tail(p.cache) /\ ToSet(p.cache) = {h} \cup ToSet(Tail(p.cache))
    BY <2>2, HeadAndTail
  <2> HIDE DEF h
  <2>4. queue' \in Queues /\ queue'.source = p.source /\ queue'.curDir = p.curDir
        /\ queue'.cache = Tail(p.cache)
    BY <2>1, <2>2, <2>3 DEF Queues
  <2>5. Taken = scanned /\ Taken' = Append(scanned, h) /\ scanned \in Seq(Places) /\ h # NoFile
    <3>1. h # NoFile
      BY <1>2, <2>3, QueueTypes
    <3>2. Taken' = Append(scanned, h)
      BY <1>1, <2>1, <3>1 DEF Taken
    <3> QED BY <1>2, <1>3, <3>1, <3>2 DEF Taken, TypeOK
  <2>6. FilesOf(p) = FilesOf(queue) /\ FilesOf(p) = {h} \cup FilesOf(queue')
    <3>1. FilesOf(p) = {h} \cup FilesOf(queue')
      BY <2>3, <2>4 DEF FilesOf
    <3> QED BY <1>4, <3>1 DEF Reaches
  <2>7. TypeOK'
    <3>1. Len(queue'.cache) < UpperBound
      <4>1. Len(p.cache) \in Nat
        BY <2>2
      <4> QED BY <1>4, <2>3, <2>4, <4>1
    <3>2. queue' \in [source : Seq(Names), curDir : Seq(Places), cache : Seq(Places)]
      BY <2>4 DEF Queues
    <3>3. file' \in Places \cup {NoFile}
      BY <2>1, <2>3
    <3> QED BY <1>1, <1>2, <2>1, <3>1, <3>2, <3>3 DEF TypeOK
  <2>8. OrderInv'
    <3>1. Continues(queue.source, Line(queue, scanned))
      BY <1>2, <2>5 DEF OrderInv, Line
    <3>2. Continues(p.source, Line(p, scanned))
      BY <1>4, <2>5, <3>1 DEF Reaches
    <3>3. Line(queue', Append(scanned, h)) = Line(p, scanned)
      <4> DEFINE t == Tail(p.cache)  d == p.curDir
      <4>1. t \in Seq(Places) /\ d \in Seq(Places) /\ <<h>> \in Seq(Places) /\ scanned \in Seq(Places)
            /\ p.cache = <<h>> \o t /\ queue'.cache = t /\ queue'.curDir = d
        BY <2>2, <2>3, <2>4, <2>5
      <4>2. Append(scanned, h) = scanned \o <<h>>
        BY <2>3, <2>5, AppendIsConcat
      <4> HIDE DEF t, d
      <4>3. t \o d \in Seq(Places)
        BY <4>1, ConcatProperties
      <4>4. scanned \o (<<h>> \o (t \o d)) = (scanned \o <<h>>) \o (t \o d)
        <5> DEFINE td == t \o d  o == <<h>>
        <5>1. td \in Seq(Places) /\ o \in Seq(Places) /\ scanned \in Seq(Places)
          BY <4>1, <4>3
        <5> HIDE DEF td, o
        <5>2. scanned \o (o \o td) = (scanned \o o) \o td
          BY <5>1, PlacesAssociate
        <5> QED BY <5>2 DEF td, o
      <4>5. <<h>> \o (t \o d) = (<<h>> \o t) \o d
        BY <4>1, PlacesAssociate, Zenon
      <4>6. Line(queue', Append(scanned, h)) = (scanned \o <<h>>) \o (t \o d)
        BY <4>1, <4>2, Zenon DEF Line
      <4>7. Line(p, scanned) = scanned \o ((<<h>> \o t) \o d)
        BY <4>1, Zenon DEF Line, d
      <4> QED BY <4>4, <4>5, <4>6, <4>7, Zenon
    <3>4. Continues(queue'.source, Line(queue', Taken'))
      BY <2>4, <2>5, <3>2, <3>3
    <3>5. ToSet(Taken') \cup FilesOf(queue') = ToSet(Taken) \cup FilesOf(queue)
      <4>1. ToSet(Append(scanned, h)) = ToSet(scanned) \cup {h}
        BY <2>3, <2>5, ToSetAppend
      <4> QED BY <2>5, <2>6, <4>1
    <3>6. ToSet(queue'.source) \subseteq ToSet(queue.source)
      BY <1>4, <2>4 DEF Reaches
    <3> QED BY <1>1, <1>2, <3>4, <3>5, <3>6 DEF OrderInv, Given, Line
  <2>9. PlaceInv'
    <3>1. expected \subseteq Places
      BY <1>2 DEF TypeOK
    <3>2. \A f \in expected : f # file
      BY <1>2, <1>3, <3>1, QueueTypes
    <3> QED BY <1>1, <1>2, <2>1, <2>6, <3>2 DEF PlaceInv
  <2>10. ControlInv' /\ LateInv' /\ AddInv' /\ CrashOnlyByEmptyDir'
    BY <1>1, <1>2, <2>1, <2>5 DEF ControlInv, LateInv, AddInv, CrashOnlyByEmptyDir, Ending
  <2> QED BY <2>7, <2>8, <2>9, <2>10 DEF IInv
<1> QED BY <1>5, <1>6

(* The file is scanned.                                                    *)
LEMMA ScanFileKeeps ==
  ASSUME IInv, ScanFile
  PROVE  IInv'
<1>1. /\ spc = "scan" /\ spc' = "test" /\ scanned' = Append(scanned, file) /\ file' = NoFile
      /\ UNCHANGED <<queue, session, event, why, gpc, gcall, target, checked, calls, signals, added,
                     expected, late, dropped>>
  BY DEF ScanFile, Goto, guiVars, addVars
<1>2. TypeOK /\ OrderInv /\ ControlInv /\ AddInv /\ PlaceInv
  BY DEF IInv
<1>3. file \in Places /\ file # NoFile /\ scanned \in Seq(Places)
  BY <1>1, <1>2 DEF TypeOK, ControlInv
<1>4. scanned' \in Seq(Places) /\ ToSet(scanned') = ToSet(scanned) \cup {file} /\ Taken' = Taken
  <2>1. Append(scanned, file) \in Seq(Places)
    BY <1>3, AppendProperties
  <2>2. ToSet(Append(scanned, file)) = ToSet(scanned) \cup {file}
    BY <1>3, ToSetAppend
  <2>3. Taken' = Taken
    BY <1>1, <1>3 DEF Taken
  <2> QED BY <1>1, <2>1, <2>2, <2>3
<1>5. TypeOK'
  <2>1. file' \in Places \cup {NoFile}
    BY <1>1
  <2> QED BY <1>1, <1>2, <1>4, <2>1 DEF TypeOK
<1>6. OrderInv'
  BY <1>1, <1>2, <1>4 DEF OrderInv, Given
<1>7. PlaceInv'
  BY <1>1, <1>2, <1>4 DEF PlaceInv
<1>8. ControlInv' /\ LateInv' /\ AddInv' /\ CrashOnlyByEmptyDir'
  BY <1>1, <1>2 DEF ControlInv, LateInv, AddInv, CrashOnlyByEmptyDir, Ending
<1> QED BY <1>5, <1>6, <1>7, <1>8 DEF IInv

(* The routine answers to Pause, Resume and Stop.                          *)
LEMMA YieldKeeps ==
  ASSUME IInv, Yield
  PROVE  IInv'
<1>1. /\ spc \in {"scan", "sleep"} /\ event' \in {event, "PAUSED", "STARTED"}
      /\ \/ spc' = "setStopped" /\ why' = "stopping"
         \/ spc' \in {"scan", "sleep"} /\ why' = why
      /\ UNCHANGED <<queue, session, file, gpc, gcall, target, checked, calls, signals, added,
                     expected, late, scanned, dropped>>
  BY DEF Yield, Goto, guiVars, addVars
<1>2. TypeOK /\ ControlInv /\ AddInv
  BY DEF IInv
<1>3. TypeOK'
  BY <1>1, <1>2 DEF TypeOK
<1>4. OrderInv' /\ PlaceInv'
  BY <1>1, QueueUntouched DEF addVars
<1>5. ControlInv' /\ LateInv' /\ AddInv' /\ CrashOnlyByEmptyDir'
  BY <1>1, <1>2 DEF ControlInv, LateInv, AddInv, CrashOnlyByEmptyDir, Ending
<1> QED BY <1>3, <1>4, <1>5 DEF IInv

(* The job and the routine are finalized, up to the new queue.             *)
LEMMA FinalizeKeeps ==
  ASSUME IInv, SetStopped \/ OnScanEnd \/ Exit
  PROVE  IInv'
<1>1. UNCHANGED <<queue, session, why, file, gpc, gcall, target, checked, calls, added,
                  expected, late, scanned, dropped>>
  BY DEF SetStopped, OnScanEnd, Exit, guiVars, addVars
<1>2. \/ spc = "setStopped" /\ spc' = "finalize"
      \/ spc = "finalize" /\ spc' = "createQueue"
      \/ spc = "exit" /\ spc' = "done"
  BY DEF SetStopped, OnScanEnd, Exit, Goto
<1>3. event' \in {event, "STOPPED"} /\ signals' \in {signals, Append(signals, "ScanStopped")}
  BY DEF SetStopped, OnScanEnd, Exit
<1>4. TypeOK /\ ControlInv /\ AddInv /\ LateInv
  BY DEF IInv
<1>5. signals' \in Seq({"ScanStarted", "ScanStopped"})
  <2>1. signals \in Seq({"ScanStarted", "ScanStopped"})
    BY <1>4 DEF TypeOK
  <2>2. Append(signals, "ScanStopped") \in Seq({"ScanStarted", "ScanStopped"})
    BY <2>1, AppendProperties
  <2> QED BY <1>3, <2>1, <2>2
<1>6. TypeOK'
  BY <1>1, <1>2, <1>3, <1>4, <1>5 DEF TypeOK
<1>7. OrderInv' /\ PlaceInv'
  BY <1>1, QueueUntouched DEF addVars
<1>8. ControlInv' /\ LateInv' /\ AddInv' /\ CrashOnlyByEmptyDir'
  BY <1>1, <1>2, <1>4 DEF ControlInv, LateInv, AddInv, CrashOnlyByEmptyDir, Ending
<1> QED BY <1>6, <1>7, <1>8 DEF IInv

(* The old queue is dropped by a Stop, and otherwise only late files are   *)
(* lost with it.                                                           *)
LEMMA CreateQueueKeeps ==
  ASSUME IInv, CreateQueue
  PROVE  IInv'
<1> USE ScannerAssumption
<1>1. /\ spc = "createQueue" /\ spc' = "exit" /\ queue' = EmptyQueue /\ session' = session + 1
      /\ file' = NoFile
      /\ dropped' = IF why = "stopping" THEN dropped \cup FilesOf(queue) \cup ({file} \ {NoFile})
                                        ELSE dropped
      /\ UNCHANGED <<event, why, gpc, gcall, target, checked, calls, signals, added,
                     expected, late, scanned>>
  BY DEF CreateQueue, Goto, guiVars, addVars
<1>2. TypeOK /\ OrderInv /\ ControlInv /\ AddInv /\ PlaceInv /\ LateInv
  BY DEF IInv
<1>3. scanned \in Seq(Places) /\ Taken \in Seq(Places) /\ FilesOf(queue) \subseteq Places
      /\ expected \subseteq Places /\ NoFile \notin Places /\ file \in Places \cup {NoFile}
  BY <1>2, QueueTypes, FilesArePlaces DEF TypeOK
<1>4. queue' \in Queues /\ Len(queue'.cache) = 0 /\ queue'.source = <<>> /\ queue'.cache = <<>>
      /\ queue'.curDir = <<>>
  BY <1>1 DEF EmptyQueue, Queues
<1>5. FilesOf(queue') = {} /\ ToSet(queue'.source) = {}
  BY <1>4, ToSetOfOne DEF FilesOf
<1>6. TypeOK'
  <2>1. queue' \in [source : Seq(Names), curDir : Seq(Places), cache : Seq(Places)]
        /\ Len(queue'.cache) < UpperBound
    BY <1>4 DEF Queues
  <2>2. dropped' \subseteq Places
    BY <1>1, <1>2, <1>3 DEF TypeOK
  <2>3. session' \in Nat /\ target' \in 0 .. session'
    BY <1>1, <1>2 DEF TypeOK
  <2>4. file' \in Places \cup {NoFile} /\ spc' = "exit"
    BY <1>1
  <2> QED BY <1>1, <1>2, <2>1, <2>2, <2>3, <2>4 DEF TypeOK
<1>7. Taken' = scanned /\ Line(queue', scanned) = scanned
  <2>1. Taken' = scanned
    BY <1>1 DEF Taken
  <2>2. <<>> \o <<>> = <<>> /\ scanned \o <<>> = scanned
    <3>1. <<>> \in Seq(Places)
      OBVIOUS
    <3> QED BY <1>3, <3>1, ConcatEmptySeq
  <2> QED BY <1>4, <2>1, <2>2 DEF Line
<1>8. Ordered(scanned)
  BY <1>2, OrderedSoFar
<1>9. ToSet(scanned) \subseteq ToSet(Taken)
  <2>1. CASE file = NoFile
    BY <2>1 DEF Taken
  <2>2. CASE file # NoFile
    <3>1. ToSet(Append(scanned, file)) = ToSet(scanned) \cup {file}
      BY <1>3, <2>2, ToSetAppend
    <3> QED BY <2>2, <3>1 DEF Taken
  <2> QED BY <2>1, <2>2
<1>10. OrderInv'
  <2>1. Continues(queue'.source, Line(queue', Taken'))
    <3>1. Continues(<<>>, scanned)
      BY <1>8 DEF Continues
    <3> QED BY <1>4, <1>7, <3>1
  <2>2. \A f \in ToSet(Taken') \cup FilesOf(queue') : Given(f[1])
    BY <1>2, <1>5, <1>7, <1>9 DEF OrderInv
  <2> QED BY <1>1, <1>5, <2>1, <2>2 DEF OrderInv, Given, Line
<1>11. PlaceInv'
  <2>1. expected \subseteq ToSet(scanned) \cup dropped \cup late \cup FilesOf(queue) \cup {file}
    BY <1>2 DEF PlaceInv
  <2>2. CASE why = "stopping"
    BY <1>1, <1>3, <2>1, <2>2 DEF PlaceInv
  <2>3. CASE why # "stopping"
    <3>1. why = "normal" /\ file = NoFile
      BY <1>1, <1>2, <2>3 DEF ControlInv, TypeOK, Ending
    <3>2. FilesOf(queue) \subseteq late
      BY <1>1, <1>2, <3>1 DEF LateInv, Ending
    <3> QED BY <1>1, <1>3, <2>1, <2>3, <3>1, <3>2 DEF PlaceInv
  <2> QED BY <2>2, <2>3
<1>12. ControlInv' /\ LateInv' /\ AddInv' /\ CrashOnlyByEmptyDir'
  BY <1>1, <1>2, <1>5 DEF ControlInv, LateInv, AddInv, CrashOnlyByEmptyDir, Ending
<1> QED BY <1>6, <1>10, <1>11, <1>12 DEF IInv

-----------------------------------------------------------------------------
(* The theorems.                                                           *)

(* Every step keeps the invariant.                                         *)
LEMMA NextKeeps ==
  ASSUME IInv, [Next]_vars
  PROVE  IInv'
<1>1. CASE User
  BY <1>1, AddItemsKeeps, ControlKeeps DEF User
<1>2. CASE GuiStep
  BY <1>2, QueueAddKeeps, DeliverKeeps, StartKeeps, SpawnKeeps, PauseKeeps, FinishKeeps DEF GuiStep
<1>3. CASE ScanStep
  BY <1>3, TestEmptyKeeps, GetNextKeeps, ScanFileKeeps, YieldKeeps, FinalizeKeeps, CreateQueueKeeps
  DEF ScanStep
<1>4. CASE UNCHANGED vars
  <2>1. UNCHANGED <<queue, session, event, spc, why, file, gpc, gcall, target, signals, checked,
                    calls, added, expected, scanned, dropped, late>>
    BY <1>4 DEF vars
  <2>2. OrderInv' /\ PlaceInv'
    BY <2>1, QueueUntouched DEF addVars
  <2>3. TypeOK'
    BY <2>1 DEF IInv, TypeOK
  <2>4. ControlInv' /\ LateInv' /\ AddInv' /\ CrashOnlyByEmptyDir'
    BY <2>1 DEF IInv, ControlInv, LateInv, AddInv, CrashOnlyByEmptyDir
  <2> QED BY <2>2, <2>3, <2>4 DEF IInv
<1> QED BY <1>1, <1>2, <1>3, <1>4 DEF Next

(* The inductive invariant holds, for any names, files, calls and bounds.  *)
THEOREM Invariance == Spec => []IInv
<1>1. Init => IInv
  BY InitHolds
<1>2. IInv /\ [Next]_vars => IInv'
  BY NextKeeps
<1> QED BY <1>1, <1>2, PTL DEF Spec

(* The invariant says what the properties of scanner.cfg say.              *)
LEMMA InvariantSuffices ==
  ASSUME IInv
  PROVE  TypeOK /\ NothingForgotten /\ InOrder /\ CrashOnlyByEmptyDir
<1>1. TypeOK /\ OrderInv /\ ControlInv /\ PlaceInv /\ LateInv /\ CrashOnlyByEmptyDir
  BY DEF IInv
<1>2. InOrder
  BY <1>1, OrderedSoFar DEF InOrder
<1>3. NothingForgotten
  <2> SUFFICES ASSUME Quiet PROVE expected \subseteq ToSet(scanned) \cup dropped \cup late
    BY DEF NothingForgotten
  <2>1. gpc = "idle" /\ spc \in {"none", "done"}
    BY DEF Quiet
  <2>2. FilesOf(queue) \subseteq late
    BY <1>1, <2>1 DEF LateInv
  <2>3. file = NoFile /\ NoFile \notin Places /\ expected \subseteq Places
    BY <1>1, <2>1, QueueTypes DEF ControlInv, Ending, TypeOK
  <2> QED BY <1>1, <2>2, <2>3 DEF PlaceInv
<1> QED BY <1>1, <1>2, <1>3

(* Type correctness.                                                       *)
THEOREM TypeCorrectness == Spec => []TypeOK
BY Invariance, InvariantSuffices, PTL

(* When nobody has anything left to do, every file that was added was      *)
(* scanned or dropped by Stop, except the late ones.                       *)
THEOREM NothingIsForgotten == Spec => []NothingForgotten
BY Invariance, InvariantSuffices, PTL

(* Files are scanned in the order in which they were added, each once,     *)
(* whatever the bounds of the prefetching are.                             *)
THEOREM ScannedInOrder == Spec => []InOrder
BY Invariance, InvariantSuffices, PTL

(* The list of names is asked for one it has not only if a directory       *)
(* without files is its last.                                              *)
THEOREM OnlyEmptyDirCrashes == Spec => []CrashOnlyByEmptyDir
BY Invariance, InvariantSuffices, PTL
===============================================================================
