------------------------- MODULE AsyncReceiverProofs -------------------------
(***************************************************************************)
(* Proofs about AsyncReceiver, for any numbers of producers, workers and   *)
(* items, a queue of any size, and workers that may fail or not.           *)
(***************************************************************************)
EXTENDS AsyncReceiver, FiniteSetTheorems, SequenceTheorems, TLAPS

(* What a thread that goes from one place to another does to the set of    *)
(* threads at a place.                                                     *)
LEMMA ProducerMoves ==
  ASSUME TypeOK, NEW p \in Producers, NEW from, NEW to, Go(p, from, to), NEW v
  PROVE  /\ IsFiniteSet(At(ppc, v)) /\ Cardinality(At(ppc, v)) \in Nat
         /\ (from = v <=> to = v) => At(ppc, v)' = At(ppc, v)
         /\ from # v /\ to = v =>
              /\ At(ppc, v)' = At(ppc, v) \cup {p} /\ p \notin At(ppc, v)
              /\ Cardinality(At(ppc, v)') = Cardinality(At(ppc, v)) + 1
         /\ from = v /\ to # v =>
              /\ At(ppc, v)' = At(ppc, v) \ {p} /\ p \in At(ppc, v)
              /\ Cardinality(At(ppc, v)') = Cardinality(At(ppc, v)) - 1
<1>1. DOMAIN ppc = Producers /\ IsFiniteSet(Producers)
  BY ReceiverAssumption DEF TypeOK
<1>2. IsFiniteSet(At(ppc, v)) /\ Cardinality(At(ppc, v)) \in Nat
  BY <1>1, FS_Subset, FS_CardinalityType DEF At
<1>3. (from = v <=> to = v) => At(ppc, v)' = At(ppc, v)
  BY <1>1 DEF Go, At
<1>4. from # v /\ to = v => At(ppc, v)' = At(ppc, v) \cup {p} /\ p \notin At(ppc, v)
  BY <1>1 DEF Go, At
<1>5. from = v /\ to # v => At(ppc, v)' = At(ppc, v) \ {p} /\ p \in At(ppc, v)
  BY <1>1 DEF Go, At
<1> HIDE DEF Go
<1> QED BY <1>2, <1>3, <1>4, <1>5, FS_AddElement, FS_RemoveElement

(* The same for a worker.                                                  *)
WorkerGoes(w, to) == wpc' = [wpc EXCEPT ![w] = to]

(* How many workers stand at a place after one of them moved.              *)
LEMMA WorkerMoves ==
  ASSUME TypeOK, NEW w \in Workers, NEW to, WorkerGoes(w, to), NEW v
  PROVE  /\ IsFiniteSet(At(wpc, v)) /\ Cardinality(At(wpc, v)) \in Nat
         /\ (wpc[w] = v <=> to = v) => At(wpc, v)' = At(wpc, v)
         /\ wpc[w] # v /\ to = v =>
              /\ At(wpc, v)' = At(wpc, v) \cup {w} /\ w \notin At(wpc, v)
              /\ Cardinality(At(wpc, v)') = Cardinality(At(wpc, v)) + 1
         /\ wpc[w] = v /\ to # v =>
              /\ At(wpc, v)' = At(wpc, v) \ {w} /\ w \in At(wpc, v)
              /\ Cardinality(At(wpc, v)') = Cardinality(At(wpc, v)) - 1
<1>1. DOMAIN wpc = Workers /\ IsFiniteSet(Workers)
  BY ReceiverAssumption DEF TypeOK
<1>2. IsFiniteSet(At(wpc, v)) /\ Cardinality(At(wpc, v)) \in Nat
  BY <1>1, FS_Subset, FS_CardinalityType DEF At
<1>3. (wpc[w] = v <=> to = v) => At(wpc, v)' = At(wpc, v)
  BY <1>1 DEF WorkerGoes, At
<1>4. wpc[w] # v /\ to = v => At(wpc, v)' = At(wpc, v) \cup {w} /\ w \notin At(wpc, v)
  BY <1>1 DEF WorkerGoes, At
<1>5. wpc[w] = v /\ to # v => At(wpc, v)' = At(wpc, v) \ {w} /\ w \in At(wpc, v)
  BY <1>1 DEF WorkerGoes, At
<1> QED BY <1>2, <1>3, <1>4, <1>5, FS_AddElement, FS_RemoveElement

(* The sets of threads at a place are finite.                              *)
LEMMA PlacesFinite ==
  ASSUME TypeOK, NEW v
  PROVE  /\ IsFiniteSet(At(ppc, v)) /\ Cardinality(At(ppc, v)) \in Nat
         /\ IsFiniteSet(At(wpc, v)) /\ Cardinality(At(wpc, v)) \in Nat
<1>1. At(ppc, v) \subseteq Producers /\ At(wpc, v) \subseteq Workers
  BY DEF TypeOK, At
<1> QED BY <1>1, ReceiverAssumption, FS_Subset, FS_CardinalityType

(* What the invariant says of the numbers involved.                        *)
LEMMA Counts ==
  ASSUME IInv
  PROVE  /\ IsFiniteSet(failed) /\ Cardinality(failed) \in Nat
         /\ IsFiniteSet(abandoned) /\ Cardinality(abandoned) \in Nat
         /\ Len(queue) \in Nat /\ Len(applied) \in Nat
         /\ Taken \in 0..added /\ Len(applied) <= Taken
<1>1. IsFiniteSet(1..MaxItems)
  BY FS_Interval, ReceiverAssumption
<1>2. /\ IsFiniteSet(failed) /\ Cardinality(failed) \in Nat
      /\ IsFiniteSet(abandoned) /\ Cardinality(abandoned) \in Nat
  BY <1>1, FS_Subset, FS_CardinalityType DEF IInv, TypeOK
<1>3. Len(queue) \in Nat /\ Len(applied) \in Nat
  BY DEF IInv, TypeOK
<1>4. Cardinality(Holders) \in Nat
  BY PlacesFinite DEF IInv, Holders
<1> QED BY <1>2, <1>3, <1>4 DEF IInv, QueueInv, Taken, TypeOK

-----------------------------------------------------------------------------
(* At first nothing was passed and nobody waits.                           *)
LEMMA InitInv == Init => IInv
<1> SUFFICES ASSUME Init PROVE IInv
  OBVIOUS
<1>1. TypeOK
  <2>1. <<>> \in Seq(1..MaxItems) /\ Len(<<>>) = 0
    BY EmptySeq
  <2>2. 0 \in 0..MaxItems /\ 0 <= QueueSize
    BY ReceiverAssumption
  <2> QED BY <2>1, <2>2 DEF Init, TypeOK
<1>2. /\ At(ppc, "add") = {} /\ At(ppc, "produce") = {}
      /\ At(wpc, "apply") = {} /\ At(wpc, "consume") = {}
  BY DEF Init, At
<1>3. Taken = 0 /\ Values(applied) = {} /\ Len(applied) = 0 /\ Len(queue) = 0
  BY FS_EmptySet DEF Init, Taken, Values
<1>4. QueueInv
  <2>1. Holders = {} /\ InHand = {} /\ 1..0 = {} /\ queue = <<>> /\ DOMAIN queue = {}
    BY <1>2 DEF Holders, InHand, Init
  <2>2. active = TRUE /\ abandoned = {} /\ failed = {} /\ Cardinality(failed) = 0
    BY FS_EmptySet DEF Init
  <2> QED BY <1>3, <2>1, <2>2 DEF QueueInv
<1>5. CountInv
  <2>1. produced = 0 /\ consumed = 0 /\ added = 0
    BY DEF Init
  <2>2. Cardinality({}) = 0 /\ MaxItems \in Nat
    BY FS_EmptySet, ReceiverAssumption
  <2>3. /\ Cardinality(At(ppc, "add")) = 0 /\ Cardinality(At(ppc, "produce")) = 0
        /\ Cardinality(At(wpc, "consume")) = 0
    BY <1>2, <2>2, Zenon
  <2> QED BY <1>3, <2>1, <2>2, <2>3 DEF CountInv
<1>6. AloneInv /\ WakeInv
  BY DEF AloneInv, WakeInv, NoLostWakeup, Init
<1> QED BY <1>1, <1>4, <1>5, <1>6 DEF IInv

-----------------------------------------------------------------------------
(* The steps of a producer.                                                *)

(* The invariant of the items speaks of neither the producers nor the      *)
(* counters nor who waits.                                                 *)
LEMMA ItemsAside ==
  ASSUME QueueInv, UNCHANGED <<queue, active, added, wpc, held, applied, failed, abandoned>>
  PROVE  QueueInv'
BY DEF QueueInv, Taken, Holders, InHand, Values, At

(* ApplyData begins.                                                       *)
LEMMA ApplyDataInv ==
  ASSUME IInv, NEW p \in Producers, ApplyData(p)
  PROVE  IInv'
<1> USE DEF IInv
<1> DEFINE to == IF WorkersAvailable THEN "produce" ELSE "waitAll"
<1>1. Go(p, "idle", to) /\ produced + Cardinality(At(ppc, "produce")) < MaxItems
  BY DEF ApplyData, CheckWorkersAvailable
<1>2. UNCHANGED <<queue, active, putWaiting, getWaiting, added, produced, consumed,
                  wpc, held, applied, failed, abandoned, activities>>
  BY DEF ApplyData, queueVars, progressVars, historyVars
<1>3. TypeOK'
  BY <1>1, <1>2 DEF TypeOK, Go
<1>4. QueueInv'
  BY <1>2, ItemsAside
<1>5. CountInv'
  <2> HIDE DEF to
  <2>1. At(ppc, "add")' = At(ppc, "add")
    BY <1>1, ProducerMoves DEF to
  <2>2. Cardinality(At(ppc, "produce")') <= Cardinality(At(ppc, "produce")) + 1
    BY <1>1, ProducerMoves
  <2>3. At(wpc, "consume")' = At(wpc, "consume")
    BY <1>2 DEF At
  <2>4. Cardinality(At(ppc, "produce")) \in Nat /\ Cardinality(At(ppc, "produce")') \in Nat
    BY <1>1, ProducerMoves
  <2> QED BY <1>1, <1>2, <2>1, <2>2, <2>3, <2>4, ReceiverAssumption DEF CountInv, TypeOK
<1>6. AloneInv'
  BY <1>1, <1>2 DEF ApplyData, AloneInv, Alone, Go, TypeOK
<1>7. WakeInv'
  <2>1. At(ppc, "add")' = At(ppc, "add")
    BY <1>1, ProducerMoves
  <2>2. At(wpc, "get")' = At(wpc, "get")
    BY <1>2 DEF At
  <2> QED BY <1>2, <2>1, <2>2 DEF WakeInv, NoLostWakeup
<1> QED BY <1>3, <1>4, <1>5, <1>6, <1>7

(* The progress counts the item before it enters the queue.                *)
LEMMA ProduceInv ==
  ASSUME IInv, NEW p \in Producers, Produce(p)
  PROVE  IInv'
<1> USE DEF IInv
<1>1. Go(p, "produce", "add") /\ produced' = produced + 1
  BY DEF Produce
<1>2. UNCHANGED <<queue, active, putWaiting, getWaiting, added, consumed, wpc, held,
                  applied, failed, abandoned, activities>>
  BY DEF Produce, queueVars, historyVars
<1>3. At(ppc, "add")' = At(ppc, "add") \cup {p} /\ p \notin At(ppc, "add")
  BY <1>1, ProducerMoves
<1>4. /\ Cardinality(At(ppc, "add")') = Cardinality(At(ppc, "add")) + 1
      /\ Cardinality(At(ppc, "produce")') = Cardinality(At(ppc, "produce")) - 1
  BY <1>1, ProducerMoves
<1>5. /\ IsFiniteSet(At(ppc, "add")) /\ Cardinality(At(ppc, "add")) \in Nat
      /\ Cardinality(At(ppc, "produce")) \in Nat \ {0}
  <2>1. p \in At(ppc, "produce") /\ IsFiniteSet(At(ppc, "produce"))
    BY <1>1, ProducerMoves
  <2>2. Cardinality(At(ppc, "produce")) # 0
    BY <2>1, FS_EmptySet
  <2> QED BY <1>1, <2>2, ProducerMoves
<1>6. produced' \in 0..MaxItems
  BY <1>1, <1>5, ReceiverAssumption, SMTT(60) DEF TypeOK, CountInv
<1>7. TypeOK'
  BY <1>1, <1>2, <1>6 DEF TypeOK, Go
<1>8. QueueInv'
  BY <1>2, ItemsAside
<1>9. CountInv'
  <2>1. Cardinality(At(wpc, "consume")') = Cardinality(At(wpc, "consume"))
    BY <1>2 DEF At
  <2>2. produced \in Nat /\ added \in Nat /\ MaxItems \in Nat
    BY ReceiverAssumption DEF TypeOK
  <2>3. (produced = added + Cardinality(At(ppc, "add")))'
    BY <1>1, <1>2, <1>4, <1>5, <2>2 DEF CountInv
  <2>4. (produced + Cardinality(At(ppc, "produce")) <= MaxItems)'
    BY <1>1, <1>2, <1>4, <1>5, <2>2 DEF CountInv
  <2>5. (Len(applied) = consumed + Cardinality(At(wpc, "consume")))'
    BY <1>2, <2>1 DEF CountInv
  <2> QED BY <2>3, <2>4, <2>5 DEF CountInv
<1>10. AloneInv'
  BY <1>1, <1>2 DEF AloneInv, Alone, Go, TypeOK
<1>11. WakeInv'
  <2>1. At(wpc, "get")' = At(wpc, "get")
    BY <1>2 DEF At
  <2>2. (At(ppc, "add") \ putWaiting)' = (At(ppc, "add") \ putWaiting) \cup {p}
    BY <1>2, <1>3 DEF WakeInv
  <2>3. Cardinality((At(ppc, "add") \ putWaiting)') = Cardinality(At(ppc, "add") \ putWaiting) + 1
    BY <1>3, <1>5, <2>2, FS_AddElement, FS_Difference
  <2>4. Cardinality(At(ppc, "add") \ putWaiting) \in Nat
    BY <1>5, FS_Difference, FS_CardinalityType
  <2>5. QueueSize \in Nat /\ Len(queue) \in Nat
    BY ReceiverAssumption DEF TypeOK
  <2> QED BY <1>2, <1>3, <2>1, <2>3, <2>4, <2>5 DEF WakeInv, NoLostWakeup
<1> QED BY <1>7, <1>8, <1>9, <1>10, <1>11

(* Flush begins, alone.                                                    *)
LEMMA FlushInv ==
  ASSUME IInv, NEW p \in Producers, Flush(p)
  PROVE  IInv'
<1> USE DEF IInv
<1> DEFINE to == IF WorkersAvailable THEN "flushWait" ELSE "waitAll"
<1>1. Go(p, "idle", to)
  BY DEF Flush, CheckWorkersAvailable
<1>2. UNCHANGED <<queue, active, putWaiting, getWaiting, added, produced, consumed,
                  wpc, held, applied, failed, abandoned, activities>>
  BY DEF Flush, queueVars, progressVars, historyVars
<1>3. TypeOK'
  BY <1>1, <1>2 DEF TypeOK, Go
<1>4. QueueInv'
  BY <1>2, ItemsAside
<1>5. At(ppc, "add")' = At(ppc, "add") /\ At(ppc, "produce")' = At(ppc, "produce")
  <2>1. to \notin {"idle", "add", "produce"}
    OBVIOUS
  <2> HIDE DEF to
  <2> QED BY <1>1, <2>1, ProducerMoves
<1>6. At(wpc, "consume")' = At(wpc, "consume") /\ At(wpc, "get")' = At(wpc, "get")
  BY <1>2 DEF At
<1>7. CountInv'
  BY <1>2, <1>5, <1>6 DEF CountInv
<1>8. AloneInv'
  BY <1>1, <1>2 DEF Flush, AloneInv, Alone, Go, TypeOK
<1>9. WakeInv'
  BY <1>2, <1>5, <1>6 DEF WakeInv, NoLostWakeup
<1> QED BY <1>3, <1>4, <1>7, <1>8, <1>9

(* The wait of Flush is over: nothing is underway.                         *)
LEMMA WaitForCompleteInv ==
  ASSUME IInv, NEW p \in Producers, WaitForComplete(p)
  PROVE  IInv'
<1> USE DEF IInv
<1>1. Go(p, "flushWait", "flushTarget")
  BY DEF WaitForComplete
<1>2. UNCHANGED <<queue, active, putWaiting, getWaiting, added, produced, consumed,
                  wpc, held, applied, failed, abandoned, activities>>
  BY DEF WaitForComplete, queueVars, progressVars, historyVars
<1>3. TypeOK'
  BY <1>1, <1>2 DEF TypeOK, Go
<1>4. QueueInv'
  BY <1>2, ItemsAside
<1>5. At(ppc, "add")' = At(ppc, "add") /\ At(ppc, "produce")' = At(ppc, "produce")
  BY <1>1, ProducerMoves
<1>6. At(wpc, "consume")' = At(wpc, "consume") /\ At(wpc, "get")' = At(wpc, "get")
  BY <1>2 DEF At
<1>7. CountInv'
  BY <1>2, <1>5, <1>6 DEF CountInv
<1>8. AloneInv'
  BY <1>1, <1>2 DEF WaitForComplete, AloneInv, Alone, Go, TypeOK
<1>9. WakeInv'
  BY <1>2, <1>5, <1>6 DEF WakeInv, NoLostWakeup
<1> QED BY <1>3, <1>4, <1>7, <1>8, <1>9

(* The delegate is flushed.                                                *)
LEMMA FlushTargetInv ==
  ASSUME IInv, NEW p \in Producers, FlushTarget(p)
  PROVE  IInv'
<1> USE DEF IInv
<1>1. Go(p, "flushTarget", "idle")
  BY DEF FlushTarget
<1>2. UNCHANGED <<queue, active, putWaiting, getWaiting, added, produced, consumed,
                  wpc, held, applied, failed, abandoned, activities>>
  BY DEF FlushTarget, queueVars, progressVars, historyVars
<1>3. TypeOK'
  BY <1>1, <1>2 DEF TypeOK, Go
<1>4. QueueInv'
  BY <1>2, ItemsAside
<1>5. At(ppc, "add")' = At(ppc, "add") /\ At(ppc, "produce")' = At(ppc, "produce")
  BY <1>1, ProducerMoves
<1>6. At(wpc, "consume")' = At(wpc, "consume") /\ At(wpc, "get")' = At(wpc, "get")
  BY <1>2 DEF At
<1>7. CountInv'
  BY <1>2, <1>5, <1>6 DEF CountInv
<1>8. AloneInv'
  BY <1>1, <1>2 DEF FlushTarget, AloneInv, Alone, Go, TypeOK
<1>9. WakeInv'
  BY <1>2, <1>5, <1>6 DEF WakeInv, NoLostWakeup
<1> QED BY <1>3, <1>4, <1>7, <1>8, <1>9

(* WaitAll returns: to the call that found no worker or to the destructor. *)
LEMMA WaitAllInv ==
  ASSUME IInv, NEW p \in Producers, WaitAll(p)
  PROVE  IInv'
<1> USE DEF IInv
<1>1. Go(p, "waitAll", "idle") \/ Go(p, "join", "gone")
  BY DEF WaitAll
<1>2. UNCHANGED <<queue, active, putWaiting, getWaiting, added, produced, consumed,
                  wpc, held, applied, failed, abandoned>> /\ activities' = FALSE
  BY DEF WaitAll, queueVars, progressVars, historyVars
<1>3. TypeOK'
  BY <1>1, <1>2 DEF TypeOK, Go
<1>4. QueueInv'
  BY <1>2, ItemsAside
<1>5. At(ppc, "add")' = At(ppc, "add") /\ At(ppc, "produce")' = At(ppc, "produce")
  BY <1>1, ProducerMoves
<1>6. At(wpc, "consume")' = At(wpc, "consume") /\ At(wpc, "get")' = At(wpc, "get")
  BY <1>2 DEF At
<1>7. CountInv'
  BY <1>2, <1>5, <1>6 DEF CountInv
<1>8. AloneInv'
  BY <1>1, <1>2 DEF AloneInv, Alone, Go, TypeOK
<1>9. WakeInv'
  BY <1>2, <1>5, <1>6 DEF WakeInv, NoLostWakeup
<1> QED BY <1>3, <1>4, <1>7, <1>8, <1>9

(* SizedQueue::Add at a full queue: the producer waits.                    *)
LEMMA AddWaitsInv ==
  ASSUME IInv, NEW p \in Producers, Add(p), ~CanPutData
  PROVE  IInv'
<1> USE DEF IInv
<1>1. ppc[p] = "add" /\ putWaiting' = putWaiting \cup {p} /\ active /\ Len(queue) = QueueSize
  BY ReceiverAssumption DEF Add, CanPutData, TypeOK
<1>2. UNCHANGED <<queue, active, getWaiting, added, produced, consumed, ppc, wpc, held,
                  applied, failed, abandoned, activities>>
  BY DEF Add, progressVars, historyVars
<1>3. TypeOK'
  BY <1>1, <1>2 DEF TypeOK
<1>4. QueueInv'
  BY <1>2, ItemsAside
<1>5. CountInv' /\ AloneInv'
  BY <1>2 DEF CountInv, AloneInv, Alone, At
<1>6. WakeInv'
  <2>1. Cardinality((At(ppc, "add") \ putWaiting)') \in Nat
    BY <1>2, PlacesFinite, FS_Difference, FS_CardinalityType
  <2>2. QueueSize - Len(queue') <= Cardinality((At(ppc, "add") \ putWaiting)')
    BY <1>1, <1>2, <2>1, ReceiverAssumption
  <2>3. (putWaiting \subseteq At(ppc, "add"))'
    BY <1>1, <1>2 DEF WakeInv, At, TypeOK
  <2>4. (At(wpc, "get") = At(wpc, "get")')
    BY <1>2 DEF At
  <2> QED BY <1>1, <1>2, <2>2, <2>3, <2>4 DEF WakeInv, NoLostWakeup
<1> QED BY <1>3, <1>4, <1>5, <1>6

(* SizedQueue::Add of an active queue that is not full.                    *)
LEMMA AddPutsInv ==
  ASSUME IInv, NEW p \in Producers, Add(p), active, Len(queue) < QueueSize
  PROVE  IInv'
<1> USE DEF IInv
<1>1. /\ Go(p, "add", "idle") /\ p \notin putWaiting
      /\ queue' = Append(queue, added + 1) /\ added' = added + 1 /\ NotifyOneWorker
  BY DEF Add, CanPutData
<1>2. UNCHANGED <<active, putWaiting, produced, consumed, wpc, held,
                  applied, failed, abandoned, activities>>
  BY DEF Add, CanPutData, progressVars, historyVars
<1>3. /\ Cardinality(At(ppc, "add")) \in Nat \ {0} /\ Cardinality(At(ppc, "produce")) \in Nat
      /\ IsFiniteSet(At(ppc, "add")) /\ IsFiniteSet(At(wpc, "get"))
      /\ Cardinality(At(wpc, "get")) \in Nat
  <2>1. p \in At(ppc, "add") /\ IsFiniteSet(At(ppc, "add"))
    BY <1>1, ProducerMoves
  <2>2. Cardinality(At(ppc, "add")) # 0
    BY <2>1, FS_EmptySet
  <2> QED BY <2>2, PlacesFinite
<1>4. /\ Cardinality(At(ppc, "add")') = Cardinality(At(ppc, "add")) - 1
      /\ Cardinality(At(ppc, "produce")') = Cardinality(At(ppc, "produce"))
  BY <1>1, ProducerMoves
<1>5. added + 1 \in 1..MaxItems
  BY <1>3, ReceiverAssumption, SMTT(60) DEF TypeOK, CountInv
<1>6. /\ queue' \in Seq(1..MaxItems) /\ Len(queue') = Len(queue) + 1
      /\ \A k \in 1..Len(queue) : queue'[k] = queue[k]
      /\ queue'[Len(queue) + 1] = added + 1
  BY <1>1, <1>5 DEF TypeOK
<1>7. TypeOK'
  <2>1. Len(queue') <= QueueSize /\ added' \in 0..MaxItems
    BY <1>1, <1>5, <1>6, ReceiverAssumption DEF TypeOK
  <2>2. getWaiting' \subseteq Workers
    BY <1>1 DEF NotifyOneWorker, TypeOK
  <2> QED BY <1>1, <1>2, <1>6, <2>1, <2>2 DEF TypeOK, Go
<1>8. QueueInv'
  <2>1. Cardinality(abandoned) = 0 /\ Cardinality(abandoned') = 0
    <3>1. abandoned = {} /\ Cardinality({}) = 0
      BY FS_EmptySet DEF QueueInv
    <3> QED BY <1>2, <3>1, Zenon
  <2>2. Taken + Len(queue) = added /\ Taken' = Taken /\ Taken \in Nat
    BY <1>1, <1>6, <2>1, Counts DEF Taken, TypeOK
  <2>3. ASSUME NEW k \in DOMAIN queue' PROVE queue'[k] = Taken' + k
    <3>1. k \in 1..Len(queue) \/ k = Len(queue) + 1
      BY <1>6, Counts
    <3>2. k \in 1..Len(queue) => queue[k] = Taken + k
      BY DEF QueueInv, TypeOK
    <3> QED BY <1>6, <2>2, <3>1, <3>2, Counts DEF TypeOK
  <2>4. Holders' = Holders /\ InHand' = InHand
    BY <1>2 DEF Holders, InHand, At
  <2> QED BY <1>2, <2>2, <2>3, <2>4 DEF QueueInv, Values
<1>9. CountInv'
  <2>1. Cardinality(At(wpc, "consume")') = Cardinality(At(wpc, "consume"))
    BY <1>2 DEF At
  <2>2. produced \in Nat /\ added \in Nat
    BY DEF TypeOK
  <2>3. (produced = added + Cardinality(At(ppc, "add")))'
    BY <1>1, <1>2, <1>3, <1>4, <2>2 DEF CountInv
  <2> QED BY <1>2, <1>4, <2>1, <2>3 DEF CountInv
<1>10. AloneInv'
  BY <1>1, <1>2 DEF AloneInv, Alone, Go, TypeOK
<1>11. WakeInv'
  <2>1. At(ppc, "add")' = At(ppc, "add") \ {p} /\ At(wpc, "get")' = At(wpc, "get")
    <3>1. At(ppc, "add")' = At(ppc, "add") \ {p}
      BY <1>1, ProducerMoves
    <3>2. At(wpc, "get")' = At(wpc, "get")
      BY <1>2 DEF At
    <3> QED BY <3>1, <3>2
  <2>2. putWaiting' \subseteq At(ppc, "add")' /\ getWaiting' \subseteq At(wpc, "get")'
    BY <1>1, <1>2, <2>1 DEF WakeInv, NotifyOneWorker
  <2>3. putWaiting # {} => QueueSize - Len(queue') <= Cardinality((At(ppc, "add") \ putWaiting)')
    <3>1. (At(ppc, "add") \ putWaiting)' = (At(ppc, "add") \ putWaiting) \ {p}
      BY <1>2, <2>1
    <3>2. p \in At(ppc, "add") \ putWaiting
      BY <1>1, ProducerMoves
    <3>3. IsFiniteSet(At(ppc, "add") \ putWaiting)
      BY <1>3, FS_Difference
    <3>4. /\ Cardinality(At(ppc, "add") \ putWaiting) \in Nat
          /\ Cardinality((At(ppc, "add") \ putWaiting) \ {p})
                = Cardinality(At(ppc, "add") \ putWaiting) - 1
      BY <3>2, <3>3, FS_CardinalityType, FS_RemoveElement
    <3>5. Cardinality((At(ppc, "add") \ putWaiting)')
            = Cardinality(At(ppc, "add") \ putWaiting) - 1
      BY <3>1, <3>4, Zenon
    <3> QED BY <1>6, <3>4, <3>5, Counts, ReceiverAssumption DEF WakeInv, NoLostWakeup
  <2>4. getWaiting' # {} => Len(queue') <= Cardinality((At(wpc, "get") \ getWaiting)')
    <3> SUFFICES ASSUME getWaiting' # {}
                 PROVE  Len(queue') <= Cardinality((At(wpc, "get") \ getWaiting)')
      OBVIOUS
    <3>1. PICK w \in getWaiting : getWaiting' = getWaiting \ {w}
      BY <1>1 DEF NotifyOneWorker
    <3>2. /\ (At(wpc, "get") \ getWaiting)' = (At(wpc, "get") \ getWaiting) \cup {w}
          /\ w \notin At(wpc, "get") \ getWaiting
      BY <2>1, <3>1 DEF WakeInv
    <3>3. /\ Cardinality(At(wpc, "get") \ getWaiting) \in Nat
          /\ Cardinality((At(wpc, "get") \ getWaiting)')
                = Cardinality(At(wpc, "get") \ getWaiting) + 1
      BY <1>3, <3>2, FS_Difference, FS_CardinalityType, FS_AddElement
    <3> QED BY <1>6, <3>1, <3>3, Counts DEF WakeInv, NoLostWakeup
  <2> QED BY <1>2, <2>2, <2>3, <2>4 DEF WakeInv, NoLostWakeup
<1> QED BY <1>7, <1>8, <1>9, <1>10, <1>11

(* SizedQueue::Add: nobody is there once the destructor was called.        *)
LEMMA AddInv ==
  ASSUME IInv, NEW p \in Producers, Add(p)
  PROVE  IInv'
<1>1. active
  BY DEF IInv, AloneInv, Alone, Add
<1>2. CASE CanPutData
  BY <1>1, <1>2, AddPutsInv DEF CanPutData
<1>3. CASE ~CanPutData
  BY <1>3, AddWaitsInv
<1> QED BY <1>2, <1>3

(* The values of the queue are the numbers behind those taken.             *)
LEMMA QueueValues ==
  ASSUME IInv, active
  PROVE  Values(queue) = Taken + 1 .. added /\ Len(queue) = added - Taken
<1>1. Cardinality(abandoned) = 0
  <2>1. abandoned = {} /\ Cardinality({}) = 0
    BY FS_EmptySet DEF IInv, QueueInv
  <2> QED BY <2>1, Zenon
<1>2. Len(queue) = added - Taken
  BY <1>1, Counts DEF Taken, IInv, TypeOK
<1>3. DOMAIN queue = 1 .. added - Taken
  BY <1>2 DEF IInv, TypeOK
<1>4. \A k \in DOMAIN queue : queue[k] = Taken + k
  BY DEF IInv, QueueInv
<1>5. Taken \in Nat /\ added \in Nat
  BY Counts DEF IInv, TypeOK
<1>6. ASSUME NEW i \in Taken + 1 .. added PROVE i \in Values(queue)
  <2>1. i - Taken \in DOMAIN queue /\ queue[i - Taken] = i
    BY <1>3, <1>4, <1>5
  <2> QED BY <2>1 DEF Values
<1>7. ASSUME NEW i \in Values(queue) PROVE i \in Taken + 1 .. added
  BY <1>3, <1>4, <1>5 DEF Values
<1> QED BY <1>2, <1>6, <1>7

(* The destructor, which finds the queue active.                           *)
LEMMA DestroyInv ==
  ASSUME IInv, NEW p \in Producers, Destroy(p)
  PROVE  IInv'
<1> USE DEF IInv
<1>1. Alone(p) /\ Go(p, "idle", "join") /\ active
  BY DEF Destroy, AloneInv, Alone, Go
<1>2. /\ abandoned' = Values(queue) /\ queue' = <<>> /\ active' = FALSE
      /\ putWaiting' = {} /\ getWaiting' = {}
      /\ UNCHANGED <<added, produced, consumed, wpc, held, applied, failed, activities>>
  BY DEF Destroy, Reset, progressVars
<1>3. TypeOK'
  <2>1. abandoned' \subseteq 1..MaxItems
    <3>1. abandoned' = Taken + 1 .. added
      BY <1>1, <1>2, QueueValues
    <3>2. Taken \in Nat /\ added \in 0..MaxItems /\ MaxItems \in Nat
      BY Counts, ReceiverAssumption DEF TypeOK
    <3> QED BY <3>1, <3>2
  <2>2. queue' \in Seq(1..MaxItems) /\ Len(queue') <= QueueSize
    BY <1>2, EmptySeq, ReceiverAssumption
  <2> QED BY <1>1, <1>2, <2>1, <2>2 DEF TypeOK, Go
<1>4. QueueInv'
  <2>1. abandoned' = Taken + 1 .. added /\ Taken \in Nat /\ added \in Nat /\ Taken <= added
    BY <1>1, <1>2, QueueValues, Counts, SMTT(60) DEF TypeOK
  <2>2. Cardinality(abandoned') = added - Taken
    <3> HIDE DEF IInv
    <3>1. Cardinality(Taken + 1 .. added) = IF Taken + 1 > added THEN 0 ELSE added - (Taken + 1) + 1
      <4>1. Taken + 1 \in Int /\ added \in Int
        BY <2>1
      <4> HIDE DEF Taken
      <4> QED BY <4>1, FS_Interval
    <3>2. Cardinality(Taken + 1 .. added) = added - Taken
      BY <2>1, <3>1
    <3> QED BY <2>1, <3>2, Zenon
  <2>3. Taken' = Taken
    BY <1>2, <2>1, <2>2 DEF Taken
  <2>4. Holders' = Holders /\ InHand' = InHand /\ Values(applied)' = Values(applied)
    BY <1>2 DEF Holders, InHand, At, Values
  <2>5. DOMAIN queue' = {}
    BY <1>2
  <2> QED BY <1>2, <2>1, <2>3, <2>4, <2>5 DEF QueueInv
<1>5. CountInv'
  <2>1. /\ At(ppc, "add")' = At(ppc, "add") /\ At(ppc, "produce")' = At(ppc, "produce")
    BY <1>1, ProducerMoves
  <2>2. At(wpc, "consume")' = At(wpc, "consume")
    BY <1>2 DEF At
  <2> QED BY <1>2, <2>1, <2>2 DEF CountInv
<1>6. AloneInv'
  BY <1>1, <1>2 DEF AloneInv, Alone, Go, TypeOK
<1>7. WakeInv'
  BY <1>2 DEF WakeInv, NoLostWakeup
<1> QED BY <1>3, <1>4, <1>5, <1>6, <1>7

-----------------------------------------------------------------------------
(* The steps of a worker.                                                  *)

(* The first item leaves the queue.                                        *)
LEMMA Pop ==
  ASSUME NEW S, NEW s \in Seq(S), s # <<>>
  PROVE  SubSeq(s, 1, 0) \o SubSeq(s, 2, Len(s)) = Tail(s) /\ Len(s) \in Nat \ {0}
BY EmptySeq, HeadTailProperties, SubSeqEmpty, TailIsSubSeq, ConcatEmptySeq

(* Get of an item: the first of the queue, which nobody has got before.    *)
LEMMA PopFrontInv ==
  ASSUME IInv, NEW w \in Workers, Get(w), active, queue # <<>>
  PROVE  IInv'
<1> USE DEF IInv
<1>0. wpc[w] = "get" /\ WorkerGoes(w, "apply")
  BY DEF Get, CanGetData, PopFront, Take, WorkerGoes
<1>1. /\ w \notin getWaiting /\ NotifyOneProducer
      /\ held' = [held EXCEPT ![w] = queue[1]]
      /\ queue' = SubSeq(queue, 1, 0) \o SubSeq(queue, 2, Len(queue))
  BY DEF Get, CanGetData, PopFront, Take
<1>2. UNCHANGED <<active, getWaiting, added, produced, consumed, ppc, applied, failed,
                  abandoned, activities>>
  BY DEF Get, CanGetData, PopFront, progressVars, historyVars
<1>3. /\ queue' \in Seq(1..MaxItems) /\ Len(queue) \in Nat \ {0} /\ Len(queue') = Len(queue) - 1
      /\ \A k \in 1..Len(queue') : queue'[k] = queue[k + 1]
  <2>1. queue \in Seq(1..MaxItems)
    BY DEF TypeOK
  <2>2. queue' = Tail(queue) /\ Len(queue) \in Nat \ {0}
    BY <1>1, <2>1, Pop
  <2> QED BY <2>1, <2>2, HeadTailProperties
<1>4. /\ Taken \in Nat /\ Taken' = Taken + 1 /\ queue[1] = Taken + 1
      /\ Taken + 1 <= added
  <2>1. Taken \in 0..added /\ Cardinality(abandoned) \in Nat /\ added \in Nat
    BY Counts DEF TypeOK
  <2>2. Taken' = Taken + 1 /\ Taken + 1 <= added
    BY <1>2, <1>3, <2>1 DEF Taken
  <2>3. 1 \in DOMAIN queue
    BY <1>3 DEF TypeOK
  <2> QED BY <2>1, <2>2, <2>3 DEF QueueInv
<1>5. held'[w] = Taken + 1 /\ \A v \in Workers \ {w} : held'[v] = held[v]
  BY <1>1, <1>4 DEF TypeOK
<1>6. TypeOK'
  <2>1. held' \in [Workers -> 0..MaxItems]
    <3>1. queue[1] \in 0..MaxItems
      BY <1>4, ReceiverAssumption DEF TypeOK
    <3> QED BY <1>1, <3>1 DEF TypeOK
  <2>2. putWaiting' \subseteq Producers
    BY <1>1 DEF NotifyOneProducer, TypeOK
  <2>3. Len(queue') <= QueueSize
    BY <1>3, ReceiverAssumption DEF TypeOK
  <2> QED BY <1>0, <1>2, <1>3, <2>1, <2>2, <2>3 DEF TypeOK, WorkerGoes
<1>7. QueueInv'
  <2>1. Holders' = Holders \cup {w} /\ w \notin Holders /\ Holders \subseteq Workers
    <3>1. Holders' = Holders \cup {w} /\ w \notin Holders
      BY <1>0, WorkerMoves DEF Holders
    <3> QED BY <3>1 DEF Holders, At, TypeOK
  <2>2. InHand' = InHand \cup {Taken + 1}
    BY <1>5, <2>1 DEF InHand
  <2>3. /\ InHand \subseteq 1..Taken /\ failed \subseteq 1..Taken
        /\ 1..Taken + 1 = (1..Taken) \cup {Taken + 1}
    BY <1>4 DEF QueueInv
  <2>4. ASSUME NEW k \in DOMAIN queue' PROVE queue'[k] = Taken' + k
    <3>1. k \in 1..Len(queue') /\ k + 1 \in DOMAIN queue
      BY <1>3 DEF TypeOK
    <3>2. queue[k + 1] = Taken + (k + 1)
      BY <3>1 DEF QueueInv
    <3> QED BY <1>3, <1>4, <3>1, <3>2, SMTT(60)
  <2>5. Cardinality(Holders') = Cardinality(Holders) + 1 /\ Cardinality(Holders) \in Nat
    BY <1>0, WorkerMoves DEF Holders
  <2>6. abandoned' = {} /\ active'
    BY <1>2 DEF QueueInv
  <2>7. (1..Taken = InHand \cup Values(applied) \cup failed)'
    BY <1>2, <1>4, <2>2, <2>3 DEF QueueInv, Values
  <2>8. (Taken = Cardinality(Holders) + Len(applied) + Cardinality(failed))'
    BY <1>2, <1>4, <2>5, Counts DEF QueueInv
  <2>9. (\A u, v \in Holders : held[u] = held[v] => u = v)'
    BY <1>4, <1>5, <2>1, <2>3 DEF QueueInv, InHand
  <2>10. (InHand \cap failed = {})'
    BY <1>2, <1>4, <2>2, <2>3 DEF QueueInv
  <2> QED BY <2>4, <2>6, <2>7, <2>8, <2>9, <2>10 DEF QueueInv
<1>8. CountInv'
  <2>1. Cardinality(At(wpc, "consume")') = Cardinality(At(wpc, "consume"))
    BY <1>0, WorkerMoves
  <2>2. At(ppc, "add")' = At(ppc, "add") /\ At(ppc, "produce")' = At(ppc, "produce")
    BY <1>2 DEF At
  <2> QED BY <1>2, <2>1, <2>2 DEF CountInv
<1>9. AloneInv'
  BY <1>2 DEF AloneInv, Alone
<1>10. WakeInv'
  <2>1. At(wpc, "get")' = At(wpc, "get") \ {w} /\ w \in At(wpc, "get")
    BY <1>0, WorkerMoves
  <2>2. At(ppc, "add")' = At(ppc, "add")
    BY <1>2 DEF At
  <2>3. putWaiting' \subseteq At(ppc, "add")' /\ getWaiting' \subseteq At(wpc, "get")'
    BY <1>1, <1>2, <2>1, <2>2 DEF WakeInv, NotifyOneProducer
  <2>4. putWaiting' # {} => QueueSize - Len(queue') <= Cardinality((At(ppc, "add") \ putWaiting)')
    <3> SUFFICES ASSUME putWaiting' # {}
                 PROVE  QueueSize - Len(queue') <= Cardinality((At(ppc, "add") \ putWaiting)')
      OBVIOUS
    <3>1. PICK p \in putWaiting : putWaiting' = putWaiting \ {p}
      BY <1>1 DEF NotifyOneProducer
    <3>2. /\ (At(ppc, "add") \ putWaiting)' = (At(ppc, "add") \ putWaiting) \cup {p}
          /\ p \notin At(ppc, "add") \ putWaiting
      BY <2>2, <3>1 DEF WakeInv
    <3>3. IsFiniteSet(At(ppc, "add") \ putWaiting)
      BY PlacesFinite, FS_Difference
    <3>4. /\ Cardinality(At(ppc, "add") \ putWaiting) \in Nat
          /\ Cardinality((At(ppc, "add") \ putWaiting) \cup {p})
                = Cardinality(At(ppc, "add") \ putWaiting) + 1
      BY <3>2, <3>3, FS_CardinalityType, FS_AddElement
    <3>5. Cardinality((At(ppc, "add") \ putWaiting)')
            = Cardinality(At(ppc, "add") \ putWaiting) + 1
      BY <3>2, <3>4, Zenon
    <3>6. QueueSize - Len(queue) <= Cardinality(At(ppc, "add") \ putWaiting)
      BY <3>1 DEF WakeInv, NoLostWakeup
    <3> QED BY <1>3, <3>4, <3>5, <3>6, ReceiverAssumption
  <2>5. getWaiting # {} => Len(queue') <= Cardinality((At(wpc, "get") \ getWaiting)')
    <3>1. (At(wpc, "get") \ getWaiting)' = (At(wpc, "get") \ getWaiting) \ {w}
      BY <1>2, <2>1
    <3>2. w \in At(wpc, "get") \ getWaiting
      BY <1>1, <2>1
    <3>3. IsFiniteSet(At(wpc, "get") \ getWaiting)
      BY PlacesFinite, FS_Difference
    <3>4. /\ Cardinality(At(wpc, "get") \ getWaiting) \in Nat
          /\ Cardinality((At(wpc, "get") \ getWaiting) \ {w})
                = Cardinality(At(wpc, "get") \ getWaiting) - 1
      BY <3>2, <3>3, FS_CardinalityType, FS_RemoveElement
    <3>5. Cardinality((At(wpc, "get") \ getWaiting)')
            = Cardinality(At(wpc, "get") \ getWaiting) - 1
      BY <3>1, <3>4, Zenon
    <3> QED BY <1>3, <3>4, <3>5 DEF WakeInv, NoLostWakeup
  <2> QED BY <1>2, <2>3, <2>4, <2>5 DEF WakeInv, NoLostWakeup
<1> QED BY <1>6, <1>7, <1>8, <1>9, <1>10

(* Get at an empty queue: the worker waits.                                *)
LEMMA GetWaitsInv ==
  ASSUME IInv, NEW w \in Workers, Get(w), active, queue = <<>>
  PROVE  IInv'
<1> USE DEF IInv
<1>1. wpc[w] = "get" /\ getWaiting' = getWaiting \cup {w}
  BY DEF Get, CanGetData
<1>2. UNCHANGED <<queue, active, putWaiting, added, produced, consumed, ppc, wpc, held,
                  applied, failed, abandoned, activities>>
  BY DEF Get, CanGetData, progressVars, historyVars
<1>3. TypeOK'
  BY <1>1, <1>2 DEF TypeOK
<1>4. QueueInv'
  BY <1>2, ItemsAside
<1>5. CountInv' /\ AloneInv'
  BY <1>2 DEF CountInv, AloneInv, Alone, At
<1>6. WakeInv'
  <2>1. At(ppc, "add")' = At(ppc, "add") /\ getWaiting' \subseteq At(wpc, "get")'
    BY <1>1, <1>2 DEF WakeInv, At, TypeOK
  <2>2. Cardinality((At(wpc, "get") \ getWaiting)') \in Nat
    BY <1>2, PlacesFinite, FS_Difference, FS_CardinalityType
  <2>3. Len(queue') = 0
    BY <1>2
  <2> QED BY <1>2, <2>1, <2>2, <2>3 DEF WakeInv, NoLostWakeup
<1> QED BY <1>3, <1>4, <1>5, <1>6

(* A worker goes on, but not to or from an item or the queue.              *)
LEMMA WorkerGoesOn ==
  ASSUME IInv, NEW w \in Workers, NEW to, WorkerGoes(w, to),
         to \in {"exit", "stopped", "failed"}, wpc[w] \notin {"apply", "consume"},
         w \notin getWaiting,
         wpc[w] = "get" => getWaiting = {},
         UNCHANGED <<queue, active, putWaiting, getWaiting, added, produced, consumed, ppc, held,
                     applied, failed, abandoned, activities>>
  PROVE  IInv'
<1> USE DEF IInv
<1>1. TypeOK'
  BY DEF TypeOK, WorkerGoes
<1>2. At(wpc, "apply")' = At(wpc, "apply") /\ At(wpc, "consume")' = At(wpc, "consume")
  BY WorkerMoves
<1>3. QueueInv'
  BY <1>2 DEF QueueInv, Taken, Holders, InHand, Values
<1>4. CountInv' /\ AloneInv'
  BY <1>2 DEF CountInv, AloneInv, Alone, At
<1>5. WakeInv'
  <2>1. At(ppc, "add")' = At(ppc, "add")
    BY DEF At
  <2>2. CASE getWaiting = {}
    BY <2>1, <2>2 DEF WakeInv, NoLostWakeup
  <2>3. CASE wpc[w] # "get"
    <3>1. At(wpc, "get")' = At(wpc, "get")
      BY <2>3, WorkerMoves
    <3> QED BY <2>1, <3>1 DEF WakeInv, NoLostWakeup
  <2> QED BY <2>2, <2>3
<1> QED BY <1>1, <1>3, <1>4, <1>5

(* Taking an item, or waiting for one, or seeing the queue closed.         *)
LEMMA GetInv ==
  ASSUME IInv, NEW w \in Workers, Get(w)
  PROVE  IInv'
<1>1. CASE active /\ queue # <<>>
  BY <1>1, PopFrontInv
<1>2. CASE active /\ queue = <<>>
  BY <1>2, GetWaitsInv
<1>3. CASE ~active
  <2>1. wpc[w] = "get" /\ w \notin getWaiting /\ WorkerGoes(w, "exit")
    BY <1>3 DEF Get, CanGetData, WorkerGoes
  <2>2. UNCHANGED <<queue, active, putWaiting, getWaiting, added, produced, consumed, ppc, held,
                    applied, failed, abandoned, activities>>
    BY <1>3 DEF Get, CanGetData, progressVars, historyVars
  <2>3. getWaiting = {}
    BY <1>3 DEF IInv, WakeInv, NoLostWakeup
  <2> QED BY <2>1, <2>2, <2>3, WorkerGoesOn
<1> QED BY <1>1, <1>2, <1>3 DEF IInv, TypeOK

(* A worker that saw the queue closed ends.                                *)
LEMMA ExitInv ==
  ASSUME IInv, NEW w \in Workers, Exit(w)
  PROVE  IInv'
<1>1. UNCHANGED <<queue, active, putWaiting, getWaiting, added, produced, consumed, ppc, held,
                  applied, failed, abandoned, activities>>
  BY DEF Exit, queueVars, progressVars, historyVars
<1>2. w \notin getWaiting
  BY DEF Exit, IInv, WakeInv, At
<1>3. \E to \in {"stopped", "failed"} : WorkerGoes(w, to)
  BY DEF Exit, WorkerGoes
<1>4. wpc[w] \in {"exit", "failing"}
  BY DEF Exit
<1> QED BY <1>1, <1>2, <1>3, <1>4, WorkerGoesOn

(* The delegate took an item or refused it.                                *)
LEMMA ApplyInv ==
  ASSUME IInv, NEW w \in Workers, Apply(w)
  PROVE  IInv'
<1> USE DEF IInv
<1> DEFINE i == held[w]
<1>1. wpc[w] = "apply" /\ held' = [held EXCEPT ![w] = 0]
  BY DEF Apply
<1>2. UNCHANGED <<queue, active, putWaiting, getWaiting, added, produced, consumed, ppc,
                  abandoned, activities>>
  BY DEF Apply, queueVars, progressVars
<1>3. \/ WorkerGoes(w, "consume") /\ applied' = Append(applied, i) /\ failed' = failed
      \/ WorkerGoes(w, "failing") /\ applied' = applied /\ failed' = failed \cup {i}
  BY DEF Apply, WorkerGoes
<1>4. w \in Holders /\ i \in InHand /\ i \in 1..MaxItems
  <2>1. w \in Holders
    BY <1>1 DEF Holders, At, TypeOK
  <2>2. i \in 1..Taken /\ Taken <= MaxItems /\ Taken \in Nat
    BY <2>1, Counts, ReceiverAssumption, SMTT(60) DEF QueueInv, InHand, TypeOK
  <2> QED BY <2>1, <2>2, ReceiverAssumption DEF InHand
<1>5. Holders' = Holders \ {w} /\ Cardinality(Holders') = Cardinality(Holders) - 1
  <2>1. CASE WorkerGoes(w, "consume")
    BY <1>1, <2>1, WorkerMoves DEF Holders
  <2>2. CASE WorkerGoes(w, "failing")
    BY <1>1, <2>2, WorkerMoves DEF Holders
  <2> QED BY <1>3, <2>1, <2>2
<1>6. InHand' = InHand \ {i}
  <2>1. \A v \in Holders' : held'[v] = held[v]
    BY <1>1, <1>5 DEF TypeOK, Holders, At
  <2> QED BY <1>4, <1>5, <2>1 DEF QueueInv, InHand
<1>7. /\ Values(applied') \cup failed' = Values(applied) \cup failed \cup {i}
      /\ Len(applied') + Cardinality(failed') = Len(applied) + Cardinality(failed) + 1
      /\ failed' \subseteq failed \cup {i}
  <2>1. CASE applied' = Append(applied, i) /\ failed' = failed
    <3>1. Len(applied') = Len(applied) + 1 /\ Len(applied) \in Nat /\ applied'[Len(applied) + 1] = i
      BY <1>4, <2>1 DEF TypeOK
    <3>2. \A k \in 1..Len(applied) : applied'[k] = applied[k]
      BY <1>4, <2>1 DEF TypeOK
    <3>3. DOMAIN applied' = 1..Len(applied) + 1 /\ DOMAIN applied = 1..Len(applied)
      BY <1>4, <2>1 DEF TypeOK
    <3>4. Values(applied') = Values(applied) \cup {i}
      BY <3>1, <3>2, <3>3 DEF Values
    <3> QED BY <2>1, <3>1, <3>4, Counts
  <2>2. CASE applied' = applied /\ failed' = failed \cup {i}
    <3>1. i \notin failed
      BY <1>4 DEF QueueInv
    <3>2. Cardinality(failed \cup {i}) = Cardinality(failed) + 1
      BY <3>1, Counts, FS_AddElement
    <3>3. Cardinality(failed') = Cardinality(failed) + 1
      BY <2>2, <3>2, Zenon
    <3>4. Len(applied') + Cardinality(failed') = Len(applied) + Cardinality(failed) + 1
      BY <2>2, <3>3, Counts
    <3> QED BY <2>2, <3>4 DEF Values
  <2> QED BY <1>3, <2>1, <2>2
<1>8. TypeOK'
  <2>1. held' \in [Workers -> 0..MaxItems]
    <3>1. 0 \in 0..MaxItems
      BY ReceiverAssumption
    <3> QED BY <1>1, <3>1 DEF TypeOK
  <2>2. applied' \in Seq(1..MaxItems)
    <3>1. applied \in Seq(1..MaxItems) /\ Append(applied, i) \in Seq(1..MaxItems)
      BY <1>4 DEF TypeOK
    <3> QED BY <1>3, <3>1
  <2>3. failed' \subseteq 1..MaxItems
    BY <1>3, <1>4 DEF TypeOK
  <2> QED BY <1>2, <1>3, <2>1, <2>2, <2>3 DEF TypeOK, WorkerGoes
<1>9. QueueInv'
  <2>1. Taken' = Taken
    BY <1>2 DEF Taken
  <2>2. 1..Taken = InHand' \cup Values(applied') \cup failed'
    BY <1>4, <1>6, <1>7 DEF QueueInv
  <2>3. Cardinality(Holders) \in Nat
    BY PlacesFinite DEF Holders
  <2>4. Cardinality(failed') \in Nat
    BY <1>3, <1>4, Counts, FS_AddElement, FS_CardinalityType
  <2>5. Len(applied') \in Nat
    BY <1>8 DEF TypeOK
  <2>6. Taken = Cardinality(Holders') + Len(applied') + Cardinality(failed')
    <3>1. Cardinality(Holders') = Cardinality(Holders) - 1
      BY <1>5
    <3>2. Len(applied') + Cardinality(failed') = Len(applied) + Cardinality(failed) + 1
      BY <1>7
    <3> QED BY <2>3, <2>4, <2>5, <3>1, <3>2, Counts, SMTT(60) DEF QueueInv
  <2>7. (\A u, v \in Holders : held[u] = held[v] => u = v)'
    BY <1>1, <1>5 DEF QueueInv, Holders, At, TypeOK
  <2>8. InHand' \cap failed' = {}
    BY <1>6, <1>7 DEF QueueInv
  <2> QED BY <1>2, <2>1, <2>2, <2>6, <2>7, <2>8 DEF QueueInv
<1>10. CountInv'
  <2>1. At(ppc, "add")' = At(ppc, "add") /\ At(ppc, "produce")' = At(ppc, "produce")
    BY <1>2 DEF At
  <2>2. (Len(applied) = consumed + Cardinality(At(wpc, "consume")))'
    <3>1. CASE WorkerGoes(w, "consume") /\ applied' = Append(applied, i)
      <4>1. Cardinality(At(wpc, "consume")') = Cardinality(At(wpc, "consume")) + 1
        BY <1>1, <3>1, WorkerMoves
      <4>2. Len(applied') = Len(applied) + 1
        BY <1>4, <3>1 DEF TypeOK
      <4>3. Cardinality(At(wpc, "consume")) \in Nat /\ consumed \in Nat /\ consumed' = consumed
        BY <1>2, PlacesFinite DEF TypeOK
      <4> QED BY <4>1, <4>2, <4>3 DEF CountInv
    <3>2. CASE WorkerGoes(w, "failing") /\ applied' = applied
      <4>1. Cardinality(At(wpc, "consume")') = Cardinality(At(wpc, "consume"))
        BY <1>1, <3>2, WorkerMoves
      <4> QED BY <1>2, <3>2, <4>1 DEF CountInv
    <3> QED BY <1>3, <3>1, <3>2
  <2> QED BY <1>2, <2>1, <2>2 DEF CountInv
<1>11. AloneInv'
  BY <1>2 DEF AloneInv, Alone
<1>12. WakeInv'
  <2>1. At(wpc, "get")' = At(wpc, "get")
    <3>1. CASE WorkerGoes(w, "consume")
      BY <1>1, <3>1, WorkerMoves
    <3>2. CASE WorkerGoes(w, "failing")
      BY <1>1, <3>2, WorkerMoves
    <3> QED BY <1>3, <3>1, <3>2
  <2>2. At(ppc, "add")' = At(ppc, "add")
    BY <1>2 DEF At
  <2> QED BY <1>2, <2>1, <2>2 DEF WakeInv, NoLostWakeup
<1> QED BY <1>8, <1>9, <1>10, <1>11, <1>12

(* The item is counted: a Flush that is past its wait sees none of these.  *)
LEMMA ConsumeInv ==
  ASSUME IInv, NEW w \in Workers, Consume(w)
  PROVE  IInv'
<1> USE DEF IInv
<1>1. wpc[w] = "consume" /\ WorkerGoes(w, "get") /\ consumed' = consumed + 1
  BY DEF Consume, WorkerGoes
<1>2. UNCHANGED <<queue, active, putWaiting, getWaiting, added, produced, ppc, held,
                  applied, failed, abandoned, activities>>
  BY DEF Consume, queueVars, historyVars
<1>3. /\ Cardinality(At(wpc, "consume")) \in Nat \ {0}
      /\ Cardinality(At(wpc, "consume")') = Cardinality(At(wpc, "consume")) - 1
  <2>1. /\ Cardinality(At(wpc, "consume")) \in Nat
        /\ Cardinality(At(wpc, "consume")') = Cardinality(At(wpc, "consume")) - 1
    BY <1>1, WorkerMoves
  <2>2. w \in At(wpc, "consume") /\ IsFiniteSet(At(wpc, "consume"))
    BY <1>1, WorkerMoves
  <2>3. Cardinality(At(wpc, "consume")) # 0
    BY <2>2, FS_EmptySet
  <2> QED BY <2>1, <2>3
<1>4. consumed + 1 <= Len(applied) /\ Len(applied) <= added /\ added <= produced
  <2>1. Cardinality(At(ppc, "add")) \in Nat
    BY PlacesFinite
  <2>2. Len(applied) <= added
    BY Counts DEF TypeOK
  <2> QED BY <1>3, <2>1, <2>2, Counts, SMTT(60) DEF CountInv, TypeOK
<1>5. TypeOK'
  <2>1. consumed' \in 0..MaxItems
    BY <1>1, <1>4, Counts, ReceiverAssumption DEF TypeOK
  <2> QED BY <1>1, <1>2, <2>1 DEF TypeOK, WorkerGoes
<1>6. QueueInv'
  <2>1. At(wpc, "apply")' = At(wpc, "apply")
    BY <1>1, WorkerMoves
  <2> QED BY <1>2, <2>1 DEF QueueInv, Taken, Holders, InHand, Values
<1>7. CountInv'
  <2>1. At(ppc, "add")' = At(ppc, "add") /\ At(ppc, "produce")' = At(ppc, "produce")
    BY <1>2 DEF At
  <2>2. (Len(applied) = consumed + Cardinality(At(wpc, "consume")))'
    BY <1>1, <1>2, <1>3, Counts, SMTT(60) DEF CountInv, TypeOK
  <2> QED BY <1>2, <2>1, <2>2 DEF CountInv
<1>8. AloneInv'
  <2>1. produced # consumed
    BY <1>4, Counts DEF TypeOK
  <2> QED BY <1>2, <2>1 DEF AloneInv, Alone
<1>9. WakeInv'
  <2>1. At(wpc, "get")' = At(wpc, "get") \cup {w} /\ w \notin At(wpc, "get")
    BY <1>1, WorkerMoves
  <2>2. At(ppc, "add")' = At(ppc, "add")
    BY <1>2 DEF At
  <2>3. getWaiting # {} => Len(queue) <= Cardinality((At(wpc, "get") \ getWaiting)')
    <3>1. /\ (At(wpc, "get") \ getWaiting)' = (At(wpc, "get") \ getWaiting) \cup {w}
          /\ w \notin At(wpc, "get") \ getWaiting
      BY <1>2, <2>1 DEF WakeInv
    <3>2. IsFiniteSet(At(wpc, "get") \ getWaiting)
      BY PlacesFinite, FS_Difference
    <3>3. /\ Cardinality(At(wpc, "get") \ getWaiting) \in Nat
          /\ Cardinality((At(wpc, "get") \ getWaiting) \cup {w})
                = Cardinality(At(wpc, "get") \ getWaiting) + 1
      BY <3>1, <3>2, FS_CardinalityType, FS_AddElement
    <3>4. Cardinality((At(wpc, "get") \ getWaiting)')
            = Cardinality(At(wpc, "get") \ getWaiting) + 1
      BY <3>1, <3>3, Zenon
    <3> QED BY <3>3, <3>4, Counts DEF WakeInv, NoLostWakeup
  <2> QED BY <1>2, <2>1, <2>2, <2>3 DEF WakeInv, NoLostWakeup
<1> QED BY <1>5, <1>6, <1>7, <1>8, <1>9

-----------------------------------------------------------------------------
(* The invariant holds in every reachable state: the variables keep their  *)
(* types, the queue never exceeds QueueSize, the items are numbered as     *)
(* they entered, and whoever is in Flush or in the destructor is alone.    *)
THEOREM Invariance == Spec => []IInv
<1>1. ASSUME IInv, [Next]_vars PROVE IInv'
  <2>1. CASE UNCHANGED vars
    <3> USE <1>1, <2>1 DEF vars, IInv, queueVars, progressVars, historyVars
    <3>1. TypeOK'
      BY DEF TypeOK
    <3>2. QueueInv'
      BY ItemsAside
    <3>3. CountInv' /\ AloneInv'
      BY DEF CountInv, AloneInv, Alone, At
    <3>4. WakeInv'
      BY DEF WakeInv, NoLostWakeup, At
    <3> QED BY <3>1, <3>2, <3>3, <3>4
  <2>2. ASSUME NEW p \in Producers, ProducerStep(p) PROVE IInv'
    BY <1>1, <2>2, ApplyDataInv, ProduceInv, AddInv, FlushInv, WaitForCompleteInv, FlushTargetInv,
       DestroyInv, WaitAllInv DEF ProducerStep, CallStep
  <2>3. ASSUME NEW w \in Workers, WorkerStep(w) PROVE IInv'
    BY <1>1, <2>3, GetInv, ApplyInv, ConsumeInv, ExitInv DEF WorkerStep
  <2> QED BY <1>1, <2>1, <2>2, <2>3 DEF Next
<1> QED BY <1>1, InitInv, PTL DEF Spec

(* Every item passed is in exactly one place, and none is lost: the        *)
(* numbers behind those taken are in the queue or were abandoned.          *)
THEOREM ItemsAreConserved == Spec => []Conservation
<1>1. IInv => Conservation
  <2> SUFFICES ASSUME IInv PROVE Conservation
    OBVIOUS
  <2>1. Taken \in Nat /\ added \in Nat /\ Taken <= added
    BY Counts DEF IInv, TypeOK
  <2>2. 1..added = (1..Taken) \cup (Taken + 1 .. added)
    BY <2>1
  <2>3. Values(queue) \cup abandoned = Taken + 1 .. added
    <3>1. CASE active
      BY <3>1, QueueValues DEF IInv, QueueInv
    <3>2. CASE ~active
      <4>1. queue = <<>> /\ abandoned = Taken + 1 .. added
        BY <3>2 DEF IInv, QueueInv
      <4> QED BY <4>1 DEF Values
    <3> QED BY <3>1, <3>2 DEF IInv, TypeOK
  <2>4. 1..added = Values(queue) \cup InHand \cup Values(applied) \cup failed \cup abandoned
    BY <2>2, <2>3 DEF IInv, QueueInv
  <2>5. added = Len(queue) + Cardinality(Holders)
                  + Len(applied) + Cardinality(failed) + Cardinality(abandoned)
    <3>1. Cardinality(Holders) \in Nat
      BY PlacesFinite DEF Holders, IInv
    <3>2. Taken = Cardinality(Holders) + Len(applied) + Cardinality(failed)
      BY DEF IInv, QueueInv
    <3>3. added = Taken + Len(queue) + Cardinality(abandoned)
      BY <2>1, Counts DEF Taken
    <3> HIDE DEF Taken
    <3> QED BY <3>1, <3>2, <3>3, Counts
  <2> QED BY <2>4, <2>5 DEF Conservation, IInv, CountInv
<1> QED BY <1>1, Invariance, PTL

(* The delegate gets the items in their order, up to those in the hands of *)
(* workers at the same time and those refused.                             *)
THEOREM OrderIsKept == Spec => []InOrder
<1>1. IInv => InOrder
  <2> SUFFICES ASSUME IInv, NEW i \in Values(applied)
               PROVE  1..(i - 1) \subseteq Values(applied) \cup InHand \cup failed
    BY DEF InOrder
  <2>1. i \in 1..Taken /\ Taken \in Nat
    BY Counts DEF IInv, QueueInv, TypeOK
  <2>2. 1..(i - 1) \subseteq 1..Taken
    BY <2>1
  <2> QED BY <2>2 DEF IInv, QueueInv
<1> QED BY <1>1, Invariance, PTL

(* A Flush that is past its wait finds everything delivered and no worker  *)
(* in the delegate: produced = consumed leaves no item anywhere else.      *)
THEOREM FlushFindsAll == Spec => []FlushIsComplete
<1>1. IInv => FlushIsComplete
  <2> SUFFICES ASSUME IInv, NEW p \in Producers, ppc[p] = "flushTarget"
               PROVE  Values(applied) = 1..produced /\ Holders = {}
    BY DEF FlushIsComplete
  <2>1. produced = consumed
    BY DEF IInv, AloneInv
  <2>2. /\ Cardinality(At(ppc, "add")) \in Nat /\ Cardinality(At(wpc, "consume")) \in Nat
        /\ Cardinality(Holders) \in Nat /\ IsFiniteSet(Holders)
    BY PlacesFinite DEF IInv, Holders
  <2>3. produced \in Nat /\ added \in Nat
    BY DEF IInv, TypeOK
  <2>4. Taken = Cardinality(Holders) + Len(applied) + Cardinality(failed)
    BY DEF IInv, QueueInv
  <2>5. Len(applied) >= produced /\ Taken <= produced
    BY <2>1, <2>2, <2>3, Counts DEF IInv, CountInv
  <2>6. Cardinality(Holders) = 0 /\ Cardinality(failed) = 0 /\ Taken = produced
    <3>1. Cardinality(failed) \in Nat /\ Len(applied) \in Nat /\ Taken \in Nat
      BY <2>3, Counts
    <3> HIDE DEF Taken
    <3> QED BY <2>2, <2>3, <2>4, <2>5, <3>1
  <2>7. Holders = {} /\ failed = {}
    BY <2>2, <2>6, Counts, FS_EmptySet
  <2> QED BY <2>6, <2>7 DEF IInv, QueueInv, InHand
<1> QED BY <1>1, Invariance, PTL

(* No wake-up is lost: whoever sleeps has nothing to do, or somebody awake *)
(* is there to do it.                                                      *)
THEOREM WakeupsArrive == Spec => []NoLostWakeup
<1>1. IInv => NoLostWakeup
  BY DEF IInv, WakeInv
<1> QED BY <1>1, Invariance, PTL
=============================================================================
