---------------------------- MODULE AsyncReceiver ----------------------------
(***************************************************************************)
(* Async::DataReceiver of async/data_receiver.h: a receiver that hands the *)
(* data over to worker threads, which pass it to the delegate (a file      *)
(* stream, a converter), with its SizedQueue (async/sized_queue.h),        *)
(* Progress (async/src/progress.cpp) and Activities (see AsyncJob).        *)
(*                                                                         *)
(* Producers call ApplyData: one thread in the file backend and in the     *)
(* console player, several analysis threads in the extractor, whose        *)
(* receivers stand in a row.  Flush and the destructor come when all other *)
(* calls have returned: the stage before has counted its items by then.    *)
(*                                                                         *)
(* Items are numbered in the order they enter the queue.  Everything       *)
(* SizedQueue does under its mutex is one step; waiting on one of its two  *)
(* condition variables and being notified are modelled as such, so that a  *)
(* forgotten notification would show.                                      *)
(***************************************************************************)
EXTENDS Integers, Sequences, FiniteSets

CONSTANTS
  Producers,   (* the threads that pass items                               *)
  Workers,     (* the worker threads; their Activities were started         *)
  QueueSize,   (* SizedQueue::MaxSize                                       *)
  MaxItems,    (* bound: ApplyData is called so many times at most          *)
  MayFail      (* TRUE if the delegate's ApplyData may throw                *)

ASSUME ReceiverAssumption ==
  /\ Producers # {} /\ IsFiniteSet(Producers)
  /\ Workers # {} /\ IsFiniteSet(Workers)
  /\ QueueSize \in Nat \ {0} /\ MaxItems \in Nat
  /\ MayFail \in BOOLEAN

VARIABLES
  queue, active,       (* SizedQueue::Container, Active                     *)
  putWaiting,          (* the producers that wait on CanPutDataEvent        *)
  getWaiting,          (* the workers that wait on CanGetDataEvent          *)
  produced, consumed,  (* SynchronizedProgress                              *)
  added,               (* items that were put into the queue                *)
  ppc,                 (* where each producer is                            *)
  wpc, held,           (* where each worker is, the item it holds, or 0     *)
  applied, failed,     (* history: items the delegate took, or refused      *)
  abandoned,           (* history: items removed from the queue by Reset    *)
  activities           (* FALSE once WaitAll has emptied Activities         *)

queueVars    == <<queue, active, putWaiting, getWaiting, added>>
progressVars == <<produced, consumed>>
historyVars  == <<applied, failed, abandoned>>
vars == <<queue, active, putWaiting, getWaiting, added, produced, consumed, ppc, wpc, held,
          applied, failed, abandoned, activities>>

(* The threads at a place; the values of a sequence.                       *)
At(pc, place) == {x \in DOMAIN pc : pc[x] = place}
Values(s) == {s[i] : i \in DOMAIN s}

Init ==
  /\ queue = <<>> /\ active = TRUE
  /\ putWaiting = {} /\ getWaiting = {} /\ added = 0
  /\ produced = 0 /\ consumed = 0
  /\ ppc = [p \in Producers |-> "idle"]
  /\ wpc = [w \in Workers |-> "get"] /\ held = [w \in Workers |-> 0]
  /\ applied = <<>> /\ failed = {} /\ abandoned = {}
  /\ activities = TRUE

-----------------------------------------------------------------------------
(* A producer.                                                             *)

Go(p, from, to) == ppc[p] = from /\ ppc' = [ppc EXCEPT ![p] = to]

Alone(p) == \A q \in Producers \ {p} : ppc[q] = "idle"

(* Activity::IsExecuted: until the thread has set STOPPED or FAILED.       *)
IsExecuted(w) == wpc[w] \notin {"stopped", "failed"}

WorkersAvailable == activities /\ \E w \in Workers : IsExecuted(w)

(* Without a worker, WaitAll empties Activities and an Error is thrown:    *)
(* the first one of the workers, or an empty one if they were joined.      *)
CheckWorkersAvailable(p, next) == Go(p, "idle", IF WorkersAvailable THEN next ELSE "waitAll")

ApplyData(p) ==
  /\ \A q \in Producers : ppc[q] \in {"idle", "produce", "add", "waitAll"}
  /\ produced + Cardinality(At(ppc, "produce")) < MaxItems
  /\ CheckWorkersAvailable(p, "produce")
  /\ UNCHANGED <<queueVars, progressVars, wpc, held, historyVars, activities>>

Produce(p) ==
  /\ Go(p, "produce", "add")
  /\ produced' = produced + 1
  /\ UNCHANGED <<queueVars, consumed, wpc, held, historyVars, activities>>

(* Variant: nobody is notified of the new item.                            *)
NotifyNobody == UNCHANGED getWaiting

(* notify_one wakes any one of the waiting workers.                        *)
NotifyOneWorker ==
  IF getWaiting = {} THEN UNCHANGED getWaiting
                     ELSE \E w \in getWaiting : getWaiting' = getWaiting \ {w}

(* Variant: one item too many.                                             *)
CanPutOneMore == ~active \/ Len(queue) <= QueueSize

CanPutData == ~active \/ Len(queue) < QueueSize

Add(p) ==
  /\ ppc[p] = "add" /\ p \notin putWaiting
  /\ IF CanPutData
       THEN /\ Go(p, "add", "idle")
            /\ IF active THEN queue' = Append(queue, added + 1) /\ added' = added + 1 /\ NotifyOneWorker
                         ELSE UNCHANGED <<queue, added, getWaiting>>
            /\ UNCHANGED putWaiting
       ELSE /\ putWaiting' = putWaiting \cup {p}
            /\ UNCHANGED <<ppc, queue, added, getWaiting>>
  /\ UNCHANGED <<active, progressVars, wpc, held, historyVars, activities>>

Flush(p) ==
  /\ Alone(p)
  /\ CheckWorkersAvailable(p, "flushWait")
  /\ UNCHANGED <<queueVars, progressVars, wpc, held, historyVars, activities>>

(* Variant: Flush waits until the queue is empty, not until all is done.   *)
WaitForEmptyQueue(p) ==
  /\ queue = <<>> /\ Go(p, "flushWait", "flushTarget")
  /\ UNCHANGED <<queueVars, progressVars, wpc, held, historyVars, activities>>

WaitForComplete(p) ==
  /\ produced = consumed /\ Go(p, "flushWait", "flushTarget")
  /\ UNCHANGED <<queueVars, progressVars, wpc, held, historyVars, activities>>

(* Delegate->Flush(), called by the same thread.                           *)
FlushTarget(p) ==
  /\ Go(p, "flushTarget", "idle")
  /\ UNCHANGED <<queueVars, progressVars, wpc, held, historyVars, activities>>

(* SizedQueue::Reset.                                                      *)
Reset ==
  /\ abandoned' = Values(queue)
  /\ queue' = <<>> /\ active' = FALSE /\ putWaiting' = {}
  /\ UNCHANGED <<added, progressVars, wpc, held, applied, failed, activities>>

(* Variant: Reset forgets the readers.                                     *)
DestroySilently(p) ==
  Alone(p) /\ Go(p, "idle", "join") /\ Reset /\ UNCHANGED getWaiting

(* The destructor: Reset wakes everybody, then WaitAll.                    *)
Destroy(p) ==
  Alone(p) /\ Go(p, "idle", "join") /\ Reset /\ getWaiting' = {}

WaitAll(p) ==
  /\ Go(p, "waitAll", "idle") \/ Go(p, "join", "gone")
  /\ \A w \in Workers : ~IsExecuted(w)
  /\ activities' = FALSE
  /\ UNCHANGED <<queueVars, progressVars, wpc, held, historyVars>>

(* What goes on once a call was made.                                      *)
CallStep(p) ==
  Produce(p) \/ Add(p) \/ WaitForComplete(p) \/ FlushTarget(p) \/ WaitAll(p)

ProducerStep(p) == ApplyData(p) \/ Flush(p) \/ Destroy(p) \/ CallStep(p)

-----------------------------------------------------------------------------
(* A worker: TransceiveOperation::Execute.                                 *)

CanGetData == ~active \/ queue # <<>>

(* What Get does with item number i: the code takes the first one and      *)
(* notifies one of the producers that wait.                                *)
NotifyOneProducer ==
  IF putWaiting = {} THEN UNCHANGED putWaiting
                     ELSE \E p \in putWaiting : putWaiting' = putWaiting \ {p}

Take(w, i) ==
  /\ held' = [held EXCEPT ![w] = queue[i]]
  /\ queue' = SubSeq(queue, 1, i - 1) \o SubSeq(queue, i + 1, Len(queue))
  /\ wpc' = [wpc EXCEPT ![w] = "apply"]

(* Variants: the last item, the item stays, the producer is not notified.  *)
PopLast(w) == Take(w, Len(queue)) /\ NotifyOneProducer
PopNothing(w) ==
  /\ held' = [held EXCEPT ![w] = Head(queue)]
  /\ NotifyOneProducer
  /\ wpc' = [wpc EXCEPT ![w] = "apply"]
  /\ UNCHANGED queue
PopSilently(w) == Take(w, 1) /\ UNCHANGED putWaiting

PopFront(w) == Take(w, 1) /\ NotifyOneProducer

Get(w) ==
  /\ wpc[w] = "get" /\ w \notin getWaiting
  /\ IF ~CanGetData
       THEN getWaiting' = getWaiting \cup {w} /\ UNCHANGED <<queue, putWaiting, wpc, held>>
       ELSE /\ UNCHANGED getWaiting
            /\ IF active
                 THEN PopFront(w)
                 ELSE /\ wpc' = [wpc EXCEPT ![w] = "exit"]
                      /\ UNCHANGED <<queue, putWaiting, held>>
  /\ UNCHANGED <<active, added, progressVars, ppc, historyVars, activities>>

(* Target->ApplyData(val): it takes the item or throws.                    *)
Apply(w) ==
  /\ wpc[w] = "apply"
  /\ held' = [held EXCEPT ![w] = 0]
  /\ \/ /\ wpc' = [wpc EXCEPT ![w] = "consume"]
        /\ applied' = Append(applied, held[w])
        /\ UNCHANGED failed
     \/ /\ MayFail
        /\ wpc' = [wpc EXCEPT ![w] = "failing"]
        /\ failed' = failed \cup {held[w]}
        /\ UNCHANGED applied
  /\ UNCHANGED <<queueVars, progressVars, ppc, abandoned, activities>>

Consume(w) ==
  /\ wpc[w] = "consume" /\ wpc' = [wpc EXCEPT ![w] = "get"]
  /\ consumed' = consumed + 1
  /\ UNCHANGED <<queueVars, produced, ppc, held, historyVars, activities>>

(* WorkProc sets STOPPED after Execute, FAILED after an Error.             *)
Exit(w) ==
  /\ \/ wpc[w] = "exit" /\ wpc' = [wpc EXCEPT ![w] = "stopped"]
     \/ wpc[w] = "failing" /\ wpc' = [wpc EXCEPT ![w] = "failed"]
  /\ UNCHANGED <<queueVars, progressVars, ppc, held, historyVars, activities>>

WorkerStep(w) == Get(w) \/ Apply(w) \/ Consume(w) \/ Exit(w)

(* Activities has no lock: if two producers find no worker alive, both     *)
(* empty the list, and nothing can be said of what follows.                *)
Raced == activities /\ \E p, q \in Producers : p # q /\ ppc[p] = "waitAll" /\ ppc[q] = "waitAll"

Next ==
  /\ ~Raced
  /\ \/ \E p \in Producers : ProducerStep(p)
     \/ \E w \in Workers : WorkerStep(w)

Spec == Init /\ [][Next]_vars

(* Threads that can run do; nobody has to call ApplyData or Flush, but the *)
(* calls made go on, and the receiver is destroyed at last.                *)
FairSpec ==
  /\ Spec
  /\ \A p \in Producers : WF_vars(~Raced /\ CallStep(p))
  /\ \A w \in Workers : WF_vars(~Raced /\ WorkerStep(w))

-----------------------------------------------------------------------------
(* The variables have their types and the queue keeps its limit.           *)
TypeOK ==
  /\ queue \in Seq(1..MaxItems) /\ Len(queue) <= QueueSize /\ active \in BOOLEAN
  /\ putWaiting \subseteq Producers /\ getWaiting \subseteq Workers
  /\ produced \in 0..MaxItems /\ consumed \in 0..MaxItems /\ added \in 0..MaxItems
  /\ ppc \in [Producers -> {"idle", "produce", "add", "waitAll", "flushWait", "flushTarget",
                             "join", "gone"}]
  /\ wpc \in [Workers -> {"get", "apply", "consume", "exit", "stopped", "failing", "failed"}]
  /\ held \in [Workers -> 0..MaxItems]
  /\ applied \in Seq(1..MaxItems)
  /\ failed \subseteq 1..MaxItems /\ abandoned \subseteq 1..MaxItems
  /\ activities \in BOOLEAN

Holders == At(wpc, "apply")
InHand == {held[w] : w \in Holders}
Failing == At(wpc, "failing") \cup At(wpc, "failed")

(* Every item passed is in exactly one place: still with its producer, in  *)
(* the queue, in a worker's hands, taken or refused by the delegate, or    *)
(* abandoned by the destructor.  None is lost and none is handed over      *)
(* twice.                                                                  *)
Conservation ==
  /\ produced = added + Cardinality(At(ppc, "add"))
  /\ 1..added = Values(queue) \cup InHand \cup Values(applied) \cup failed \cup abandoned
  /\ added = Len(queue) + Cardinality(Holders)
               + Len(applied) + Cardinality(failed) + Cardinality(abandoned)

(* The delegate gets the items in their order, but for those that workers  *)
(* handle at the same time: an item overtaken is in a worker's hands or    *)
(* was refused.  With one worker (as in the file backend) there is no      *)
(* overtaking.                                                             *)
InOrder ==
  \A i \in Values(applied) : 1..(i - 1) \subseteq Values(applied) \cup InHand \cup failed

(* When the delegate is flushed it has got everything, and no worker is    *)
(* inside it: Flush of the stream does not run beside ApplyData.           *)
FlushIsComplete ==
  (\E p \in Producers : ppc[p] = "flushTarget") => Values(applied) = 1..produced /\ Holders = {}

(* Whoever sleeps on a condition variable has nothing to do: no wake-up is *)
(* lost.  (A worker that was notified counts as awake.)                    *)
NoLostWakeup ==
  /\ putWaiting # {} =>
       active /\ QueueSize - Len(queue) <= Cardinality(At(ppc, "add") \ putWaiting)
  /\ getWaiting # {} =>
       active /\ Len(queue) <= Cardinality(At(wpc, "get") \ getWaiting)

(* The calls end, unless a worker has failed: an item that was refused is  *)
(* never counted, so that Flush waits for ever, and so does ApplyData at a *)
(* full queue when no worker is left, or two producers race.               *)
CallsEnd ==
  \A p \in Producers : ppc[p] \notin {"idle", "gone"} ~> ppc[p] \in {"idle", "gone"} \/ Failing # {}

(* The destructor returns whatever the workers did.                        *)
DestructorReturns == \A p \in Producers : ppc[p] = "join" ~> ppc[p] = "gone"

-----------------------------------------------------------------------------
(* The inductive invariant.  Taken is the number of items that workers     *)
(* took from the queue; those behind them are in it, or were until Reset.  *)

Taken == added - Len(queue) - Cardinality(abandoned)

QueueInv ==
  /\ \A k \in DOMAIN queue : queue[k] = Taken + k
  /\ IF active THEN abandoned = {} ELSE queue = <<>> /\ abandoned = Taken + 1 .. added
  /\ 1..Taken = InHand \cup Values(applied) \cup failed
  /\ Taken = Cardinality(Holders) + Len(applied) + Cardinality(failed)
  /\ \A v, w \in Holders : held[v] = held[w] => v = w
  /\ InHand \cap failed = {}

CountInv ==
  /\ produced = added + Cardinality(At(ppc, "add"))
  /\ produced + Cardinality(At(ppc, "produce")) <= MaxItems
  /\ Len(applied) = consumed + Cardinality(At(wpc, "consume"))

(* Flush and the destructor run alone.                                     *)
AloneInv ==
  /\ \A p \in Producers :
       /\ ppc[p] \in {"flushWait", "flushTarget", "join", "gone"} => Alone(p)
       /\ ppc[p] = "flushTarget" => produced = consumed
  /\ ~active <=> \E p \in Producers : ppc[p] \in {"join", "gone"}

WakeInv ==
  /\ putWaiting \subseteq At(ppc, "add") /\ getWaiting \subseteq At(wpc, "get")
  /\ NoLostWakeup

IInv == TypeOK /\ QueueInv /\ CountInv /\ AloneInv /\ WakeInv
=============================================================================
