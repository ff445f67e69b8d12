------------------------------- MODULE Playlist -------------------------------
(***************************************************************************)
(* A playlist of the Qt player: ModelImpl (playlist/supp/model.cpp), the   *)
(* ItemIteratorImpl that follows the played item (controller.cpp), and the *)
(* parts of the view that drive them (playlist/ui/playlist_view.cpp).      *)
(*                                                                         *)
(* Three threads: the GUI; the Activity of a long operation, at most one;  *)
(* the scanner, whose signals call AddItem and AddItems directly.  Signals *)
(* of the last two reach the GUI through its event queue, signals of the   *)
(* GUI itself at once.                                                     *)
(*                                                                         *)
(* What is done under the unique lock of SyncAccess is one step, as is a   *)
(* read under the shared lock.  The lock that a long operation holds while *)
(* it runs (shared for an access, upgrade for a modification) lets readers *)
(* in and keeps writers out.                                               *)
(***************************************************************************)
EXTENDS PlaylistIndices, Functions

CONSTANTS
  ItemCount,   (* bound: items found; they are numbered as they are found  *)
  MaxCalls     (* bound: modifications and operations the user asks for    *)

ASSUME PlaylistAssumption == ItemCount \in Nat /\ MaxCalls \in Nat \ {0}

VARIABLES
  items,       (* Container: the list                                      *)
  fetched,     (* FetchedItemsCount: the rows the view knows               *)
  index,       (* ItemIteratorImpl::Index                                  *)
  viewEnabled, (* the table accepts input                                  *)
  events,      (* signals queued for the GUI                               *)
  gpc, gcall,  (* where the GUI is, the call it makes                      *)
  opc, opKind, (* where the operation's thread is, what it does            *)
  clone,       (* tmpStorage                                               *)
  locked,      (* the operation holds SyncAccess                           *)
  canceled,    (* Canceled                                                 *)
  spc, sawEmpty, (* where the scanner is, what AddItem's CountItems told   *)
  remap,       (* remapping, in each thread, between lock and signal       *)
  calls,       (* calls made                                               *)
  found, removed, (* history: items found, items removed                   *)
  current,     (* history: the item that index was set to                  *)
  crossed,     (* history: index was set or moved past a map on its way    *)
  skipped      (* history: AddItem saw items that are gone                 *)

listVars == <<items, fetched, found, removed>>
iterVars == <<index, current, crossed>>
guiVars  == <<gpc, gcall, calls, viewEnabled>>
opVars   == <<opc, opKind, clone, locked, canceled>>
scanVars == <<spc, sawEmpty, skipped>>
vars == <<items, fetched, found, removed, index, current, crossed, gpc, gcall, calls,
          viewEnabled, opc, opKind, clone, locked, canceled, spc, sawEmpty, skipped,
          events, remap>>

NO_INDEX == -1
NoMap == <<>>
NoCall == [op |-> "none"]
Operations == {"sort", "select", "remove"}
New(n) == [k \in 1 .. n |-> found + k]

(* A playlist is created empty, or to be loaded from a file.               *)
Init ==
  /\ items = <<>> /\ fetched = 0 /\ found = 0 /\ removed = {}
  /\ index = NO_INDEX /\ current = 0 /\ crossed = FALSE
  /\ gpc = "idle" /\ gcall = NoCall /\ viewEnabled = TRUE
  /\ \/ opc = "none" /\ opKind = "none" /\ calls = 0
     \/ opc = "acquire" /\ opKind = "load" /\ calls = 1
  /\ clone = <<>> /\ locked = FALSE /\ canceled = FALSE
  /\ spc = "idle" /\ sawEmpty = FALSE /\ skipped = FALSE
  /\ events = <<>> /\ remap = [t \in {"gui", "op", "scan"} |-> NoMap]

-----------------------------------------------------------------------------
(* What all threads use.                                                   *)

Signal(type) == [type |-> type]
Emit(e) == events' = Append(events, e)

(* Variant: the items keep their old indices.                              *)
ReplaceUnindexed(t, list) ==
  /\ items' = list /\ fetched' = Len(list)
  /\ remap' = [remap EXCEPT ![t] = IndicesChanges(list)]

(* Variant: FetchedItemsCount is not adjusted.                             *)
ReplaceUncounted(t, list) ==
  /\ items' = Reindexed(list) /\ UNCHANGED fetched
  /\ remap' = [remap EXCEPT ![t] = IndicesChanges(list)]

(* The new list and GetIndicesChanges.                                     *)
Replace(t, list) ==
  /\ items' = Reindexed(list) /\ fetched' = Len(list)
  /\ remap' = [remap EXCEPT ![t] = IndicesChanges(list)]

Notify(t) ==
  /\ Emit([type |-> "indices", map |-> remap[t]])
  /\ remap' = [remap EXCEPT ![t] = NoMap]

(* Maps of the other threads that the iterator has not seen.               *)
InFlight(queue) ==
  \/ \E k \in DOMAIN queue : queue[k].type = "indices"
  \/ opc \in {"stopNotify", "notify"} \/ spc = "notify"

-----------------------------------------------------------------------------
(* The iterator, in the GUI's thread.                                      *)

(* Activate and SelectItem: nothing if there is no such item.              *)
SelectItem(n, queue) ==
  IF n \in Indices(items)
    THEN /\ index' = n
         /\ current' = At(items, n).item
         /\ crossed' = InFlight(queue)
    ELSE UNCHANGED iterVars

(* The item is gone: one near it takes its place, if there is one.  As     *)
(* long as index is right, another item becomes current only then.         *)
Replaced(n, queue) ==
  /\ index' = n
  /\ current' = IF crossed \/ current \in removed THEN At(items, n).item ELSE current
  /\ crossed' = InFlight(queue)

UpdateIndices(map, queue, direct) ==
  \/ index = NO_INDEX /\ SelectItem(0, queue)
  \/ /\ index # NO_INDEX /\ index \in DOMAIN map
     /\ index' = map[index]
     /\ crossed' = (crossed \/ (direct /\ InFlight(queue)))
     /\ UNCHANGED current
  \/ /\ index # NO_INDEX /\ index \notin DOMAIN map
     /\ IF map # NoMap /\ FindNewSuitableIndex(map, index) \in Indices(items)
          THEN Replaced(FindNewSuitableIndex(map, index), queue)
          ELSE index' = NO_INDEX /\ current' = 0 /\ UNCHANGED crossed

(* The user activates a row.                                               *)
Reset(n) ==
  /\ gpc = "idle" /\ viewEnabled /\ n < fetched
  /\ calls < MaxCalls /\ calls' = calls + 1
  /\ SelectItem(n, events)
  /\ UNCHANGED <<listVars, gpc, gcall, viewEnabled, opVars, scanVars, events, remap>>

(* Next and Prev, by the user or at the end of an item.  With RANDOMIZED   *)
(* any item may come.                                                      *)
Navigate(step, looped, randomized) ==
  LET n == index + step
      next == (n + Len(items)) % Len(items)
  IN  /\ gpc = "idle" /\ index # NO_INDEX /\ items # <<>>
      /\ calls < MaxCalls /\ calls' = calls + 1
      /\ n \in Indices(items) \/ looped
      /\ \E m \in IF randomized THEN Indices(items) ELSE {next} : SelectItem(m, events)
      /\ UNCHANGED <<listVars, gpc, gcall, viewEnabled, opVars, scanVars, events, remap>>

-----------------------------------------------------------------------------
(* The GUI: calls of the user.                                             *)

Begin(to, call) ==
  /\ gpc = "idle" /\ gpc' = to /\ gcall' = call
  /\ calls < MaxCalls /\ calls' = calls + 1
  /\ UNCHANGED <<listVars, iterVars, viewEnabled, opVars, scanVars, events, remap>>

(* A disabled table offers no selection and no drag; the toolbar's Clear   *)
(* remains.                                                                *)
Modification ==
  LET Shown == 0 .. fetched - 1
      Selections == SUBSET Shown \ {{}}
  IN  \/ Begin("modify", [op |-> "Clear"])
      \/ viewEnabled /\ \E set \in Selections : Begin("modify", [op |-> "RemoveItems", set |-> set])
      \/ viewEnabled /\ \E set \in Selections, n \in 0 .. fetched :
           Begin("modify", [op |-> "MoveItems", set |-> set, target |-> n])

Request == viewEnabled /\ \E o \in Operations : Begin("perform", [op |-> o])

(* The assertion in ForChoosenItems, "*indices.rbegin() < Items.size()".   *)
OutOfRange == gcall.op # "Clear" /\ items # <<>> /\ ~(gcall.set \subseteq Indices(items))

Result ==
  IF gcall.op = "Clear" THEN <<>>
    ELSE IF gcall.op = "RemoveItems" THEN Removed(items, gcall.set)
    ELSE Moved(items, gcall.set, gcall.target)

(* The indices of the items the user wants to be removed.                  *)
Unwanted ==
  IF gcall.op = "Clear" THEN Indices(items)
    ELSE IF gcall.op = "RemoveItems" THEN gcall.set \cap Indices(items) ELSE {}

Modify ==
  /\ gpc = "modify" /\ ~locked
  /\ IF OutOfRange
       THEN gpc' = "aborted" /\ UNCHANGED <<listVars, remap>>
       ELSE /\ gpc' = "notify"
            /\ Replace("gui", Result)
            /\ removed' = removed \cup {At(items, n).item : n \in Unwanted}
            /\ UNCHANGED found
  /\ UNCHANGED <<iterVars, gcall, calls, viewEnabled, opVars, scanVars, events>>

(* NotifyAboutIndexChanged in the GUI's own thread: a direct call.         *)
NotifyDirectly ==
  /\ gpc = "notify" /\ gpc' = "idle" /\ gcall' = NoCall
  /\ UpdateIndices(remap["gui"], events, TRUE)
  /\ remap' = [remap EXCEPT !["gui"] = NoMap]
  /\ UNCHANGED <<listVars, calls, viewEnabled, opVars, scanVars, events>>

(* WaitOperationFinish throws the Error of a failed operation, each time.  *)
Perform ==
  /\ gpc = "perform" /\ gpc' = "idle" /\ gcall' = NoCall
  /\ \/ /\ opc \in {"none", "done"} /\ opc' = "acquire"
        /\ opKind' = gcall.op /\ canceled' = FALSE
     \/ opc = "failed" /\ UNCHANGED <<opc, opKind, canceled>>
  /\ UNCHANGED <<listVars, iterVars, calls, viewEnabled, clone, locked, scanVars, events, remap>>

(* The progress bar that takes the place of a disabled table.              *)
CancelLongOperation ==
  /\ \/ gpc = "idle" /\ ~viewEnabled /\ ~canceled /\ gpc' = "cancel" /\ canceled' = TRUE
     \/ gpc = "cancel" /\ opc \in {"none", "done", "failed"} /\ gpc' = "idle" /\ UNCHANGED canceled
  /\ UNCHANGED <<listVars, iterVars, gcall, calls, viewEnabled, opc, opKind, clone, locked,
                 scanVars, events, remap>>

FetchMore ==
  /\ gpc = "idle" /\ fetched < Len(items)
  /\ fetched' = Len(items)
  /\ UNCHANGED <<items, found, removed, iterVars, guiVars, opVars, scanVars, events, remap>>

(* A queued signal.  The result of a selection goes to SelectItems of the  *)
(* table, which enables it, or to RemoveItems of the model.                *)
Received == gpc = "idle" /\ events # <<>> /\ events' = Tail(events)

DeliverState ==
  /\ Received /\ Head(events).type \in {"OperationStarted", "OperationStopped", "selected"}
  /\ viewEnabled' = (Head(events).type # "OperationStarted")
  /\ UNCHANGED <<listVars, iterVars, gpc, gcall, calls, opVars, scanVars, remap>>

DeliverResult ==
  /\ Received /\ Head(events).type = "ResultAcquired"
  /\ IF Head(events).set = {} THEN UNCHANGED <<gpc, gcall>>
       ELSE gpc' = "modify" /\ gcall' = [op |-> "RemoveItems", set |-> Head(events).set]
  /\ UNCHANGED <<listVars, iterVars, calls, viewEnabled, opVars, scanVars, remap>>

DeliverIndices ==
  /\ Received /\ Head(events).type = "indices"
  /\ UpdateIndices(Head(events).map, Tail(events), FALSE)
  /\ UNCHANGED <<listVars, guiVars, opVars, scanVars, remap>>

GuiCall ==
  \/ Modify \/ NotifyDirectly \/ Perform \/ CancelLongOperation
  \/ DeliverState \/ DeliverResult \/ DeliverIndices

-----------------------------------------------------------------------------
(* The thread of the operation: ExecuteOperation.                          *)

(* Variant: the lock is not kept while the operation runs.                 *)
OpAcquireBriefly ==
  /\ opc = "acquire" /\ opc' = "run"
  /\ clone' = items
  /\ Emit(Signal("OperationStarted"))
  /\ UNCHANGED <<listVars, iterVars, guiVars, opKind, locked, canceled, scanVars, remap>>

(* The signals of a load may come before there is a view to hear them.     *)
OpAcquire ==
  /\ opc = "acquire" /\ opc' = "run"
  /\ locked' = TRUE
  /\ clone' = items
  /\ Emit(Signal("OperationStarted")) \/ (opKind = "load" /\ UNCHANGED events)
  /\ UNCHANGED <<listVars, iterVars, guiVars, opKind, canceled, scanVars, remap>>

Finds(set) ==
  Emit(IF opKind = "select" THEN Signal("selected")
                            ELSE [type |-> "ResultAcquired", set |-> set])

(* Execute on the list or on its copy; OnProgress throws if Canceled.      *)
OpRun ==
  /\ opc = "run"
  /\ \/ /\ opKind \in {"select", "remove"} /\ opc' = "stop"
        /\ \E set \in SUBSET Indices(items) : Finds(set)
        /\ UNCHANGED <<clone, locked>>
     \/ /\ opKind = "sort" /\ opc' = "swap"
        /\ \E order \in Bijection(DOMAIN clone, DOMAIN clone) :
             clone' = [k \in DOMAIN clone |-> clone[order[k]]]
        /\ UNCHANGED <<locked, events>>
     \/ /\ opKind = "load" /\ opc' = "swap"
        /\ \E n \in 0 .. ItemCount - found - 1 : clone' = Added(clone, New(n))
        /\ UNCHANGED <<locked, events>>
     \/ /\ opKind = "load" /\ opc' = "failed" /\ locked' = FALSE
        /\ UNCHANGED <<clone, events>>
     \/ /\ canceled /\ opc' = "stop"
        /\ UNCHANGED <<clone, locked, events>>
  /\ UNCHANGED <<listVars, iterVars, guiVars, opKind, canceled, scanVars, remap>>

OpSwap ==
  /\ opc = "swap" /\ opc' = "stopNotify"
  /\ Replace("op", clone)
  /\ found' = Max({found} \cup Contents(clone))
  /\ UNCHANGED <<removed, iterVars, guiVars, opKind, clone, locked, canceled, scanVars, events>>

(* Variant: a canceled operation does not tell that it has stopped.        *)
OpStopIfDone ==
  /\ \/ opc = "stop" /\ opc' = "done"
     \/ opc = "stopNotify" /\ opc' = "notify"
  /\ locked' = FALSE /\ clone' = <<>>
  /\ IF canceled THEN UNCHANGED events ELSE Emit(Signal("OperationStopped"))
  /\ UNCHANGED <<listVars, iterVars, guiVars, opKind, canceled, scanVars, remap>>

OpStop ==
  /\ \/ opc = "stop" /\ opc' = "done"
     \/ opc = "stopNotify" /\ opc' = "notify"
  /\ locked' = FALSE /\ clone' = <<>>
  /\ Emit(Signal("OperationStopped"))
  /\ UNCHANGED <<listVars, iterVars, guiVars, opKind, canceled, scanVars, remap>>

OpNotify ==
  /\ opc = "notify" /\ opc' = "done"
  /\ Notify("op")
  /\ UNCHANGED <<listVars, iterVars, guiVars, opKind, clone, locked, canceled, scanVars>>

OpStep == gpc # "aborted" /\ (OpAcquire \/ OpRun \/ OpSwap \/ OpStop \/ OpNotify)

-----------------------------------------------------------------------------
(* The thread of the scanner.                                              *)

(* AddItem: CountItems takes and releases the lock.                        *)
AddItem ==
  /\ spc = "idle" /\ found < ItemCount
  /\ spc' = "add" /\ sawEmpty' = (items = <<>>)
  /\ UNCHANGED <<listVars, iterVars, guiVars, opVars, skipped, events, remap>>

(* Add, or AddAndNotify for the first item.                                *)
AddItemLocked ==
  /\ spc = "add" /\ ~locked
  /\ found' = found + 1
  /\ IF sawEmpty
       THEN spc' = "notify" /\ Replace("scan", Added(items, New(1)))
       ELSE spc' = "idle" /\ items' = Added(items, New(1)) /\ UNCHANGED <<fetched, remap>>
  /\ sawEmpty' = FALSE
  /\ skipped' = (skipped \/ (items = <<>> /\ ~sawEmpty))
  /\ UNCHANGED <<removed, iterVars, guiVars, opVars, events>>

(* AddItems: a playlist found by the scan.                                 *)
AddItems(n) ==
  /\ spc = "idle" /\ ~locked /\ n <= ItemCount - found
  /\ spc' = "notify" /\ found' = found + n
  /\ Replace("scan", Added(items, New(n)))
  /\ UNCHANGED <<removed, iterVars, guiVars, opVars, sawEmpty, skipped, events>>

(* Variant: nobody hears of the first item.                                *)
ScanSilently ==
  /\ spc = "notify" /\ spc' = "idle"
  /\ remap' = [remap EXCEPT !["scan"] = NoMap]
  /\ UNCHANGED <<listVars, iterVars, guiVars, opVars, sawEmpty, skipped, events>>

(* The map may be late: a load has added items since it was made.          *)
ScanNotify ==
  /\ spc = "notify" /\ spc' = "idle"
  /\ crossed' = (crossed \/ DOMAIN remap["scan"] # Indices(items))
  /\ Notify("scan")
  /\ UNCHANGED <<listVars, index, current, guiVars, opVars, sawEmpty, skipped>>

ScanCall ==
  gpc # "aborted" /\ (AddItem \/ \E n \in 1 .. ItemCount : AddItems(n))

ScanStep == gpc # "aborted" /\ (AddItemLocked \/ ScanNotify)

User ==
  \/ Modification \/ Request \/ FetchMore
  \/ \E n \in 0 .. ItemCount - 1 : Reset(n)
  \/ \E step \in {1, -1}, looped, randomized \in BOOLEAN : Navigate(step, looped, randomized)

(* The end of a run: the bounds are used up, or an assertion has failed.    *)
(* A thread that waits for another is not at rest, so that a run which     *)
(* goes on no more without it is a deadlock.                               *)
Rest ==
  /\ \/ gpc = "aborted"
     \/ gpc = "idle" /\ events = <<>> /\ spc = "idle" /\ opc \in {"none", "done", "failed"}
  /\ UNCHANGED vars

Next == User \/ GuiCall \/ OpStep \/ ScanCall \/ ScanStep \/ Rest

Spec == Init /\ [][Next]_vars

-----------------------------------------------------------------------------
(* Items, indices, entries of a list, maps of indices, signals, calls of   *)
(* the GUI.                                                                *)
Items == 1 .. ItemCount
Rows == 0 .. ItemCount - 1
Entries == [item : Items, index : Rows]
Maps == UNION {[old -> Rows] : old \in SUBSET Rows}
Signals ==
  [type : {"OperationStarted", "OperationStopped", "selected"}]
    \cup [type : {"ResultAcquired"}, set : SUBSET Rows]
    \cup [type : {"indices"}, map : Maps]
Calls ==
  {NoCall} \cup [op : {"Clear"} \cup Operations] \cup [op : {"RemoveItems"}, set : SUBSET Rows]
    \cup [op : {"MoveItems"}, set : SUBSET Rows, target : 0 .. ItemCount]

TypeOK ==
  /\ items \in Seq(Entries) /\ clone \in Seq(Entries)
  /\ fetched \in 0 .. Len(items) /\ found \in 0 .. ItemCount /\ removed \subseteq Items
  /\ index \in {NO_INDEX} \cup Rows /\ current \in {0} \cup Items /\ crossed \in BOOLEAN
  /\ gpc \in {"idle", "modify", "notify", "perform", "cancel", "aborted"} /\ gcall \in Calls
  /\ calls \in 0 .. MaxCalls /\ viewEnabled \in BOOLEAN
  /\ opc \in {"none", "acquire", "run", "swap", "stop", "stopNotify", "notify", "done", "failed"}
  /\ opKind \in {"none", "load"} \cup Operations /\ canceled \in BOOLEAN /\ locked \in BOOLEAN
  /\ spc \in {"idle", "add", "notify"} /\ sawEmpty \in BOOLEAN /\ skipped \in BOOLEAN
  /\ events \in Seq(Signals) /\ remap \in [{"gui", "op", "scan"} -> Maps]

(* No item is lost or doubled: what was found and not removed by the user  *)
(* is in the list once, although operations work on a copy of the list and *)
(* the scanner adds while they do.                                         *)
Conservation ==
  /\ Contents(items) = 1 .. found \ removed
  /\ Cardinality(Contents(items)) = Len(items)

Quiet == gpc = "idle" /\ events = <<>> /\ opc \in {"none", "done"} /\ spc = "idle"

(* When all signals have arrived the iterator stands on the item that was  *)
(* selected, whatever was sorted, moved, removed and added around it.  The *)
(* exception is a map applied to an index it was not made for: the index    *)
(* was set, or changed directly by a modification of the user, while the   *)
(* map of another thread was on its way, or the scanner's map comes after  *)
(* the maps of a load and of a later operation.                            *)
IteratorFollows ==
  Quiet /\ index # NO_INDEX /\ ~crossed =>
    index \in Indices(items) /\ At(items, index).item = current

(* A playlist that has got items has a current one.  "Called for each item *)
(* found during scan, so notify only first time" (model.cpp, AddItem): the *)
(* first is notified unless the user clears the list between AddItem's two *)
(* locks.                                                                  *)
FirstItemNotified == Quiet /\ ~skipped /\ ~crossed /\ items # <<>> => index # NO_INDEX

(* The table is not left disabled: every operation that started tells that *)
(* it stopped, canceled or not.  A load that fails with an Error does not. *)
ViewReenabled == Quiet => viewEnabled

(* storage.cpp, ForChoosenItems, asserts "*indices.rbegin() < Items.size()".*)
(* An operation finds the items to remove, the list is changed, and then   *)
(* the result arrives at RemoveItems.                                      *)
IndicesInRange == gpc # "aborted"
-----------------------------------------------------------------------------
(* Why these properties hold: what is true of the list, the copy, the      *)
(* calls and the signals in every state.                                   *)

Distinct(s) == \A j, k \in DOMAIN s : s[j].item = s[k].item => j = k

(* AddItem has reserved the item it is going to add.                       *)
ListInv ==
  /\ Distinct(items) /\ \A k \in DOMAIN items : items[k].index = k - 1
  /\ Contents(items) = 1 .. found \ removed /\ removed \subseteq 1 .. found
  /\ spc = "add" => found < ItemCount

(* The copy has the items of the list, found by their indices, and those   *)
(* of a load.                                                              *)
Rearranged(s) ==
  /\ Distinct(s) /\ \A j, k \in DOMAIN s : s[j].index = s[k].index => j = k
  /\ \A k \in DOMAIN s : s[k].index \in Indices(items) => s[k] = At(items, s[k].index)
  /\ Indices(items) \subseteq {s[k].index : k \in DOMAIN s}
  /\ \A k \in DOMAIN s : s[k].index \in Indices(s)
  /\ \E n \in 0 .. ItemCount - found :
       /\ Contents(s) = Contents(items) \cup (found + 1 .. found + n)
       /\ n = 0 \/ found + n < ItemCount

CloneInv ==
  /\ locked <=> opc \in {"run", "swap", "stop", "stopNotify"}
  /\ opc = "run" => clone = items
  /\ opc = "swap" => Rearranged(clone)

CallInv ==
  /\ gpc = "modify" => gcall.op \in {"Clear", "RemoveItems", "MoveItems"}
  /\ gpc = "modify" /\ gcall.op = "MoveItems" => gcall.set \subseteq Indices(items) /\ gcall.target <= Len(items)
  /\ gpc = "perform" => gcall.op \in Operations

(* What is queued enables the view, unless an operation is going on.       *)
Enabling(queue, enabled) ==
  LET Starts(k) == queue[k].type = "OperationStarted"
  IN  \/ enabled /\ \A k \in DOMAIN queue : ~Starts(k)
      \/ \E k \in DOMAIN queue :
           /\ queue[k].type \in {"OperationStopped", "selected"}
           /\ \A j \in DOMAIN queue : j > k => ~Starts(j)

ViewInv == opc \in {"none", "acquire", "notify", "done"} => Enabling(events, viewEnabled)

(* Where the maps in the queue take the index, one after the other.        *)
Onward(e, n) == IF e.type = "indices" /\ n \in DOMAIN e.map THEN e.map[n] ELSE n

Route(queue, n) ==
  LET to[k \in 0 .. Len(queue)] == IF k = 0 THEN n ELSE Onward(queue[k], to[k - 1])
  IN  to

OpPending == opc \in {"stopNotify", "notify"}

(* The maps of the queue and then the operation's take the index to the    *)
(* current item; the scanner's change nothing.                             *)
RouteInv ==
  LET route == Route(events, index)
      q == route[Len(events)]
      n == IF OpPending THEN remap["op"][q] ELSE q
  IN  /\ \A k \in DOMAIN events :
           events[k].type = "indices" => route[k - 1] \in DOMAIN events[k].map
      /\ OpPending => q \in DOMAIN remap["op"] /\ DOMAIN remap["op"] \subseteq Indices(items)
      /\ n \in Indices(items) /\ At(items, n).item = current

(* A modification of the user that no other map has met.                   *)
DirectInv ==
  IF index \in DOMAIN remap["gui"]
    THEN remap["gui"][index] \in Indices(items) /\ At(items, remap["gui"][index]).item = current
    ELSE current \in removed

FollowInv ==
  /\ spc = "notify" => \A i \in DOMAIN remap["scan"] : remap["scan"][i] = i
  /\ index # NO_INDEX /\ ~crossed /\ gpc # "notify" => RouteInv
  /\ index # NO_INDEX /\ ~crossed /\ gpc = "notify" /\ ~InFlight(events) => DirectInv

(* Without an index there is a map on its way, and it will be set.         *)
FirstInv ==
  /\ ~skipped /\ ~crossed /\ items # <<>> /\ index = NO_INDEX => InFlight(events) \/ gpc = "notify"
  /\ gpc = "notify" /\ ~InFlight(events) /\ ~skipped =>
       /\ DOMAIN remap["gui"] = {} => items = <<>>
       /\ \A i \in DOMAIN remap["gui"] : remap["gui"][i] \in Indices(items)

IInv ==
  TypeOK /\ ListInv /\ CloneInv /\ CallInv /\ ViewInv /\ FollowInv /\ FirstInv
=============================================================================
