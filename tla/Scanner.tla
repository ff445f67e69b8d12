-------------------------------- MODULE Scanner --------------------------------
(***************************************************************************)
(* The scanner of a playlist (playlist/supp/scanner.cpp): ScannerImpl, its *)
(* ScanRoutine, the FilesQueue between them, and the scanner's widget      *)
(* (playlist/ui/scanner_view.cpp).                                         *)
(*                                                                         *)
(* All calls come from the GUI's thread.  The routine is a coroutine of an *)
(* Async::Job, of which this module has what one caller and one thread can *)
(* see; AsyncJob is the job itself.  A session that ends replaces the      *)
(* queue; a name may still be added to the old one.                        *)
(*                                                                         *)
(* A name is a file or a directory of some files.  A scanned file is       *)
(* <<name, number of the file in it>>.  That the file is a module, what it *)
(* holds and whether it can be read makes no difference here.              *)
(***************************************************************************)
EXTENDS Naturals, Sequences, SequencesExt

CONSTANTS
  MaxNames,    (* bound: names added; they are numbered as they are added  *)
  MaxFiles,    (* bound: files in a directory                              *)
  MaxCalls,    (* bound: calls of Pause, Resume and Stop                   *)
  LowerBound,  (* PrefetchedFilenames: fetch if there are fewer names than *)
  UpperBound   (* this, until there are so many                            *)

ASSUME ScannerAssumption ==
  /\ MaxNames \in Nat /\ MaxFiles \in Nat /\ MaxCalls \in Nat
  /\ LowerBound \in Nat \ {0} /\ UpperBound \in Nat /\ LowerBound <= UpperBound

VARIABLES
  queue,       (* ScanRoutine::Queue                                       *)
  session,     (* the number of the queue                                  *)
  event,       (* JobImpl::State; NONE after Reset                         *)
  spc, why,    (* where the routine is; what made it end                   *)
  file,        (* the file in ScanFile                                     *)
  gpc, gcall,  (* where the GUI is, the call it makes                      *)
  target,      (* the queue AddItems has read                              *)
  signals,     (* signals queued for the GUI                               *)
  checked,     (* the pause button                                         *)
  calls,       (* calls made                                               *)
  added,       (* history: names added                                     *)
  expected,    (* history: the files in them                               *)
  scanned,     (* history: files scanned, in their order                   *)
  dropped,     (* history: files dropped by a Stop                         *)
  late         (* history: files added after the last look at the queue    *)

jobVars     == <<event, spc, why>>
guiVars     == <<gpc, gcall, target, checked, calls>>
addVars     == <<added, expected, late>>
vars == <<queue, session, event, spc, why, file, gpc, gcall, target, signals, checked,
          calls, added, expected, scanned, dropped, late>>

Names == [id : 1 .. MaxNames, dir : BOOLEAN, files : 0 .. MaxFiles]
NoFile == <<0, 0>>
NoName == [id |-> 0, dir |-> FALSE, files |-> 0]
EmptyQueue == [source |-> <<>>, curDir |-> <<>>, cache |-> <<>>]

Init ==
  /\ queue = EmptyQueue /\ session = 0
  /\ event = "NONE" /\ spc = "none" /\ why = "none" /\ file = NoFile
  /\ gpc = "idle" /\ gcall = NoName /\ target = 0 /\ signals = <<>>
  /\ checked = FALSE /\ calls = 0
  /\ added = 0 /\ expected = {} /\ scanned = <<>> /\ dropped = {} /\ late = {}

-----------------------------------------------------------------------------
(* The queue: names, resolved to files, prefetched.                        *)

Files(name) == [k \in 1 .. name.files |-> <<name.id, k>>]
FilesOf(q) == ToSet(q.cache) \cup ToSet(q.curDir) \cup UNION {ToSet(Files(n)) : n \in ToSet(q.source)}

ResolvedEmpty(q) == q.curDir = <<>> /\ q.source = <<>>
QueueEmpty(q) == q.cache = <<>> /\ ResolvedEmpty(q)

(* ResolvedFilenames::GetNext: names leave the list until one has a file.  *)
Holding(q) == {i \in DOMAIN q.source : q.source[i].files > 0}
Exhausted(q) == q.curDir = <<>> /\ Holding(q) = {}

Open(q) ==
  IF q.curDir # <<>>
    THEN q
    ELSE LET i == Min(Holding(q))
         IN  [q EXCEPT !.source = SubSeq(@, i + 1, Len(@)), !.curDir = Files(q.source[i])]

(* A turn of Prefetch's loop, and the loop.                                *)
Fetch(q) ==
  LET o == Open(q)
  IN  [o EXCEPT !.cache = Append(@, Head(o.curDir)), !.curDir = Tail(@)]

Turn(q, bound) == IF Len(q.cache) < bound /\ ~Exhausted(q) THEN Fetch(q) ELSE q

Turns(q, bound) ==
  LET fetched[n \in 0 .. bound] == IF n = 0 THEN q ELSE Turn(fetched[n - 1], bound)
  IN  fetched

Fill(q, bound) == Turns(q, bound)[bound]

Fetches(q) == Len(q.cache) < LowerBound

(* Variants: what is fetched goes to the front; one file too many.         *)
PrefetchAhead(q) ==
  IF Fetches(q)
    THEN [Fill([q EXCEPT !.cache = <<>>], UpperBound - Len(q.cache)) EXCEPT !.cache = @ \o q.cache]
    ELSE q
PrefetchOneMore(q) == IF Fetches(q) THEN Fill(q, UpperBound + 1) ELSE q

Prefetch(q) == IF Fetches(q) THEN Fill(q, UpperBound) ELSE q

(* Variant: whether there is a name left is asked before the loop only.    *)
UnderflowUnasked(q) == Fetches(q) /\ ~ResolvedEmpty(q) /\ Len(Prefetch(q).cache) < UpperBound

(* Directories are opened until one has a file, and the last has none.     *)
Underflow(q) ==
  /\ Fetches(q) /\ Len(Prefetch(q).cache) < UpperBound
  /\ ~ResolvedEmpty(Prefetch(q))

-----------------------------------------------------------------------------
(* The GUI.                                                                *)

(* Variant: the thread counts as running until it is joined.               *)
ExecutedUntilJoined == spc # "none"

Executed == spc \notin {"none", "done"}

Step(from, to) == gpc = from /\ gpc' = to

(* AddItems: the pointer to the queue is read without a lock.              *)
AddItems(dir, files) ==
  /\ Step("idle", "add") /\ added < MaxNames
  /\ dir \/ files = 1
  /\ gcall' = [id |-> added + 1, dir |-> dir, files |-> files]
  /\ target' = session
  /\ UNCHANGED <<queue, session, jobVars, file, signals, checked, calls, addVars, scanned, dropped>>

(* FilesQueue::Add.  From the last test of Empty on, the session will not  *)
(* look at the queue again.                                                *)
QueueAdd ==
  LET new == ToSet(Files(gcall))
  IN  /\ Step("add", "start")
      /\ IF target = session THEN queue' = [queue EXCEPT !.source = Append(@, gcall)]
                             ELSE UNCHANGED queue
      /\ added' = added + 1 /\ expected' = expected \cup new
      /\ late' = IF target # session \/ spc \in {"setStopped", "finalize", "createQueue", "exit"}
                   THEN late \cup new ELSE late
      /\ gcall' = NoName /\ target' = 0
      /\ UNCHANGED <<session, jobVars, file, signals, checked, calls, scanned, dropped>>

(* The button resumes by Start; Stop is the other button, or the end.      *)
Control(o) ==
  /\ calls < MaxCalls /\ calls' = calls + 1
  /\ \/ o = "Pause" /\ ~checked /\ Step("idle", "pause") /\ checked' = TRUE
     \/ o = "Resume" /\ checked /\ Step("idle", "start") /\ checked' = FALSE
     \/ o = "Stop" /\ Step("idle", "stop") /\ UNCHANGED checked
  /\ UNCHANGED <<queue, session, jobVars, file, gcall, target, signals, addVars, scanned, dropped>>

(* ScanStop of the widget unchecks the button, which resumes the scan.     *)
Deliver ==
  /\ gpc = "idle" /\ signals # <<>>
  /\ signals' = Tail(signals)
  /\ IF Head(signals) = "ScanStopped" /\ checked
       THEN checked' = FALSE /\ gpc' = "start"
       ELSE UNCHANGED <<checked, gpc>>
  /\ UNCHANGED <<queue, session, jobVars, file, gcall, target, calls, addVars, scanned, dropped>>

(* JobImpl::Start.                                                         *)
Start ==
  /\ \/ /\ ~Executed /\ Step("start", IF spc = "none" THEN "spawn" ELSE "restart")
        /\ UNCHANGED event
     \/ /\ Executed /\ event = "PAUSED" /\ event' = "STARTING"
        /\ Step("start", "startWait")
     \/ /\ Executed /\ event # "PAUSED"
        /\ Step("start", "idle") /\ UNCHANGED event
     \/ /\ event = "STARTED" /\ Step("startWait", "idle") /\ UNCHANGED event
     \/ /\ event = "STOPPED" /\ Step("startWait", "stop") /\ UNCHANGED event
  /\ UNCHANGED <<queue, session, spc, why, file, gcall, target, signals, checked, calls, addVars,
                 scanned, dropped>>

(* Initialize is called by the new thread while Start waits for it.        *)
Spawn ==
  /\ \/ /\ Step("spawn", "publish") /\ spc' = "test" /\ why' = "none"
        /\ signals' = Append(signals, "ScanStarted") /\ UNCHANGED event
     \/ Step("publish", "idle") /\ event' = "STARTED" /\ UNCHANGED <<spc, why, signals>>
  /\ UNCHANGED <<queue, session, file, gcall, target, checked, calls, addVars, scanned, dropped>>

Pause ==
  /\ \/ /\ Executed /\ event # "PAUSED" /\ event' = "PAUSING" /\ Step("pause", "pauseWait")
     \/ /\ event = "PAUSED" /\ gpc \in {"pause", "pauseWait"} /\ gpc' = "idle" /\ UNCHANGED event
     \/ /\ event = "STOPPED" /\ Step("pauseWait", "stop") /\ UNCHANGED event
     \/ /\ ~Executed /\ Step("pause", IF spc = "none" THEN "idle" ELSE "stop") /\ UNCHANGED event
  /\ UNCHANGED <<queue, session, spc, why, file, gcall, target, signals, checked, calls, addVars,
                 scanned, dropped>>

(* FinishAction, for Stop and before a new session.                        *)
Finish ==
  /\ \/ gpc = "stop" /\ spc = "none" /\ gpc' = "idle" /\ UNCHANGED <<event, spc>>
     \/ gpc = "stop" /\ spc # "none" /\ gpc' = "stopWait" /\ event' = "STOPPING" /\ UNCHANGED spc
     \/ gpc = "restart" /\ gpc' = "restartWait" /\ event' = "STOPPING" /\ UNCHANGED spc
     \/ /\ gpc \in {"stopWait", "restartWait"} /\ spc = "done" /\ spc' = "none" /\ event' = "NONE"
        /\ gpc' = IF gpc = "stopWait" THEN "idle" ELSE "spawn"
  /\ UNCHANGED <<queue, session, why, file, gcall, target, signals, checked, calls, addVars,
                 scanned, dropped>>

GuiStep ==
  spc # "crashed" /\ (QueueAdd \/ Deliver \/ Start \/ Spawn \/ Pause \/ Finish)

User ==
  /\ spc # "crashed"
  /\ \/ \E dir \in BOOLEAN, files \in 0 .. MaxFiles : AddItems(dir, files)
     \/ \E o \in {"Pause", "Resume", "Stop"} : Control(o)

-----------------------------------------------------------------------------
(* The routine.                                                            *)

Goto(from, to) == spc = from /\ spc' = to

(* Execute's loop.  takeFirst of an empty list ends it all.                *)
TestEmpty ==
  /\ IF QueueEmpty(queue) THEN Goto("test", "setStopped") /\ why' = "normal"
                          ELSE Goto("test", "getNext") /\ UNCHANGED why
  /\ UNCHANGED <<queue, session, event, file, guiVars, signals, addVars, scanned, dropped>>

GetNext ==
  LET filled == Prefetch(queue)
  IN  /\ IF Underflow(queue)
           THEN Goto("getNext", "crashed") /\ UNCHANGED <<queue, file>>
           ELSE /\ Goto("getNext", "scan")
                /\ file' = Head(filled.cache)
                /\ queue' = [filled EXCEPT !.cache = Tail(@)]
      /\ UNCHANGED <<session, event, why, guiVars, signals, addVars, scanned, dropped>>

(* ScanFile.  Its progress yields when the period of reports is over.      *)
ScanFile ==
  /\ Goto("scan", "test")
  /\ scanned' = Append(scanned, file) /\ file' = NoFile
  /\ UNCHANGED <<queue, session, event, why, guiVars, signals, addVars, dropped>>

Yield ==
  /\ \/ event = "STOPPING" /\ Goto("scan", "setStopped") /\ why' = "stopping" /\ UNCHANGED event
     \/ event = "PAUSING" /\ Goto("scan", "sleep") /\ event' = "PAUSED" /\ UNCHANGED why
     \/ event = "STOPPING" /\ Goto("sleep", "setStopped") /\ why' = "stopping" /\ UNCHANGED event
     \/ event = "STARTING" /\ Goto("sleep", "scan") /\ event' = "STARTED" /\ UNCHANGED why
  /\ UNCHANGED <<queue, session, file, guiVars, signals, addVars, scanned, dropped>>

(* Finalize of the job, then of the routine: ScanStopped and a new queue.  *)
SetStopped ==
  /\ Goto("setStopped", "finalize")
  /\ event' = "STOPPED"
  /\ UNCHANGED <<queue, session, why, file, guiVars, signals, addVars, scanned, dropped>>

OnScanEnd ==
  /\ Goto("finalize", "createQueue")
  /\ signals' = Append(signals, "ScanStopped")
  /\ UNCHANGED <<queue, session, event, why, file, guiVars, addVars, scanned, dropped>>

CreateQueue ==
  /\ Goto("createQueue", "exit")
  /\ queue' = EmptyQueue /\ session' = session + 1 /\ file' = NoFile
  /\ dropped' = IF why = "stopping" THEN dropped \cup FilesOf(queue) \cup ({file} \ {NoFile})
                                    ELSE dropped
  /\ UNCHANGED <<event, why, guiVars, signals, addVars, scanned>>

Exit ==
  /\ Goto("exit", "done")
  /\ UNCHANGED <<queue, session, event, why, file, guiVars, signals, addVars, scanned, dropped>>

ScanStep ==
  TestEmpty \/ GetNext \/ ScanFile \/ Yield \/ SetStopped \/ OnScanEnd \/ CreateQueue \/ Exit

Next == User \/ GuiStep \/ ScanStep

Spec == Init /\ [][Next]_vars

(* The GUI goes on with its calls and its signals, the thread runs, and a  *)
(* file is scanned in a finite time.                                       *)
FairSpec == Spec /\ WF_vars(GuiStep) /\ WF_vars(ScanStep)

-----------------------------------------------------------------------------
Places == (1 .. MaxNames) \X (1 .. MaxFiles)

TypeOK ==
  /\ queue \in [source : Seq(Names), curDir : Seq(Places), cache : Seq(Places)]
  /\ Len(queue.cache) < UpperBound /\ session \in Nat
  /\ event \in {"NONE", "STARTED", "STARTING", "PAUSED", "PAUSING", "STOPPING", "STOPPED"}
  /\ spc \in {"none", "test", "getNext", "scan", "sleep", "setStopped", "finalize",
              "createQueue", "exit", "done", "crashed"}
  /\ why \in {"none", "normal", "stopping"}
  /\ gpc \in {"idle", "add", "start", "startWait", "restart", "restartWait", "spawn",
              "publish", "pause", "pauseWait", "stop", "stopWait"}
  /\ gcall \in Names \cup {NoName} /\ target \in 0 .. session
  /\ signals \in Seq({"ScanStarted", "ScanStopped"}) /\ checked \in BOOLEAN
  /\ calls \in 0 .. MaxCalls /\ added \in 0 .. MaxNames
  /\ file \in Places \cup {NoFile} /\ scanned \in Seq(Places)
  /\ expected \subseteq Places /\ dropped \subseteq Places /\ late \subseteq Places

(* Nothing that was added is forgotten: when nobody has anything left to   *)
(* do, every file was scanned or dropped by Stop.  The exception is a name *)
(* added after the session has looked at the queue for the last time and   *)
(* before its thread has ended: Start takes the session for a running one, *)
(* and the name is lost with the old queue or waits in the new one until   *)
(* somebody adds another.                                                  *)
Quiet == gpc = "idle" /\ signals = <<>> /\ spc \in {"none", "done"}
NothingForgotten == Quiet => expected \subseteq ToSet(scanned) \cup dropped \cup late

(* Files are scanned in the order in which they were added, each once,     *)
(* through directories, prefetched names, pauses and new sessions.         *)
Before(f, g) == f[1] < g[1] \/ (f[1] = g[1] /\ f[2] < g[2])
Ordered(s) == \A i, j \in DOMAIN s : i < j => Before(s[i], s[j])
InOrder == Ordered(scanned)

(* GetNext takes a name from an empty list only if a directory without     *)
(* files comes last, never because of the bounds of the prefetching or of  *)
(* what is added meanwhile.                                                *)
CrashOnlyByEmptyDir ==
  spc = "crashed" => queue.source # <<>> /\ Last(queue.source).files = 0

(* What is added is eventually scanned or dropped, unless it came late,    *)
(* the user leaves the scan paused, or a thread does not go on: Pause came *)
(* too late for an answer (see AsyncJob) or the list was empty.            *)
Given(n) == added >= n
Settled(n) == \A f \in expected : f[1] = n => f \in ToSet(scanned) \cup dropped \cup late
Blocked == \/ event = "PAUSED" \/ spc = "crashed"
           \/ gpc = "pauseWait" /\ event = "PAUSING" /\ spc = "done"
AddedIsScanned == \A n \in 1 .. MaxNames : Given(n) ~> Settled(n) \/ Blocked

-----------------------------------------------------------------------------
(* The inductive invariant.                                                *)

(* The queue continues what was taken from it: the files behind it, the    *)
(* prefetched ones and those of the open directory follow each other, and  *)
(* the names that are not open yet come after them.                        *)
Continues(names, line) ==
  /\ Ordered(line)
  /\ \A i \in DOMAIN line, n \in DOMAIN names : line[i][1] < names[n].id
  /\ \A m, n \in DOMAIN names : m < n => names[m].id < names[n].id

Taken == IF file = NoFile THEN scanned ELSE Append(scanned, file)
OrderInv ==
  /\ Continues(queue.source, Taken \o (queue.cache \o queue.curDir))
  /\ \A f \in ToSet(Taken) \cup FilesOf(queue) : Given(f[1])
  /\ \A n \in ToSet(queue.source) : Given(n.id)

(* Where the two sides can be together.                                    *)
Ending == {"setStopped", "finalize", "createQueue"}
ControlInv ==
  /\ spc \in {"scan", "sleep"} => file # NoFile
  /\ file # NoFile => spc \in {"scan", "sleep"} \/ (spc \in Ending /\ why = "stopping")
  /\ spc \in Ending => why # "none"
  /\ spc = "getNext" => ~QueueEmpty(queue)
  /\ gpc \in {"restart", "restartWait"} => spc = "done"
  /\ gpc = "spawn" => spc = "none"

(* The GUI adds the next name to the queue it has read, the present one or *)
(* the last, as long as no session has begun since.                        *)
AddInv ==
  gpc = "add" =>
    /\ gcall \in Names /\ gcall.id = added + 1
    /\ target = session \/ (target + 1 = session /\ spc \in {"exit", "done"})

(* Every file is somewhere, and behind a session's last look at the queue  *)
(* only late ones are in it, unless the GUI is about to start a session.   *)
PlaceInv == expected \subseteq ToSet(scanned) \cup dropped \cup late \cup FilesOf(queue) \cup {file}
LateInv ==
  (\/ spc \in Ending /\ why = "normal"
   \/ spc = "exit"
   \/ spc \in {"none", "done"} /\ gpc \notin {"start", "restart", "restartWait", "spawn"})
  => FilesOf(queue) \subseteq late

IInv == /\ TypeOK /\ OrderInv /\ ControlInv /\ AddInv /\ PlaceInv /\ LateInv
        /\ CrashOnlyByEmptyDir
=============================================================================
