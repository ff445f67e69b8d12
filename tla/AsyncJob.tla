------------------------------ MODULE AsyncJob ------------------------------
(***************************************************************************)
(* Async::Job over an Async::Worker (src/async): JobImpl and               *)
(* CoroutineOperation of job_coroutine.cpp, WorkerCoroutine of             *)
(* job_worker.cpp, ActivityImpl of activity.cpp and Event of event.h.      *)
(*                                                                         *)
(* Callers (the UI, the player, a destructor) call Start, Pause, Stop,     *)
(* IsActive and IsPaused from any thread; JobImpl::Mutex serialises them.  *)
(* Each session runs in a thread of its own.  The two sides talk through   *)
(* two Events: JobImpl::State (jobState) and ActivityImpl::State           *)
(* (actState).  An Event holds one value: Set overwrites what was there,   *)
(* answered or not.                                                        *)
(*                                                                         *)
(* One operation on an Event is one step; a wait is a guard.  A callback   *)
(* of the worker is one step that succeeds or, if it is in MayFail, throws *)
(* an Error.                                                               *)
(***************************************************************************)

CONSTANTS
  Callers,    (* threads that use the job                                  *)
  Nobody,     (* owner of a free mutex                                     *)
  Ops,        (* the calls that are made                                   *)
  MayFail,    (* the callbacks of the worker that may throw                *)
  CanFinish   (* TRUE if IsFinished may return true                        *)

Callbacks == {"Initialize", "Finalize", "Suspend", "Resume", "ExecuteCycle"}

AllOps == {"Start", "Pause", "Stop", "IsActive", "IsPaused", "Destroy"}

ASSUME ConstantsAssumption ==
  /\ Nobody \notin Callers
  /\ Ops \subseteq AllOps
  /\ MayFail \subseteq Callbacks
  /\ CanFinish \in BOOLEAN

VARIABLES
  jobState,   (* JobImpl::State; NONE after Reset                          *)
  hasAct,     (* JobImpl::Act is not null                                  *)
  lock,       (* the owner of JobImpl::Mutex                               *)
  pc,         (* where each caller is                                      *)
  op,         (* the function each caller executes                         *)
  result,     (* what its call is about to return                          *)
  actState,   (* ActivityImpl::State; NONE without an activity             *)
  lastError,  (* the Error in flight in the thread, then its LastError     *)
  wpc,        (* where the thread of the activity is; none: joined         *)
  why         (* the branch of Yield or Execute the thread takes           *)

jobVars    == <<jobState, hasAct>>
callerVars == <<lock, pc, op, result>>
threadVars == <<actState, lastError, wpc, why>>
vars == <<jobState, hasAct, lock, pc, op, result, actState, lastError, wpc, why>>

JobStates == {"NONE", "STOPPED", "STOPPING", "STARTED", "STARTING", "PAUSED", "PAUSING"}
ActStates == {"NONE", "STOPPED", "INITIALIZED", "FAILED", "STARTED"}
Outside   == {"idle", "enter"}
Creating  == {"createWait", "createStart", "createJoin", "publish"}
Inside    == Creating \cup {"startCheck", "startSet", "startWait",
               "pauseCheck", "pauseSet", "pauseWait", "pausedCheck",
               "finSet", "finJoin", "finReset", "spawn", "return"}
ThreadPcs == {"none", "prepare", "waitStart", "isFinished", "cycle", "yield",
              "suspend", "setPaused", "sleep", "resume", "setStarted",
              "setStopped", "finalize", "exit", "done"}

Init ==
  /\ jobState = "NONE" /\ hasAct = FALSE
  /\ lock = Nobody
  /\ pc = [c \in Callers |-> "idle"]
  /\ op = [c \in Callers |-> "none"]
  /\ result = [c \in Callers |-> "none"]
  /\ actState = "NONE" /\ lastError = "none"
  /\ wpc = "none" /\ why = "none"

-----------------------------------------------------------------------------
(* Callers.                                                                *)

Goto(c, from, to) == pc[c] = from /\ pc' = [pc EXCEPT ![c] = to]

Executed == hasAct /\ actState = "STARTED"

(* The last reference is destroyed when no call is in progress, and none   *)
(* can begin before the destructor ends; a new job then takes its place.   *)
Call(c, o) ==
  /\ Goto(c, "idle", "enter")
  /\ \A d \in Callers : op[d] # "Destroy"
  /\ o = "Destroy" => \A d \in Callers : pc[d] = "idle"
  /\ op' = [op EXCEPT ![c] = o]
  /\ UNCHANGED <<jobVars, lock, result, threadVars>>

(* Taking the mutex and the first test of Act.                             *)
Acquire(c, o, to) ==
  /\ op[c] = o
  /\ lock = Nobody /\ lock' = c
  /\ Goto(c, "enter", to)
  /\ UNCHANGED <<jobVars, threadVars>>

(* Variant: an activity that has ended is not finished before a new start. *)
StartEnterUnfinished(c) ==
  /\ Acquire(c, "Start", IF Executed THEN "startCheck" ELSE "spawn")
  /\ op' = IF Executed THEN [op EXCEPT ![c] = "StartExecutingAction"] ELSE op
  /\ UNCHANGED result

StartEnter(c) ==
  /\ Acquire(c, "Start", CASE ~hasAct -> "spawn"
                           [] Executed -> "startCheck"
                           [] OTHER -> "finSet")
  /\ op' = IF Executed THEN [op EXCEPT ![c] = "StartExecutingAction"] ELSE op
  /\ UNCHANGED result

PauseEnter(c) ==
  /\ Acquire(c, "Pause", CASE ~hasAct -> "return"
                           [] Executed -> "pauseCheck"
                           [] OTHER -> "finSet")
  /\ UNCHANGED <<op, result>>

StopEnter(c) ==
  /\ \E o \in {"Stop", "Destroy"} :
       Acquire(c, o, IF hasAct THEN "finSet" ELSE "return")
  /\ UNCHANGED <<op, result>>

IsActiveEnter(c) ==
  /\ Acquire(c, "IsActive", "return")
  /\ result' = [result EXCEPT ![c] = IF Executed THEN "true" ELSE "false"]
  /\ UNCHANGED op

IsPausedEnter(c) ==
  /\ Acquire(c, "IsPaused", IF Executed THEN "pausedCheck" ELSE "return")
  /\ result' = IF Executed THEN result ELSE [result EXCEPT ![c] = "false"]
  /\ UNCHANGED op

PausedCheck(c) ==
  /\ Goto(c, "pausedCheck", "return")
  /\ result' = [result EXCEPT ![c] = IF jobState = "PAUSED" THEN "true" ELSE "false"]
  /\ UNCHANGED <<jobVars, lock, op, threadVars>>

Return(c) ==
  /\ Goto(c, "return", "idle")
  /\ lock' = Nobody
  /\ op' = [op EXCEPT ![c] = "none"]
  /\ result' = [result EXCEPT ![c] = "none"]
  /\ UNCHANGED <<jobVars, threadVars>>

(* A request: test for PAUSED, set the Event, wait for one of two answers. *)
Check(c, from, ifPaused, otherwise) ==
  /\ Goto(c, from, IF jobState = "PAUSED" THEN ifPaused ELSE otherwise)
  /\ UNCHANGED <<jobVars, lock, op, result, threadVars>>

SetState(c, from, state, to) ==
  /\ Goto(c, from, to)
  /\ jobState' = state
  /\ UNCHANGED <<hasAct, lock, op, result, threadVars>>

Answered(c, from, answer) ==
  /\ jobState \in {"STOPPED", answer}
  /\ Goto(c, from, IF jobState = "STOPPED" THEN "finSet" ELSE "return")
  /\ UNCHANGED <<jobVars, lock, op, result, threadVars>>

StartExecutingAction(c) ==
  \/ Check(c, "startCheck", "startSet", "return")
  \/ SetState(c, "startSet", "STARTING", "startWait")
  \/ Answered(c, "startWait", "STARTED")

(* Variant: Pause of a paused job asks again.                              *)
PauseExecutingActionUnchecked(c) ==
  \/ Check(c, "pauseCheck", "pauseSet", "pauseSet")
  \/ SetState(c, "pauseSet", "PAUSING", "pauseWait")
  \/ Answered(c, "pauseWait", "PAUSED")

PauseExecutingAction(c) ==
  \/ Check(c, "pauseCheck", "return", "pauseSet")
  \/ SetState(c, "pauseSet", "PAUSING", "pauseWait")
  \/ Answered(c, "pauseWait", "PAUSED")

(* Variant: the activity is dropped without a Wait.                        *)
FinishWithoutJoin(c) ==
  /\ Goto(c, "finJoin", "finReset")
  /\ hasAct' = FALSE
  /\ UNCHANGED <<jobState, lock, op, result, threadVars>>

(* act.swap(Act); act->Wait().  Nobody sees Act before the mutex is free.  *)
FinishJoin(c) ==
  /\ Goto(c, "finJoin", "finReset")
  /\ wpc = "done" /\ wpc' = "none"
  /\ hasAct' = FALSE
  /\ UNCHANGED <<jobState, lock, op, result, actState, lastError, why>>

(* Variant: the Event keeps its value.                                     *)
FinishWithoutReset(c) ==
  /\ Goto(c, "finReset", IF op[c] = "Start" THEN "spawn" ELSE "return")
  /\ actState' = "NONE" /\ lastError' = "none" /\ why' = "none"
  /\ UNCHANGED <<jobVars, lock, op, result, wpc>>

(* State.Reset() on both paths: the Error of Wait is caught and dropped.   *)
FinishReset(c) ==
  /\ Goto(c, "finReset", IF op[c] = "Start" THEN "spawn" ELSE "return")
  /\ jobState' = "NONE"
  /\ actState' = "NONE" /\ lastError' = "none" /\ why' = "none"
  /\ UNCHANGED <<hasAct, lock, op, result, wpc>>

FinishAction(c) ==
  \/ SetState(c, "finSet", "STOPPING", "finJoin")
  \/ FinishJoin(c)
  \/ FinishReset(c)

-----------------------------------------------------------------------------
(* Activity::Create, called by Start.                                      *)

CreateSpawn(c) ==
  /\ Goto(c, "spawn", "createWait")
  /\ wpc' = "prepare" /\ actState' = "STOPPED" /\ lastError' = "none"
  /\ UNCHANGED <<jobVars, lock, op, result, why>>

(* Variant: a failed Initialize is taken for a success.                    *)
CreateWaitBlind(c) ==
  /\ actState \in {"INITIALIZED", "FAILED"}
  /\ Goto(c, "createWait", "createStart")
  /\ UNCHANGED <<jobVars, lock, op, result, threadVars>>

CreateWait(c) ==
  /\ actState \in {"INITIALIZED", "FAILED"}
  /\ Goto(c, "createWait", IF actState = "FAILED" THEN "createJoin" ELSE "createStart")
  /\ UNCHANGED <<jobVars, lock, op, result, threadVars>>

(* Thread.join(); State.Set(STOPPED); throw LastError.                     *)
CreateFailed(c) ==
  /\ Goto(c, "createJoin", "return")
  /\ wpc = "done" /\ wpc' = "none"
  /\ actState' = "NONE" /\ lastError' = "none" /\ why' = "none"
  /\ result' = [result EXCEPT ![c] = "error"]
  /\ UNCHANGED <<jobVars, lock, op>>

CreateStarted(c) ==
  /\ Goto(c, "createStart", "publish")
  /\ actState' = "STARTED"
  /\ UNCHANGED <<jobVars, lock, op, result, lastError, wpc, why>>

(* Act = Activity::Create(..); State.Set(STARTED), however far the thread  *)
(* has already got.                                                        *)
StartPublish(c) ==
  /\ Goto(c, "publish", "return")
  /\ hasAct' = TRUE
  /\ jobState' = "STARTED"
  /\ UNCHANGED <<lock, op, result, threadVars>>

CallerStep(c) ==
  \/ StartEnter(c) \/ PauseEnter(c) \/ StopEnter(c)
  \/ IsActiveEnter(c) \/ IsPausedEnter(c) \/ PausedCheck(c)
  \/ StartExecutingAction(c) \/ PauseExecutingAction(c) \/ FinishAction(c)
  \/ CreateSpawn(c) \/ CreateWait(c) \/ CreateFailed(c) \/ CreateStarted(c)
  \/ StartPublish(c) \/ Return(c)

-----------------------------------------------------------------------------
(* The thread: ActivityImpl::WorkProc.                                     *)

Thread(from, to) == wpc = from /\ wpc' = to

Fails(callback) ==
  /\ callback \in MayFail
  /\ lastError' = callback
  /\ why' = "error"

(* Variant: an Error ends the thread without Finalize.                     *)
ThrowsUnfinalized(from, callback) ==
  /\ Thread(from, "exit")
  /\ Fails(callback)
  /\ UNCHANGED <<jobVars, actState>>

(* An Error leaves Routine->Execute: the catch of Execute calls Finalize.  *)
Throws(from, callback) ==
  /\ Thread(from, "setStopped")
  /\ Fails(callback)
  /\ UNCHANGED <<jobVars, actState>>

Prepare ==
  /\ \/ /\ Thread("prepare", "waitStart")
        /\ actState' = "INITIALIZED"
        /\ UNCHANGED <<lastError, why>>
     \/ /\ Thread("prepare", "done")
        /\ Fails("Initialize")
        /\ actState' = "FAILED"
  /\ UNCHANGED jobVars

WaitStarted ==
  /\ Thread("waitStart", "isFinished")
  /\ actState = "STARTED"
  /\ UNCHANGED <<jobVars, actState, lastError, why>>

IsFinished ==
  /\ \/ Thread("isFinished", "cycle") /\ UNCHANGED why
     \/ CanFinish /\ Thread("isFinished", "setStopped") /\ why' = "normal"
  /\ UNCHANGED <<jobVars, actState, lastError>>

ExecuteCycle ==
  \/ /\ Thread("cycle", "yield")
     /\ UNCHANGED <<jobVars, actState, lastError, why>>
  \/ Throws("cycle", "ExecuteCycle")

(* Variant: PAUSED is set before Suspend is called.                        *)
YieldPausedFirst ==
  /\ \/ jobState = "STOPPING" /\ Thread("yield", "setStopped") /\ why' = "stopping" /\ UNCHANGED jobState
     \/ jobState = "PAUSING" /\ Thread("yield", "suspend") /\ UNCHANGED why /\ jobState' = "PAUSED"
     \/ jobState = "STARTED" /\ Thread("yield", "isFinished") /\ UNCHANGED <<why, jobState>>
  /\ UNCHANGED <<hasAct, actState, lastError>>

(* WaitForAny(STOPPING, PAUSING, STARTED).                                 *)
Yield ==
  /\ \/ jobState = "STOPPING" /\ Thread("yield", "setStopped") /\ why' = "stopping"
     \/ jobState = "PAUSING" /\ Thread("yield", "suspend") /\ UNCHANGED why
     \/ jobState = "STARTED" /\ Thread("yield", "isFinished") /\ UNCHANGED why
  /\ UNCHANGED <<jobVars, actState, lastError>>

Suspend ==
  \/ /\ Thread("suspend", "setPaused")
     /\ UNCHANGED <<jobVars, actState, lastError, why>>
  \/ Throws("suspend", "Suspend")

SetPaused ==
  /\ Thread("setPaused", "sleep")
  /\ jobState' = "PAUSED"
  /\ UNCHANGED <<hasAct, actState, lastError, why>>

(* nextState = WaitForAny(STOPPING, STARTING).                             *)
Awake ==
  /\ Thread("sleep", "resume")
  /\ \/ jobState = "STOPPING" /\ why' = "stopping"
     \/ jobState = "STARTING" /\ why' = "starting"
  /\ UNCHANGED <<jobVars, actState, lastError>>

Resume ==
  \/ /\ Thread("resume", IF why = "starting" THEN "setStarted" ELSE "setStopped")
     /\ UNCHANGED <<jobVars, actState, lastError, why>>
  \/ Throws("resume", "Resume")

(* Variant: the resumed thread does not tell.                              *)
SetStartedSilently ==
  /\ Thread("setStarted", "isFinished")
  /\ why' = "none"
  /\ UNCHANGED <<jobVars, actState, lastError>>

SetStarted ==
  /\ Thread("setStarted", "isFinished")
  /\ jobState' = "STARTED"
  /\ why' = "none"
  /\ UNCHANGED <<hasAct, actState, lastError>>

(* CoroutineOperation::Finalize: the Event first, then the callback.       *)
SetStopped ==
  /\ Thread("setStopped", "finalize")
  /\ jobState' = "STOPPED"
  /\ UNCHANGED <<hasAct, actState, lastError, why>>

(* At a normal end Finalize runs inside the try block, so that its Error   *)
(* is caught there and Finalize called again.                              *)
Finalize ==
  /\ \/ Thread("finalize", "exit") /\ UNCHANGED <<lastError, why>>
     \/ /\ Thread("finalize", IF why = "normal" THEN "setStopped" ELSE "exit")
        /\ Fails("Finalize")
  /\ UNCHANGED <<jobVars, actState>>

Exit ==
  /\ Thread("exit", "done")
  /\ actState' = IF why = "error" THEN "FAILED" ELSE "STOPPED"
  /\ UNCHANGED <<jobVars, lastError, why>>

ThreadStep ==
  /\ \/ Prepare \/ WaitStarted \/ IsFinished \/ ExecuteCycle \/ Yield
     \/ Suspend \/ SetPaused \/ Awake \/ Resume \/ SetStarted
     \/ SetStopped \/ Finalize \/ Exit
  /\ UNCHANGED callerVars

Next ==
  \/ \E c \in Callers : CallerStep(c) \/ \E o \in Ops : Call(c, o)
  \/ ThreadStep

Spec == Init /\ [][Next]_vars

(* A thread that can take a step eventually does; callers need not call.   *)
FairSpec ==
  /\ Spec
  /\ \A c \in Callers : WF_vars(CallerStep(c))
  /\ WF_vars(ThreadStep)

-----------------------------------------------------------------------------
TypeOK ==
  /\ jobState \in JobStates /\ hasAct \in BOOLEAN
  /\ lock \in Callers \cup {Nobody}
  /\ pc \in [Callers -> Outside \cup Inside]
  /\ op \in [Callers -> AllOps \cup {"none", "StartExecutingAction"}]
  /\ result \in [Callers -> {"none", "true", "false", "error"}]
  /\ actState \in ActStates /\ lastError \in Callbacks \cup {"none"}
  /\ wpc \in ThreadPcs
  /\ why \in {"none", "normal", "stopping", "starting", "error"}

(* The parts of the inductive invariant.  At is where the owner of the     *)
(* mutex stands: everything else about a session depends only on that.     *)
At == IF lock = Nobody THEN "idle" ELSE pc[lock]

MutexInv == \A c \in Callers : pc[c] \in Inside <=> lock = c

OpInv ==
  \A c \in Callers :
    /\ pc[c] \in Creating \cup {"spawn"} => op[c] = "Start"
    /\ pc[c] \in {"startCheck", "startSet", "startWait"} => op[c] = "StartExecutingAction"
    /\ pc[c] \in {"pauseCheck", "pauseSet", "pauseWait"} => op[c] = "Pause"
    /\ pc[c] = "pausedCheck" => op[c] = "IsPaused"
    /\ pc[c] \in {"finSet", "finJoin", "finReset"} =>
         op[c] \in {"Start", "StartExecutingAction", "Pause", "Stop", "Destroy"}
    /\ pc[c] = "finSet" /\ op[c] = "Pause" => jobState # "PAUSED"
    /\ op[c] = "IsPaused" /\ result[c] = "true" /\ pc[c] = "return" => jobState = "PAUSED"

(* The activity, its thread and their owner.                               *)
ThreadInv ==
  /\ hasAct => At \notin Creating \cup {"finReset", "spawn"}
  /\ wpc # "none" <=> hasAct \/ At \in Creating
  /\ At \in {"startCheck", "startSet", "startWait", "pauseCheck", "pauseSet",
             "pauseWait", "pausedCheck", "finSet", "finJoin"} => hasAct
  /\ At = "createWait" => wpc \in {"prepare", "waitStart", "done"} /\ actState # "STARTED"
  /\ At = "createStart" => wpc = "waitStart" /\ actState = "INITIALIZED"
  /\ At = "createJoin" => actState = "FAILED"
  /\ hasAct \/ At = "publish" => actState \in {"STARTED", "STOPPED", "FAILED"}
  /\ CASE wpc = "none" -> IF At = "finReset" THEN actState \in {"STOPPED", "FAILED"}
                                             ELSE actState = "NONE"
       [] wpc = "prepare" -> actState = "STOPPED" /\ At = "createWait"
       [] wpc = "waitStart" -> actState \in {"INITIALIZED", "STARTED"}
       [] wpc = "done" -> IF At \in {"createWait", "createJoin"}
                            THEN actState = "FAILED" /\ lastError = "Initialize"
                            ELSE actState \in {"STOPPED", "FAILED"} /\ lastError # "Initialize"
       [] OTHER -> actState = "STARTED"

(* What the Event may say, by where its owner and the thread are.          *)
EventInv ==
  /\ jobState = "PAUSED" => wpc = "sleep"
  /\ jobState = "PAUSING" => At = "pauseWait"
  /\ jobState = "STARTING" =>
       At = "startWait" /\ wpc \in {"sleep", "resume", "setStarted", "setStopped"}
  /\ jobState = "STOPPING" => At \in {"finJoin", "finReset"}
  /\ hasAct => jobState # "NONE"
  /\ ~hasAct /\ At \notin {"publish", "finReset"} => jobState = "NONE"
  /\ At = "startSet" => jobState = "PAUSED"
  /\ At = "pauseSet" => jobState # "PAUSED"
  /\ At = "publish" => jobState \in {"NONE", "STOPPED"}
  /\ At \in {"finJoin", "finReset"} => jobState \in {"STOPPING", "STOPPED"}
  /\ wpc \in {"suspend", "setPaused"} => jobState = "PAUSING"
  /\ wpc = "sleep" => jobState \in {"PAUSED", "STARTING", "STOPPING"}
  /\ wpc = "resume" => \/ why = "starting" /\ jobState = "STARTING"
                       \/ why = "stopping" /\ jobState = "STOPPING"
  /\ wpc = "setStarted" => jobState = "STARTING"
  /\ wpc = "done" /\ hasAct => jobState # "PAUSED"

(* The branch the thread takes and the Error it carries.                   *)
ErrorInv ==
  /\ wpc \in {"setStopped", "finalize"} =>
       /\ why \in {"normal", "stopping", "error"}
       /\ lastError = "Finalize" => why = "error"
       /\ why # "error" => lastError = "none"
  /\ lastError = "Initialize" => wpc = "done"
  /\ wpc \notin {"none", "setStopped", "finalize", "exit", "done"} => lastError = "none"

IInv == TypeOK /\ MutexInv /\ OpInv /\ ThreadInv /\ EventInv /\ ErrorInv

(* While no call is in progress there is a thread exactly if there is an   *)
(* activity, so that Stop and the destructor return only when the thread   *)
(* has ended: nothing calls the worker or touches JobImpl::State later.    *)
NoOrphanThread == lock = Nobody => (hasAct <=> wpc # "none")

(* A request (STARTING, PAUSING, STOPPING) is set only by the owner of the *)
(* mutex, which does not leave before it was answered: between calls the   *)
(* Event is empty or tells how the session stands.                         *)
RequestsAnswered ==
  lock = Nobody =>
    jobState \in IF hasAct THEN {"STARTED", "PAUSED", "STOPPED"} ELSE {"NONE"}

(* As long as the Event says PAUSED, and when IsPaused returns true, the   *)
(* worker is suspended and no callback of it runs: the device may be       *)
(* touched, the playlist changed and so on, until somebody asks for more.  *)
PausedMeansSuspended ==
  /\ jobState = "PAUSED" => wpc = "sleep"
  /\ \A c \in Callers :
       op[c] = "IsPaused" /\ pc[c] = "return" /\ result[c] = "true" => wpc = "sleep"

(* A thread is created only when the previous one was joined: two sessions *)
(* of the same worker never overlap.                                       *)
OneThread == [][wpc' = "prepare" /\ wpc # "prepare" => wpc = "none"]_vars

(* The assertion of ~ActivityImpl: an activity is destroyed only after its *)
(* operation has ended ("Should call Activity::Wait before stop").         *)
DestroyedAfterWait ==
  [][actState # "NONE" /\ actState' = "NONE" => actState \in {"STOPPED", "FAILED"}]_vars

(* Only a caller that holds the mutex ends a pause: the session does not   *)
(* wake up, or end, by itself.                                             *)
PauseHolds ==
  [][jobState = "PAUSED" /\ jobState' # "PAUSED"
       => lock # Nobody /\ op[lock] \notin {"Pause", "IsActive", "IsPaused"}]_vars

(* The worker sees the calls in the order that worker.h draws.             *)
Phase ==
  CASE wpc \in {"none", "prepare"} -> "fresh"
    [] wpc = "done" /\ lastError = "Initialize" -> "fresh"
    [] wpc \in {"waitStart", "isFinished", "setStarted"} -> "ready"
    [] wpc = "cycle" -> "cycling"
    [] wpc \in {"yield", "suspend"} -> "yielding"
    [] wpc \in {"setPaused", "sleep", "resume"} -> "suspended"
    [] wpc \in {"setStopped", "finalize"} -> "ending"
    [] OTHER -> "over"

Retried == wpc \in {"setStopped", "finalize"} /\ lastError = "Finalize"

WP == INSTANCE WorkerProtocol WITH phase <- Phase, retried <- Retried
WorkerProtocolSpec == WP!Spec

(* A call that has got the mutex returns, whatever the thread does.  The   *)
(* exception is Pause that came too late for an answer: see PauseReturns.  *)
PausedTooLate ==
  wpc = "done" /\ jobState = "PAUSING" /\ \E c \in Callers : pc[c] = "pauseWait"
CallsReturn == lock # Nobody ~> lock = Nobody \/ PausedTooLate

(* sound/backend.h, of PlaybackControl::Pause: "No effect if module is     *)
(* currently paused or stopped".  Pause of a session that is ending by     *)
(* itself should thus return.                                              *)
PauseReturns ==
  \A c \in Callers : pc[c] = "pauseWait" ~> pc[c] # "pauseWait"

(* async/test/job/test.cpp expects Stop to throw the Error of the worker   *)
(* ("Should not stop failed job").                                         *)
StopReportsError ==
  [][\A c \in Callers :
       pc[c] = "finReset" /\ op[c] = "Stop" /\ lastError # "none"
         => result'[c] = "error"]_vars
=============================================================================
