--------------------------- MODULE AsyncJobProofs ---------------------------
(***************************************************************************)
(* Proofs about AsyncJob, for any number of callers, any set of failing    *)
(* callbacks and workers that do or do not finish by themselves.           *)
(***************************************************************************)
EXTENDS AsyncJob, TLAPS

(* Where the owner of the mutex stands, before and after a caller's step.  *)
LEMMA OwnerAt ==
  ASSUME TypeOK, MutexInv, NEW c \in Callers, pc[c] \in Inside
  PROVE  lock = c /\ At = pc[c]
BY ConstantsAssumption DEF TypeOK, MutexInv, At

(* A step of the owner from one place inside the mutex to another.         *)
LEMMA GotoInside ==
  ASSUME TypeOK, MutexInv, NEW c \in Callers, NEW from \in Inside, NEW to \in Inside,
         Goto(c, from, to), lock' = lock
  PROVE  At = from /\ At' = to /\ MutexInv' /\ lock = c
BY ConstantsAssumption, OwnerAt DEF TypeOK, MutexInv, At, Goto

(* The step by which a caller takes the mutex.                             *)
LEMMA AcquireInside ==
  ASSUME TypeOK, MutexInv, NEW c \in Callers, NEW o \in AllOps, NEW to \in Inside,
         Acquire(c, o, to)
  PROVE  At = "idle" /\ At' = to /\ MutexInv' /\ lock = Nobody
BY ConstantsAssumption DEF TypeOK, MutexInv, At, Acquire, Goto, Outside, Inside, Creating

(* A step of the thread leaves the callers where they are.                 *)
LEMMA ThreadStepAt ==
  ASSUME UNCHANGED callerVars
  PROVE  At' = At /\ (MutexInv => MutexInv')
BY DEF callerVars, At, MutexInv

(* Before the first call there is no activity and no thread.               *)
LEMMA InitInv == Init => IInv
BY ConstantsAssumption
DEF Init, IInv, TypeOK, MutexInv, OpInv, ThreadInv, EventInv, ErrorInv, At,
    JobStates, ActStates, Outside, Inside, Creating, ThreadPcs

(* Every step of a call (JobImpl, Activity::Create and Activity::Wait)     *)
(* preserves the invariant: one case for each action.                      *)
LEMMA CallerStepInv ==
  ASSUME IInv, NEW c \in Callers, CallerStep(c)
  PROVE  IInv'
<1> USE ConstantsAssumption DEF IInv
<1>1. CASE StartEnter(c)
  <2>1. TypeOK'
    BY <1>1 DEF StartEnter, Acquire, Executed, Goto, TypeOK, jobVars, threadVars,
       JobStates, ActStates, AllOps, ThreadPcs, Outside, Inside, Creating
  <2>2. MutexInv'
    BY <1>1 DEF StartEnter, Acquire, Executed, Goto, TypeOK, MutexInv, Outside, Inside, Creating
  <2>3. OpInv'
    BY <1>1, <2>1 DEF StartEnter, Acquire, Executed, Goto, TypeOK, MutexInv, OpInv,
       jobVars, AllOps, Outside, Inside, Creating
  <2>4. At = "idle" /\ UNCHANGED <<jobVars, threadVars>>
        /\ \/ ~hasAct /\ At' = "spawn"
           \/ hasAct /\ actState = "STARTED" /\ At' = "startCheck"
           \/ hasAct /\ actState # "STARTED" /\ At' = "finSet"
    BY <1>1 DEF StartEnter, Acquire, Executed, Goto, At, TypeOK, MutexInv, jobVars, threadVars,
       Outside, Inside, Creating
  <2>5. ThreadInv'
    BY <2>4, <2>1 DEF ThreadInv, EventInv, ErrorInv, TypeOK, jobVars, threadVars, Creating, ThreadPcs, ActStates
  <2>6. EventInv' /\ ErrorInv'
    BY <2>4 DEF ThreadInv, EventInv, ErrorInv, TypeOK, jobVars, threadVars, Creating, ThreadPcs, JobStates
  <2> QED BY <2>1, <2>2, <2>3, <2>5, <2>6
<1>2. CASE PauseEnter(c)
  <2>1. TypeOK'
    BY <1>2 DEF PauseEnter, Acquire, Executed, Goto, TypeOK, jobVars, threadVars,
       JobStates, ActStates, AllOps, ThreadPcs, Outside, Inside, Creating
  <2>2. MutexInv'
    BY <1>2 DEF PauseEnter, Acquire, Executed, Goto, TypeOK, MutexInv, Outside, Inside, Creating
  <2>3. OpInv'
    <3>1. hasAct /\ ~Executed => jobState # "PAUSED"
      BY DEF ThreadInv, EventInv, Executed
    <3> QED
      BY <1>2, <2>1, <3>1 DEF PauseEnter, Acquire, Goto, TypeOK, MutexInv, OpInv,
         jobVars, AllOps, Outside, Inside, Creating
  <2>4. At = "idle" /\ UNCHANGED <<jobVars, threadVars>>
        /\ \/ ~hasAct /\ At' = "return"
           \/ hasAct /\ At' \in {"pauseCheck", "finSet"}
    BY <1>2 DEF PauseEnter, Acquire, Executed, Goto, At, TypeOK, MutexInv, jobVars, threadVars,
       Outside, Inside, Creating
  <2>5. ThreadInv'
    BY <2>4, <2>1 DEF ThreadInv, EventInv, ErrorInv, TypeOK, jobVars, threadVars, Creating, ThreadPcs, ActStates
  <2>6. EventInv' /\ ErrorInv'
    BY <2>4 DEF ThreadInv, EventInv, ErrorInv, TypeOK, jobVars, threadVars, Creating, ThreadPcs, JobStates
  <2> QED BY <2>1, <2>2, <2>3, <2>5, <2>6
<1>3. CASE StopEnter(c)
  <2>1. TypeOK'
    BY <1>3 DEF StopEnter, Acquire, Executed, Goto, TypeOK, jobVars, threadVars,
       JobStates, ActStates, AllOps, ThreadPcs, Outside, Inside, Creating
  <2>2. MutexInv'
    BY <1>3 DEF StopEnter, Acquire, Executed, Goto, TypeOK, MutexInv, Outside, Inside, Creating
  <2>3. OpInv'
    BY <1>3, <2>1 DEF StopEnter, Acquire, Executed, Goto, TypeOK, MutexInv, OpInv,
       jobVars, AllOps, Outside, Inside, Creating
  <2>4. At = "idle" /\ UNCHANGED <<jobVars, threadVars>>
        /\ \/ ~hasAct /\ At' = "return"
           \/ hasAct /\ At' = "finSet"
    BY <1>3 DEF StopEnter, Acquire, Executed, Goto, At, TypeOK, MutexInv, jobVars, threadVars,
       Outside, Inside, Creating
  <2>5. ThreadInv'
    BY <2>4, <2>1 DEF ThreadInv, EventInv, ErrorInv, TypeOK, jobVars, threadVars, Creating, ThreadPcs, ActStates
  <2>6. EventInv' /\ ErrorInv'
    BY <2>4 DEF ThreadInv, EventInv, ErrorInv, TypeOK, jobVars, threadVars, Creating, ThreadPcs, JobStates
  <2> QED BY <2>1, <2>2, <2>3, <2>5, <2>6
<1>4. CASE IsActiveEnter(c)
  <2>1. TypeOK'
    BY <1>4 DEF IsActiveEnter, Acquire, Executed, Goto, TypeOK, jobVars, threadVars,
       JobStates, ActStates, AllOps, ThreadPcs, Outside, Inside, Creating
  <2>2. MutexInv'
    BY <1>4 DEF IsActiveEnter, Acquire, Executed, Goto, TypeOK, MutexInv, Outside, Inside, Creating
  <2>3. OpInv'
    BY <1>4, <2>1 DEF IsActiveEnter, Acquire, Executed, Goto, TypeOK, MutexInv, OpInv,
       jobVars, AllOps, Outside, Inside, Creating
  <2>4. At = "idle" /\ UNCHANGED <<jobVars, threadVars>> /\ At' = "return"
    BY <1>4 DEF IsActiveEnter, Acquire, Executed, Goto, At, TypeOK, MutexInv, jobVars, threadVars,
       Outside, Inside, Creating
  <2>5. ThreadInv'
    BY <2>4, <2>1 DEF ThreadInv, EventInv, ErrorInv, TypeOK, jobVars, threadVars, Creating, ThreadPcs, ActStates
  <2>6. EventInv' /\ ErrorInv'
    BY <2>4 DEF ThreadInv, EventInv, ErrorInv, TypeOK, jobVars, threadVars, Creating, ThreadPcs, JobStates
  <2> QED BY <2>1, <2>2, <2>3, <2>5, <2>6
<1>5. CASE IsPausedEnter(c)
  <2>1. TypeOK'
    BY <1>5 DEF IsPausedEnter, Acquire, Executed, Goto, TypeOK, jobVars, threadVars,
       JobStates, ActStates, AllOps, ThreadPcs, Outside, Inside, Creating
  <2>2. MutexInv'
    BY <1>5 DEF IsPausedEnter, Acquire, Executed, Goto, TypeOK, MutexInv, Outside, Inside, Creating
  <2>3. OpInv'
    BY <1>5, <2>1 DEF IsPausedEnter, Acquire, Executed, Goto, TypeOK, MutexInv, OpInv,
       jobVars, AllOps, Outside, Inside, Creating
  <2>4. At = "idle" /\ UNCHANGED <<jobVars, threadVars>>
        /\ \/ hasAct /\ At' = "pausedCheck"
           \/ At' = "return"
    BY <1>5 DEF IsPausedEnter, Acquire, Executed, Goto, At, TypeOK, MutexInv, jobVars, threadVars,
       Outside, Inside, Creating
  <2>5. ThreadInv'
    BY <2>4, <2>1 DEF ThreadInv, EventInv, ErrorInv, TypeOK, jobVars, threadVars, Creating, ThreadPcs, ActStates
  <2>6. EventInv' /\ ErrorInv'
    BY <2>4 DEF ThreadInv, EventInv, ErrorInv, TypeOK, jobVars, threadVars, Creating, ThreadPcs, JobStates
  <2> QED BY <2>1, <2>2, <2>3, <2>5, <2>6
<1>6. CASE PausedCheck(c)
  <2>1. TypeOK'
    BY <1>6 DEF PausedCheck, Goto, TypeOK, jobVars, threadVars,
       JobStates, ActStates, AllOps, ThreadPcs, Outside, Inside, Creating
  <2>2. MutexInv'
    BY <1>6 DEF PausedCheck, Goto, TypeOK, MutexInv, Outside, Inside, Creating
  <2>3. OpInv'
    BY <1>6, <2>1 DEF PausedCheck, Goto, TypeOK, MutexInv, OpInv,
       jobVars, AllOps, Outside, Inside, Creating
  <2>4. At = "pausedCheck" /\ At' = "return" /\ UNCHANGED <<jobVars, threadVars>>
    BY <1>6 DEF PausedCheck, Goto, At, TypeOK, MutexInv, jobVars, threadVars,
       Outside, Inside, Creating
  <2>5. ThreadInv'
    BY <2>4, <2>1 DEF ThreadInv, EventInv, ErrorInv, TypeOK, jobVars, threadVars, Creating, ThreadPcs, ActStates
  <2>6. EventInv' /\ ErrorInv'
    BY <2>4 DEF ThreadInv, EventInv, ErrorInv, TypeOK, jobVars, threadVars, Creating, ThreadPcs, JobStates
  <2> QED BY <2>1, <2>2, <2>3, <2>5, <2>6
<1>7. CASE StartExecutingAction(c)
  <2>1. TypeOK'
    BY <1>7 DEF StartExecutingAction, Check, SetState, Answered, Goto, TypeOK, jobVars, threadVars,
       JobStates, ActStates, AllOps, ThreadPcs, Outside, Inside, Creating
  <2>2. MutexInv'
    BY <1>7 DEF StartExecutingAction, Check, SetState, Answered, Goto, TypeOK, MutexInv, Outside, Inside, Creating
  <2>3. OpInv'
    BY <1>7, <2>1 DEF StartExecutingAction, Check, SetState, Answered, Goto, TypeOK, MutexInv, OpInv,
       jobVars, AllOps, Outside, Inside, Creating
  <2>4. UNCHANGED <<hasAct, threadVars>>
        /\ \/ At = "startCheck" /\ jobState' = jobState
              /\ At' = IF jobState = "PAUSED" THEN "startSet" ELSE "return"
           \/ At = "startSet" /\ At' = "startWait" /\ jobState' = "STARTING"
           \/ At = "startWait" /\ jobState' = jobState
              /\ \/ jobState = "STOPPED" /\ At' = "finSet"
                 \/ jobState = "STARTED" /\ At' = "return"
    BY <1>7 DEF StartExecutingAction, Check, SetState, Answered, Goto, At, TypeOK, MutexInv, jobVars, threadVars,
       Outside, Inside, Creating
  <2>5. ThreadInv'
    BY <2>4, <2>1 DEF ThreadInv, EventInv, ErrorInv, TypeOK, jobVars, threadVars, Creating, ThreadPcs, ActStates
  <2>6. EventInv' /\ ErrorInv'
    BY <2>4 DEF ThreadInv, EventInv, ErrorInv, TypeOK, jobVars, threadVars, Creating, ThreadPcs, JobStates
  <2> QED BY <2>1, <2>2, <2>3, <2>5, <2>6
<1>8. CASE PauseExecutingAction(c)
  <2>1. TypeOK'
    BY <1>8 DEF PauseExecutingAction, Check, SetState, Answered, Goto, TypeOK, jobVars, threadVars,
       JobStates, ActStates, AllOps, ThreadPcs, Outside, Inside, Creating
  <2>2. MutexInv'
    BY <1>8 DEF PauseExecutingAction, Check, SetState, Answered, Goto, TypeOK, MutexInv, Outside, Inside, Creating
  <2>3. OpInv'
    BY <1>8, <2>1 DEF PauseExecutingAction, Check, SetState, Answered, Goto, TypeOK, MutexInv, OpInv,
       jobVars, AllOps, Outside, Inside, Creating
  <2>4. UNCHANGED <<hasAct, threadVars>>
        /\ \/ At = "pauseCheck" /\ jobState' = jobState
              /\ At' = IF jobState = "PAUSED" THEN "return" ELSE "pauseSet"
           \/ At = "pauseSet" /\ At' = "pauseWait" /\ jobState' = "PAUSING"
           \/ At = "pauseWait" /\ jobState' = jobState
              /\ \/ jobState = "STOPPED" /\ At' = "finSet"
                 \/ jobState = "PAUSED" /\ At' = "return"
    BY <1>8 DEF PauseExecutingAction, Check, SetState, Answered, Goto, At, TypeOK, MutexInv, jobVars, threadVars,
       Outside, Inside, Creating
  <2>5. ThreadInv'
    BY <2>4, <2>1 DEF ThreadInv, EventInv, ErrorInv, TypeOK, jobVars, threadVars, Creating, ThreadPcs, ActStates
  <2>6. EventInv' /\ ErrorInv'
    BY <2>4 DEF ThreadInv, EventInv, ErrorInv, TypeOK, jobVars, threadVars, Creating, ThreadPcs, JobStates
  <2> QED BY <2>1, <2>2, <2>3, <2>5, <2>6
<1>9. CASE CreateSpawn(c)
  <2>1. TypeOK'
    BY <1>9 DEF CreateSpawn, Goto, TypeOK, jobVars, threadVars,
       JobStates, ActStates, AllOps, ThreadPcs, Outside, Inside, Creating
  <2>2. MutexInv'
    BY <1>9 DEF CreateSpawn, Goto, TypeOK, MutexInv, Outside, Inside, Creating
  <2>3. OpInv'
    BY <1>9, <2>1 DEF CreateSpawn, Goto, TypeOK, MutexInv, OpInv,
       jobVars, AllOps, Outside, Inside, Creating
  <2>4. At = "spawn" /\ At' = "createWait" /\ UNCHANGED <<jobVars, why>>
        /\ wpc' = "prepare" /\ actState' = "STOPPED" /\ lastError' = "none"
    BY <1>9 DEF CreateSpawn, Goto, At, TypeOK, MutexInv, jobVars, threadVars,
       Outside, Inside, Creating
  <2>5. ThreadInv'
    BY <2>4, <2>1 DEF ThreadInv, EventInv, ErrorInv, TypeOK, jobVars, threadVars, Creating, ThreadPcs, ActStates
  <2>6. EventInv' /\ ErrorInv'
    BY <2>4 DEF ThreadInv, EventInv, ErrorInv, TypeOK, jobVars, threadVars, Creating, ThreadPcs, JobStates
  <2> QED BY <2>1, <2>2, <2>3, <2>5, <2>6
<1>10. CASE CreateWait(c)
  <2>1. TypeOK'
    BY <1>10 DEF CreateWait, Goto, TypeOK, jobVars, threadVars,
       JobStates, ActStates, AllOps, ThreadPcs, Outside, Inside, Creating
  <2>2. MutexInv'
    BY <1>10 DEF CreateWait, Goto, TypeOK, MutexInv, Outside, Inside, Creating
  <2>3. OpInv'
    BY <1>10, <2>1 DEF CreateWait, Goto, TypeOK, MutexInv, OpInv,
       jobVars, AllOps, Outside, Inside, Creating
  <2>4. At = "createWait" /\ UNCHANGED <<jobVars, threadVars>>
        /\ \/ actState = "FAILED" /\ At' = "createJoin"
           \/ actState = "INITIALIZED" /\ At' = "createStart"
    BY <1>10 DEF CreateWait, Goto, At, TypeOK, MutexInv, jobVars, threadVars,
       Outside, Inside, Creating
  <2>5. ThreadInv'
    BY <2>4, <2>1 DEF ThreadInv, EventInv, ErrorInv, TypeOK, jobVars, threadVars, Creating, ThreadPcs, ActStates
  <2>6. EventInv' /\ ErrorInv'
    BY <2>4 DEF ThreadInv, EventInv, ErrorInv, TypeOK, jobVars, threadVars, Creating, ThreadPcs, JobStates
  <2> QED BY <2>1, <2>2, <2>3, <2>5, <2>6
<1>11. CASE CreateFailed(c)
  <2>1. TypeOK'
    BY <1>11 DEF CreateFailed, Goto, TypeOK, jobVars, threadVars,
       JobStates, ActStates, AllOps, ThreadPcs, Outside, Inside, Creating
  <2>2. MutexInv'
    BY <1>11 DEF CreateFailed, Goto, TypeOK, MutexInv, Outside, Inside, Creating
  <2>3. OpInv'
    BY <1>11, <2>1 DEF CreateFailed, Goto, TypeOK, MutexInv, OpInv,
       jobVars, AllOps, Outside, Inside, Creating
  <2>4. At = "createJoin" /\ At' = "return" /\ UNCHANGED jobVars
        /\ wpc' = "none" /\ actState' = "NONE" /\ lastError' = "none" /\ why' = "none"
    BY <1>11 DEF CreateFailed, Goto, At, TypeOK, MutexInv, jobVars, threadVars,
       Outside, Inside, Creating
  <2>5. ThreadInv'
    BY <2>4, <2>1 DEF ThreadInv, EventInv, ErrorInv, TypeOK, jobVars, threadVars, Creating, ThreadPcs, ActStates
  <2>6. EventInv' /\ ErrorInv'
    BY <2>4 DEF ThreadInv, EventInv, ErrorInv, TypeOK, jobVars, threadVars, Creating, ThreadPcs, JobStates
  <2> QED BY <2>1, <2>2, <2>3, <2>5, <2>6
<1>12. CASE CreateStarted(c)
  <2>1. TypeOK'
    BY <1>12 DEF CreateStarted, Goto, TypeOK, jobVars, threadVars,
       JobStates, ActStates, AllOps, ThreadPcs, Outside, Inside, Creating
  <2>2. MutexInv'
    BY <1>12 DEF CreateStarted, Goto, TypeOK, MutexInv, Outside, Inside, Creating
  <2>3. OpInv'
    BY <1>12, <2>1 DEF CreateStarted, Goto, TypeOK, MutexInv, OpInv,
       jobVars, AllOps, Outside, Inside, Creating
  <2>4. At = "createStart" /\ At' = "publish" /\ actState' = "STARTED"
        /\ UNCHANGED <<jobVars, lastError, wpc, why>>
    BY <1>12 DEF CreateStarted, Goto, At, TypeOK, MutexInv, jobVars, threadVars,
       Outside, Inside, Creating
  <2>5. ThreadInv'
    BY <2>4, <2>1 DEF ThreadInv, EventInv, ErrorInv, TypeOK, jobVars, threadVars, Creating, ThreadPcs, ActStates
  <2>6. EventInv' /\ ErrorInv'
    BY <2>4 DEF ThreadInv, EventInv, ErrorInv, TypeOK, jobVars, threadVars, Creating, ThreadPcs, JobStates
  <2> QED BY <2>1, <2>2, <2>3, <2>5, <2>6
<1>13. CASE StartPublish(c)
  <2>1. TypeOK'
    BY <1>13 DEF StartPublish, Goto, TypeOK, jobVars, threadVars,
       JobStates, ActStates, AllOps, ThreadPcs, Outside, Inside, Creating
  <2>2. MutexInv'
    BY <1>13 DEF StartPublish, Goto, TypeOK, MutexInv, Outside, Inside, Creating
  <2>3. OpInv'
    BY <1>13, <2>1 DEF StartPublish, Goto, TypeOK, MutexInv, OpInv,
       jobVars, AllOps, Outside, Inside, Creating
  <2>4. At = "publish" /\ At' = "return" /\ hasAct' = TRUE /\ jobState' = "STARTED"
        /\ UNCHANGED threadVars
    BY <1>13 DEF StartPublish, Goto, At, TypeOK, MutexInv, jobVars, threadVars,
       Outside, Inside, Creating
  <2>5. ThreadInv'
    BY <2>4, <2>1 DEF ThreadInv, EventInv, ErrorInv, TypeOK, jobVars, threadVars, Creating, ThreadPcs, ActStates
  <2>6. EventInv' /\ ErrorInv'
    BY <2>4 DEF ThreadInv, EventInv, ErrorInv, TypeOK, jobVars, threadVars, Creating, ThreadPcs, JobStates
  <2> QED BY <2>1, <2>2, <2>3, <2>5, <2>6
<1>14. CASE SetState(c, "finSet", "STOPPING", "finJoin")
  <2>1. TypeOK'
    BY <1>14 DEF SetState, Goto, TypeOK, jobVars, threadVars,
       JobStates, ActStates, AllOps, ThreadPcs, Outside, Inside, Creating
  <2>2. MutexInv'
    BY <1>14 DEF SetState, Goto, TypeOK, MutexInv, Outside, Inside, Creating
  <2>3. OpInv'
    BY <1>14, <2>1 DEF SetState, Goto, TypeOK, MutexInv, OpInv,
       jobVars, AllOps, Outside, Inside, Creating
  <2>4. At = "finSet" /\ At' = "finJoin" /\ jobState' = "STOPPING" /\ UNCHANGED <<hasAct, threadVars>>
    BY <1>14 DEF SetState, Goto, At, TypeOK, MutexInv, jobVars, threadVars,
       Outside, Inside, Creating
  <2>5. ThreadInv'
    BY <2>4, <2>1 DEF ThreadInv, EventInv, ErrorInv, TypeOK, jobVars, threadVars, Creating, ThreadPcs, ActStates
  <2>6. EventInv' /\ ErrorInv'
    BY <2>4 DEF ThreadInv, EventInv, ErrorInv, TypeOK, jobVars, threadVars, Creating, ThreadPcs, JobStates
  <2> QED BY <2>1, <2>2, <2>3, <2>5, <2>6
<1>15. CASE FinishJoin(c)
  <2>1. TypeOK'
    BY <1>15 DEF FinishJoin, Goto, TypeOK, jobVars, threadVars,
       JobStates, ActStates, AllOps, ThreadPcs, Outside, Inside, Creating
  <2>2. MutexInv'
    BY <1>15 DEF FinishJoin, Goto, TypeOK, MutexInv, Outside, Inside, Creating
  <2>3. OpInv'
    BY <1>15, <2>1 DEF FinishJoin, Goto, TypeOK, MutexInv, OpInv,
       jobVars, AllOps, Outside, Inside, Creating
  <2>4. At = "finJoin" /\ At' = "finReset" /\ hasAct' = FALSE
        /\ wpc = "done" /\ wpc' = "none" /\ UNCHANGED <<jobState, actState, lastError, why>>
    BY <1>15 DEF FinishJoin, Goto, At, TypeOK, MutexInv, jobVars, threadVars,
       Outside, Inside, Creating
  <2>5. ThreadInv'
    BY <2>4, <2>1 DEF ThreadInv, EventInv, ErrorInv, TypeOK, jobVars, threadVars, Creating, ThreadPcs, ActStates
  <2>6. EventInv' /\ ErrorInv'
    BY <2>4 DEF ThreadInv, EventInv, ErrorInv, TypeOK, jobVars, threadVars, Creating, ThreadPcs, JobStates
  <2> QED BY <2>1, <2>2, <2>3, <2>5, <2>6
<1>16. CASE FinishReset(c)
  <2>1. TypeOK'
    BY <1>16 DEF FinishReset, Goto, TypeOK, jobVars, threadVars,
       JobStates, ActStates, AllOps, ThreadPcs, Outside, Inside, Creating
  <2>2. MutexInv'
    BY <1>16 DEF FinishReset, Goto, TypeOK, MutexInv, Outside, Inside, Creating
  <2>3. OpInv'
    BY <1>16, <2>1 DEF FinishReset, Goto, TypeOK, MutexInv, OpInv,
       jobVars, AllOps, Outside, Inside, Creating
  <2>4. At = "finReset" /\ At' \in {"spawn", "return"} /\ jobState' = "NONE"
        /\ actState' = "NONE" /\ lastError' = "none" /\ why' = "none" /\ UNCHANGED <<hasAct, wpc>>
    BY <1>16 DEF FinishReset, Goto, At, TypeOK, MutexInv, jobVars, threadVars,
       Outside, Inside, Creating
  <2>5. ThreadInv'
    BY <2>4, <2>1 DEF ThreadInv, EventInv, ErrorInv, TypeOK, jobVars, threadVars, Creating, ThreadPcs, ActStates
  <2>6. EventInv' /\ ErrorInv'
    BY <2>4 DEF ThreadInv, EventInv, ErrorInv, TypeOK, jobVars, threadVars, Creating, ThreadPcs, JobStates
  <2> QED BY <2>1, <2>2, <2>3, <2>5, <2>6
<1>17. CASE Return(c)
  <2>1. TypeOK' /\ MutexInv' /\ OpInv'
    BY <1>17 DEF Return, Goto, TypeOK, MutexInv, OpInv, jobVars, threadVars, Outside, Inside, Creating, AllOps
  <2>2. At = "return" /\ At' = "idle" /\ UNCHANGED <<jobVars, threadVars>>
    BY <1>17, OwnerAt DEF Return, Goto, At, Inside
  <2>3. ThreadInv' /\ EventInv' /\ ErrorInv'
    BY <2>2 DEF ThreadInv, EventInv, ErrorInv, TypeOK, jobVars, threadVars, Creating
  <2> QED BY <2>1, <2>3
<1> QED BY <1>1, <1>2, <1>3, <1>4, <1>5, <1>6, <1>7, <1>8, <1>9, <1>10, <1>11, <1>12, <1>13, <1>14, <1>15, <1>16, <1>17 DEF CallerStep, FinishAction

(* Every step of the thread (WorkProc, CoroutineOperation and the          *)
(* callbacks of WorkerCoroutine) preserves the invariant.                  *)
LEMMA ThreadStepInv ==
  ASSUME IInv, ThreadStep
  PROVE  IInv'
<1> USE ConstantsAssumption DEF IInv
<1>0. UNCHANGED callerVars /\ At' = At /\ MutexInv'
  BY ThreadStepAt DEF ThreadStep
<1>1. CASE Prepare
  <2>1. TypeOK'
    BY <1>0, <1>1 DEF Prepare, Fails, Thread, TypeOK, callerVars, jobVars,
       JobStates, ActStates, ThreadPcs, Callbacks
  <2>2. ThreadInv'
    BY <1>0, <1>1 DEF Prepare, Fails, Thread, TypeOK, ThreadInv, EventInv, ErrorInv, jobVars, ThreadPcs, Creating
  <2>3. EventInv'
    BY <1>0, <1>1 DEF Prepare, Fails, Thread, TypeOK, ThreadInv, EventInv, ErrorInv, jobVars, ThreadPcs, Creating
  <2>4. ErrorInv'
    BY <1>0, <1>1 DEF Prepare, Fails, Thread, TypeOK, ThreadInv, EventInv, ErrorInv, jobVars, ThreadPcs, Creating
  <2>5. OpInv'
    BY <1>0, <1>1 DEF Prepare, Fails, Thread, OpInv, EventInv, callerVars, jobVars
  <2> QED BY <1>0, <2>1, <2>2, <2>3, <2>4, <2>5
<1>2. CASE WaitStarted
  <2>1. TypeOK'
    BY <1>0, <1>2 DEF WaitStarted, Thread, TypeOK, callerVars, jobVars,
       JobStates, ActStates, ThreadPcs, Callbacks
  <2>2. ThreadInv'
    BY <1>0, <1>2 DEF WaitStarted, Thread, TypeOK, ThreadInv, EventInv, ErrorInv, jobVars, ThreadPcs, Creating
  <2>3. EventInv'
    BY <1>0, <1>2 DEF WaitStarted, Thread, TypeOK, ThreadInv, EventInv, ErrorInv, jobVars, ThreadPcs, Creating
  <2>4. ErrorInv'
    BY <1>0, <1>2 DEF WaitStarted, Thread, TypeOK, ThreadInv, EventInv, ErrorInv, jobVars, ThreadPcs, Creating
  <2>5. OpInv'
    BY <1>0, <1>2 DEF WaitStarted, Thread, OpInv, EventInv, callerVars, jobVars
  <2> QED BY <1>0, <2>1, <2>2, <2>3, <2>4, <2>5
<1>3. CASE IsFinished
  <2>1. TypeOK'
    BY <1>0, <1>3 DEF IsFinished, Thread, TypeOK, callerVars, jobVars,
       JobStates, ActStates, ThreadPcs, Callbacks
  <2>2. ThreadInv'
    BY <1>0, <1>3 DEF IsFinished, Thread, TypeOK, ThreadInv, EventInv, ErrorInv, jobVars, ThreadPcs, Creating
  <2>3. EventInv'
    BY <1>0, <1>3 DEF IsFinished, Thread, TypeOK, ThreadInv, EventInv, ErrorInv, jobVars, ThreadPcs, Creating
  <2>4. ErrorInv'
    BY <1>0, <1>3 DEF IsFinished, Thread, TypeOK, ThreadInv, EventInv, ErrorInv, jobVars, ThreadPcs, Creating
  <2>5. OpInv'
    BY <1>0, <1>3 DEF IsFinished, Thread, OpInv, EventInv, callerVars, jobVars
  <2> QED BY <1>0, <2>1, <2>2, <2>3, <2>4, <2>5
<1>4. CASE ExecuteCycle
  <2>1. TypeOK'
    BY <1>0, <1>4 DEF ExecuteCycle, Throws, Fails, Thread, TypeOK, callerVars, jobVars,
       JobStates, ActStates, ThreadPcs, Callbacks
  <2>2. ThreadInv'
    BY <1>0, <1>4 DEF ExecuteCycle, Throws, Fails, Thread, TypeOK, ThreadInv, EventInv, ErrorInv, jobVars, ThreadPcs, Creating
  <2>3. EventInv'
    BY <1>0, <1>4 DEF ExecuteCycle, Throws, Fails, Thread, TypeOK, ThreadInv, EventInv, ErrorInv, jobVars, ThreadPcs, Creating
  <2>4. ErrorInv'
    BY <1>0, <1>4 DEF ExecuteCycle, Throws, Fails, Thread, TypeOK, ThreadInv, EventInv, ErrorInv, jobVars, ThreadPcs, Creating
  <2>5. OpInv'
    BY <1>0, <1>4 DEF ExecuteCycle, Throws, Fails, Thread, OpInv, EventInv, callerVars, jobVars
  <2> QED BY <1>0, <2>1, <2>2, <2>3, <2>4, <2>5
<1>5. CASE Yield
  <2>1. TypeOK'
    BY <1>0, <1>5 DEF Yield, Thread, TypeOK, callerVars, jobVars,
       JobStates, ActStates, ThreadPcs, Callbacks
  <2>2. ThreadInv'
    BY <1>0, <1>5 DEF Yield, Thread, TypeOK, ThreadInv, EventInv, ErrorInv, jobVars, ThreadPcs, Creating
  <2>3. EventInv'
    BY <1>0, <1>5 DEF Yield, Thread, TypeOK, ThreadInv, EventInv, ErrorInv, jobVars, ThreadPcs, Creating
  <2>4. ErrorInv'
    BY <1>0, <1>5 DEF Yield, Thread, TypeOK, ThreadInv, EventInv, ErrorInv, jobVars, ThreadPcs, Creating
  <2>5. OpInv'
    BY <1>0, <1>5 DEF Yield, Thread, OpInv, EventInv, callerVars, jobVars
  <2> QED BY <1>0, <2>1, <2>2, <2>3, <2>4, <2>5
<1>6. CASE Suspend
  <2>1. TypeOK'
    BY <1>0, <1>6 DEF Suspend, Throws, Fails, Thread, TypeOK, callerVars, jobVars,
       JobStates, ActStates, ThreadPcs, Callbacks
  <2>2. ThreadInv'
    BY <1>0, <1>6 DEF Suspend, Throws, Fails, Thread, TypeOK, ThreadInv, EventInv, ErrorInv, jobVars, ThreadPcs, Creating
  <2>3. EventInv'
    BY <1>0, <1>6 DEF Suspend, Throws, Fails, Thread, TypeOK, ThreadInv, EventInv, ErrorInv, jobVars, ThreadPcs, Creating
  <2>4. ErrorInv'
    BY <1>0, <1>6 DEF Suspend, Throws, Fails, Thread, TypeOK, ThreadInv, EventInv, ErrorInv, jobVars, ThreadPcs, Creating
  <2>5. OpInv'
    BY <1>0, <1>6 DEF Suspend, Throws, Fails, Thread, OpInv, EventInv, callerVars, jobVars
  <2> QED BY <1>0, <2>1, <2>2, <2>3, <2>4, <2>5
<1>7. CASE SetPaused
  <2>1. TypeOK'
    BY <1>0, <1>7 DEF SetPaused, Thread, TypeOK, callerVars, jobVars,
       JobStates, ActStates, ThreadPcs, Callbacks
  <2>2. ThreadInv'
    BY <1>0, <1>7 DEF SetPaused, Thread, TypeOK, ThreadInv, EventInv, ErrorInv, jobVars, ThreadPcs, Creating
  <2>3. EventInv'
    BY <1>0, <1>7 DEF SetPaused, Thread, TypeOK, ThreadInv, EventInv, ErrorInv, jobVars, ThreadPcs, Creating
  <2>4. ErrorInv'
    BY <1>0, <1>7 DEF SetPaused, Thread, TypeOK, ThreadInv, EventInv, ErrorInv, jobVars, ThreadPcs, Creating
  <2>5. OpInv'
    BY <1>0, <1>7 DEF SetPaused, Thread, MutexInv, OpInv, EventInv, At, callerVars, jobVars, Inside
  <2> QED BY <1>0, <2>1, <2>2, <2>3, <2>4, <2>5
<1>8. CASE Awake
  <2>1. TypeOK'
    BY <1>0, <1>8 DEF Awake, Thread, TypeOK, callerVars, jobVars,
       JobStates, ActStates, ThreadPcs, Callbacks
  <2>2. ThreadInv'
    BY <1>0, <1>8 DEF Awake, Thread, TypeOK, ThreadInv, EventInv, ErrorInv, jobVars, ThreadPcs, Creating
  <2>3. EventInv'
    BY <1>0, <1>8 DEF Awake, Thread, TypeOK, ThreadInv, EventInv, ErrorInv, jobVars, ThreadPcs, Creating
  <2>4. ErrorInv'
    BY <1>0, <1>8 DEF Awake, Thread, TypeOK, ThreadInv, EventInv, ErrorInv, jobVars, ThreadPcs, Creating
  <2>5. OpInv'
    BY <1>0, <1>8 DEF Awake, Thread, OpInv, EventInv, callerVars, jobVars
  <2> QED BY <1>0, <2>1, <2>2, <2>3, <2>4, <2>5
<1>9. CASE Resume
  <2>1. TypeOK'
    BY <1>0, <1>9 DEF Resume, Throws, Fails, Thread, TypeOK, callerVars, jobVars,
       JobStates, ActStates, ThreadPcs, Callbacks
  <2>2. ThreadInv'
    BY <1>0, <1>9 DEF Resume, Throws, Fails, Thread, TypeOK, ThreadInv, EventInv, ErrorInv, jobVars, ThreadPcs, Creating
  <2>3. EventInv'
    BY <1>0, <1>9 DEF Resume, Throws, Fails, Thread, TypeOK, ThreadInv, EventInv, ErrorInv, jobVars, ThreadPcs, Creating
  <2>4. ErrorInv'
    BY <1>0, <1>9 DEF Resume, Throws, Fails, Thread, TypeOK, ThreadInv, EventInv, ErrorInv, jobVars, ThreadPcs, Creating
  <2>5. OpInv'
    BY <1>0, <1>9 DEF Resume, Throws, Fails, Thread, OpInv, EventInv, callerVars, jobVars
  <2> QED BY <1>0, <2>1, <2>2, <2>3, <2>4, <2>5
<1>10. CASE SetStarted
  <2>1. TypeOK'
    BY <1>0, <1>10 DEF SetStarted, Thread, TypeOK, callerVars, jobVars,
       JobStates, ActStates, ThreadPcs, Callbacks
  <2>2. ThreadInv'
    BY <1>0, <1>10 DEF SetStarted, Thread, TypeOK, ThreadInv, EventInv, ErrorInv, jobVars, ThreadPcs, Creating
  <2>3. EventInv'
    BY <1>0, <1>10 DEF SetStarted, Thread, TypeOK, ThreadInv, EventInv, ErrorInv, jobVars, ThreadPcs, Creating
  <2>4. ErrorInv'
    BY <1>0, <1>10 DEF SetStarted, Thread, TypeOK, ThreadInv, EventInv, ErrorInv, jobVars, ThreadPcs, Creating
  <2>5. OpInv'
    BY <1>0, <1>10 DEF SetStarted, Thread, OpInv, EventInv, callerVars, jobVars
  <2> QED BY <1>0, <2>1, <2>2, <2>3, <2>4, <2>5
<1>11. CASE SetStopped
  <2>1. TypeOK'
    BY <1>0, <1>11 DEF SetStopped, Thread, TypeOK, callerVars, jobVars,
       JobStates, ActStates, ThreadPcs, Callbacks
  <2>2. ThreadInv'
    BY <1>0, <1>11 DEF SetStopped, Thread, TypeOK, ThreadInv, EventInv, ErrorInv, jobVars, ThreadPcs, Creating
  <2>3. EventInv'
    BY <1>0, <1>11 DEF SetStopped, Thread, TypeOK, ThreadInv, EventInv, ErrorInv, jobVars, ThreadPcs, Creating
  <2>4. ErrorInv'
    BY <1>0, <1>11 DEF SetStopped, Thread, TypeOK, ThreadInv, EventInv, ErrorInv, jobVars, ThreadPcs, Creating
  <2>5. OpInv'
    BY <1>0, <1>11 DEF SetStopped, Thread, OpInv, EventInv, callerVars, jobVars
  <2> QED BY <1>0, <2>1, <2>2, <2>3, <2>4, <2>5
<1>12. CASE Finalize
  <2>1. TypeOK'
    BY <1>0, <1>12 DEF Finalize, Fails, Thread, TypeOK, callerVars, jobVars,
       JobStates, ActStates, ThreadPcs, Callbacks
  <2>2. ThreadInv'
    BY <1>0, <1>12 DEF Finalize, Fails, Thread, TypeOK, ThreadInv, EventInv, ErrorInv, jobVars, ThreadPcs, Creating
  <2>3. EventInv'
    BY <1>0, <1>12 DEF Finalize, Fails, Thread, TypeOK, ThreadInv, EventInv, ErrorInv, jobVars, ThreadPcs, Creating
  <2>4. ErrorInv'
    BY <1>0, <1>12 DEF Finalize, Fails, Thread, TypeOK, ThreadInv, EventInv, ErrorInv, jobVars, ThreadPcs, Creating
  <2>5. OpInv'
    BY <1>0, <1>12 DEF Finalize, Fails, Thread, OpInv, EventInv, callerVars, jobVars
  <2> QED BY <1>0, <2>1, <2>2, <2>3, <2>4, <2>5
<1>13. CASE Exit
  <2>1. TypeOK'
    BY <1>0, <1>13 DEF Exit, Thread, TypeOK, callerVars, jobVars,
       JobStates, ActStates, ThreadPcs, Callbacks
  <2>2. ThreadInv'
    BY <1>0, <1>13 DEF Exit, Thread, TypeOK, ThreadInv, EventInv, ErrorInv, jobVars, ThreadPcs, Creating
  <2>3. EventInv'
    BY <1>0, <1>13 DEF Exit, Thread, TypeOK, ThreadInv, EventInv, ErrorInv, jobVars, ThreadPcs, Creating
  <2>4. ErrorInv'
    BY <1>0, <1>13 DEF Exit, Thread, TypeOK, ThreadInv, EventInv, ErrorInv, jobVars, ThreadPcs, Creating
  <2>5. OpInv'
    BY <1>0, <1>13 DEF Exit, Thread, OpInv, EventInv, callerVars, jobVars
  <2> QED BY <1>0, <2>1, <2>2, <2>3, <2>4, <2>5
<1> QED BY <1>1, <1>2, <1>3, <1>4, <1>5, <1>6, <1>7, <1>8, <1>9, <1>10, <1>11, <1>12, <1>13 DEF ThreadStep

(* The beginning of a call, before the mutex, preserves the invariant.     *)
LEMMA CallInv ==
  ASSUME IInv, NEW c \in Callers, NEW o \in Ops, Call(c, o)
  PROVE  IInv'
<1> USE ConstantsAssumption DEF IInv
<1>1. TypeOK' /\ MutexInv' /\ OpInv'
  BY DEF Call, Goto, TypeOK, MutexInv, OpInv, jobVars, threadVars, Outside, Inside, Creating, AllOps
<1>2. At' = At
  <2>1. CASE lock = Nobody
    BY <2>1 DEF Call, At
  <2>2. CASE lock # Nobody
    <3>1. lock \in Callers /\ pc[lock] \in Inside /\ pc[c] = "idle"
      BY <2>2 DEF Call, Goto, TypeOK, MutexInv
    <3>2. lock # c
      BY <3>1 DEF Inside, Creating
    <3> QED BY <2>2, <3>1, <3>2 DEF Call, Goto, TypeOK, At
  <2> QED BY <2>1, <2>2
<1>3. ThreadInv' /\ EventInv' /\ ErrorInv'
  BY <1>2 DEF Call, ThreadInv, EventInv, ErrorInv, jobVars, threadVars, Creating
<1> QED BY <1>1, <1>3

(* IInv holds in every reachable state: the invariant all others rest on.  *)
THEOREM Invariance == Spec => []IInv
<1>1. Init => IInv
  BY InitInv
<1>2. IInv /\ [Next]_vars => IInv'
  <2> SUFFICES ASSUME IInv, [Next]_vars PROVE IInv'
    OBVIOUS
  <2>1. ASSUME NEW c \in Callers, CallerStep(c) PROVE IInv'
    BY <2>1, CallerStepInv
  <2>2. ASSUME NEW c \in Callers, NEW o \in Ops, Call(c, o) PROVE IInv'
    BY <2>2, CallInv
  <2>3. CASE ThreadStep
    BY <2>3, ThreadStepInv
  <2>4. CASE UNCHANGED vars
    BY <2>4 DEF vars, IInv, TypeOK, MutexInv, OpInv, ThreadInv, EventInv, ErrorInv, At
  <2> QED BY <2>1, <2>2, <2>3, <2>4 DEF Next
<1> QED BY <1>1, <1>2, PTL DEF Spec

(* Between calls there is a thread exactly if there is an activity: when   *)
(* Stop or the destructor has returned, nothing runs on.                   *)
THEOREM NoOrphans == Spec => []NoOrphanThread
<1>1. IInv => NoOrphanThread
  BY DEF IInv, ThreadInv, NoOrphanThread, At, Creating
<1> QED BY <1>1, Invariance, PTL

(* Between calls no request is left unanswered in the Event.               *)
THEOREM AllAnswered == Spec => []RequestsAnswered
<1>1. IInv => RequestsAnswered
  BY DEF IInv, TypeOK, ThreadInv, EventInv, RequestsAnswered, At, JobStates, Creating
<1> QED BY <1>1, Invariance, PTL

(* PAUSED, and a true result of IsPaused, mean that the thread sleeps.     *)
THEOREM PausedIsSuspended == Spec => []PausedMeansSuspended
<1>1. IInv => PausedMeansSuspended
  BY DEF IInv, OpInv, EventInv, PausedMeansSuspended
<1> QED BY <1>1, Invariance, PTL

(* Two threads of one job never exist at the same time.                    *)
THEOREM NoOverlap == Spec => OneThread
<1>1. IInv /\ [Next]_vars => [wpc' = "prepare" /\ wpc # "prepare" => wpc = "none"]_vars
  <2> SUFFICES ASSUME IInv, Next, wpc' = "prepare", wpc # "prepare"
               PROVE  wpc = "none"
    BY DEF vars
  <2>1. ASSUME NEW c \in Callers, CallerStep(c) PROVE wpc = "none"
    <3>1. CASE CreateSpawn(c)
      <4>1. At = "spawn"
        BY <3>1, OwnerAt DEF IInv, CreateSpawn, Goto, Inside
      <4> QED BY <4>1 DEF IInv, ThreadInv, Creating
    <3> QED
      BY <2>1, <3>1 DEF CallerStep, StartEnter, PauseEnter, StopEnter, IsActiveEnter,
         IsPausedEnter, PausedCheck, StartExecutingAction, PauseExecutingAction,
         FinishAction, FinishJoin, FinishReset, CreateWait, CreateFailed, CreateStarted,
         StartPublish, Return, Acquire, Check, SetState, Answered, threadVars
  <2>2. ASSUME NEW c \in Callers, NEW o \in Ops, Call(c, o) PROVE wpc = "none"
    BY <2>2 DEF Call, threadVars
  <2>3. CASE ThreadStep
    BY <2>3 DEF ThreadStep, Prepare, WaitStarted, IsFinished, ExecuteCycle, Yield, Suspend,
       SetPaused, Awake, Resume, SetStarted, SetStopped, Finalize, Exit, Throws, Thread
  <2> QED BY <2>1, <2>2, <2>3 DEF Next
<1> QED BY <1>1, Invariance, PTL DEF Spec, OneThread

(* The assertion of ~ActivityImpl never fires.                             *)
THEOREM NoDestructionOfRunning == Spec => DestroyedAfterWait
<1>1. IInv /\ [Next]_vars
      => [actState # "NONE" /\ actState' = "NONE" => actState \in {"STOPPED", "FAILED"}]_vars
  <2> SUFFICES ASSUME IInv, Next, actState # "NONE", actState' = "NONE"
               PROVE  actState \in {"STOPPED", "FAILED"}
    BY DEF vars
  <2>1. ASSUME NEW c \in Callers, CallerStep(c) PROVE actState \in {"STOPPED", "FAILED"}
    <3>1. CASE FinishReset(c)
      <4>1. At = "finReset"
        BY <3>1, OwnerAt DEF IInv, FinishReset, Goto, Inside
      <4> QED BY <4>1 DEF IInv, ThreadInv, Creating
    <3>2. CASE CreateFailed(c)
      <4>1. At = "createJoin"
        BY <3>2, OwnerAt DEF IInv, CreateFailed, Goto, Inside, Creating
      <4> QED BY <4>1 DEF IInv, ThreadInv
    <3> QED
      BY <2>1, <3>1, <3>2 DEF CallerStep, StartEnter, PauseEnter, StopEnter, IsActiveEnter,
         IsPausedEnter, PausedCheck, StartExecutingAction, PauseExecutingAction,
         FinishAction, FinishJoin, CreateSpawn, CreateWait, CreateStarted,
         StartPublish, Return, Acquire, Check, SetState, Answered, threadVars
  <2>2. ASSUME NEW c \in Callers, NEW o \in Ops, Call(c, o)
        PROVE  actState \in {"STOPPED", "FAILED"}
    BY <2>2 DEF Call, threadVars
  <2>3. CASE ThreadStep
    BY <2>3 DEF ThreadStep, Prepare, WaitStarted, IsFinished, ExecuteCycle, Yield, Suspend,
       SetPaused, Awake, Resume, SetStarted, SetStopped, Finalize, Exit, Throws
  <2> QED BY <2>1, <2>2, <2>3 DEF Next
<1> QED BY <1>1, Invariance, PTL DEF Spec, DestroyedAfterWait

(* While a pause lasts, only a call that resumes or ends the session may   *)
(* change the Event.                                                       *)
THEOREM PausesHold == Spec => PauseHolds
<1>1. IInv /\ [Next]_vars
      => [jobState = "PAUSED" /\ jobState' # "PAUSED"
            => lock # Nobody /\ op[lock] \notin {"Pause", "IsActive", "IsPaused"}]_vars
  <2> SUFFICES ASSUME IInv, Next, jobState = "PAUSED", jobState' # "PAUSED"
               PROVE  lock # Nobody /\ op[lock] \notin {"Pause", "IsActive", "IsPaused"}
    BY DEF vars
  <2>1. ASSUME NEW c \in Callers, CallerStep(c)
        PROVE  lock # Nobody /\ op[lock] \notin {"Pause", "IsActive", "IsPaused"}
    <3>1. \/ SetState(c, "startSet", "STARTING", "startWait")
          \/ SetState(c, "pauseSet", "PAUSING", "pauseWait")
          \/ SetState(c, "finSet", "STOPPING", "finJoin")
          \/ FinishReset(c) \/ StartPublish(c)
      BY <2>1 DEF CallerStep, StartEnter, PauseEnter, StopEnter, IsActiveEnter,
         IsPausedEnter, PausedCheck, StartExecutingAction, PauseExecutingAction,
         FinishAction, FinishJoin, CreateSpawn, CreateWait, CreateFailed, CreateStarted,
         Return, Acquire, Check, Answered, jobVars
    <3>2. lock = c /\ At = pc[c] /\ pc[c] \in {"startSet", "pauseSet", "finSet", "finReset", "publish"}
      BY <3>1, OwnerAt DEF IInv, SetState, FinishReset, StartPublish, Goto, Inside, Creating
    <3>3. At # "pauseSet"
      BY DEF IInv, EventInv
    <3>4. op[c] \in {"StartExecutingAction", "Start", "Stop", "Destroy"}
      <4>1. At = "finReset" => jobState # "PAUSED"
        BY DEF IInv, EventInv
      <4> QED BY <3>2, <3>3, <4>1 DEF IInv, OpInv, Creating
    <3> QED BY <3>2, <3>4, ConstantsAssumption
  <2>2. ASSUME NEW c \in Callers, NEW o \in Ops, Call(c, o)
        PROVE  jobState' = jobState
    BY <2>2 DEF Call, jobVars
  <2>3. CASE ThreadStep
    BY <2>3 DEF IInv, EventInv, ThreadStep, Prepare, WaitStarted, IsFinished, ExecuteCycle,
       Yield, Suspend, SetPaused, Awake, Resume, SetStarted, SetStopped, Finalize, Exit,
       Throws, Thread, jobVars
  <2> QED BY <2>1, <2>2, <2>3 DEF Next
<1> QED BY <1>1, Invariance, PTL DEF Spec, PauseHolds

(* The job implements the protocol of worker.h: every step is a step of    *)
(* the protocol or leaves its variables alone.                             *)
THEOREM ImplementsProtocol == Spec => WorkerProtocolSpec
<1>1. Init => WP!Init
  BY DEF Init, WP!Init, Phase, Retried
<1>2. IInv /\ [Next]_vars => [WP!Next]_(WP!vars)
  <2> SUFFICES ASSUME IInv, [Next]_vars PROVE [WP!Next]_(WP!vars)
    OBVIOUS
  <2> USE DEF WP!Next, WP!vars, WP!Move, Phase, Retried
  <2>1. ASSUME NEW c \in Callers, CallerStep(c) PROVE [WP!Next]_(WP!vars)
    <3>1. CASE CreateSpawn(c)
      <4>1. wpc = "none"
        BY <3>1, OwnerAt DEF IInv, ThreadInv, CreateSpawn, Goto, Inside, Creating
      <4> QED BY <3>1, <4>1 DEF CreateSpawn
    <3>2. CASE FinishJoin(c)
      <4>1. At = "finJoin"
        BY <3>2, OwnerAt DEF IInv, FinishJoin, Goto, Inside
      <4>2. lastError # "Initialize"
        BY <3>2, <4>1 DEF IInv, ThreadInv, FinishJoin
      <4> QED BY <3>2, <4>2 DEF FinishJoin, WP!Forget
    <3>3. CASE FinishReset(c)
      <4>1. wpc = "none"
        BY <3>3, OwnerAt DEF IInv, ThreadInv, FinishReset, Goto, Inside, Creating
      <4> QED BY <3>3, <4>1 DEF FinishReset
    <3>4. CASE CreateFailed(c)
      <4>1. lastError = "Initialize"
        BY <3>4, OwnerAt DEF IInv, ThreadInv, CreateFailed, Goto, Inside, Creating
      <4> QED BY <3>4, <4>1 DEF CreateFailed
    <3>5. UNCHANGED <<wpc, lastError>> => [WP!Next]_(WP!vars)
      OBVIOUS
    <3> QED
      BY <2>1, <3>1, <3>2, <3>3, <3>4, <3>5 DEF CallerStep, StartEnter, PauseEnter,
         StopEnter, IsActiveEnter, IsPausedEnter, PausedCheck, StartExecutingAction,
         PauseExecutingAction, FinishAction, CreateWait, CreateStarted, StartPublish,
         Return, Acquire, Check, SetState, Answered, threadVars
  <2>2. ASSUME NEW c \in Callers, NEW o \in Ops, Call(c, o) PROVE [WP!Next]_(WP!vars)
    BY <2>2 DEF Call, threadVars
  <2>3. CASE ThreadStep
    <3>1. CASE Prepare
      BY <3>1 DEF IInv, ErrorInv, Prepare, Thread, Fails, WP!Initialize
    <3>2. CASE WaitStarted
      BY <3>2 DEF WaitStarted, Thread
    <3>3. CASE IsFinished
      BY <3>3 DEF IInv, ErrorInv, IsFinished, Thread, WP!IsFinished
    <3>4. CASE ExecuteCycle
      BY <3>4 DEF IInv, ErrorInv, ExecuteCycle, Throws, Fails, Thread, WP!ExecuteCycle
    <3>5. CASE Yield
      BY <3>5 DEF IInv, ErrorInv, Yield, Thread, WP!GoOn, WP!StopRunning
    <3>6. CASE Suspend
      BY <3>6 DEF IInv, ErrorInv, Suspend, Throws, Fails, Thread, WP!Suspend
    <3>7. CASE SetPaused
      BY <3>7 DEF SetPaused, Thread
    <3>8. CASE Awake
      BY <3>8 DEF Awake, Thread
    <3>9. CASE Resume
      BY <3>9 DEF IInv, ErrorInv, Resume, Throws, Fails, Thread, WP!Resume
    <3>10. CASE SetStarted
      BY <3>10 DEF SetStarted, Thread
    <3>11. CASE SetStopped
      BY <3>11 DEF SetStopped, Thread
    <3>12. CASE Finalize
      BY <3>12 DEF IInv, ErrorInv, Finalize, Fails, Thread, WP!Finalize
    <3>13. CASE Exit
      BY <3>13 DEF IInv, ErrorInv, Exit, Thread
    <3> QED
      BY <2>3, <3>1, <3>2, <3>3, <3>4, <3>5, <3>6, <3>7, <3>8, <3>9, <3>10, <3>11, <3>12,
         <3>13 DEF ThreadStep
  <2>4. CASE UNCHANGED vars
    BY <2>4 DEF vars
  <2> QED BY <2>1, <2>2, <2>3, <2>4 DEF Next
<1> QED BY <1>1, <1>2, Invariance, PTL DEF Spec, WorkerProtocolSpec, WP!Spec
=============================================================================
