---------------------------- MODULE PlaybackProofs ----------------------------
(***************************************************************************)
(* Proofs about Playback, for a module of any length, any number of seeks  *)
(* and any set of device operations that fail.                             *)
(***************************************************************************)
EXTENDS Playback, TLAPS

(* Before the first session the device is closed and nothing was told.     *)
LEMMA InitInv == Init => IInv
<1> SUFFICES ASSUME Init PROVE IInv
  OBVIOUS
<1> USE PlaybackAssumption DEF Init, Job!Init
<1>1. TypeOK
  <2>1. position \in 0..Frames /\ seeks \in 0..MaxSeeks /\ finishes \in Nat
    OBVIOUS
  <2>2. seekRequest \in 0..Frames \cup {NoSeek}
    OBVIOUS
  <2> QED BY <2>1, <2>2 DEF TypeOK, Job!Phases
<1>2. ControlInv
  BY DEF ControlInv, RenderPlaces
<1>3. DeviceInv
  BY DEF DeviceInv, OutOfSession, AtEnd, Told, RenderPlaces
<1>4. FinishInv
  BY DEF FinishInv, FinishAnnounced, RenderPlaces
<1> QED BY <1>1, <1>2, <1>3, <1>4 DEF IInv

(* Every step of the session's thread preserves the invariant.             *)
LEMMA ThreadStepInv ==
  ASSUME IInv, ThreadStep
  PROVE  IInv'
<1> USE PlaybackAssumption DEF IInv, protocolVars, renderVars, deviceVars, clientVars, historyVars
<1>1. CASE InitializeBegin
  <2>1. TypeOK' /\ ControlInv'
    BY <1>1 DEF InitializeBegin, Begin, TypeOK, ControlInv, RenderPlaces, Job!Phases
  <2>2. DeviceInv'
    BY <1>1 DEF InitializeBegin, Begin, TypeOK, ControlInv, RenderPlaces, Job!Phases, DeviceInv,
       OutOfSession, AtEnd, Told
  <2>3. FinishInv'
    BY <1>1 DEF InitializeBegin, Begin, TypeOK, ControlInv, RenderPlaces, Job!Phases, FinishInv,
       FinishAnnounced
  <2> QED BY <2>1, <2>2, <2>3
<1>2. CASE CycleBegin
  <2>1. TypeOK' /\ ControlInv'
    BY <1>2 DEF CycleBegin, Begin, TypeOK, ControlInv, RenderPlaces, Job!Phases
  <2>2. DeviceInv'
    BY <1>2 DEF CycleBegin, Begin, TypeOK, ControlInv, RenderPlaces, Job!Phases, DeviceInv,
       OutOfSession, AtEnd, Told
  <2>3. FinishInv'
    BY <1>2 DEF CycleBegin, Begin, TypeOK, ControlInv, RenderPlaces, Job!Phases, FinishInv,
       FinishAnnounced
  <2> QED BY <2>1, <2>2, <2>3
<1>3. CASE SuspendBegin
  <2>1. TypeOK' /\ ControlInv'
    BY <1>3 DEF SuspendBegin, Begin, TypeOK, ControlInv, RenderPlaces, Job!Phases
  <2>2. DeviceInv'
    BY <1>3 DEF SuspendBegin, Begin, TypeOK, ControlInv, RenderPlaces, Job!Phases, DeviceInv,
       OutOfSession, AtEnd, Told
  <2>3. FinishInv'
    BY <1>3 DEF SuspendBegin, Begin, TypeOK, ControlInv, RenderPlaces, Job!Phases, FinishInv,
       FinishAnnounced
  <2> QED BY <2>1, <2>2, <2>3
<1>4. CASE ResumeBegin
  <2>1. TypeOK' /\ ControlInv'
    BY <1>4 DEF ResumeBegin, Begin, TypeOK, ControlInv, RenderPlaces, Job!Phases
  <2>2. DeviceInv'
    BY <1>4 DEF ResumeBegin, Begin, TypeOK, ControlInv, RenderPlaces, Job!Phases, DeviceInv,
       OutOfSession, AtEnd, Told
  <2>3. FinishInv'
    BY <1>4 DEF ResumeBegin, Begin, TypeOK, ControlInv, RenderPlaces, Job!Phases, FinishInv,
       FinishAnnounced
  <2> QED BY <2>1, <2>2, <2>3
<1>5. CASE FinalizeBegin
  <2>1. TypeOK' /\ ControlInv'
    BY <1>5 DEF FinalizeBegin, TypeOK, ControlInv, RenderPlaces, Job!Phases
  <2>2. DeviceInv'
    BY <1>5 DEF FinalizeBegin, TypeOK, ControlInv, RenderPlaces, Job!Phases, DeviceInv,
       OutOfSession, AtEnd, Told
  <2>3. FinishInv'
    BY <1>5 DEF FinalizeBegin, TypeOK, ControlInv, RenderPlaces, Job!Phases, FinishInv,
       FinishAnnounced
  <2> QED BY <2>1, <2>2, <2>3
<1>6. CASE IsFinished
  <2>1. TypeOK' /\ ControlInv'
    BY <1>6 DEF IsFinished, Job!Move, TypeOK, ControlInv, RenderPlaces, Job!Phases
  <2>2. DeviceInv'
    BY <1>6 DEF IsFinished, Job!Move, TypeOK, ControlInv, RenderPlaces, Job!Phases, DeviceInv,
       OutOfSession, AtEnd, Told
  <2>3. FinishInv'
    BY <1>6 DEF IsFinished, Job!Move, TypeOK, ControlInv, RenderPlaces, Job!Phases, FinishInv,
       FinishAnnounced
  <2> QED BY <2>1, <2>2, <2>3
<1>7. CASE Schedule
  <2>1. TypeOK' /\ ControlInv'
    BY <1>7 DEF Schedule, Job!GoOn, Job!StopRunning, Job!Forget, Job!Move, TypeOK, ControlInv, RenderPlaces, Job!Phases
  <2>2. DeviceInv'
    BY <1>7 DEF Schedule, Job!GoOn, Job!StopRunning, Job!Forget, Job!Move, TypeOK, ControlInv, RenderPlaces, Job!Phases, DeviceInv,
       OutOfSession, AtEnd, Told
  <2>3. FinishInv'
    BY <1>7 DEF Schedule, Job!GoOn, Job!StopRunning, Job!Forget, Job!Move, TypeOK, ControlInv, RenderPlaces, Job!Phases, FinishInv,
       FinishAnnounced
  <2> QED BY <2>1, <2>2, <2>3
<1>8. CASE Reset
  <2>1. TypeOK' /\ ControlInv'
    BY <1>8 DEF Reset, Proceed, TypeOK, ControlInv, RenderPlaces, Job!Phases
  <2>2. DeviceInv'
    BY <1>8 DEF Reset, Proceed, TypeOK, ControlInv, RenderPlaces, Job!Phases, DeviceInv,
       OutOfSession, AtEnd, Told
  <2>3. FinishInv'
    BY <1>8 DEF Reset, Proceed, TypeOK, ControlInv, RenderPlaces, Job!Phases, FinishInv,
       FinishAnnounced
  <2> QED BY <2>1, <2>2, <2>3
<1>9. CASE Startup
  <2>1. TypeOK' /\ ControlInv'
    BY <1>9 DEF Startup, Proceed, Throws, End, Failed, TypeOK, ControlInv, RenderPlaces, Job!Phases
  <2>2. DeviceInv'
    BY <1>9 DEF Startup, Proceed, Throws, End, Failed, TypeOK, ControlInv, RenderPlaces, Job!Phases, DeviceInv,
       OutOfSession, AtEnd, Told
  <2>3. FinishInv'
    BY <1>9 DEF Startup, Proceed, Throws, End, Failed, TypeOK, ControlInv, RenderPlaces, Job!Phases, FinishInv,
       FinishAnnounced
  <2> QED BY <2>1, <2>2, <2>3
<1>10. CASE OnStart
  <2>1. TypeOK' /\ ControlInv'
    BY <1>10 DEF OnStart, Proceed, TypeOK, ControlInv, RenderPlaces, Job!Phases
  <2>2. DeviceInv'
    BY <1>10 DEF OnStart, Proceed, TypeOK, ControlInv, RenderPlaces, Job!Phases, DeviceInv,
       OutOfSession, AtEnd, Told
  <2>3. FinishInv'
    BY <1>10 DEF OnStart, Proceed, TypeOK, ControlInv, RenderPlaces, Job!Phases, FinishInv,
       FinishAnnounced
  <2> QED BY <2>1, <2>2, <2>3
<1>11. CASE SeekTest
  <2>1. TypeOK' /\ ControlInv'
    BY <1>11 DEF SeekTest, Proceed, TypeOK, ControlInv, RenderPlaces, Job!Phases
  <2>2. DeviceInv'
    BY <1>11 DEF SeekTest, Proceed, TypeOK, ControlInv, RenderPlaces, Job!Phases, DeviceInv,
       OutOfSession, AtEnd, Told
  <2>3. FinishInv'
    BY <1>11 DEF SeekTest, Proceed, TypeOK, ControlInv, RenderPlaces, Job!Phases, FinishInv,
       FinishAnnounced
  <2> QED BY <2>1, <2>2, <2>3
<1>12. CASE SeekApply
  <2>1. TypeOK' /\ ControlInv'
    BY <1>12 DEF SeekApply, Proceed, TypeOK, ControlInv, RenderPlaces, Job!Phases
  <2>2. DeviceInv'
    BY <1>12 DEF SeekApply, Proceed, TypeOK, ControlInv, RenderPlaces, Job!Phases, DeviceInv,
       OutOfSession, AtEnd, Told
  <2>3. FinishInv'
    BY <1>12 DEF SeekApply, Proceed, TypeOK, ControlInv, RenderPlaces, Job!Phases, FinishInv,
       FinishAnnounced
  <2> QED BY <2>1, <2>2, <2>3
<1>13. CASE SeekClear
  <2>1. TypeOK' /\ ControlInv'
    BY <1>13 DEF SeekClear, Proceed, TypeOK, ControlInv, RenderPlaces, Job!Phases
  <2>2. DeviceInv'
    BY <1>13 DEF SeekClear, Proceed, TypeOK, ControlInv, RenderPlaces, Job!Phases, DeviceInv,
       OutOfSession, AtEnd, Told
  <2>3. FinishInv'
    BY <1>13 DEF SeekClear, Proceed, TypeOK, ControlInv, RenderPlaces, Job!Phases, FinishInv,
       FinishAnnounced
  <2> QED BY <2>1, <2>2, <2>3
<1>14. CASE FrameStart
  <2>1. TypeOK' /\ ControlInv'
    BY <1>14 DEF FrameStart, Proceed, Throws, RenderFailed, End, Failed, Job!Move, TypeOK, ControlInv, RenderPlaces, Job!Phases
  <2>2. DeviceInv'
    BY <1>14 DEF FrameStart, Proceed, Throws, RenderFailed, End, Failed, Job!Move, TypeOK, ControlInv, RenderPlaces, Job!Phases, DeviceInv,
       OutOfSession, AtEnd, Told
  <2>3. FinishInv'
    BY <1>14 DEF FrameStart, Proceed, Throws, RenderFailed, End, Failed, Job!Move, TypeOK, ControlInv, RenderPlaces, Job!Phases, FinishInv,
       FinishAnnounced
  <2> QED BY <2>1, <2>2, <2>3
<1>15. CASE Render
  <2>1. position' \in 0..Frames
    BY <1>15 DEF Render, NextFrame, Throws, TypeOK
  <2>2. playing' \in BOOLEAN
    <3>1. playing' = (position' < Frames) \/ playing' = playing
      BY <1>15, Zenon DEF Render, Throws
    <3>2. (position' < Frames) \in BOOLEAN
      OBVIOUS
    <3>3. playing \in BOOLEAN
      BY DEF TypeOK
    <3> QED BY <3>1, <3>2, <3>3, Zenon
  <2>3. TypeOK'
    BY <1>15, <2>1, <2>2 DEF Render, Proceed, Throws, RenderFailed, End, Failed,
       Job!Initialize, Job!Move, TypeOK, ControlInv, RenderPlaces, Job!Phases
  <2>4. ControlInv'
    BY <1>15 DEF Render, Proceed, Throws, RenderFailed, End, Failed, Job!Initialize,
       Job!Move, ControlInv, RenderPlaces
  <2>5. DeviceInv'
    BY <1>15 DEF Render, Proceed, Throws, RenderFailed, End, Failed, Job!Initialize,
       Job!Move, ControlInv, RenderPlaces, DeviceInv, OutOfSession, AtEnd, Told
  <2>6. FinishInv'
    BY <1>15 DEF Render, Proceed, Throws, RenderFailed, End, Failed, Job!Initialize,
       Job!Move, ControlInv, RenderPlaces, TypeOK, FinishInv, FinishAnnounced
  <2> QED BY <2>3, <2>4, <2>5, <2>6
<1>16. CASE OnFinish
  <2>1. TypeOK' /\ ControlInv'
    BY <1>16 DEF OnFinish, End, Job!Move, TypeOK, ControlInv, RenderPlaces, Job!Phases
  <2>2. DeviceInv'
    BY <1>16 DEF OnFinish, End, Job!Move, TypeOK, ControlInv, RenderPlaces, Job!Phases, DeviceInv,
       OutOfSession, AtEnd, Told
  <2>3. FinishInv'
    BY <1>16 DEF OnFinish, End, Job!Move, TypeOK, ControlInv, RenderPlaces, Job!Phases, FinishInv,
       FinishAnnounced
  <2> QED BY <2>1, <2>2, <2>3
<1>17. CASE Pause
  <2>1. TypeOK' /\ ControlInv'
    BY <1>17 DEF Pause, Proceed, Throws, End, Failed, Job!Move, TypeOK, ControlInv, RenderPlaces, Job!Phases
  <2>2. DeviceInv'
    BY <1>17 DEF Pause, Proceed, Throws, End, Failed, Job!Move, TypeOK, ControlInv, RenderPlaces, Job!Phases, DeviceInv,
       OutOfSession, AtEnd, Told
  <2>3. FinishInv'
    BY <1>17 DEF Pause, Proceed, Throws, End, Failed, Job!Move, TypeOK, ControlInv, RenderPlaces, Job!Phases, FinishInv,
       FinishAnnounced
  <2> QED BY <2>1, <2>2, <2>3
<1>18. CASE OnPause
  <2>1. TypeOK' /\ ControlInv'
    BY <1>18 DEF OnPause, End, Job!Move, TypeOK, ControlInv, RenderPlaces, Job!Phases
  <2>2. DeviceInv'
    BY <1>18 DEF OnPause, End, Job!Move, TypeOK, ControlInv, RenderPlaces, Job!Phases, DeviceInv,
       OutOfSession, AtEnd, Told
  <2>3. FinishInv'
    BY <1>18 DEF OnPause, End, Job!Move, TypeOK, ControlInv, RenderPlaces, Job!Phases, FinishInv,
       FinishAnnounced
  <2> QED BY <2>1, <2>2, <2>3
<1>19. CASE Resume
  <2>1. TypeOK' /\ ControlInv'
    BY <1>19 DEF Resume, Proceed, Throws, End, Failed, Job!Move, TypeOK, ControlInv, RenderPlaces, Job!Phases
  <2>2. DeviceInv'
    BY <1>19 DEF Resume, Proceed, Throws, End, Failed, Job!Move, TypeOK, ControlInv, RenderPlaces, Job!Phases, DeviceInv,
       OutOfSession, AtEnd, Told
  <2>3. FinishInv'
    BY <1>19 DEF Resume, Proceed, Throws, End, Failed, Job!Move, TypeOK, ControlInv, RenderPlaces, Job!Phases, FinishInv,
       FinishAnnounced
  <2> QED BY <2>1, <2>2, <2>3
<1>20. CASE OnResume
  <2>1. TypeOK' /\ ControlInv'
    BY <1>20 DEF OnResume, End, Job!Resume, Job!Move, TypeOK, ControlInv, RenderPlaces, Job!Phases
  <2>2. DeviceInv'
    BY <1>20 DEF OnResume, End, Job!Resume, Job!Move, TypeOK, ControlInv, RenderPlaces, Job!Phases, DeviceInv,
       OutOfSession, AtEnd, Told
  <2>3. FinishInv'
    BY <1>20 DEF OnResume, End, Job!Resume, Job!Move, TypeOK, ControlInv, RenderPlaces, Job!Phases, FinishInv,
       FinishAnnounced
  <2> QED BY <2>1, <2>2, <2>3
<1>21. CASE Shutdown
  <2>1. TypeOK' /\ ControlInv'
    <3>1. CASE /\ Proceed("shutdown", "onStop") /\ device' = "closed" /\ stuck' = FALSE
               /\ UNCHANGED <<renderVars, clientVars, historyVars, seeks>>
      BY <3>1 DEF Proceed, TypeOK, ControlInv, RenderPlaces, Job!Phases
    <3>2. CASE Throws("Shutdown", "shutdown") /\ stuck' = TRUE /\ End(Failed)
      BY <3>2 DEF Throws, End, Failed, Job!Finalize, TypeOK, ControlInv, RenderPlaces, Job!Phases
    <3> QED BY <1>21, <3>1, <3>2 DEF Shutdown
  <2>2. DeviceInv'
    BY <1>21 DEF Shutdown, Proceed, Throws, End, Failed, Job!Finalize, TypeOK, ControlInv, RenderPlaces, Job!Phases, DeviceInv,
       OutOfSession, AtEnd, Told
  <2>3. FinishInv'
    BY <1>21 DEF Shutdown, Proceed, Throws, End, Failed, Job!Finalize, TypeOK, ControlInv, RenderPlaces, Job!Phases, FinishInv,
       FinishAnnounced
  <2> QED BY <2>1, <2>2, <2>3
<1>22. CASE OnStop
  <2>1. TypeOK' /\ ControlInv'
    BY <1>22 DEF OnStop, End, TypeOK, ControlInv, RenderPlaces, Job!Phases
  <2>2. DeviceInv'
    BY <1>22 DEF OnStop, End, TypeOK, ControlInv, RenderPlaces, Job!Phases, DeviceInv,
       OutOfSession, AtEnd, Told
  <2>3. FinishInv'
    BY <1>22 DEF OnStop, End, TypeOK, ControlInv, RenderPlaces, Job!Phases, FinishInv,
       FinishAnnounced
  <2> QED BY <2>1, <2>2, <2>3
<1> QED
  BY <1>1, <1>2, <1>3, <1>4, <1>5, <1>6, <1>7, <1>8, <1>9, <1>10, <1>11, <1>12, <1>13, <1>14, <1>15, <1>16, <1>17, <1>18, <1>19, <1>20, <1>21, <1>22 DEF ThreadStep

(* A seek touches nothing but the request.                                 *)
LEMMA SetPositionInv ==
  ASSUME IInv, NEW frame \in 0..Frames, SetPosition(frame)
  PROVE  IInv'
BY PlaybackAssumption
DEF SetPosition, IInv, TypeOK, Job!Phases, ControlInv, DeviceInv, OutOfSession,
    AtEnd, Told, FinishInv, FinishAnnounced, RenderPlaces, protocolVars, renderVars,
    deviceVars, clientVars, historyVars

(* The invariant holds in every reachable state.                           *)
THEOREM Invariance == Spec => []IInv
<1>1. IInv /\ UNCHANGED vars => IInv'
  BY DEF vars, IInv, TypeOK, Job!Phases, ControlInv, DeviceInv, OutOfSession,
     AtEnd, Told, FinishInv, FinishAnnounced, RenderPlaces
<1>2. IInv /\ [Next]_vars => IInv'
  BY <1>1, ThreadStepInv, SetPositionInv DEF Next
<1> QED BY InitInv, <1>2, PTL DEF Spec

(* Frames reach the device only while it is started and not paused.        *)
THEOREM FramesOnlyWhenOpen == Spec => []FramesOnOpenDevice
<1>1. IInv => FramesOnOpenDevice
  BY DEF IInv, DeviceInv, Told, RenderPlaces, FramesOnOpenDevice
<1> QED BY <1>1, Invariance, PTL

(* Between sessions the device is closed, unless its Shutdown threw.       *)
THEOREM DeviceIsReleased == Spec => []DeviceReleased
<1>1. IInv => DeviceReleased
  BY DEF IInv, DeviceInv, OutOfSession, Told, DeviceReleased
<1> QED BY <1>1, Invariance, PTL

(* Between sessions the client knows that playback has stopped, with the   *)
(* same exception.                                                         *)
THEOREM ClientIsTold == Spec => []ClientTold
<1>1. IInv => ClientTold
  BY DEF IInv, DeviceInv, OutOfSession, Told, ClientTold
<1> QED BY <1>1, Invariance, PTL

(* The client never hears of a change that the device has not made.        *)
THEOREM ClientFollows == Spec => []ClientFollowsDevice
<1>1. IInv => ClientFollowsDevice
  <2> SUFFICES ASSUME IInv PROVE ClientFollowsDevice
    OBVIOUS
  <2> QED
    BY DEF IInv, TypeOK, Job!Phases, ControlInv, DeviceInv, RenderPlaces, OutOfSession, AtEnd,
       Told, ClientFollowsDevice
<1> QED BY <1>1, Invariance, PTL

(* OnFinish comes at most once in a session, at the last frame, and before *)
(* the end of every session that played to the end.                        *)
THEOREM FinishIsAnnounced == Spec => []FinishAnnounced
<1>1. IInv => FinishAnnounced
  BY DEF IInv, FinishInv
<1> QED BY <1>1, Invariance, PTL

(* The backend is called as the job promises: what AsyncWrapper sees in    *)
(* this model is a behaviour of WorkerProtocol, failures and retries       *)
(* included.                                                               *)
THEOREM FollowsProtocol == Spec => Job!Spec
<1>1. Init => Job!Init
  BY DEF Init
<1>2. IInv /\ [Next]_vars => [Job!Next]_(Job!vars)
  <2> SUFFICES ASSUME IInv, [Next]_vars PROVE [Job!Next]_(Job!vars)
    OBVIOUS
  <2> USE DEF Job!Next, Job!vars, Job!Move, protocolVars
  <2>1. CASE ThreadStep
    <3>1. UNCHANGED protocolVars => UNCHANGED Job!vars
      OBVIOUS
    <3>2. CASE IsFinished
      BY <3>2 DEF IsFinished, Job!IsFinished
    <3>3. CASE Schedule
      BY <3>3 DEF Schedule
    <3>4. ASSUME Failed PROVE [Job!Next]_(Job!vars)
      BY <3>4 DEF Failed, Job!ExecuteCycle, Job!Suspend, Job!Resume
    <3>5. CASE Render
      BY <3>4, <3>5 DEF Render, Throws, RenderFailed, End, Proceed, Job!Initialize
    <3>6. CASE FrameStart
      BY <3>4, <3>6 DEF FrameStart, Throws, RenderFailed, End, Proceed
    <3>7. CASE Startup \/ Pause \/ Resume \/ Shutdown
      BY <3>4, <3>7 DEF Startup, Pause, Resume, Shutdown, End, Proceed
    <3>8. CASE OnFinish \/ OnPause \/ OnResume
      BY <3>8 DEF OnFinish, OnPause, OnResume, End, Job!ExecuteCycle, Job!Suspend
    <3>9. CASE OnStop
      BY <3>9 DEF IInv, ControlInv, OnStop, End, Job!Finalize
    <3> QED
      BY <2>1, <3>1, <3>2, <3>3, <3>5, <3>6, <3>7, <3>8, <3>9 DEF ThreadStep, InitializeBegin,
         CycleBegin, SuspendBegin, ResumeBegin, FinalizeBegin, Begin, Reset, OnStart,
         SeekTest, SeekApply, SeekClear, Proceed
  <2>2. ASSUME NEW frame \in 0..Frames, SetPosition(frame) PROVE [Job!Next]_(Job!vars)
    BY <2>2 DEF SetPosition
  <2>3. CASE UNCHANGED vars
    BY <2>3 DEF vars
  <2> QED BY <2>1, <2>2, <2>3 DEF Next
<1> QED BY <1>1, <1>2, Invariance, PTL DEF Spec, Job!Spec
=============================================================================
