------------------------------- MODULE Playback -------------------------------
(***************************************************************************)
(* A sound backend (sound/backends/backend_impl.cpp): AsyncWrapper is the  *)
(* Async::Worker of the playback job, RendererWrapper the renderer it      *)
(* drives, CallbackOverWorker passes the events first to the BackendWorker *)
(* (the device or the file) and then to the client (the player's UI).      *)
(*                                                                         *)
(* In which order the job calls its worker is WorkerProtocol, which        *)
(* AsyncJob implements: the choices left open there (to go on, to suspend, *)
(* to stop) are the calls of Play, Pause and Stop.  SetPosition does not   *)
(* pass through the job: it writes RendererWrapper::SeekRequest while the  *)
(* thread of the session runs, so that each access to that variable is a   *)
(* step of its own.                                                        *)
(***************************************************************************)
EXTENDS Naturals

CONSTANTS
  Frames,     (* the length of the module; frame number Frames is its end  *)
  NoSeek,     (* NO_SEEK                                                   *)
  MaxSeeks,   (* bound: so many calls of SetPosition                       *)
  MayFail     (* the operations of the BackendWorker that may throw        *)

DeviceOps == {"Startup", "Shutdown", "Pause", "Resume", "FrameStart", "FrameFinish"}

ASSUME PlaybackAssumption ==
  /\ Frames \in Nat \ {0} /\ MaxSeeks \in Nat
  /\ NoSeek \notin 0..Frames
  /\ MayFail \subseteq DeviceOps

VARIABLES
  phase, retried,   (* the session as the job sees it: WorkerProtocol      *)
  call,             (* the callback of AsyncWrapper in progress            *)
  at,               (* the call it is about to make                        *)
  playing,          (* AsyncWrapper::Playing                               *)
  seekRequest,      (* RendererWrapper::SeekRequest                        *)
  position,         (* the next frame of the delegate renderer             *)
  device,           (* the BackendWorker, as its calls left it             *)
  stuck,            (* its last Shutdown threw, no session began since     *)
  client,           (* what the client's BackendCallback was told          *)
  finishes,         (* how often it was told OnFinish in this session      *)
  cycled, natural,  (* history: a cycle was executed, IsFinished held      *)
  seeks             (* calls of SetPosition made so far                    *)

protocolVars == <<phase, retried>>
renderVars   == <<playing, seekRequest, position>>
deviceVars   == <<device, stuck>>
clientVars   == <<client, finishes>>
historyVars  == <<cycled, natural>>
vars == <<phase, retried, call, at, playing, seekRequest, position, device, stuck,
          client, finishes, cycled, natural, seeks>>

Job == INSTANCE WorkerProtocol

Init ==
  /\ Job!Init
  /\ call = "none" /\ at = "none"
  /\ playing = FALSE /\ seekRequest = NoSeek /\ position = 0
  /\ device = "closed" /\ stuck = FALSE
  /\ client = "stopped" /\ finishes = 0
  /\ cycled = FALSE /\ natural = FALSE
  /\ seeks = 0

-----------------------------------------------------------------------------
(* The callbacks of AsyncWrapper begin and end.                            *)

Begin(from, callback, first) ==
  /\ phase = from /\ call = "none"
  /\ call' = callback /\ at' = first
  /\ UNCHANGED <<protocolVars, renderVars, deviceVars, clientVars, historyVars, seeks>>

InitializeBegin == Begin("fresh", "Initialize", "reset")
CycleBegin      == Begin("cycling", "ExecuteCycle", "seekTest")
SuspendBegin    == Begin("yielding", "Suspend", "pause")
ResumeBegin     == Begin("suspended", "Resume", "resume")

(* Playing = false, and then OnStop.                                       *)
FinalizeBegin ==
  /\ phase = "ending" /\ call = "none"
  /\ call' = "Finalize" /\ at' = "shutdown"
  /\ playing' = FALSE
  /\ UNCHANGED <<protocolVars, seekRequest, position, deviceVars, clientVars, historyVars, seeks>>

End(outcome) == call' = "none" /\ at' = "none" /\ outcome

(* A failed Initialize leaves no session; a failed Finalize may be called  *)
(* again; any other failure ends the session.                              *)
Failed ==
  \/ call \in {"Initialize", "Deinitialize"} /\ UNCHANGED protocolVars
  \/ call = "ExecuteCycle" /\ Job!Move("cycling", "ending")
  \/ call = "Suspend" /\ Job!Move("yielding", "ending")
  \/ call = "Resume" /\ Job!Move("suspended", "ending")
  \/ call = "Finalize" /\ Job!Finalize

Proceed(from, to) == at = from /\ at' = to /\ UNCHANGED <<call, protocolVars>>

(* An operation of the BackendWorker: it succeeds or throws.               *)
Throws(operation, from) ==
  /\ operation \in MayFail
  /\ at = from
  /\ UNCHANGED <<renderVars, device, clientVars, historyVars, seeks>>

-----------------------------------------------------------------------------
(* Between the callbacks: the loop of WorkerCoroutine and the job.         *)

IsFinished ==
  /\ phase = "ready"
  /\ Job!Move("ready", IF playing THEN "cycling" ELSE "ending")
  /\ natural' = ~playing
  /\ UNCHANGED <<call, at, renderVars, deviceVars, clientVars, cycled, seeks>>

Schedule ==
  /\ call = "none"
  /\ Job!GoOn \/ Job!StopRunning \/ Job!Forget
  /\ UNCHANGED <<call, at, renderVars, deviceVars, clientVars, historyVars, seeks>>

-----------------------------------------------------------------------------
(* Initialize.                                                             *)

Reset ==
  /\ Proceed("reset", "startup")
  /\ seekRequest' = NoSeek /\ position' = 0
  /\ UNCHANGED <<playing, deviceVars, clientVars, historyVars, seeks>>

Startup ==
  \/ /\ Proceed("startup", "onStart")
     /\ device' = "open"
     /\ UNCHANGED <<stuck, renderVars, clientVars, historyVars, seeks>>
  \/ Throws("Startup", "startup") /\ UNCHANGED stuck /\ End(Failed)

OnStart ==
  /\ Proceed("onStart", "seekTest")
  /\ client' = "started" /\ finishes' = 0
  /\ stuck' = FALSE /\ cycled' = FALSE /\ natural' = FALSE
  /\ UNCHANGED <<renderVars, device, seeks>>

-----------------------------------------------------------------------------
(* RenderFrame, in Initialize and ExecuteCycle.                            *)

SeekTest ==
  /\ Proceed("seekTest", IF seekRequest = NoSeek THEN "frameStart" ELSE "seekApply")
  /\ UNCHANGED <<renderVars, deviceVars, clientVars, historyVars, seeks>>

(* Delegate->SetPosition(SeekRequest): the variable is read once more.     *)
SeekApply ==
  /\ Proceed("seekApply", "seekClear")
  /\ position' = seekRequest
  /\ UNCHANGED <<playing, seekRequest, deviceVars, clientVars, historyVars, seeks>>

SeekClear ==
  /\ Proceed("seekClear", "frameStart")
  /\ seekRequest' = NoSeek
  /\ UNCHANGED <<playing, position, deviceVars, clientVars, historyVars, seeks>>

(* Variant: a failed initial frame leaves the device started.              *)
RenderFailedOpen == End(Failed)

(* An error of the initial frame: OnStop is called before Initialize fails.*)
RenderFailed ==
  IF call = "Initialize"
    THEN call' = "Deinitialize" /\ at' = "shutdown" /\ UNCHANGED protocolVars
    ELSE End(Failed)

FrameStart ==
  \/ /\ Proceed("frameStart", "render")
     /\ UNCHANGED <<renderVars, deviceVars, clientVars, historyVars, seeks>>
  \/ Throws("FrameStart", "frameStart") /\ UNCHANGED stuck /\ RenderFailed

(* Variant: a renderer that does not know its end.                         *)
NextFrameUnchecked == position + 1

(* Iterator->NextFrame, if Iterator->IsValid().                            *)
NextFrame == IF position < Frames THEN position + 1 ELSE position

(* Delegate->RenderFrame passes the frame to FrameFinish, steps on and     *)
(* tells if there is one more; at the end it renders nothing.              *)
Render ==
  \/ /\ at = "render"
     /\ position' = NextFrame
     /\ playing' = (position' < Frames)
     /\ IF call = "Initialize" THEN End(Job!Initialize)
                               ELSE Proceed("render", "onFinish")
     /\ UNCHANGED <<seekRequest, deviceVars, clientVars, historyVars, seeks>>
  \/ /\ position < Frames
     /\ Throws("FrameFinish", "render") /\ UNCHANGED stuck /\ RenderFailed

(* Variant: OnFinish in the cycle after the last one.                      *)
OnFinishLate ==
  /\ at = "onFinish"
  /\ End(Job!Move("cycling", "yielding"))
  /\ finishes' = IF finishes = 0 /\ natural THEN 1 ELSE finishes
  /\ cycled' = TRUE
  /\ UNCHANGED <<renderVars, deviceVars, client, natural, seeks>>

OnFinish ==
  /\ at = "onFinish"
  /\ End(Job!Move("cycling", "yielding"))
  /\ finishes' = IF playing THEN finishes ELSE finishes + 1
  /\ cycled' = TRUE
  /\ UNCHANGED <<renderVars, deviceVars, client, natural, seeks>>

-----------------------------------------------------------------------------
(* Suspend, Resume, Finalize.                                              *)

(* Variant: the client is told before the device is paused.                *)
PauseClientFirst ==
  /\ Proceed("pause", "onPause")
  /\ client' = "paused"
  /\ UNCHANGED <<finishes, deviceVars, renderVars, historyVars, seeks>>

Pause ==
  \/ /\ Proceed("pause", "onPause")
     /\ device' = "paused"
     /\ UNCHANGED <<stuck, renderVars, clientVars, historyVars, seeks>>
  \/ Throws("Pause", "pause") /\ UNCHANGED stuck /\ End(Failed)

OnPause ==
  /\ at = "onPause" /\ End(Job!Move("yielding", "suspended"))
  /\ client' = "paused"
  /\ UNCHANGED <<renderVars, deviceVars, finishes, historyVars, seeks>>

(* Variant: the device is not resumed.                                     *)
ResumeClientOnly ==
  /\ Proceed("resume", "onResume")
  /\ UNCHANGED <<deviceVars, renderVars, clientVars, historyVars, seeks>>

Resume ==
  \/ /\ Proceed("resume", "onResume")
     /\ device' = "open"
     /\ UNCHANGED <<stuck, renderVars, clientVars, historyVars, seeks>>
  \/ Throws("Resume", "resume") /\ UNCHANGED stuck /\ End(Failed)

(* The job resumes the worker to go on or because it was stopped.          *)
OnResume ==
  /\ at = "onResume" /\ End(Job!Resume)
  /\ client' = "started"
  /\ UNCHANGED <<renderVars, deviceVars, finishes, historyVars, seeks>>

(* If Shutdown throws, the client is not told OnStop.                      *)
Shutdown ==
  \/ /\ Proceed("shutdown", "onStop")
     /\ device' = "closed" /\ stuck' = FALSE
     /\ UNCHANGED <<renderVars, clientVars, historyVars, seeks>>
  \/ Throws("Shutdown", "shutdown") /\ stuck' = TRUE /\ End(Failed)

(* Variant: the client is not told.                                        *)
OnStopUntold ==
  /\ at = "onStop"
  /\ End(IF call = "Finalize" THEN Job!Move("ending", "over") ELSE UNCHANGED protocolVars)
  /\ UNCHANGED <<clientVars, renderVars, deviceVars, historyVars, seeks>>

OnStop ==
  /\ at = "onStop"
  /\ End(IF call = "Finalize" THEN phase' = "over" /\ retried' = FALSE
                              ELSE UNCHANGED protocolVars)
  /\ client' = "stopped"
  /\ UNCHANGED <<renderVars, deviceVars, finishes, historyVars, seeks>>

ThreadStep ==
  \/ InitializeBegin \/ CycleBegin \/ SuspendBegin \/ ResumeBegin \/ FinalizeBegin
  \/ IsFinished \/ Schedule
  \/ Reset \/ Startup \/ OnStart
  \/ SeekTest \/ SeekApply \/ SeekClear \/ FrameStart \/ Render \/ OnFinish
  \/ Pause \/ OnPause \/ Resume \/ OnResume \/ Shutdown \/ OnStop

-----------------------------------------------------------------------------
(* PlaybackControl::SetPosition, from any thread, at any time.             *)
SetPosition(frame) ==
  /\ seeks < MaxSeeks /\ seeks' = seeks + 1
  /\ seekRequest' = frame
  /\ UNCHANGED <<protocolVars, call, at, playing, position, deviceVars, clientVars, historyVars>>

Next == ThreadStep \/ \E frame \in 0..Frames : SetPosition(frame)

Spec == Init /\ [][Next]_vars

-----------------------------------------------------------------------------
TypeOK ==
  /\ phase \in Job!Phases /\ retried \in BOOLEAN
  /\ call \in {"none", "Initialize", "Deinitialize", "ExecuteCycle", "Suspend", "Resume", "Finalize"}
  /\ at \in {"none", "reset", "startup", "onStart", "seekTest", "seekApply", "seekClear",
             "frameStart", "render", "onFinish", "pause", "onPause", "resume", "onResume",
             "shutdown", "onStop"}
  /\ playing \in BOOLEAN
  /\ seekRequest \in 0..Frames \cup {NoSeek} /\ position \in 0..Frames
  /\ device \in {"closed", "open", "paused"} /\ stuck \in BOOLEAN
  /\ client \in {"stopped", "started", "paused"}
  /\ finishes \in Nat /\ cycled \in BOOLEAN /\ natural \in BOOLEAN
  /\ seeks \in 0..MaxSeeks

(* FrameStart and FrameFinish reach the device only between its Startup    *)
(* and its Shutdown and never while it is paused, whichever callbacks      *)
(* failed before.                                                          *)
FramesOnOpenDevice == at \in {"frameStart", "render"} => device = "open"

(* Outside a session the device is closed, so that Startup finds it as the *)
(* constructor left it; the exception is a device whose Shutdown threw.    *)
DeviceReleased ==
  (phase \in {"fresh", "over"} /\ at \in {"none", "reset", "startup"})
    => device = "closed" \/ stuck

(* Outside a session the client was told that playback has stopped, with   *)
(* the same exception: after a Shutdown that threw it is told nothing.     *)
ClientTold ==
  (phase \in {"fresh", "over"} /\ at \in {"none", "reset", "startup"})
    => client = "stopped" \/ stuck

(* The client is told about a change after the device has made it: it does *)
(* not hear "started" of a closed device or "paused" of a playing one.     *)
ClientFollowsDevice ==
  /\ client = "started" => device # "closed" \/ at = "onStop"
  /\ device = "paused" => client = "paused" \/ at = "onPause"
  /\ client = "paused" => device = "paused" \/ at \in {"onResume", "onStop"} \/ stuck

(* OnFinish is called once in a session that plays to the end, before the  *)
(* session ends, and only at the last frame.  A session whose initial      *)
(* frame is the last one ends without it: Initialize does not test for the *)
(* end.                                                                    *)
FinishAnnounced ==
  /\ finishes <= 1
  /\ finishes = 1 => ~playing
  /\ natural /\ cycled => finishes = 1

(* A seek is dropped only by the Reset of a new session: when RenderFrame  *)
(* clears the request, it is the one just applied.                         *)
SeekNotLost ==
  [][at = "seekClear" /\ seekRequest' = NoSeek => seekRequest = position]_vars

-----------------------------------------------------------------------------
(* The inductive invariant: what holds at each place of each callback.     *)

RenderPlaces == {"seekTest", "seekApply", "seekClear", "frameStart", "render"}

(* Which callback has which steps, and in which phase it is called.        *)
ControlInv ==
  /\ call = "none" <=> at = "none"
  /\ call = "Initialize" =>
       phase = "fresh" /\ at \in {"reset", "startup", "onStart"} \cup RenderPlaces
  /\ call = "Deinitialize" => phase = "fresh" /\ at \in {"shutdown", "onStop"}
  /\ call = "ExecuteCycle" => phase = "cycling" /\ at \in {"onFinish"} \cup RenderPlaces
  /\ call = "Suspend" => phase = "yielding" /\ at \in {"pause", "onPause"}
  /\ call = "Resume" => phase = "suspended" /\ at \in {"resume", "onResume"}
  /\ call = "Finalize" => phase = "ending" /\ at \in {"shutdown", "onStop"}
  /\ at \in {"seekApply", "seekClear"} => seekRequest # NoSeek

(* What the device and the client were told so far.  Only a Shutdown that  *)
(* threw leaves them open or paused outside a session, or to be tried      *)
(* again at its end.                                                       *)
Told(d, c) == device = d /\ client = c
OutOfSession == phase \in {"fresh", "over"} /\ at \in {"none", "reset", "startup"}
AtEnd == at = "shutdown" \/ (phase = "ending" /\ at = "none")

DeviceInv ==
  /\ OutOfSession /\ ~stuck => Told("closed", "stopped")
  /\ OutOfSession /\ stuck => Told("open", "started") \/ Told("paused", "paused")
  /\ at = "onStart" => device = "open" /\ (client = "stopped" \/ stuck)
  /\ \/ at \in RenderPlaces \cup {"onFinish", "pause"}
     \/ at = "none" /\ phase \in {"ready", "cycling", "yielding"}
     => Told("open", "started")
  /\ at = "onPause" => Told("paused", "started")
  /\ phase = "suspended" /\ at \in {"none", "resume"} => Told("paused", "paused")
  /\ at = "onResume" => Told("open", "paused")
  /\ AtEnd => Told("open", "started") \/ Told("paused", "paused")
  /\ at = "onStop" => device = "closed"
  /\ stuck => OutOfSession \/ at = "onStart" \/ AtEnd

(* How far a session got, and whether its end was announced.               *)
FinishInv ==
  /\ at \in RenderPlaces /\ call = "Initialize" => finishes = 0 /\ ~cycled /\ ~natural
  /\ phase \in {"ready", "cycling", "yielding", "suspended"} => ~natural
  /\ phase = "cycling" => finishes = 0 /\ (playing \/ at = "onFinish")
  /\ phase \in {"yielding", "suspended"} => cycled
  /\ phase \in {"ready", "yielding", "suspended"} =>
       finishes = IF cycled /\ ~playing THEN 1 ELSE 0
  /\ phase \in {"fresh", "over"} \/ call = "Finalize" => ~playing
  /\ FinishAnnounced

IInv == TypeOK /\ ControlInv /\ DeviceInv /\ FinishInv
=============================================================================
