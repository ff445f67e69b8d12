--------------------------- MODULE WorkerProtocol ---------------------------
(***************************************************************************)
(* What Async::CreateJob promises to an Async::Worker (the diagram of      *)
(* async/worker.h): in which order its callbacks are called, and that one  *)
(* session of calls is over before the next one begins.                    *)
(*                                                                         *)
(* A session begins with a successful Initialize and ends with Finalize.   *)
(* Within a session the worker alternates IsFinished and ExecuteCycle; it  *)
(* may be suspended after a cycle, and then resumed before anything else.  *)
(* Every callback may fail with an error: a failed Initialize leaves no    *)
(* session, any other failure leads to Finalize.                           *)
(***************************************************************************)

VARIABLES
  phase,     (* where the session stands                                   *)
  retried    (* Finalize failed at a normal end and will be called again   *)

vars == <<phase, retried>>

Phases == {"fresh", "ready", "cycling", "yielding", "suspended", "ending", "over"}

Move(from, to) == phase = from /\ phase' = to /\ UNCHANGED retried

Init == phase = "fresh" /\ retried = FALSE

Initialize   == Move("fresh", "ready")
IsFinished   == Move("ready", "cycling") \/ Move("ready", "ending")
ExecuteCycle == Move("cycling", "yielding") \/ Move("cycling", "ending")
GoOn         == Move("yielding", "ready")
StopRunning  == Move("yielding", "ending")
Suspend      == Move("yielding", "suspended") \/ Move("yielding", "ending")
Resume       == Move("suspended", "ready") \/ Move("suspended", "ending")

Finalize ==
  \/ /\ phase = "ending"
     /\ phase' = "over"
     /\ retried' = FALSE
  \/ /\ phase = "ending"          (* at most one retry in a session *)
     /\ ~retried
     /\ retried' = TRUE
     /\ UNCHANGED phase

Forget       == Move("over", "fresh")

Next ==
  \/ Initialize \/ IsFinished \/ ExecuteCycle \/ GoOn \/ StopRunning
  \/ Suspend \/ Resume \/ Finalize \/ Forget

Spec == Init /\ [][Next]_vars
=============================================================================
