----------------------------- MODULE AndroidPlayer -----------------------------
(***************************************************************************)
(* The player of the Android application: PlaybackServiceLocal with its    *)
(* executor, and for each item it plays an AsyncPlayer, its SyncPlayer,    *)
(* their threads for producing and consuming, and the Exchanger between    *)
(* them.                                                                   *)
(*                                                                         *)
(* Controls are called from any thread (remote clients, the headphones'    *)
(* plug, phone calls); the executor has one thread.  The monitors of the   *)
(* service, of its PlaybackControl and of its SeekControl are always       *)
(* entered for a whole call with the service's innermost: they are one     *)
(* monitor here.  Assertions are off, as they are on the device.  An       *)
(* exception nobody catches ends the process.                              *)
(*                                                                         *)
(* Assumption on wait: it returns only after a notify.  waitForStateChange *)
(* does not look at the state again, so a spurious wake-up, which Java     *)
(* permits, would let a start or a stop go on too early: it is assumed not *)
(* to happen, and nothing is shown for the case that it does.  Nobody      *)
(* interrupts these threads.                                               *)
(***************************************************************************)
EXTENDS Naturals, FiniteSets

CONSTANTS
  Callers,      (* threads that use the controls                           *)
  Executor,     (* the thread of the executor                              *)
  Nobody,
  MaxPlayers,   (* bound: items that are loaded                            *)
  MaxThreads,   (* bound: threads for playing                              *)
  MaxCalls      (* bound: uses of the controls                             *)

ASSUME AndroidAssumption ==
  /\ Executor \notin Callers /\ Nobody \notin Callers \cup {Executor}
  /\ MaxPlayers \in Nat /\ MaxCalls \in Nat
  /\ MaxThreads \in Nat /\ MaxThreads >= MaxCalls + MaxPlayers - 1

Processes == Callers \cup {Executor}
Players == 1 .. MaxPlayers
Threads == 1 .. MaxThreads

VARIABLES
  monitor,   (* who is in the monitor of the service                       *)
  holder,    (* the player of PlaybackServiceLocal::holder, 0 for a stub   *)
  old,       (* oldHolder of setNewHolder                                  *)
  created,   (* players created                                            *)
  commands,  (* commands the executor has to execute                       *)
  pc, on,    (* where a process is, and the player it calls                *)
  pl,        (* the players                                                *)
  th,        (* the threads                                                *)
  status,    (* the thread whose start the clients were told last, or 0    *)
  late,      (* history: a thread that was stopped told so after the start *)
             (* of another one                                             *)
  crossed,   (* history: a thread that ended by itself did                 *)
  raced,     (* history: a play crossed a change of the item               *)
  calls      (* uses of the controls so far                                *)

serviceVars == <<monitor, holder, old, created, commands>>
historyVars == <<late, crossed, raced, calls>>
vars == <<serviceVars, pc, on, pl, th, status, historyVars>>

NewPlayer == [state |-> "Stopped", guard |-> Nobody, waiting |-> {}, playThread |-> 0,
              active |-> FALSE, released |-> FALSE]
NoThread == [pc |-> "none", player |-> 0, consumer |-> "none", why |-> "none"]

Init ==
  /\ monitor = Nobody /\ holder = 0 /\ old = 0 /\ created = 0 /\ commands = 0
  /\ pc = [x \in Processes |-> "idle"] /\ on = [x \in Processes |-> 0]
  /\ pl = [p \in Players |-> NewPlayer] /\ th = [t \in Threads |-> NoThread]
  /\ status = 0 /\ late = FALSE /\ crossed = FALSE /\ raced = FALSE /\ calls = 0

-----------------------------------------------------------------------------
(* AsyncPlayer, called by process x.  Its monitor (stateGuard) is kept     *)
(* over a step only while playThread is joined.                            *)

Free(p) == pl[p].guard = Nobody

(* The call ends.  Callers leave the service's monitor, the executor goes  *)
(* on with setNewHolder.                                                   *)
Leave(x, from) ==
  IF x = Executor
    THEN /\ pc' = [pc EXCEPT ![x] = IF from = "start" THEN "release" ELSE "swap"]
         /\ UNCHANGED monitor
    ELSE pc' = [pc EXCEPT ![x] = "idle"] /\ monitor' = Nobody

Stay(x, to) == pc' = [pc EXCEPT ![x] = to] /\ UNCHANGED monitor

(* A play by a caller while the executor changes the item, or the reverse. *)
Playing(x) == pc[x] \in {"start", "startWait"}

(* StoppedPlayer::startPlayback: a new PlayThread and the wait.            *)
Spawn(x, p) ==
  \E t \in Threads :
    /\ th[t] = NoThread /\ \A u \in 1 .. t - 1 : th[u] # NoThread
    /\ th' = [th EXCEPT ![t] = [pc |-> "consume", player |-> p, consumer |-> "none", why |-> "none"]]
    /\ pl' = [pl EXCEPT ![p].playThread = t, ![p].waiting = @ \cup {x}]
    /\ Stay(x, "startWait")
    /\ raced' = (raced \/ (x # Executor /\ pc[Executor] # "idle"))

(* Variant: it does not matter whether the player is playing.              *)
StartPlaybackAlways(x) == pc[x] = "start" /\ Free(on[x]) /\ Spawn(x, on[x])

(* startPlayback of the state.  StubPlayer's, of StartedPlayer, is empty.  *)
StartPlayback(x) ==
  /\ pc[x] = "start" /\ Free(on[x])
  /\ \/ pl[on[x]].state = "Stopped" /\ Spawn(x, on[x])
     \/ pl[on[x]].state = "Started" /\ Leave(x, "start") /\ UNCHANGED <<pl, th, raced>>

(* StartedPlayer::stopPlayback up to its wait.  StoppedPlayer has none.    *)
StopPlayback(x) ==
  /\ pc[x] = "stop" /\ Free(on[x])
  /\ \/ /\ pl[on[x]].state = "Started"
        /\ pl' = [pl EXCEPT ![on[x]].active = FALSE, ![on[x]].waiting = @ \cup {x}]
        /\ Stay(x, "stopWait")
     \/ pl[on[x]].state = "Stopped" /\ Leave(x, "stop") /\ UNCHANGED pl
  /\ UNCHANGED <<th, raced>>

(* wait has returned: x was notified (never spuriously, see above) and the *)
(* monitor is free.                                                        *)
Woken(x) == x \notin pl[on[x]].waiting /\ Free(on[x])

StartWoken(x) ==
  pc[x] = "startWait" /\ Woken(x) /\ Leave(x, "start") /\ UNCHANGED <<pl, th, raced>>

(* Variant: stateGuard is left before the join.                            *)
StopWokenUnguarded(x) ==
  pc[x] = "stopWait" /\ Woken(x) /\ Stay(x, "stopJoin") /\ UNCHANGED <<pl, th, raced>>

StopWoken(x) ==
  /\ pc[x] = "stopWait" /\ Woken(x)
  /\ pl' = [pl EXCEPT ![on[x]].guard = x]
  /\ Stay(x, "stopJoin") /\ UNCHANGED <<th, raced>>

(* Variant: the thread is not joined.                                      *)
Forgotten(x) ==
  /\ pc[x] = "stopJoin"
  /\ pl' = [pl EXCEPT ![on[x]].playThread = 0, ![on[x]].guard = Nobody]
  /\ Leave(x, "stop") /\ UNCHANGED <<th, raced>>

(* If another stop has joined it before, playThread is null.  This takes a *)
(* race (WaitInv), and the exception is not followed.                       *)
Join(x) ==
  /\ pc[x] = "stopJoin" /\ pl[on[x]].playThread # 0
  /\ th[pl[on[x]].playThread].pc = "dead" /\ Leave(x, "stop")
  /\ pl' = [pl EXCEPT ![on[x]].playThread = 0, ![on[x]].guard = Nobody]
  /\ UNCHANGED <<th, raced>>

PlayerCall(x) ==
  /\ StartPlayback(x) \/ StopPlayback(x) \/ StartWoken(x) \/ StopWoken(x) \/ Join(x)
  /\ UNCHANGED <<holder, old, created, commands, on, status, late, crossed, calls>>

-----------------------------------------------------------------------------
(* The service.                                                            *)

(* A use of the controls begins.  setNowPlaying only queues a command.     *)
UserCall(c) ==
  /\ pc[c] = "idle" /\ calls < MaxCalls /\ calls' = calls + 1
  /\ \/ \E op \in {"play", "stopCall", "next"} : pc' = [pc EXCEPT ![c] = op] /\ UNCHANGED commands
     \/ commands' = commands + 1 /\ UNCHANGED pc
  /\ UNCHANGED <<monitor, holder, old, created, on, pl, th, status, late, crossed, raced>>

(* play and stop of DispatchedPlaybackControl; the stub does nothing.      *)
Control(c) ==
  /\ monitor = Nobody
  /\ \E op \in {<<"play", "start">>, <<"stopCall", "stop">>} :
       /\ pc[c] = op[1]
       /\ IF holder = 0
            THEN pc' = [pc EXCEPT ![c] = "idle"] /\ UNCHANGED <<monitor, on>>
            ELSE /\ pc' = [pc EXCEPT ![c] = op[2]]
                 /\ monitor' = c /\ on' = [on EXCEPT ![c] = holder]
  /\ UNCHANGED <<holder, old, created, commands, pl, th, status, historyVars>>

(* next and prev.  The stub's iterator has no other item.                  *)
Skip(c) ==
  /\ monitor = Nobody /\ pc[c] = "next"
  /\ pc' = [pc EXCEPT ![c] = "idle"]
  /\ commands' = IF holder = 0 THEN commands ELSE commands + 1
  /\ UNCHANGED <<monitor, holder, old, created, on, pl, th, status, historyVars>>

(* Variant: the item that is playing is not stopped.                       *)
LoadUnstopped ==
  /\ pc[Executor] = "idle" /\ commands > 0 /\ commands' = commands - 1
  /\ created < MaxPlayers /\ created' = created + 1
  /\ old' = holder /\ on' = [on EXCEPT ![Executor] = holder]
  /\ pc' = [pc EXCEPT ![Executor] = "swap"]
  /\ UNCHANGED <<monitor, holder, pl, th, status, historyVars>>

(* A command: there is no such item, or it cannot be read, or a player is  *)
(* created for it and setNewHolder begins.                                 *)
Load ==
  /\ pc[Executor] = "idle" /\ commands > 0 /\ commands' = commands - 1
  /\ \/ UNCHANGED <<created, old, on, pc, raced>>
     \/ /\ created < MaxPlayers /\ created' = created + 1
        /\ old' = holder /\ on' = [on EXCEPT ![Executor] = holder]
        /\ pc' = [pc EXCEPT ![Executor] = IF holder = 0 THEN "swap" ELSE "stop"]
        /\ raced' = (raced \/ \E c \in Callers : Playing(c))
  /\ UNCHANGED <<monitor, holder, pl, th, status, late, crossed, calls>>

Swap ==
  /\ pc[Executor] = "swap" /\ monitor = Nobody
  /\ holder' = created /\ on' = [on EXCEPT ![Executor] = created]
  /\ pc' = [pc EXCEPT ![Executor] = "start"]
  /\ UNCHANGED <<monitor, old, created, commands, pl, th, status, historyVars>>

Release ==
  /\ pc[Executor] = "release"
  /\ pc' = [pc EXCEPT ![Executor] = "idle"] /\ old' = 0
  /\ pl' = IF old = 0 THEN pl ELSE [pl EXCEPT ![old].released = TRUE]
  /\ UNCHANGED <<monitor, holder, created, commands, on, th, status, historyVars>>

-----------------------------------------------------------------------------
(* SyncPlayer: PlayThread t and the consumer it starts.                    *)

Go(t, from, to) == th[t].pc = from /\ th' = [th EXCEPT ![t].pc = to]
ThreadUnchanged == UNCHANGED <<commands, status, late, crossed>>

StartConsumeThread(t) ==
  /\ th[t].pc = "consume"
  /\ th' = [th EXCEPT ![t].pc = "initialize", ![t].consumer = "exchange"]
  /\ UNCHANGED pl /\ ThreadUnchanged

(* source.initialize and target.start; an Error ends the cycle.            *)
Initialize(t) ==
  /\ \/ Go(t, "initialize", "activate")
     \/ th[t].pc = "initialize" /\ th' = [th EXCEPT ![t].pc = "end", ![t].why = "itself"]
  /\ UNCHANGED pl /\ ThreadUnchanged

Activate(t) ==
  /\ Go(t, "activate", "onStart")
  /\ pl' = [pl EXCEPT ![th[t].player].active = TRUE]
  /\ ThreadUnchanged

(* setState.  notify wakes one of those who wait, whichever.               *)
SetState(t, from, to, s) ==
  LET p == th[t].player
  IN  /\ Go(t, from, to) /\ Free(p)
      /\ \/ pl[p].waiting = {} /\ pl' = [pl EXCEPT ![p].state = s]
         \/ \E x \in pl[p].waiting :
              pl' = [pl EXCEPT ![p].state = s, ![p].waiting = @ \ {x}]
      /\ ThreadUnchanged

(* Variant: the end is not notified.                                       *)
SetStoppedSilently(t) ==
  /\ Go(t, "onStop", "toldStop") /\ Free(th[t].player)
  /\ pl' = [pl EXCEPT ![th[t].player].state = "Stopped"]
  /\ ThreadUnchanged

SetStarted(t) == SetState(t, "onStart", "told", "Started")
SetStopped(t) == SetState(t, "onStop", "toldStop", "Stopped")

OnStart(t) ==
  Go(t, "told", "loop") /\ status' = t /\ UNCHANGED <<commands, pl, late, crossed>>

(* The loop: go on, be told to end, find the end or meet an Error.         *)
GetSamples(t) ==
  LET To(to, w) == th' = [th EXCEPT ![t].pc = to, ![t].why = w]
  IN  /\ th[t].pc = "loop"
      /\ IF pl[th[t].player].active
           THEN To("exchange", "none") \/ To("finish", "itself") \/ To("end", "itself")
           ELSE To("end", IF th[t].why = "none" THEN "stopped" ELSE th[t].why)
      /\ UNCHANGED pl /\ ThreadUnchanged

(* onFinish of PlaybackEvents: setPosition, then next, through monitors.   *)
OnFinish(t) ==
  /\ monitor = Nobody
  /\ \/ Go(t, "finish", "finishNext") /\ UNCHANGED commands
     \/ Go(t, "finishNext", "deactivate") /\ commands' = commands + 1
  /\ UNCHANGED <<pl, status, late, crossed>>

Deactivate(t) ==
  /\ Go(t, "deactivate", "loop")
  /\ pl' = [pl EXCEPT ![th[t].player].active = FALSE]
  /\ ThreadUnchanged

(* Both threads meet in the Exchanger.  After null the consumer ends.      *)
Exchange(t) ==
  /\ th[t].consumer = "exchange" /\ th[t].pc \in {"exchange", "end"}
  /\ th' = [th EXCEPT ![t].pc = IF @ = "end" THEN "join" ELSE "loop",
                      ![t].consumer = IF th[t].pc = "end" THEN "done" ELSE "write"]
  /\ UNCHANGED pl /\ ThreadUnchanged

WriteSamples(t) ==
  /\ th[t].consumer = "write" /\ th' = [th EXCEPT ![t].consumer = "exchange"]
  /\ UNCHANGED pl /\ ThreadUnchanged

(* target.stop and stopConsumeThread.                                      *)
StopConsumeThread(t) ==
  Go(t, "join", "onStop") /\ th[t].consumer = "done" /\ UNCHANGED pl /\ ThreadUnchanged

OnStop(t) ==
  /\ Go(t, "toldStop", "dead")
  /\ status' = 0
  /\ late' = (late \/ (status \notin {0, t} /\ th[t].why = "stopped"))
  /\ crossed' = (crossed \/ (status \notin {0, t} /\ th[t].why = "itself"))
  /\ UNCHANGED <<commands, pl>>

ThreadStep(t) ==
  /\ \/ StartConsumeThread(t) \/ Initialize(t) \/ Activate(t) \/ SetStarted(t) \/ OnStart(t)
     \/ GetSamples(t) \/ OnFinish(t) \/ Deactivate(t) \/ Exchange(t) \/ WriteSamples(t)
     \/ StopConsumeThread(t) \/ SetStopped(t) \/ OnStop(t)
  /\ UNCHANGED <<monitor, holder, old, created, pc, on, raced, calls>>

-----------------------------------------------------------------------------
(* A SyncPlayer with two threads, or one that was released while it has    *)
(* one, is not followed further: the threads share isActive, consumeThread *)
(* and the Exchanger, or fall over null.                                   *)
InUse(t, p) == th[t].player = p /\ th[t].pc \notin {"toldStop", "dead"}
Doubled == \E t, u \in Threads : t # u /\ th[t] # NoThread /\ InUse(t, th[t].player) /\ InUse(u, th[t].player)
UsedReleased == \E t \in Threads : th[t] # NoThread /\ InUse(t, th[t].player) /\ pl[th[t].player].released
Alive == ~Doubled /\ ~UsedReleased

CallerStep(c) == Alive /\ (Control(c) \/ Skip(c) \/ PlayerCall(c))
ExecutorStep == Alive /\ (Load \/ Swap \/ Release \/ PlayerCall(Executor))
Run(t) == Alive /\ ThreadStep(t)

Next ==
  \/ \E c \in Callers : (Alive /\ UserCall(c)) \/ CallerStep(c)
  \/ ExecutorStep
  \/ \E t \in Threads : Run(t)

Spec == Init /\ [][Next]_vars

(* Threads run.  Nobody has to use the controls, and music need not end.   *)
FairSpec ==
  /\ Spec /\ WF_vars(ExecutorStep)
  /\ \A c \in Callers : WF_vars(CallerStep(c))
  /\ \A t \in Threads : WF_vars(Run(t))

-----------------------------------------------------------------------------
CallerPlaces == {"idle", "play", "stopCall", "next", "start", "startWait", "stop", "stopWait",
                 "stopJoin"}
ExecutorPlaces == {"idle", "stop", "stopWait", "stopJoin", "swap", "start", "startWait", "release"}
Early == {"consume", "initialize", "activate", "onStart"}
Playful == {"told", "loop", "exchange", "finish", "finishNext", "deactivate"}
Ending == {"end", "join", "onStop"}

PlayerStates ==
  [state : {"Stopped", "Started"}, guard : Processes \cup {Nobody}, waiting : SUBSET Processes,
   playThread : 0 .. MaxThreads, active : BOOLEAN, released : BOOLEAN]
ThreadStates ==
  [pc : {"none", "toldStop", "dead"} \cup Early \cup Playful \cup Ending, player : 0 .. MaxPlayers,
   consumer : {"none", "exchange", "write", "done"}, why : {"none", "itself", "stopped"}]

TypeOK ==
  /\ monitor \in Callers \cup {Nobody} /\ holder \in 0 .. created /\ old \in 0 .. created
  /\ created \in 0 .. MaxPlayers /\ commands \in Nat /\ calls \in 0 .. MaxCalls
  /\ pc \in [Processes -> CallerPlaces \cup ExecutorPlaces]
  /\ on \in [Processes -> 0 .. MaxPlayers]
  /\ pl \in [Players -> PlayerStates] /\ th \in [Threads -> ThreadStates]
  /\ \A t \in Threads : th[t].pc = "none" \/ th[t].player = 0 => th[t] = NoThread
  /\ status \in 0 .. MaxThreads
  /\ late \in BOOLEAN /\ crossed \in BOOLEAN /\ raced \in BOOLEAN

(* A SyncPlayer, with one Exchanger and one consumeThread, has one thread  *)
(* at a time.  The exception is a play that crosses a change of the item:  *)
(* both create a thread, because the state is Started only later.          *)
OneThread == Doubled => raced

(* release, "assert consumeThread == null": players are released after     *)
(* their threads, with the same exception.                                 *)
ReleasedIdle == UsedReleased => raced

(* When nothing is going on the clients know whether the player is         *)
(* playing.  The exception is a thread that ended by itself, which nobody  *)
(* joins: it may tell so after the start of the next.  One that was        *)
(* stopped never does.  As above, nothing is said once a play has crossed  *)
(* a change of the item.                                                   *)
Settled ==
  /\ \A x \in Processes : pc[x] = "idle"
  /\ \A t \in Threads : th[t].pc \in {"none", "loop", "exchange", "dead"}
StatusFollows ==
  raced \/ (~late /\ (Settled /\ ~crossed => (status # 0) = (holder # 0 /\ pl[holder].state = "Started")))

(* Calls return and items change.  There are three ways to wait for ever:  *)
(* onFinish needs the monitor in which stop waits for its thread; two      *)
(* callers wait for the end, and notify wakes one; a play has crossed a    *)
(* change of the item.                                                     *)
FinishInStop ==
  \E c \in Callers, t \in Threads :
    pc[c] = "stopWait" /\ th[t].pc \in {"finish", "finishNext"} /\ th[t].player = on[c]
OneNotified ==
  \E x \in Processes : pc[x] = "stopWait" /\ x \in pl[on[x]].waiting /\ pl[on[x]].state = "Stopped"
CallsEnd ==
  \A x \in Processes : pc[x] # "idle" ~> pc[x] = "idle" \/ FinishInStop \/ OneNotified \/ raced
-----------------------------------------------------------------------------
(* Why the safety properties hold: what is true in every state.            *)

(* Who is in the service's monitor calls the player of the holder; the     *)
(* executor changes the holder between the stop of one player and the      *)
(* start of the next.                                                      *)
ServiceInv ==
  /\ pc[Executor] \in ExecutorPlaces
  /\ \A c \in Callers :
       /\ pc[c] \in CallerPlaces
       /\ (monitor = c) = (pc[c] \notin {"idle", "play", "stopCall", "next"})
       /\ monitor = c => on[c] = holder /\ holder # 0
  /\ pc[Executor] = "idle" => old = 0 /\ holder = created
  /\ pc[Executor] \in {"stop", "stopWait", "stopJoin", "swap"} => old = holder /\ created = holder + 1
  /\ pc[Executor] \in {"stop", "stopWait", "stopJoin"} => on[Executor] = holder /\ holder # 0
  /\ pc[Executor] \in {"start", "startWait", "release"} =>
       holder = created /\ created = old + 1 /\ on[Executor] = holder
  /\ \A p \in Players : pl[p].released => p < holder

(* Who waits in stateGuard, and who has it.                                *)
GuardInv ==
  /\ \A p \in Players :
       pl[p].waiting \subseteq {x \in Processes : on[x] = p /\ pc[x] \in {"startWait", "stopWait"}}
  /\ \A x \in Processes : pc[x] = "stopJoin" => pl[on[x]].guard = x

Busy(t) == th[t].pc \notin {"none", "toldStop", "dead"}
NobodyBusy == \A t \in Threads : ~Busy(t)
Current == pl[holder]

(* As long as nothing has raced one thread plays, for the holder's player. *)
(* Before that player is Started, or if it never is, its start is waited   *)
(* for.                                                                    *)
ThreadInv ==
  /\ \A t \in Threads : Busy(t) =>
       /\ th[t].player = holder /\ holder # 0 /\ Current.playThread = t
       /\ th[t].pc \in Early => Current.state = "Stopped"
       /\ th[t].pc \in Playful => Current.state = "Started"
       /\ Current.state = "Stopped" => \E x \in Processes : pc[x] = "startWait" /\ Current.waiting = {x}
  /\ \A p \in Players : pl[p].state = "Started" => p = holder /\ ~NobodyBusy

(* Who was notified of the end, and has not left the player.               *)
Notified(x) ==
  pc[x] = "stopJoin" \/ (pc[x] = "stopWait" /\ x \notin Current.waiting)

WaitInv ==
  /\ \A x \in Processes : pc[x] = "startWait" /\ x \in Current.waiting =>
       Current.state = "Stopped" /\ Current.waiting = {x}
  /\ \A c \in Callers :
       /\ pc[c] = "startWait" => pc[Executor] = "idle"
       /\ pc[Executor] = "start" => pc[c] \notin {"startWait", "stopWait", "stopJoin"}
  /\ \A x \in Processes : Notified(x) =>
       /\ NobodyBusy /\ Current.playThread # 0
       /\ \A y \in Processes : Notified(y) => y = x
  /\ pc[Executor] \in {"swap", "start"} => NobodyBusy

(* What the clients are told, and why a thread ends.                       *)
Stopping == \E x \in Current.waiting : pc[x] = "stopWait"

StatusInv ==
  /\ ~late
  /\ status # 0 => th[status].pc \in {"toldStop"} \cup (Playful \ {"told"}) \cup Ending
  /\ \A t \in Threads :
       /\ th[t].pc \in {"finish", "finishNext", "deactivate", "toldStop"} \cup Ending => th[t].why # "none"
       /\ Busy(t) /\ th[t].pc # "told" /\ Current.state = "Started" =>
            status = t \/ (status = 0 /\ crossed)
       /\ Busy(t) /\ th[t].why = "stopped" => Stopping
       /\ th[t].pc \in {"onStart", "told", "loop", "exchange"} /\ th[t].why = "none" =>
            Current.active \/ Stopping
       /\ th[t].pc = "toldStop" /\ th[t].why = "stopped" =>
            /\ status \in {0, t} /\ Current.playThread = t
            /\ \E x \in Processes : Notified(x)

IInv == TypeOK /\ ServiceInv /\ GuardInv /\ (raced \/ (ThreadInv /\ WaitInv /\ StatusInv))
=============================================================================
