-------------------------- MODULE AndroidPlayerProofs --------------------------
(***************************************************************************)
(* Proofs about AndroidPlayer: the inductive invariant and the properties  *)
(* that follow from it, for any users of the controls, any number of items *)
(* and threads.                                                            *)
(***************************************************************************)
EXTENDS AndroidPlayer, TLAPS

(* The numbers of players and threads.                                     *)
LEMMA Ranges ==
  ASSUME TypeOK
  PROVE  /\ MaxPlayers \in Nat /\ MaxThreads \in Nat /\ created \in Nat /\ holder \in Nat /\ old \in Nat
         /\ created <= MaxPlayers /\ holder <= created /\ old <= created
         /\ holder # 0 => holder \in Players /\ Current = pl[holder]
         /\ \A t \in Threads : t \in Nat /\ t # 0
         /\ 0 \notin Players /\ 0 \notin Threads
BY AndroidAssumption DEF TypeOK, Players, Threads, Current

(* A thread that uses a player is busy with it.                            *)
LEMMA UsersAreBusy ==
  ASSUME TypeOK, NEW t \in Threads, th[t] # NoThread, NEW u \in Threads, InUse(u, th[t].player)
  PROVE  Busy(u)
<1>1. th[t].player # 0 /\ th[u].player # 0
  BY DEF TypeOK, InUse
<1>2. th[u] # NoThread
  BY <1>1 DEF NoThread
<1> QED BY <1>2 DEF TypeOK, Busy, InUse

(* One player has one thread, for as long as no play has crossed a change  *)
(* of the item.                                                            *)
LEMMA OneThreadOf == IInv => OneThread
<1> SUFFICES ASSUME IInv, Doubled, ~raced PROVE FALSE
  BY DEF OneThread
<1>1. PICK t \in Threads, u \in Threads :
        t # u /\ th[t] # NoThread /\ InUse(t, th[t].player) /\ InUse(u, th[t].player)
  BY DEF Doubled
<1>2. Busy(t) /\ Busy(u)
  BY <1>1, UsersAreBusy DEF IInv
<1> QED BY <1>1, <1>2 DEF IInv, ThreadInv

(* A player is released after its thread.                                  *)
LEMMA ReleasedOf == IInv => ReleasedIdle
<1> SUFFICES ASSUME IInv, UsedReleased, ~raced PROVE FALSE
  BY DEF ReleasedIdle
<1>1. PICK t \in Threads : th[t] # NoThread /\ InUse(t, th[t].player) /\ pl[th[t].player].released
  BY DEF UsedReleased
<1>2. Busy(t)
  BY <1>1, UsersAreBusy DEF IInv
<1>3. th[t].player = holder /\ holder # 0 /\ holder \in Players
  BY <1>2, Ranges DEF IInv, ThreadInv
<1>4. holder < holder
  BY <1>1, <1>3 DEF IInv, ServiceInv
<1> QED BY <1>4 DEF IInv, TypeOK

(* When nothing is going on the clients know what the player does.         *)
LEMMA StatusOf == IInv => StatusFollows
<1> SUFFICES ASSUME IInv, ~raced, Settled, ~crossed
             PROVE  (status # 0) = (holder # 0 /\ pl[holder].state = "Started")
  BY DEF StatusFollows, IInv, StatusInv
<1>1. CASE holder # 0 /\ pl[holder].state = "Started"
  <2>1. PICK t \in Threads : Busy(t)
    <3>1. holder \in Players
      BY <1>1, Ranges DEF IInv
    <3> QED BY <1>1, <3>1 DEF IInv, ThreadInv, NobodyBusy
  <2>2. th[t].pc # "told"
    BY DEF Settled
  <2>3. status = t
    BY <1>1, <2>1, <2>2 DEF IInv, StatusInv, Current
  <2> QED BY <1>1, <2>3 DEF Threads
<1>2. CASE ~(holder # 0 /\ pl[holder].state = "Started")
  <2> SUFFICES ASSUME status # 0 PROVE FALSE
    BY <1>2
  <2>1. status \in Threads
    BY DEF IInv, TypeOK, Threads
  <2>2. th[status].pc \in {"loop", "exchange"}
    BY <2>1 DEF IInv, StatusInv, Settled, Playful, Ending
  <2> QED BY <1>2, <2>1, <2>2 DEF IInv, ThreadInv, Busy, Current, Playful
<1> QED BY <1>1, <1>2
(* A call of the player is a call of the holder's.                         *)
LEMMA CallsHolder ==
  ASSUME TypeOK, ServiceInv, NEW x \in Processes,
         pc[x] \in {"start", "startWait", "stop", "stopWait", "stopJoin"}
  PROVE  on[x] = holder /\ holder \in Players
<1>1. CASE x = Executor
  <2>1. on[x] = holder /\ (holder # 0 \/ holder = old + 1)
    BY <1>1 DEF ServiceInv
  <2> QED BY <2>1, Ranges
<1>2. CASE x \in Callers
  BY <1>2, Ranges DEF ServiceInv
<1> QED BY <1>1, <1>2 DEF Processes

(* What an update of a player leaves of its type.                          *)
PlayersTyped(f) == f \in [Players -> PlayerStates]

(* The updates of the actions, field by field.                             *)
LEMMA PlayerTypes ==
  ASSUME PlayersTyped(pl), NEW p \in Players, NEW W \in SUBSET Processes,
         NEW g \in Processes \cup {Nobody}, NEW b \in BOOLEAN, NEW s \in {"Stopped", "Started"},
         NEW t \in 0 .. MaxThreads
  PROVE  /\ PlayersTyped([pl EXCEPT ![p].guard = g])
         /\ PlayersTyped([pl EXCEPT ![p].playThread = t, ![p].waiting = W])
         /\ PlayersTyped([pl EXCEPT ![p].active = b, ![p].waiting = W])
         /\ PlayersTyped([pl EXCEPT ![p].playThread = t, ![p].guard = g])
         /\ PlayersTyped([pl EXCEPT ![p].active = b])
         /\ PlayersTyped([pl EXCEPT ![p].released = b])
         /\ PlayersTyped([pl EXCEPT ![p].state = s])
         /\ PlayersTyped([pl EXCEPT ![p].state = s, ![p].waiting = W])
<1>1. PlayersTyped([pl EXCEPT ![p].guard = g])
  BY DEF PlayersTyped, PlayerStates
<1>2. PlayersTyped([pl EXCEPT ![p].playThread = t, ![p].waiting = W])
  BY ZenonT(60) DEF PlayersTyped, PlayerStates
<1>3. PlayersTyped([pl EXCEPT ![p].active = b, ![p].waiting = W])
  BY ZenonT(60) DEF PlayersTyped, PlayerStates
<1>4. PlayersTyped([pl EXCEPT ![p].playThread = t, ![p].guard = g])
  BY ZenonT(60) DEF PlayersTyped, PlayerStates
<1>5. PlayersTyped([pl EXCEPT ![p].active = b])
  BY DEF PlayersTyped, PlayerStates
<1>6. PlayersTyped([pl EXCEPT ![p].released = b])
  BY DEF PlayersTyped, PlayerStates
<1>7. PlayersTyped([pl EXCEPT ![p].state = s])
  BY DEF PlayersTyped, PlayerStates
<1>8. PlayersTyped([pl EXCEPT ![p].state = s, ![p].waiting = W])
  BY ZenonT(60) DEF PlayersTyped, PlayerStates
<1> QED BY <1>1, <1>2, <1>3, <1>4, <1>5, <1>6, <1>7, <1>8

(* Joining and leaving those who wait.                                     *)
LEMMA WaitingTypes ==
  ASSUME PlayersTyped(pl), NEW p \in Players, NEW x
  PROVE  /\ pl[p].waiting \in SUBSET Processes /\ pl[p].waiting \ {x} \in SUBSET Processes
         /\ x \in Processes => pl[p].waiting \cup {x} \in SUBSET Processes
BY DEF PlayersTyped, PlayerStates

(* What an update of a thread leaves of its type, and of its being none.   *)
ThreadsTyped(f) ==
  /\ f \in [Threads -> ThreadStates]
  /\ \A t \in Threads : f[t].pc = "none" \/ f[t].player = 0 => f[t] = NoThread

ThreadPcs == {"none", "toldStop", "dead"} \cup Early \cup Playful \cup Ending

(* The updates of the actions: a thread that there is goes on.             *)
LEMMA ThreadTypes ==
  ASSUME ThreadsTyped(th), NEW t \in Threads, th[t].pc # "none", NEW v \in ThreadPcs \ {"none"},
         NEW c \in {"none", "exchange", "write", "done"}, NEW w \in {"none", "itself", "stopped"}
  PROVE  /\ ThreadsTyped([th EXCEPT ![t].pc = v])
         /\ ThreadsTyped([th EXCEPT ![t].consumer = c])
         /\ ThreadsTyped([th EXCEPT ![t].pc = v, ![t].consumer = c])
         /\ ThreadsTyped([th EXCEPT ![t].pc = v, ![t].why = w])
<1> USE DEF ThreadsTyped, ThreadStates, ThreadPcs
<1>1. th \in [Threads -> ThreadStates]
  OBVIOUS
<1>2. th[t].player # 0
  BY DEF NoThread
<1>3. ThreadsTyped([th EXCEPT ![t].pc = v])
  BY <1>2
<1>4. ThreadsTyped([th EXCEPT ![t].consumer = c])
  BY <1>2
<1>5. ThreadsTyped([th EXCEPT ![t].pc = v, ![t].consumer = c])
  BY <1>2
<1>6. ThreadsTyped([th EXCEPT ![t].pc = v, ![t].why = w])
  BY <1>2
<1> QED BY <1>3, <1>4, <1>5, <1>6

(* The rest of the types.                                                  *)
Typed ==
  /\ monitor \in Callers \cup {Nobody} /\ holder \in 0 .. created /\ old \in 0 .. created
  /\ created \in 0 .. MaxPlayers /\ commands \in Nat /\ calls \in 0 .. MaxCalls
  /\ pc \in [Processes -> CallerPlaces \cup ExecutorPlaces]
  /\ on \in [Processes -> 0 .. MaxPlayers] /\ status \in 0 .. MaxThreads
  /\ late \in BOOLEAN /\ crossed \in BOOLEAN /\ raced \in BOOLEAN

(* TypeOK in three parts.                                                  *)
LEMMA TypeParts ==
  /\ TypeOK <=> Typed /\ PlayersTyped(pl) /\ ThreadsTyped(th)
  /\ TypeOK' <=> Typed' /\ PlayersTyped(pl') /\ ThreadsTyped(th')
BY DEF TypeOK, Typed, PlayersTyped, ThreadsTyped

(* What most steps of a thread leave alone.                                *)
LEMMA MostUnchanged ==
  ASSUME NEW t \in Threads, ThreadStep(t)
  PROVE  OnStart(t) \/ OnFinish(t) \/ OnStop(t) \/ ThreadUnchanged
<1>1. CASE SetStarted(t) \/ SetStopped(t)
  BY <1>1 DEF SetStarted, SetStopped, SetState
<1> QED BY <1>1 DEF ThreadStep, StartConsumeThread, Initialize, Activate, GetSamples, Deactivate,
            Exchange, WriteSamples, StopConsumeThread

(* A thread that makes a step is there and has a player.                   *)
LEMMA ThreadIsThere ==
  ASSUME TypeOK, NEW t \in Threads, ThreadStep(t)
  PROVE  th[t].pc # "none" /\ th[t].player \in Players
<1>1. th[t] # NoThread
  <2>1. ASSUME NEW from, NEW to, from # "none", Go(t, from, to) PROVE th[t] # NoThread
    BY <2>1 DEF Go, NoThread
  <2>2. CASE StartConsumeThread(t) \/ Initialize(t) \/ GetSamples(t) \/ Exchange(t) \/ WriteSamples(t)
    BY <2>1, <2>2 DEF StartConsumeThread, Initialize, GetSamples, Exchange, WriteSamples, NoThread
  <2>3. CASE SetStarted(t) \/ SetStopped(t)
    BY <2>1, <2>3 DEF SetStarted, SetStopped, SetState
  <2>4. CASE Activate(t) \/ OnStart(t) \/ OnFinish(t) \/ Deactivate(t) \/ StopConsumeThread(t) \/ OnStop(t)
    BY <2>1, <2>4 DEF Activate, OnStart, OnFinish, Deactivate, StopConsumeThread, OnStop
  <2> QED BY <2>2, <2>3, <2>4 DEF ThreadStep
<1>2. th[t].player \in 0 .. MaxPlayers
  BY DEF TypeOK, ThreadStates
<1> QED BY <1>1, <1>2, Ranges DEF TypeOK, Players

(* Every step keeps the types.                                             *)
LEMMA TypeStep ==
  ASSUME TypeOK, ServiceInv, Next
  PROVE  TypeOK'
<1> SUFFICES Typed' /\ PlayersTyped(pl') /\ ThreadsTyped(th')
  BY TypeParts
<1>a. Typed /\ PlayersTyped(pl) /\ ThreadsTyped(th) /\ 0 \in 0 .. MaxThreads
  BY TypeParts, Ranges
<1> DEFINE Goal == Typed' /\ PlayersTyped(pl') /\ ThreadsTyped(th')
<1>1. ASSUME NEW c \in Callers, UserCall(c) PROVE Goal
  BY <1>1, <1>a, AndroidAssumption DEF Typed, UserCall, Processes, CallerPlaces
<1>2. ASSUME NEW c \in Callers, Control(c) \/ Skip(c) PROVE Goal
  BY <1>2, <1>a, Ranges DEF Typed, Control, Skip, Processes, CallerPlaces, historyVars
<1>3. ASSUME NEW x \in Processes, PlayerCall(x) PROVE Goal
  <2>1. Typed'
    BY <1>3, <1>a DEF Typed, PlayerCall, StartPlayback, StopPlayback, StartWoken, StopWoken, Join,
          Spawn, Leave, Stay, CallerPlaces, ExecutorPlaces, Processes
  <2>2. CASE StartPlayback(x)
    <3>1. CASE UNCHANGED <<pl, th>>
      BY <2>1, <3>1, <1>a
    <3>2. CASE Spawn(x, on[x])
      <4>1. PICK t \in Threads :
              /\ th' = [th EXCEPT ![t] = [pc |-> "consume", player |-> on[x], consumer |-> "none",
                                         why |-> "none"]]
              /\ pl' = [pl EXCEPT ![on[x]].playThread = t, ![on[x]].waiting = @ \cup {x}]
        BY <3>2 DEF Spawn
      <4>2. on[x] \in Players /\ on[x] \in 0 .. MaxPlayers /\ on[x] # 0 /\ t \in 0 .. MaxThreads
        BY <1>a, <2>2, CallsHolder, Ranges DEF StartPlayback, Typed, Threads
      <4>3. PlayersTyped(pl')
        <5>1. pl[on[x]].waiting \cup {x} \in SUBSET Processes
          BY <1>a, <4>2, WaitingTypes
        <5> QED BY <1>a, <4>1, <4>2, <5>1, PlayerTypes
      <4>4. ThreadsTyped(th')
        BY <1>a, <4>1, <4>2 DEF ThreadsTyped, ThreadStates, Early
      <4> QED BY <2>1, <4>3, <4>4
    <3> QED BY <2>2, <3>1, <3>2 DEF StartPlayback
  <2>3. CASE StopPlayback(x)
    <3>1. CASE UNCHANGED pl
      BY <2>1, <2>3, <3>1, <1>a DEF StopPlayback
    <3>2. CASE pl' = [pl EXCEPT ![on[x]].active = FALSE, ![on[x]].waiting = @ \cup {x}]
      <4>1. on[x] \in Players
        BY <2>3, CallsHolder DEF StopPlayback
      <4>2. pl[on[x]].waiting \cup {x} \in SUBSET Processes
        BY <1>a, <4>1, WaitingTypes
      <4>3. PlayersTyped(pl')
        BY <1>a, <3>2, <4>1, <4>2, PlayerTypes
      <4> QED BY <2>1, <2>3, <4>3, <1>a DEF StopPlayback
    <3> QED BY <2>3, <3>1, <3>2 DEF StopPlayback
  <2>4. CASE StartWoken(x)
    BY <2>1, <2>4, <1>a DEF StartWoken
  <2>5. CASE StopWoken(x)
    BY <2>1, <2>5, <1>a, CallsHolder, PlayerTypes DEF StopWoken
  <2>6. CASE Join(x)
    BY <2>1, <2>6, <1>a, CallsHolder, PlayerTypes DEF Join
  <2> QED BY <1>3, <2>2, <2>3, <2>4, <2>5, <2>6 DEF PlayerCall
<1>4. CASE Load
  <2>1. raced' \in BOOLEAN
    BY <1>4, <1>a DEF Typed, Load
  <2>2. created' \in 0 .. MaxPlayers /\ holder' \in 0 .. created' /\ old' \in 0 .. created'
    BY <1>4, <1>a, Ranges DEF Typed, Load
  <2>3. on' \in [Processes -> 0 .. MaxPlayers]
    BY <1>4, <1>a, Ranges DEF Typed, Load
  <2>4. pc' \in [Processes -> CallerPlaces \cup ExecutorPlaces] /\ commands' \in Nat
    BY <1>4, <1>a DEF Typed, Load, ExecutorPlaces
  <2> QED BY <1>4, <1>a, <2>1, <2>2, <2>3, <2>4 DEF Typed, Load
<1>5. CASE Swap
  BY <1>5, <1>a, Ranges DEF Typed, Swap, ExecutorPlaces, Processes, historyVars
<1>6. CASE Release
  <2>1. Typed' /\ ThreadsTyped(th')
    BY <1>6, <1>a, Ranges DEF Typed, Release, ExecutorPlaces, Processes, historyVars
  <2>2. old = 0 \/ old \in Players
    BY Ranges DEF Players
  <2> QED BY <1>6, <1>a, <2>1, <2>2, PlayerTypes DEF Release
<1>7. ASSUME NEW t \in Threads, ThreadStep(t) PROVE Goal
  <2>1. Typed'
    <3>1. UNCHANGED <<monitor, holder, old, created, pc, on, raced, calls>>
      BY <1>7 DEF ThreadStep
    <3>2. late' \in BOOLEAN /\ crossed' \in BOOLEAN
      <4>1. CASE OnStop(t)
        BY <4>1, <1>a DEF Typed, OnStop
      <4>2. CASE UNCHANGED <<late, crossed>>
        BY <4>2, <1>a DEF Typed
      <4>3. OnStart(t) \/ OnFinish(t) \/ OnStop(t) \/ ThreadUnchanged
        BY <1>7, MostUnchanged
      <4> QED BY <4>1, <4>2, <4>3 DEF OnStart, OnFinish, ThreadUnchanged
    <3>3. commands' \in Nat
      BY <1>7, <1>a, MostUnchanged DEF Typed, ThreadUnchanged, OnStart, OnFinish, OnStop
    <3>4. status' \in {status, t, 0}
      BY <1>7, MostUnchanged DEF ThreadUnchanged, OnStart, OnFinish, OnStop
    <3>5. status' \in 0 .. MaxThreads
      BY <1>a, <3>4 DEF Typed, Threads
    <3> QED BY <1>a, <3>1, <3>2, <3>3, <3>5 DEF Typed
  <2>2. ThreadsTyped(th')
    <3>a. \/ StartConsumeThread(t) \/ Initialize(t) \/ Activate(t) \/ SetStarted(t) \/ OnStart(t)
          \/ GetSamples(t) \/ OnFinish(t) \/ Deactivate(t) \/ Exchange(t) \/ WriteSamples(t)
          \/ StopConsumeThread(t) \/ SetStopped(t) \/ OnStop(t)
      BY <1>7 DEF ThreadStep
    <3>1. CASE StartConsumeThread(t)
      BY <1>a, ThreadTypes, <3>1 DEF StartConsumeThread, Go, ThreadPcs, Early, Playful, Ending
    <3>2. CASE Initialize(t)
      <4>1. th[t].pc = "initialize"
        BY <1>a, ThreadTypes, <3>2 DEF Initialize, Go, ThreadPcs, Early, Playful, Ending
      <4>2. CASE th' = [th EXCEPT ![t].pc = "activate"]
        BY <1>a, ThreadTypes, <4>1, <4>2 DEF ThreadPcs, Early, Playful, Ending
      <4>3. CASE th' = [th EXCEPT ![t].pc = "end", ![t].why = "itself"]
        BY <1>a, ThreadTypes, <4>1, <4>3 DEF ThreadPcs, Early, Playful, Ending
      <4> QED BY <3>2, <4>2, <4>3 DEF Initialize, Go
    <3>3. CASE Activate(t)
      BY <1>a, ThreadTypes, <3>3 DEF Activate, Go, ThreadPcs, Early, Playful, Ending
    <3>4. CASE SetStarted(t)
      BY <1>a, ThreadTypes, <3>4 DEF SetStarted, SetState, Go, ThreadPcs, Early, Playful, Ending
    <3>5. CASE OnStart(t)
      BY <1>a, ThreadTypes, <3>5 DEF OnStart, Go, ThreadPcs, Early, Playful, Ending
    <3>6. CASE GetSamples(t)
      <4>1. PICK v \in {"exchange", "finish", "end"}, w \in {"none", "itself", "stopped"} :
              th' = [th EXCEPT ![t].pc = v, ![t].why = w]
        <5>1. th[t].why \in {"none", "itself", "stopped"}
          BY <1>a DEF ThreadsTyped, ThreadStates
        <5> QED BY <3>6, <5>1 DEF GetSamples
      <4> QED BY <1>a, ThreadTypes, <3>6, <4>1 DEF GetSamples, ThreadPcs, Early, Playful, Ending
    <3>7. CASE OnFinish(t)
      <4>1. PICK v \in {"finishNext", "deactivate"} : th' = [th EXCEPT ![t].pc = v]
        BY <3>7 DEF OnFinish, Go
      <4>2. v \in ThreadPcs \ {"none"} /\ th[t].pc # "none"
        BY <1>7, ThreadIsThere DEF ThreadPcs, Playful
      <4> QED BY <1>a, ThreadTypes, <4>1, <4>2
    <3>8. CASE Deactivate(t)
      BY <1>a, ThreadTypes, <3>8 DEF Deactivate, Go, ThreadPcs, Early, Playful, Ending
    <3>9. CASE Exchange(t)
      <4>1. th[t].pc \in {"exchange", "end"}
        BY <1>a, ThreadTypes, <3>9 DEF Exchange, ThreadPcs, Early, Playful, Ending
      <4>2. PICK v \in {"join", "loop"}, c \in {"done", "write"} :
              th' = [th EXCEPT ![t].pc = v, ![t].consumer = c]
        BY <1>a, <3>9, <4>1 DEF Exchange, ThreadsTyped
      <4>3. v \in ThreadPcs \ {"none"} /\ c \in {"none", "exchange", "write", "done"} /\ th[t].pc # "none"
        BY <4>1 DEF ThreadPcs, Playful, Ending
      <4> QED BY <1>a, ThreadTypes, <4>2, <4>3
    <3>10. CASE WriteSamples(t)
      <4>1. th[t].pc \in ThreadPcs \ {"none"}
        BY <1>a, <1>7, ThreadIsThere DEF ThreadsTyped, ThreadStates, ThreadPcs
      <4> QED BY <1>a, ThreadTypes, <3>10, <4>1 DEF WriteSamples
    <3>11. CASE StopConsumeThread(t)
      BY <1>a, ThreadTypes, <3>11 DEF StopConsumeThread, Go, ThreadPcs, Early, Playful, Ending
    <3>12. CASE SetStopped(t)
      BY <1>a, ThreadTypes, <3>12 DEF SetStopped, SetState, Go, ThreadPcs, Early, Playful, Ending
    <3>13. CASE OnStop(t)
      BY <1>a, ThreadTypes, <3>13 DEF OnStop, Go, ThreadPcs, Early, Playful, Ending
    <3> QED BY <3>a, <3>1, <3>2, <3>3, <3>4, <3>5, <3>6, <3>7,
            <3>8, <3>9, <3>10, <3>11, <3>12, <3>13
  <2>3. PlayersTyped(pl')
    <3> DEFINE p == th[t].player
    <3>1. p \in Players
      BY <1>7, ThreadIsThere
    <3>2. CASE Activate(t)
      BY <3>2, <3>1, <1>a, PlayerTypes DEF Activate
    <3>3. CASE Deactivate(t)
      BY <3>3, <3>1, <1>a, PlayerTypes DEF Deactivate
    <3>4. ASSUME NEW from, NEW to, NEW v \in {"Started", "Stopped"}, SetState(t, from, to, v)
          PROVE  PlayersTyped(pl')
      <4>1. CASE pl' = [pl EXCEPT ![p].state = v]
        BY <4>1, <3>1, <1>a, PlayerTypes
      <4>2. ASSUME NEW x, pl' = [pl EXCEPT ![p].state = v, ![p].waiting = @ \ {x}]
            PROVE  PlayersTyped(pl')
        <5>1. pl[p].waiting \ {x} \in SUBSET Processes
          BY <1>a, <3>1, WaitingTypes
        <5> QED BY <4>2, <5>1, <3>1, <1>a, PlayerTypes
      <4> QED BY <3>4, <4>1, <4>2 DEF SetState
    <3> QED BY <1>7, <1>a, <3>2, <3>3, <3>4
          DEF ThreadStep, StartConsumeThread, Initialize, SetStarted, SetStopped, OnStart,
              GetSamples, OnFinish, Exchange, WriteSamples, StopConsumeThread, OnStop
  <2> QED BY <2>1, <2>2, <2>3
<1> QED BY <1>1, <1>2, <1>3, <1>4, <1>5, <1>6, <1>7 DEF Next, CallerStep, ExecutorStep, Run, Processes

(* A player after an update, the others being what they were.              *)
PlayerBecomes(f, p, s, g, W, t, b, r) ==
  /\ \A q \in Players \ {p} : f[q] = pl[q]
  /\ f[p].state = s /\ f[p].guard = g /\ f[p].waiting = W /\ f[p].playThread = t
  /\ f[p].active = b /\ f[p].released = r

(* What each update of a player makes of it.                               *)
LEMMA PlayerUpdates ==
  ASSUME PlayersTyped(pl), NEW p \in Players, NEW W, NEW g, NEW b, NEW s, NEW t
  PROVE  LET o == pl[p]
         IN  /\ PlayerBecomes([pl EXCEPT ![p].guard = g],
                              p, o.state, g, o.waiting, o.playThread, o.active, o.released)
             /\ PlayerBecomes([pl EXCEPT ![p].playThread = t, ![p].waiting = W],
                              p, o.state, o.guard, W, t, o.active, o.released)
             /\ PlayerBecomes([pl EXCEPT ![p].active = b, ![p].waiting = W],
                              p, o.state, o.guard, W, o.playThread, b, o.released)
             /\ PlayerBecomes([pl EXCEPT ![p].playThread = t, ![p].guard = g],
                              p, o.state, g, o.waiting, t, o.active, o.released)
             /\ PlayerBecomes([pl EXCEPT ![p].active = b],
                              p, o.state, o.guard, o.waiting, o.playThread, b, o.released)
             /\ PlayerBecomes([pl EXCEPT ![p].released = b],
                              p, o.state, o.guard, o.waiting, o.playThread, o.active, b)
             /\ PlayerBecomes([pl EXCEPT ![p].state = s],
                              p, s, o.guard, o.waiting, o.playThread, o.active, o.released)
             /\ PlayerBecomes([pl EXCEPT ![p].state = s, ![p].waiting = W],
                              p, s, o.guard, W, o.playThread, o.active, o.released)
<1> DEFINE o == pl[p]
<1>1. PlayerBecomes([pl EXCEPT ![p].guard = g],
                    p, o.state, g, o.waiting, o.playThread, o.active, o.released)
  BY DEF PlayersTyped, PlayerStates, PlayerBecomes
<1>2. PlayerBecomes([pl EXCEPT ![p].playThread = t, ![p].waiting = W],
                    p, o.state, o.guard, W, t, o.active, o.released)
  BY DEF PlayersTyped, PlayerStates, PlayerBecomes
<1>3. PlayerBecomes([pl EXCEPT ![p].active = b, ![p].waiting = W],
                    p, o.state, o.guard, W, o.playThread, b, o.released)
  BY DEF PlayersTyped, PlayerStates, PlayerBecomes
<1>4. PlayerBecomes([pl EXCEPT ![p].playThread = t, ![p].guard = g],
                    p, o.state, g, o.waiting, t, o.active, o.released)
  BY DEF PlayersTyped, PlayerStates, PlayerBecomes
<1>5. PlayerBecomes([pl EXCEPT ![p].active = b],
                    p, o.state, o.guard, o.waiting, o.playThread, b, o.released)
  BY DEF PlayersTyped, PlayerStates, PlayerBecomes
<1>6. PlayerBecomes([pl EXCEPT ![p].released = b],
                    p, o.state, o.guard, o.waiting, o.playThread, o.active, b)
  BY DEF PlayersTyped, PlayerStates, PlayerBecomes
<1>7. PlayerBecomes([pl EXCEPT ![p].state = s],
                    p, s, o.guard, o.waiting, o.playThread, o.active, o.released)
  BY DEF PlayersTyped, PlayerStates, PlayerBecomes
<1>8. PlayerBecomes([pl EXCEPT ![p].state = s, ![p].waiting = W],
                    p, s, o.guard, W, o.playThread, o.active, o.released)
  BY DEF PlayersTyped, PlayerStates, PlayerBecomes
<1> QED BY <1>1, <1>2, <1>3, <1>4, <1>5, <1>6, <1>7, <1>8

(* A thread after an update, the others being what they were.              *)
ThreadBecomes(t, v, w) ==
  /\ \A u \in Threads \ {t} : th'[u] = th[u]
  /\ th'[t].pc = v /\ th'[t].why = w /\ th'[t].player = th[t].player

(* What each update of a thread makes of it.                               *)
LEMMA ThreadUpdates ==
  ASSUME ThreadsTyped(th), NEW t \in Threads, NEW v, NEW w, NEW c
  PROVE  /\ th' = [th EXCEPT ![t].pc = v] => ThreadBecomes(t, v, th[t].why)
         /\ th' = [th EXCEPT ![t].pc = v, ![t].why = w] => ThreadBecomes(t, v, w)
         /\ th' = [th EXCEPT ![t].pc = v, ![t].consumer = c] => ThreadBecomes(t, v, th[t].why)
         /\ th' = [th EXCEPT ![t].consumer = c] => ThreadBecomes(t, th[t].pc, th[t].why)
<1>1. th' = [th EXCEPT ![t].pc = v] => ThreadBecomes(t, v, th[t].why)
  BY DEF ThreadsTyped, ThreadStates, ThreadBecomes
<1>2. th' = [th EXCEPT ![t].pc = v, ![t].why = w] => ThreadBecomes(t, v, w)
  BY DEF ThreadsTyped, ThreadStates, ThreadBecomes
<1>3. th' = [th EXCEPT ![t].pc = v, ![t].consumer = c] => ThreadBecomes(t, v, th[t].why)
  BY DEF ThreadsTyped, ThreadStates, ThreadBecomes
<1>4. th' = [th EXCEPT ![t].consumer = c] => ThreadBecomes(t, th[t].pc, th[t].why)
  BY DEF ThreadsTyped, ThreadStates, ThreadBecomes
<1> QED BY <1>1, <1>2, <1>3, <1>4

(* The players after each part of a call, which is of the holder's.        *)
Became(s, g, W, t, b) ==
  PlayerBecomes(pl', holder, s, g, W, t, b, Current.released)

(* A play that creates a thread.                                           *)
LEMMA SpawnDoes ==
  ASSUME TypeOK, ServiceInv, NEW x \in Processes, pc[x] = "start", Spawn(x, on[x])
  PROVE  \E t \in Threads :
           /\ th[t].pc = "none"
           /\ th'[t].pc = "consume" /\ th'[t].player = holder /\ th'[t].why = "none"
           /\ \A u \in Threads \ {t} : th'[u] = th[u]
           /\ Became(Current.state, Current.guard, Current.waiting \cup {x}, t, Current.active)
<1>1. PICK t \in Threads :
        /\ th[t] = NoThread
        /\ th' = [th EXCEPT ![t] = [pc |-> "consume", player |-> on[x], consumer |-> "none",
                                   why |-> "none"]]
        /\ pl' = [pl EXCEPT ![on[x]].playThread = t, ![on[x]].waiting = @ \cup {x}]
  BY DEF Spawn
<1>2. on[x] = holder /\ holder \in Players
  BY CallsHolder
<1>3. Became(Current.state, Current.guard, Current.waiting \cup {x}, t, Current.active)
  BY <1>1, <1>2, TypeParts, PlayerUpdates DEF Became, Current
<1>4. th'[t].pc = "consume" /\ th'[t].player = holder /\ th'[t].why = "none"
  BY <1>1, <1>2, TypeParts DEF ThreadsTyped, ThreadStates
<1>5. \A u \in Threads \ {t} : th'[u] = th[u]
  BY <1>1, TypeParts DEF ThreadsTyped
<1> QED BY <1>1, <1>3, <1>4, <1>5 DEF NoThread

(* The other parts.                                                        *)
LEMMA CallDoes ==
  ASSUME TypeOK, ServiceInv, NEW x \in Processes
  PROVE  /\ StopPlayback(x) /\ Current.state = "Started" =>
              Became("Started", Current.guard, Current.waiting \cup {x}, Current.playThread, FALSE)
         /\ StopWoken(x) =>
              Became(Current.state, x, Current.waiting, Current.playThread, Current.active)
         /\ Join(x) =>
              Became(Current.state, Nobody, Current.waiting, 0, Current.active)
<1>a. PlayersTyped(pl)
  BY TypeParts
<1>b. pc[x] \in {"stop", "stopWait", "stopJoin"} => on[x] = holder /\ holder \in Players
  BY CallsHolder
<1>1. ASSUME StopPlayback(x), Current.state = "Started"
      PROVE  Became("Started", Current.guard, Current.waiting \cup {x}, Current.playThread, FALSE)
  <2>1. pl' = [pl EXCEPT ![holder].active = FALSE, ![holder].waiting = pl[holder].waiting \cup {x}]
    BY <1>1, <1>b DEF StopPlayback, Current
  <2>2. holder \in Players
    BY <1>1, <1>b DEF StopPlayback
  <2>3. Became(Current.state, Current.guard, Current.waiting \cup {x}, Current.playThread, FALSE)
    BY <1>a, <2>1, <2>2, PlayerUpdates DEF Became, Current
  <2> QED BY <1>1, <2>3
<1>2. ASSUME StopWoken(x)
      PROVE  Became(Current.state, x, Current.waiting, Current.playThread, Current.active)
  BY <1>2, <1>a, <1>b, PlayerUpdates DEF Became, Current, StopWoken
<1>3. ASSUME Join(x) PROVE Became(Current.state, Nobody, Current.waiting, 0, Current.active)
  BY <1>3, <1>a, <1>b, PlayerUpdates DEF Became, Current, Join
<1> QED BY <1>1, <1>2, <1>3

(* What the steps of a thread do to its player.                            *)
LEMMA ThreadDoes ==
  ASSUME TypeOK, NEW t \in Threads, NEW p \in Players, p = th[t].player
  PROVE  LET o == pl[p]
             Makes(s, W, b) == PlayerBecomes(pl', p, s, o.guard, W, o.playThread, b, o.released)
         IN  /\ Activate(t) => Makes(o.state, o.waiting, TRUE)
             /\ Deactivate(t) => Makes(o.state, o.waiting, FALSE)
             /\ \A from, to, s : SetState(t, from, to, s) =>
                  \/ o.waiting = {} /\ Makes(s, o.waiting, o.active)
                  \/ \E x \in o.waiting : Makes(s, o.waiting \ {x}, o.active)
<1>a. PlayersTyped(pl)
  BY TypeParts
<1> DEFINE o == pl[p]
           Makes(s, W, b) == PlayerBecomes(pl', p, s, o.guard, W, o.playThread, b, o.released)
<1>1. ASSUME Activate(t) PROVE Makes(o.state, o.waiting, TRUE)
  BY <1>1, <1>a, PlayerUpdates DEF Activate
<1>2. ASSUME Deactivate(t) PROVE Makes(o.state, o.waiting, FALSE)
  BY <1>2, <1>a, PlayerUpdates DEF Deactivate
<1>3. ASSUME NEW from, NEW to, NEW s, SetState(t, from, to, s)
      PROVE  \/ o.waiting = {} /\ Makes(s, o.waiting, o.active)
             \/ \E x \in o.waiting : Makes(s, o.waiting \ {x}, o.active)
  <2>1. CASE o.waiting = {} /\ pl' = [pl EXCEPT ![p].state = s]
    BY <2>1, <1>a, PlayerUpdates
  <2>2. ASSUME NEW x \in o.waiting, pl' = [pl EXCEPT ![p].state = s, ![p].waiting = o.waiting \ {x}]
        PROVE  Makes(s, o.waiting \ {x}, o.active)
    BY <2>2, <1>a, PlayerUpdates
  <2> QED BY <1>3, <2>1, <2>2 DEF SetState
<1> QED BY <1>1, <1>2, <1>3

(* What the service's invariant speaks of, but for the players.            *)
ServicePlaces ==
  /\ pc[Executor] \in ExecutorPlaces
  /\ \A c \in Callers :
       /\ pc[c] \in CallerPlaces
       /\ (monitor = c) = (pc[c] \notin {"idle", "play", "stopCall", "next"})
       /\ monitor = c => on[c] = holder /\ holder # 0
  /\ pc[Executor] = "idle" => old = 0 /\ holder = created
  /\ pc[Executor] \in {"stop", "stopWait", "stopJoin", "swap"} => old = holder /\ created = holder + 1
  /\ pc[Executor] \in {"stop", "stopWait", "stopJoin"} => on[Executor] = holder /\ holder # 0
  /\ pc[Executor] \in {"start", "startWait", "release"} =>
       holder = created /\ created = old + 1 /\ on[Executor] = holder

(* Only Release releases a player.                                         *)
LEMMA ReleasedKept ==
  ASSUME TypeOK, ServiceInv, NEW p \in Players,
         \/ \E x \in Processes : PlayerCall(x)
         \/ \E t \in Threads : ThreadStep(t)
  PROVE  pl'[p].released = pl[p].released
<1>1. PlayersTyped(pl)
  BY TypeParts
<1>2. ASSUME NEW x \in Processes, PlayerCall(x) PROVE pl'[p].released = pl[p].released
  <2>1. CASE StartPlayback(x)
    BY <2>1, SpawnDoes DEF StartPlayback, Became, PlayerBecomes, Current
  <2>2. CASE StopPlayback(x)
    BY <1>1, <2>2 DEF PlayersTyped, PlayerStates, StopPlayback
  <2>3. CASE StartWoken(x)
    BY <2>3 DEF StartWoken
  <2>4. CASE StopWoken(x)
    BY <1>1, <2>4 DEF PlayersTyped, PlayerStates, StopWoken
  <2>5. CASE Join(x)
    BY <1>1, <2>5 DEF PlayersTyped, PlayerStates, Join
  <2> QED BY <1>2, <2>1, <2>2, <2>3, <2>4, <2>5 DEF PlayerCall
<1>3. ASSUME NEW t \in Threads, ThreadStep(t) PROVE pl'[p].released = pl[p].released
  <2>1. CASE Activate(t) \/ Deactivate(t)
    BY <1>1, <2>1 DEF PlayersTyped, PlayerStates, Activate, Deactivate
  <2>2. CASE SetStarted(t) \/ SetStopped(t)
    BY <1>3, <2>2, ThreadIsThere, ThreadDoes DEF SetStarted, SetStopped, PlayerBecomes
  <2> QED BY <1>3, <2>1, <2>2 DEF ThreadStep, StartConsumeThread, Initialize, OnStart, GetSamples,
          OnFinish, Exchange, WriteSamples, StopConsumeThread, OnStop
<1> QED BY <1>2, <1>3

(* Where a call of the player goes.                                        *)
LEMMA CallKinds ==
  ASSUME NEW x \in Processes, PlayerCall(x)
  PROVE  /\ pc[x] \in {"start", "startWait", "stop", "stopWait", "stopJoin"}
         /\ \/ pc[x] \in {"start", "startWait"} /\ Leave(x, "start")
            \/ pc[x] \in {"stop", "stopJoin"} /\ Leave(x, "stop")
            \/ pc[x] = "start" /\ Stay(x, "startWait")
            \/ pc[x] = "stop" /\ Stay(x, "stopWait")
            \/ pc[x] = "stopWait" /\ Stay(x, "stopJoin")
BY DEF PlayerCall, StartPlayback, Spawn, StopPlayback, StartWoken, StopWoken, Join

(* Every step keeps what is known of the service.                          *)
LEMMA ServiceStep ==
  ASSUME TypeOK, ServiceInv, Next
  PROVE  ServiceInv'
<1>a. ServicePlaces /\ \A p \in Players : pl[p].released => p < holder
  BY DEF ServicePlaces, ServiceInv
<1>b. Typed /\ AndroidAssumption /\ Executor \notin Callers /\ Nobody \notin Callers
  BY TypeParts, AndroidAssumption DEF AndroidAssumption
<1> DEFINE Kept == ServicePlaces' /\ \A p \in Players : pl[p].released' => p < holder'
<1> SUFFICES Kept
  BY DEF ServicePlaces, ServiceInv
<1>1. ASSUME NEW c \in Callers, UserCall(c) PROVE Kept
  BY <1>1, <1>a, <1>b DEF Typed, ServicePlaces, UserCall, Processes, CallerPlaces
<1>2. ASSUME NEW c \in Callers, Control(c) \/ Skip(c) PROVE Kept
  BY <1>2, <1>a, <1>b DEF Typed, ServicePlaces, Control, Skip, Processes, CallerPlaces
<1>3. ASSUME NEW x \in Processes, PlayerCall(x) PROVE Kept
  <2>1. ServicePlaces'
    <3>1. UNCHANGED <<holder, old, created, on>>
      BY <1>3 DEF PlayerCall
    <3>2. PICK from \in {"start", "startWait", "stop", "stopWait", "stopJoin"} :
            /\ pc[x] = from
            /\ \/ from \in {"start", "startWait"} /\ Leave(x, "start")
               \/ from \in {"stop", "stopJoin"} /\ Leave(x, "stop")
               \/ from = "start" /\ Stay(x, "startWait")
               \/ from = "stop" /\ Stay(x, "stopWait")
               \/ from = "stopWait" /\ Stay(x, "stopJoin")
      BY <1>3, CallKinds
    <3>3. CASE x = Executor
      BY <1>a, <1>b, <3>1, <3>2, <3>3 DEF Typed, ServicePlaces, Leave, Stay, Processes, ExecutorPlaces
    <3>4. CASE x \in Callers
      BY <1>a, <1>b, <3>1, <3>2, <3>4 DEF Typed, ServicePlaces, Leave, Stay, Processes, CallerPlaces
    <3> QED BY <3>3, <3>4 DEF Processes
  <2>2. \A p \in Players : pl'[p].released = pl[p].released
    BY <1>3, ReleasedKept
  <2> QED BY <1>3, <1>a, <2>1, <2>2 DEF PlayerCall
<1>4. CASE Load
  BY <1>4, <1>a, <1>b, Ranges DEF Typed, ServicePlaces, Load, Processes, ExecutorPlaces
<1>5. CASE Swap
  BY <1>5, <1>a, <1>b, Ranges DEF Typed, ServicePlaces, Swap, Processes, ExecutorPlaces, Players
<1>6. CASE Release
  <2>1. ServicePlaces'
    BY <1>6, <1>a, <1>b, Ranges DEF Typed, ServicePlaces, Release, Processes, ExecutorPlaces
  <2>2. \A p \in Players : pl'[p].released => p = old \/ pl[p].released
    BY <1>6, TypeParts DEF Release, PlayersTyped
  <2>3. old < holder /\ holder' = holder
    BY <1>6, <1>a, Ranges DEF ServicePlaces, Release
  <2> QED BY <1>a, <2>1, <2>2, <2>3
<1>7. ASSUME NEW t \in Threads, ThreadStep(t) PROVE Kept
  <2>1. ServicePlaces'
    BY <1>7, <1>a DEF ServicePlaces, ThreadStep
  <2>2. \A p \in Players : pl'[p].released = pl[p].released
    BY <1>7, ReleasedKept
  <2> QED BY <1>7, <1>a, <2>1, <2>2 DEF ThreadStep
<1> QED BY <1>1, <1>2, <1>3, <1>4, <1>5, <1>6, <1>7 DEF Next, CallerStep, ExecutorStep, Run, Processes

(* A process joins those who wait.                                         *)
LEMMA GuardKept ==
  ASSUME TypeOK, ServiceInv, GuardInv, NEW x \in Processes, pc[x] \in {"start", "stop"},
         NEW v \in {"startWait", "stopWait"}, pc' = [pc EXCEPT ![x] = v], on' = on, on[x] = holder,
         \A p \in Players :
           /\ pl'[p].waiting = IF p = holder THEN pl[p].waiting \cup {x} ELSE pl[p].waiting
           /\ pl'[p].guard = pl[p].guard
  PROVE  GuardInv'
<1>1. /\ pc'[x] = v /\ \A y \in Processes \ {x} : pc'[y] = pc[y]
  BY DEF TypeOK
<1>2. ASSUME NEW p \in Players, NEW y \in pl'[p].waiting
      PROVE  y \in Processes /\ on[y] = p /\ pc'[y] \in {"startWait", "stopWait"}
  <2>1. CASE y \in pl[p].waiting
    BY <1>1, <2>1 DEF GuardInv
  <2>2. CASE y = x /\ p = holder
    BY <1>1, <2>2
  <2> QED BY <1>2, <2>1, <2>2
<1>3. ASSUME NEW y \in Processes, pc'[y] = "stopJoin" PROVE pl'[on[y]].guard = y
  <2>1. pc[y] = "stopJoin"
    BY <1>1, <1>3
  <2> QED BY <2>1, CallsHolder DEF GuardInv
<1> QED BY <1>2, <1>3 DEF GuardInv

(* Every step keeps the account of those who wait.                         *)
LEMMA GuardStep ==
  ASSUME TypeOK, ServiceInv, GuardInv, Next
  PROVE  GuardInv'
<1>a. PlayersTyped(pl) /\ Typed /\ AndroidAssumption
  BY TypeParts, AndroidAssumption DEF AndroidAssumption
<1>1. ASSUME NEW c \in Callers, UserCall(c) PROVE GuardInv'
  BY <1>1, <1>a DEF Typed, GuardInv, UserCall, Processes
<1>2. ASSUME NEW c \in Callers, Control(c) \/ Skip(c) PROVE GuardInv'
  BY <1>2, <1>a DEF Typed, GuardInv, Control, Skip, Processes
<1>3. ASSUME NEW x \in Processes, PlayerCall(x) PROVE GuardInv'
  <2>1. CASE StartPlayback(x)
    <3>1. CASE UNCHANGED pl /\ Leave(x, "start")
      BY <1>3, <1>a, <2>1, <3>1 DEF Typed, GuardInv, PlayerCall, StartPlayback, Leave
    <3>2. CASE Spawn(x, on[x])
      <4>1. pc' = [pc EXCEPT ![x] = "startWait"] /\ on' = on /\ pc[x] = "start" /\ on[x] = holder
        BY <1>3, <2>1, <3>2, CallsHolder DEF Spawn, Stay, PlayerCall, StartPlayback
      <4>2. \A p \in Players :
              /\ pl'[p].waiting = IF p = holder THEN pl[p].waiting \cup {x} ELSE pl[p].waiting
              /\ pl'[p].guard = pl[p].guard
        BY <3>2, <4>1, SpawnDoes DEF Became, PlayerBecomes, Current
      <4> QED BY <4>1, <4>2, GuardKept
    <3> QED BY <2>1, <3>1, <3>2 DEF StartPlayback
  <2>2. CASE StopPlayback(x)
    <3>1. CASE UNCHANGED pl
      BY <1>3, <1>a, <2>2, <3>1, CallsHolder DEF Typed, GuardInv, PlayerCall, StopPlayback, Leave, Stay
    <3>2. CASE pl[on[x]].state = "Started" /\ Stay(x, "stopWait")
      <4>1. pc' = [pc EXCEPT ![x] = "stopWait"] /\ on' = on /\ pc[x] = "stop" /\ on[x] = holder
        BY <1>3, <2>2, <3>2, CallsHolder DEF Stay, PlayerCall, StopPlayback
      <4>2. \A p \in Players :
              /\ pl'[p].waiting = IF p = holder THEN pl[p].waiting \cup {x} ELSE pl[p].waiting
              /\ pl'[p].guard = pl[p].guard
        BY <2>2, <3>2, <4>1, CallDoes DEF Became, PlayerBecomes, Current
      <4> QED BY <4>1, <4>2, GuardKept
    <3> QED BY <2>2, <3>1, <3>2 DEF StopPlayback
  <2>3. CASE StartWoken(x)
    <3>1. on[x] \in Players /\ on' = on /\ pl' = pl
      BY <1>3, <2>3, CallsHolder DEF PlayerCall, StartWoken
    <3>2. \A y \in Processes \ {x} : pc'[y] = pc[y]
      BY <1>a, <2>3 DEF Typed, StartWoken, Leave
    <3>3. pc'[x] # "stopJoin" /\ x \notin pl[on[x]].waiting
      BY <1>a, <2>3 DEF Typed, StartWoken, Woken, Leave
    <3> QED BY <3>1, <3>2, <3>3 DEF GuardInv
  <2>4. CASE StopWoken(x)
    <3>1. on[x] = holder /\ holder \in Players /\ on' = on /\ x \notin Current.waiting
      BY <1>3, <2>4, CallsHolder DEF PlayerCall, StopWoken, Woken, Current
    <3>2. \A y \in Processes : pc[y] # "stopJoin"
      <4>1. Current.guard \notin Processes
        BY <2>4, <3>1, AndroidAssumption DEF StopWoken, Woken, Free, Current, Processes
      <4> QED BY <4>1, CallsHolder DEF GuardInv, Current
    <3>3. \A y \in Processes \ {x} : pc'[y] = pc[y]
      BY <1>a, <2>4 DEF Typed, StopWoken, Stay
    <3>4. \A p \in Players : pl'[p].waiting = pl[p].waiting
      BY <2>4, CallDoes DEF Became, PlayerBecomes, Current
    <3>5. pl'[on[x]].guard = x
      BY <2>4, <3>1, CallDoes DEF Became, PlayerBecomes
    <3>6. \A p \in Players : \A y \in pl'[p].waiting :
            y \in Processes /\ on'[y] = p /\ pc'[y] \in {"startWait", "stopWait"}
      <4>1. \A p \in Players : \A y \in pl[p].waiting :
              y \in Processes /\ on[y] = p /\ pc[y] \in {"startWait", "stopWait"} /\ y # x
        BY <3>1 DEF GuardInv, Current
      <4> QED BY <4>1, <3>1, <3>3, <3>4
    <3>7. \A y \in Processes : pc'[y] = "stopJoin" => pl'[on'[y]].guard = y
      <4>1. \A y \in Processes : pc'[y] = "stopJoin" => y = x
        BY <3>2, <3>3
      <4> QED BY <4>1, <3>1, <3>5
    <3> QED BY <3>6, <3>7 DEF GuardInv
  <2>5. CASE Join(x)
    <3>1. pl[on[x]].guard = x /\ on[x] = holder /\ holder \in Players /\ pc[x] = "stopJoin"
      BY <2>5, CallsHolder DEF GuardInv, Join
    <3>2. \A y \in Processes : pc[y] = "stopJoin" => y = x
      BY <3>1, CallsHolder DEF GuardInv
    <3>3. pc'[x] # "stopJoin" /\ \A y \in Processes \ {x} : pc'[y] = pc[y]
      BY <1>a, <2>5 DEF Typed, Join, Leave
    <3>4. \A p \in Players : pl'[p].waiting = pl[p].waiting
      BY <1>a, <2>5 DEF PlayersTyped, PlayerStates, Join
    <3> QED BY <1>3, <3>1, <3>2, <3>3, <3>4 DEF GuardInv, PlayerCall
  <2> QED BY <1>3, <2>1, <2>2, <2>3, <2>4, <2>5 DEF PlayerCall
<1>4. CASE Load \/ Swap
  BY <1>4, <1>a DEF Typed, GuardInv, Load, Swap, Processes
<1>5. CASE Release
  BY <1>5, <1>a DEF Typed, PlayersTyped, PlayerStates, GuardInv, Release, Processes
<1>6. ASSUME NEW t \in Threads, ThreadStep(t) PROVE GuardInv'
  <2>1. UNCHANGED <<pc, on>>
    BY <1>6 DEF ThreadStep
  <2>2. \A p \in Players : pl'[p].waiting \subseteq pl[p].waiting /\ pl'[p].guard = pl[p].guard
    <3>1. CASE Activate(t) \/ Deactivate(t)
      BY <1>a, <3>1 DEF PlayersTyped, PlayerStates, Activate, Deactivate
    <3>2. ASSUME NEW from, NEW to, NEW s, SetState(t, from, to, s)
          PROVE  \A p \in Players : pl'[p].waiting \subseteq pl[p].waiting /\ pl'[p].guard = pl[p].guard
      <4>1. th[t].player \in Players
        BY <1>6, ThreadIsThere
      <4>2. PICK W \in SUBSET pl[th[t].player].waiting :
              PlayerBecomes(pl', th[t].player, s, pl[th[t].player].guard, W, pl[th[t].player].playThread,
                            pl[th[t].player].active, pl[th[t].player].released)
        BY <3>2, <4>1, ThreadDoes
      <4> QED BY <4>1, <4>2 DEF PlayerBecomes
    <3> QED BY <1>6, <3>1, <3>2 DEF ThreadStep, StartConsumeThread, Initialize, OnStart, GetSamples,
            OnFinish, Exchange, WriteSamples, StopConsumeThread, OnStop, SetStarted, SetStopped
  <2>3. \A x \in Processes : pc[x] = "stopJoin" => on[x] \in Players
    BY CallsHolder
  <2> QED BY <2>1, <2>2, <2>3 DEF GuardInv
<1> QED BY <1>1, <1>2, <1>3, <1>4, <1>5, <1>6 DEF Next, CallerStep, ExecutorStep, Run, Processes

(* What is known of a call while nothing has raced.                        *)
Core == ThreadInv /\ WaitInv /\ StatusInv
Known == TypeOK /\ ServiceInv /\ GuardInv /\ Core

(* The players are what they were, as far as the threads and the calls     *)
(* are concerned.                                                          *)
PlayersSame ==
  \A p \in Players : /\ pl'[p].state = pl[p].state /\ pl'[p].waiting = pl[p].waiting
                     /\ pl'[p].playThread = pl[p].playThread /\ pl'[p].active = pl[p].active

Outside == {"idle", "play", "stopCall", "next", "start", "stop", "swap", "release"}

(* A process goes from one place to another and waits in none.             *)
LEMMA PlacesMove ==
  ASSUME Known, holder' = holder, th' = th, UNCHANGED <<status, late, crossed>>, PlayersSame,
         NEW x \in Processes, NEW v \in Outside, pc' = [pc EXCEPT ![x] = v],
         pc[x] \in Outside \/ (pc[x] = "startWait" /\ x \notin Current.waiting),
         x = Executor => /\ v \in {"swap", "start"} => NobodyBusy
                         /\ v # "idle" => \A c \in Callers : pc[c] # "startWait"
                         /\ v = "start" => \A c \in Callers : pc[c] \notin {"stopWait", "stopJoin"}
  PROVE  Core'
<1>1. /\ pc'[x] = v /\ \A y \in Processes \ {x} : pc'[y] = pc[y]
  BY DEF Known, TypeOK
<1>2. \A t \in Threads : Busy(t)' = Busy(t)
  BY DEF Busy
<1>3. NobodyBusy' = NobodyBusy
  BY <1>2 DEF NobodyBusy
<1>4. holder # 0 => /\ Current.state' = Current.state /\ Current.waiting' = Current.waiting
                    /\ Current.playThread' = Current.playThread /\ Current.active' = Current.active
  BY Ranges DEF Known, PlayersSame, Current
<1>5. \A y \in Processes :
        pc[y] \in {"start", "startWait", "stop", "stopWait", "stopJoin"} => holder # 0
  BY CallsHolder, Ranges DEF Known
<1>6. ThreadInv'
  <2>1. ASSUME NEW t \in Threads, Busy(t)
        PROVE  /\ th[t].player = holder /\ holder # 0 /\ Current.playThread' = t
               /\ th[t].pc \in Early => Current.state' = "Stopped"
               /\ th[t].pc \in Playful => Current.state' = "Started"
               /\ Current.state' = "Stopped" =>
                    \E y \in Processes : pc'[y] = "startWait" /\ Current.waiting' = {y}
    <3>1. th[t].player = holder /\ holder # 0 /\ Current.playThread' = t
      BY <2>1, <1>4 DEF Known, Core, ThreadInv
    <3>2. /\ th[t].pc \in Early => Current.state' = "Stopped"
          /\ th[t].pc \in Playful => Current.state' = "Started"
      BY <2>1, <3>1, <1>4 DEF Known, Core, ThreadInv
    <3>3. ASSUME Current.state' = "Stopped"
          PROVE  \E y \in Processes : pc'[y] = "startWait" /\ Current.waiting' = {y}
      <4>1. PICK y \in Processes : pc[y] = "startWait" /\ Current.waiting = {y}
        BY <2>1, <3>1, <3>3, <1>4 DEF Known, Core, ThreadInv
      <4> QED BY <4>1, <1>1, <3>1, <1>4 DEF Outside
    <3> QED BY <3>1, <3>2, <3>3
  <2>2. \A p \in Players : pl'[p].state = "Started" => p = holder /\ ~NobodyBusy
    BY DEF Known, Core, ThreadInv, PlayersSame
  <2> QED BY <2>1, <2>2, <1>2, <1>3 DEF ThreadInv
<1>7. WaitInv'
  <2>1. \A y \in Processes : pc'[y] = "startWait" /\ y \in Current.waiting' =>
          Current.state' = "Stopped" /\ Current.waiting' = {y}
    BY <1>1, <1>4, <1>5 DEF Known, Core, WaitInv, Outside
  <2>2. \A c \in Callers :
       /\ pc'[c] = "startWait" => pc'[Executor] = "idle"
       /\ pc'[Executor] = "start" => pc'[c] \notin {"startWait", "stopWait", "stopJoin"}
    BY <1>1, AndroidAssumption DEF Known, Core, WaitInv, Outside, Processes
  <2>3. \A y \in Processes : Notified(y)' => Notified(y) /\ holder # 0
    BY <1>1, <1>4, <1>5 DEF Notified, Outside
  <2>4. pc'[Executor] \in {"swap", "start"} => NobodyBusy
    BY <1>1, AndroidAssumption DEF Known, Core, WaitInv, Outside, Processes
  <2>5. \A y \in Processes : Notified(y)' =>
          NobodyBusy' /\ Current.playThread' # 0 /\ \A z \in Processes : Notified(z)' => z = y
    BY <2>3, <1>3, <1>4 DEF Known, Core, WaitInv
  <2> QED BY <2>1, <2>2, <2>4, <2>5, <1>3 DEF WaitInv
<1>8. StatusInv'
  <2>1. holder # 0 => Stopping' = Stopping
    BY <1>1, <1>4 DEF Stopping, Known, GuardInv, Outside
  <2>2. \A y \in Processes : Notified(y) => Notified(y)'
    BY <1>1, <1>4, <1>5 DEF Notified, Outside
  <2>3. \A t \in Threads : Busy(t) => holder # 0
    BY DEF Known, Core, ThreadInv
  <2>4. ~late' /\ (status' # 0 => th'[status'].pc \in {"toldStop"} \cup (Playful \ {"told"}) \cup Ending)
    BY DEF Known, Core, StatusInv
  <2>5. ASSUME NEW t \in Threads, Busy(t)
        PROVE  /\ th[t].pc # "told" /\ Current.state' = "Started" =>
                    status = t \/ (status = 0 /\ crossed)
               /\ th[t].why = "stopped" => Stopping'
    BY <2>1, <2>3, <2>5, <1>4 DEF Known, Core, StatusInv
  <2>6. ASSUME NEW t \in Threads, th[t].pc \in {"onStart", "told", "loop", "exchange"}, th[t].why = "none"
        PROVE  Current.active' \/ Stopping'
    <3>1. Busy(t)
      BY <2>6 DEF Busy
    <3> QED BY <3>1, <2>1, <2>3, <2>6, <1>4 DEF Known, Core, StatusInv
  <2>7. ASSUME NEW t \in Threads, th[t].pc = "toldStop", th[t].why = "stopped"
        PROVE  /\ status \in {0, t} /\ Current.playThread' = t
               /\ \E y \in Processes : Notified(y)'
    <3>1. status \in {0, t} /\ Current.playThread = t /\ \E y \in Processes : Notified(y)
      BY <2>7 DEF Known, Core, StatusInv
    <3>2. holder # 0
      BY <3>1, <1>5 DEF Notified
    <3> QED BY <3>1, <3>2, <2>2, <1>4
  <2>8. \A t \in Threads :
          th[t].pc \in {"finish", "finishNext", "deactivate", "toldStop"} \cup Ending => th[t].why # "none"
    BY DEF Known, Core, StatusInv
  <2> QED BY <2>4, <2>5, <2>6, <2>7, <2>8, <1>2 DEF StatusInv
<1> QED BY <1>6, <1>7, <1>8 DEF Core

(* Nobody is in a call of the player while the executor changes the item   *)
(* in the monitor of the service.                                          *)
LEMMA SwapCore ==
  ASSUME Known, Swap
  PROVE  Core'
<1>1. \A x \in Processes : pc[x] \notin {"start", "startWait", "stop", "stopWait", "stopJoin"}
  BY AndroidAssumption DEF Known, ServiceInv, Swap, Processes
<1>2. pc' = [pc EXCEPT ![Executor] = "start"] /\ Executor \in Processes
  BY DEF Swap, Processes
<1>3. \A x \in Processes : pc'[x] \notin {"startWait", "stop", "stopWait", "stopJoin"}
  BY <1>1, <1>2 DEF Known, TypeOK
<1>4. UNCHANGED <<pl, th, status, late, crossed>>
  BY DEF Swap, historyVars
<1>5. NobodyBusy /\ NobodyBusy'
  BY <1>4 DEF Known, Core, WaitInv, Swap, NobodyBusy, Busy
<1>6. ThreadInv'
  BY <1>4, <1>5 DEF Known, Core, ThreadInv, NobodyBusy
<1>7. WaitInv'
  BY <1>3, <1>5 DEF WaitInv, Notified, Processes
<1>8. StatusInv'
  <2>1. \A t \in Threads : ~(th[t].pc = "toldStop" /\ th[t].why = "stopped")
    BY <1>1 DEF Known, Core, StatusInv, Notified
  <2>2. \A t \in Threads : ~Busy(t)' /\ th[t].pc \notin {"onStart", "told", "loop", "exchange"}
    BY <1>4, <1>5 DEF NobodyBusy, Busy
  <2> QED BY <1>4, <2>1, <2>2 DEF Known, Core, StatusInv
<1> QED BY <1>6, <1>7, <1>8 DEF Core

(* A play that has not raced finds no other call, and no thread.           *)
LEMMA SpawnAlone ==
  ASSUME Known, NEW x \in Processes, pc[x] = "start", Current.state = "Stopped",
         x # Executor => pc[Executor] = "idle"
  PROVE  /\ NobodyBusy /\ Current.waiting = {}
         /\ \A y \in Processes : pc[y] \notin {"startWait", "stopWait", "stopJoin"}
<1>1. \A y \in Processes : pc[y] \notin {"startWait", "stopWait", "stopJoin"}
  <2>1. CASE x = Executor
    BY <2>1 DEF Known, Core, WaitInv, Processes
  <2>2. CASE x # Executor
    <3>1. monitor = x
      BY <2>2 DEF Known, ServiceInv, Processes
    <3>2. \A c \in Callers : c # x => pc[c] \in {"idle", "play", "stopCall", "next"}
      BY <3>1 DEF Known, ServiceInv
    <3> QED BY <2>2, <3>2 DEF Processes
  <2> QED BY <2>1, <2>2
<1>2. Current.waiting = {}
  <2>1. holder \in Players
    BY CallsHolder DEF Known
  <2> QED BY <1>1, <2>1 DEF Known, GuardInv, Current
<1>3. NobodyBusy
  BY <1>1 DEF Known, Core, ThreadInv, NobodyBusy
<1> QED BY <1>1, <1>2, <1>3

(* Then it makes the only one.                                             *)
LEMMA SpawnCore ==
  ASSUME Known, NEW x \in Processes, pc[x] = "start", Current.state = "Stopped",
         x # Executor => pc[Executor] = "idle",
         Spawn(x, on[x]), UNCHANGED <<holder, status, late, crossed>>
  PROVE  Core'
<1>a. /\ NobodyBusy /\ Current.waiting = {}
      /\ \A y \in Processes : pc[y] \notin {"startWait", "stopWait", "stopJoin"}
  BY SpawnAlone
<1>b. pc'[x] = "startWait" /\ \A y \in Processes \ {x} : pc'[y] = pc[y]
  BY DEF Known, TypeOK, Spawn, Stay
<1>c. holder \in Players /\ holder # 0
  BY CallsHolder, Ranges DEF Known
<1>1. PICK t \in Threads :
        /\ th[t].pc = "none"
        /\ th'[t].pc = "consume" /\ th'[t].player = holder /\ th'[t].why = "none"
        /\ \A u \in Threads \ {t} : th'[u] = th[u]
        /\ Became(Current.state, Current.guard, Current.waiting \cup {x}, t, Current.active)
  BY SpawnDoes DEF Known
<1>2. /\ \A q \in Players \ {holder} : pl'[q] = pl[q]
      /\ Current'.state = "Stopped" /\ Current'.waiting = {x} /\ Current'.playThread = t
  BY <1>1, <1>a DEF Became, PlayerBecomes, Current
<1>3. \A u \in Threads : Busy(u)' => u = t
  BY <1>1, <1>a DEF NobodyBusy, Busy
<1>4. ThreadInv'
  <2>1. th'[t].pc \notin Playful
    BY <1>1 DEF Playful
  <2>2. \A p \in Players : pl'[p].state # "Started"
    BY <1>2, <1>a DEF Known, Core, ThreadInv, Current
  <2> QED BY <1>b, <1>c, <1>1, <1>2, <1>3, <2>1, <2>2 DEF ThreadInv
<1>5. WaitInv'
  <2>1. \A y \in Processes : ~Notified(y)'
    BY <1>a, <1>b, <1>2 DEF Notified
  <2>2. \A c \in Callers :
       /\ pc'[c] = "startWait" => pc'[Executor] = "idle"
       /\ pc'[Executor] = "start" => pc'[c] \notin {"startWait", "stopWait", "stopJoin"}
    BY <1>a, <1>b, AndroidAssumption DEF Processes
  <2>3. pc'[Executor] \notin {"swap", "start"}
    BY <1>b DEF Processes
  <2> QED BY <1>2, <2>1, <2>2, <2>3 DEF WaitInv
<1>6. StatusInv'
  <2>1. \A u \in Threads : u # t => ~(th[u].pc = "toldStop" /\ th[u].why = "stopped")
    BY <1>a DEF Known, Core, StatusInv, Notified
  <2>2. status # 0 => status \in Threads
    BY DEF Known, TypeOK, Threads
  <2>3. status # 0 => status # t /\ th'[status] = th[status]
    BY <1>1, <2>2 DEF Known, Core, StatusInv, Playful, Ending
  <2>4. \A u \in Threads \ {t} : ~Busy(u)' /\ th'[u].pc \notin {"onStart", "told", "loop", "exchange"}
    BY <1>3 DEF Busy
  <2>5. th'[t].pc \notin {"finish", "finishNext", "deactivate", "toldStop"} \cup Ending
    BY <1>1 DEF Ending
  <2> QED BY <1>1, <1>2, <2>1, <2>3, <2>4, <2>5 DEF Known, Core, StatusInv
<1> QED BY <1>4, <1>5, <1>6 DEF Core

(* What a part of a call leaves alone.                                     *)
CallKeeps(x, v) ==
  /\ th' = th /\ UNCHANGED <<holder, status, late, crossed>>
  /\ pc' = [pc EXCEPT ![x] = v]

(* While somebody stops a player that is Started its thread goes on.       *)
LEMMA StopCore ==
  ASSUME Known, NEW x \in Processes, pc[x] = "stop", Current.state = "Started", CallKeeps(x, "stopWait"),
         Became("Started", Current.guard, Current.waiting \cup {x}, Current.playThread, FALSE)
  PROVE  Core'
<1>a. holder \in Players /\ holder # 0
  BY CallsHolder, Ranges DEF Known
<1>b. pc'[x] = "stopWait" /\ \A y \in Processes \ {x} : pc'[y] = pc[y]
  BY DEF Known, TypeOK, CallKeeps
<1>c. /\ \A q \in Players \ {holder} : pl'[q] = pl[q]
      /\ Current'.state = "Started" /\ Current'.waiting = Current.waiting \cup {x}
      /\ Current'.playThread = Current.playThread
  BY DEF Became, PlayerBecomes, Current, CallKeeps
<1>d. ~NobodyBusy /\ \A t \in Threads : Busy(t)' = Busy(t)
  BY <1>a DEF Known, Core, ThreadInv, Current, Busy, CallKeeps
<1>e. /\ \A y \in Processes : ~Notified(y)
      /\ pc[Executor] \notin {"swap", "start"}
  BY <1>d DEF Known, Core, WaitInv
<1>1. ThreadInv'
  <2>1. \A p \in Players : pl'[p].state = "Started" => p = holder
    BY <1>c DEF Known, Core, ThreadInv
  <2>2. ~NobodyBusy'
    BY <1>d DEF NobodyBusy
  <2> QED BY <1>c, <1>d, <2>1, <2>2 DEF Known, Core, ThreadInv, CallKeeps
<1>2. WaitInv'
  <2>1. \A y \in Processes : ~Notified(y)'
    BY <1>b, <1>c, <1>e DEF Notified
  <2>2. pc'[Executor] \notin {"swap", "start"}
    BY <1>b, <1>e DEF Processes
  <2>3. \A y \in Processes : ~(pc'[y] = "startWait" /\ y \in Current.waiting')
    BY <1>b, <1>c DEF Known, Core, WaitInv
  <2>4. \A c \in Callers : pc'[c] = "startWait" => pc'[Executor] = "idle"
    BY <1>b, AndroidAssumption DEF Known, Core, WaitInv, Processes
  <2> QED BY <2>1, <2>2, <2>3, <2>4 DEF WaitInv
<1>3. StatusInv'
  <2>1. Stopping'
    BY <1>b, <1>c DEF Stopping
  <2>2. \A t \in Threads : ~(th[t].pc = "toldStop" /\ th[t].why = "stopped")
    BY <1>e DEF Known, Core, StatusInv
  <2> QED BY <1>d, <2>1, <2>2 DEF Known, Core, StatusInv, CallKeeps
<1> QED BY <1>1, <1>2, <1>3 DEF Core

(* Who is woken takes the monitor and joins the thread, which has told     *)
(* that it ended.                                                          *)
LEMMA WokenCore ==
  ASSUME Known, NEW x \in Processes, pc[x] = "stopWait", x \notin Current.waiting,
         CallKeeps(x, "stopJoin"),
         Became(Current.state, x, Current.waiting, Current.playThread, Current.active)
  PROVE  Core'
<1>a. holder \in Players /\ holder # 0
  BY CallsHolder, Ranges DEF Known
<1>b. pc'[x] = "stopJoin" /\ \A y \in Processes \ {x} : pc'[y] = pc[y]
  BY DEF Known, TypeOK, CallKeeps
<1>c. /\ \A q \in Players \ {holder} : pl'[q] = pl[q]
      /\ Current'.state = Current.state /\ Current'.waiting = Current.waiting
      /\ Current'.playThread = Current.playThread
  BY DEF Became, PlayerBecomes, Current, CallKeeps
<1>d. Notified(x)
  BY DEF Notified
<1>e. \A y \in Processes : Notified(y)' = Notified(y)
  BY <1>b, <1>c DEF Notified
<1>f. NobodyBusy /\ NobodyBusy' /\ Current.playThread # 0 /\ \A y \in Processes : Notified(y) => y = x
  BY <1>d DEF Known, Core, WaitInv, NobodyBusy, Busy, CallKeeps
<1>1. ThreadInv'
  <2>0. \A p \in Players : pl[p].state # "Started"
    BY <1>f DEF Known, Core, ThreadInv
  <2>1. \A p \in Players : pl'[p].state # "Started"
    BY <1>a, <1>c, <2>0 DEF Current, CallKeeps
  <2> QED BY <1>f, <2>1 DEF ThreadInv, NobodyBusy
<1>2. WaitInv'
  <2>1. \A y \in Processes : pc'[y] = "startWait" /\ y \in Current.waiting' =>
          Current'.state = "Stopped" /\ Current'.waiting = {y}
    BY <1>b, <1>c DEF Known, Core, WaitInv
  <2>2. \A c \in Callers :
       /\ pc'[c] = "startWait" => pc'[Executor] = "idle"
       /\ pc'[Executor] = "start" => pc'[c] \notin {"startWait", "stopWait", "stopJoin"}
    BY <1>b, AndroidAssumption DEF Known, Core, WaitInv, Processes
  <2> QED BY <1>c, <1>e, <1>f, <2>1, <2>2 DEF WaitInv
<1>3. StatusInv'
  <2>1. \A t \in Threads : ~Busy(t)' /\ th'[t].pc \notin {"onStart", "told", "loop", "exchange"}
    BY <1>f DEF NobodyBusy, Busy
  <2> QED BY <1>c, <1>e, <2>1 DEF Known, Core, StatusInv, CallKeeps
<1> QED BY <1>1, <1>2, <1>3 DEF Core

(* Then there is nobody else who could join it.                            *)
LEMMA JoinCore ==
  ASSUME Known, NEW x \in Processes, pc[x] = "stopJoin",
         th[Current.playThread].pc = "dead", NEW v \in {"idle", "swap"}, CallKeeps(x, v),
         x # Executor => v = "idle", x = Executor => v = "swap",
         Became(Current.state, Nobody, Current.waiting, 0, Current.active)
  PROVE  Core'
<1>a. holder \in Players /\ holder # 0
  BY CallsHolder, Ranges DEF Known
<1>b. pc'[x] = v /\ \A y \in Processes \ {x} : pc'[y] = pc[y]
  BY DEF Known, TypeOK, CallKeeps
<1>c. /\ \A q \in Players \ {holder} : pl'[q] = pl[q]
      /\ Current'.state = Current.state /\ Current'.waiting = Current.waiting
  BY DEF Became, PlayerBecomes, Current, CallKeeps
<1>d. Notified(x)
  BY DEF Notified
<1>e. NobodyBusy /\ NobodyBusy' /\ \A y \in Processes : Notified(y) => y = x
  BY <1>d DEF Known, Core, WaitInv, NobodyBusy, Busy, CallKeeps
<1>f. \A y \in Processes : ~Notified(y)'
  BY <1>b, <1>c, <1>e DEF Notified
<1>1. ThreadInv'
  <2>0. \A p \in Players : pl[p].state # "Started"
    BY <1>e DEF Known, Core, ThreadInv
  <2>1. \A p \in Players : pl'[p].state # "Started"
    BY <1>a, <1>c, <2>0 DEF Current, CallKeeps
  <2> QED BY <1>e, <2>1 DEF ThreadInv, NobodyBusy
<1>2. WaitInv'
  <2>1. \A y \in Processes : pc'[y] = "startWait" /\ y \in Current.waiting' =>
          Current'.state = "Stopped" /\ Current'.waiting = {y}
    BY <1>b, <1>c DEF Known, Core, WaitInv
  <2>2. \A c \in Callers :
       /\ pc'[c] = "startWait" => pc'[Executor] = "idle"
       /\ pc'[Executor] = "start" => pc'[c] \notin {"startWait", "stopWait", "stopJoin"}
    BY <1>b, AndroidAssumption DEF Known, Core, WaitInv, Processes
  <2> QED BY <1>e, <1>f, <2>1, <2>2 DEF WaitInv
<1>3. StatusInv'
  <2>1. \A t \in Threads : ~Busy(t)' /\ th'[t].pc \notin {"onStart", "told", "loop", "exchange"}
    BY <1>e DEF NobodyBusy, Busy
  <2>2. \A t \in Threads : ~(th[t].pc = "toldStop" /\ th[t].why = "stopped")
    BY DEF Known, Core, StatusInv
  <2> QED BY <2>1, <2>2 DEF Known, Core, StatusInv, CallKeeps
<1> QED BY <1>1, <1>2, <1>3 DEF Core

(* While a thread plays, nobody was told of an end.                        *)
LEMMA BusyFacts ==
  ASSUME Known, NEW t \in Threads, Busy(t)
  PROVE  /\ th[t].player = holder /\ holder \in Players /\ holder # 0 /\ Current.playThread = t
         /\ \A u \in Threads : Busy(u) => u = t
         /\ \A x \in Processes : ~Notified(x)
         /\ pc[Executor] \notin {"swap", "start"}
         /\ \A u \in Threads : ~(th[u].pc = "toldStop" /\ th[u].why = "stopped")
<1>1. th[t].player = holder /\ holder # 0 /\ Current.playThread = t
  BY DEF Known, Core, ThreadInv
<1>2. \A u \in Threads : Busy(u) => u = t
  BY <1>1 DEF Known, Core, ThreadInv
<1>3. ~NobodyBusy
  BY DEF NobodyBusy
<1>4. (\A x \in Processes : ~Notified(x)) /\ pc[Executor] \notin {"swap", "start"}
  BY <1>3 DEF Known, Core, WaitInv
<1>5. \A u \in Threads : ~(th[u].pc = "toldStop" /\ th[u].why = "stopped")
  BY <1>4 DEF Known, Core, StatusInv
<1> QED BY <1>1, <1>2, <1>4, <1>5, Ranges DEF Known

(* The places of a thread.                                                 *)
LEMMA Places ==
  ASSUME TypeOK, NEW t \in Threads
  PROVE  /\ th[t].pc \in ThreadPcs /\ th[t].why \in {"none", "itself", "stopped"}
         /\ Busy(t) <=> th[t].pc \in Early \cup Playful \cup Ending
<1>1. th[t].pc \in ThreadPcs /\ th[t].why \in {"none", "itself", "stopped"}
  BY DEF TypeOK, ThreadStates, ThreadPcs
<1> QED BY <1>1 DEF ThreadPcs, Early, Playful, Ending, Busy

(* What a step of a thread leaves alone.                                   *)
RunKeeps == UNCHANGED <<holder, pc, on>>

(* A thread that plays goes on, from a place to one that is as good.       *)
LEMMA BusyStep ==
  ASSUME Known, RunKeeps, NEW t \in Threads, Busy(t),
         NEW v \in Early \cup Playful \cup Ending, NEW w, ThreadBecomes(t, v, w), NEW b,
         Became(Current.state, Current.guard, Current.waiting, Current.playThread, b),
         v \in Early => th[t].pc \in Early, v \in Playful => th[t].pc \in Playful,
         UNCHANGED <<late, crossed>>,
         v # "told", (status' = t /\ v \in Playful) \/ (status' = status /\ th[t].pc # "told"),
         v \in {"finish", "finishNext", "deactivate"} \cup Ending => w # "none",
         w = "stopped" => Stopping,
         v \in {"onStart", "told", "loop", "exchange"} /\ w = "none" => b \/ Stopping
  PROVE  Core'
<1>a. /\ th[t].player = holder /\ holder \in Players /\ holder # 0 /\ Current.playThread = t
      /\ \A u \in Threads : Busy(u) => u = t
      /\ \A x \in Processes : ~Notified(x)
      /\ pc[Executor] \notin {"swap", "start"}
      /\ \A u \in Threads : ~(th[u].pc = "toldStop" /\ th[u].why = "stopped")
  BY BusyFacts
<1>b. /\ \A u \in Threads \ {t} : th'[u] = th[u]
      /\ th'[t].pc = v /\ th'[t].why = w /\ th'[t].player = holder
  BY <1>a DEF ThreadBecomes
<1>c. /\ \A q \in Players \ {holder} : pl'[q] = pl[q]
      /\ Current'.state = Current.state /\ Current'.waiting = Current.waiting
      /\ Current'.playThread = t /\ Current'.active = b
  BY <1>a DEF Became, PlayerBecomes, Current, RunKeeps
<1>d. Busy(t)' /\ \A u \in Threads : Busy(u)' => u = t
  BY <1>a, <1>b DEF Busy, Early, Playful, Ending
<1>e. \A x \in Processes : ~Notified(x)'
  BY <1>a, <1>c DEF Notified, RunKeeps
<1>f. Stopping' = Stopping
  BY <1>c DEF Stopping, RunKeeps
<1>1. ThreadInv'
  <2>1. /\ v \in Early => Current.state = "Stopped"
        /\ v \in Playful => Current.state = "Started"
        /\ Current.state = "Stopped" => \E x \in Processes : pc[x] = "startWait" /\ Current.waiting = {x}
    BY DEF Known, Core, ThreadInv
  <2>2. ~NobodyBusy'
    BY <1>d DEF NobodyBusy
  <2>3. \A p \in Players : pl[p].state = "Started" => p = holder
    BY DEF Known, Core, ThreadInv
  <2>4. \A p \in Players : pl'[p].state = "Started" => p = holder
    BY <1>c, <2>3
  <2> QED BY <1>a, <1>b, <1>c, <1>d, <2>1, <2>2, <2>4 DEF ThreadInv, RunKeeps
<1>2. WaitInv'
  BY <1>a, <1>c, <1>e DEF Known, Core, WaitInv, RunKeeps
<1>3. StatusInv'
  <2>1. status' # 0 => th'[status'].pc \in {"toldStop"} \cup (Playful \ {"told"}) \cup Ending
    <3>1. CASE status' = t
      <4>1. v \notin Early
        <5>1. CASE v \in Playful
          BY <5>1 DEF Early, Playful
        <5>2. CASE status = t
          <6>1. th[t].pc \in {"toldStop"} \cup (Playful \ {"told"}) \cup Ending
            BY <5>2 DEF Known, Core, StatusInv, Threads
          <6> QED BY <6>1 DEF Early, Playful, Ending
        <5> QED BY <3>1, <5>1, <5>2
      <4> QED BY <3>1, <4>1, <1>b
    <3>2. CASE status' # t
      <4>1. status' = status /\ (status # 0 => status \in Threads)
        BY <3>2 DEF Known, TypeOK, Threads
      <4> QED BY <3>2, <4>1, <1>b DEF Known, Core, StatusInv
    <3> QED BY <3>1, <3>2
  <2>2. v # "told" /\ Current.state = "Started" => status' = t \/ (status' = 0 /\ crossed)
    BY DEF Known, Core, StatusInv
  <2>3. \A u \in Threads \ {t} : ~Busy(u)' /\ th'[u].pc \notin {"onStart", "told", "loop", "exchange"}
    BY <1>d DEF Busy
  <2>4. v # "toldStop"
    BY DEF Early, Playful, Ending
  <2> QED BY <1>a, <1>b, <1>c, <1>f, <2>1, <2>2, <2>3, <2>4 DEF Known, Core, StatusInv
<1> QED BY <1>1, <1>2, <1>3 DEF Core

(* In particular it goes on with the loop.                                 *)
LEMMA LoopStep ==
  ASSUME Known, RunKeeps, NEW t \in Threads, th[t].pc \in Playful \ {"told"},
         NEW v \in {"loop", "exchange"}, NEW w, ThreadBecomes(t, v, w), NEW b,
         Became(Current.state, Current.guard, Current.waiting, Current.playThread, b),
         UNCHANGED <<status, late, crossed>>, w = "stopped" => Stopping, w = "none" => b \/ Stopping
  PROVE  Core'
<1>1. Busy(t) /\ th[t].pc \in Playful /\ th[t].pc # "told"
  BY DEF Busy, Playful
<1>2. /\ v \in Early \cup Playful \cup Ending /\ v # "told" /\ v \in Playful
      /\ v \notin Early /\ v \notin {"finish", "finishNext", "deactivate"} \cup Ending
  BY DEF Early, Playful, Ending
<1> QED BY <1>1, <1>2, BusyStep

(* The start is told to the process that waits for it.                     *)
LEMMA SetStartedCore ==
  ASSUME Known, RunKeeps, NEW t \in Threads, th[t].pc = "onStart", ThreadBecomes(t, "told", th[t].why),
         UNCHANGED <<status, late, crossed>>,
         NEW W \in SUBSET Current.waiting,
         Current.waiting = {} \/ \E x \in Current.waiting : W = Current.waiting \ {x},
         Became("Started", Current.guard, W, Current.playThread, Current.active)
  PROVE  Core'
<1>0. Busy(t)
  BY DEF Busy
<1>a. /\ th[t].player = holder /\ holder \in Players /\ holder # 0 /\ Current.playThread = t
      /\ \A u \in Threads : Busy(u) => u = t
      /\ \A x \in Processes : ~Notified(x)
      /\ pc[Executor] \notin {"swap", "start"}
      /\ \A u \in Threads : ~(th[u].pc = "toldStop" /\ th[u].why = "stopped")
  BY <1>0, BusyFacts
<1>b. /\ \A u \in Threads \ {t} : th'[u] = th[u]
      /\ th'[t].pc = "told" /\ th'[t].why = th[t].why /\ th'[t].player = holder
  BY <1>a DEF ThreadBecomes
<1>c. /\ \A q \in Players \ {holder} : pl'[q] = pl[q]
      /\ Current'.state = "Started" /\ Current'.waiting = W
      /\ Current'.playThread = t /\ Current'.active = Current.active
  BY <1>a DEF Became, PlayerBecomes, Current, RunKeeps
<1>d. Busy(t)' /\ \A u \in Threads : Busy(u)' => u = t
  BY <1>a, <1>b DEF Busy
<1>e. PICK y \in Processes : pc[y] = "startWait" /\ Current.waiting = {y}
  BY <1>0 DEF Known, Core, ThreadInv, Early
<1>f. W = {} /\ ~Stopping
  BY <1>e DEF Stopping
<1>g. \A x \in Processes : pc[x] \notin {"stopWait", "stopJoin"}
  BY <1>a, <1>e DEF Notified
<1>1. ThreadInv'
  <2>1. ~NobodyBusy'
    BY <1>d DEF NobodyBusy
  <2>2. \A p \in Players : pl[p].state = "Started" => p = holder
    BY DEF Known, Core, ThreadInv
  <2>3. \A p \in Players : pl'[p].state = "Started" => p = holder
    BY <1>c, <2>2
  <2>4. "told" \notin Early
    BY DEF Early
  <2> QED BY <1>a, <1>b, <1>c, <1>d, <2>1, <2>3, <2>4 DEF ThreadInv, RunKeeps
<1>2. WaitInv'
  BY <1>a, <1>c, <1>f, <1>g DEF Known, Core, WaitInv, Notified, RunKeeps
<1>3. StatusInv'
  <2>1. th[t].why # "stopped" /\ (th[t].why = "none" => Current.active)
    BY <1>0, <1>f DEF Known, Core, StatusInv
  <2>2. status # 0 => status \in Threads \ {t}
    BY DEF Known, TypeOK, Threads, Core, StatusInv, Playful, Ending
  <2>3. \A u \in Threads \ {t} : ~Busy(u)' /\ th'[u].pc \notin {"onStart", "told", "loop", "exchange"}
    BY <1>d DEF Busy
  <2>4. th'[t].pc \notin {"finish", "finishNext", "deactivate", "toldStop"} \cup Ending
    BY <1>b DEF Ending
  <2> QED BY <1>a, <1>b, <1>c, <2>1, <2>2, <2>3, <2>4 DEF Known, Core, StatusInv
<1> QED BY <1>1, <1>2, <1>3 DEF Core

(* The end is told to one process that waits: for the start, if there was  *)
(* none, or for the end.                                                   *)
LEMMA SetStoppedCore ==
  ASSUME Known, RunKeeps, NEW t \in Threads, th[t].pc = "onStop",
         ThreadBecomes(t, "toldStop", th[t].why), UNCHANGED <<status, late, crossed>>,
         NEW W \in SUBSET Current.waiting,
         \/ W = {} /\ Current.waiting = {}
         \/ \E x \in Current.waiting : W = Current.waiting \ {x},
         Became("Stopped", Current.guard, W, Current.playThread, Current.active)
  PROVE  Core'
<1>0. Busy(t)
  BY DEF Busy
<1>a. /\ th[t].player = holder /\ holder \in Players /\ holder # 0 /\ Current.playThread = t
      /\ \A u \in Threads : Busy(u) => u = t
      /\ \A x \in Processes : ~Notified(x)
      /\ pc[Executor] \notin {"swap", "start"}
      /\ \A u \in Threads : ~(th[u].pc = "toldStop" /\ th[u].why = "stopped")
  BY <1>0, BusyFacts
<1>b. /\ \A u \in Threads \ {t} : th'[u] = th[u]
      /\ th'[t].pc = "toldStop" /\ th'[t].why = th[t].why
  BY DEF ThreadBecomes
<1>c. /\ \A q \in Players \ {holder} : pl'[q] = pl[q]
      /\ Current'.state = "Stopped" /\ Current'.waiting = W /\ Current'.playThread = t
  BY <1>a DEF Became, PlayerBecomes, Current, RunKeeps
<1>d. NobodyBusy' /\ t # 0
  BY <1>a, <1>b, Ranges DEF NobodyBusy, Busy, Known
<1>e. Current.state \in {"Stopped", "Started"} /\ \A x \in Current.waiting :
        x \in Processes /\ pc[x] \in {"startWait", "stopWait"}
  BY <1>a DEF Known, TypeOK, PlayerStates, GuardInv, Current
<1>f. Current.state = "Stopped" => W = {} /\ ~Stopping
  BY <1>0 DEF Known, Core, ThreadInv, Stopping
<1>g. Current.state = "Started" => \A x \in Current.waiting : pc[x] = "stopWait"
  BY <1>e DEF Known, Core, WaitInv
<1>h. /\ \A x, y \in Processes : Notified(x)' /\ Notified(y)' => x = y
      /\ \A x \in Processes : pc[x] # "stopJoin" /\ (pc[x] = "stopWait" => x \in Current.waiting)
  BY <1>a, <1>c DEF Notified, RunKeeps
<1>1. ThreadInv'
  <2>1. \A p \in Players : pl[p].state = "Started" => p = holder
    BY DEF Known, Core, ThreadInv
  <2>2. \A p \in Players : pl'[p].state # "Started"
    BY <1>a, <1>c, <2>1 DEF Current, RunKeeps
  <2> QED BY <1>d, <2>2 DEF ThreadInv, NobodyBusy
<1>2. WaitInv'
  <2>1. \A x \in Processes : ~(pc[x] = "startWait" /\ x \in W)
    BY <1>e, <1>f, <1>g
  <2> QED BY <1>a, <1>c, <1>d, <1>h, <2>1 DEF Known, Core, WaitInv, RunKeeps
<1>3. StatusInv'
  <2>1. th[t].why # "none"
    BY DEF Known, Core, StatusInv, Ending
  <2>2. ASSUME th[t].why = "stopped"
        PROVE  status \in {0, t} /\ \E x \in Processes : Notified(x)'
    <3>1. Stopping
      BY <1>0, <2>2 DEF Known, Core, StatusInv
    <3>2. Current.state = "Started"
      BY <1>e, <1>f, <3>1
    <3>3. status \in {0, t}
      BY <1>0, <3>2 DEF Known, Core, StatusInv
    <3>4. PICK x \in Current.waiting : W = Current.waiting \ {x}
      BY <3>1 DEF Stopping
    <3>5. Notified(x)'
      BY <1>c, <1>g, <3>2, <3>4 DEF Notified, RunKeeps
    <3> QED BY <1>e, <3>3, <3>4, <3>5
  <2>3. \A u \in Threads : ~Busy(u)' /\ th'[u].pc \notin {"onStart", "told", "loop", "exchange"}
    BY <1>d DEF NobodyBusy, Busy
  <2>4. status # 0 => th'[status].pc \in {"toldStop"} \cup (Playful \ {"told"}) \cup Ending
    <3>1. status # 0 => status \in Threads
      BY DEF Known, TypeOK, Threads
    <3> QED BY <1>b, <3>1 DEF Known, Core, StatusInv
  <2> QED BY <1>a, <1>b, <1>c, <2>1, <2>2, <2>3, <2>4 DEF Known, Core, StatusInv
<1> QED BY <1>1, <1>2, <1>3 DEF Core

(* The last thing a thread does is to tell the clients.  If it was stopped *)
(* nothing has been started since.                                         *)
LEMMA OnStopCore ==
  ASSUME Known, RunKeeps, NEW t \in Threads, OnStop(t)
  PROVE  Core'
<1>a. /\ \A u \in Threads \ {t} : th'[u] = th[u]
      /\ th[t].pc = "toldStop" /\ th'[t].pc = "dead"
  BY TypeParts, ThreadUpdates DEF Known, OnStop, Go, ThreadBecomes
<1>b. UNCHANGED <<pl, Current>> /\ status' = 0 /\ status \in 0 .. MaxThreads
  BY DEF OnStop, Current, RunKeeps, Known, TypeOK
<1>c. \A u \in Threads : Busy(u)' = Busy(u) /\ (Busy(u) => u # t /\ th'[u] = th[u])
  BY <1>a DEF Busy
<1>d. /\ NobodyBusy' = NobodyBusy /\ Stopping' = Stopping
      /\ \A x \in Processes : Notified(x)' = Notified(x)
  BY <1>b, <1>c DEF NobodyBusy, Stopping, Notified, RunKeeps
<1>1. ThreadInv'
  BY <1>b, <1>c, <1>d DEF Known, Core, ThreadInv, RunKeeps
<1>2. WaitInv'
  BY <1>b, <1>d DEF Known, Core, WaitInv, RunKeeps
<1>3. StatusInv'
  <2>1. th[t].why = "stopped" => status \in {0, t}
    BY <1>a DEF Known, Core, StatusInv
  <2>2. ~late'
    BY <2>1 DEF OnStop, Known, Core, StatusInv
  <2>3. ASSUME NEW u \in Threads, Busy(u), th[u].pc # "told", Current.state = "Started"
        PROVE  crossed'
    <3>1. status = u \/ (status = 0 /\ crossed)
      BY <2>3 DEF Known, Core, StatusInv
    <3>2. th[t].why = "itself" /\ u # t
      <4>1. th[t].why # "none"
        BY <1>a DEF Known, Core, StatusInv
      <4>2. th[t].why # "stopped"
        BY <1>a, <2>3, BusyFacts
      <4> QED BY <1>c, <2>3, <4>1, <4>2, Places DEF Known
    <3> QED BY <3>1, <3>2, Ranges DEF OnStop, Known
  <2>4. th'[t].pc \notin {"finish", "finishNext", "deactivate", "toldStop", "onStart", "told", "loop",
                          "exchange"} \cup Ending
    BY <1>a DEF Ending
  <2> QED BY <1>a, <1>b, <1>c, <1>d, <2>2, <2>3, <2>4 DEF Known, Core, StatusInv
<1> QED BY <1>1, <1>2, <1>3 DEF Core

(* What is known does not speak of the consumers.                          *)
LEMMA SameCore ==
  ASSUME Known, UNCHANGED <<pl, pc, on, holder, status, late, crossed>>,
         \A u \in Threads : th'[u].pc = th[u].pc /\ th'[u].why = th[u].why /\ th'[u].player = th[u].player
  PROVE  Core'
<1>1. /\ \A u \in Threads : Busy(u)' = Busy(u)
      /\ Current' = Current /\ Stopping' = Stopping /\ \A x \in Processes : Notified(x)' = Notified(x)
  BY DEF Busy, Current, Stopping, Notified
<1>2. NobodyBusy' = NobodyBusy
  BY <1>1 DEF NobodyBusy
<1>3. ThreadInv'
  BY <1>1, <1>2 DEF Known, Core, ThreadInv
<1>4. WaitInv'
  BY <1>1, <1>2 DEF Known, Core, WaitInv
<1>5. StatusInv'
  <2>1. status # 0 => status \in Threads
    BY DEF Known, TypeOK, Threads
  <2> QED BY <1>1, <2>1 DEF Known, Core, StatusInv
<1> QED BY <1>3, <1>4, <1>5 DEF Core

(* Every step of a thread keeps what is known.                             *)
LEMMA ThreadCore ==
  ASSUME Known, NEW t \in Threads, ThreadStep(t)
  PROVE  Core'
<1>a. RunKeeps
  BY DEF ThreadStep, RunKeeps
<1>b. ThreadsTyped(th) /\ PlayersTyped(pl) /\ th[t].pc # "none" /\ th[t].player \in Players
  BY TypeParts, ThreadIsThere DEF Known
<1>c. Busy(t) => th[t].player = holder /\ holder \in Players
  BY BusyFacts
<1>d. pl' = pl => Became(Current.state, Current.guard, Current.waiting, Current.playThread, Current.active)
  BY DEF Became, PlayerBecomes, Current
<1>e. Busy(t) /\ th[t].why = "stopped" => Stopping
  BY DEF Known, Core, StatusInv
<1>f. Busy(t) /\ th[t].pc \in {"onStart", "told", "loop", "exchange"} /\ th[t].why = "none" =>
        Current.active \/ Stopping
  BY DEF Known, Core, StatusInv
<1>g. th[t].pc \in {"finish", "finishNext", "deactivate"} \cup Ending => th[t].why # "none"
  BY DEF Known, Core, StatusInv
<1> DEFINE From(v) == th[t].pc = v /\ Busy(t)
<1> USE DEF Early, Playful, Ending
<1>1. CASE StartConsumeThread(t)
  <2>1. From("consume") /\ ThreadBecomes(t, "initialize", th[t].why)
    BY <1>1, <1>b, ThreadUpdates DEF StartConsumeThread, Busy
  <2> QED BY <2>1, <1>1, <1>a, <1>d, <1>e, BusyStep DEF StartConsumeThread, ThreadUnchanged
<1>2. CASE Initialize(t)
  <2>1. From("initialize")
    BY <1>2 DEF Initialize, Go, Busy
  <2>2. CASE ThreadBecomes(t, "activate", th[t].why)
    BY <2>1, <2>2, <1>2, <1>a, <1>d, <1>e, BusyStep DEF Initialize, ThreadUnchanged
  <2>3. CASE ThreadBecomes(t, "end", "itself")
    BY <2>1, <2>3, <1>2, <1>a, <1>d, <1>e, BusyStep DEF Initialize, ThreadUnchanged
  <2> QED BY <2>2, <2>3, <1>2, <1>b, ThreadUpdates DEF Initialize, Go
<1>3. CASE Activate(t)
  <2>1. From("activate") /\ ThreadBecomes(t, "onStart", th[t].why)
    BY <1>3, <1>b, ThreadUpdates DEF Activate, Go, Busy
  <2>2. Became(Current.state, Current.guard, Current.waiting, Current.playThread, TRUE)
    BY <1>3, <2>1, <1>c, ThreadDoes DEF Became, Current, Known
  <2>3. UNCHANGED <<status, late, crossed>> /\ Busy(t) /\ th[t].pc \in Early /\ th[t].pc # "told"
    BY <1>3, <2>1 DEF Activate, ThreadUnchanged
  <2>4. /\ "onStart" \in Early \cup Playful \cup Ending /\ "onStart" \notin Playful /\ "onStart" # "told"
        /\ "onStart" \notin {"finish", "finishNext", "deactivate"} \cup Ending
    OBVIOUS
  <2> HIDE DEF Early, Playful, Ending
  <2> QED BY <2>1, <2>2, <2>3, <2>4, <1>a, <1>e, BusyStep
<1>4. CASE SetStarted(t)
  <2>1. From("onStart") /\ ThreadBecomes(t, "told", th[t].why)
    BY <1>4, <1>b, ThreadUpdates DEF SetStarted, SetState, Go, Busy
  <2>2. PICK W \in SUBSET Current.waiting :
          /\ Current.waiting = {} \/ \E x \in Current.waiting : W = Current.waiting \ {x}
          /\ Became("Started", Current.guard, W, Current.playThread, Current.active)
    BY <1>4, <2>1, <1>c, ThreadDoes DEF SetStarted, Became, Current, Known
  <2> QED BY <2>1, <2>2, <1>4, <1>a, SetStartedCore DEF SetStarted, SetState, ThreadUnchanged
<1>5. CASE OnStart(t)
  <2>1. From("told") /\ ThreadBecomes(t, "loop", th[t].why)
    BY <1>5, <1>b, ThreadUpdates DEF OnStart, Go, Busy
  <2> QED BY <2>1, <1>5, <1>a, <1>d, <1>e, <1>f, BusyStep DEF OnStart
<1>6. CASE GetSamples(t)
  <2>1. From("loop") /\ UNCHANGED <<pl, status, late, crossed>>
    BY <1>6 DEF GetSamples, Busy, ThreadUnchanged
  <2>2. Current.active = pl[th[t].player].active
    BY <2>1, <1>c DEF Current
  <2>3. CASE Current.active
    <3>1. ThreadBecomes(t, "exchange", "none") \/ ThreadBecomes(t, "finish", "itself")
            \/ ThreadBecomes(t, "end", "itself")
      BY <1>6, <2>2, <2>3, <1>b, ThreadUpdates DEF GetSamples
    <3>2. CASE ThreadBecomes(t, "exchange", "none")
      <4>1. Current.active = TRUE
        BY <2>1, <2>3, <1>c DEF Known, TypeOK, PlayerStates, Current
      <4>2. Became(Current.state, Current.guard, Current.waiting, Current.playThread, TRUE)
        BY <2>1, <4>1, <1>d
      <4>3. th[t].pc \in Playful \ {"told"} /\ "none" # "stopped" /\ UNCHANGED <<status, late, crossed>>
        BY <2>1
      <4> HIDE DEF Playful
      <4> QED BY <3>2, <4>2, <4>3, <1>a, LoopStep
    <3>3. CASE ThreadBecomes(t, "finish", "itself")
      BY <2>1, <3>3, <1>a, <1>d, BusyStep
    <3>4. CASE ThreadBecomes(t, "end", "itself")
      BY <2>1, <3>4, <1>a, <1>d, BusyStep
    <3> QED BY <3>1, <3>2, <3>3, <3>4
  <2>4. CASE ~Current.active
    <3>1. PICK w : w = (IF th[t].why = "none" THEN "stopped" ELSE th[t].why)
      OBVIOUS
    <3>2. ThreadBecomes(t, "end", w)
      BY <1>6, <2>2, <2>4, <3>1, <1>b, ThreadUpdates DEF GetSamples
    <3>3. w # "none" /\ (w = "stopped" => Stopping)
      BY <2>1, <2>4, <3>1, <1>e, <1>f
    <3>4. Became(Current.state, Current.guard, Current.waiting, Current.playThread, Current.active)
      BY <2>1, <1>d
    <3> QED BY <2>1, <3>2, <3>3, <3>4, <1>a, BusyStep
  <2> QED BY <2>3, <2>4
<1>7. CASE OnFinish(t)
  <2>1. UNCHANGED <<pl, status, late, crossed>>
    BY <1>7 DEF OnFinish
  <2>2. CASE Go(t, "finish", "finishNext")
    <3>1. From("finish") /\ ThreadBecomes(t, "finishNext", th[t].why)
      BY <2>2, <1>b, ThreadUpdates DEF Go, Busy
    <3> QED BY <3>1, <2>1, <1>a, <1>d, <1>e, <1>g, BusyStep
  <2>3. CASE Go(t, "finishNext", "deactivate")
    <3>1. From("finishNext") /\ ThreadBecomes(t, "deactivate", th[t].why)
      BY <2>3, <1>b, ThreadUpdates DEF Go, Busy
    <3> QED BY <3>1, <2>1, <1>a, <1>d, <1>e, <1>g, BusyStep
  <2> QED BY <2>2, <2>3, <1>7 DEF OnFinish
<1>8. CASE Deactivate(t)
  <2>1. From("deactivate") /\ ThreadBecomes(t, "loop", th[t].why)
    BY <1>8, <1>b, ThreadUpdates DEF Deactivate, Go, Busy
  <2>2. Became(Current.state, Current.guard, Current.waiting, Current.playThread, FALSE)
    BY <1>8, <2>1, <1>c, ThreadDoes DEF Became, Current, Known
  <2>3. th[t].why # "none" /\ UNCHANGED <<status, late, crossed>>
    BY <1>8, <2>1, <1>g DEF Deactivate, ThreadUnchanged
  <2> QED BY <2>1, <2>2, <2>3, <1>a, <1>e, LoopStep
<1>9. CASE Exchange(t)
  <2>1. UNCHANGED <<pl, status, late, crossed>>
    BY <1>9 DEF Exchange, ThreadUnchanged
  <2>2. CASE th[t].pc = "exchange"
    <3>1. From("exchange") /\ ThreadBecomes(t, "loop", th[t].why)
      BY <1>9, <2>2, <1>b, ThreadUpdates DEF Exchange, Busy, ThreadsTyped
    <3> QED BY <3>1, <2>1, <1>a, <1>d, <1>e, <1>f, BusyStep
  <2>3. CASE th[t].pc = "end"
    <3>1. From("end") /\ ThreadBecomes(t, "join", th[t].why)
      BY <1>9, <2>3, <1>b, ThreadUpdates DEF Exchange, Busy, ThreadsTyped
    <3> QED BY <3>1, <2>1, <1>a, <1>d, <1>e, <1>g, BusyStep
  <2> QED BY <2>2, <2>3, <1>9 DEF Exchange
<1>10. CASE WriteSamples(t)
  <2>1. ThreadBecomes(t, th[t].pc, th[t].why)
    BY <1>10, <1>b, ThreadUpdates DEF WriteSamples
  <2>2. \A u \in Threads : th'[u].pc = th[u].pc /\ th'[u].why = th[u].why /\ th'[u].player = th[u].player
    BY <2>1 DEF ThreadBecomes
  <2>3. UNCHANGED <<pl, pc, on, holder, status, late, crossed>>
    BY <1>10, <1>a DEF WriteSamples, ThreadUnchanged, RunKeeps
  <2> QED BY <2>2, <2>3, SameCore
<1>11. CASE StopConsumeThread(t)
  <2>1. From("join") /\ ThreadBecomes(t, "onStop", th[t].why)
    BY <1>11, <1>b, ThreadUpdates DEF StopConsumeThread, Go, Busy
  <2> QED BY <2>1, <1>11, <1>a, <1>d, <1>e, <1>g, BusyStep DEF StopConsumeThread, ThreadUnchanged
<1>12. CASE SetStopped(t)
  <2>1. From("onStop") /\ ThreadBecomes(t, "toldStop", th[t].why)
    BY <1>12, <1>b, ThreadUpdates DEF SetStopped, SetState, Go, Busy
  <2>2. PICK W \in SUBSET Current.waiting :
          /\ \/ W = {} /\ Current.waiting = {}
             \/ \E x \in Current.waiting : W = Current.waiting \ {x}
          /\ Became("Stopped", Current.guard, W, Current.playThread, Current.active)
    BY <1>12, <2>1, <1>c, ThreadDoes DEF SetStopped, Became, Current, Known
  <2> QED BY <2>1, <2>2, <1>12, <1>a, SetStoppedCore DEF SetStopped, SetState, ThreadUnchanged
<1>13. CASE OnStop(t)
  BY <1>13, <1>a, OnStopCore
<1> QED BY <1>1, <1>2, <1>3, <1>4, <1>5, <1>6, <1>7, <1>8, <1>9, <1>10, <1>11, <1>12, <1>13
        DEF ThreadStep

(* So does every part of a call of the player that has not raced.          *)
LEMMA CallCore ==
  ASSUME Known, NEW x \in Processes, PlayerCall(x), ~raced'
  PROVE  Core'
<1>a. UNCHANGED <<holder, old, created, commands, on, status, late, crossed, calls>>
  BY DEF PlayerCall
<1>b. pc[x] \in {"start", "startWait", "stop", "stopWait", "stopJoin"} =>
        on[x] = holder /\ holder \in Players
  BY CallsHolder DEF Known
<1>c. x \in Callers /\ pc[x] \in {"start", "startWait", "stop", "stopWait", "stopJoin"} =>
        /\ x # Executor
        /\ \A c \in Callers \ {x} : pc[c] \notin {"start", "startWait", "stop", "stopWait", "stopJoin"}
  BY AndroidAssumption DEF Known, ServiceInv
<1>d. pc[Executor] # "idle" => \A c \in Callers : pc[c] # "startWait"
  BY DEF Known, Core, WaitInv
<1>1. CASE StartPlayback(x)
  <2>1. CASE Current.state = "Stopped" /\ Spawn(x, on[x])
    <3>1. x # Executor => pc[Executor] = "idle"
      BY <2>1 DEF Spawn
    <3> QED BY <1>1, <1>a, <2>1, <3>1, SpawnCore DEF StartPlayback
  <2>2. CASE Leave(x, "start") /\ UNCHANGED <<pl, th>>
    <3>1. pc[x] = "start" /\ PlayersSame
      BY <1>1, <2>2 DEF StartPlayback, PlayersSame
    <3>2. PICK v \in {"release", "idle"} :
            pc' = [pc EXCEPT ![x] = v] /\ (x # Executor => v = "idle") /\ (x = Executor => v = "release")
      BY <2>2 DEF Leave
    <3> QED BY <1>a, <1>d, <2>2, <3>1, <3>2, PlacesMove DEF Outside
  <2> QED BY <1>1, <1>b, <2>1, <2>2 DEF StartPlayback, Current
<1>2. CASE StopPlayback(x)
  <2>1. CASE Current.state = "Started" /\ Stay(x, "stopWait")
    <3>1. Became("Started", Current.guard, Current.waiting \cup {x}, Current.playThread, FALSE)
      BY <1>2, <2>1, CallDoes DEF Known
    <3> QED BY <1>2, <1>a, <2>1, <3>1, StopCore DEF StopPlayback, Stay, CallKeeps
  <2>2. CASE Current.state = "Stopped" /\ Leave(x, "stop") /\ UNCHANGED pl
    <3>1. pc[x] = "stop" /\ PlayersSame /\ th' = th
      BY <1>2, <2>2 DEF StopPlayback, PlayersSame
    <3>2. PICK v \in {"swap", "idle"} :
            pc' = [pc EXCEPT ![x] = v] /\ (x # Executor => v = "idle") /\ (x = Executor => v = "swap")
      BY <2>2 DEF Leave
    <3>3. x = Executor => NobodyBusy
      <4> SUFFICES ASSUME x = Executor, NEW t \in Threads, Busy(t) PROVE FALSE
        BY DEF NobodyBusy
      <4>1. PICK y \in Processes : pc[y] = "startWait"
        BY <2>2 DEF Known, Core, ThreadInv
      <4> QED BY <1>d, <3>1, <4>1 DEF Processes
    <3> QED BY <1>a, <1>d, <2>2, <3>1, <3>2, <3>3, PlacesMove DEF Outside
  <2> QED BY <1>2, <1>b, <2>1, <2>2 DEF StopPlayback, Current
<1>3. CASE StartWoken(x)
  <2>1. pc[x] = "startWait" /\ x \notin Current.waiting /\ PlayersSame /\ th' = th
    BY <1>3, <1>b DEF StartWoken, Woken, Current, PlayersSame
  <2>2. PICK v \in {"release", "idle"} :
          pc' = [pc EXCEPT ![x] = v] /\ (x # Executor => v = "idle") /\ (x = Executor => v = "release")
    BY <1>3 DEF StartWoken, Leave
  <2> QED BY <1>a, <1>d, <2>1, <2>2, PlacesMove DEF Outside
<1>4. CASE StopWoken(x)
  <2>1. Became(Current.state, x, Current.waiting, Current.playThread, Current.active)
    BY <1>4, CallDoes DEF Known
  <2>2. pc[x] = "stopWait" /\ x \notin Current.waiting /\ CallKeeps(x, "stopJoin")
    BY <1>4, <1>a, <1>b DEF StopWoken, Woken, Stay, Current, CallKeeps
  <2> QED BY <2>1, <2>2, WokenCore
<1>5. CASE Join(x)
  <2>1. Became(Current.state, Nobody, Current.waiting, 0, Current.active)
    BY <1>5, CallDoes DEF Known
  <2>2. PICK v \in {"swap", "idle"} :
          pc' = [pc EXCEPT ![x] = v] /\ (x # Executor => v = "idle") /\ (x = Executor => v = "swap")
    BY <1>5 DEF Join, Leave
  <2>3. pc[x] = "stopJoin" /\ th[Current.playThread].pc = "dead" /\ CallKeeps(x, v)
    BY <1>5, <1>a, <1>b, <2>2 DEF Join, Current, CallKeeps
  <2> QED BY <2>1, <2>2, <2>3, JoinCore
<1> QED BY <1>1, <1>2, <1>3, <1>4, <1>5 DEF PlayerCall

(* And every step that has not raced.                                      *)
LEMMA CoreStep ==
  ASSUME Known, Next, ~raced'
  PROVE  Core'
<1>a. pl' = pl => PlayersSame
  BY DEF PlayersSame
<1>1. ASSUME NEW c \in Callers, UserCall(c) PROVE Core'
  <2>1. /\ UNCHANGED <<holder, th, pl, status, late, crossed>>
        /\ pc[c] = "idle" /\ c \in Processes /\ c # Executor
    BY <1>1, AndroidAssumption DEF UserCall, Processes
  <2>2. PICK v \in {"play", "stopCall", "next", "idle"} : pc' = [pc EXCEPT ![c] = v]
    <3>1. CASE UNCHANGED pc
      BY <2>1, <3>1 DEF Known, TypeOK
    <3> QED BY <1>1, <3>1 DEF UserCall
  <2> QED BY <1>a, <2>1, <2>2, PlacesMove DEF Outside
<1>2. ASSUME NEW c \in Callers, Control(c) PROVE Core'
  <2>1. UNCHANGED <<holder, th, pl, status, late, crossed>> /\ c \in Processes /\ c # Executor
    BY <1>2, AndroidAssumption DEF Control, Processes, historyVars
  <2>2. PICK v \in {"start", "stop", "idle"} : pc' = [pc EXCEPT ![c] = v]
    BY <1>2 DEF Control
  <2>3. pc[c] \in Outside
    BY <1>2 DEF Control, Outside
  <2> QED BY <1>a, <2>1, <2>2, <2>3, PlacesMove DEF Outside
<1>3. ASSUME NEW c \in Callers, Skip(c) PROVE Core'
  <2>1. UNCHANGED <<holder, th, pl, status, late, crossed>> /\ c \in Processes /\ c # Executor
    BY <1>3, AndroidAssumption DEF Skip, Processes, historyVars
  <2> QED BY <1>3, <1>a, <2>1, PlacesMove DEF Skip, Outside
<1>4. CASE Load
  <2>1. UNCHANGED <<holder, th, pl, status, late, crossed>> /\ pc[Executor] = "idle" /\ Executor \in Processes
    BY <1>4 DEF Load, Processes
  <2>2. CASE UNCHANGED pc
    <3>1. pc' = [pc EXCEPT ![Executor] = "idle"]
      BY <2>1, <2>2 DEF Known, TypeOK
    <3> QED BY <1>a, <2>1, <3>1, PlacesMove DEF Outside
  <2>3. CASE /\ pc' = [pc EXCEPT ![Executor] = IF holder = 0 THEN "swap" ELSE "stop"]
             /\ raced' = (raced \/ \E c \in Callers : Playing(c))
    <3>1. \A c \in Callers : pc[c] # "startWait"
      BY <2>3 DEF Playing
    <3>2. holder = 0 => NobodyBusy
      BY DEF Known, Core, ThreadInv, NobodyBusy
    <3>3. PICK v \in {"swap", "stop"} : pc' = [pc EXCEPT ![Executor] = v] /\ (v = "swap" => NobodyBusy)
      BY <2>3, <3>2
    <3> QED BY <1>a, <2>1, <3>1, <3>3, PlacesMove DEF Outside
  <2> QED BY <1>4, <2>2, <2>3 DEF Load
<1>5. CASE Release
  <2>1. UNCHANGED <<holder, th, status, late, crossed>> /\ pc[Executor] = "release" /\ Executor \in Processes
        /\ pc' = [pc EXCEPT ![Executor] = "idle"]
    BY <1>5 DEF Release, Processes, historyVars
  <2>2. PlayersSame
    <3>1. CASE old = 0
      BY <1>5, <1>a, <3>1 DEF Release
    <3>2. CASE old # 0
      <4>1. old \in Players /\ pl' = [pl EXCEPT ![old].released = TRUE]
        BY <1>5, <3>2, Ranges DEF Release, Players, Known
      <4>2. PlayerBecomes(pl', old, pl[old].state, pl[old].guard, pl[old].waiting, pl[old].playThread,
                          pl[old].active, TRUE)
        BY <4>1, TypeParts, PlayerUpdates DEF Known
      <4> QED BY <4>1, <4>2 DEF PlayerBecomes, PlayersSame
    <3> QED BY <3>1, <3>2
  <2> QED BY <2>1, <2>2, PlacesMove DEF Outside
<1> QED BY <1>1, <1>2, <1>3, <1>4, <1>5, SwapCore, CallCore, ThreadCore
        DEF Next, CallerStep, ExecutorStep, Run, Processes

(* Once something has raced it has.                                        *)
LEMMA RacedStays ==
  ASSUME Next
  PROVE  raced => raced'
<1>1. ASSUME NEW x \in Processes, PlayerCall(x) PROVE raced => raced'
  BY <1>1 DEF PlayerCall, StartPlayback, Spawn, StopPlayback, StartWoken, StopWoken, Join
<1>2. ASSUME NEW c \in Callers, UserCall(c) \/ Control(c) \/ Skip(c) PROVE raced => raced'
  BY <1>2 DEF UserCall, Control, Skip, historyVars
<1>3. CASE Load \/ Swap \/ Release
  BY <1>3 DEF Load, Swap, Release, historyVars
<1>4. ASSUME NEW t \in Threads, ThreadStep(t) PROVE raced => raced'
  BY <1>4 DEF ThreadStep
<1> QED BY <1>1, <1>2, <1>3, <1>4 DEF Next, CallerStep, ExecutorStep, Run, Processes

(* In the beginning there are stubs and nobody is in a call.               *)
LEMMA InitInv == Init => IInv
<1> SUFFICES ASSUME Init PROVE IInv
  OBVIOUS
<1> USE AndroidAssumption
<1>1. TypeOK
  <2>1. pl \in [Players -> PlayerStates]
    BY DEF Init, NewPlayer, PlayerStates
  <2>2. th \in [Threads -> ThreadStates] /\ \A t \in Threads : th[t] = NoThread
    BY DEF Init, NoThread, ThreadStates
  <2>3. Typed
    <3>1. pc \in [Processes -> CallerPlaces \cup ExecutorPlaces] /\ on \in [Processes -> 0 .. MaxPlayers]
      BY DEF Init, CallerPlaces
    <3>2. /\ MaxPlayers \in Nat /\ MaxCalls \in Nat /\ MaxThreads \in Nat /\ created = 0
          /\ holder = 0 /\ old = 0 /\ status = 0 /\ calls = 0 /\ commands = 0 /\ monitor = Nobody
          /\ late = FALSE /\ crossed = FALSE /\ raced = FALSE
      BY DEF Init
    <3>3. /\ holder \in 0 .. created /\ old \in 0 .. created /\ created \in 0 .. MaxPlayers
          /\ status \in 0 .. MaxThreads /\ calls \in 0 .. MaxCalls /\ commands \in Nat
      BY <3>2
    <3>4. monitor \in Callers \cup {Nobody} /\ late \in BOOLEAN /\ crossed \in BOOLEAN /\ raced \in BOOLEAN
      BY <3>2
    <3> QED BY <3>1, <3>3, <3>4 DEF Typed
  <2> QED BY <2>1, <2>2, <2>3 DEF TypeOK, Typed
<1>2. /\ \A x \in Processes : pc[x] = "idle"
      /\ Executor \in Processes /\ \A c \in Callers : c \in Processes
  BY DEF Init, Processes
<1>3. \A p \in Players : pl[p] = NewPlayer
  BY DEF Init
<1>4. \A t \in Threads : th[t] = NoThread
  BY DEF Init
<1>5. ServiceInv
  BY <1>2, <1>3 DEF Init, ServiceInv, CallerPlaces, ExecutorPlaces, NewPlayer
<1>6. GuardInv
  BY <1>2, <1>3 DEF GuardInv, NewPlayer
<1>7. NobodyBusy
  BY <1>4 DEF NobodyBusy, Busy, NoThread
<1>8. ThreadInv
  BY <1>3, <1>7 DEF ThreadInv, NobodyBusy, NewPlayer
<1>9. WaitInv
  BY <1>2, <1>7 DEF WaitInv, Notified
<1>10. StatusInv
  BY <1>4, <1>7 DEF Init, StatusInv, NobodyBusy, NoThread, Ending
<1> QED BY <1>1, <1>5, <1>6, <1>8, <1>9, <1>10 DEF IInv

(* The invariant is inductive.                                             *)
LEMMA StepInv == IInv /\ [Next]_vars => IInv'
<1>1. ASSUME IInv, Next PROVE IInv'
  <2>1. TypeOK' /\ ServiceInv' /\ GuardInv'
    BY <1>1, TypeStep, ServiceStep, GuardStep DEF IInv
  <2>2. ~raced' => Core'
    BY <1>1, RacedStays, CoreStep DEF IInv, Known, Core
  <2> QED BY <2>1, <2>2 DEF IInv, Core
<1>2. ASSUME IInv, UNCHANGED vars PROVE IInv'
  <2>1. /\ UNCHANGED <<monitor, holder, old, created, commands>>
        /\ UNCHANGED <<pc, on, pl, th, status, late, crossed, raced, calls>>
    BY <1>2 DEF vars, serviceVars, historyVars
  <2>2. TypeOK' /\ GuardInv'
    BY <1>2, <2>1 DEF IInv, TypeOK, GuardInv
  <2>3. ServiceInv'
    BY <1>2, <2>1 DEF IInv, ServiceInv
  <2>4. Known => Core'
    BY <2>1, SameCore
  <2> QED BY <1>2, <2>1, <2>2, <2>3, <2>4 DEF IInv, Known, Core
<1> QED BY <1>1, <1>2

(* IInv holds in every state.                                              *)
THEOREM Invariance == Spec => []IInv
BY InitInv, StepInv, PTL DEF Spec

(* A SyncPlayer has one thread at a time, unless a play crossed a change   *)
(* of the item: StoppedPlayer.startPlayback is only reached when the last  *)
(* thread has told that it stopped, and another play would have to wait in *)
(* the service's monitor.                                                  *)
THEOREM OneThreadAtATime == Spec => []OneThread
BY Invariance, OneThreadOf, PTL

(* Players are released after their threads, unless a play crossed a       *)
(* change of the item: the executor stops and joins before setNewHolder    *)
(* releases, and who stopped is the only one who was notified.             *)
THEOREM ReleasedAfterThreads == Spec => []ReleasedIdle
BY Invariance, ReleasedOf, PTL

(* A thread that was stopped never tells so after the start of the next    *)
(* one; and when nothing is going on and no thread that ended by itself    *)
(* was late, the clients know whether the player is playing.               *)
THEOREM ClientsFollow == Spec => []StatusFollows
BY Invariance, StatusOf, PTL
================================================================================
