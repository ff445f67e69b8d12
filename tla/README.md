# A verification development of ZXTune

ZXTune plays chiptune modules. The repository holds libraries (`src/`: async,
sound, core, devices, formats, io, parameters, binary, l10n), applications
(`apps/`: the Qt player `zxtune-qt`, the console player `zxtune123`, the
extractor `xtractor`, an Android player `zxtune-android`), third-party code
(`3rdparty/`) and build files. Most of the code decodes data or emulates chips:
sequential functions of their input. What is hard to test is the control around
it: one small library, `src/async`, runs everything that happens in the
background (playback, file output, conversion, scanning, analysis), several
threads use each of its objects, and its users drive devices and streams that
fail at any call. This development models that control.

Paths in this file are relative to the repository.

## 1. Inventory

### Parts that are modelled

**Async job** (`src/async`: `job.h`, `worker.h`, `coroutine.h`, `activity.h`,
`event.h`, `src/job_coroutine.cpp`, `src/job_worker.cpp`, `src/activity.cpp`).
*State:* `JobImpl::Mutex`, `State` (an `Event`), `Act`; in the activity `State`,
`LastError`, the thread. *Operations:* Start, Pause, Stop, IsActive, IsPaused, the
destructor; in the thread WorkProc, CoroutineOperation's Execute, Yield and
Finalize, and WorkerCoroutine's loop over the Worker. *Interactions:* callers
and the thread exchange requests (STARTING, PAUSING, STOPPING) and answers
(STARTED, PAUSED, STOPPED) in one `Event`, a one-place mailbox in which `Set`
overwrites; the callers wait for answers with the mutex held. *Hard:* every
interleaving of a request with a session that ends or fails by itself; each of
the five callbacks failing at each moment. *Correct if:* sessions never overlap,
nothing runs after Stop or the destructor, a paused worker is quiet and stays so
until told, requests do not outlive the call that made them, the worker's
callbacks come in the order drawn in `worker.h`, calls return.

**Async data receiver** (`src/async`: `data_receiver.h`, `sized_queue.h`,
`progress.h`, `src/progress.cpp`). *State:* a bounded queue with two condition
variables, a pair of counters, the activities of the workers. *Operations:*
ApplyData, Flush and the destructor of the producer; Get, ApplyData and
Consume of each worker. *Interactions:* the file backend and the converter push
frames into it from the playback thread, the analysis threads of the extractor push into
its save stage; the workers call a stream or the next stage. *Hard:*
wake-ups, a failing delegate, destruction at any time, Flush against items in
flight. *Correct if:* nothing is lost or passed twice, Flush flushes a stream
that has got everything, nobody sleeps who has something to do, the destructor
returns.

**Playback backend** (`src/sound/backends/backend_impl.cpp`, `backend_impl.h`,
`src/sound/backend.h`). *State:* the Playing flag, the pending seek, the
renderer's position, the device's state, what the client knows. *Operations:*
the Worker's Initialize, ExecuteCycle, Suspend, Resume, Finalize, IsFinished;
SetPosition. *Interactions:* the job calls it as its Worker; it calls the
`BackendWorker` (a device or file) and then the client's `BackendCallback`;
SetPosition bypasses the job. *Hard:* a device that fails at any call, seeks at
any time. *Correct if:* frames reach only an open, running device; device and
client are kept in step; the device is released; the end is announced once.

**Playlist** (`apps/zxtune-qt/playlist/supp`: `model.cpp`, `storage.cpp`,
`controller.cpp`; `playlist/ui/playlist_view.cpp`). *State:* the list, the rows the view
knows, the iterator's index, one long operation with its lock, its copy of the list and its
cancel flag; in the storage a cache of iterators. *Operations:* Clear, RemoveItems,
MoveItems, AddItem, AddItems, PerformOperation, CancelLongOperation, fetchMore; the iterator's
Next, Prev, Reset and UpdateIndices. *Interactions:* the GUI, the thread of the
operation and the scanner call the model; what the last two have to say reaches the GUI by queued
signals. *Hard:* a copy that is swapped in while others add and select, signals that
describe a list that has changed again. *Correct if:* no item is lost, the iterator
stays on its item, the view comes back after each operation, and the storage finds the items
its indices name.

**Scanner** (`.../playlist/supp/scanner.cpp`, `playlist/ui/scanner_view.cpp`). *State:* a
queue of names, resolved through directories and prefetched; a job. *Operations:*
AddItems, Pause, Stop; the routine on the job's thread. *Hard:* names added while a
session ends and replaces the queue. *Correct if:* every name is scanned once, in order.

**Cache of files** (`.../playlist/supp/data_provider.cpp`). *State:* a list with weights and
the sum of them. *Operations:* GetData, FlushCachedData. *Hard:* the sum is kept
incrementally over hits, evictions, flushes and changing limits. *Correct if:* the sum is right and the
limits hold.

**Android player** (`apps/zxtune-android/src/app/zxtune`: `sound/SyncPlayer.java`,
`sound/AsyncPlayer.java`, `playback/PlaybackServiceLocal.java`). *State:* the player
of the current item, its state with the threads that wait for a change, a thread that
produces and one that consumes. *Operations:* play, stop, next, prev, setNowPlaying;
the executor's commands. *Hard:* players change while their threads end by themselves. *Correct
if:* a player has one thread, is released idle, the clients know its status, calls return.

### Parts that are not modelled

| Part | Source | State and hard behaviour | Decision |
|---|---|---|---|
| File streams and devices | `src/sound/backends/file_backend.cpp`, `sdl_backend.cpp`, others | the stream kept over sessions by `SetStream`; SDL's ring of buffers shared with its audio callback | in the plan: FileBackend over AsyncReceiver. The other devices are calls to drivers |
| Conversion, benchmark | `.../operations_convert.cpp`, `apps/zxtune123/cli_app.cpp` | wait for OnStop or OnFinish, which may not come | in the plan: clients of Playback |
| Extractor | `apps/xtractor/main.cpp` | a row of receivers, the second with several producers; filters and analysis of data | AsyncReceiver has several producers; the rest is not planned |
| What playlist operations compute, session, containers | `.../operations*.cpp`, `session.cpp`, `container.cpp` | pure functions of a storage, file formats | not planned |
| Qt playback support, options | `apps/zxtune-qt/supp` | forwards to PlaybackControl | its callbacks are the client in Playback |
| Parameters | `src/parameters` | maps with conversions | not planned: no protocol |
| Players, chips, formats, IO, analysis | `src/core`, `src/devices`, `src/formats`, `src/io`, `src/analysis`, `src/binary` | sequential computations on data | out of reach of a model checker; a renderer is abstracted to its frame number |
| UI, localisation, library gates | `apps/zxtune-qt/ui`, `src/l10n`, `src/platform` | widgets, translations, dynamic loading | not planned, except the slots named above |

The players, formats and chip emulation are more than nine tenths of the
implementation. They have no state that two parties share and nothing that can
come in another order; what could go wrong in them is a wrong byte, which is a matter for
tests with real modules.

`PROJECT.json` lists each hazard at its line, with the properties that would
catch it or the reason why there is none.

## 2. The modules

```
WorkerProtocol   what a job promises to its Worker          (abstract)
   ^ implemented by                    ^ instantiated by
AsyncJob         the job itself      Playback    a Worker: the backend

AsyncReceiver    the queue behind the file streams and the converter

PlaylistIndices  what the storage of a playlist computes     (reference)
   ^ compared with                     ^ built on
PlaylistStorage  how it finds items  Playlist    model, iterator, view, threads

Scanner          queue and session of the playlist scanner
ObjectsCache     the cache of files behind a playlist
AndroidPlayer    service, executor and players of the Android application

AsyncJobProofs, PlaybackProofs, AsyncReceiverProofs, AndroidPlayerProofs,
ObjectsCacheProofs, PlaylistProofs and ScannerProofs extend the module they are about,
PlaylistProofs also PlaylistStorage; NatLemmas holds facts about sets of numbers that the
last three cite.
```

### AsyncJob

Callers are processes with a program counter `pc`; the function a caller
executes is `op` (Start that finds a running activity continues as
`StartExecutingAction`, as in the code). The session's thread has the program
counter `wpc`.

| Variable | Code |
|---|---|
| `jobState` | `JobImpl::State`, "NONE" after `Reset` |
| `hasAct`, `lock` | `JobImpl::Act` is set; who holds `JobImpl::Mutex` |
| `actState`, `lastError` | `ActivityImpl::State`, `LastError` |
| `wpc`, `why` | where the thread is; the branch taken in `Yield` or `Execute` |

One operation on an `Event` is one step and a wait is a guard, so that tests and
sets that are separate in the code stay separate: Pause tests for PAUSED
(`pauseCheck`), sets PAUSING (`pauseSet`) and waits (`pauseWait`). Each callback
of the worker succeeds or, if it is in `MayFail`, throws. `Throws` is the jump to
the catch in `CoroutineOperation::Execute`. Its Finalize sets STOPPED and then calls
the callback, as the code does.

Two steps stand for more than one statement. `FinishJoin` swaps `Act` out and
joins: the mutex is held, nobody looks. `FinishReset` resets the Event and destroys
the activity, on the normal path and in the catch. Between two jobs the destructor
("Destroy") may run when no call is in progress; afterwards a new job takes
the place of the old one, which has the same initial state.

### WorkerProtocol

The diagram in `worker.h` as a state machine over `phase`. `AsyncJob` implements it
under the mapping `phase <- Phase`, `retried <- Retried`, which reads both from
`wpc` and `lastError`. It has one thing the diagram does not show: at a normal end
`Finalize` runs inside the `try` of `Execute`, so a Finalize that throws is called once
more (`job_coroutine.cpp`, `Execute`). Hence `retried`.

### Playback

`AsyncWrapper` as the Worker of that protocol: `Job == INSTANCE
WorkerProtocol`, and every callback ends with a step of it, so that a playback
session is any session the job can produce. `call` is the callback in progress and
`at` the call it makes next. `SeekRequest` is a plain variable that two threads
use: testing, applying and clearing it are three steps (`SeekTest`, `SeekApply`,
`SeekClear`), and `SetPosition` may come between any two. `device` and `client` are the
state the calls leave behind. `stuck` marks a device whose Shutdown threw.

The renderer is its frame number: `position`, with `Frames` the end. Modules that loop
have no end and are left out. The client's callbacks do not throw, which holds for
every client in the repository. The device here is any `BackendWorker`.

### AsyncReceiver

A producer's program counter is `ppc[p]`, a worker's is `wpc[w]`. What
`SizedQueue` does in one critical section is one step; waiting on a condition
variable is membership in `getWaiting` (or `putWaiting`), and `notify_one` removes
one arbitrary member, so that a lost wake-up can be seen. `applied`, `failed`
and `abandoned` are history variables that only properties read.

The file backend and the converter have one producer; the save stage of the extractor
has a producer for every analysis thread. Items are numbered in the order they enter
the queue (`added`), since the order of calls made at the same time means nothing. Flush and the
destructor begin when no other call is under way (`Alone`): in the extractor they
come from the stage before, whose Flush has waited until each of its items was passed on,
and whose destructor has joined its threads. `Activities` has no lock. If two
producers find no worker alive, both empty it at once, which is undefined behaviour: the
model stops there (`Raced`), and no property says what follows.

### PlaylistIndices and PlaylistStorage

`PlaylistIndices` defines the operations of the storage as functions of a list whose
elements are `IndexedItem`s, without saying how items are found: `Removed`, `Moved`,
`Added`, `IndicesChanges` (the map of `ResetIndices`), `Reindexed`, and the look-up
`FindNewSuitableIndex` of that map.

`PlaylistStorage` is how they are found: `GetIteratorByIndex` walks from the nearest of begin,
the last item and the cached iterators, and caches the iterator it gets if the walk was long.
`nodes` is `Items`, a list of distinct nodes. An iterator is its node, which nothing but its removal
invalidates; `cache` is `IteratorsCache`, a function from indices to iterators. Differences of unsigned
indices wrap (`IndexMod`): for `size()`, where a move to the end puts its
delimiter, the distance to the last item is `2^32 - 1`. The walkers that gather adjacent
items into ranges before erasing or splicing them are abstracted to the set of nodes
they were given (`Without`). `FindsItems` compares every operation, for
every argument, with PlaylistIndices in every reachable state of the cache.

### Playlist

| Variable | Code |
|---|---|
| `items`, `fetched` | `Container`, `FetchedItemsCount` |
| `index` | `ItemIteratorImpl::Index`, -1 for NO_INDEX |
| `opc`, `opKind`, `clone`, `locked`, `canceled` | the thread of `AsyncExecution`, its operation, `tmpStorage`, whether it holds `SyncAccess`, `Canceled` |
| `spc`, `sawEmpty` | the scanner's thread in AddItem, what its CountItems told |
| `remap` | `remapping` in each thread, between the lock and the signal |
| `events` | signals queued for the GUI |
| `gpc`, `gcall`, `viewEnabled` | the GUI's call in progress; whether the table accepts input |

What runs under the unique lock is one step. A long operation holds a shared or an upgrade
lock from `OpAcquire` to `OpStop`: writers wait, readers do not. A signal of the GUI's
own thread is a direct call (`NotifyDirectly`), the others are delivered when the
GUI is idle, never in the middle of one of its calls. Operations are a sort, a selection that
ends in the view (`select`) or in RemoveItems (`remove`), and the load of a playlist,
the only one that can fail with an Error. What a selection finds is any set, and a
sort may bring any order. `crossed` and `skipped` are history variables for the
exceptions that the properties name: a map that reaches an index it was not made for, and
a Clear between AddItem's two locks. `removed` collects the items the user wanted to be
removed (`Unwanted`). Items found are numbered. A queued signal is delivered by
`DeliverState` (the view), `DeliverResult` (RemoveItems) or `DeliverIndices` (the iterator). Not modelled: versions of the
list, items in the ERROR state, what the view does on `reset()`.

`Rest` is the end of a run, when the bounds are used up and nothing is in progress. A
thread that waits is not at rest, so that TLC reports a wait that never ends as a deadlock.

### Scanner

The queue is `[source, curDir, cache]`: names added, the open directory's files that are left,
prefetched files. A name is a record of its number, whether it is a directory and how
many files it has; a file is `<<name, number>>`. `Prefetch` does what the loops of
`PrefetchedFilenames` and `ResolvedFilenames` do under the queue's lock. A `Turn` of the first loop
fetches one file; for it `Open` goes on to the first name that has one, unless a directory is still open.
`Underflow` is the case in which there is no such name and
one is taken from an empty list. The job is seen by one caller and one
thread: `event` is JobImpl's State, and `Start`, `Pause` and `Finish` go through the same
points as in AsyncJob. `target` is the pointer to the queue that AddItems reads before it
adds; `late` collects files added after the session's last look at the queue. `Stop` of
the user drops what is queued (`dropped`). `FilesQueue::Empty` reads without the lock
while Add writes; the model takes it for atomic. Whether a file is a playlist, a module or
unreadable makes no difference to the queue, and every such error is caught in ScanFile.

### ObjectsCache

`items` and `total` are the fields of the same meaning. `GetData` is two steps, since it
reads the two options one after the other and the user may change them between; the
mutex keeps other calls out. A file may have another size each time it is read, or be
unreadable. The memory option is multiplied into bytes and cut to `std::size_t`
(`MemoryLimit`), which can make it zero.

### AndroidPlayer

| Variable | Code |
|---|---|
| `monitor` | the monitor of PlaybackServiceLocal, with those of its controls |
| `holder`, `old`, `commands` | `holder`, `oldHolder`, the executor's queue |
| `pl[p]` | AsyncPlayer `p`: `state`, `stateGuard` with the set of those who wait in it, `playThread`; `isActive` of its SyncPlayer; whether it is released |
| `th[t]` | a PlayThread with its ConsumeThread |
| `status` | the last `onStatusChanged`, as the thread that started |

`wait` leaves `stateGuard` and joins `waiting`; `notify` removes one arbitrary member.
*Assumption*: `wait` returns only after a `notify`. Java also permits spurious wake-ups, and
`waitForStateChange` (`AsyncPlayer.java:80-91`) does not look at the state again: with one, startPlayback
would return before the thread has started, so that a second could begin, and stopPlayback would join the
thread early, inside `stateGuard`, which that thread needs to say that it has stopped. The model leaves
them out, and all that is said of AndroidPlayer holds without them only. Nobody interrupts the threads.
`StopWoken` and `Join` are separate steps, because the monitor is kept while the
thread is joined. Both threads meet in `Exchange`. Assertions are off, as on the device.
The uses of the controls are play, stop, next or prev, and setNowPlaying. After two threads share a
SyncPlayer, or one uses a released player, the model goes no further (`Alive`); the
properties say how that can happen. Not modelled: release of the whole service, isPlaying,
the seek position, the visualizer, and uncaught exceptions, which end the process.

### Definitions called variants

Each module holds a few definitions marked "Variant": the form a definition
would have with a plausible mistake in it. They occur in no specification. They serve
to confirm that each property fails when the code is wrong in that way.

## 3. The runs

| Run | Bounds | What it asks | States |
|---|---|---|---|
| `job_safety` | 3 callers, every call, every callback may fail, the worker may finish by itself | `IInv`, `NoOrphanThread`, `RequestsAnswered`, `PausedMeansSuspended`, `OneThread`, `DestroyedAfterWait`, `PauseHolds`, `WorkerProtocolSpec`, `CallsReturn` | 55812 |
| `job_pause_hang` | 1 caller; the worker may finish by itself | `PauseReturns` is violated | |
| `job_error_lost` | 1 caller; ExecuteCycle may fail | `StopReportsError` is violated | |
| `receiver` | 2 producers, 2 workers, a queue of 2, 4 items, any worker may fail at any item | `IInv`, `Conservation`, `InOrder`, `FlushIsComplete`, `NoLostWakeup`, `CallsEnd`, `DestructorReturns` | 6562 |
| `playback` | 3 frames, 2 seeks, every device call may fail | `IInv`, `FramesOnOpenDevice`, `DeviceReleased`, `ClientTold`, `ClientFollowsDevice`, `FinishAnnounced` | 2392 |
| `playback_seek_lost` | the same, nothing fails | `SeekNotLost` is violated | |
| `playlist` | 3 items, 2 calls of the user | `IInv`, `Conservation`, `IteratorFollows`, `FirstItemNotified`, `ViewReenabled` | 1242484 |
| `playlist_stale` | 2 items, 2 calls | `IndicesInRange` is violated | |
| `playlist_storage` | lists of up to 6 items, a cache threshold of 1 instead of 200 | `FindsItems` | 4117 |
| `scanner` | 2 names of up to 2 files, 2 uses of the buttons, prefetching between 2 and 3 instead of 500 and 1000 | `IInv`, `NothingForgotten`, `InOrder`, `CrashOnlyByEmptyDir`, `AddedIsScanned` | 81719 |
| `objects_cache` | 3 files of up to 3 units, options of up to 3 | `WeightIsSum`, `FitsLimits` | 58864 |
| `android` | 1 user of the controls with 2 calls, 2 players, 3 threads | `IInv`, `OneThread`, `ReleasedIdle`, `StatusFollows`, `CallsEnd` | 34512 |

*Bounds.* The job holds one mutex, so at any time one caller is inside, and any
number may wait. With three callers there is one inside and two that contend for the next turn;
sessions repeat without a bound. The proofs of section 5 drop the bounds of this run and of
`receiver`, `playback`, `playlist`, `playlist_storage`, `scanner`, `objects_cache` and `android` altogether. `IInv` in a run is the
inductive invariant of those proofs.
In the receiver the third item finds a full queue if no worker has taken one, and
with four items both producers can wait at a full queue at once, go on, and one begin a
Flush while other items are queued, in hand and done.
Two workers are enough for overtaking, for a failure beside a
survivor, and for both sleeping. Three frames give a first, a middle and a last one;
two seeks let one come while another is applied.

In the playlist two calls of the user are enough for a selection and a modification, or a
modification and a long operation, to meet while the scanner adds, and a playlist that
begins with a load counts that as a call. Three items are a selected one with one
on either side, or two that remain when one is removed. One case takes a fourth: the
scanner's map of the first item, delayed past the map of a load and of a later sort. The
proof found it (section 5). In the storage a list of six has items more than the
threshold away from both ends and from each other's cached iterators. The scanner's four
files are one more than it fetches; two names let one come before, during or after
the session for the other. Three files are more than either limit of the cache lets in; an option of three is
three times two units, zero modulo six. The Android player needs one user: whatever a control does, apart from
waiting and queueing a command, it does inside the service's monitor, so two users cannot
meet, while a user meets the executor and the threads. Two calls and the first end of a
module start at most three threads (`AndroidAssumption`).

*Deadlock.* `playback`, `playlist`, `playlist_storage` and `objects_cache` check for it.
`job_safety` does not: its
system stops when Pause meets a session that ends by itself (below). `receiver` does
not: after the destructor or a race nothing is left to happen, and Flush may wait for
ever after a worker has failed, which `CallsEnd` excepts by name. `scanner` and
`android` stop when their bounds are used up, and in the exceptions that
`AddedIsScanned` and `CallsEnd` name.

*Fairness.* `FairSpec` of AsyncJob: weak fairness of each caller's steps inside a
call and of the thread. These are OS threads, scheduled for ever, and each
has at every moment one next step; nobody has to begin a call. Weak fairness of
a caller does not promise it the mutex, and `CallsReturn` asks only that whoever
has the mutex gives it back, unless Pause came too late (`PausedTooLate`, below). `FairSpec` of AsyncReceiver: weak fairness of each worker and of
each producer inside the calls it began; nobody has to call ApplyData, Flush or
the destructor. `FairSpec` of Scanner: the GUI finishes its calls and handles its
signals, the routine's thread runs; nobody has to press a button. `FairSpec` of AndroidPlayer:
each process and each thread goes on; nobody has to use the controls, and a module may
play for ever. The monitor and the guards are taken over in turn under weak fairness: no
property promises one to a caller whom others overtake without end, which the bound on calls excludes.

## 4. What the runs found

Four statements of the sources disagree with the code.

1. **Pause may hang** (`job_pause_hang`). `PauseExecutingAction` tests for PAUSED,
   sets PAUSING and waits for STOPPED or PAUSED. If the worker finishes or fails
   by itself and sets STOPPED before PAUSING is set (`IsExecuted` is true until
   Finalize has returned, and is not asked again), PAUSING overwrites STOPPED and
   no thread is left to answer. If STOPPED is set later, when the worker
   leaves its loop before it looks at the Event again, it is an answer.
   Pause keeps the mutex, so Stop and the destructor hang too.
   `src/sound/backend.h` says of Pause "No effect if module is currently paused
   or stopped".
2. **Stop drops the Error** (`job_error_lost`). `FinishAction` catches what
   `Activity::Wait` throws. `src/async/test/job/test.cpp:189` expects Stop of a
   failed job to throw ("Should not stop failed job").
3. **A seek may be lost** (`playback_seek_lost`). A SetPosition between the reading and the
   clearing of `SeekRequest` is erased. The code carries a "TODO: use atomic variable".
4. **Stale indices** (`playlist_stale`). An operation finds the items to remove, releases its
   lock, and its result waits in the GUI's queue while a Clear or a removal of the user
   changes the list. `RemoveItems` then gets indices beyond its end, which
   `storage.cpp` asserts not to be ("assert(*indices.rbegin() < Items.size())"); with
   indices that are still in range it would remove other items.

Seen on the way, and stated by the properties that hold: a Finalize that throws at
a normal end is called twice (WorkerProtocol); a module of one frame ends without
OnFinish, and after a Shutdown that throws the client is not told OnStop, which
matters to those who wait for these events (`FinishAnnounced`, `ClientTold`); after a worker of
the receiver has failed, Flush may wait for ever because refused items are never
counted (`CallsEnd`), and two producers that find no worker left both empty the list of activities,
which has no lock (`Raced`). In the playlist: the iterator may end on another item if it was set while a
map of moved indices was on its way, or if the scanner's map of the first item comes after the maps
of a load and of a later operation (`IteratorFollows`), and after a load
that failed the view stays disabled and no operation can be started (`ViewReenabled`). In the
scanner: a name added after the session's last look at the queue is lost or waits for
the next one (`NothingForgotten`), and a directory without files that comes last makes it
take a name from an empty list (`CrashOnlyByEmptyDir`). In the Android player: stop at
the natural end of an item waits in the monitor that `onFinish` needs, and of two that wait for a
player's end one is never notified (`CallsEnd`); a play that crosses a change of the item
starts a second thread on one player, or leaves one on a released player (`OneThread`,
`ReleasedIdle`); an item that ended by itself may say that it has stopped after the next has started
(`StatusFollows`).

Some properties name a known failing case as their exception: `CallsReturn` a pause that came too late
(`PausedTooLate`), the receiver's `CallsEnd` a failed worker, `ViewReenabled` a failed operation,
`NothingForgotten` and `AddedIsScanned` a late name, AndroidPlayer's `CallsEnd` the stop in `onFinish`
and the single `notify`. They do not detect these cases. What they show is that nothing else leads to the same end;
of the first the run `job_pause_hang` shows that it happens.

## 5. What is proved

The theorems hold for every value of the constants that the module's one named assumption
allows; the bounds of section 3 play no part. Each follows from an inductive invariant
`IInv`, a conjunction of named parts defined at the end of the component's module, which the
component's run also checks. In each proof module a lemma or a case for every
action shows that it preserves `IInv`, and every property follows from `IInv` alone,
or, for an action property, from `IInv` before the step.

**AsyncJobProofs.** Any set of callers, any choice of calls and of failing callbacks, with or
without a worker that finishes. `ConstantsAssumption`: Nobody is no caller, and the sets
of calls and callbacks are sets of known ones.

| Theorem | States |
|---|---|
| `Invariance` | `Spec => []IInv` |
| `NoOrphans` | `Spec => []NoOrphanThread` |
| `AllAnswered` | `Spec => []RequestsAnswered` |
| `PausedIsSuspended` | `Spec => []PausedMeansSuspended` |
| `NoOverlap` | `Spec => OneThread` |
| `NoDestructionOfRunning` | `Spec => DestroyedAfterWait` |
| `PausesHold` | `Spec => PauseHolds` |
| `ImplementsProtocol` | `Spec => WorkerProtocolSpec` |

None of the properties is inductive: that a thread exists exactly if there is an activity
depends on where the owner of the mutex stands in Start or FinishAction. `At` is that place
("idle" for a free mutex), and `IInv` says what holds at each: `MutexInv` (a caller is inside
exactly if it has the mutex), `OpInv` (which function has which program counters),
`ThreadInv` (the activity, the thread and `actState` by `At`), `EventInv` (what the Event may
say by `At` and `wpc`), `ErrorInv` (which Error may be in flight where). `ImplementsProtocol`
is the refinement: the initial states map to initial states, each step to a step of
WorkerProtocol or to a stutter.

**PlaybackProofs.** A module of any length above zero, any number of seeks, any set of device
calls that may fail (`PlaybackAssumption`, which also says that `NoSeek` is no frame).

| Theorem | States |
|---|---|
| `Invariance` | `Spec => []IInv` |
| `FramesOnlyWhenOpen` | `Spec => []FramesOnOpenDevice` |
| `DeviceIsReleased` | `Spec => []DeviceReleased` |
| `ClientIsTold` | `Spec => []ClientTold` |
| `ClientFollows` | `Spec => []ClientFollowsDevice` |
| `FinishIsAnnounced` | `Spec => []FinishAnnounced` |
| `FollowsProtocol` | `Spec => Job!Spec` |

`ControlInv` ties each callback to the phase in which the job calls it and to the steps it
has; `DeviceInv` says for each step what device and client were told, with the device
that a failed Shutdown left (`stuck`) as the one exception; `FinishInv` follows the flags of a session
to its end. `FollowsProtocol` is the other side of `ImplementsProtocol`: the backend is called
only in the way that the job, by that theorem, does call its Worker.

**AsyncReceiverProofs.** Any finite sets of producers and workers that are not empty, a queue of any size
above zero, any number of items (`ReceiverAssumption`).

| Theorem | States |
|---|---|
| `Invariance` | `Spec => []IInv` |
| `ItemsAreConserved` | `Spec => []Conservation` |
| `OrderIsKept` | `Spec => []InOrder` |
| `FlushFindsAll` | `Spec => []FlushIsComplete` |
| `WakeupsArrive` | `Spec => []NoLostWakeup` |

`QueueInv` accounts for every item: those in the queue are consecutive, those taken are in
hand, applied or refused, and none twice. `CountInv` relates the two counters of `progress.h` to the
places of producers and workers, by cardinalities; `AloneInv` says who may run beside
Flush and the destructor; `WakeInv` has `NoLostWakeup` itself, which is inductive once it is
known where those who wait stand. That Flush is complete needs all of them: the counters
agree only if no producer is between its two steps and every worker has counted what it applied.

**ObjectsCacheProofs.** Any files, sizes and options, any modulus of `std::size_t`
(`CacheAssumption`).

| Theorem | States |
|---|---|
| `WeightIsKept` | `Spec => []WeightIsSum` |
| `LimitsAreKept` | `Spec => FitsLimits` |

`WeightIsSum` is inductive. The work is in the lemmas on `Weights`, a sum defined by recursion on a
list: `SumsShift` says that equal parts of lists add the same, and from it follows what a
removal, a concatenation and an exchange do to the sum. `Fit` drops the oldest items until
the limits hold; that it stops at the first place where they do uses
`LeastExists`.

**PlaylistProofs**, about Playlist. Any number of items and of calls of the user, at least one, since a
playlist that is loaded begins with a call (`PlaylistAssumption`).

| Theorem | States |
|---|---|
| `Invariance` | `Spec => []IInv` |
| `ItemsAreConserved` | `Spec => []Conservation` |
| `SelectionIsKept` | `Spec => []IteratorFollows` |
| `FirstIsSelected` | `Spec => []FirstItemNotified` |
| `ViewIsReleased` | `Spec => []ViewReenabled` |

`ListInv` says that the list holds what was found and not removed, each item knowing its
place. `CloneInv` says that the clone of an operation is a rearrangement of the model's list,
perhaps with loaded items after it: the lock it holds keeps the list as it was until the swap.
`ViewInv` looks at the queue: the last of the signals that set the view's state enables it unless an
operation is going on. `FollowInv` is about maps: `RouteInv` says that the maps in the queue, and then the map of
the operation that has swapped but not yet told, lead the iterator's index to its item, and
`DirectInv` the same of a modification by the user, whose map overtakes the queue.
`FirstInv` says that an iterator without an item has a map on its way that will give it one. The lemmas on lists
(`PicksAreUnique`, `ReplaceStep`) say what a removal, a move, a sort and a load have in common: they pick
each entry at most once, and the map sends the index of a picked entry to its new place.

The proof of `SelectionIsKept` found a case which the run does not reach. A load
and the scanner run on different threads. If the scanner has added the first item but not
yet told of it, a load that is swapped in and then a sort may both be told first; the scanner's map, of one index, then
meets an index that is beyond it. The iterator takes a neighbour. `ScanNotify` sets `crossed` when its map is no
longer of the list's size, and the property excepts it; without
the exception a run with four items finds such a trace.

**PlaylistProofs**, about PlaylistStorage. Any size of the list, any threshold of the cache, indices of any
width that holds twice the size (`StorageAssumption`).

| Theorem | States |
|---|---|
| `StorageInvariance` | `StorageSpec => []StorageInv` |
| `ItemsAreFound` | `StorageSpec => []FindsItems` |

`StorageInv` is the first conjunct of `FindsItems`, so the run checks it too: nodes are distinct, and each
cached iterator is the node at its index (`Hold`). The rest of `FindsItems` follows from it.
`PlaceOfIterator`: since nodes are distinct, a walk knows where it stands. `PredefinedPoints` and
`CachedPoints`: whichever entry is nearest, also when the difference to the last item wraps around, it is an
index with the iterator there. Hence the walk arrives (`WalkArrives`), and what it leaves in the
cache is right. For the operations on sets, `ChosenByRank` says where an item comes in a choice: behind as many
as were chosen before it. From this follow that the rest after a removal is what was
not named (`OthersAreLeft`), that it falls into the parts before and behind the delimiter (`ChosenConcat`), and that
the delimiter is found between them although items before it are gone (`MoveFinds`).

**AndroidPlayerProofs.** Any users of the controls, any number of items, threads and calls;
the executor and Nobody are none of the users (`AndroidAssumption`; that there are enough threads for
the calls, which it says too, matters to the run and to no proof). The specification has no spurious
wake-ups of `Object.wait` (section 2), so the theorems hold without them only.

| Theorem | States |
|---|---|
| `Invariance` | `Spec => []IInv` |
| `OneThreadAtATime` | `Spec => []OneThread` |
| `ReleasedAfterThreads` | `Spec => []ReleasedIdle` |
| `ClientsFollow` | `Spec => []StatusFollows` |

`ServiceInv` says that who is in the service's monitor calls the player of `holder`, and how
`holder`, `old` and `created` relate at each place of the executor; `GuardInv` who waits in a player's monitor and
who has it. These two hold always. The rest holds until a play crosses a change of the item (`raced`),
after which the code promises nothing. This exception is broad: `raced` is set by any start while the
executor is busy and any change while a start waits, whether or not two threads come of it, and never
cleared. `ThreadInv`: the one thread that plays is the `playThread` of the holder's
player, and as long as that player is Stopped its start is what the only one who waits is waiting for.
`WaitInv`: whoever was notified of an end is alone in that, and finds no thread playing. This is why
`notify`, which wakes an arbitrary one of those who wait, is enough to keep two threads apart, though not to
let every call return (`OneNotified`). `StatusInv`: a thread that was stopped tells so before
who stopped it has joined it, hence before the next start; one that ended by itself is joined by nobody.
The lemmas `PlayerUpdates` and `ThreadUpdates` say what an action makes of the records; after them each action is
a lemma of its own (`SpawnCore`, `WokenCore`, `SetStoppedCore` and so on), and steps that
only move a program counter, or go on within the loop, share `PlacesMove` and `BusyStep`.

The proof asked for one thing that the run's invariant had not named: that a thread which
tells of its end (`finish` to `deactivate`) already knows that it ended by itself. Without it
`Deactivate` could leave a thread in the loop, inactive, that nobody is stopping.

**ScannerProofs.** Any number of names, of files in a directory and of calls, any bounds of the
prefetching of which the lower is above zero and not above the upper (`ScannerAssumption`).

| Theorem | States |
|---|---|
| `Invariance` | `Spec => []IInv` |
| `TypeCorrectness` | `Spec => []TypeOK` |
| `NothingIsForgotten` | `Spec => []NothingForgotten` |
| `ScannedInOrder` | `Spec => []InOrder` |
| `OnlyEmptyDirCrashes` | `Spec => []CrashOnlyByEmptyDir` |

That the scanned files are in order says nothing of the next one, so `OrderInv` sees them as the
beginning of one line: what was scanned, the file in hand, the prefetched files, those left in the open
directory, and behind them the names not yet opened (`Continues`). A step moves the marks
between these parts but not the line, an added name comes to its end because its number
is new, and Stop cuts the line off. `PlaceInv` says that every file is somewhere: scanned,
dropped, late, queued or in hand; `LateInv`, that behind a session's last look at the queue
only late files are queued, unless the GUI is about to start a session. `AddInv` is the race of
AddItems: the queue it has read is the present one or the last, and the last only
until a new session begins, because it is the GUI that begins sessions. `ControlInv` says where thread and GUI can be together.

What `Prefetch` does to the queue is stated as a relation of the queue before and after
(`Reaches`: the same files in the same order, the same names or an end of them), which one turn of the loop
establishes (`FetchReaches`), which is transitive, and which therefore all turns keep
(`FillReaches`, by `InductionOverNat`).

*Induction.* The library's induction theorems take an operator as a parameter, which the provers here cannot
instantiate. NatLemmas therefore states induction for sets of numbers, `InductionOverNat`: a set that has 0
and with n also n + 1 contains every number. That is enough for statements
about each prefix of a list (`Sums`, `Route`). What a recursive definition computes is used
in these proofs only through the equation that defines it.

*Only model-checked.* The liveness properties (`CallsReturn`, `CallsEnd`, `DestructorReturns`,
`AddedIsScanned`) and what rests on ENABLED are outside the reach of the proof system.
The runs that expect a violation have nothing to prove.

## 6. Plan

Done, in this order: WorkerProtocol and AsyncJob with its proofs; AsyncReceiver and
Playback; Playlist with PlaylistIndices and PlaylistStorage; Scanner; ObjectsCache;
AndroidPlayer; the proofs about Playback, AsyncReceiver, ObjectsCache, Playlist, AndroidPlayer, Scanner and
PlaylistStorage. Every invariant and every safety property of a run is proved.

Left to model:

1. **FileBackend**: SetStream, FrameFinish and Shutdown over the receiver's promise, with
   an abstract specification of AsyncReceiver (a stream that gets a prefix, in order).
2. GetCurrentState over AsyncJob; conversion and benchmark as clients of Playback.
3. Release of the Android service while commands are queued.

## 7. How to run

`tlc -config <run>.cfg <module>` with the module that `PROJECT.json` names for the
run (each takes a few minutes at most), and `tlapm <module>.tla` for each
proof module and for NatLemmas (about five minutes for PlaylistProofs, less for the others).
