\* Three callers, every callback may fail, the worker may finish by itself.
CONSTANTS
  c1 = c1
  c2 = c2
  c3 = c3
  Nobody = Nobody
  Callers = {c1, c2, c3}
  Ops = {"Start", "Pause", "Stop", "IsActive", "IsPaused", "Destroy"}
  MayFail = {"Initialize", "Finalize", "Suspend", "Resume", "ExecuteCycle"}
  CanFinish = TRUE
SPECIFICATION FairSpec
INVARIANTS IInv NoOrphanThread RequestsAnswered PausedMeansSuspended
PROPERTIES OneThread DestroyedAfterWait PauseHolds WorkerProtocolSpec CallsReturn
\* The system stops when Pause waits for a session that has ended: see PauseReturns.
CHECK_DEADLOCK FALSE
