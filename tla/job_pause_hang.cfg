\* One caller and a worker that may finish by itself.
CONSTANTS
  c1 = c1
  Nobody = Nobody
  Callers = {c1}
  Ops = {"Start", "Pause", "Stop"}
  MayFail = {}
  CanFinish = TRUE
SPECIFICATION FairSpec
PROPERTIES PauseReturns
CHECK_DEADLOCK FALSE
