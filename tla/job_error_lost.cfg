\* One caller and a worker whose cycle may fail, as in the test.
CONSTANTS
  c1 = c1
  Nobody = Nobody
  Callers = {c1}
  Ops = {"Start", "Stop", "IsActive"}
  MayFail = {"ExecuteCycle"}
  CanFinish = FALSE
SPECIFICATION Spec
PROPERTIES StopReportsError
CHECK_DEADLOCK FALSE
