\* Two producers and two workers, of which either may fail, on a queue of two.
CONSTANTS
  p1 = p1
  p2 = p2
  w1 = w1
  w2 = w2
  Producers = {p1, p2}
  Workers = {w1, w2}
  QueueSize = 2
  MaxItems = 4
  MayFail = TRUE
SPECIFICATION FairSpec
INVARIANTS IInv Conservation InOrder FlushIsComplete NoLostWakeup
PROPERTIES CallsEnd DestructorReturns
CHECK_DEADLOCK FALSE
