\* One caller and two items: with two uses of the controls a play, a stop or a
\* next meets an end, a change of the item, or both.
CONSTANTS
  c1 = c1
  Executor = Executor
  Nobody = Nobody
  Callers = {c1}
  MaxPlayers = 2
  MaxThreads = 3
  MaxCalls = 2
SPECIFICATION FairSpec
INVARIANTS IInv OneThread ReleasedIdle StatusFollows
PROPERTIES CallsEnd
CHECK_DEADLOCK FALSE
