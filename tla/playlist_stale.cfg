\* Two items and two calls are enough for the result of a selection to be late.
CONSTANTS
  ItemCount = 2
  MaxCalls = 2
SPECIFICATION Spec
INVARIANTS IndicesInRange
CHECK_DEADLOCK FALSE
