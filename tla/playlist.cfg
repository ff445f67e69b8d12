\* Three items and two calls: a modification of the user meets an operation or
\* a load, both meet the scanner.
CONSTANTS
  ItemCount = 3
  MaxCalls = 2
SPECIFICATION Spec
INVARIANTS IInv Conservation IteratorFollows FirstItemNotified ViewReenabled
