\* Two names, each a file or a directory of up to two files, and two uses of
\* the buttons; up to three files are fetched at a time, a fourth is left.
CONSTANTS
  MaxNames = 2
  MaxFiles = 2
  MaxCalls = 2
  LowerBound = 2
  UpperBound = 3
SPECIFICATION FairSpec
INVARIANTS IInv NothingForgotten InOrder CrashOnlyByEmptyDir
PROPERTIES AddedIsScanned
CHECK_DEADLOCK FALSE
