SPECIFICATION FairSpec
CONSTANTS
  Programs <- AllPrograms
  MaxBits = 4
  MaxReg = 12
  MaxMem = 20
  Deepest = 6
  StackOverflow = 9
INVARIANTS Agree Balanced ReleasedOnce
PROPERTY Ends
CHECK_DEADLOCK FALSE
