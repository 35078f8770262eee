SPECIFICATION Spec
CONSTANTS
  Keys = {1, 2, 3, 4, 5}
  Vals = {0}
  Missing = Missing
  Starts <- AtTheEnd
  MinCap = 4
  MaxCap = 8
  Grows <- Ends
  Removes = {}
INVARIANTS FindsWhatIsKept
CHECK_DEADLOCK FALSE
