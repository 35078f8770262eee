SPECIFICATION FairSpec
CONSTANTS
  Keys = {0, 1, 2, 3, 4}
  Vals = {0, 1}
  Missing = Missing
  Starts <- All
  MinCap = 4
  MaxCap = 8
  Grows <- Low
  Removes <- Apart
INVARIANTS CountExact
PROPERTIES  WorkEnds EachMet
CHECK_DEADLOCK FALSE
