SPECIFICATION FairSpec
CONSTANTS
  root = root
  first = first
  second = second
  other = other
  Forks = {first, second, other}
  Root = root
  Up <- Family
  Calls = {other}
  Cancels = {first, second}
  Guarded = {}
  Signals = TRUE
  MaxHolds = 0
INVARIANTS Outlived LastRelease NoOrphans NothingLeft
PROPERTIES CleanupEnds CancelStops
