SPECIFICATION FairSpec
CONSTANTS
  root = root
  first = first
  second = second
  other = other
  Forks = {first}
  Root = root
  Up <- Alone
  Calls = {}
  Cancels = {}
  Guarded = {}
  Signals = FALSE
  MaxHolds = 0
PROPERTIES JoinReturns
