SPECIFICATION Spec
CONSTANTS
  root = root
  first = first
  second = second
  other = other
  Forks = {first}
  Root = root
  Up <- Alone
  Calls = {}
  Cancels = {first}
  Guarded = {first}
  Signals = TRUE
  MaxHolds = 2
INVARIANTS DoneIsDone
