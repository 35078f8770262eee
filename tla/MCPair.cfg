SPECIFICATION Spec
CONSTANTS
  s1 = s1
  s2 = s2
  s3 = s3
  e1 = e1
  e2 = e2
  Null = Null
  Erased = Erased
  Shreds = {s1, s2}
  Root = s1
  Events = {e1}
  Sample = 2
  Eps = 1
  Delays <- MCDelays
  PosMax = 3
  Loop = TRUE
  Instrs <- PairInstrs
  Disciplined = TRUE
  MaxFrames = 1
  MaxHandles = 1
INVARIANTS IInv
PROPERTIES KeepsPromise
