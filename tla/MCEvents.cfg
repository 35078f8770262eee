SPECIFICATION FairSpec
CONSTANTS
  s1 = s1
  s2 = s2
  s3 = s3
  e1 = e1
  e2 = e2
  Null = Null
  Erased = Erased
  Shreds = {s1, s2, s3}
  Root = s1
  Events = {e1}
  Sample = 2
  Eps = 1
  Delays <- MCDelays
  PosMax = 4
  Loop = TRUE
  Instrs <- EventInstrs
  Disciplined = TRUE
  MaxFrames = 0
  MaxHandles = 0
INVARIANTS ListSound Placement RefCountExact
PROPERTIES NeverOversleeps KeepsPromise SleepersWake BroadcastWakesAll EraseEnds
