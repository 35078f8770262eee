SPECIFICATION Spec
CONSTANTS
  s1 = s1
  s2 = s2
  s3 = s3
  e1 = e1
  e2 = e2
  Null = Null
  Erased = Erased
  Shreds = {s1, s2, s3}
  Root = s1
  Events = {}
  Sample = 2
  Eps = 1
  Delays <- FewDelays
  PosMax = 3
  Loop = FALSE
  Instrs <- FamilyInstrs
  Disciplined = TRUE
  MaxFrames = 1
  MaxHandles = 1
SYMMETRY Alike
CHECK_DEADLOCK FALSE
INVARIANTS NoDangling NoOrphans
PROPERTIES NoResurrection
