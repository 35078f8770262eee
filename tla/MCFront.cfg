SPECIFICATION Spec
CONSTANTS
  Sessions <- AllSessions
  MaxFailures = 1
INVARIANTS LeftAsFound NoneLost Ordered InPlace  Isolated
