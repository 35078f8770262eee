SPECIFICATION Spec
CONSTANTS
  Sessions <- LateSession
  MaxFailures = 0
INVARIANT DeferredOnly
