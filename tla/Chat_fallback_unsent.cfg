SPECIFICATION Spec
CONSTANTS
  MaxOps = 1
  MaxForeign = 1
INVARIANTS FallbackNeedsFailure
CHECK_DEADLOCK FALSE
