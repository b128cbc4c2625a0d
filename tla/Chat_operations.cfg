SPECIFICATION Spec
CONSTANTS
  MaxOps = 2
  MaxForeign = 1
INVARIANTS TypeOK StopReachesAll SentAsReviewed
PROPERTIES NothingSentAfterStop StopEnds
CHECK_DEADLOCK FALSE
