SPECIFICATION Spec
CONSTANTS
  r1 = r1
  r2 = r2
  r3 = r3
  k1 = k1
  k2 = k2
  Request = {r1, r2, r3}
  Key = {k1, k2}
  KeyOf <- MCKeyOf
  Interactive = {r1}
  HasStore = TRUE
  HasFallback = TRUE
  Batch = 2
  MaxJobs = 2
  MaxConsumers = 3
  MaxPerJob = 2
  MaxHot = 1
INVARIANTS TypeOK WaiterHasJob NeverIdle PromisesPending
PROPERTIES ClosedStaysShut RequestsAnswered ShutdownEnds
CHECK_DEADLOCK FALSE
