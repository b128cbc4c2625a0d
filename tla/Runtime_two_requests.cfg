SPECIFICATION Spec
CONSTANTS
  Tab = {t1, t2}
  Calls = 2
  TxnOf <- DistinctTxns
  CommitReq = {1}
  MaxPending = 2
  MaxCancels = 1
  OpenMayFail = FALSE
  GateMayFail = FALSE
  Prompt = FALSE
  None = None
CHECK_DEADLOCK FALSE
INVARIANTS TypeOK WorkUnderLock RefusalIsFinal
PROPERTIES KeepsPromises
