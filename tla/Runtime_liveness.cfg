SPECIFICATION FairSpec
CONSTANTS
  Tab = {t1, t2}
  Calls = 1
  TxnOf <- DistinctTxns
  CommitReq = {1}
  MaxPending = 2
  MaxCancels = 1
  OpenMayFail = TRUE
  GateMayFail = FALSE
  Prompt = TRUE
  None = None
CHECK_DEADLOCK FALSE
INVARIANTS SilentMeansSettled
PROPERTIES EveryCallAnswered OwnerDiscovered
