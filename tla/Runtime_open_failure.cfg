SPECIFICATION Spec
CONSTANTS
  Tab = {t1, t2}
  Calls = 1
  TxnOf <- DistinctTxns
  CommitReq = {1}
  MaxPending = 2
  MaxCancels = 1
  OpenMayFail = TRUE
  GateMayFail = FALSE
  Prompt = FALSE
  None = None
SYMMETRY Symmetry
CHECK_DEADLOCK FALSE
INVARIANTS FailureMeansNoEffect
