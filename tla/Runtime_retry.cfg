SPECIFICATION Spec
CONSTANTS
  Tab = {t1, t2}
  Calls = 2
  TxnOf <- OneTxn
  CommitReq = {1, 2}
  MaxPending = 1
  MaxCancels = 1
  OpenMayFail = TRUE
  GateMayFail = TRUE
  Prompt = FALSE
  None = None
CHECK_DEADLOCK FALSE
PROPERTIES KeepsPromises
