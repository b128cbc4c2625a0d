SPECIFICATION Spec
CONSTANTS
  Context = {c1, c2}
  Operation = {o1, o2, o3}
  Archive = {a0, a1, a2}
  Default = a0
  MaxWrites = 2
  MaxCalls = 4
  CloseMayFail = TRUE
  None = None
SYMMETRY Symmetry
CHECK_DEADLOCK FALSE
INVARIANTS TypeOK Lineage SourceFrozen PreparedIsRunning
PROPERTIES AnswersTrue ActsAsRegister
