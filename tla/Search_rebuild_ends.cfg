SPECIFICATION Spec
CONSTANTS
  N = 2
  Size = 1
  Page = 2
  MaxText = 0
  MaxCuts = 1
  None = None
PROPERTIES RebuildEnds
CHECK_DEADLOCK FALSE
