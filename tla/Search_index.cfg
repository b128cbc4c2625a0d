SPECIFICATION Spec
CONSTANTS
  N = 2
  Size = 2
  Page = 1
  MaxText = 1
  MaxCuts = 3
  None = None
INVARIANTS TypeOK VisibleIsCurrent NothingForgotten GarbageIsSeen
PROPERTIES SwitchIsComplete EventuallyIndexed
CHECK_DEADLOCK FALSE
