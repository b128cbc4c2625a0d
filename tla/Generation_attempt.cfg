SPECIFICATION FairSpec
CONSTANTS
  MaxSequence = 4
  MaxPending = 2
  MaxAttempts = 3
  MaxFaults = 3
  Flusher = {"idle1", "idle2"}
CHECK_DEADLOCK FALSE
INVARIANTS TypeOK PrefixHasNoHoles SealKeepsDelivered ReportedIsDurable NothingStranded
PROPERTIES ImplementsLog EventuallySettled RunEnds
