SPECIFICATION FairSpec
CONSTANTS
  MaxSequence = 3
  MaxPending = 2
  MaxAttempts = 3
  MaxFaults = 0
  Flusher = {"idle1"}
CHECK_DEADLOCK FALSE
PROPERTIES DeltaBecomesVisible
