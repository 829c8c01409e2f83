SPECIFICATION FairSpec
CONSTANTS
  Job = {j1, j2}
  Handled = {j1}
  Slot = {w1, w2}
  NoJob = NoJob
  MaxAttempts = 2
  MaxRetries = 1
  MaxCrashes = 2
  LocksHold = FALSE
CHECK_DEADLOCK FALSE
INVARIANTS
  StartsBounded
PROPERTIES
  EveryJobEnds
