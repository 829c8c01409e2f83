SPECIFICATION Spec
CONSTANTS
  Job = {j1, j2}
  Handled = {j1, j2}
  Slot = {w1, w2}
  NoJob = NoJob
  MaxAttempts = 2
  MaxRetries = 1
  MaxCrashes = 2
  LocksHold = TRUE
CHECK_DEADLOCK FALSE
INVARIANTS
  JobTypeOK
  OneRunPerJob
  WorkedJobsRun
PROPERTIES
  FinishedStays
