SPECIFICATION ImportSpec
CONSTANTS
  Job = {j1}
  Handled = {j1}
  Slot = {w1, w2}
  NoJob = NoJob
  MaxAttempts = 2
  MaxRetries = 0
  MaxCrashes = 2
  LocksHold = TRUE
CHECK_DEADLOCK FALSE
INVARIANTS
  AskedAgainWroteNothing
