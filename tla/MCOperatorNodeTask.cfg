SPECIFICATION Spec
CONSTANTS
  Kinds <- MCKinds
  MaxMsgs = 4
  MaxErrors = 0
  MaxExpired = 0
  MaxRestarts = 1
  NTx = 2
  PersistEvery = 0
  Timeouts = FALSE
INVARIANTS SkippedHaveTask
CHECK_DEADLOCK FALSE
