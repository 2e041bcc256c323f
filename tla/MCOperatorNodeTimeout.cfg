SPECIFICATION Spec
CONSTANTS
  Kinds <- MCKinds
  MaxMsgs = 4
  MaxErrors = 0
  MaxExpired = 0
  MaxRestarts = 1
  NTx = 2
  PersistEvery = 0
  Timeouts = TRUE
INVARIANTS Deterministic
CHECK_DEADLOCK FALSE
