SPECIFICATION Spec
CONSTANTS
  Kinds <- MCKindsSelf
  MaxMsgs = 4
  MaxErrors = 0
  MaxExpired = 0
  MaxRestarts = 1
  NTx = 2
  PersistEvery = 0
  Timeouts = FALSE
INVARIANTS Deterministic
CHECK_DEADLOCK FALSE
