SPECIFICATION Spec
CONSTANTS
  Kinds <- MCKinds
  MaxMsgs = 4
  MaxErrors = 0
  MaxExpired = 0
  MaxRestarts = 1
  NTx = 2
  PersistEvery = 2
  Timeouts = TRUE
INVARIANTS NoBlockMissing
CHECK_DEADLOCK FALSE
