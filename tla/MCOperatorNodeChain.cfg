SPECIFICATION FairSpec
CONSTANTS
  Kinds <- MCKindsSelf
  MaxMsgs = 3
  MaxErrors = 1
  MaxExpired = 0
  MaxRestarts = 1
  NTx = 2
  PersistEvery = 0
  Timeouts = TRUE
INVARIANTS ExitDrains
PROPERTIES IsBlockLog EveryTxProved
CHECK_DEADLOCK FALSE
