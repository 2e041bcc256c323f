SPECIFICATION Spec
CONSTANTS
  Kinds <- MCKindsSelf
  MaxMsgs = 4
  MaxErrors = 0
  MaxExpired = 0
  MaxRestarts = 2
  NTx = 2
  PersistEvery = 2
  Timeouts = TRUE
INVARIANTS TypeOK AppliedExactlyOnce DumpExact ChainLinked DivergenceExplained
PROPERTIES PagesSkipNothing
CHECK_DEADLOCK FALSE
