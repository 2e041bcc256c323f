SPECIFICATION FairSpec
CONSTANTS
  Kinds <- MCKinds
  MaxMsgs = 4
  MaxErrors = 1
  MaxExpired = 3
  MaxRestarts = 1
INVARIANTS TypeOK InOrder NothingSkipped
PROPERTIES EventuallyReceived
CHECK_DEADLOCK FALSE
