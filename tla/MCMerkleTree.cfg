SPECIFICATION Spec
CONSTANTS
  empty = empty
  v = v
  Height = 3
  Values <- MCValues
  Default <- empty
  Written <- MCWritten
  Hash <- MCHash
  Parallels <- MCParallels
  MaxUpdates = 3
INVARIANTS TypeOK UpdatesApplied ProofsVerify
PROPERTIES PathStable
CHECK_DEADLOCK FALSE
