SPECIFICATION FairSpec
CONSTANTS
  a1 = a1
  a2 = a2
  t0 = t0
  t1 = t1
  s0 = s0
  o0 = o0
  o1 = o1
  k1 = k1
  k2 = k2
  w1 = w1
  w2 = w2
  Accounts <- MCAccounts
  Tokens <- MCTokens
  FakeToken <- t0
  Slots <- MCSlots
  Balances <- MCBalances
  OrderHashes <- MCOrderHashes
  DefaultOrder <- o0
  Keys <- MCKeys
  NoKey = NoKey
  Workers <- MCWorkers
  SelfTransfers = TRUE
  MaxTxs = 3
INVARIANTS TypeOK RootsAgree BatchIsSerial LoadsBack
PROPERTIES AnswersCommitted BatchEnds
CHECK_DEADLOCK FALSE
