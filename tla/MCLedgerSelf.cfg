SPECIFICATION QuerySpec
CONSTANTS
  a1 = a1
  a2 = a2
  t0 = t0
  t1 = t1
  Accounts <- MCAccounts
  Tokens <- MCTokens
  FakeToken <- t0
  Amounts <- MCAmounts
  MaxTxs = 4
SYMMETRY Symmetry
INVARIANTS BalanceBeforeHolds
CHECK_DEADLOCK FALSE
