SPECIFICATION Spec
CONSTANTS
  AccountBits = 1
  TokenBits = 1
  OrderBits = 1
  AmountBits = 4
  OrderIdBits = 2
  KeyBits = 4
  SigBits = 4
  ExpBits = 1
  NTx = 2
  Txs <- MCTxs
INVARIANTS TypeOK DecodesBack EncodingStops EncodersAgree
CHECK_DEADLOCK FALSE
