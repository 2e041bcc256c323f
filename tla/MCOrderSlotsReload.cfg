SPECIFICATION Spec
CONSTANTS
  u1 = u1
  u2 = u2
  u3 = u3
  Users <- MCUsers2
  NumSlots = 2
  Totals <- MCTotals
  MaxOrders = 6
  MaxMatches = 2
  MaxRestarts = 1
INVARIANTS FinishFindsOrder
SYMMETRY Symmetry2
CHECK_DEADLOCK FALSE
