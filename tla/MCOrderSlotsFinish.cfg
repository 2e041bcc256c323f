SPECIFICATION Spec
CONSTANTS
  u1 = u1
  u2 = u2
  u3 = u3
  Users <- MCUsers2
  NumSlots = 1
  Totals <- MCTotals
  MaxOrders = 6
  MaxMatches = 2
  MaxRestarts = 0
INVARIANTS FillsAgree
SYMMETRY Symmetry2
CHECK_DEADLOCK FALSE
