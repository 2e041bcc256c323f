SPECIFICATION Spec
CONSTANTS
  u1 = u1
  u2 = u2
  u3 = u3
  Users <- MCUsers3
  NumSlots = 2
  Totals <- MCTotals
  MaxOrders = 5
  MaxMatches = 2
  MaxRestarts = 1
INVARIANTS TypeOK SlotsContiguous SlotMapConsistent OpenOrderKept ReloadAgrees ChecksPass
PROPERTIES SlotIdsIncrease
SYMMETRY Symmetry3
CHECK_DEADLOCK FALSE
