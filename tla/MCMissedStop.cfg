SPECIFICATION GatewaySpec
CONSTANTS
  Ids = {i1, i2, i3, i4, i5}
  Prices = {0, 1, 2}
  NewOrders <- StopOrders
  Amendments = {}
  QtyMod = 16
  MaxOrders = 6
  Discipline = {"ids", "requeues"}
SYMMETRY IdSymmetry
INVARIANTS NoMissedStop
