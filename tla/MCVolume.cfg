SPECIFICATION GatewaySpec
CONSTANTS
  Ids = {i1, i2, i3}
  Prices = {0, 1}
  NewOrders <- OnlyLimits
  Amendments = {}
  QtyMod = 16
  MaxOrders = 3
  Discipline = {"ids", "requeues"}
SYMMETRY IdSymmetry
INVARIANTS VolumeConsistent
