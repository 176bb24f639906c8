SPECIFICATION GatewaySpec
CONSTANTS
  Ids = {i1, i2}
  Prices = {0, 1}
  NewOrders <- CrossingIcebergs
  Amendments = {}
  QtyMod = 16
  MaxOrders = 2
  Discipline = {"ids", "requeues"}
SYMMETRY IdSymmetry
INVARIANTS NoCrossedBook
