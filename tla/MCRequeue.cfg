SPECIFICATION Spec
CONSTANTS
  Ids = {i1, i2, i3}
  Prices = {0, 1}
  NewOrders <- TwoAndTaker
  Amendments <- GrowQuantity
  QtyMod = 16
  MaxOrders = 3
  Discipline = {"ids"}
SYMMETRY IdSymmetry
INVARIANTS FrontIsKnown
