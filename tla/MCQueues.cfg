SPECIFICATION Spec
CONSTANTS
  Ids = {i1, i2, i3}
  Prices = {0, 1, 2}
  NewOrders <- QueueOrders
  Amendments <- QueueAmendments
  QtyMod = 16
  MaxOrders = 4
  Discipline = {"ids", "requeues"}
SYMMETRY IdSymmetry
INVARIANTS TypeOK BookConsistent QuantityConserved FrontIsKnown
PROPERTIES PriceTimePriority
