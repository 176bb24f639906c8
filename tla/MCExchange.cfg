SPECIFICATION ManagerSpec
CONSTANTS
  Ids = {i1, i2, i3, i4, i5}
  Prices = {0, 1, 2}
  NewOrders <- ExchangeOrders
  Amendments = {}
  QtyMod = 16
  MaxOrders = 5
  Discipline = {"ids", "requeues"}
SYMMETRY IdSymmetry
INVARIANTS BookConsistent QuantityConserved NoCrossedBook VolumeCoversOrders Exclusive StopsInArrivalOrder StreamAccounts TradesNameTheSides SnapshotShowsOpen EveryOrderHeard
PROPERTIES EveryStepProgresses
