SPECIFICATION ReplaySpec
CONSTANTS
  Ids = {i1, i2, i3}
  Prices = {0, 1, 2}
  NewOrders <- ReplayOrders
  Amendments <- ReplayAmendments
  QtyMod = 16
  MaxOrders = 4
  Discipline = {"ids", "requeues"}
  Noise <- SkippedLines
  MaxLines = 2
SYMMETRY IdSymmetry
INVARIANTS ReplayReproduces VerdictExact OnlyCompleteLoaded RestoredAgrees
