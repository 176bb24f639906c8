SPECIFICATION BenchmarkSpec
CONSTANTS
  Ids = {1, 2, 3}
  Prices = {0, 1, 2, 3, 4}
  NewOrders = {}
  Amendments = {}
  QtyMod = 16
  MaxOrders = 3
  Discipline = {}
  MidPrice = 2
  Offsets <- AroundMid
  Spreads = {1}
  Quantities = {1, 2}
  Timings <- ClockReadings
  MaxEvents = 3
INVARIANT DocumentedTable
