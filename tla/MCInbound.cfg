SPECIFICATION Spec
CONSTANTS
  InboundBound = 2
  OutboundBound = 1
  ReplayBound = 2
  Instruments = 1
  Traffic <- Mixed
  MaxOrders = 3
  EventCount <- OneTrade
  MaxExpiries = 0
INVARIANTS InboundDrained
