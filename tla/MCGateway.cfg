SPECIFICATION FairSpec
CONSTANTS
  InboundBound = 2
  OutboundBound = 1
  ReplayBound = 2
  Instruments = 1
  Traffic <- Mixed
  MaxOrders = 3
  EventCount <- OneTrade
  MaxExpiries = 1
INVARIANTS EverythingCounted InOrder ConsumersEndLast AtMostOneStranded
PROPERTIES OrdersProcessed ShutdownCompletes SnapshotsComeOut
