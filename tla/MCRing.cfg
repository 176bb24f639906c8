SPECIFICATION FairSpec
CONSTANTS
  Capacity = 4
  Items = {a, b}
  MaxItems = 6
  Rings <- AllRings
INVARIANTS TypeOK NoRace DeliveredInOrder NothingOverwritten FinalDrainComplete
PROPERTIES EveryItemDelivered ConsumerJoins IsBoundedQueue
