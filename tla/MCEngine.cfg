CONSTANTS
  Couriers = {1, 2}
  Orders = {1, 2, 3}
  OrderEvery = 3
  MaxLeg = 2
  MaxCommands = 2
SPECIFICATION FairSpec
CHECK_DEADLOCK FALSE
INVARIANTS TypeOK PairedUp DeliveredCounted
PROPERTY EveryOrderDelivered
