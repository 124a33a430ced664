CONSTANTS
  Customers = {s1}
  Replicas = {a1, a2}
  MaxCommands = 2
  MaxLosses = 1
SPECIFICATION FairSpec
INVARIANTS TypeOK FollowsLast OneStraggler
PROPERTY PauseEndsOrders
\* A paused system does nothing once the bounds are used up.
CHECK_DEADLOCK FALSE
