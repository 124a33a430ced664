CONSTANTS
  c1 = c1
  pizza = pizza
  agent = agent
  Orders = {o1, o2}
  Couriers = {c1}
  CourierOf <- MCCourierOf
  RestaurantOf <- MCRestaurantOf
  CustomerOf <- MCCustomerOf
  Answers <- MCAnswers
  Pods = {p1, p2}
  p1 = p1
  p2 = p2
  w3 = w3
  Workers = {w1, w2, w3}
  PodOf <- MCPodOf
  Prefetch = 2
  Migrators = {m1}
  Nothing = Nothing
  MaxResets = 1
  MaxFaults = 1
  MaxPending = 2
SYMMETRY MCSymmetry
SPECIFICATION Spec
INVARIANTS ProjectionsNeverDeadlock UndisputedRowIsCurrent UndisputedFleetIsCurrent DrainedResetClears
\* The system stops when every order is over and its events are projected.
CHECK_DEADLOCK FALSE
