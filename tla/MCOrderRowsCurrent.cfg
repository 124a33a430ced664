CONSTANTS
  c1 = c1
  p1 = p1
  p2 = p2
  w1 = w1
  Orders = {o1, o2}
  Couriers = {c1}
  CourierOf <- MCCourierOf
  Answers <- MCAnswers
  Pods = {p1, p2}
  Workers = {w1, w2}
  PodOf <- MCPodOf
  Prefetch = 2
  Nothing = Nothing
  MaxResets = 1
  MaxPending = 3
SPECIFICATION RowsSpec
INVARIANT RowIsCurrent
\* The system stops when every order is over and its events are projected.
CHECK_DEADLOCK FALSE
