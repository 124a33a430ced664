CONSTANTS
  c1 = c1
  p1 = p1
  o1 = o1
  Orders = {o1, o2}
  Couriers = {c1}
  CourierOf <- MCCourierOf
  Answers <- MCAnswers
  Pods = {p1}
  Workers = {w1}
  PodOf <- MCPodOf
  Prefetch = 1
  Nothing = Nothing
  Limit = 1
  UpdatedAt <- MCUpdatedAt
  MaxResets = 1
  MaxPending = 1
  MaxFaults = 1
SPECIFICATION FairSpec
PROPERTY Converges
