CONSTANTS
  pizza = pizza
  k1 = k1
  c1 = c1
  c2 = c2
  o1 = o1
  Orders = {o1}
  Restaurants = {pizza}
  RestaurantOf <- MCRestaurantOf
  Kitchens = {k1}
  ServedBy <- MCServedBy
  Couriers = {c1, c2}
  DispatchQueue = DispatchQueue
  NoMessage = NoMessage
  RejectEvery = 2
  MaxTicks = 1
  MaxStops = 1
  MaxFaults = 1
  MaxLate = 1
SYMMETRY CourierSymmetry
SPECIFICATION Spec
INVARIANTS TypeOK MessageAccounted AckMeansDone CausalScript OnlyFailuresDeadLetter RepeatsAreRequeues EndIsLast
