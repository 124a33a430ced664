CONSTANTS
  pizza = pizza
  k1 = k1
  c1 = c1
  c2 = c2
  o1 = o1
  o2 = o2
  Orders = {o1, o2}
  Restaurants = {pizza}
  RestaurantOf <- MCRestaurantOf
  Kitchens = {k1}
  ServedBy <- MCServedBy
  Couriers = {c1}
  DispatchQueue = DispatchQueue
  NoMessage = NoMessage
  RejectEvery = 3
  MaxTicks = 0
  MaxStops = 1
  MaxFaults = 1
  MaxLate = 1
SPECIFICATION FairSpec
PROPERTY EveryOrderEnds
