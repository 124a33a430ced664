CONSTANTS
  Unit = 100
  Starts <- MCStarts
  Restaurants <- MCRestaurants
  Homes <- MCHomes
  Shifts <- MCShifts
SPECIFICATION FairSpec
INVARIANT StaysNearRoad
PROPERTIES ProgressGrows EveryTripEnds
