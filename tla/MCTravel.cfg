CONSTANTS
  Unit = 1
  Starts <- MCStarts
  Places <- MCPlaces
SPECIFICATION Spec
INVARIANTS StaysOnRoads ShortestWay
