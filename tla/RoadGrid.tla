------------------------------ MODULE RoadGrid ------------------------------
(***************************************************************************)
(* The streets of Dispatch City: a square of 21 tiles with a road on every *)
(* fourth row and column, and the path a courier takes between two points. *)
(* A coordinate counts parts of a tile, Unit parts to the tile; the code's *)
(* tolerance of 0.001 is below one part, so "same" is equality here.       *)
(***************************************************************************)
EXTENDS Integers, Sequences

CONSTANT Unit

ASSUME UnitAssumption == Unit \in Nat \ {0}

CityGridSize == 21
RoadSpacing == 4 * Unit
Edge == (CityGridSize - 1) * Unit

Position == [x : 0..Edge, y : 0..Edge]
At(x, y) == [x |-> x * Unit, y |-> y * Unit]

Abs(n) == IF n < 0 THEN -n ELSE n

\* math.Round on a coordinate of the city: halves go up.
nearestRoad(v) == ((2 * v + RoadSpacing) \div (2 * RoadSpacing)) * RoadSpacing

isRoadCoordinate(v) == v = nearestRoad(v)

IsOnRoad(p) == isRoadCoordinate(p.x) \/ isRoadCoordinate(p.y)

Crossings == {p \in Position : isRoadCoordinate(p.x) /\ isRoadCoordinate(p.y)}

clamp(v) == IF v < 0 THEN 0 ELSE IF v > Edge THEN Edge ELSE v

clampPosition(p) == [x |-> clamp(p.x), y |-> clamp(p.y)]

\* Mutant of SnapToRoad: to the nearest crossing instead of the nearest road.
SnapToCrossing(p) == [x |-> nearestRoad(p.x), y |-> nearestRoad(p.y)]

SnapToRoad(p) ==
  clampPosition(
    IF IsOnRoad(p) THEN p
    ELSE IF Abs(p.x - nearestRoad(p.x)) <= Abs(p.y - nearestRoad(p.y))
         THEN [p EXCEPT !.x = nearestRoad(p.x)]
         ELSE [p EXCEPT !.y = nearestRoad(p.y)])

\* Mutants of Corner: the courier always leaves along its row; no corner.
CornerByRow(f, t) == [x |-> t.x, y |-> f.y]
CornerMissing(f, t) == t

\* The way leaves along the road the courier stands on.
Corner(f, t) ==
  IF isRoadCoordinate(f.y) THEN [x |-> t.x, y |-> f.y] ELSE [x |-> f.x, y |-> t.y]

RoadPath(from, to) ==
  LET f == SnapToRoad(from)
      t == SnapToRoad(to)
  IN  IF f = t THEN <<f>>
      ELSE IF Corner(f, t) \in {f, t} THEN <<f, t>>
      ELSE <<f, Corner(f, t), t>>

\* Length of a straight or of a rectangular way.
Distance(p, q) == Abs(p.x - q.x) + Abs(p.y - q.y)

\* A straight segment keeps to one road.
OneRoad(p, q) ==
  \/ p.x = q.x /\ isRoadCoordinate(p.x)
  \/ p.y = q.y /\ isRoadCoordinate(p.y)
=============================================================================
