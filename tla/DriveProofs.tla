---------------------------- MODULE DriveProofs ----------------------------
(***************************************************************************)
(* Theorems of Drive for any crossings that couriers start from, and that  *)
(* restaurants and homes are at, and any shifts within the code's range.   *)
(***************************************************************************)
EXTENDS Drive, WellFoundedInduction, TLAPS

-----------------------------------------------------------------------------
(***************************************************************************)
(* Arithmetic.                                                             *)
(***************************************************************************)

LEMMA SquaresGrow ==
  ASSUME NEW a \in Nat, NEW b \in Nat
  PROVE  /\ a <= b => a * a <= b * b
         /\ a < b => a * a < b * b
<1>1. ASSUME a <= b PROVE a * a <= a * b /\ a * b <= b * b
  BY <1>1
<1>2. ASSUME a < b PROVE a * a < b * b
  <2>1. a * a <= a * b /\ a * b = b * a /\ a + 1 <= b
    BY <1>1, <1>2
  <2>2. b * b = (b - a) * b + a * b
    OBVIOUS
  <2>3. (b - a) * b > 0
    BY <1>2
  <2> QED BY <2>1, <2>2, <2>3
<1>3. a * a \in Nat /\ a * b \in Nat /\ b * b \in Nat
  OBVIOUS
<1> QED BY <1>1, <1>2, <1>3

\* Every natural number has a root in whole numbers.
LEMMA RootExists ==
  ASSUME NEW h \in Nat
  PROVE  \E d \in Nat : d * d <= h /\ h < (d + 1) * (d + 1)
<1> DEFINE T == {n \in Nat : h < (n + 1) * (n + 1)}
<1>1. h \in T
  <2>1. (h + 1) * (h + 1) = h * h + h + h + 1 /\ h * h \in Nat
    OBVIOUS
  <2> QED BY <2>1
<1>2. PICK d \in T : \A y \in T : ~(<<y, d>> \in OpToRel(<, Nat))
  <2>1. T \subseteq Nat /\ T # {}
    BY <1>1
  <2> HIDE DEF T
  <2> QED BY <2>1, NatLessThanWellFounded, WFMin, Zenon
<1>3. \A y \in T : ~(y < d)
  BY <1>2 DEF OpToRel
<1>4. CASE d = 0
  BY <1>4
<1>5. CASE d # 0
  <2>1. d - 1 \in Nat /\ d - 1 \notin T
    BY <1>3, <1>5
  <2>2. ~(h < (d - 1 + 1) * (d - 1 + 1)) /\ d - 1 + 1 = d
    BY <2>1
  <2>3. d * d \in Int
    OBVIOUS
  <2> QED BY <2>2, <2>3
<1> QED BY <1>4, <1>5

\* A share of a displacement is no longer than the displacement.
LEMMA ShareBounded ==
  ASSUME NEW d \in Nat, NEW step \in Nat, NEW n \in Nat, n > 0, step <= n
  PROVE  (d * step) \div n \in 0..d
<1> DEFINE q == (d * step) \div n
           r == (d * step) % n
<1>1. d * step \in Nat /\ d * step <= d * n
  OBVIOUS
<1>2. q \in Int /\ r \in 0..(n - 1) /\ d * step = n * q + r
  BY <1>1
<1> HIDE DEF q, r
<1>3. q >= 0
  <2> SUFFICES ASSUME q <= -1 PROVE FALSE
    BY <1>2
  <2>1. n * q <= n * (-1)
    BY <1>2
  <2> QED BY <1>1, <1>2, <2>1
<1>4. q <= d
  <2> SUFFICES ASSUME q >= d + 1 PROVE FALSE
    BY <1>2
  <2>1. n * q >= n * (d + 1)
    BY <1>2
  <2>2. n * (d + 1) = d * n + n
    OBVIOUS
  <2> QED BY <1>1, <1>2, <2>1, <2>2
<1> QED BY <1>2, <1>3, <1>4 DEF q

\* The whole root of a sum of two squares lies between the larger one of the
\* two and the sum.
LEMMA RootBetween ==
  ASSUME NEW a \in Nat, NEW b \in Nat
  PROVE  \E d \in Larger(a, b)..(a + b) :
           d * d <= a * a + b * b /\ a * a + b * b < (d + 1) * (d + 1)
<1> DEFINE h == a * a + b * b
<1>1. a * a \in Nat /\ b * b \in Nat /\ h \in Nat
  OBVIOUS
<1>2. PICK d \in Nat : d * d <= h /\ h < (d + 1) * (d + 1)
  BY <1>1, RootExists
<1>3. a < d + 1
  <2> SUFFICES ASSUME d + 1 <= a PROVE FALSE
    OBVIOUS
  <2>1. (d + 1) * (d + 1) <= a * a
    BY SquaresGrow
  <2> QED BY <1>1, <1>2, <2>1
<1>4. b < d + 1
  <2> SUFFICES ASSUME d + 1 <= b PROVE FALSE
    OBVIOUS
  <2>1. (d + 1) * (d + 1) <= b * b
    BY SquaresGrow
  <2> QED BY <1>1, <1>2, <2>1
<1>5. d <= a + b
  <2> SUFFICES ASSUME a + b < d PROVE FALSE
    OBVIOUS
  <2>1. (a + b) * (a + b) < d * d
    BY SquaresGrow
  <2>2. (a + b) * (a + b) = h + 2 * (a * b) /\ a * b \in Nat
    OBVIOUS
  <2> QED BY <1>1, <1>2, <2>1, <2>2
<1> QED BY <1>2, <1>3, <1>4, <1>5 DEF Larger

-----------------------------------------------------------------------------
(***************************************************************************)
(* The grid.                                                               *)
(***************************************************************************)

LEMMA EdgeIsNat == Edge \in Nat
  BY DriveAssumption DEF Edge, CityGridSize

LEMMA Spacing == RoadSpacing = 400
  BY DriveAssumption DEF RoadSpacing

LEMMA EdgeOnRoad == Edge - 5 * 400 = 0
  BY DriveAssumption DEF Edge, CityGridSize

\* Roads are the multiples of 400, each the nearest one of what is around it.
LEMMA NearestRoad ==
  ASSUME NEW v \in Int
  PROVE  \E q \in Int : nearestRoad(v) = 400 * q /\ 400 * q - 200 <= v /\ v < 400 * q + 200
<1> DEFINE q == (2 * v + 400) \div 800
<1>1. q \in Int /\ 800 * q <= 2 * v + 400 /\ 2 * v + 400 < 800 * q + 800
  OBVIOUS
<1>2. nearestRoad(v) = q * 400
  BY Spacing DEF nearestRoad
<1> HIDE DEF q
<1> QED BY <1>1, <1>2

LEMMA NearestUnique ==
  ASSUME NEW v \in Int, NEW q \in Int, 400 * q - 200 <= v, v < 400 * q + 200
  PROVE  nearestRoad(v) = 400 * q
<1>1. PICK r \in Int : nearestRoad(v) = 400 * r /\ 400 * r - 200 <= v /\ v < 400 * r + 200
  BY NearestRoad
<1>2. r = q
  BY <1>1
<1> QED BY <1>1, <1>2

\* How far a coordinate is from the nearest road.
Off(v) == Abs(v - nearestRoad(v))

\* A coordinate that is closer to its nearest road than another one has the
\* same nearest road.
LEMMA CloserKeepsRoad ==
  ASSUME NEW v \in 0..Edge, NEW u \in 0..Edge, Off(v) <= 15, Abs(u - nearestRoad(v)) <= 15
  PROVE  Off(u) <= 15
<1>1. PICK q \in Int : nearestRoad(v) = 400 * q
  BY EdgeIsNat, NearestRoad
<1>2. 400 * q - 200 <= u /\ u < 400 * q + 200
  BY EdgeIsNat, <1>1 DEF Abs
<1>3. nearestRoad(u) = 400 * q
  BY EdgeIsNat, <1>2, NearestUnique
<1> QED BY <1>1, <1>3 DEF Off

\* The nearest road is a road of the city.
LEMMA RoadIsRoad ==
  ASSUME NEW v \in 0..Edge
  PROVE  nearestRoad(v) \in 0..Edge /\ isRoadCoordinate(nearestRoad(v))
<1>1. PICK q \in Int : nearestRoad(v) = 400 * q /\ 400 * q - 200 <= v /\ v < 400 * q + 200
  BY EdgeIsNat, NearestRoad
<1>2. q \in 0..5
  BY EdgeIsNat, EdgeOnRoad, <1>1
<1>3. nearestRoad(400 * q) = 400 * q
  BY NearestUnique
<1> QED BY EdgeIsNat, EdgeOnRoad, <1>1, <1>2, <1>3 DEF isRoadCoordinate

Near(p) == Off(p.x) <= 15 \/ Off(p.y) <= 15

\* Crossings and customers' homes: on a street along the x axis, close to a
\* crossing.
Place == {g \in Position : isRoadCoordinate(g.y) /\ Off(g.x) <= 15}

LEMMA RoadIsNear == ASSUME NEW v \in 0..Edge, isRoadCoordinate(v) PROVE Off(v) = 0
  BY EdgeIsNat DEF isRoadCoordinate, Off, Abs

LEMMA CrossingsArePlaces == Crossings \subseteq Place
  BY RoadIsNear DEF Crossings, Place, Position

\* A point of the city on a road is left where it is.
LEMMA SnapOnRoad ==
  ASSUME NEW p \in Position, IsOnRoad(p)
  PROVE  SnapToRoad(p) = p
<1>1. clampPosition(p) = [x |-> p.x, y |-> p.y]
  <2>1. \A v \in 0..Edge : clamp(v) = v
    BY EdgeIsNat DEF clamp
  <2>2. p.x \in 0..Edge /\ p.y \in 0..Edge
    BY DEF Position
  <2> QED BY <2>1, <2>2 DEF clampPosition
<1>2. p = [x |-> p.x, y |-> p.y]
  BY DEF Position
<1> QED BY <1>1, <1>2 DEF SnapToRoad

LEMMA ShiftsStayNear ==
  ASSUME NEW a \in 0..Edge, isRoadCoordinate(a), a \notin {0, Edge}, NEW s \in -15..15
  PROVE  a + s \in 0..Edge /\ Off(a + s) <= 15
<1>1. nearestRoad(a) = a
  BY DEF isRoadCoordinate
<1>2. PICK q \in Int : a = 400 * q
  BY <1>1, EdgeIsNat, NearestRoad
<1>3. q \in 1..4
  BY <1>2, EdgeIsNat, EdgeOnRoad
<1>4. a + s \in 0..Edge
  BY <1>2, <1>3, EdgeIsNat, EdgeOnRoad
<1>5. PICK u \in 0..Edge : u = a + s
  BY <1>4
<1>6. Abs(u - nearestRoad(a)) <= 15
  BY <1>1, <1>5, EdgeIsNat DEF Abs
<1>7. Off(a) <= 15
  BY RoadIsNear
<1> QED BY <1>5, <1>6, <1>7, CloserKeepsRoad

LEMMA HomesArePlaces == CustomerHomes \subseteq Place
<1> DEFINE Home(h, s) == SnapToRoad(IF h.x \in {0, Edge} THEN h ELSE [h EXCEPT !.x = @ + s])
<1>0. CustomerHomes = {Home(h, s) : h \in Homes, s \in Shifts}
  BY DEF CustomerHomes
<1> HIDE DEF Home
<1> SUFFICES ASSUME NEW h \in Homes, NEW s \in Shifts PROVE Home(h, s) \in Place
  BY <1>0
<1> USE DEF Home
<1>1. h \in Crossings /\ s \in -15..15
  BY DriveAssumption
<1>2. h \in Place /\ h \in Position /\ IsOnRoad(h) /\ isRoadCoordinate(h.x) /\ isRoadCoordinate(h.y)
  BY <1>1, CrossingsArePlaces DEF Crossings, IsOnRoad
<1>3. CASE h.x \in {0, Edge}
  BY <1>2, <1>3, SnapOnRoad
<1>4. CASE h.x \notin {0, Edge}
  <2> DEFINE g == [h EXCEPT !.x = @ + s]
  <2>1. h.x \in 0..Edge /\ h.y \in 0..Edge
    BY <1>2 DEF Position
  <2>2. g = [x |-> h.x + s, y |-> h.y]
    BY <1>2 DEF Position
  <2>3. h.x + s \in 0..Edge /\ Off(h.x + s) <= 15
    BY <1>1, <1>2, <1>4, <2>1, ShiftsStayNear
  <2> HIDE DEF g
  <2>4. g.x = h.x + s /\ g.y = h.y
    BY <2>2
  <2>6. g \in Place /\ g \in Position /\ IsOnRoad(g)
    BY <1>2, <2>1, <2>2, <2>3, <2>4 DEF Place, Position, IsOnRoad
  <2> QED BY <1>4, <2>6, SnapOnRoad DEF g
<1> QED BY <1>3, <1>4

-----------------------------------------------------------------------------
(***************************************************************************)
(* One step.                                                               *)
(***************************************************************************)

\* Two different points are apart.
LEMMA HypotPositive ==
  ASSUME NEW p \in Position, NEW q \in Position, p # q
  PROVE  Hypot(p, q) \in Nat /\ Hypot(p, q) > 0
<1> DEFINE a == Abs(p.x - q.x)
           b == Abs(p.y - q.y)
<1>1. /\ p.x \in 0..Edge /\ p.y \in 0..Edge /\ q.x \in 0..Edge /\ q.y \in 0..Edge
      /\ p.x # q.x \/ p.y # q.y
  BY DEF Position
<1>2. a \in Nat /\ b \in Nat /\ (a > 0 \/ b > 0)
  BY <1>1, EdgeIsNat DEF Abs
<1>3. a * a = Square(p.x - q.x) /\ b * b = Square(p.y - q.y)
  BY <1>1, EdgeIsNat DEF Abs, Square
<1>4. Distance(p, q) = a + b
  BY DEF Distance
<1> HIDE DEF a, b
<1>5. CASE p.x = q.x \/ p.y = q.y
  BY <1>2, <1>4, <1>5 DEF Hypot
<1>6. CASE ~(p.x = q.x \/ p.y = q.y)
  <2> DEFINE Root(d) == Square(d) <= Hypot2(p, q) /\ Hypot2(p, q) < Square(d + 1)
  <2>1. Hypot(p, q) = CHOOSE d \in Larger(a, b)..(a + b) : Root(d)
    BY <1>4, <1>6 DEF Hypot, a, b
  <2>2. \E d \in Larger(a, b)..(a + b) : Root(d)
    BY <1>2, <1>3, RootBetween DEF Square, Hypot2
  <2> HIDE DEF Root
  <2>3. Hypot(p, q) \in Larger(a, b)..(a + b)
    BY <2>1, <2>2
  <2> QED BY <1>2, <2>3 DEF Larger
<1> QED BY <1>5, <1>6

Between(a, b, c) == (a <= b /\ b <= c) \/ (c <= b /\ b <= a)

LEMMA PartBounded ==
  ASSUME NEW d \in Int, NEW step \in Nat, NEW n \in Nat, n > 0, step <= n
  PROVE  Part(d, step, n) \in Int /\ Between(0, Part(d, step, n), d)
<1>1. CASE d >= 0
  BY <1>1, ShareBounded DEF Part, Between
<1>2. CASE d < 0
  <2>1. -d \in Nat /\ (-d) * step = -(d * step)
    BY <1>2
  <2>2. ((-d) * step) \div n \in 0..(-d)
    BY <2>1, ShareBounded
  <2>3. Part(d, step, n) = -(((-d) * step) \div n)
    BY <1>2, <2>1 DEF Part
  <2> HIDE DEF Part
  <2> QED BY <1>2, <2>2, <2>3 DEF Between
<1> QED BY <1>1, <1>2

\* A step towards a waypoint ends between the two.
LEMMA MovedBetween ==
  ASSUME NEW p \in Position, NEW way \in Seq(Position), Len(way) >= 2
  PROVE  /\ Moved(p, way) \in Position
         /\ Between(p.x, Moved(p, way).x, way[2].x)
         /\ Between(p.y, Moved(p, way).y, way[2].y)
<1> DEFINE g == way[2]
           d == Hypot(p, g)
           dx == Part(g.x - p.x, Step(d), d)
           dy == Part(g.y - p.y, Step(d), d)
<1>1. g \in Position
  OBVIOUS
<1>2. p.x \in 0..Edge /\ p.y \in 0..Edge /\ g.x \in 0..Edge /\ g.y \in 0..Edge
  BY <1>1 DEF Position
<1>3. CASE p = g
  <2>1. Moved(p, way) = p
    BY <1>3 DEF Moved
  <2> QED BY <1>2, <1>3, <2>1, EdgeIsNat DEF Between
<1>4. CASE p # g
  <2>1. Moved(p, way) = [x |-> p.x + dx, y |-> p.y + dy]
    BY <1>4 DEF Moved
  <2>2. d \in Nat /\ d > 0
    BY <1>1, <1>4, HypotPositive
  <2> HIDE DEF g, d
  <2>3. Step(d) \in Nat /\ Step(d) <= d
    BY <2>2 DEF Step, Least
  <2>4. g.x - p.x \in Int /\ g.y - p.y \in Int
    BY <1>2, EdgeIsNat
  <2>5. dx \in Int /\ Between(0, dx, g.x - p.x) /\ dy \in Int /\ Between(0, dy, g.y - p.y)
    BY <2>2, <2>3, <2>4, PartBounded
  <2> HIDE DEF dx, dy
  <2>6. \A u, v \in 0..Edge, w \in Int :
          Between(0, w, v - u) => u + w \in 0..Edge /\ Between(u, u + w, v)
    BY EdgeIsNat DEF Between
  <2>7. p.x + dx \in 0..Edge /\ Between(p.x, p.x + dx, g.x)
    BY <1>2, <2>5, <2>6
  <2>8. p.y + dy \in 0..Edge /\ Between(p.y, p.y + dy, g.y)
    BY <1>2, <2>5, <2>6
  <2> QED BY <2>1, <2>7, <2>8 DEF Position, g
<1> QED BY <1>3, <1>4

\* A path starts on the road that the courier is close to.
LEMMA SnapNear ==
  ASSUME NEW p \in Position, Near(p)
  PROVE  LET f == SnapToRoad(p) IN
         \/ /\ Off(p.x) <= 15 /\ ~isRoadCoordinate(p.y)
            /\ f = [x |-> nearestRoad(p.x), y |-> p.y]
         \/ /\ Off(p.y) <= 15
            /\ f = [x |-> p.x, y |-> nearestRoad(p.y)]
<1>1. p.x \in 0..Edge /\ p.y \in 0..Edge /\ p = [x |-> p.x, y |-> p.y]
  BY DEF Position
<1>2. CASE IsOnRoad(p)
  <2>1. SnapToRoad(p) = p
    BY <1>2, SnapOnRoad
  <2>2. CASE isRoadCoordinate(p.y)
    BY <1>1, <2>1, <2>2, RoadIsNear, EdgeIsNat DEF isRoadCoordinate
  <2>3. CASE ~isRoadCoordinate(p.y)
    <3>1. isRoadCoordinate(p.x)
      BY <1>2, <2>3 DEF IsOnRoad
    <3> QED BY <1>1, <2>1, <2>3, <3>1, RoadIsNear, EdgeIsNat DEF isRoadCoordinate
  <2> QED BY <2>2, <2>3
<1>3. CASE ~IsOnRoad(p)
  <2>1. \A v \in 0..Edge : clamp(v) = v
    BY EdgeIsNat DEF clamp
  <2>2. Off(p.x) \in Int /\ Off(p.y) \in Int /\ nearestRoad(p.x) \in 0..Edge /\ nearestRoad(p.y) \in 0..Edge
    BY <1>1, RoadIsRoad, EdgeIsNat DEF Off, Abs
  <2>3. CASE Off(p.x) <= Off(p.y)
    <3>1. [p EXCEPT !.x = nearestRoad(p.x)] = [x |-> nearestRoad(p.x), y |-> p.y]
      BY <1>1
    <3>2. SnapToRoad(p) = clampPosition([x |-> nearestRoad(p.x), y |-> p.y])
      BY <1>3, <2>3, <3>1 DEF SnapToRoad, Off
    <3>3. SnapToRoad(p) = [x |-> nearestRoad(p.x), y |-> p.y]
      BY <1>1, <2>1, <2>2, <3>2 DEF clampPosition
    <3>4. Off(p.x) <= 15
      BY <2>2, <2>3 DEF Near
    <3> QED BY <1>3, <3>3, <3>4 DEF IsOnRoad
  <2>4. CASE ~(Off(p.x) <= Off(p.y))
    <3>1. [p EXCEPT !.y = nearestRoad(p.y)] = [x |-> p.x, y |-> nearestRoad(p.y)]
      BY <1>1
    <3>2. SnapToRoad(p) = clampPosition([x |-> p.x, y |-> nearestRoad(p.y)])
      BY <1>3, <2>4, <3>1 DEF SnapToRoad, Off
    <3>3. SnapToRoad(p) = [x |-> p.x, y |-> nearestRoad(p.y)]
      BY <1>1, <2>1, <2>2, <3>2 DEF clampPosition
    <3>4. Off(p.y) <= 15
      BY <2>2, <2>4 DEF Near
    <3> QED BY <3>3, <3>4
  <2> QED BY <2>3, <2>4
<1> QED BY <1>2, <1>3

\* The first waypoint lies on the road that the courier is close to, or
\* straight ahead on the column of the courier and its goal.
Ahead(p, g) ==
  \/ Off(p.x) <= 15 /\ g.x \in {p.x, nearestRoad(p.x)}
  \/ Off(p.y) <= 15 /\ g.y = nearestRoad(p.y)

LEMMA WayAhead ==
  ASSUME NEW p \in Position, Near(p), NEW t \in Place
  PROVE  /\ RoadPath(p, t) \in Seq(Position)
         /\ Len(RoadPath(p, t)) >= 2 => Ahead(p, RoadPath(p, t)[2])
<1> DEFINE f == SnapToRoad(p)
           c == Corner(f, t)
<1>1. /\ p.x \in 0..Edge /\ p.y \in 0..Edge
      /\ nearestRoad(p.x) \in 0..Edge /\ nearestRoad(p.y) \in 0..Edge
      /\ isRoadCoordinate(nearestRoad(p.y))
  <2>1. p.x \in 0..Edge /\ p.y \in 0..Edge
    BY DEF Position
  <2> QED BY <2>1, RoadIsRoad
<1>2. /\ t \in Position /\ t.x \in 0..Edge /\ t.y \in 0..Edge /\ t = [x |-> t.x, y |-> t.y]
      /\ isRoadCoordinate(t.y) /\ Off(t.x) <= 15
  BY DEF Place, Position
<1>3. SnapToRoad(t) = t
  BY <1>2, SnapOnRoad DEF IsOnRoad
<1>4. RoadPath(p, t) = IF f = t THEN <<f>> ELSE IF c \in {f, t} THEN <<f, t>> ELSE <<f, c, t>>
  BY <1>3 DEF RoadPath
<1> HIDE DEF f, c
<1>5. ASSUME f \in Position, c \in Position, f # t => Ahead(p, IF c \in {f, t} THEN t ELSE c)
      PROVE  /\ RoadPath(p, t) \in Seq(Position)
             /\ Len(RoadPath(p, t)) >= 2 => Ahead(p, RoadPath(p, t)[2])
  <2>1. CASE f = t
    BY <1>2, <1>4, <1>5, <2>1
  <2>2. CASE f # t /\ c \in {f, t}
    <3>1. RoadPath(p, t) = <<f, t>>
      BY <1>4, <2>2
    <3>2. Ahead(p, t)
      BY <1>5, <2>2
    <3>3. <<f, t>> \in Seq(Position) /\ <<f, t>>[2] = t
      BY <1>2, <1>5
    <3> QED BY <3>1, <3>2, <3>3
  <2>3. CASE f # t /\ c \notin {f, t}
    <3>1. RoadPath(p, t) = <<f, c, t>>
      BY <1>4, <2>3
    <3>2. Ahead(p, c)
      BY <1>5, <2>3
    <3>3. <<f, c, t>> \in Seq(Position) /\ <<f, c, t>>[2] = c
      BY <1>2, <1>5
    <3> QED BY <3>1, <3>2, <3>3
  <2> QED BY <2>1, <2>2, <2>3
<1>6. CASE Off(p.x) <= 15 /\ ~isRoadCoordinate(p.y) /\ f = [x |-> nearestRoad(p.x), y |-> p.y]
  <2>1. c = [x |-> nearestRoad(p.x), y |-> t.y]
    BY <1>6 DEF Corner, c
  <2>2. f \in Position /\ c \in Position
    BY <1>1, <1>2, <1>6, <2>1 DEF Position
  <2>3. c # f
    BY <1>2, <1>6, <2>1
  <2>4. Ahead(p, c)
    BY <1>6, <2>1 DEF Ahead
  <2> QED BY <1>5, <2>2, <2>3, <2>4
<1>7. CASE Off(p.y) <= 15 /\ f = [x |-> p.x, y |-> nearestRoad(p.y)]
  <2>1. c = [x |-> t.x, y |-> nearestRoad(p.y)]
    BY <1>1, <1>7 DEF Corner, c
  <2>2. f \in Position /\ c \in Position
    BY <1>1, <1>2, <1>7, <2>1 DEF Position
  <2>3. Ahead(p, c)
    BY <1>7, <2>1 DEF Ahead
  <2>4. c = f => Ahead(p, t)
    BY <1>2, <1>7, <2>1 DEF Ahead
  <2> QED BY <1>5, <2>2, <2>3, <2>4
<1> QED BY <1>6, <1>7, SnapNear DEF f

\* Between two ticks a courier closes in on the road that it is close to, or
\* keeps its distance.
LEMMA StepStaysNear ==
  ASSUME NEW p \in Position, NEW q \in Position, NEW g \in Position, Ahead(p, g),
         Between(p.x, q.x, g.x), Between(p.y, q.y, g.y)
  PROVE  Near(q)
<1>1. /\ p.x \in 0..Edge /\ p.y \in 0..Edge /\ q.x \in 0..Edge /\ q.y \in 0..Edge
      /\ g.x \in 0..Edge /\ g.y \in 0..Edge
  BY DEF Position
<1>2. ASSUME NEW v \in 0..Edge, NEW u \in 0..Edge, Off(v) <= 15, Between(v, u, nearestRoad(v))
      PROVE  Off(u) <= 15
  <2>1. nearestRoad(v) \in 0..Edge
    BY RoadIsRoad
  <2>2. Abs(u - nearestRoad(v)) <= 15
    BY <1>2, <2>1, EdgeIsNat DEF Off, Abs, Between
  <2> QED BY <1>2, <2>2, CloserKeepsRoad
<1>3. CASE Off(p.x) <= 15 /\ g.x = p.x
  <2>1. q.x = p.x
    BY <1>1, <1>3, EdgeIsNat DEF Between
  <2> QED BY <1>3, <2>1 DEF Near
<1>4. CASE Off(p.x) <= 15 /\ g.x = nearestRoad(p.x)
  BY <1>1, <1>2, <1>4 DEF Near
<1>5. CASE Off(p.y) <= 15 /\ g.y = nearestRoad(p.y)
  BY <1>1, <1>2, <1>5 DEF Near
<1> QED BY <1>3, <1>4, <1>5 DEF Ahead

-----------------------------------------------------------------------------
(***************************************************************************)
(* Trips.                                                                  *)
(***************************************************************************)

DriveInv == pos \in Position /\ Near(pos) /\ goal \in Place

LEMMA PlaceIsNear == ASSUME NEW g \in Place PROVE g \in Position /\ Near(g)
  BY DEF Place, Near

LEMMA LegStaysNear ==
  ASSUME DriveInv, NEW from, NEW to, NEW start, NEW end, NEW finish,
         Leg(from, to, start, end, finish)
  PROVE  DriveInv'
<1> DEFINE way == RoadPath(pos, goal)
           here == Moved(pos, way)
<1>1. goal' = goal /\ (pos' = goal \/ (Len(way) >= 2 /\ pos' = here))
  <2>1. way \in Seq(Position)
    BY WayAhead DEF DriveInv
  <2>2. Len(way) \in Nat
    BY <2>1
  <2> HIDE DEF way
  <2> QED BY <2>2 DEF Leg, way
<1>2. CASE pos' = goal
  BY <1>1, <1>2, PlaceIsNear DEF DriveInv
<1>3. CASE Len(way) >= 2 /\ pos' = here
  <2>1. way \in Seq(Position) /\ Ahead(pos, way[2])
    BY <1>3, WayAhead DEF DriveInv
  <2> HIDE DEF way
  <2>2. /\ here \in Position
        /\ Between(pos.x, here.x, way[2].x) /\ Between(pos.y, here.y, way[2].y)
    BY <1>3, <2>1, MovedBetween DEF DriveInv
  <2>3. way[2] \in Position
    BY <1>3, <2>1
  <2> HIDE DEF here
  <2>4. Near(here)
    BY <2>1, <2>2, <2>3, StepStaysNear DEF DriveInv
  <2> QED BY <1>1, <1>3, <2>2, <2>4 DEF DriveInv
<1> QED BY <1>1, <1>2, <1>3

\* A courier strays from the nearest road by no more than the shift of a home,
\* wherever its trips have led it.
THEOREM StaysNearRoadHolds == Spec => []StaysNearRoad
<1>1. Init => DriveInv
  <2> SUFFICES ASSUME Init PROVE DriveInv
    OBVIOUS
  <2>1. pos \in Place /\ goal = pos
    BY DriveAssumption, CrossingsArePlaces DEF Init
  <2> QED BY <2>1, PlaceIsNear DEF DriveInv
<1>2. DriveInv /\ [Next]_vars => DriveInv'
  <2> SUFFICES ASSUME DriveInv, [Next]_vars PROVE DriveInv'
    OBVIOUS
  <2>1. CASE Assign
    BY <2>1, DriveAssumption, CrossingsArePlaces DEF Assign, DriveInv
  <2>2. CASE MoveToRestaurant
    BY <2>2, LegStaysNear DEF MoveToRestaurant
  <2>3. CASE Load
    BY <2>3, HomesArePlaces DEF Load, DriveInv
  <2>4. CASE MoveToCustomer
    BY <2>4, LegStaysNear DEF MoveToCustomer
  <2>5. CASE UNCHANGED vars
    BY <2>5 DEF vars, DriveInv
  <2> QED BY <2>1, <2>2, <2>3, <2>4, <2>5 DEF Next
<1>3. DriveInv => StaysNearRoad
  BY DEF DriveInv, Near, Off, StaysNearRoad
<1> QED BY <1>1, <1>2, <1>3, PTL DEF Spec

\* What an order's progress is in each status of its courier.
ProgressInv ==
  /\ status \in {"idle", "to_restaurant", "picking_up", "to_customer"}
  /\ status = "to_restaurant" => progress \in 0..450
  /\ status = "picking_up" => progress = 500
  /\ status = "to_customer" => progress \in 500..980

\* The progress of an order never runs backwards until it is delivered.
THEOREM ProgressGrowsHolds == Spec => ProgressGrows
<1>1. Init => ProgressInv
  BY DEF Init, ProgressInv
<1> DEFINE Grows == status # "idle" => progress <= progress'
<1>2. ProgressInv /\ [Next]_vars => ProgressInv' /\ [Grows]_vars
  <2> SUFFICES ASSUME ProgressInv, [Next]_vars PROVE ProgressInv' /\ [Grows]_vars
    OBVIOUS
  <2>1. CASE Assign
    BY <2>1 DEF Assign, ProgressInv
  <2>2. CASE MoveToRestaurant
    <3>1. /\ status = "to_restaurant"
          /\ \/ status' = "picking_up" /\ progress' = 500
             \/ status' = status /\ progress' = Least(450, Larger(0, progress) + 25)
      BY <2>2 DEF MoveToRestaurant, Leg
    <3>2. progress \in Int /\ 0 <= progress /\ progress <= 450
      BY <3>1 DEF ProgressInv
    <3>3. progress' \in Int /\ progress <= progress'
      BY <3>1, <3>2 DEF Least, Larger
    <3>4. status' = status => progress' <= 450
      BY <3>1, <3>2 DEF Least, Larger
    <3> QED BY <3>1, <3>2, <3>3, <3>4 DEF ProgressInv
  <2>3. CASE Load
    BY <2>3 DEF Load, ProgressInv
  <2>4. CASE MoveToCustomer
    <3>1. /\ status = "to_customer"
          /\ \/ status' = "idle" /\ progress' = 1000
             \/ status' = status /\ progress' = Least(980, Larger(500, progress) + 25)
      BY <2>4 DEF MoveToCustomer, Leg
    <3>2. progress \in Int /\ 500 <= progress /\ progress <= 980
      BY <3>1 DEF ProgressInv
    <3>3. progress' \in Int /\ progress <= progress'
      BY <3>1, <3>2 DEF Least, Larger
    <3>4. status' = status => progress' <= 980
      BY <3>1, <3>2 DEF Least, Larger
    <3> QED BY <3>1, <3>2, <3>3, <3>4 DEF ProgressInv
  <2>5. CASE UNCHANGED vars
    BY <2>5 DEF vars, ProgressInv
  <2> QED BY <2>1, <2>2, <2>3, <2>4, <2>5 DEF Next
<1> QED BY <1>1, <1>2, PTL DEF Spec, ProgressGrows
=============================================================================
