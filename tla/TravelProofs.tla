---------------------------- MODULE TravelProofs ----------------------------
(***************************************************************************)
(* Theorems of Travel for any crossings to start from and to go to, and    *)
(* any unit of length.  Which coordinates are roads does not matter for    *)
(* them: isRoadCoordinate is left as it is.                                *)
(***************************************************************************)
EXTENDS Travel, TLAPS

USE UnitAssumption, TravelAssumption

LEMMA EdgeIsNat == Edge \in Nat
  BY DEF Edge, CityGridSize

\* Points on a road are left where they are.
LEMMA SnapOnRoad ==
  ASSUME NEW p \in Position, IsOnRoad(p)
  PROVE  SnapToRoad(p) = p
<1>1. clampPosition(p) = [x |-> p.x, y |-> p.y]
  BY EdgeIsNat DEF clampPosition, clamp, Position
<1>2. p = [x |-> p.x, y |-> p.y]
  BY DEF Position
<1> QED BY <1>1, <1>2 DEF SnapToRoad

Between(a, b, c) == (a <= b /\ b <= c) \/ (c <= b /\ b <= a)
InBox(p, q, r) == Between(p.x, q.x, r.x) /\ Between(p.y, q.y, r.y)

\* A step towards the next waypoint keeps to the road, and within the way.
LEMMA StepAhead ==
  ASSUME NEW p \in Position, NEW g \in Position, OneRoad(p, g)
  PROVE  LET q == Towards(g, p) IN
         /\ q \in Position /\ OneRoad(q, g) /\ IsOnRoad(q)
         /\ InBox(p, q, g)
<1> DEFINE d == Distance(p, g)
           step == IF Unit < d THEN Unit ELSE d
           q == Towards(g, p)
<1> SUFFICES q \in Position /\ OneRoad(q, g) /\ IsOnRoad(q) /\ InBox(p, q, g)
  OBVIOUS
<1>1. p.x \in 0..Edge /\ p.y \in 0..Edge /\ g.x \in 0..Edge /\ g.y \in 0..Edge
  BY DEF Position
<1>2. /\ q = [x |-> q.x, y |-> q.y]
      /\ q.x = p.x + Share(g.x - p.x, step) /\ q.y = p.y + Share(g.y - p.y, step)
  BY DEF Towards
<1>3. step \in Nat /\ step <= d
  BY <1>1, EdgeIsNat DEF Distance, Abs
<1>4. ASSUME NEW a \in 0..Edge, NEW b \in 0..Edge, NEW n \in Nat, n <= Abs(b - a)
      PROVE  a + Share(b - a, n) \in 0..Edge /\ Between(a, a + Share(b - a, n), b)
  BY <1>4, EdgeIsNat DEF Share, Abs, Between
<1>5. ASSUME NEW a \in 0..Edge, NEW n \in Nat
      PROVE  a + Share(a - a, n) = a
  BY <1>5, EdgeIsNat DEF Share
<1>6. CASE p.x = g.x /\ isRoadCoordinate(p.x)
  <2>1. d = Abs(g.y - p.y)
    BY <1>1, <1>6, EdgeIsNat DEF Distance, Abs
  <2> HIDE DEF q, step, d
  <2>2. q.y \in 0..Edge /\ Between(p.y, q.y, g.y)
    BY <1>1, <1>2, <1>3, <1>4, <2>1
  <2>3. q.x = p.x
    BY <1>1, <1>2, <1>3, <1>5, <1>6
  <2> QED BY <1>1, <1>2, <1>6, <2>2, <2>3, EdgeIsNat DEF Position, OneRoad, IsOnRoad, InBox, Between
<1>7. CASE p.y = g.y /\ isRoadCoordinate(p.y)
  <2>1. d = Abs(g.x - p.x)
    BY <1>1, <1>7, EdgeIsNat DEF Distance, Abs
  <2> HIDE DEF q, step, d
  <2>2. q.x \in 0..Edge /\ Between(p.x, q.x, g.x)
    BY <1>1, <1>2, <1>3, <1>4, <2>1
  <2>3. q.y = p.y
    BY <1>1, <1>2, <1>3, <1>5, <1>7
  <2> QED BY <1>1, <1>2, <1>7, <2>2, <2>3, EdgeIsNat DEF Position, OneRoad, IsOnRoad, InBox, Between
<1> QED BY <1>6, <1>7 DEF OneRoad

\* The corner joins two ends on roads by two streets, within their rectangle.
LEMMA CornerJoins ==
  ASSUME NEW f \in Position, IsOnRoad(f), NEW t \in Crossings
  PROVE  LET c == Corner(f, t) IN
         /\ c \in Position /\ OneRoad(f, c) /\ OneRoad(c, t)
         /\ InBox(f, c, t)
<1>1. t \in Position /\ isRoadCoordinate(t.x) /\ isRoadCoordinate(t.y)
  BY DEF Crossings
<1>2. f.x \in 0..Edge /\ f.y \in 0..Edge /\ t.x \in 0..Edge /\ t.y \in 0..Edge
  BY <1>1 DEF Position
<1>3. CASE isRoadCoordinate(f.y)
  BY <1>1, <1>2, <1>3, EdgeIsNat DEF Corner, Position, OneRoad, InBox, Between
<1>4. CASE ~isRoadCoordinate(f.y)
  BY <1>1, <1>2, <1>4, EdgeIsNat DEF Corner, Position, OneRoad, IsOnRoad, InBox, Between
<1> QED BY <1>3, <1>4

-----------------------------------------------------------------------------
\* The way has two or three points.  The rest of it keeps to roads and leads
\* nowhere back, and so did the part that is done.
OnTheWay ==
  LET s == path[1] g == path[next] e == path[Len(path)] IN
  /\ path \in Seq(Position) /\ Len(path) \in {2, 3} /\ next \in 2..Len(path)
  /\ OneRoad(pos, g)
  /\ next = 2 /\ Len(path) = 3 => OneRoad(path[2], path[3])
  /\ InBox(s, pos, e) /\ InBox(pos, g, e)
  /\ travelled = Distance(s, pos)

TravelInv ==
  /\ pos \in Position /\ IsOnRoad(pos)
  /\ ~Standing => OnTheWay

LEMMA TravelStep == TravelInv /\ [Next]_vars => TravelInv'
<1> SUFFICES ASSUME TravelInv, [Next]_vars PROVE TravelInv'
  OBVIOUS
<1>1. ASSUME NEW t \in Places, Depart(t) PROVE TravelInv'
  <2> DEFINE c == Corner(pos, t)
  <2>1. t \in Crossings /\ t \in Position /\ IsOnRoad(t) /\ pos \in Position /\ IsOnRoad(pos)
    BY DEF TravelInv, Crossings, IsOnRoad
  <2>2. SnapToRoad(pos) = pos /\ SnapToRoad(t) = t
    BY <2>1, SnapOnRoad
  <2>3. c \in Position /\ OneRoad(pos, c) /\ OneRoad(c, t) /\ InBox(pos, c, t)
    BY <2>1, CornerJoins
  <2>4. Standing
    BY <1>1 DEF Depart
  <2>5. CASE pos = t
    <3>1. RoadPath(pos, t) = <<pos>>
      BY <2>2, <2>5 DEF RoadPath
    <3>2. pos' = t /\ UNCHANGED path
      BY <1>1, <3>1 DEF Depart
    <3> QED BY <2>1, <2>4, <3>2 DEF TravelInv, Standing
  <2> HIDE DEF c
  <2>6. ASSUME NEW way, RoadPath(pos, t) = way, Len(way) # 1
        PROVE  path' = way /\ next' = 2 /\ travelled' = 0 /\ pos' = pos
    BY <1>1, <2>6 DEF Depart
  <2>7. /\ pos.x \in 0..Edge /\ pos.y \in 0..Edge /\ t.x \in 0..Edge /\ t.y \in 0..Edge
        /\ InBox(pos, pos, t) /\ InBox(pos, t, t) /\ Distance(pos, pos) = 0
    BY <2>1, EdgeIsNat DEF Position, InBox, Between, Distance, Abs
  <2>8. CASE pos # t /\ c \in {pos, t}
    <3>1. RoadPath(pos, t) = <<pos, t>>
      BY <2>2, <2>8 DEF RoadPath, c
    <3>2. path' = <<pos, t>> /\ next' = 2 /\ travelled' = 0 /\ pos' = pos
      BY <2>6, <3>1
    <3>3. OneRoad(pos, t)
      BY <2>3, <2>8
    <3> QED BY <2>1, <2>7, <3>2, <3>3 DEF TravelInv, OnTheWay, Standing
  <2>9. CASE pos # t /\ c \notin {pos, t}
    <3>1. RoadPath(pos, t) = <<pos, c, t>>
      BY <2>2, <2>9 DEF RoadPath, c
    <3>2. path' = <<pos, c, t>> /\ next' = 2 /\ travelled' = 0 /\ pos' = pos
      BY <2>6, <3>1
    <3> QED BY <2>1, <2>3, <2>7, <3>2 DEF TravelInv, OnTheWay, Standing
  <2> QED BY <2>5, <2>8, <2>9
<1>2. CASE Tick
  <2> DEFINE s == path[1] g == path[next] e == path[Len(path)]
  <2>1. ~Standing /\ OnTheWay
    BY <1>2 DEF Tick, TravelInv
  <2>2. s \in Position /\ g \in Position /\ e \in Position /\ pos \in Position
    BY <2>1 DEF OnTheWay, TravelInv
  <2>3. OneRoad(pos, g) /\ InBox(s, pos, e) /\ InBox(pos, g, e) /\ travelled = Distance(s, pos)
    BY <2>1 DEF OnTheWay
  <2>4. pos' = Towards(g, pos)
    BY <1>2 DEF Tick
  <2>5. pos' \in Position /\ OneRoad(pos', g) /\ IsOnRoad(pos') /\ InBox(pos, pos', g)
    BY <2>2, <2>3, <2>4, StepAhead
  <2> HIDE DEF s, g, e
  <2>6. /\ InBox(s, pos', e) /\ InBox(pos', g, e)
        /\ Distance(s, pos') = Distance(s, pos) + Distance(pos, pos')
    <3>1. ASSUME NEW a \in 0..Edge, NEW b \in 0..Edge, NEW b2 \in 0..Edge, NEW h \in 0..Edge,
                 NEW z \in 0..Edge, Between(a, b, z), Between(b, h, z), Between(b, b2, h)
          PROVE  /\ Between(a, b2, z) /\ Between(b2, h, z)
                 /\ Abs(a - b2) = Abs(a - b) + Abs(b - b2)
      BY <3>1, EdgeIsNat DEF Between, Abs
    <3>2. /\ Between(s.x, pos'.x, e.x) /\ Between(pos'.x, g.x, e.x)
          /\ Abs(s.x - pos'.x) = Abs(s.x - pos.x) + Abs(pos.x - pos'.x)
      <4>1. /\ s.x \in 0..Edge /\ pos.x \in 0..Edge /\ pos'.x \in 0..Edge
            /\ g.x \in 0..Edge /\ e.x \in 0..Edge
        BY <2>2, <2>5 DEF Position
      <4>2. Between(s.x, pos.x, e.x) /\ Between(pos.x, g.x, e.x) /\ Between(pos.x, pos'.x, g.x)
        BY <2>3, <2>5 DEF InBox
      <4> QED BY <3>1, <4>1, <4>2
    <3>3. /\ Between(s.y, pos'.y, e.y) /\ Between(pos'.y, g.y, e.y)
          /\ Abs(s.y - pos'.y) = Abs(s.y - pos.y) + Abs(pos.y - pos'.y)
      <4>1. /\ s.y \in 0..Edge /\ pos.y \in 0..Edge /\ pos'.y \in 0..Edge
            /\ g.y \in 0..Edge /\ e.y \in 0..Edge
        BY <2>2, <2>5 DEF Position
      <4>2. Between(s.y, pos.y, e.y) /\ Between(pos.y, g.y, e.y) /\ Between(pos.y, pos'.y, g.y)
        BY <2>3, <2>5 DEF InBox
      <4> QED BY <3>1, <4>1, <4>2
    <3>4. /\ Abs(s.x - pos.x) \in Int /\ Abs(pos.x - pos'.x) \in Int
          /\ Abs(s.y - pos.y) \in Int /\ Abs(pos.y - pos'.y) \in Int
      <4>1. /\ s.x \in Int /\ pos.x \in Int /\ pos'.x \in Int
            /\ s.y \in Int /\ pos.y \in Int /\ pos'.y \in Int
        BY <2>2, <2>5, EdgeIsNat DEF Position
      <4> QED BY <4>1 DEF Abs
    <3> QED BY <3>2, <3>3, <3>4 DEF InBox, Distance
  <2>7. travelled' = Distance(s, pos')
    BY <1>2, <2>3, <2>6 DEF Tick
  <2>8. CASE pos' # g
    <3>1. UNCHANGED <<path, next>>
      BY <1>2, <2>8 DEF Tick, g
    <3> QED BY <2>1, <2>5, <2>6, <2>7, <3>1 DEF TravelInv, OnTheWay, Standing, s, g, e
  <2>9. CASE pos' = g /\ next < Len(path)
    <3>1. next' = next + 1 /\ UNCHANGED path
      BY <1>2, <2>9 DEF Tick, g
    <3>2. next = 2 /\ Len(path) = 3
      BY <2>1, <2>9 DEF OnTheWay
    <3>3. OneRoad(pos', path[3]) /\ e = path[3]
      BY <2>1, <2>9, <3>2 DEF OnTheWay, g, e
    <3>4. InBox(pos', e, e)
      BY <2>2, <2>5, EdgeIsNat DEF InBox, Between, Position
    <3> QED BY <2>1, <2>5, <2>6, <2>7, <3>1, <3>2, <3>3, <3>4 DEF TravelInv, OnTheWay, Standing, s, e
  <2>10. CASE pos' = g /\ ~(next < Len(path))
    <3>1. path' = <<>>
      BY <1>2, <2>10 DEF Tick, g
    <3> QED BY <2>5, <3>1 DEF TravelInv, Standing
  <2> QED BY <2>8, <2>9, <2>10
<1>3. CASE BreakOff
  BY <1>3 DEF BreakOff, TravelInv, Standing
<1>4. CASE UNCHANGED vars
  BY <1>4 DEF vars, TravelInv, OnTheWay, Standing
<1> QED BY <1>1, <1>2, <1>3, <1>4 DEF Next

LEMMA TravelInvariant == Spec => []TravelInv
<1>1. Init => TravelInv
  BY DEF Init, TravelInv, Standing, Crossings, IsOnRoad
<1> QED BY <1>1, TravelStep, PTL DEF Spec

\* Wherever trips were broken off, a courier stands on a road and the rest of
\* its way keeps to roads.
THEOREM StaysOnRoadsHolds == Spec => []StaysOnRoads
<1>1. TravelInv => StaysOnRoads
  <2> SUFFICES ASSUME TravelInv, ~Standing, NEW i \in next..(Len(path) - 1)
               PROVE  OneRoad(pos, path[next]) /\ OneRoad(path[i], path[i + 1])
    BY DEF StaysOnRoads, TravelInv, OnTheWay
  <2>1. OnTheWay
    BY DEF TravelInv
  <2>2. next = 2 /\ Len(path) = 3 /\ i = 2
    BY <2>1 DEF OnTheWay
  <2> QED BY <2>1, <2>2 DEF OnTheWay
<1> QED BY <1>1, TravelInvariant, PTL

\* The way is as short as the streets allow, and the distance driven adds up
\* to it.
THEOREM ShortestWayHolds == Spec => []ShortestWay
<1>1. TravelInv => ShortestWay
  <2> SUFFICES ASSUME TravelInv, ~Standing PROVE ShortestWay
    BY DEF ShortestWay
  <2> DEFINE s == path[1] e == path[Len(path)]
  <2>1. OnTheWay
    BY DEF TravelInv
  <2>2. s \in Position /\ e \in Position /\ pos \in Position
    BY <2>1 DEF OnTheWay, TravelInv
  <2>3. travelled = Distance(s, pos) /\ InBox(s, pos, e)
    BY <2>1 DEF OnTheWay
  <2> HIDE DEF s, e
  <2>4. Distance(s, pos) + Distance(pos, e) = Distance(s, e)
    BY <2>2, <2>3, EdgeIsNat DEF Position, InBox, Between, Distance, Abs
  <2> QED BY <2>3, <2>4 DEF ShortestWay, s, e
<1> QED BY <1>1, TravelInvariant, PTL
=============================================================================
