------------------------------- MODULE Drive -------------------------------
(***************************************************************************)
(* A courier of the standalone engine on the road.  Each tick of advance   *)
(* computes the path anew and moves up to 0.62 tiles towards its first     *)
(* waypoint; a courier closer than 0.2 tiles has arrived.  Customers get a *)
(* home of the fixed list, shifted along the x axis by up to 0.15 tiles    *)
(* unless it lies on the rim.  Unit = 100 resolves these lengths.          *)
(***************************************************************************)
EXTENDS RoadGrid

CONSTANTS
  Starts,         \* courierPositions
  Restaurants,    \* positions of scenario.Restaurants
  Homes,          \* positions in createOrderLocked
  Shifts          \* the outcomes of rand.Float64()*0.3 - 0.15 to consider

ASSUME DriveAssumption ==
  /\ Unit = 100
  /\ Starts \subseteq Crossings /\ Restaurants \subseteq Crossings
  /\ Homes \subseteq Crossings
  /\ Shifts \subseteq -15..15

VARIABLES
  pos,          \* courier.Position
  status,       \* courier.Status
  goal,         \* where the order in hand is collected or delivered
  progress      \* tracked.order.Progress, in thousandths

vars == <<pos, status, goal, progress>>

Init ==
  /\ pos \in Starts
  /\ status = "idle" /\ goal = pos /\ progress = 0

\* createOrderLocked
CustomerHomes ==
  {SnapToRoad(IF h.x \in {0, Edge} THEN h ELSE [h EXCEPT !.x = @ + s]) :
     h \in Homes, s \in Shifts}

\* case "accepted"
Assign ==
  /\ status = "idle"
  /\ status' = "to_restaurant"
  /\ goal' \in Restaurants
  /\ progress' = 0
  /\ UNCHANGED pos

Least(a, b) == IF a < b THEN a ELSE b
Larger(a, b) == IF a > b THEN a ELSE b
Square(n) == n * n
Hypot2(p, q) == Square(p.x - q.x) + Square(p.y - q.y)

\* math.Hypot, in whole parts of a tile.
Hypot(p, q) ==
  IF p.x = q.x \/ p.y = q.y THEN Distance(p, q)
  ELSE CHOOSE d \in Larger(Abs(p.x - q.x), Abs(p.y - q.y))..Distance(p, q) :
         Square(d) <= Hypot2(p, q) /\ Hypot2(p, q) < Square(d + 1)

\* The share step/distance of a displacement, towards zero.
Part(d, step, distance) ==
  IF d >= 0 THEN (d * step) \div distance ELSE -((-d * step) \div distance)

\* Mutant of Step: without the cap at the waypoint.
StepUncapped(d) == 62

Step(d) == Least(62, d)

\* moveCourierTowardsLocked: the position after a step along a path.
Moved(p, way) ==
  IF Len(way) < 2 \/ p = way[2] THEN p
  ELSE LET d == Hypot(p, way[2])
       IN  [x |-> p.x + Part(way[2].x - p.x, Step(d), d),
            y |-> p.y + Part(way[2].y - p.y, Step(d), d)]

\* One tick of advance with the order on a leg; progress grows only while the
\* courier really has a path.
Leg(from, to, start, end, done) ==
  /\ status = from
  /\ \E way \in {RoadPath(pos, goal)} : \E here \in {Moved(pos, way)} :
       IF Len(way) < 2 \/ Hypot2(here, goal) < Square(20)
       THEN pos' = goal /\ status' = to /\ progress' = done
       ELSE /\ pos' = here
            /\ progress' = Least(end, Larger(start, progress) + 25)
            /\ UNCHANGED status
  /\ UNCHANGED goal

\* Mutant of MoveToRestaurant: the cap of the leg above the progress at its end.
MoveToRestaurantFar == Leg("to_restaurant", "picking_up", 0, 600, 500)

MoveToRestaurant == Leg("to_restaurant", "picking_up", 0, 450, 500)

MoveToCustomer == Leg("to_customer", "idle", 500, 980, 1000)

\* case "picked_up": on with the order to one of the homes.
Load ==
  /\ status = "picking_up"
  /\ status' = "to_customer"
  /\ goal' \in CustomerHomes
  /\ UNCHANGED <<pos, progress>>

Next == Assign \/ MoveToRestaurant \/ Load \/ MoveToCustomer

Spec == Init /\ [][Next]_vars
FairSpec == Spec /\ WF_vars(Next)

-----------------------------------------------------------------------------
\* "courier left the road": a courier is always on a road.
NeverLeavesRoad == IsOnRoad(pos)

\* What does hold when homes are shifted: a courier strays from the nearest
\* road by no more than the shift of a home, wherever the trips have led it.
StaysNearRoad ==
  \/ Abs(pos.x - nearestRoad(pos.x)) <= 15
  \/ Abs(pos.y - nearestRoad(pos.y)) <= 15

\* The progress bar never runs backwards during a delivery.
ProgressGrows == [][status # "idle" => progress <= progress']_vars

\* Whatever the geometry, the courier reaches the restaurant and the customer;
\* the detours of the snapped paths never make it circle for ever.
EveryTripEnds == status = "to_restaurant" ~> status = "idle"
=============================================================================
