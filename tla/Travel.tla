------------------------------- MODULE Travel -------------------------------
(***************************************************************************)
(* A courier-simulator on the road: travel() computes a path once, then    *)
(* moves one tile per tick and publishes each position; a failed publish   *)
(* or a canceled context leaves it standing where it is, and the next      *)
(* delivery starts from there.  All fixed places are crossings.            *)
(***************************************************************************)
EXTENDS RoadGrid

CONSTANTS
  Starts,       \* courierPositions
  Places        \* Restaurants and customerPositions

ASSUME TravelAssumption == Starts \subseteq Crossings /\ Places \subseteq Crossings

VARIABLES
  pos,          \* courier.Position
  path, next,   \* the waypoints of the trip and the index of the next one
  travelled     \* distance driven on this trip

vars == <<pos, path, next, travelled>>

Standing == path = <<>>

Init ==
  /\ pos \in Starts
  /\ path = <<>> /\ next = 0 /\ travelled = 0

\* totalDistance == 0 returns at once with the courier at the target.
Depart(target) ==
  /\ Standing
  /\ LET way == RoadPath(pos, target) IN
       IF Len(way) = 1
       THEN pos' = target /\ UNCHANGED <<path, next, travelled>>
       ELSE /\ path' = way
            /\ next' = 2
            /\ travelled' = 0
            /\ UNCHANGED pos

\* dx / distance * step on a straight segment.
Share(d, step) == IF d = 0 THEN 0 ELSE IF d > 0 THEN step ELSE -step

\* A step of at most a tile from p.
Towards(goal, p) ==
  LET step == IF Unit < Distance(p, goal) THEN Unit ELSE Distance(p, goal) IN
  [x |-> p.x + Share(goal.x - p.x, step), y |-> p.y + Share(goal.y - p.y, step)]

\* One tick: a step towards the waypoint, then its event.  Whoever reaches the
\* last waypoint has arrived.
Tick ==
  /\ ~Standing
  /\ pos' = Towards(path[next], pos)
  /\ travelled' = travelled + Distance(pos, pos')
  /\ IF pos' # path[next] THEN UNCHANGED <<path, next>>
     ELSE IF next < Len(path) THEN next' = next + 1 /\ UNCHANGED path
     ELSE path' = <<>> /\ next' = 0

\* The publish of the new position fails, or ctx is done before the next tick.
BreakOff ==
  /\ ~Standing
  /\ path' = <<>> /\ next' = 0
  /\ UNCHANGED <<pos, travelled>>

Next == (\E p \in Places : Depart(p)) \/ Tick \/ BreakOff

Spec == Init /\ [][Next]_vars

-----------------------------------------------------------------------------
\* However many trips were broken off before, a courier is on a road and the
\* rest of its way keeps to roads.
StaysOnRoads ==
  /\ IsOnRoad(pos)
  /\ ~Standing =>
       /\ OneRoad(pos, path[next])
       /\ \A i \in next..(Len(path) - 1) : OneRoad(path[i], path[i + 1])

\* The way is as short as the streets allow, and the distance driven, which
\* the progress of the order is computed from, adds up to it.
ShortestWay ==
  ~Standing =>
    LET start == path[1] end == path[Len(path)] IN
    /\ travelled = Distance(start, pos)
    /\ travelled + Distance(pos, end) = Distance(start, end)
=============================================================================
