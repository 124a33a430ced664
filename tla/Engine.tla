------------------------------- MODULE Engine -------------------------------
(***************************************************************************)
(* simulation.Engine in standalone mode: the tick that walks every order   *)
(* through its life, and the HTTP commands that pause, resume, reset and   *)
(* create orders between two ticks (mu).                                   *)
(*                                                                         *)
(* A tick ranges over a Go map, so the orders are visited in any sequence: *)
(* "todo" holds those the tick under way has still to visit, and the       *)
(* commands wait until it is empty.  How far a courier has to drive is in  *)
(* module Drive; here a leg lasts any number of ticks up to MaxLeg.        *)
(***************************************************************************)
EXTENDS Naturals, FiniteSets

CONSTANTS
  Couriers,     \* the fleet, by rank of the courier id: 1..n
  Orders,       \* orders that can be created: 1..m, in this sequence
  OrderEvery,   \* a tick creates an order when tick % OrderEvery = 0 (12)
  MaxLeg,       \* bound: ticks on a leg
  MaxCommands   \* bound: pause, resume and reset commands

ASSUME EngineAssumption ==
  /\ IsFiniteSet(Couriers) /\ IsFiniteSet(Orders)
  /\ Couriers = 1..Cardinality(Couriers) /\ Orders = 1..Cardinality(Orders)
  /\ OrderEvery \in Nat \ {0} /\ MaxLeg \in Nat \ {0} /\ MaxCommands \in Nat

VARIABLES
  running,
  tick,         \* 0: none since the start or a reset; then modulo OrderEvery
  sequence,     \* orders created so far
  delivered,    \* the counter in Stats
  status,       \* per order: "absent" when not in the orders map
  age,          \* trackedOrder.age, counted up to 3
  courierOf,    \* Order.CourierID, 0 for none
  fleet,        \* Courier.Status
  load,         \* Courier.OrderID, 0 for none
  todo,         \* orders the tick under way has still to visit
  commands      \* commands so far

orderVars == <<status, age, courierOf>>
fleetVars == <<fleet, load>>
vars == <<running, tick, sequence, delivered, orderVars, fleetVars, todo, commands>>

Absent == "absent"
Statuses == {Absent, "created", "accepted", "courier_to_restaurant",
             "picked_up", "in_transit", "delivered"}
UnderWay == {"courier_to_restaurant", "picked_up", "in_transit"}
CourierStatuses == {"idle", "to_restaurant", "picking_up", "to_customer"}

Present == {o \in Orders : status[o] # Absent}
Idle == {c \in Couriers : fleet[c] = "idle"}

Init ==
  /\ running = TRUE
  /\ tick = 0 /\ sequence = 0 /\ delivered = 0
  /\ status = [o \in Orders |-> Absent]
  /\ age = [o \in Orders |-> 0]
  /\ courierOf = [o \in Orders |-> 0]
  /\ fleet = [c \in Couriers |-> "idle"]
  /\ load = [c \in Couriers |-> 0]
  /\ todo = {}
  /\ commands = 0

(***************************************************************************)
(* advance                                                                 *)
(***************************************************************************)

\* The engine counts ticks for ever; what matters is the first and every
\* twelfth, so the count goes 0, 1, ..., OrderEvery, 1, ...
NextTick == IF tick = OrderEvery THEN 1 ELSE tick + 1
CreatesOrder(first) == first \/ NextTick = OrderEvery

Tick ==
  /\ running
  /\ todo = {}
  /\ tick' = NextTick
  /\ IF CreatesOrder(tick = 0) /\ sequence < Cardinality(Orders)
     THEN /\ sequence' = sequence + 1
          /\ status' = [status EXCEPT ![sequence + 1] = "created"]
          /\ todo' = Present \cup {sequence + 1}
     ELSE /\ UNCHANGED <<sequence, status>>
          /\ todo' = Present
  /\ UNCHANGED <<running, delivered, age, courierOf, fleetVars, commands>>

\* The tick visits order o: tracked.age++, then the case of its status.
Visit(o) == o \in todo /\ todo' = todo \ {o}
Older(o) == IF age[o] < 3 THEN age[o] + 1 ELSE 3

Accept(o) ==
  /\ Visit(o) /\ status[o] = "created" /\ Older(o) >= 3
  /\ status' = [status EXCEPT ![o] = "accepted"]
  /\ age' = [age EXCEPT ![o] = 0]
  /\ UNCHANGED <<courierOf, fleetVars, delivered>>

\* availableCourierLocked: the idle courier with the least id.
Assign(o) ==
  /\ Visit(o) /\ status[o] = "accepted" /\ Older(o) >= 2
  /\ \E c \in Idle :
       /\ \A d \in Idle : c <= d
       /\ courierOf' = [courierOf EXCEPT ![o] = c]
       /\ fleet' = [fleet EXCEPT ![c] = "to_restaurant"]
       /\ load' = [load EXCEPT ![c] = o]
  /\ status' = [status EXCEPT ![o] = "courier_to_restaurant"]
  /\ age' = [age EXCEPT ![o] = 0]
  /\ UNCHANGED delivered

\* moveCourierToRestaurantLocked and moveCourierToCustomerLocked, when the
\* courier arrives with this tick.
Collect(o) ==
  /\ Visit(o) /\ status[o] = "courier_to_restaurant"
  /\ status' = [status EXCEPT ![o] = "picked_up"]
  /\ age' = [age EXCEPT ![o] = 0]
  /\ fleet' = [fleet EXCEPT ![courierOf[o]] = "picking_up"]
  /\ UNCHANGED <<courierOf, load, delivered>>

Leave(o) ==
  /\ Visit(o) /\ status[o] = "picked_up" /\ Older(o) >= 2
  /\ status' = [status EXCEPT ![o] = "in_transit"]
  /\ age' = [age EXCEPT ![o] = 0]
  /\ fleet' = [fleet EXCEPT ![courierOf[o]] = "to_customer"]
  /\ UNCHANGED <<courierOf, load, delivered>>

\* Mutant of Deliver: the courier is not released.
DeliverKeepsCourier(o) ==
  /\ Visit(o) /\ status[o] = "in_transit"
  /\ status' = [status EXCEPT ![o] = "delivered"]
  /\ delivered' = delivered + 1
  /\ UNCHANGED <<age, courierOf, fleetVars>>

Deliver(o) ==
  /\ Visit(o) /\ status[o] = "in_transit"
  /\ status' = [status EXCEPT ![o] = "delivered"]
  /\ age' = [age EXCEPT ![o] = Older(o)]
  /\ fleet' = [fleet EXCEPT ![courierOf[o]] = "idle"]
  /\ load' = [load EXCEPT ![courierOf[o]] = 0]
  /\ delivered' = delivered + 1
  /\ UNCHANGED courierOf

\* Nothing but the age changes: too young, no courier free, still driving, or
\* delivered.
Wait(o) ==
  /\ Visit(o)
  /\ CASE status[o] = "created" -> Older(o) < 3
       [] status[o] = "accepted" -> Older(o) < 2 \/ Idle = {}
       [] status[o] = "picked_up" -> Older(o) < 2
       [] status[o] \in {"courier_to_restaurant", "in_transit"} -> age[o] < MaxLeg - 1
       [] OTHER -> TRUE
  /\ age' = [age EXCEPT ![o] = Older(o)]
  /\ UNCHANGED <<status, courierOf, fleetVars, delivered>>

VisitOrder ==
  /\ \E o \in Orders : \/ Accept(o) \/ Assign(o) \/ Collect(o) \/ Leave(o)
                       \/ Deliver(o) \/ Wait(o)
  /\ UNCHANGED <<running, tick, sequence, commands>>

(***************************************************************************)
(* LocalCommands                                                           *)
(***************************************************************************)
\* Mutant of Command: the lock not taken, so that it cuts into a tick.
CommandUnlocked ==
  /\ commands < MaxCommands
  /\ commands' = commands + 1

Command ==
  /\ todo = {}
  /\ commands < MaxCommands
  /\ commands' = commands + 1

SetRunning(value) ==
  /\ Command
  /\ running # value
  /\ running' = value
  /\ UNCHANGED <<tick, sequence, delivered, orderVars, fleetVars, todo>>

\* What a reset does to the orders map, the tick count and the pause.
ResetOrders ==
  /\ Command
  /\ running' = TRUE
  /\ tick' = 0
  /\ status' = [o \in Orders |-> Absent]
  /\ age' = [o \in Orders |-> 0]
  /\ courierOf' = [o \in Orders |-> 0]
  /\ UNCHANGED <<sequence, todo>>

\* Mutants of Reset: the couriers or the counter left as they are.
ResetKeepsFleet == ResetOrders /\ delivered' = 0 /\ UNCHANGED fleetVars

ResetKeepsCounter ==
  /\ ResetOrders
  /\ fleet' = [c \in Couriers |-> "idle"]
  /\ load' = [c \in Couriers |-> 0]
  /\ UNCHANGED delivered

\* resetLocked keeps the sequence and the positions, and resumes.
Reset ==
  /\ ResetOrders
  /\ delivered' = 0
  /\ fleet' = [c \in Couriers |-> "idle"]
  /\ load' = [c \in Couriers |-> 0]

\* POST /orders, also while paused.
CreateOrder ==
  /\ todo = {}
  /\ sequence < Cardinality(Orders)
  /\ sequence' = sequence + 1
  /\ status' = [status EXCEPT ![sequence + 1] = "created"]
  /\ UNCHANGED <<running, tick, delivered, age, courierOf, fleetVars, todo, commands>>

-----------------------------------------------------------------------------
Next ==
  \/ Tick
  \/ VisitOrder
  \/ SetRunning(TRUE) \/ SetRunning(FALSE) \/ Reset
  \/ CreateOrder

Spec == Init /\ [][Next]_vars

\* Run's ticker fires and advance runs to its end.
FairSpec == Spec /\ WF_vars(Tick) /\ WF_vars(VisitOrder)

-----------------------------------------------------------------------------
TypeOK ==
  /\ running \in BOOLEAN
  /\ tick \in 0..OrderEvery
  /\ sequence \in 0..Cardinality(Orders)
  /\ delivered \in 0..Cardinality(Orders)
  /\ status \in [Orders -> Statuses]
  /\ age \in [Orders -> 0..3]
  /\ courierOf \in [Orders -> Couriers \cup {0}]
  /\ fleet \in [Couriers -> CourierStatuses]
  /\ load \in [Couriers -> Orders \cup {0}]
  /\ todo \subseteq Present
  /\ commands \in 0..MaxCommands

\* The stage of an order and what its courier is doing.
Matching == [courier_to_restaurant |-> "to_restaurant",
             picked_up |-> "picking_up", in_transit |-> "to_customer"]

\* Orders and couriers stay paired through ticks, pauses and resets: an order
\* under way has a courier that carries this order and no other and is at the
\* same stage; a courier that is not idle works for such an order.
PairedUp ==
  /\ \A o \in Orders : status[o] \in UnderWay =>
       /\ courierOf[o] \in Couriers
       /\ load[courierOf[o]] = o
       /\ fleet[courierOf[o]] = Matching[status[o]]
  /\ \A c \in Couriers :
       IF fleet[c] = "idle" THEN load[c] = 0
       ELSE /\ load[c] \in Orders
            /\ status[load[c]] \in UnderWay /\ courierOf[load[c]] = c

\* The delivered counter is the number of delivered orders on the board.
DeliveredCounted ==
  delivered = Cardinality({o \in Orders : status[o] = "delivered"})

\* With the simulation left running every order is delivered, unless a reset
\* clears it, although a tick may serve the waiting orders in any sequence.
EveryOrderDelivered ==
  \A o \in Orders :
    status[o] = "created" ~>
      (status[o] \in {"delivered", Absent} \/ ~running)
=============================================================================
