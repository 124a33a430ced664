---------------------------- MODULE EngineProofs ----------------------------
(***************************************************************************)
(* Theorems of Engine for any fleet and any number of orders, ticks and    *)
(* commands.                                                               *)
(***************************************************************************)
EXTENDS Engine, FiniteSetTheorems, TLAPS

USE EngineAssumption
USE DEF orderVars, fleetVars

LEMMA Sizes ==
  /\ Cardinality(Orders) \in Nat
  /\ Orders \subseteq Nat \ {0} /\ Couriers \subseteq Nat \ {0}
<1>1. Cardinality(Orders) \in Nat /\ Cardinality(Couriers) \in Nat
  BY FS_CardinalityType
<1> QED BY <1>1

\* The parts of TypeOK that the counter of deliveries is not in.
Typed ==
  /\ running \in BOOLEAN
  /\ tick \in 0..OrderEvery
  /\ sequence \in 0..Cardinality(Orders)
  /\ delivered \in Nat
  /\ status \in [Orders -> Statuses]
  /\ age \in [Orders -> 0..3]
  /\ courierOf \in [Orders -> Couriers \cup {0}]
  /\ fleet \in [Couriers -> CourierStatuses]
  /\ load \in [Couriers -> Orders \cup {0}]
  /\ todo \subseteq Present
  /\ commands \in 0..MaxCommands

\* No order is on the board before it has been created.
NotYet == \A o \in Orders : o > sequence => status[o] = Absent

LEMMA TypedStep == Typed /\ NotYet /\ PairedUp /\ [Next]_vars => Typed'
<1> SUFFICES ASSUME Typed, NotYet, PairedUp, [Next]_vars PROVE Typed'
  OBVIOUS
<1> USE Sizes DEF Typed, Statuses, CourierStatuses, Present, Absent
<1>1. CASE Tick
  <2>1. tick' \in 0..OrderEvery
    BY <1>1 DEF Tick, NextTick
  <2>2. CASE CreatesOrder(tick = 0) /\ sequence < Cardinality(Orders)
    <3>1. sequence + 1 \in Orders
      BY <2>2
    <3>2. /\ sequence' = sequence + 1 /\ todo' = Present \cup {sequence + 1}
          /\ status' = [status EXCEPT ![sequence + 1] = "created"]
      BY <1>1, <2>2 DEF Tick
    <3>3. sequence' \in 0..Cardinality(Orders) /\ status' \in [Orders -> Statuses]
      BY <2>2, <3>1, <3>2
    <3>4. todo' \subseteq Present'
      BY <3>1, <3>2
    <3> QED BY <1>1, <2>1, <3>3, <3>4 DEF Tick
  <2>3. CASE ~(CreatesOrder(tick = 0) /\ sequence < Cardinality(Orders))
    BY <1>1, <2>1, <2>3 DEF Tick
  <2> QED BY <2>2, <2>3
<1>2. CASE VisitOrder
  <2> SUFFICES ASSUME NEW o \in Orders,
                      \/ Accept(o) \/ Assign(o) \/ Collect(o) \/ Leave(o)
                      \/ Deliver(o) \/ Wait(o)
               PROVE  Typed'
    BY <1>2 DEF VisitOrder
  <2> USE DEF Visit
  <2>1. UNCHANGED <<running, tick, sequence, commands>>
    BY <1>2 DEF VisitOrder
  <2>2. Older(o) \in 0..3
    BY DEF Older
  <2>3. CASE Accept(o)
    BY <2>1, <2>3 DEF Accept
  <2>4. CASE Assign(o)
    <3>1. PICK c \in Idle :
            /\ courierOf' = [courierOf EXCEPT ![o] = c]
            /\ fleet' = [fleet EXCEPT ![c] = "to_restaurant"]
            /\ load' = [load EXCEPT ![c] = o]
      BY <2>4 DEF Assign
    <3> QED BY <2>1, <2>4, <3>1 DEF Assign, Idle
  <2>5. CASE Collect(o)
    <3>1. status' \in [Orders -> Statuses] /\ fleet' \in [Couriers -> CourierStatuses]
      BY <2>5 DEF Collect
    <3>2. age' \in [Orders -> 0..3] /\ todo' \subseteq Present'
      BY <2>5 DEF Collect
    <3> QED BY <2>1, <2>5, <3>1, <3>2 DEF Collect
  <2>6. CASE Leave(o)
    <3>1. status' \in [Orders -> Statuses] /\ fleet' \in [Couriers -> CourierStatuses]
      BY <2>6 DEF Leave
    <3>2. age' \in [Orders -> 0..3] /\ todo' \subseteq Present'
      BY <2>6 DEF Leave
    <3> QED BY <2>1, <2>6, <3>1, <3>2 DEF Leave
  <2>7. CASE Deliver(o)
    <3>1. status' \in [Orders -> Statuses] /\ fleet' \in [Couriers -> CourierStatuses]
      BY <2>7 DEF Deliver
    <3>2. age' \in [Orders -> 0..3] /\ todo' \subseteq Present' /\ delivered' \in Nat
      BY <2>2, <2>7 DEF Deliver
    <3>3. load' \in [Couriers -> Orders \cup {0}]
      BY <2>7 DEF Deliver
    <3> QED BY <2>1, <2>7, <3>1, <3>2, <3>3 DEF Deliver
  <2>8. CASE Wait(o)
    <3>1. age' \in [Orders -> 0..3] /\ todo' \subseteq Present'
      BY <2>2, <2>8 DEF Wait
    <3>2. UNCHANGED <<status, courierOf, fleet, load, delivered>>
      BY <2>8 DEF Wait
    <3> QED BY <2>1, <3>1, <3>2
  <2> QED BY <2>3, <2>4, <2>5, <2>6, <2>7, <2>8
<1>3. ASSUME NEW value \in BOOLEAN, SetRunning(value) PROVE Typed'
  <2>1. commands' \in 0..MaxCommands
    BY <1>3 DEF SetRunning, Command
  <2>2. running' \in BOOLEAN
    BY <1>3 DEF SetRunning
  <2>3. UNCHANGED <<tick, sequence, delivered, status, age, courierOf, fleet, load, todo>>
    BY <1>3 DEF SetRunning
  <2> QED BY <2>1, <2>2, <2>3
<1>4. CASE Reset
  BY <1>4 DEF Reset, ResetOrders, Command
<1>5. CASE CreateOrder
  <2>1. sequence + 1 \in Orders
    BY <1>5 DEF CreateOrder
  <2> QED BY <1>5, <2>1 DEF CreateOrder
<1>6. CASE UNCHANGED vars
  BY <1>6 DEF vars
<1> QED BY <1>1, <1>2, <1>3, <1>4, <1>5, <1>6 DEF Next

LEMMA NotYetStep == Typed /\ NotYet /\ [Next]_vars => NotYet'
<1> SUFFICES ASSUME Typed, NotYet, [Next]_vars, NEW o \in Orders, o > sequence' PROVE status'[o] = Absent
  BY DEF NotYet
<1> USE Sizes DEF Typed, NotYet, Absent
<1>1. CASE Tick
  <2>1. o > sequence
    BY <1>1 DEF Tick
  <2>2. status'[o] = status[o]
    BY <1>1, <2>1 DEF Tick
  <2> QED BY <2>1, <2>2
<1>2. CASE VisitOrder
  <2>1. PICK p \in Orders : Accept(p) \/ Assign(p) \/ Collect(p) \/ Leave(p) \/ Deliver(p) \/ Wait(p)
    BY <1>2 DEF VisitOrder
  <2>2. status[o] = Absent
    BY <1>2 DEF VisitOrder
  <2>3. p \in todo
    BY <2>1 DEF Accept, Assign, Collect, Leave, Deliver, Wait, Visit
  <2>4. p # o
    BY <2>2, <2>3 DEF Present
  <2>5. status'[o] = status[o]
    BY <2>1, <2>4 DEF Accept, Assign, Collect, Leave, Deliver, Wait
  <2> QED BY <2>2, <2>5
<1>3. ASSUME NEW value \in BOOLEAN, SetRunning(value) PROVE status'[o] = Absent
  BY <1>3 DEF SetRunning
<1>4. CASE Reset
  BY <1>4 DEF Reset, ResetOrders
<1>5. CASE CreateOrder
  BY <1>5 DEF CreateOrder
<1>6. CASE UNCHANGED vars
  BY <1>6 DEF vars
<1> QED BY <1>1, <1>2, <1>3, <1>4, <1>5, <1>6 DEF Next

-----------------------------------------------------------------------------
(***************************************************************************)
(* Orders and couriers.                                                    *)
(***************************************************************************)

LEMMA MatchingStages ==
  /\ Matching["courier_to_restaurant"] = "to_restaurant"
  /\ Matching["picked_up"] = "picking_up"
  /\ Matching["in_transit"] = "to_customer"
  BY DEF Matching

\* PairedUp, order by order and courier by courier.
Served(o) ==
  status[o] \in UnderWay =>
    courierOf[o] \in Couriers /\ load[courierOf[o]] = o /\ fleet[courierOf[o]] = Matching[status[o]]
AtWork(c) ==
  IF fleet[c] = "idle" THEN load[c] = 0
  ELSE load[c] \in Orders /\ status[load[c]] \in UnderWay /\ courierOf[load[c]] = c

LEMMA PairedUpParts ==
  PairedUp <=> (\A o \in Orders : Served(o)) /\ (\A c \in Couriers : AtWork(c))
  BY DEF PairedUp, Served, AtWork

\* What a step does to order o, its courier c and to nobody else.
Changes(o, c, stage, courier, carried) ==
  /\ status' = [status EXCEPT ![o] = stage]
  /\ fleet' = [fleet EXCEPT ![c] = courier]
  /\ load' = [load EXCEPT ![c] = carried]

\* The courier of an order under way goes on to the next stage with it.
LEMMA GoesOn ==
  ASSUME Typed, PairedUp, NEW o \in Orders, status[o] \in UnderWay,
         NEW stage \in UnderWay, UNCHANGED <<courierOf, load>>,
         status' = [status EXCEPT ![o] = stage],
         fleet' = [fleet EXCEPT ![courierOf[o]] = Matching[stage]]
  PROVE  PairedUp'
<1> DEFINE c == courierOf[o]
<1>1. c \in Couriers /\ load[c] = o
  BY DEF PairedUp
<1>2. Matching[stage] # "idle"
  BY MatchingStages DEF UnderWay
<1>3. status'[o] = stage /\ \A p \in Orders \ {o} : status'[p] = status[p]
  BY DEF Typed
<1>4. fleet'[c] = Matching[stage] /\ \A d \in Couriers \ {c} : fleet'[d] = fleet[d]
  BY <1>1 DEF Typed
<1>5. ASSUME NEW p \in Orders PROVE Served(p)'
  <2>1. CASE p = o
    BY <1>1, <1>3, <1>4, <2>1 DEF Served
  <2>2. CASE p # o
    BY <1>1, <1>3, <1>4, <2>2 DEF Served, PairedUp
  <2> QED BY <2>1, <2>2
<1>6. ASSUME NEW d \in Couriers PROVE AtWork(d)'
  <2>1. CASE d = c
    BY <1>1, <1>2, <1>3, <1>4, <2>1 DEF AtWork
  <2>2. CASE d # c
    BY <1>1, <1>3, <1>4, <2>2 DEF AtWork, PairedUp
  <2> QED BY <2>1, <2>2
<1> QED BY <1>5, <1>6, PairedUpParts DEF PairedUp, Served, AtWork

\* A status that concerns no courier changes.
LEMMA NobodysOrder ==
  ASSUME Typed, PairedUp, NEW o \in Orders, status[o] \notin UnderWay,
         NEW stage, stage \notin UnderWay, UNCHANGED <<courierOf, fleet, load>>,
         status' = [status EXCEPT ![o] = stage]
  PROVE  PairedUp'
<1>1. status'[o] = stage /\ \A p \in Orders \ {o} : status'[p] = status[p]
  BY DEF Typed
<1>2. ASSUME NEW p \in Orders PROVE Served(p)'
  BY <1>1 DEF Served, PairedUp
<1>3. ASSUME NEW d \in Couriers PROVE AtWork(d)'
  BY <1>1 DEF AtWork, PairedUp
<1> QED BY <1>2, <1>3 DEF PairedUp, Served, AtWork

LEMMA PairedStep == Typed /\ NotYet /\ PairedUp /\ [Next]_vars => PairedUp'
<1> SUFFICES ASSUME Typed, NotYet, PairedUp, [Next]_vars PROVE PairedUp'
  OBVIOUS
<1>1. ASSUME NEW o \in Orders, o = sequence + 1, status' = [status EXCEPT ![o] = "created"],
             UNCHANGED <<courierOf, fleet, load>>
      PROVE  PairedUp'
  <2>1. status[o] \notin UnderWay /\ "created" \notin UnderWay
    BY <1>1, Sizes DEF Typed, NotYet, UnderWay, Absent
  <2> QED BY <1>1, <2>1, NobodysOrder
<1>2. CASE Tick
  <2>1. CASE UNCHANGED status
    BY <1>2, <2>1 DEF Tick, PairedUp
  <2>2. CASE sequence < Cardinality(Orders) /\ status' = [status EXCEPT ![sequence + 1] = "created"]
    <3>1. sequence + 1 \in Orders
      BY <2>2, Sizes DEF Typed
    <3> QED BY <1>1, <1>2, <2>2, <3>1 DEF Tick
  <2> QED BY <1>2, <2>1, <2>2 DEF Tick
<1>3. CASE VisitOrder
  <2> SUFFICES ASSUME NEW o \in Orders,
                      \/ Accept(o) \/ Assign(o) \/ Collect(o) \/ Leave(o)
                      \/ Deliver(o) \/ Wait(o)
               PROVE  PairedUp'
    BY <1>3 DEF VisitOrder
  <2>1. CASE Accept(o)
    <3>1. status[o] \notin UnderWay /\ "accepted" \notin UnderWay
      BY <2>1 DEF Accept, UnderWay
    <3> QED BY <2>1, <3>1, NobodysOrder DEF Accept
  <2>2. CASE Assign(o)
    <3>1. PICK c \in Idle :
            /\ courierOf' = [courierOf EXCEPT ![o] = c]
            /\ fleet' = [fleet EXCEPT ![c] = "to_restaurant"]
            /\ load' = [load EXCEPT ![c] = o]
      BY <2>2 DEF Assign
    <3>2. status[o] = "accepted" /\ status' = [status EXCEPT ![o] = "courier_to_restaurant"]
      BY <2>2 DEF Assign
    <3>3. c \in Couriers /\ fleet[c] = "idle" /\ load[c] = 0
      BY <3>1 DEF Idle, PairedUp
    <3>4. /\ status'[o] = "courier_to_restaurant" /\ courierOf'[o] = c
          /\ \A p \in Orders \ {o} : status'[p] = status[p] /\ courierOf'[p] = courierOf[p]
      BY <3>1, <3>2 DEF Typed
    <3>5. /\ fleet'[c] = "to_restaurant" /\ load'[c] = o
          /\ \A d \in Couriers \ {c} : fleet'[d] = fleet[d] /\ load'[d] = load[d]
      BY <3>1, <3>3 DEF Typed
    <3>6. ASSUME NEW p \in Orders PROVE Served(p)'
      <4>1. CASE p = o
        BY <3>3, <3>4, <3>5, <4>1, MatchingStages DEF Served
      <4>2. CASE p # o
        <5>1. ASSUME status[p] \in UnderWay PROVE courierOf[p] \in Couriers \ {c}
          BY <3>3, <5>1, MatchingStages DEF PairedUp, UnderWay
        <5> QED BY <3>4, <3>5, <4>2, <5>1 DEF Served, PairedUp
      <4> QED BY <4>1, <4>2
    <3>7. ASSUME NEW d \in Couriers PROVE AtWork(d)'
      <4>1. CASE d = c
        BY <3>4, <3>5, <4>1 DEF AtWork, UnderWay
      <4>2. CASE d # c
        <5>1. load[d] # o
          BY <3>2, Sizes DEF PairedUp, UnderWay
        <5> QED BY <3>4, <3>5, <4>2, <5>1 DEF AtWork, PairedUp
      <4> QED BY <4>1, <4>2
    <3> QED BY <3>6, <3>7 DEF PairedUp, Served, AtWork
  <2>3. CASE Collect(o)
    BY <2>3, GoesOn, MatchingStages DEF Collect, UnderWay
  <2>4. CASE Leave(o)
    BY <2>4, GoesOn, MatchingStages DEF Leave, UnderWay
  <2>5. CASE Deliver(o)
    <3> DEFINE c == courierOf[o]
    <3>1. c \in Couriers /\ load[c] = o
      BY <2>5 DEF Deliver, PairedUp, UnderWay
    <3>2. /\ status'[o] = "delivered" /\ courierOf' = courierOf
          /\ \A p \in Orders \ {o} : status'[p] = status[p]
      BY <2>5 DEF Deliver, Typed
    <3>3. /\ fleet'[c] = "idle" /\ load'[c] = 0
          /\ \A d \in Couriers \ {c} : fleet'[d] = fleet[d] /\ load'[d] = load[d]
      BY <2>5, <3>1 DEF Deliver, Typed
    <3>4. ASSUME NEW p \in Orders PROVE Served(p)'
      <4>1. CASE p = o
        BY <3>2, <4>1 DEF Served, UnderWay
      <4>2. CASE p # o
        BY <3>1, <3>2, <3>3, <4>2 DEF Served, PairedUp
      <4> QED BY <4>1, <4>2
    <3>5. ASSUME NEW d \in Couriers PROVE AtWork(d)'
      BY <3>1, <3>2, <3>3 DEF AtWork, PairedUp
    <3> QED BY <3>4, <3>5 DEF PairedUp, Served, AtWork
  <2>6. CASE Wait(o)
    BY <2>6 DEF Wait, PairedUp
  <2> QED BY <2>1, <2>2, <2>3, <2>4, <2>5, <2>6
<1>4. ASSUME NEW value \in BOOLEAN, SetRunning(value) PROVE PairedUp'
  BY <1>4 DEF SetRunning, PairedUp
<1>5. CASE Reset
  BY <1>5 DEF Reset, ResetOrders, PairedUp, UnderWay, Absent
<1>6. CASE CreateOrder
  <2>1. sequence + 1 \in Orders
    BY <1>6, Sizes DEF CreateOrder, Typed
  <2> QED BY <1>1, <1>6, <2>1 DEF CreateOrder
<1>7. CASE UNCHANGED vars
  BY <1>7 DEF vars, PairedUp
<1> QED BY <1>2, <1>3, <1>4, <1>5, <1>6, <1>7 DEF Next

\* Orders and couriers stay paired through ticks, pauses and resets.
THEOREM PairedUpHolds == Spec => []PairedUp
<1>1. Init => Typed /\ NotYet /\ PairedUp
  BY Sizes DEF Init, Typed, NotYet, PairedUp, UnderWay, Absent, Statuses, CourierStatuses
<1>2. Typed /\ NotYet /\ PairedUp /\ [Next]_vars => (Typed /\ NotYet /\ PairedUp)'
  BY TypedStep, NotYetStep, PairedStep
<1> QED BY <1>1, <1>2, PTL DEF Spec

-----------------------------------------------------------------------------
(***************************************************************************)
(* The counter.                                                            *)
(***************************************************************************)

Done == {o \in Orders : status[o] = "delivered"}

LEMMA CountedStep ==
  Typed /\ NotYet /\ DeliveredCounted /\ [Next]_vars => DeliveredCounted'
<1> SUFFICES ASSUME Typed, NotYet, DeliveredCounted, [Next]_vars PROVE DeliveredCounted'
  OBVIOUS
<1>1. delivered = Cardinality(Done)
  BY DEF DeliveredCounted, Done
<1>2. ASSUME delivered' = delivered, Done' = Done PROVE DeliveredCounted'
  BY <1>1, <1>2 DEF DeliveredCounted, Done
<1>3. ASSUME NEW o \in Orders, status[o] # "delivered", NEW stage, stage # "delivered",
             status' = [status EXCEPT ![o] = stage]
      PROVE  Done' = Done
  BY <1>3 DEF Done, Typed
<1>4. CASE Tick
  <2>1. CASE UNCHANGED status
    BY <1>2, <1>4, <2>1 DEF Tick, Done
  <2>2. CASE sequence < Cardinality(Orders) /\ status' = [status EXCEPT ![sequence + 1] = "created"]
    <3>1. sequence + 1 \in Orders /\ status[sequence + 1] # "delivered"
      BY <2>2, Sizes DEF Typed, NotYet, Absent
    <3> QED BY <1>2, <1>3, <1>4, <2>2, <3>1 DEF Tick
  <2> QED BY <1>4, <2>1, <2>2 DEF Tick
<1>5. CASE VisitOrder
  <2> SUFFICES ASSUME NEW o \in Orders,
                      \/ Accept(o) \/ Assign(o) \/ Collect(o) \/ Leave(o)
                      \/ Deliver(o) \/ Wait(o)
               PROVE  DeliveredCounted'
    BY <1>5 DEF VisitOrder
  <2>1. CASE Accept(o)
    BY <1>2, <1>3, <2>1 DEF Accept
  <2>2. CASE Assign(o)
    BY <1>2, <1>3, <2>2 DEF Assign
  <2>3. CASE Collect(o)
    BY <1>2, <1>3, <2>3 DEF Collect
  <2>4. CASE Leave(o)
    BY <1>2, <1>3, <2>4 DEF Leave
  <2>5. CASE Deliver(o)
    <3>1. Done' = Done \cup {o} /\ o \notin Done
      BY <2>5 DEF Deliver, Done, Typed
    <3>2. IsFiniteSet(Done)
      BY FS_Subset DEF Done
    <3>3. Cardinality(Done') = Cardinality(Done) + 1
      BY <3>1, <3>2, FS_AddElement
    <3> QED BY <1>1, <2>5, <3>3 DEF Deliver, DeliveredCounted, Done
  <2>6. CASE Wait(o)
    BY <1>2, <2>6 DEF Wait, Done
  <2> QED BY <2>1, <2>2, <2>3, <2>4, <2>5, <2>6
<1>6. ASSUME NEW value \in BOOLEAN, SetRunning(value) PROVE DeliveredCounted'
  BY <1>2, <1>6 DEF SetRunning, Done
<1>7. CASE Reset
  <2>1. Done' = {}
    BY <1>7 DEF Reset, ResetOrders, Done, Absent
  <2> QED BY <1>7, <2>1, FS_EmptySet DEF Reset, DeliveredCounted, Done
<1>8. CASE CreateOrder
  <2>1. sequence + 1 \in Orders /\ status[sequence + 1] # "delivered"
    BY <1>8, Sizes DEF CreateOrder, Typed, NotYet, Absent
  <2> QED BY <1>2, <1>3, <1>8, <2>1 DEF CreateOrder
<1>9. CASE UNCHANGED vars
  BY <1>2, <1>9 DEF vars, Done
<1> QED BY <1>4, <1>5, <1>6, <1>7, <1>8, <1>9 DEF Next

\* The delivered counter is the number of delivered orders on the board.
THEOREM DeliveredCountedHolds == Spec => []DeliveredCounted
<1> DEFINE Inv == Typed /\ NotYet /\ PairedUp /\ DeliveredCounted
<1>1. Init => Inv
  <2> SUFFICES ASSUME Init PROVE Inv
    OBVIOUS
  <2>1. Typed /\ NotYet /\ PairedUp
    BY Sizes DEF Init, Typed, NotYet, PairedUp, UnderWay, Absent, Statuses, CourierStatuses
  <2>2. Done = {} /\ delivered = 0
    BY DEF Init, Done, Absent
  <2> QED BY <2>1, <2>2, FS_EmptySet DEF DeliveredCounted, Done
<1>2. Inv /\ [Next]_vars => Inv'
  BY TypedStep, NotYetStep, PairedStep, CountedStep
<1> QED BY <1>1, <1>2, PTL DEF Spec

\* The variables keep their types; the counter does because it counts orders.
THEOREM TypeCorrect == Spec => []TypeOK
<1> DEFINE Inv == Typed /\ NotYet /\ PairedUp /\ DeliveredCounted
<1>1. Inv => TypeOK
  <2> SUFFICES ASSUME Inv PROVE TypeOK
    OBVIOUS
  <2>1. Cardinality(Done) <= Cardinality(Orders) /\ Cardinality(Done) \in Nat
    BY FS_Subset, FS_CardinalityType DEF Done
  <2>2. delivered \in 0..Cardinality(Orders)
    BY <2>1, Sizes DEF DeliveredCounted, Done
  <2> QED BY <2>2 DEF Typed, TypeOK
<1>2. Init => Typed /\ NotYet /\ PairedUp
  BY Sizes DEF Init, Typed, NotYet, PairedUp, UnderWay, Absent, Statuses, CourierStatuses
<1>3. Typed /\ NotYet /\ PairedUp /\ [Next]_vars => (Typed /\ NotYet /\ PairedUp)'
  BY TypedStep, NotYetStep, PairedStep
<1> QED BY <1>1, <1>2, <1>3, DeliveredCountedHolds, PTL DEF Spec
=============================================================================
