----------------------------- MODULE OrderRows -----------------------------
(***************************************************************************)
(* What events do to the rows of PostgreSQL.  The events of an order are   *)
(* published in the order of its life.  The broker delivers them in that   *)
(* order, but to several order-worker pods: in each of them prefetched     *)
(* deliveries wait for one of its goroutines, and transactions commit in   *)
(* any order.  Claims, requeues and crashes are in module Projection: here *)
(* the pods keep running, and an event is projected once and in one step.  *)
(***************************************************************************)
EXTENDS Naturals, SequencesExt

CONSTANTS
  Orders, Couriers,
  CourierOf,      \* the courier that takes each order, if it is accepted
  Answers,        \* what the kitchen of each order may answer: stages 2 and 8
  Pods, Workers,  \* order-worker pods and all their consumer goroutines
  PodOf,          \* the pod of each goroutine
  Prefetch,       \* unacknowledged deliveries of a pod
  Nothing,        \* no row, no event, no order, no courier, no pod
  MaxResets,      \* bound: simulation.reset commands
  MaxPending      \* bound: events published and not yet projected

ASSUME OrderRowsAssumption ==
  /\ CourierOf \in [Orders -> Couriers]
  /\ Answers \in [Orders -> SUBSET {2, 8}]
  /\ PodOf \in [Workers -> Pods]
  /\ Prefetch \in Nat \ {0}
  /\ Nothing \notin Orders \cup Couriers \cup Pods
  /\ MaxResets \in Nat /\ MaxPending \in Nat \ {0}

VARIABLES
  latest,         \* per order: the stage its last published event announced
  resets,         \* resets published so far
  queue,          \* order-projection: the events no goroutine has taken up, each
                  \* with the pod it was delivered to, or Nothing
  holding,        \* per worker: the event in its open transaction
  orders,         \* table orders
  couriers,       \* table couriers; all have registered
  cleared,        \* orders that were over, and projected, at the last reset, if
                  \* nothing was published until that was projected, too
  disputed        \* orders and couriers of which two pods had events at once, or
                  \* two transactions were open, or an event was dead-lettered

rowVars == <<latest, resets, queue, holding, orders, couriers, cleared, disputed>>

(***************************************************************************)
(* The events.  A stage gives the type of the event that announces it, the *)
(* status, progress (in hundredths) and presence of a courier in the order *)
(* afterwards, and the courier's status.                                   *)
(***************************************************************************)
Stage(type, status, progress, courier) ==
  [type |-> type, status |-> status, progress |-> progress, courier |-> courier]

Stages == <<
  Stage("order.created",            "created",               0,   ""),
  Stage("order.accepted",           "accepted",              0,   ""),
  Stage("courier.assigned",         "courier_to_restaurant", 0,   "to_restaurant"),
  Stage("courier.location.updated", "courier_to_restaurant", 45,  "to_restaurant"),
  Stage("order.picked_up",          "picked_up",             50,  "picking_up"),
  Stage("courier.location.updated", "in_transit",            98,  "to_customer"),
  Stage("order.delivered",          "delivered",             100, "idle"),
  Stage("order.rejected",           "failed",                0,   "") >>

Delivered == 7
Rejected == 8
UnderWay == 3..6
Over == {Delivered, Rejected}

\* A kitchen accepts or rejects; a courier that is already there sends no
\* location; everything else follows in sequence.
Following(i) ==
  CASE i = 1      -> {2, Rejected}
    [] i \in {3, 5} -> {i + 1, i + 2}
    [] i \in Over -> {}
    [] OTHER      -> {i + 1}

Event == [order : Orders, stage : 1..8]
Reset == [order |-> Nothing, stage |-> 0]

Type(e) == Stages[e.stage].type

Row(o, i) == [status |-> Stages[i].status, progress |-> Stages[i].progress,
              courier |-> IF Stages[i].courier = "" THEN Nothing ELSE CourierOf[o]]

ASSUME NothingAssumption ==
  /\ Nothing \notin Event \cup {Reset}
  /\ \A o \in Orders, i \in 1..8 : Row(o, i) # Nothing

IdleRow == [status |-> "idle", order |-> Nothing]
CourierRow(o, i) ==
  IF i \in UnderWay THEN [status |-> Stages[i].courier, order |-> o] ELSE IdleRow

\* Every courier of a table or of a pod at rest.
AtRest(rows) == [c \in Couriers |-> IF rows[c] = Nothing THEN Nothing ELSE IdleRow]

-----------------------------------------------------------------------------
(***************************************************************************)
(* projectEvent                                                            *)
(***************************************************************************)

\* Mutant of OrdersAfter: INSERT ... ON CONFLICT DO NOTHING.
OrdersAfterInsert(rows, e) ==
  IF e = Reset THEN [o \in Orders |-> Nothing]
  ELSE IF rows[e.order] # Nothing THEN rows
  ELSE [rows EXCEPT ![e.order] = Row(e.order, e.stage)]

\* Mutant of OrdersAfter: a reset deletes the orders under way only.
OrdersAfterSoftReset(rows, e) ==
  IF e = Reset
  THEN [o \in Orders |-> IF rows[o] # Nothing /\ rows[o].status = "delivered"
                         THEN rows[o] ELSE Nothing]
  ELSE [rows EXCEPT ![e.order] = Row(e.order, e.stage)]

\* Whole rows are overwritten, whatever they hold; a location update changes
\* the row it finds; a reset truncates the table.
OrdersAfter(rows, e) ==
  IF e = Reset THEN [o \in Orders |-> Nothing]
  ELSE IF Type(e) # "courier.location.updated"
       THEN [rows EXCEPT ![e.order] = Row(e.order, e.stage)]
  ELSE IF rows[e.order] = Nothing THEN rows
  ELSE [rows EXCEPT ![e.order] =
          [status |-> IF Stages[e.stage].courier = "to_customer" THEN "in_transit" ELSE @.status,
           progress |-> Stages[e.stage].progress, courier |-> @.courier]]

\* Mutant of CouriersAfter: order.delivered leaves the courier's row alone.
CouriersAfterTrips(rows, e) ==
  IF e = Reset THEN AtRest(rows)
  ELSE IF e.stage \notin UnderWay THEN rows
  ELSE [rows EXCEPT ![CourierOf[e.order]] = CourierRow(e.order, e.stage)]

CouriersAfter(rows, e) ==
  IF e = Reset THEN AtRest(rows)
  ELSE IF Stages[e.stage].courier = "" THEN rows
  ELSE [rows EXCEPT ![CourierOf[e.order]] = CourierRow(e.order, e.stage)]

-----------------------------------------------------------------------------
RowsInit ==
  /\ latest = [o \in Orders |-> 0]
  /\ resets = 0
  /\ queue = <<>>
  /\ holding = [w \in Workers |-> Nothing]
  /\ orders = [o \in Orders |-> Nothing]
  /\ couriers = [c \in Couriers |-> IdleRow]
  /\ cleared = {}
  /\ disputed = {}

\* Nothing waits and no transaction is open.
Projected == queue = <<>> /\ \A w \in Workers : holding[w] = Nothing

ResetPending ==
  \/ \E i \in 1..Len(queue) : queue[i].event = Reset
  \/ \E w \in Workers : holding[w] = Reset

Undelivered(e) == [event |-> e, pod |-> Nothing]

\* A courier has one order at a time.
Free(c) == \A o \in Orders : CourierOf[o] = c => latest[o] \notin UnderWay

InFlight == Len(queue) + Cardinality({w \in Workers : holding[w] # Nothing})

PublishEvent(e) ==
  /\ InFlight < MaxPending
  /\ e.stage \in Following(latest[e.order])
  /\ latest[e.order] = 1 => e.stage \in Answers[e.order]
  /\ e.stage = 3 => Free(CourierOf[e.order])
  /\ latest' = [latest EXCEPT ![e.order] = e.stage]
  /\ queue' = Append(queue, Undelivered(e))
  /\ cleared' = IF ResetPending THEN {} ELSE cleared
  /\ UNCHANGED <<resets, holding, orders, couriers, disputed>>

\* POST /simulation/reset
PublishReset ==
  /\ InFlight < MaxPending
  /\ resets < MaxResets
  /\ resets' = resets + 1
  /\ queue' = Append(queue, Undelivered(Reset))
  /\ cleared' = IF Projected THEN {o \in Orders : latest[o] \in Over} ELSE {}
  /\ UNCHANGED <<latest, holding, orders, couriers, disputed>>

\* The rows a transaction writes, resets aside.
About(e) ==
  IF e \in {Nothing, Reset} THEN {}
  ELSE {e.order} \cup (IF Stages[e.stage].courier = "" THEN {} ELSE {CourierOf[e.order]})

Goroutines(p) == {w \in Workers : PodOf[w] = p}
Buffered(p) == {i \in 1..Len(queue) : queue[i].pod = p}
Busy(p) == {w \in Goroutines(p) : holding[w] # Nothing}

\* What pod p has deliveries of, waiting or in an open transaction.
Has(p) ==
  UNION ({About(queue[i].event) : i \in Buffered(p)} \cup
         {About(holding[w]) : w \in Goroutines(p)})

\* The broker delivers the next event to a pod with credit left.
Deliver(p) ==
  /\ Cardinality(Buffered(p)) + Cardinality(Busy(p)) < Prefetch
  /\ \E i \in 1..Len(queue) :
       /\ queue[i].pod = Nothing
       /\ \A j \in 1..(i - 1) : queue[j].pod # Nothing
       /\ queue' = [queue EXCEPT ![i].pod = p]
       /\ disputed' = disputed \cup
            (About(queue[i].event) \cap UNION {Has(q) : q \in Pods \ {p}})
  /\ UNCHANGED <<latest, resets, holding, orders, couriers, cleared>>

\* A goroutine takes up the first delivery that waits in its pod.
Take(w) ==
  /\ holding[w] = Nothing
  /\ \E i \in Buffered(PodOf[w]) :
       /\ \A j \in Buffered(PodOf[w]) : i <= j
       /\ holding' = [holding EXCEPT ![w] = queue[i].event]
       /\ queue' = RemoveAt(queue, i)
       /\ disputed' = disputed \cup
            (About(queue[i].event) \cap UNION {About(holding[v]) : v \in Workers \ {w}})
  /\ UNCHANGED <<latest, resets, orders, couriers, cleared>>

\* The transaction of worker w commits.
Project(w) ==
  /\ holding[w] # Nothing
  /\ orders' = OrdersAfter(orders, holding[w])
  /\ couriers' = CouriersAfter(couriers, holding[w])
  /\ holding' = [holding EXCEPT ![w] = Nothing]
  /\ UNCHANGED <<latest, resets, queue, cleared, disputed>>

\* Project returns an error: a statement fails, the connection breaks or the
\* payload cannot be read.  The event goes to the dead-letter queue.
DeadLetter(w) ==
  /\ holding[w] # Nothing
  /\ holding' = [holding EXCEPT ![w] = Nothing]
  /\ cleared' = IF holding[w] = Reset THEN {} ELSE cleared
  /\ disputed' = disputed \cup About(holding[w])
  /\ UNCHANGED <<latest, resets, queue, orders, couriers>>

Publish(e) == IF e = Reset THEN PublishReset ELSE PublishEvent(e)

WorkerStep ==
  \/ \E p \in Pods : Deliver(p)
  \/ \E w \in Workers : Take(w) \/ Project(w)

RowsNext ==
  \/ \E e \in Event \cup {Reset} : Publish(e)
  \/ WorkerStep

RowsSpec == RowsInit /\ [][RowsNext]_rowVars

-----------------------------------------------------------------------------
\* The row of order o is the one its last event announced, or it is gone with
\* a reset.
IsCurrent(o) ==
  IF latest[o] = 0 THEN orders[o] = Nothing
  ELSE orders[o] = Row(o, latest[o]) \/ (resets > 0 /\ orders[o] = Nothing)

\* "Order is the current projection of a delivery order": once every event is
\* projected its row is current.
RowIsCurrent == Projected => \A o \in Orders : IsCurrent(o)

\* The row of an order is current once every event is projected, unless two
\* pods had events of it at the same time, two of its events were in open
\* transactions at the same time, or one was dead-lettered.
UndisputedRowIsCurrent == Projected => \A o \in Orders \ disputed : IsCurrent(o)

\* Likewise the row of a courier shows the order under way, or none.
UndisputedFleetIsCurrent ==
  Projected /\ resets = 0 =>
    \A c \in Couriers \ disputed :
      couriers[c] \in
        IF Free(c) THEN {IdleRow}
        ELSE {CourierRow(o, latest[o]) :
                o \in {p \in Orders : CourierOf[p] = c /\ latest[p] \in UnderWay}}

\* The documented reset works: orders that were over and projected when it was
\* published are out of the table for good once it is projected, provided that
\* nothing else is published until then and its transaction does not fail.
DrainedResetClears == ~ResetPending => \A o \in cleared : orders[o] = Nothing
=============================================================================
