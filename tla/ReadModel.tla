----------------------------- MODULE ReadModel -----------------------------
(***************************************************************************)
(* The distributed read model of a control-api pod: live events change it  *)
(* in memory, a snapshot of PostgreSQL replaces it at the start and every  *)
(* ten seconds.  The snapshot is read table by table, of the orders only   *)
(* the last ones that changed, and applied later.  Module OrderRows        *)
(* provides the events and the tables; pods of the control-api share       *)
(* nothing else, so one of them is enough.                                 *)
(***************************************************************************)
EXTENDS OrderRows

CONSTANTS
  Limit,        \* orders in a snapshot
  UpdatedAt,    \* when each stage of an order is announced: updated_at of its row
  MaxFaults     \* bound: restarts of the pod and snapshots that fail

\* Services stamp events with clocks of their own, so no order is assumed.
ASSUME ReadModelAssumption ==
  /\ Limit \in Nat \ {0}
  /\ UpdatedAt \in [Orders \X (1..8) -> Nat]
  /\ IsInjective(UpdatedAt)
  /\ MaxFaults \in Nat

VARIABLES
  phase,      \* the pod: "boot" until the first snapshot, then "up"
  live,       \* its exclusive queue of live events, Nothing before it is bound
  board,      \* engine.orders
  fleet,      \* engine.couriers
  delivered,  \* engine.delivered
  reading,    \* how far the snapshot under way is: "no", "couriers", "orders"
  view,       \* what it has read
  faults

apiVars == <<phase, live, board, fleet, delivered, reading, view, faults>>
vars == <<rowVars, apiVars>>

NoOrders == [o \in Orders |-> Nothing]
AllIdle == [c \in Couriers |-> IdleRow]
NoView == [orders |-> NoOrders, couriers |-> AllIdle]

DeliveredIn(rows) ==
  Cardinality({o \in Orders : rows[o] # Nothing /\ rows[o].status = "delivered"})

\* A new process: an empty board and the fleet at rest.
Init ==
  /\ RowsInit
  /\ phase = "boot" /\ live = Nothing
  /\ board = NoOrders /\ fleet = AllIdle /\ delivered = 0
  /\ reading = "no" /\ view = NoView
  /\ faults = 0

(***************************************************************************)
(* The live queue.                                                         *)
(***************************************************************************)

\* The topic exchange puts an event into both queues.
PublishBoth(e) ==
  /\ live # Nothing => Len(live) < MaxPending
  /\ Publish(e)
  /\ live' = IF live = Nothing THEN live ELSE Append(live, e)
  /\ UNCHANGED <<phase, board, fleet, delivered, reading, view, faults>>

\* The consumer starts after the first snapshot; its queue is new and empty.
BindLive ==
  /\ phase = "up" /\ live = Nothing
  /\ live' = <<>>
  /\ UNCHANGED <<rowVars, phase, board, fleet, delivered, reading, view, faults>>

HasLive == live # Nothing /\ live # <<>>

\* Counts an order when its status turns delivered; a reset starts anew.
DeliveredAfter(e) ==
  IF e = Reset THEN 0
  ELSE IF e.stage = Delivered /\
          (board[e.order] = Nothing \/ board[e.order].status # "delivered")
       THEN delivered + 1 ELSE delivered

ApplyEvent ==
  /\ HasLive
  /\ live' = Tail(live)
  /\ board' = OrdersAfter(board, Head(live))
  /\ fleet' = CouriersAfter(fleet, Head(live))
  /\ delivered' = DeliveredAfter(Head(live))
  /\ UNCHANGED <<rowVars, phase, reading, view, faults>>

(***************************************************************************)
(* LoadSnapshot and Hydrate.                                               *)
(***************************************************************************)
Fault == faults < MaxFaults /\ faults' = faults + 1

\* A connection that breaks while rows are fetched ends the loop over them like
\* their end does, and nobody asks for the error.
ReadCouriers ==
  /\ reading = "no"
  /\ reading' = "couriers"
  /\ \/ view' = [NoView EXCEPT !.couriers = couriers] /\ UNCHANGED faults
     \/ /\ Fault
        /\ \E part \in SUBSET Couriers \ {Couriers} :
             view' = [NoView EXCEPT !.couriers =
                        [c \in Couriers |-> IF c \in part THEN couriers[c] ELSE Nothing]]
  /\ UNCHANGED <<rowVars, phase, live, board, fleet, delivered>>

\* The stage whose event wrote a row last.
WrittenAt(row) ==
  CHOOSE i \in 1..8 :
    Stages[i].progress = row.progress /\ (row.progress = 0 => Stages[i].status = row.status)

Newer(rows, p, o) ==
  rows[p] # Nothing /\ UpdatedAt[p, WrittenAt(rows[p])] > UpdatedAt[o, WrittenAt(rows[o])]

\* ORDER BY updated_at DESC LIMIT n
Listed(rows, n) ==
  [o \in Orders |->
     IF rows[o] # Nothing /\ Cardinality({p \in Orders : Newer(rows, p, o)}) < n
     THEN rows[o] ELSE Nothing]

ReadOrders ==
  /\ reading = "couriers"
  /\ reading' = "orders"
  /\ \/ view' = [view EXCEPT !.orders = Listed(orders, Limit)] /\ UNCHANGED faults
     \/ /\ Fault
        /\ \E n \in 0..(Limit - 1) : view' = [view EXCEPT !.orders = Listed(orders, n)]
  /\ UNCHANGED <<rowVars, phase, live, board, fleet, delivered>>

\* A fleet without any courier is taken for a database nobody has filled yet.
FleetFrom(rows) == IF \A c \in Couriers : rows[c] = Nothing THEN fleet ELSE rows

\* Mutant of Hydrate: orders the snapshot does not have are kept.
HydrateMerging ==
  /\ reading = "orders"
  /\ board' = [o \in Orders |-> IF view.orders[o] = Nothing THEN board[o]
                                ELSE view.orders[o]]
  /\ fleet' = FleetFrom(view.couriers)
  /\ delivered' = DeliveredIn(board')
  /\ reading' = "no" /\ view' = NoView /\ phase' = "up"
  /\ UNCHANGED <<rowVars, live, faults>>

Hydrate ==
  /\ reading = "orders"
  /\ board' = view.orders
  /\ fleet' = FleetFrom(view.couriers)
  /\ delivered' = DeliveredIn(view.orders)
  /\ reading' = "no" /\ view' = NoView /\ phase' = "up"
  /\ UNCHANGED <<rowVars, live, faults>>

\* A query fails: no refresh this time, and a start without a snapshot.
LoadFails ==
  /\ Fault
  /\ reading # "orders"
  /\ reading' = "no" /\ view' = NoView /\ phase' = "up"
  /\ UNCHANGED <<rowVars, live, board, fleet, delivered>>

\* The pod is replaced; its exclusive queue goes with it.
Restart ==
  /\ Fault
  /\ phase' = "boot" /\ live' = Nothing
  /\ board' = NoOrders /\ fleet' = AllIdle /\ delivered' = 0
  /\ reading' = "no" /\ view' = NoView
  /\ UNCHANGED rowVars

-----------------------------------------------------------------------------
Refresh == ReadCouriers \/ ReadOrders \/ Hydrate

Next ==
  \/ \E e \in Event \cup {Reset} : PublishBoth(e)
  \/ WorkerStep /\ UNCHANGED apiVars
  \/ BindLive \/ ApplyEvent
  \/ Refresh \/ LoadFails
  \/ Restart

Spec == Init /\ [][Next]_vars

\* The queues are consumed and the refresh loop runs; nobody has to publish.
Fairness ==
  /\ WF_vars(WorkerStep /\ UNCHANGED apiVars)
  /\ WF_vars(BindLive) /\ WF_vars(ApplyEvent)
  /\ WF_vars(Refresh)

FairSpec == Spec /\ Fairness

-----------------------------------------------------------------------------
\* Each instance "is regularly reconciled with PostgreSQL": however late, torn
\* or out of step the snapshots were, and whatever live events have added to the
\* board, once no more events come the board shows the orders that changed last,
\* as many as a snapshot lists, the fleet agrees with its table, and the counter
\* counts the deliveries on the board, for good.
Converges ==
  <>[](/\ board = Listed(orders, Limit) /\ fleet = couriers
       /\ delivered = DeliveredIn(Listed(orders, Limit)))
=============================================================================
