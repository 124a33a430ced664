------------------------------ MODULE RowLocks ------------------------------
(***************************************************************************)
(* The transactions of OrderRows statement by statement, with the locks    *)
(* PostgreSQL takes for them until the commit.  Writers of a table share   *)
(* its lock, TRUNCATE does not; every written row is locked.  A pod that   *)
(* starts and the migrate job run Migrate next to them, whose CREATE INDEX *)
(* takes the lock of a table before it finds the index there; it locks     *)
(* writers out.  When transactions wait for each other in a circle the     *)
(* server aborts one of them, and its event goes to the dead-letter queue. *)
(*                                                                         *)
(* A statement gets the locks of its rows together: a circle that forms    *)
(* while it has some of them forms without them, too.  The rows that claim *)
(* an event are in module Projection; registrations write one row last and *)
(* are in no circle.                                                       *)
(***************************************************************************)
EXTENDS OrderRows

CONSTANTS
  RestaurantOf, CustomerOf,   \* of each order
  Migrators,                  \* starting pods and the migrate job
  MaxFaults                   \* bound: resets, failures and migrations together

ASSUME RowLocksAssumption == Workers \cap Migrators = {} /\ MaxFaults \in Nat

VARIABLES
  migrating,      \* migrators whose transaction is open
  done,           \* per transaction: statements it has executed
  faults          \* failures and migrations so far

lockVars == <<migrating, done, faults>>
vars == <<rowVars, lockVars>>

Transactions == Workers \cup Migrators

RowLock(table, row) == [of |-> table, row |-> row, mode |-> "exclusive"]
Writes(table) == [of |-> table, row |-> Nothing, mode |-> "write"]
Indexes(table) == [of |-> table, row |-> Nothing, mode |-> "index"]
Truncates(table) == [of |-> table, row |-> Nothing, mode |-> "exclusive"]

Log == {Writes("order_events")}
CourierLocks(o) == {RowLock("couriers", CourierOf[o])}
OrderLocks(o) == {Writes("orders"), RowLock("orders", o)}

\* Mutant of Statements: the handler of order.delivered updates the order first.
StatementsOrderFirst(e) ==
  CASE e = Reset -> << >>
    [] Type(e) = "order.created" -> <<Log, OrderLocks(e.order)>>
    [] Type(e) \in {"order.accepted", "order.rejected"} -> <<Log, OrderLocks(e.order)>>
    [] Type(e) = "order.delivered" -> <<Log, OrderLocks(e.order), CourierLocks(e.order)>>
    [] OTHER -> <<Log, CourierLocks(e.order), OrderLocks(e.order)>>

\* The locks of each statement after the claim.  TRUNCATE takes its two tables
\* one after the other; the customers that a reset deletes are no agents, and no
\* event brings one.
Statements(e) ==
  CASE e = Reset ->
         <<{Truncates("orders")}, {Truncates("order_events")}, {},
           {RowLock("couriers", c) : c \in Couriers}>>
    [] Type(e) = "order.created" ->
         <<Log, {RowLock("restaurants", RestaurantOf[e.order])},
           {RowLock("customers", CustomerOf[e.order])}, OrderLocks(e.order)>>
    [] Type(e) \in {"order.accepted", "order.rejected"} -> <<Log, OrderLocks(e.order)>>
    [] Type(e) = "courier.location.updated" -> <<CourierLocks(e.order), OrderLocks(e.order)>>
    [] OTHER -> <<Log, CourierLocks(e.order), OrderLocks(e.order)>>

\* All tables and indexes exist: only the locks of CREATE INDEX are left.
Migration == <<{Indexes("orders")}, {Indexes("order_events")}>>

Init ==
  /\ RowsInit
  /\ migrating = {}
  /\ done = [t \in Transactions |-> 0]
  /\ faults = 0

Open(t) == IF t \in Migrators THEN t \in migrating ELSE holding[t] # Nothing
Script(t) == IF t \in Migrators THEN Migration ELSE Statements(holding[t])

Held(t) == IF Open(t) THEN UNION {Script(t)[i] : i \in 1..done[t]} ELSE {}

\* Transaction t has a statement to execute, and the locks that it takes.
Pending(t) == Open(t) /\ done[t] < Len(Script(t))
Wanted(t) == Script(t)[done[t] + 1]

Clash(k, l) ==
  k.of = l.of /\ k.row = l.row /\ ~(k.mode = l.mode /\ k.mode \in {"write", "index"})

BlockedBy(t, u) == u # t /\ \E k \in Wanted(t), l \in Held(u) : Clash(k, l)

Execute(t) ==
  /\ Pending(t)
  /\ \A u \in Transactions : ~BlockedBy(t, u)
  /\ done' = [done EXCEPT ![t] = @ + 1]
  /\ UNCHANGED <<rowVars, migrating, faults>>

Begin(w) == Take(w) /\ UNCHANGED lockVars

Commit(w) ==
  /\ ~Pending(w)
  /\ Project(w)
  /\ done' = [done EXCEPT ![w] = 0]
  /\ UNCHANGED <<migrating, faults>>

Fault == resets + faults < MaxFaults /\ faults' = faults + 1

\* A statement fails, whatever the reason, or the deadlock detector picks it.
Abort(w) ==
  /\ Fault
  /\ DeadLetter(w)
  /\ done' = [done EXCEPT ![w] = 0]
  /\ UNCHANGED migrating

\* Migrate begins, or ends in whatever way; pods are restarted.
BeginMigration(m) ==
  /\ Fault
  /\ m \notin migrating
  /\ migrating' = migrating \cup {m}
  /\ UNCHANGED <<rowVars, done>>

EndMigration(m) ==
  /\ m \in migrating
  /\ migrating' = migrating \ {m}
  /\ done' = [done EXCEPT ![m] = 0]
  /\ UNCHANGED <<rowVars, faults>>

\* Transactions that wait for each other only.
Deadlocked(S) ==
  S # {} /\ \A t \in S : Pending(t) /\ \E u \in S : BlockedBy(t, u)

Next ==
  \/ \E e \in Event : PublishEvent(e) /\ UNCHANGED lockVars
  \/ PublishReset /\ resets + faults < MaxFaults /\ UNCHANGED lockVars
  \/ \E p \in Pods : Deliver(p) /\ UNCHANGED lockVars
  \/ \E w \in Workers : Begin(w) \/ Commit(w) \/ Abort(w)
  \/ \E t \in Transactions : Execute(t)
  \/ \E m \in Migrators : BeginMigration(m) \/ EndMigration(m)

Spec == Init /\ [][Next]_vars

-----------------------------------------------------------------------------
\* Transactions that project orders never wait for each other in a circle,
\* whatever events they hold: it takes a reset or a migration to make one.
ProjectionsNeverDeadlock ==
  \A S \in SUBSET Transactions :
    Deadlocked(S) => \E t \in S : t \in Migrators \/ holding[t] = Reset
=============================================================================
