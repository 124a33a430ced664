--------------------------- MODULE RowLocksProofs ---------------------------
(***************************************************************************)
(* Theorems of RowLocks for any number of pods, goroutines, orders and     *)
(* pending events.  Projections of orders cannot wait for each other in a  *)
(* circle, because each of them takes its tables in one order; a reset of  *)
(* a drained system works; and the rows of orders and couriers that are    *)
(* not disputed are current.                                               *)
(***************************************************************************)
EXTENDS RowLocks, TLAPS

\* The tables in the order in which the transactions of order events reach
\* them.
Rank(table) ==
  CASE table = "order_events" -> 1
    [] table = "restaurants"  -> 2
    [] table = "customers"    -> 3
    [] table = "couriers"     -> 4
    [] table = "orders"       -> 5
    [] OTHER                  -> 0

Entry == [event : Event \cup {Reset}, pod : Pods \cup {Nothing}]

\* What the theorems need to know of the types.
WorkersTypeOK ==
  /\ queue \in Seq(Entry)
  /\ holding \in [Workers -> Event \cup {Reset, Nothing}]
  /\ done \in [Transactions -> Nat]

LEMMA ResetIsNoEvent == Reset \notin Event
  BY DEF Reset, Event

\* Nothing is told apart from what a worker can hold, and from a pod.
LEMMA NothingIsNoEvent == Nothing \notin Event /\ Nothing # Reset /\ Nothing \notin Pods
  BY NothingAssumption, OrderRowsAssumption

\* Where the entry at place k of the queue has been, and where it goes, when the
\* entry at place i leaves.
Before(i, k) == IF k < i THEN k ELSE k + 1
After(i, k) == IF k < i THEN k ELSE k - 1

\* What Take moves: worker w gets the event at place i.
Taken(w, i) ==
  /\ i \in Buffered(PodOf[w]) /\ \A j \in Buffered(PodOf[w]) : i <= j
  /\ holding' = [holding EXCEPT ![w] = queue[i].event]
  /\ queue[i] \in Entry /\ i \in 1..Len(queue) /\ Len(queue) \in Nat
  /\ queue' \in Seq(Entry) /\ Len(queue') = Len(queue) - 1
  /\ \A k \in 1..Len(queue') :
       /\ queue'[k] = queue[Before(i, k)]
       /\ Before(i, k) \in 1..Len(queue) /\ Before(i, k) # i
       /\ After(i, Before(i, k)) = k
  /\ \A k \in 1..Len(queue) : k # i =>
       /\ queue'[After(i, k)] = queue[k]
       /\ After(i, k) \in 1..Len(queue')
       /\ Before(i, After(i, k)) = k

LEMMA Removed ==
  ASSUME NEW S, NEW s \in Seq(S), NEW i \in 1..Len(s)
  PROVE  /\ RemoveAt(s, i) \in Seq(S) /\ Len(RemoveAt(s, i)) = Len(s) - 1
         /\ \A k \in 1..(Len(s) - 1) : RemoveAt(s, i)[k] = s[IF k < i THEN k ELSE k + 1]
<1> DEFINE a == SubSeq(s, 1, i - 1)
           b == SubSeq(s, i + 1, Len(s))
<1>1. Len(s) \in Nat /\ i \in Nat /\ 1 <= i /\ i <= Len(s)
  OBVIOUS
<1>2. a \in Seq(S) /\ Len(a) = i - 1 /\ \A k \in 1..(i - 1) : a[k] = s[k]
  BY <1>1
<1>3. b \in Seq(S) /\ Len(b) = Len(s) - i /\ \A k \in 1..(Len(s) - i) : b[k] = s[k + i]
  BY <1>1
<1> HIDE DEF a, b
<1>4. a \o b \in Seq(S) /\ Len(a \o b) = Len(s) - 1
  <2>1. a \in Seq(S) /\ b \in Seq(S)
    BY <1>2, <1>3
  <2>3. a \o b \in Seq(S)
    BY <2>1
  <2>4. Len(a \o b) = Len(a) + Len(b)
    BY <2>1
  <2>2. Len(a) + Len(b) = Len(s) - 1
    BY <1>1, <1>2, <1>3
  <2> QED BY <2>2, <2>3, <2>4
<1>5. ASSUME NEW k \in 1..(Len(s) - 1) PROVE (a \o b)[k] = s[IF k < i THEN k ELSE k + 1]
  <2>1. CASE k < i
    <3>1. k \in 1..(i - 1) /\ k \in 1..Len(a)
      BY <1>1, <1>2, <2>1
    <3>2. (a \o b)[k] = a[k]
      BY <1>2, <1>3, <3>1
    <3> QED BY <1>2, <2>1, <3>1, <3>2
  <2>2. CASE ~(k < i)
    <3>1. k - (i - 1) \in 1..(Len(s) - i) /\ k \notin 1..Len(a) /\ k \in 1..(Len(a) + Len(b))
      BY <1>1, <1>2, <1>3, <2>2
    <3>2. (a \o b)[k] = b[k - Len(a)]
      BY <1>2, <1>3, <3>1
    <3>3. b[k - (i - 1)] = s[k - (i - 1) + i] /\ k - (i - 1) + i = k + 1
      BY <1>1, <1>3, <3>1
    <3> QED BY <1>2, <2>2, <3>2, <3>3
  <2> QED BY <2>1, <2>2
<1> QED BY <1>4, <1>5 DEF RemoveAt, a, b

LEMMA TakeMoves ==
  ASSUME queue \in Seq(Entry), NEW w \in Workers, Take(w)
  PROVE  \E i \in 1..Len(queue) :
           /\ Taken(w, i)
           /\ disputed' = disputed \cup
                (About(queue[i].event) \cap UNION {About(holding[v]) : v \in Workers \ {w}})
<1>1. PICK i \in Buffered(PodOf[w]) :
        /\ \A j \in Buffered(PodOf[w]) : i <= j
        /\ holding' = [holding EXCEPT ![w] = queue[i].event]
        /\ queue' = RemoveAt(queue, i)
        /\ disputed' = disputed \cup
             (About(queue[i].event) \cap UNION {About(holding[v]) : v \in Workers \ {w}})
  BY DEF Take
<1>2. i \in 1..Len(queue) /\ Len(queue) \in Nat /\ queue[i] \in Entry
  BY <1>1 DEF Buffered
<1>3. /\ queue' \in Seq(Entry) /\ Len(queue') = Len(queue) - 1
      /\ \A k \in 1..(Len(queue) - 1) : queue'[k] = queue[IF k < i THEN k ELSE k + 1]
  BY <1>1, <1>2, Removed
<1>4. ASSUME NEW k \in 1..Len(queue')
      PROVE  /\ queue'[k] = queue[Before(i, k)]
             /\ Before(i, k) \in 1..Len(queue) /\ Before(i, k) # i
             /\ After(i, Before(i, k)) = k
  BY <1>2, <1>3 DEF Before, After
<1>5. ASSUME NEW k \in 1..Len(queue), k # i
      PROVE  /\ queue'[After(i, k)] = queue[k]
             /\ After(i, k) \in 1..Len(queue')
             /\ Before(i, After(i, k)) = k
  BY <1>2, <1>3, <1>5 DEF Before, After
<1> QED BY <1>1, <1>2, <1>3, <1>4, <1>5 DEF Taken

\* What Deliver changes: the entry at place i, the first one without a pod.
Sent(p, i) ==
  /\ i \in 1..Len(queue) /\ queue[i].pod = Nothing
  /\ \A j \in 1..(i - 1) : queue[j].pod # Nothing
  /\ queue' \in Seq(Entry) /\ Len(queue') = Len(queue) /\ Len(queue) \in Nat
  /\ \A k \in 1..Len(queue) :
       queue'[k].event = queue[k].event /\ queue'[k].pod = IF k = i THEN p ELSE queue[k].pod

LEMMA DeliverSends ==
  ASSUME queue \in Seq(Entry), NEW p \in Pods, Deliver(p)
  PROVE  \E i \in 1..Len(queue) :
           /\ Sent(p, i)
           /\ disputed' = disputed \cup
                (About(queue[i].event) \cap UNION {Has(q) : q \in Pods \ {p}})
<1>1. PICK i \in 1..Len(queue) :
       /\ queue[i].pod = Nothing
       /\ \A j \in 1..(i - 1) : queue[j].pod # Nothing
       /\ queue' = [queue EXCEPT ![i].pod = p]
       /\ disputed' = disputed \cup
            (About(queue[i].event) \cap UNION {Has(q) : q \in Pods \ {p}})
  BY DEF Deliver
<1>2. \A k \in 1..Len(queue) : queue[k] \in Entry
  OBVIOUS
<1>3. queue' = [queue EXCEPT ![i] = [queue[i] EXCEPT !.pod = p]]
  BY <1>1
<1>4. [queue[i] EXCEPT !.pod = p] \in Entry
  BY <1>2 DEF Entry
<1>5. queue' \in Seq(Entry) /\ Len(queue') = Len(queue) /\ Len(queue) \in Nat
  BY <1>3, <1>4
<1>6. ASSUME NEW k \in 1..Len(queue)
      PROVE  queue'[k].event = queue[k].event /\ queue'[k].pod = IF k = i THEN p ELSE queue[k].pod
  BY <1>2, <1>3 DEF Entry
<1> QED BY <1>1, <1>5, <1>6 DEF Sent

\* What publishing appends.
LEMMA PublishAppends ==
  ASSUME queue \in Seq(Entry), NEW e \in Event \cup {Reset},
         queue' = Append(queue, Undelivered(e))
  PROVE  /\ queue' \in Seq(Entry)
         /\ Len(queue') = Len(queue) + 1 /\ Len(queue) \in Nat
         /\ queue'[Len(queue) + 1].event = e /\ queue'[Len(queue) + 1].pod = Nothing
         /\ \A i \in 1..Len(queue) : queue'[i] = queue[i]
<1>1. Undelivered(e) \in Entry /\ Undelivered(e).event = e /\ Undelivered(e).pod = Nothing
  BY DEF Undelivered, Entry
<1> QED BY <1>1

LEMMA WorkersTyped == Spec => []WorkersTypeOK
<1>1. Init => WorkersTypeOK
  BY DEF Init, RowsInit, WorkersTypeOK
<1>2. WorkersTypeOK /\ [Next]_vars => WorkersTypeOK'
  <2> SUFFICES ASSUME WorkersTypeOK, [Next]_vars PROVE WorkersTypeOK'
    OBVIOUS
  <2> USE DEF WorkersTypeOK
  <2>1. ASSUME NEW e \in Event \cup {Reset}, PublishEvent(e) \/ (e = Reset /\ PublishReset),
               UNCHANGED lockVars
        PROVE  WorkersTypeOK'
    <3>1. queue' = Append(queue, Undelivered(e)) /\ UNCHANGED <<holding, done>>
      BY <2>1 DEF PublishEvent, PublishReset, lockVars
    <3> QED BY <3>1, PublishAppends
  <2>2. ASSUME NEW p \in Pods, Deliver(p), UNCHANGED lockVars PROVE WorkersTypeOK'
    <3>1. queue' \in Seq(Entry)
      BY <2>2, DeliverSends DEF Sent
    <3> QED BY <2>2, <3>1 DEF Deliver, lockVars
  <2>3. ASSUME NEW w \in Workers, Begin(w) PROVE WorkersTypeOK'
    <3>1. PICK i \in 1..Len(queue) : Taken(w, i)
      BY <2>3, TakeMoves DEF Begin
    <3>2. queue[i].event \in Event \cup {Reset} /\ queue' \in Seq(Entry)
      BY <3>1 DEF Taken, Entry
    <3> QED BY <2>3, <3>1, <3>2 DEF Taken, Begin, lockVars
  <2>4. ASSUME NEW t \in Transactions, Execute(t) PROVE WorkersTypeOK'
    BY <2>4 DEF Execute, rowVars
  <2>5. ASSUME NEW w \in Workers, Commit(w) PROVE WorkersTypeOK'
    BY <2>5 DEF Commit, Project
  <2>6. ASSUME NEW w \in Workers, Abort(w) PROVE WorkersTypeOK'
    BY <2>6 DEF Abort, DeadLetter
  <2>7. ASSUME NEW m \in Migrators, BeginMigration(m) \/ EndMigration(m) PROVE WorkersTypeOK'
    BY <2>7 DEF BeginMigration, EndMigration, rowVars
  <2>8. CASE UNCHANGED vars
    BY <2>8 DEF vars, rowVars, lockVars
  <2> QED BY <2>1, <2>2, <2>3, <2>4, <2>5, <2>6, <2>7, <2>8 DEF Next
<1> QED BY <1>1, <1>2, PTL DEF Spec

\* The statements of an order event go to tables of increasing rank.
LEMMA StatementsAscend ==
  ASSUME NEW e \in Event,
         NEW i \in 1..Len(Statements(e)), NEW j \in 1..Len(Statements(e)), i < j,
         NEW k \in Statements(e)[i], NEW l \in Statements(e)[j]
  PROVE  Rank(k.of) < Rank(l.of)
<1> USE DEF Log, CourierLocks, OrderLocks, RowLock, Writes, Rank
<1>0. e # Reset
  BY ResetIsNoEvent
<1>1. CASE Type(e) = "order.created"
  <2> DEFINE S == <<Log, {RowLock("restaurants", RestaurantOf[e.order])},
                    {RowLock("customers", CustomerOf[e.order])}, OrderLocks(e.order)>>
  <2>1. Statements(e) = S
    BY <1>0, <1>1 DEF Statements
  <2>2. i \in 1..4 /\ j \in 1..4 /\ k \in S[i] /\ l \in S[j]
    BY <2>1
  <2>3. Rank(k.of) = (CASE i = 1 -> 1 [] i = 2 -> 2 [] i = 3 -> 3 [] OTHER -> 5)
    BY <2>2
  <2>4. Rank(l.of) = (CASE j = 1 -> 1 [] j = 2 -> 2 [] j = 3 -> 3 [] OTHER -> 5)
    BY <2>2
  <2> QED BY <2>2, <2>3, <2>4
<1>2. CASE Type(e) \in {"order.accepted", "order.rejected"}
  <2>1. Statements(e) = <<Log, OrderLocks(e.order)>>
    BY <1>0, <1>2 DEF Statements
  <2>2. i = 1 /\ j = 2 /\ k \in Log /\ l \in OrderLocks(e.order)
    BY <2>1
  <2> QED BY <2>2
<1>3. CASE Type(e) = "courier.location.updated"
  <2>1. Statements(e) = <<CourierLocks(e.order), OrderLocks(e.order)>>
    BY <1>0, <1>3 DEF Statements
  <2>2. i = 1 /\ j = 2 /\ k \in CourierLocks(e.order) /\ l \in OrderLocks(e.order)
    BY <2>1
  <2> QED BY <2>2
<1>4. CASE Type(e) \notin {"order.created", "order.accepted", "order.rejected",
                           "courier.location.updated"}
  <2> DEFINE S == <<Log, CourierLocks(e.order), OrderLocks(e.order)>>
  <2>1. Statements(e) = S
    BY <1>0, <1>4 DEF Statements
  <2>2. i \in 1..3 /\ j \in 1..3 /\ k \in S[i] /\ l \in S[j]
    BY <2>1
  <2>3. Rank(k.of) = (CASE i = 1 -> 1 [] i = 2 -> 4 [] OTHER -> 5)
    BY <2>2
  <2>4. Rank(l.of) = (CASE j = 1 -> 1 [] j = 2 -> 4 [] OTHER -> 5)
    BY <2>2
  <2> QED BY <2>2, <2>3, <2>4
<1> QED BY <1>1, <1>2, <1>3, <1>4

\* A worker that waits for another one waits for a table of lower rank than
\* the one that the other waits for.
LEMMA WaitsForHigher ==
  ASSUME WorkersTypeOK,
         NEW v \in Workers, holding[v] \in Event, Pending(v),
         NEW l \in Held(v), NEW m \in Wanted(v)
  PROVE  Rank(l.of) < Rank(m.of)
<1> DEFINE e == holding[v]
<1>0. Open(v) /\ Script(v) = Statements(e)
  BY RowLocksAssumption DEF Pending, Script
<1>1. PICK i \in 1..done[v] : l \in Statements(e)[i]
  BY <1>0 DEF Held
<1>2. done[v] \in Nat /\ done[v] < Len(Statements(e)) /\ Len(Statements(e)) \in Nat
  <2>1. Len(Statements(e)) \in {2, 3, 4}
    <3>1. e # Reset
      BY ResetIsNoEvent
    <3> QED BY <3>1 DEF Statements
  <2> QED BY <1>0, <2>1 DEF Pending, WorkersTypeOK, Transactions
<1>3. i \in 1..Len(Statements(e)) /\ done[v] + 1 \in 1..Len(Statements(e)) /\ i < done[v] + 1
  BY <1>2
<1>4. m \in Statements(e)[done[v] + 1]
  BY <1>0 DEF Wanted
<1> QED BY <1>1, <1>3, <1>4, StatementsAscend

\* No circle of projections: along a circle the rank would only grow, and no
\* table has a rank above five.
LEMMA NoCircle == WorkersTypeOK => ProjectionsNeverDeadlock
<1> SUFFICES ASSUME WorkersTypeOK, NEW S \in SUBSET Transactions, Deadlocked(S),
                    \A w \in S : w \notin Migrators /\ holding[w] # Reset
             PROVE  FALSE
  BY DEF ProjectionsNeverDeadlock
<1>0. S \subseteq Workers
  BY DEF Transactions
<1> DEFINE Waits(w, v, n) ==
             \E k \in Wanted(w), l \in Held(v) : Clash(k, l) /\ Rank(k.of) = n
           Ranks == {n \in 0..5 : \E w, v \in S : Waits(w, v, n)}
<1>1. \A w \in S : Pending(w) /\ holding[w] \in Event
  BY <1>0 DEF Deadlocked, Pending, Open, WorkersTypeOK
<1>2. \A w \in S : \E n \in Ranks, v \in S : Waits(w, v, n)
  <2> SUFFICES ASSUME NEW w \in S PROVE \E n \in Ranks, v \in S : Waits(w, v, n)
    OBVIOUS
  <2>1. PICK v \in S : BlockedBy(w, v)
    BY DEF Deadlocked
  <2>2. PICK k \in Wanted(w), l \in Held(v) : Clash(k, l)
    BY <2>1 DEF BlockedBy
  <2>3. Rank(k.of) \in 0..5
    BY DEF Rank
  <2>4. Waits(w, v, Rank(k.of))
    BY <2>2
  <2> QED BY <2>3, <2>4
<1>3. \A n \in Ranks : \E n2 \in Ranks : n < n2
  <2> SUFFICES ASSUME NEW n \in Ranks PROVE \E n2 \in Ranks : n < n2
    OBVIOUS
  <2>1. PICK w \in S, v \in S : Waits(w, v, n)
    OBVIOUS
  <2>2. PICK k \in Wanted(w), l \in Held(v) : Clash(k, l) /\ Rank(k.of) = n
    BY <2>1
  <2>3. PICK n2 \in Ranks, u \in S : Waits(v, u, n2)
    BY <1>2
  <2>4. PICK m \in Wanted(v) : Rank(m.of) = n2
    BY <2>3
  <2>5. Rank(l.of) < Rank(m.of)
    BY <1>0, <1>1, WaitsForHigher
  <2> QED BY <2>2, <2>4, <2>5 DEF Clash
<1>4. Ranks # {}
  BY <1>2 DEF Deadlocked
<1> HIDE DEF Ranks
<1>5. Ranks \subseteq 0..5
  BY DEF Ranks
<1>6. 5 \notin Ranks
  BY <1>3, <1>5
<1>7. 4 \notin Ranks
  BY <1>3, <1>5, <1>6
<1>8. 3 \notin Ranks
  BY <1>3, <1>5, <1>6, <1>7
<1>9. 2 \notin Ranks
  BY <1>3, <1>5, <1>6, <1>7, <1>8
<1>10. 1 \notin Ranks
  BY <1>3, <1>5, <1>6, <1>7, <1>8, <1>9
<1>11. 0 \notin Ranks
  BY <1>3, <1>5, <1>6, <1>7, <1>8, <1>9, <1>10
<1>12. PICK n \in Ranks : n \in 0..5
  BY <1>4, <1>5
<1>13. n = 0 \/ n = 1 \/ n = 2 \/ n = 3 \/ n = 4 \/ n = 5
  BY <1>12
<1> QED BY <1>6, <1>7, <1>8, <1>9, <1>10, <1>11, <1>12, <1>13

\* Transactions that project orders are never aborted for each other: while
\* neither a reset nor a migration is under way no event is dead-lettered because
\* of a deadlock.
THEOREM ProjectionsNeverDeadlockHolds == Spec => []ProjectionsNeverDeadlock
  BY WorkersTyped, NoCircle, PTL

-----------------------------------------------------------------------------
(***************************************************************************)
(* The documented reset.                                                   *)
(***************************************************************************)

\* Worker w has an event of order o in its transaction, and the places of the
\* events of o in the queue.
Holds(w, o) == holding[w] \in Event /\ holding[w].order = o
Waiting(o) ==
  {i \in 1..Len(queue) : queue[i].event \in Event /\ queue[i].event.order = o}

\* The reset is alone in the queue, or alone in a transaction.
ResetAlone ==
  \/ /\ Len(queue) = 1 /\ queue[1].event = Reset
     /\ \A w \in Workers : holding[w] = Nothing
  \/ /\ Len(queue) = 0
     /\ \E w \in Workers :
          holding[w] = Reset /\ \A v \in Workers \ {w} : holding[v] = Nothing

\* A cleared order is over and none of its events is on the way; while cleared
\* orders wait for their reset nothing else is under way.
DrainInv ==
  /\ latest \in [Orders -> 0..8] /\ orders \in [Orders -> {orders[o] : o \in Orders}]
  /\ cleared \subseteq Orders
  /\ \A o \in cleared :
       latest[o] \in Over /\ Waiting(o) = {} /\ \A w \in Workers : ~Holds(w, o)
  /\ cleared # {} /\ ResetPending => ResetAlone
  /\ DrainedResetClears

LEMMA DrainStep == WorkersTypeOK /\ DrainInv /\ [Next]_vars => DrainInv'
<1> SUFFICES ASSUME WorkersTypeOK, DrainInv, [Next]_vars PROVE DrainInv'
  OBVIOUS
<1> USE DEF DrainInv, Holds, Waiting, DrainedResetClears
<1>0. queue \in Seq(Entry)
  BY DEF WorkersTypeOK
<1>1. ASSUME NEW e \in Event, PublishEvent(e) PROVE DrainInv'
  <2>1. e.order \in Orders /\ e.stage \in 0..8 /\ e # Reset
    BY ResetIsNoEvent DEF Event
  <2>2. latest[e.order] \notin Over
    BY <1>1 DEF PublishEvent, Following, Over, Delivered, Rejected
  <2>3. queue' = Append(queue, Undelivered(e)) /\ UNCHANGED <<holding, orders>>
        /\ latest' = [latest EXCEPT ![e.order] = e.stage]
    BY <1>1 DEF PublishEvent
  <2>4. CASE ResetPending
    <3>1. cleared' = {}
      BY <1>1, <2>4 DEF PublishEvent
    <3> QED BY <2>1, <2>3, <3>1
  <2>5. CASE ~ResetPending
    <3>1. cleared' = cleared
      BY <1>1, <2>5 DEF PublishEvent
    <3>2. ~ResetPending'
      BY <1>0, <2>1, <2>3, <2>5, PublishAppends DEF ResetPending
    <3>3. \A o \in cleared : latest'[o] \in Over /\ Waiting(o)' = {}
      BY <1>0, <2>1, <2>2, <2>3, PublishAppends
    <3> QED BY <2>1, <2>3, <2>5, <3>1, <3>2, <3>3
  <2> QED BY <2>4, <2>5
<1>2. ASSUME PublishReset PROVE DrainInv'
  <2>1. queue' = Append(queue, Undelivered(Reset)) /\ UNCHANGED <<holding, orders, latest>>
    BY <1>2 DEF PublishReset
  <2>2. ResetPending'
    BY <1>0, <2>1, PublishAppends DEF ResetPending
  <2>3. CASE Projected
    <3>1. Len(queue') = 1 /\ queue'[1].event = Reset /\ \A w \in Workers : holding'[w] = Nothing
      BY <1>0, <2>1, <2>3, PublishAppends DEF Projected
    <3>2. ResetAlone'
      BY <3>1 DEF ResetAlone
    <3>3. \A o \in Orders : Waiting(o)' = {} /\ \A w \in Workers : ~Holds(w, o)'
      BY <3>1, ResetIsNoEvent, NothingIsNoEvent
    <3>4. cleared' = {o \in Orders : latest[o] \in Over}
      BY <1>2, <2>3 DEF PublishReset
    <3> QED BY <2>1, <2>2, <3>2, <3>3, <3>4
  <2>4. CASE ~Projected
    <3>1. cleared' = {}
      BY <1>2, <2>4 DEF PublishReset
    <3> QED BY <2>1, <2>2, <3>1
  <2> QED BY <2>3, <2>4
<1>3. ASSUME NEW p \in Pods, Deliver(p) PROVE DrainInv'
  <2>1. PICK i \in 1..Len(queue) : Sent(p, i)
    BY <1>0, <1>3, DeliverSends
  <2>2. UNCHANGED <<latest, orders, holding, cleared>>
    BY <1>3 DEF Deliver
  <2>3. Len(queue') = Len(queue) /\ \A k \in 1..Len(queue) : queue'[k].event = queue[k].event
    BY <2>1 DEF Sent
  <2>4. (ResetPending' <=> ResetPending) /\ (ResetAlone' <=> ResetAlone)
        /\ \A o \in Orders : Waiting(o)' = Waiting(o)
    BY <2>2, <2>3 DEF ResetPending, ResetAlone
  <2> QED BY <2>2, <2>4
<1>4. ASSUME NEW w \in Workers, Begin(w) PROVE DrainInv'
  <2>1. Take(w) /\ holding[w] = Nothing /\ UNCHANGED <<latest, orders, cleared>>
    BY <1>4 DEF Begin, Take
  <2>0. PICK i \in 1..Len(queue) : Taken(w, i)
    BY <1>0, <2>1, TakeMoves
  <2>00. holding \in [Workers -> Event \cup {Reset, Nothing}]
    BY DEF WorkersTypeOK
  <2>2. ResetPending' <=> ResetPending
    <3>1. ASSUME ResetPending' PROVE ResetPending
      <4>1. ASSUME NEW k \in 1..Len(queue'), queue'[k].event = Reset PROVE ResetPending
        BY <2>0, <4>1 DEF ResetPending, Taken
      <4>2. ASSUME NEW v \in Workers, holding'[v] = Reset PROVE ResetPending
        BY <2>0, <2>00, <2>1, <4>2 DEF ResetPending, Taken
      <4> QED BY <3>1, <4>1, <4>2 DEF ResetPending
    <3>2. ASSUME ResetPending PROVE ResetPending'
      <4>1. ASSUME NEW k \in 1..Len(queue), queue[k].event = Reset PROVE ResetPending'
        <5>1. CASE k = i
          BY <2>0, <2>00, <2>1, <4>1, <5>1 DEF ResetPending, Taken
        <5>2. CASE k # i
          BY <2>0, <2>00, <2>1, <4>1, <5>2 DEF ResetPending, Taken
        <5> QED BY <5>1, <5>2
      <4>2. ASSUME NEW v \in Workers, holding[v] = Reset PROVE ResetPending'
        BY <2>0, <2>00, <2>1, <4>2, NothingIsNoEvent DEF ResetPending, Taken
      <4> QED BY <3>2, <4>1, <4>2 DEF ResetPending
    <3> QED BY <3>1, <3>2
  <2>3. ResetAlone => ResetAlone'
    <3>1. SUFFICES ASSUME ResetAlone PROVE ResetAlone'
      OBVIOUS
    <3>2. Len(queue) = 1 /\ queue[1].event = Reset /\ \A v \in Workers : holding[v] = Nothing
      BY <2>0, <2>1, <3>1 DEF ResetAlone, Taken
    <3>3. i = 1 /\ Len(queue') = 0 /\ holding' = [holding EXCEPT ![w] = queue[i].event]
      BY <2>0, <3>2 DEF Taken
    <3> QED BY <2>00, <3>2, <3>3 DEF ResetAlone
  <2>4. \A o \in cleared : Waiting(o)' = {} /\ \A v \in Workers : ~Holds(v, o)'
    <3> SUFFICES ASSUME NEW o \in cleared
                 PROVE  Waiting(o)' = {} /\ \A v \in Workers : ~Holds(v, o)'
      OBVIOUS
    <3>1. ASSUME NEW k \in 1..Len(queue'), queue'[k].event \in Event
          PROVE  queue'[k].event.order # o
      <4>1. queue'[k] = queue[Before(i, k)] /\ Before(i, k) \in 1..Len(queue)
        BY <2>0 DEF Taken
      <4>2. Before(i, k) \notin Waiting(o)
        OBVIOUS
      <4> QED BY <3>1, <4>1, <4>2
    <3>2. ~(queue[i].event \in Event /\ queue[i].event.order = o)
      OBVIOUS
    <3>3. \A v \in Workers : ~Holds(v, o)'
      BY <2>0, <2>00, <2>1, <3>2 DEF Taken
    <3> QED BY <3>1, <3>3
  <2> QED BY <2>1, <2>2, <2>3, <2>4
<1>5. ASSUME UNCHANGED rowVars PROVE DrainInv'
  BY <1>5 DEF rowVars, ResetPending, ResetAlone
<1>6. ASSUME NEW w \in Workers, Commit(w) PROVE DrainInv'
  <2>1. /\ orders' = OrdersAfter(orders, holding[w])
        /\ holding' = [holding EXCEPT ![w] = Nothing]
        /\ UNCHANGED <<latest, queue, cleared>>
        /\ holding[w] \in Event \cup {Reset}
    BY <1>6 DEF Commit, Project, WorkersTypeOK
  <2>2. \A o \in cleared : Waiting(o)' = {} /\ \A v \in Workers : ~Holds(v, o)'
    BY <2>1, NothingIsNoEvent DEF WorkersTypeOK
  <2>3. CASE holding[w] = Reset
    <3>1. orders' = [o \in Orders |-> Nothing]
      BY <2>1, <2>3 DEF OrdersAfter
    <3>2. cleared # {} => ~ResetPending'
      <4> SUFFICES ASSUME cleared # {} PROVE ~ResetPending'
        OBVIOUS
      <4>1. ResetAlone
        BY <2>3 DEF ResetPending
      <4>2. Len(queue) = 0 /\ \A v \in Workers \ {w} : holding[v] = Nothing
        BY <2>3, <4>1, NothingIsNoEvent DEF ResetAlone
      <4>3. Len(queue') = 0 /\ \A v \in Workers : holding'[v] = Nothing
        BY <2>1, <4>2 DEF WorkersTypeOK
      <4> QED BY <4>3, NothingIsNoEvent DEF ResetPending
    <3> QED BY <2>1, <2>2, <3>1, <3>2
  <2>4. CASE holding[w] \in Event
    <3>1. holding[w] # Reset /\ holding[w].order \in Orders \ cleared
      BY <2>4, ResetIsNoEvent DEF Event
    <3>2. ResetPending' <=> ResetPending
      BY <2>1, <3>1, NothingIsNoEvent DEF ResetPending, WorkersTypeOK
    <3>3. \A o \in cleared : orders'[o] = orders[o]
      BY <2>1, <3>1 DEF OrdersAfter
    <3>4. orders' \in [Orders -> {orders'[o] : o \in Orders}]
      BY <2>1, <3>1 DEF OrdersAfter
    <3>5. ~ResetAlone
      BY <2>4, <3>1, NothingIsNoEvent DEF ResetAlone
    <3> QED BY <2>1, <2>2, <3>2, <3>3, <3>4, <3>5
  <2> QED BY <2>1, <2>3, <2>4
<1>7. ASSUME NEW w \in Workers, Abort(w) PROVE DrainInv'
  <2>1. /\ holding' = [holding EXCEPT ![w] = Nothing]
        /\ UNCHANGED <<latest, queue, orders>>
        /\ cleared' = IF holding[w] = Reset THEN {} ELSE cleared
        /\ holding[w] \in Event \cup {Reset}
    BY <1>7 DEF Abort, DeadLetter, WorkersTypeOK
  <2>2. \A o \in cleared : Waiting(o)' = {} /\ \A v \in Workers : ~Holds(v, o)'
    BY <2>1, NothingIsNoEvent DEF WorkersTypeOK
  <2>3. CASE holding[w] = Reset
    BY <2>1, <2>3
  <2>4. CASE holding[w] \in Event
    <3>1. holding[w] # Reset /\ cleared' = cleared
      BY <2>1, <2>4, ResetIsNoEvent
    <3>2. ResetPending' <=> ResetPending
      BY <2>1, <3>1, NothingIsNoEvent DEF ResetPending, WorkersTypeOK
    <3>3. ~ResetAlone
      BY <2>4, <3>1, NothingIsNoEvent DEF ResetAlone
    <3> QED BY <2>1, <2>2, <3>1, <3>2, <3>3
  <2> QED BY <2>1, <2>3, <2>4
<1> QED BY <1>1, <1>2, <1>3, <1>4, <1>5, <1>6, <1>7
        DEF Next, Execute, BeginMigration, EndMigration, vars

\* The reset of the README, after pausing and draining: however many orders,
\* pods, goroutines and earlier resets there are, no order that was over then is
\* in the table afterwards.
THEOREM DrainedResetClearsHolds == Spec => []DrainedResetClears
<1>1. Init => DrainInv
  BY DEF Init, RowsInit, DrainInv, ResetPending, DrainedResetClears
<1>2. DrainInv => DrainedResetClears
  BY DEF DrainInv
<1> QED BY <1>1, <1>2, DrainStep, WorkersTyped, PTL DEF Spec

-----------------------------------------------------------------------------
(***************************************************************************)
(* The pods.  Entries are delivered in the order of the queue, and two     *)
(* pods have events of one order, or of one courier, only if it is         *)
(* disputed: what a goroutine takes up is the first event of every order   *)
(* and courier it is about, unless they are disputed.                      *)
(***************************************************************************)
InTurn ==
  \A i \in 1..Len(queue) :
    queue[i].pod # Nothing => \A j \in 1..(i - 1) : queue[j].pod # Nothing

Apart == \A p, q \in Pods : p # q => Has(p) \cap Has(q) \subseteq disputed

PodInv == InTurn /\ Apart

\* Pods that get no more events stay apart.
LEMMA StillApart ==
  ASSUME Apart, disputed \subseteq disputed', \A p \in Pods : Has(p)' \subseteq Has(p)
  PROVE  Apart'
<1> SUFFICES ASSUME NEW p \in Pods, NEW q \in Pods, p # q
             PROVE  Has(p)' \cap Has(q)' \subseteq disputed'
  BY DEF Apart
<1>1. Has(p) \cap Has(q) \subseteq disputed
  BY DEF Apart
<1> QED BY <1>1

LEMMA PodStep == WorkersTypeOK /\ PodInv /\ [Next]_vars => PodInv'
<1> SUFFICES ASSUME WorkersTypeOK, PodInv, [Next]_vars PROVE PodInv'
  OBVIOUS
<1> USE DEF PodInv
<1>0. queue \in Seq(Entry) /\ holding \in [Workers -> Event \cup {Reset, Nothing}]
  BY DEF WorkersTypeOK
<1>1. ASSUME NEW e \in Event \cup {Reset}, queue' = Append(queue, Undelivered(e)),
             UNCHANGED <<holding, disputed>>
      PROVE  PodInv'
  <2>1. /\ Len(queue') = Len(queue) + 1 /\ Len(queue) \in Nat
        /\ queue'[Len(queue) + 1].pod = Nothing
        /\ \A i \in 1..Len(queue) : queue'[i] = queue[i]
    BY <1>0, <1>1, PublishAppends
  <2>2. InTurn'
    BY <2>1 DEF InTurn
  <2>3. \A p \in Pods : Buffered(p)' = Buffered(p)
    BY <2>1, NothingIsNoEvent DEF Buffered
  <2>4. ASSUME NEW p \in Pods PROVE Has(p)' \subseteq Has(p)
    <3>1. \A i \in Buffered(p) : queue'[i] = queue[i]
      BY <2>1 DEF Buffered
    <3> QED BY <1>1, <2>3, <3>1 DEF Has, Goroutines
  <2> QED BY <1>1, <2>2, <2>4, StillApart
<1>2. ASSUME NEW p \in Pods, Deliver(p) PROVE PodInv'
  <2>1. PICK i \in 1..Len(queue) :
          /\ Sent(p, i)
          /\ disputed' = disputed \cup
               (About(queue[i].event) \cap UNION {Has(q) : q \in Pods \ {p}})
    BY <1>0, <1>2, DeliverSends
  <2>2. UNCHANGED holding
    BY <1>2 DEF Deliver
  <2>3. InTurn'
    BY <2>1, NothingIsNoEvent DEF InTurn, Sent
  <2>4. ASSUME NEW q \in Pods, q # p PROVE Has(q)' \subseteq Has(q)
    <3>1. Buffered(q)' = Buffered(q)
      BY <2>1, <2>4, NothingIsNoEvent DEF Buffered, Sent
    <3>2. \A k \in Buffered(q) : queue'[k].event = queue[k].event
      BY <2>1 DEF Buffered, Sent
    <3> QED BY <2>2, <3>1, <3>2 DEF Has, Goroutines
  <2>5. Has(p)' \subseteq Has(p) \cup About(queue[i].event)
    <3>1. ASSUME NEW k \in Buffered(p)', k # i
          PROVE  k \in Buffered(p) /\ queue'[k].event = queue[k].event
      BY <2>1, <3>1 DEF Buffered, Sent
    <3>2. queue'[i].event = queue[i].event
      BY <2>1 DEF Sent
    <3> QED BY <2>2, <3>1, <3>2 DEF Has, Goroutines
  <2>6. ASSUME NEW q \in Pods, NEW r \in Pods, q # r
        PROVE  Has(q)' \cap Has(r)' \subseteq disputed'
    <3>1. Has(q) \cap Has(r) \subseteq disputed
      BY <2>6 DEF Apart
    <3>2. CASE q = p
      <4>1. About(queue[i].event) \cap Has(r) \subseteq disputed'
        BY <2>1, <2>6, <3>2
      <4> QED BY <2>1, <2>4, <2>5, <2>6, <3>1, <3>2, <4>1
    <3>3. CASE r = p
      <4>1. About(queue[i].event) \cap Has(q) \subseteq disputed'
        BY <2>1, <2>6, <3>3
      <4> QED BY <2>1, <2>4, <2>5, <2>6, <3>1, <3>3, <4>1
    <3>4. CASE q # p /\ r # p
      BY <2>1, <2>4, <3>1, <3>4
    <3> QED BY <3>2, <3>3, <3>4
  <2> QED BY <2>3, <2>6 DEF Apart
<1>3. ASSUME NEW w \in Workers, Take(w) PROVE PodInv'
  <2>1. PICK i \in 1..Len(queue) :
          /\ Taken(w, i)
          /\ disputed' = disputed \cup
               (About(queue[i].event) \cap UNION {About(holding[v]) : v \in Workers \ {w}})
    BY <1>0, <1>3, TakeMoves
  <2>2. InTurn'
    <3> SUFFICES ASSUME NEW k \in 1..Len(queue'), queue'[k].pod # Nothing,
                        NEW j \in 1..(k - 1)
                 PROVE  queue'[j].pod # Nothing
      BY DEF InTurn
    <3>1. j \in 1..Len(queue') /\ Before(i, j) < Before(i, k)
          /\ Before(i, j) \in 1..Len(queue) /\ Before(i, k) \in 1..Len(queue)
      BY <2>1 DEF Taken, Before
    <3>2. queue'[k] = queue[Before(i, k)] /\ queue'[j] = queue[Before(i, j)]
      BY <2>1, <3>1 DEF Taken
    <3> QED BY <3>1, <3>2 DEF InTurn
  <2>3. ASSUME NEW p \in Pods PROVE Has(p)' \subseteq Has(p)
    <3>1. ASSUME NEW k \in Buffered(p)'
          PROVE  Before(i, k) \in Buffered(p) /\ queue'[k] = queue[Before(i, k)]
      BY <2>1 DEF Buffered, Taken
    <3>2. ASSUME NEW v \in Goroutines(p) PROVE About(holding'[v]) \subseteq Has(p)
      <4>1. CASE v = w
        <5>1. i \in Buffered(p) /\ holding'[v] = queue[i].event
          BY <1>0, <2>1, <3>2, <4>1 DEF Taken, Goroutines
        <5> QED BY <5>1 DEF Has
      <4>2. CASE v # w
        <5>1. holding'[v] = holding[v]
          BY <1>0, <2>1, <3>2, <4>2 DEF Taken, Goroutines
        <5> QED BY <5>1 DEF Has
      <4> QED BY <4>1, <4>2
    <3> QED BY <3>1, <3>2 DEF Has, Goroutines
  <2> QED BY <2>1, <2>2, <2>3, StillApart
<1>4. ASSUME NEW w \in Workers, holding' = [holding EXCEPT ![w] = Nothing],
             UNCHANGED queue, disputed \subseteq disputed'
      PROVE  PodInv'
  <2>1. InTurn'
    BY <1>4 DEF InTurn
  <2>2. ASSUME NEW p \in Pods PROVE Has(p)' \subseteq Has(p)
    <3>1. ASSUME NEW v \in Goroutines(p) PROVE About(holding'[v]) \subseteq About(holding[v])
      BY <1>0, <1>4, <3>1 DEF Goroutines, About
    <3> QED BY <1>4, <3>1 DEF Has, Goroutines, Buffered
  <2> QED BY <1>4, <2>1, <2>2, StillApart
<1>5. ASSUME UNCHANGED rowVars PROVE PodInv'
  BY <1>5 DEF rowVars, InTurn, Apart, Has, Buffered, Goroutines
<1>6. ASSUME NEW e \in Event, PublishEvent(e) PROVE PodInv'
  BY <1>1, <1>6 DEF PublishEvent
<1>7. ASSUME PublishReset PROVE PodInv'
  BY <1>1, <1>7 DEF PublishReset
<1>8. ASSUME NEW w \in Workers, Commit(w) \/ Abort(w) PROVE PodInv'
  BY <1>4, <1>8 DEF Commit, Project, Abort, DeadLetter
<1> QED BY <1>2, <1>3, <1>5, <1>6, <1>7, <1>8
        DEF Next, Begin, Execute, BeginMigration, EndMigration, vars

LEMMA PodsApart == Spec => []PodInv
<1>1. Init => PodInv
  <2> SUFFICES ASSUME Init PROVE PodInv
    OBVIOUS
  <2>1. Len(queue) = 0 /\ \A w \in Workers : holding[w] = Nothing
    BY DEF Init, RowsInit
  <2>2. \A p \in Pods : Buffered(p) = {}
    BY <2>1 DEF Buffered
  <2>3. About(Nothing) = {}
    BY DEF About
  <2>4. \A p \in Pods : Has(p) = {}
    BY <2>1, <2>2, <2>3 DEF Has, Goroutines
  <2> QED BY <2>1, <2>4 DEF PodInv, InTurn, Apart
<1> QED BY <1>1, PodStep, WorkersTyped, PTL DEF Spec

\* The event that a goroutine takes up is the first in the queue of whatever
\* undisputed order or courier it is about.
LEMMA FirstTaken ==
  ASSUME WorkersTypeOK, PodInv, NEW w \in Workers, NEW i \in 1..Len(queue), Taken(w, i),
         NEW x, x \in About(queue[i].event), x \notin disputed,
         NEW j \in 1..Len(queue), x \in About(queue[j].event)
  PROVE  i <= j
<1> SUFFICES ASSUME j < i PROVE FALSE
  BY DEF Taken
<1>0. queue \in Seq(Entry) /\ PodOf[w] \in Pods
  BY OrderRowsAssumption DEF WorkersTypeOK
<1>1. queue[i].pod = PodOf[w] /\ i \in Buffered(PodOf[w]) /\ \A k \in Buffered(PodOf[w]) : i <= k
  BY DEF Taken, Buffered
<1>2. queue[j].pod # Nothing
  BY <1>0, <1>1, NothingIsNoEvent DEF PodInv, InTurn
<1>3. queue[j].pod \in Pods
  <2>1. queue[j] \in Entry
    BY <1>0
  <2> QED BY <1>2, <2>1 DEF Entry
<1>4. PICK q \in Pods : q = queue[j].pod
  BY <1>3
<1>5. j \in Buffered(q)
  BY <1>4 DEF Buffered
<1>6. x \in Has(q) /\ x \in Has(PodOf[w])
  BY <1>1, <1>5 DEF Has
<1>7. q = PodOf[w]
  BY <1>0, <1>6 DEF PodInv, Apart
<1> QED BY <1>0, <1>1, <1>5, <1>7

-----------------------------------------------------------------------------
(***************************************************************************)
(* The row of an order is current unless the order is disputed.            *)
(*                                                                         *)
(* The argument: the waiting events of an undisputed order are a stretch   *)
(* of its life.  The goroutine that holds one has taken up the first of    *)
(* them, and the row shows the stage before that one.                      *)
(***************************************************************************)
StageAt(i) == queue[i].event.stage

FirstWaiting(o, i) == i \in Waiting(o) /\ \A j \in Waiting(o) : i <= j
LastWaiting(o, i) == i \in Waiting(o) /\ \A j \in Waiting(o) : j <= i
Adjacent(o, i, j) ==
  /\ i \in Waiting(o) /\ j \in Waiting(o) /\ i < j
  /\ \A k \in Waiting(o) : k <= i \/ j <= k

\* The waiting events of an order follow each other, up to its latest stage.
Linked(o) ==
  \A i \in Waiting(o) :
    /\ LastWaiting(o, i) => StageAt(i) = latest[o]
    /\ \A j \in Waiting(o) : Adjacent(o, i, j) => StageAt(j) \in Following(StageAt(i))

\* What waits for order o goes on from stage p.
Leads(o, p) ==
  /\ Waiting(o) = {} => latest[o] = p
  /\ \A i \in Waiting(o) : FirstWaiting(o, i) => StageAt(i) \in Following(p)

\* The row of order o shows stage p, or is gone with a reset.
Shows(o, p) ==
  IF p = 0 THEN orders[o] = Nothing
  ELSE orders[o] = Row(o, p) \/ (resets > 0 /\ orders[o] = Nothing)

RowFollows(o, p) ==
  /\ Shows(o, p)
  /\ \A w \in Workers : Holds(w, o) =>
       holding[w].stage \in Following(p) /\ Leads(o, holding[w].stage)
  /\ (\A w \in Workers : ~Holds(w, o)) => Leads(o, p)

OneHolder(o) == \A w, v \in Workers : Holds(w, o) /\ Holds(v, o) => w = v

HistoryTypeOK ==
  /\ latest \in [Orders -> 0..8] /\ resets \in Nat
  /\ orders \in [Orders -> {orders[o] : o \in Orders}]
  /\ ResetPending => resets > 0

Followed(o) == Linked(o) /\ OneHolder(o) /\ \E p \in 0..8 : RowFollows(o, p)

HistoryInv == HistoryTypeOK /\ \A o \in Orders \ disputed : Followed(o)

-----------------------------------------------------------------------------
(***************************************************************************)
(* The queue.                                                              *)
(***************************************************************************)

\* What waits for an order as long as the queue gains and loses no event of it.
LEMMA SameWaiting ==
  ASSUME NEW o \in Orders, Waiting(o)' = Waiting(o), latest'[o] = latest[o],
         \A i \in Waiting(o) : queue'[i].event = queue[i].event
  PROVE  /\ Linked(o) => Linked(o)'
         /\ \A p \in 0..8 : Leads(o, p) => Leads(o, p)'
<1>1. \A i \in Waiting(o) : StageAt(i)' = StageAt(i)
  BY DEF StageAt
<1>2. \A i \in Waiting(o) : LastWaiting(o, i)' => LastWaiting(o, i)
  BY DEF LastWaiting
<1>3. \A i, j \in Waiting(o) : Adjacent(o, i, j)' => Adjacent(o, i, j)
  BY DEF Adjacent
<1>4. \A i \in Waiting(o) : FirstWaiting(o, i)' => FirstWaiting(o, i)
  BY DEF FirstWaiting
<1>5. Linked(o) => Linked(o)'
  BY <1>1, <1>2, <1>3 DEF Linked
<1>6. \A p \in 0..8 : Leads(o, p) => Leads(o, p)'
  BY <1>1, <1>4 DEF Leads
<1> QED BY <1>5, <1>6

\* A step that changes neither the queue nor what has been published.
LEMMA SameQueue ==
  ASSUME UNCHANGED <<queue, latest>>, NEW o \in Orders
  PROVE  /\ Linked(o) => Linked(o)'
         /\ \A p \in 0..8 : Leads(o, p) => Leads(o, p)'
<1>1. Waiting(o)' = Waiting(o)
  BY DEF Waiting
<1> QED BY <1>1, SameWaiting

\* A delivery changes neither, either.
LEMMA LinkedDeliver ==
  ASSUME WorkersTypeOK, NEW p \in Pods, Deliver(p), NEW o \in Orders
  PROVE  /\ Linked(o) => Linked(o)'
         /\ \A q \in 0..8 : Leads(o, q) => Leads(o, q)'
<1>1. PICK i \in 1..Len(queue) : Sent(p, i)
  BY DeliverSends DEF WorkersTypeOK
<1>2. Len(queue') = Len(queue) /\ \A k \in 1..Len(queue) : queue'[k].event = queue[k].event
  BY <1>1 DEF Sent
<1>3. Waiting(o)' = Waiting(o) /\ \A k \in Waiting(o) : queue'[k].event = queue[k].event
  BY <1>2 DEF Waiting
<1>4. latest'[o] = latest[o]
  BY DEF Deliver
<1> QED BY <1>3, <1>4, SameWaiting

\* Neither does the publication of a reset.
LEMMA LinkedReset ==
  ASSUME WorkersTypeOK, PublishReset, NEW o \in Orders
  PROVE  /\ Linked(o) => Linked(o)'
         /\ \A p \in 0..8 : Leads(o, p) => Leads(o, p)'
<1>1. /\ Len(queue') = Len(queue) + 1 /\ Len(queue) \in Nat
      /\ queue'[Len(queue) + 1].event = Reset
      /\ \A i \in 1..Len(queue) : queue'[i] = queue[i]
  BY PublishAppends DEF PublishReset, WorkersTypeOK
<1>2. Waiting(o)' = Waiting(o) /\ \A i \in Waiting(o) : queue'[i].event = queue[i].event
  BY <1>1, ResetIsNoEvent DEF Waiting
<1>3. latest'[o] = latest[o]
  BY DEF PublishReset
<1> QED BY <1>2, <1>3, SameWaiting

\* An event that is published goes on from the latest stage of its order.
LEMMA LinkedPublish ==
  ASSUME WorkersTypeOK, latest \in [Orders -> 0..8], NEW e \in Event, PublishEvent(e),
         NEW o \in Orders, Linked(o)
  PROVE  /\ Linked(o)'
         /\ \A p \in 0..8 : Leads(o, p) => Leads(o, p)'
<1>n. PICK n \in Nat : n = Len(queue) + 1
  BY DEF WorkersTypeOK
<1>0. latest' = [latest EXCEPT ![e.order] = e.stage] /\ e.stage \in Following(latest[e.order])
      /\ queue' = Append(queue, Undelivered(e))
  BY DEF PublishEvent
<1>1. /\ n = Len(queue) + 1 /\ Len(queue) \in Nat /\ Len(queue') = n /\ queue'[n].event = e
      /\ \A i \in 1..Len(queue) : queue'[i] = queue[i]
  BY <1>n, <1>0, PublishAppends DEF WorkersTypeOK
<1>2. e.order \in Orders
  BY DEF Event
<1>3. Waiting(o)' = IF o = e.order THEN Waiting(o) \cup {n} ELSE Waiting(o)
  BY <1>1 DEF Waiting
<1>4. Waiting(o) \subseteq 1..Len(queue)
  BY DEF Waiting
<1>5. \A i \in Waiting(o) : queue'[i].event = queue[i].event /\ StageAt(i)' = StageAt(i)
  BY <1>1, <1>4 DEF StageAt
<1>6. CASE o # e.order
  <2>1. Waiting(o)' = Waiting(o) /\ latest'[o] = latest[o]
    BY <1>0, <1>2, <1>3, <1>6
  <2> QED BY <1>5, <2>1, SameWaiting
<1>7. CASE o = e.order
  <2>1. StageAt(n)' = e.stage /\ latest'[o] = e.stage /\ StageAt(n)' \in Following(latest[o])
    BY <1>0, <1>1, <1>2, <1>7 DEF StageAt
  <2>2. n \in Waiting(o)' /\ \A i \in Waiting(o) : i < n
    BY <1>1, <1>3, <1>4, <1>7
  <2>3. ASSUME NEW i \in Waiting(o)', LastWaiting(o, i)' PROVE StageAt(i)' = latest'[o]
    <3>1. i = n
      BY <1>1, <1>3, <1>4, <1>7, <2>2, <2>3 DEF LastWaiting
    <3> QED BY <2>1, <3>1
  <2>4. ASSUME NEW i \in Waiting(o)', NEW j \in Waiting(o)', Adjacent(o, i, j)'
        PROVE  StageAt(j)' \in Following(StageAt(i)')
    <3>1. i < j /\ i \in Waiting(o)
      BY <1>1, <1>3, <1>4, <1>7, <2>4 DEF Adjacent
    <3>2. CASE j \in Waiting(o)
      <4>1. Adjacent(o, i, j)
        BY <1>3, <2>4, <3>1, <3>2 DEF Adjacent
      <4> QED BY <1>5, <3>1, <3>2, <4>1 DEF Linked
    <3>3. CASE j \notin Waiting(o)
      <4>1. j = n
        BY <1>3, <3>3
      <4>2. LastWaiting(o, i)
        BY <1>1, <1>3, <1>4, <2>4, <3>1, <4>1 DEF Adjacent, LastWaiting
      <4>3. StageAt(i)' = latest[o]
        BY <1>5, <3>1, <4>2 DEF Linked
      <4> QED BY <2>1, <4>1, <4>3
    <3> QED BY <3>2, <3>3
  <2>5. ASSUME NEW p \in 0..8, Leads(o, p), NEW i \in Waiting(o)', FirstWaiting(o, i)'
        PROVE  StageAt(i)' \in Following(p)
    <3>1. CASE i \in Waiting(o)
      <4>1. FirstWaiting(o, i)
        BY <1>3, <2>5, <3>1 DEF FirstWaiting
      <4> QED BY <1>5, <2>5, <3>1, <4>1 DEF Leads
    <3>2. CASE i \notin Waiting(o)
      <4>1. i = n
        BY <1>3, <3>2
      <4>2. Waiting(o) = {}
        BY <1>1, <1>3, <1>4, <2>2, <2>5, <4>1 DEF FirstWaiting
      <4> QED BY <2>1, <2>5, <4>1, <4>2 DEF Leads
    <3> QED BY <3>1, <3>2
  <2>6. \A p \in 0..8 : Leads(o, p) => Leads(o, p)'
    BY <2>2, <2>5 DEF Leads
  <2> QED BY <2>3, <2>4, <2>6 DEF Linked
<1> QED BY <1>6, <1>7

\* An event leaves the queue that is not about order o, or is its first one.
LEMMA LinkedTake ==
  ASSUME WorkersTypeOK, NEW w \in Workers, NEW i \in 1..Len(queue), Taken(w, i),
         UNCHANGED latest, NEW o \in Orders, Linked(o),
         i \in Waiting(o) => FirstWaiting(o, i)
  PROVE  /\ Linked(o)'
         /\ i \notin Waiting(o) => \A p \in 0..8 : Leads(o, p) => Leads(o, p)'
         /\ i \in Waiting(o) =>
              /\ \A p \in 0..8 : p = StageAt(i) => Leads(o, p)'
              /\ \A p \in 0..8 : Leads(o, p) => StageAt(i) \in Following(p)
<1>0. i \in Nat
  BY DEF Taken
<1>1. ASSUME NEW k \in Waiting(o)'
      PROVE  /\ Before(i, k) \in Waiting(o) /\ Before(i, k) # i
             /\ k \in Nat /\ StageAt(k)' = StageAt(Before(i, k))
  BY DEF Taken, Waiting, StageAt
<1>2. ASSUME NEW k \in Waiting(o), k # i
      PROVE  After(i, k) \in Waiting(o)' /\ k \in Nat /\ After(i, k) \in Nat
             /\ Before(i, After(i, k)) = k
  BY <1>2 DEF Taken, Waiting
<1>3. Waiting(o) \subseteq Nat
  BY DEF Waiting
<1>4. \A k, m \in Nat : Before(i, k) <= Before(i, m) <=> k <= m
  BY <1>0 DEF Before
<1>5. \A k \in Waiting(o) : i \in Waiting(o) => i <= k
  BY DEF FirstWaiting
<1>6. ASSUME NEW k \in Waiting(o)', LastWaiting(o, k)' PROVE StageAt(k)' = latest'[o]
  <2>1. ASSUME NEW j \in Waiting(o), j # i PROVE j <= Before(i, k)
    <3>1. After(i, j) \in Waiting(o)' /\ After(i, j) \in Nat /\ Before(i, After(i, j)) = j
      BY <1>2, <2>1
    <3>2. After(i, j) <= k
      BY <1>6, <3>1 DEF LastWaiting
    <3> QED BY <1>1, <1>4, <3>1, <3>2
  <2>2. i \in Waiting(o) => i <= Before(i, k)
    BY <1>1, <1>5
  <2>3. LastWaiting(o, Before(i, k))
    BY <1>1, <2>1, <2>2 DEF LastWaiting
  <2> QED BY <1>1, <2>3 DEF Linked
<1>7. ASSUME NEW k \in Waiting(o)', NEW m \in Waiting(o)', Adjacent(o, k, m)'
      PROVE  StageAt(m)' \in Following(StageAt(k)')
  <2>1. k \in Nat /\ m \in Nat /\ k < m
    BY <1>1, <1>7 DEF Adjacent
  <2>2. Before(i, k) < Before(i, m)
    BY <1>0, <2>1 DEF Before
  <2>3. ASSUME NEW j \in Waiting(o), j # i PROVE j <= Before(i, k) \/ Before(i, m) <= j
    <3>1. After(i, j) \in Waiting(o)' /\ After(i, j) \in Nat /\ Before(i, After(i, j)) = j
      BY <1>2, <2>3
    <3>2. After(i, j) <= k \/ m <= After(i, j)
      BY <1>7, <3>1 DEF Adjacent
    <3> QED BY <1>4, <2>1, <3>1, <3>2
  <2>4. i \in Waiting(o) => i <= Before(i, k)
    BY <1>1, <1>5
  <2>5. Adjacent(o, Before(i, k), Before(i, m))
    BY <1>1, <2>2, <2>3, <2>4 DEF Adjacent
  <2> QED BY <1>1, <2>5 DEF Linked
<1>8. Linked(o)'
  BY <1>6, <1>7 DEF Linked
<1>9. ASSUME i \notin Waiting(o), NEW p \in 0..8, Leads(o, p) PROVE Leads(o, p)'
  <2>1. Waiting(o)' = {} => Waiting(o) = {}
    BY <1>2, <1>9
  <2>2. ASSUME NEW k \in Waiting(o)', FirstWaiting(o, k)' PROVE StageAt(k)' \in Following(p)
    <3>1. ASSUME NEW j \in Waiting(o) PROVE Before(i, k) <= j
      <4>1. After(i, j) \in Waiting(o)' /\ After(i, j) \in Nat /\ Before(i, After(i, j)) = j
        BY <1>2, <1>9
      <4>2. k <= After(i, j)
        BY <2>2, <4>1 DEF FirstWaiting
      <4> QED BY <1>1, <1>4, <4>1, <4>2
    <3>2. FirstWaiting(o, Before(i, k))
      BY <1>1, <3>1 DEF FirstWaiting
    <3> QED BY <1>1, <1>9, <3>2 DEF Leads
  <2> QED BY <1>9, <2>1, <2>2 DEF Leads
<1>10. ASSUME i \in Waiting(o)
       PROVE  /\ \A p \in 0..8 : p = StageAt(i) => Leads(o, p)'
              /\ \A p \in 0..8 : Leads(o, p) => StageAt(i) \in Following(p)
  <2>2. ASSUME Waiting(o)' = {} PROVE latest'[o] = StageAt(i)
    <3>1. \A j \in Waiting(o) : j = i
      BY <1>2, <2>2
    <3>2. LastWaiting(o, i)
      BY <1>0, <1>10, <3>1 DEF LastWaiting
    <3> QED BY <1>10, <3>2 DEF Linked
  <2>3. ASSUME NEW k \in Waiting(o)', FirstWaiting(o, k)' PROVE StageAt(k)' \in Following(StageAt(i))
    <3>1. \A j \in Waiting(o) : j <= i \/ Before(i, k) <= j
      <4> SUFFICES ASSUME NEW j \in Waiting(o), j # i PROVE Before(i, k) <= j
        BY <1>0
      <4>1. After(i, j) \in Waiting(o)' /\ After(i, j) \in Nat /\ Before(i, After(i, j)) = j
        BY <1>2
      <4>2. k <= After(i, j)
        BY <2>3, <4>1 DEF FirstWaiting
      <4> QED BY <1>1, <1>4, <4>1, <4>2
    <3>2. i < Before(i, k)
      BY <1>0, <1>1, <1>3, <1>5, <1>10
    <3>3. Adjacent(o, i, Before(i, k))
      BY <1>1, <1>10, <3>1, <3>2 DEF Adjacent
    <3> QED BY <1>1, <1>10, <3>3 DEF Linked
  <2>4. \A p \in 0..8 : p = StageAt(i) => Leads(o, p)'
    BY <2>2, <2>3 DEF Leads
  <2>5. \A p \in 0..8 : Leads(o, p) => StageAt(i) \in Following(p)
    BY <1>10 DEF Leads
  <2> QED BY <2>4, <2>5
<1> QED BY <1>8, <1>9, <1>10

-----------------------------------------------------------------------------
(***************************************************************************)
(* The rows.                                                               *)
(***************************************************************************)

LEMMA LocationStages ==
  \A i \in 1..8 : Stages[i].type = "courier.location.updated" => i \in {4, 6}
<1>1. /\ Stages[1].type # "courier.location.updated" /\ Stages[2].type # "courier.location.updated"
      /\ Stages[3].type # "courier.location.updated" /\ Stages[5].type # "courier.location.updated"
      /\ Stages[7].type # "courier.location.updated" /\ Stages[8].type # "courier.location.updated"
  BY DEF Stages, Stage
<1>2. \A i \in 1..8 : i \in {1, 2, 3, 5, 7, 8} \/ i \in {4, 6}
  OBVIOUS
<1> QED BY <1>1, <1>2

\* The rows before and after a location update.
LEMMA LocationRows ==
  ASSUME NEW o \in Orders
  PROVE  /\ Row(o, 3) = [status |-> "courier_to_restaurant", progress |-> 0, courier |-> CourierOf[o]]
         /\ Row(o, 4) = [status |-> "courier_to_restaurant", progress |-> 45, courier |-> CourierOf[o]]
         /\ Row(o, 5) = [status |-> "picked_up", progress |-> 50, courier |-> CourierOf[o]]
         /\ Row(o, 6) = [status |-> "in_transit", progress |-> 98, courier |-> CourierOf[o]]
         /\ Stages[4].progress = 45 /\ Stages[4].courier = "to_restaurant"
         /\ Stages[6].progress = 98 /\ Stages[6].courier = "to_customer"
  BY DEF Row, Stages, Stage

\* Projecting the event that follows stage p takes a row that shows p to one
\* that shows the event's stage.
LEMMA ShowsNext ==
  ASSUME NEW e \in Event, NEW p \in 0..8, e.stage \in Following(p), Shows(e.order, p),
         orders \in [Orders -> {orders[o] : o \in Orders}],
         orders' = OrdersAfter(orders, e), resets' = resets
  PROVE  Shows(e.order, e.stage)'
<1>1. e.order \in Orders /\ e.stage \in 1..8 /\ e # Reset
  BY ResetIsNoEvent DEF Event
<1>2. CASE Type(e) # "courier.location.updated"
  <2>1. orders'[e.order] = Row(e.order, e.stage)
    BY <1>1, <1>2 DEF OrdersAfter
  <2> QED BY <1>1, <2>1 DEF Shows
<1>3. CASE Type(e) = "courier.location.updated"
  <2>1. e.stage \in {4, 6}
    BY <1>1, <1>3, LocationStages DEF Type
  <2>2. p = e.stage - 1
    BY <2>1 DEF Following, Over, Delivered, Rejected
  <2>3. CASE orders[e.order] = Nothing
    <3>1. orders' = orders
      BY <1>1, <1>3, <2>3 DEF OrdersAfter
    <3>2. orders[e.order] # Row(e.order, p) /\ p # 0
      BY <1>1, <2>1, <2>2, <2>3, NothingAssumption
    <3> QED BY <2>3, <3>1, <3>2, <2>1 DEF Shows
  <2>4. CASE orders[e.order] # Nothing
    <3>1. orders[e.order] = Row(e.order, p)
      BY <2>1, <2>2, <2>4 DEF Shows
    <3>2. orders'[e.order] =
            [status |-> IF Stages[e.stage].courier = "to_customer" THEN "in_transit"
                        ELSE orders[e.order].status,
             progress |-> Stages[e.stage].progress, courier |-> orders[e.order].courier]
      BY <1>1, <1>3, <2>4 DEF OrdersAfter
    <3>3. CASE e.stage = 4
      <4>1. orders[e.order] = Row(e.order, 3)
        BY <2>2, <3>1, <3>3
      <4>2. /\ orders[e.order].status = "courier_to_restaurant"
            /\ orders[e.order].courier = CourierOf[e.order]
        BY <1>1, <4>1, LocationRows
      <4>3. orders'[e.order] = [status |-> orders[e.order].status, progress |-> 45,
                                courier |-> orders[e.order].courier]
        BY <1>1, <3>2, <3>3, LocationRows
      <4>4. orders'[e.order] = Row(e.order, 4)
        BY <1>1, <4>2, <4>3, LocationRows
      <4> QED BY <3>3, <4>4 DEF Shows
    <3>4. CASE e.stage = 6
      <4>1. orders[e.order] = Row(e.order, 5)
        BY <2>2, <3>1, <3>4
      <4>2. orders[e.order].courier = CourierOf[e.order]
        BY <1>1, <4>1, LocationRows
      <4>3. orders'[e.order] = [status |-> "in_transit", progress |-> 98,
                                courier |-> orders[e.order].courier]
        BY <1>1, <3>2, <3>4, LocationRows
      <4>4. orders'[e.order] = Row(e.order, 6)
        BY <1>1, <4>2, <4>3, LocationRows
      <4> QED BY <3>4, <4>4 DEF Shows
    <3> QED BY <2>1, <3>3, <3>4
  <2> QED BY <2>3, <2>4
<1> QED BY <1>2, <1>3

\* A step that leaves the holders of an order alone, and neither its row nor its
\* waiting events behind.
LEMMA OrderUntouched ==
  ASSUME NEW o \in Orders, Followed(o), Linked(o) => Linked(o)',
         \A q \in 0..8 : Leads(o, q) => Leads(o, q)',
         \A q \in 0..8 : Shows(o, q) => Shows(o, q)',
         \A v \in Workers : (Holds(v, o)' <=> Holds(v, o)) /\
                            (Holds(v, o) => holding'[v] = holding[v])
  PROVE  Followed(o)'
<1>1. PICK p \in 0..8 : RowFollows(o, p)
  BY DEF Followed
<1>2. \A v \in Workers : Holds(v, o) => holding[v].stage \in 0..8
  BY DEF Holds, Event
<1>3. ASSUME NEW v \in Workers, Holds(v, o)'
      PROVE  holding'[v].stage \in Following(p) /\ Leads(o, holding[v].stage)'
  <2>1. Holds(v, o) /\ holding'[v] = holding[v]
    BY <1>3
  <2>2. PICK s \in 0..8 : s = holding[v].stage
    BY <1>2, <2>1
  <2>3. s \in Following(p) /\ Leads(o, s)
    BY <1>1, <2>1, <2>2 DEF RowFollows
  <2>4. Leads(o, s)' /\ holding'[v].stage = s
    BY <2>1, <2>2, <2>3
  <2> QED BY <2>3, <2>4 DEF Leads
<1>4. (\A v \in Workers : ~Holds(v, o)') => Leads(o, p)'
  BY <1>1 DEF RowFollows
<1>5. Shows(o, p)'
  BY <1>1 DEF RowFollows
<1>6. RowFollows(o, p)'
  BY <1>3, <1>4, <1>5 DEF RowFollows
<1>7. OneHolder(o)' /\ Linked(o)'
  BY DEF Followed, OneHolder
<1> QED BY <1>6, <1>7 DEF Followed

LEMMA HistoryTypeStep == WorkersTypeOK /\ HistoryTypeOK /\ [Next]_vars => HistoryTypeOK'
<1> SUFFICES ASSUME WorkersTypeOK, HistoryTypeOK, [Next]_vars PROVE HistoryTypeOK'
  OBVIOUS
<1> USE DEF HistoryTypeOK
<1>0. queue \in Seq(Entry) /\ holding \in [Workers -> Event \cup {Reset, Nothing}]
  BY DEF WorkersTypeOK
<1>1. ASSUME NEW e \in Event, PublishEvent(e) PROVE HistoryTypeOK'
  <2>1. e.order \in Orders /\ e.stage \in 0..8 /\ e # Reset
    BY ResetIsNoEvent DEF Event
  <2>2. queue' = Append(queue, Undelivered(e)) /\ UNCHANGED <<holding, orders, resets>>
        /\ latest' = [latest EXCEPT ![e.order] = e.stage]
    BY <1>1 DEF PublishEvent
  <2>3. ResetPending' => ResetPending
    BY <1>0, <2>1, <2>2, PublishAppends DEF ResetPending
  <2> QED BY <2>1, <2>2, <2>3
<1>2. CASE PublishReset
  BY <1>2 DEF PublishReset
<1>3. ASSUME NEW p \in Pods, Deliver(p) PROVE HistoryTypeOK'
  <2>1. PICK i \in 1..Len(queue) : Sent(p, i)
    BY <1>0, <1>3, DeliverSends
  <2>2. UNCHANGED <<latest, orders, resets, holding>>
    BY <1>3 DEF Deliver
  <2>3. Len(queue') = Len(queue) /\ \A k \in 1..Len(queue) : queue'[k].event = queue[k].event
    BY <2>1 DEF Sent
  <2>4. ResetPending' => ResetPending
    BY <2>2, <2>3 DEF ResetPending
  <2> QED BY <2>2, <2>4
<1>4. ASSUME NEW w \in Workers, Begin(w) PROVE HistoryTypeOK'
  <2>1. Take(w) /\ UNCHANGED <<latest, orders, resets>>
    BY <1>4 DEF Begin, Take
  <2>2. PICK i \in 1..Len(queue) : Taken(w, i)
    BY <1>0, <2>1, TakeMoves
  <2>3. ASSUME NEW k \in 1..Len(queue'), queue'[k].event = Reset PROVE ResetPending
    BY <2>2, <2>3 DEF ResetPending, Taken
  <2>4. ASSUME NEW v \in Workers, holding'[v] = Reset PROVE ResetPending
    BY <1>0, <2>2, <2>4 DEF ResetPending, Taken
  <2>5. ResetPending' => ResetPending
    BY <2>3, <2>4 DEF ResetPending
  <2> QED BY <2>1, <2>5
<1>5. ASSUME NEW w \in Workers, Commit(w) PROVE HistoryTypeOK'
  <2>1. /\ orders' = OrdersAfter(orders, holding[w])
        /\ holding' = [holding EXCEPT ![w] = Nothing]
        /\ UNCHANGED <<latest, queue, resets>>
    BY <1>5 DEF Commit, Project
  <2>2. orders' \in [Orders -> {orders'[o] : o \in Orders}]
    BY <2>1 DEF OrdersAfter
  <2>3. ResetPending' => ResetPending
    BY <1>0, <2>1, NothingIsNoEvent DEF ResetPending
  <2> QED BY <2>1, <2>2, <2>3
<1>6. ASSUME NEW w \in Workers, Abort(w) PROVE HistoryTypeOK'
  <2>1. /\ holding' = [holding EXCEPT ![w] = Nothing]
        /\ UNCHANGED <<latest, resets, queue, orders>>
    BY <1>6 DEF Abort, DeadLetter
  <2>2. ResetPending' => ResetPending
    BY <1>0, <2>1, NothingIsNoEvent DEF ResetPending
  <2> QED BY <2>1, <2>2
<1>7. ASSUME UNCHANGED rowVars PROVE HistoryTypeOK'
  BY <1>7 DEF rowVars, ResetPending
<1> QED BY <1>1, <1>2, <1>3, <1>4, <1>5, <1>6, <1>7
        DEF Next, Execute, BeginMigration, EndMigration, vars

\* The event that a goroutine takes up is the first one of its order, unless the
\* order is disputed; and nobody else holds one, unless that disputes it.
LEMMA HistoryTake ==
  ASSUME WorkersTypeOK, PodInv, HistoryInv, NEW w \in Workers, Take(w),
         NEW o \in Orders \ disputed'
  PROVE  Followed(o)'
<1>0. queue \in Seq(Entry) /\ holding \in [Workers -> Event \cup {Reset, Nothing}]
  BY DEF WorkersTypeOK
<1>1. PICK i \in 1..Len(queue) :
        /\ Taken(w, i)
        /\ disputed' = disputed \cup
             (About(queue[i].event) \cap UNION {About(holding[v]) : v \in Workers \ {w}})
  BY <1>0, TakeMoves
<1>2. /\ holding[w] = Nothing /\ holding' = [holding EXCEPT ![w] = queue[i].event]
      /\ UNCHANGED <<latest, orders, resets>>
  BY <1>1 DEF Take, Taken
<1>3. o \in Orders \ disputed /\ Followed(o)
  BY <1>1 DEF HistoryInv
<1>4. /\ ~Holds(w, o)
      /\ \A v \in Workers : v # w => (Holds(v, o)' <=> Holds(v, o)) /\ holding'[v] = holding[v]
  BY <1>0, <1>2, NothingIsNoEvent DEF Holds
<1>5. Holds(w, o)' <=> i \in Waiting(o)
  BY <1>0, <1>1, <1>2 DEF Holds, Waiting
<1>6. \A j \in Waiting(o) : o \in About(queue[j].event)
  BY ResetIsNoEvent, NothingIsNoEvent DEF Waiting, About
<1>7. i \in Waiting(o) => FirstWaiting(o, i)
  <2> SUFFICES ASSUME i \in Waiting(o), NEW j \in Waiting(o) PROVE i <= j
    BY DEF FirstWaiting
  <2>1. o \in About(queue[i].event) /\ o \in About(queue[j].event) /\ j \in 1..Len(queue)
    BY <1>6 DEF Waiting
  <2> QED BY <1>1, <1>3, <2>1, FirstTaken
<1>8. /\ Linked(o)'
      /\ i \notin Waiting(o) => \A p \in 0..8 : Leads(o, p) => Leads(o, p)'
      /\ i \in Waiting(o) =>
           /\ \A p \in 0..8 : p = StageAt(i) => Leads(o, p)'
           /\ \A p \in 0..8 : Leads(o, p) => StageAt(i) \in Following(p)
  BY <1>1, <1>2, <1>3, <1>7, LinkedTake DEF Followed
<1>9. \A q \in 0..8 : Shows(o, q) => Shows(o, q)'
  BY <1>2 DEF Shows
<1>10. CASE i \notin Waiting(o)
  BY <1>3, <1>4, <1>5, <1>8, <1>9, <1>10, OrderUntouched
<1>11. CASE i \in Waiting(o)
  <2>1. \A v \in Workers \ {w} : o \notin About(holding[v])
    BY <1>1, <1>6, <1>11
  <2>2. \A v \in Workers : ~Holds(v, o)
    BY <1>4, <2>1, ResetIsNoEvent, NothingIsNoEvent DEF About, Holds
  <2>3. PICK p \in 0..8 : RowFollows(o, p)
    BY <1>3 DEF Followed
  <2>4. Leads(o, p) /\ Shows(o, p)
    BY <2>2, <2>3 DEF RowFollows
  <2>5. PICK s \in 0..8 : s = StageAt(i) /\ s = holding'[w].stage
    BY <1>0, <1>1, <1>2, <1>11 DEF StageAt, Waiting, Event
  <2>6. s \in Following(p) /\ Leads(o, s)'
    BY <1>8, <1>11, <2>4, <2>5
  <2>7. Holds(w, o)' /\ \A v \in Workers : Holds(v, o)' => v = w
    BY <1>4, <1>5, <1>11, <2>2
  <2>8. Leads(o, holding[w].stage)'
    BY <2>5, <2>6 DEF Leads
  <2>9. RowFollows(o, p)'
    BY <1>9, <2>4, <2>5, <2>6, <2>7, <2>8 DEF RowFollows
  <2> QED BY <1>8, <2>7, <2>9 DEF Followed, OneHolder
<1> QED BY <1>10, <1>11

\* The commit of the event that follows the row makes the row show its stage.
LEMMA HistoryCommit ==
  ASSUME WorkersTypeOK, HistoryInv, NEW w \in Workers, Commit(w), NEW o \in Orders \ disputed
  PROVE  Followed(o)'
<1>1. /\ orders' = OrdersAfter(orders, holding[w])
      /\ holding' = [holding EXCEPT ![w] = Nothing]
      /\ UNCHANGED <<latest, resets, queue, disputed>>
      /\ holding[w] \in Event \cup {Reset}
  BY DEF Commit, Project, WorkersTypeOK
<1>2. Followed(o) /\ HistoryTypeOK
  BY DEF HistoryInv
<1>3. (Linked(o) => Linked(o)') /\ \A q \in 0..8 : Leads(o, q) => Leads(o, q)'
  BY <1>1, SameQueue
<1>4. /\ ~Holds(w, o)'
      /\ \A v \in Workers : v # w => (Holds(v, o)' <=> Holds(v, o)) /\ holding'[v] = holding[v]
  BY <1>1, NothingIsNoEvent DEF Holds, WorkersTypeOK
<1>5. CASE Holds(w, o)
  <2>1. PICK e \in Event : e = holding[w] /\ e.order = o
    BY <1>5 DEF Holds
  <2>2. PICK p \in 0..8 : RowFollows(o, p)
    BY <1>2 DEF Followed
  <2>3. PICK s \in 0..8 : s = e.stage
    BY DEF Event
  <2>4. s \in Following(p) /\ Leads(o, s) /\ Shows(o, p)
    BY <1>5, <2>1, <2>2, <2>3 DEF RowFollows
  <2>5. Shows(o, s)'
    BY <1>1, <1>2, <2>1, <2>3, <2>4, ShowsNext DEF HistoryTypeOK
  <2>6. \A v \in Workers : ~Holds(v, o)'
    BY <1>2, <1>4, <1>5 DEF Followed, OneHolder
  <2>7. RowFollows(o, s)'
    BY <1>3, <2>4, <2>5, <2>6 DEF RowFollows
  <2> QED BY <1>2, <1>3, <2>6, <2>7 DEF Followed, OneHolder
<1>6. CASE ~Holds(w, o)
  <2>1. \A q \in 0..8 : Shows(o, q) => Shows(o, q)'
    <3>1. CASE holding[w] = Reset
      <4>1. resets > 0
        BY <1>2, <3>1 DEF HistoryTypeOK, ResetPending
      <4>2. orders'[o] = Nothing
        BY <1>1, <3>1 DEF OrdersAfter
      <4> QED BY <1>1, <4>1, <4>2 DEF Shows
    <3>2. CASE holding[w] \in Event
      <4>1. holding[w].order # o /\ holding[w] # Reset
        BY <1>6, <3>2, ResetIsNoEvent DEF Holds
      <4>2. orders'[o] = orders[o]
        BY <1>1, <1>2, <4>1 DEF OrdersAfter, HistoryTypeOK
      <4> QED BY <1>1, <4>2 DEF Shows
    <3> QED BY <1>1, <3>1, <3>2
  <2> QED BY <1>2, <1>3, <1>4, <1>6, <2>1, OrderUntouched
<1> QED BY <1>5, <1>6

LEMMA HistoryStep == WorkersTypeOK /\ PodInv /\ HistoryInv /\ [Next]_vars => HistoryInv'
<1> SUFFICES ASSUME WorkersTypeOK, PodInv, HistoryInv, [Next]_vars PROVE HistoryInv'
  OBVIOUS
<1>0. HistoryTypeOK' /\ HistoryTypeOK /\ \A o \in Orders \ disputed : Followed(o)
  BY HistoryTypeStep DEF HistoryInv
<1> SUFFICES ASSUME NEW o \in Orders \ disputed' PROVE Followed(o)'
  BY <1>0 DEF HistoryInv
<1>1. ASSUME NEW e \in Event, PublishEvent(e) PROVE Followed(o)'
  <2>1. UNCHANGED <<holding, orders, resets, disputed>> /\ Followed(o)
    BY <1>0, <1>1 DEF PublishEvent
  <2>2. Linked(o)' /\ \A p \in 0..8 : Leads(o, p) => Leads(o, p)'
    BY <1>0, <1>1, <2>1, LinkedPublish DEF HistoryTypeOK, Followed
  <2> QED BY <2>1, <2>2, OrderUntouched DEF Holds, Shows
<1>2. ASSUME PublishReset PROVE Followed(o)'
  <2>1. /\ resets' > 0 /\ UNCHANGED <<holding, orders, disputed>>
        /\ Followed(o)
    BY <1>0, <1>2 DEF PublishReset, HistoryTypeOK
  <2>2. (Linked(o) => Linked(o)') /\ \A p \in 0..8 : Leads(o, p) => Leads(o, p)'
    BY <1>2, LinkedReset
  <2> QED BY <2>1, <2>2, OrderUntouched DEF Holds, Shows
<1>3. ASSUME NEW p \in Pods, Deliver(p) PROVE Followed(o)'
  <2>1. UNCHANGED <<holding, orders, resets>> /\ disputed \subseteq disputed'
    BY <1>3 DEF Deliver
  <2>2. (Linked(o) => Linked(o)') /\ \A q \in 0..8 : Leads(o, q) => Leads(o, q)'
    BY <1>3, LinkedDeliver
  <2> QED BY <1>0, <2>1, <2>2, OrderUntouched DEF Holds, Shows
<1>4. ASSUME NEW w \in Workers, Begin(w) PROVE Followed(o)'
  BY <1>4, HistoryTake DEF Begin
<1>5. ASSUME NEW w \in Workers, Commit(w) PROVE Followed(o)'
  BY <1>5, HistoryCommit DEF Commit, Project
<1>6. ASSUME NEW w \in Workers, Abort(w) PROVE Followed(o)'
  <2>1. /\ holding' = [holding EXCEPT ![w] = Nothing]
        /\ UNCHANGED <<latest, resets, queue, orders>>
        /\ disputed' = disputed \cup About(holding[w])
    BY <1>6 DEF Abort, DeadLetter
  <2>2. ~Holds(w, o)
    BY <2>1, ResetIsNoEvent, NothingIsNoEvent DEF Holds, About
  <2>3. \A v \in Workers : (Holds(v, o)' <=> Holds(v, o)) /\
                           (Holds(v, o) => holding'[v] = holding[v])
    BY <2>1, <2>2, NothingIsNoEvent DEF Holds, WorkersTypeOK
  <2>4. (Linked(o) => Linked(o)') /\ \A q \in 0..8 : Leads(o, q) => Leads(o, q)'
    BY <2>1, SameQueue
  <2> QED BY <1>0, <2>1, <2>3, <2>4, OrderUntouched DEF Shows
<1>7. ASSUME UNCHANGED rowVars PROVE Followed(o)'
  <2>1. UNCHANGED <<latest, resets, queue, holding, orders, disputed>>
    BY <1>7 DEF rowVars
  <2>2. (Linked(o) => Linked(o)') /\ \A q \in 0..8 : Leads(o, q) => Leads(o, q)'
    BY <2>1, SameQueue
  <2> QED BY <1>0, <2>1, <2>2, OrderUntouched DEF Holds, Shows
<1> QED BY <1>1, <1>2, <1>3, <1>4, <1>5, <1>6, <1>7
        DEF Next, Execute, BeginMigration, EndMigration, vars

\* Once every event is projected, the row of an order is current or gone with a
\* reset, unless two pods had events of it at the same time, two of its events
\* were in open transactions at the same time, or one was dead-lettered.
THEOREM UndisputedRowIsCurrentHolds == Spec => []UndisputedRowIsCurrent
<1>1. Init => HistoryInv
  <2> SUFFICES ASSUME Init PROVE HistoryInv
    OBVIOUS
  <2>1. queue = <<>> /\ resets = 0 /\ latest = [o \in Orders |-> 0]
        /\ orders = [o \in Orders |-> Nothing] /\ \A w \in Workers : holding[w] = Nothing
    BY DEF Init, RowsInit
  <2>2. \A o \in Orders : Waiting(o) = {} /\ \A w \in Workers : ~Holds(w, o)
    <3>1. Len(queue) = 0
      BY <2>1
    <3>2. \A o \in Orders : Waiting(o) = {}
      BY <3>1 DEF Waiting
    <3>3. \A o \in Orders, w \in Workers : ~Holds(w, o)
      BY <2>1, NothingIsNoEvent DEF Holds
    <3> QED BY <3>2, <3>3
  <2>3. HistoryTypeOK
    BY <2>1, NothingIsNoEvent DEF HistoryTypeOK, ResetPending
  <2>4. \A o \in Orders : RowFollows(o, 0)
    BY <2>1, <2>2 DEF RowFollows, Shows, Leads
  <2> QED BY <2>2, <2>3, <2>4 DEF HistoryInv, Followed, Linked, OneHolder
<1>2. WorkersTypeOK /\ HistoryInv => UndisputedRowIsCurrent
  <2> SUFFICES ASSUME WorkersTypeOK, HistoryInv, Projected, NEW o \in Orders \ disputed
               PROVE  IsCurrent(o)
    BY DEF UndisputedRowIsCurrent
  <2>1. PICK p \in 0..8 : RowFollows(o, p)
    BY DEF HistoryInv, Followed
  <2>2. Waiting(o) = {} /\ \A w \in Workers : ~Holds(w, o)
    BY NothingIsNoEvent DEF Projected, Waiting, Holds
  <2>3. latest[o] = p /\ Shows(o, p)
    BY <2>1, <2>2 DEF RowFollows, Leads
  <2> QED BY <2>3 DEF IsCurrent, Shows
<1> QED BY <1>1, <1>2, HistoryStep, PodsApart, WorkersTyped, PTL DEF Spec

-----------------------------------------------------------------------------
(***************************************************************************)
(* The fleet.  Rows of couriers are overwritten whatever they hold, so     *)
(* only the last event of a courier on its way matters: it announces what  *)
(* the row is to show.                                                     *)
(***************************************************************************)
Trip(e, c) == e \in Event /\ Stages[e.stage].courier # "" /\ CourierOf[e.order] = c
TripsWaiting(c) == {i \in 1..Len(queue) : Trip(queue[i].event, c)}
OnTrip(w, c) == Trip(holding[w], c)
LastTrip(c, i) == i \in TripsWaiting(c) /\ \A j \in TripsWaiting(c) : j <= i

EventRow(e) == CourierRow(e.order, e.stage)

\* The rows that UndisputedFleetIsCurrent allows.
Announced(c) ==
  IF Free(c) THEN {IdleRow}
  ELSE {CourierRow(o, latest[o]) :
          o \in {p \in Orders : CourierOf[p] = c /\ latest[p] \in UnderWay}}

OneTrip ==
  \A o, p \in Orders :
    CourierOf[o] = CourierOf[p] /\ latest[o] \in UnderWay /\ latest[p] \in UnderWay => o = p

OneCarrier(c) == \A w, v \in Workers : OnTrip(w, c) /\ OnTrip(v, c) => w = v

FleetFollows(c) ==
  /\ \A i \in TripsWaiting(c) : LastTrip(c, i) => EventRow(queue[i].event) \in Announced(c)
  /\ TripsWaiting(c) = {} =>
       /\ \A w \in Workers : OnTrip(w, c) => EventRow(holding[w]) \in Announced(c)
       /\ (\A w \in Workers : ~OnTrip(w, c)) /\ resets = 0 => couriers[c] \in Announced(c)

FleetInv ==
  /\ OneTrip
  /\ couriers \in [Couriers -> {couriers[c] : c \in Couriers}]
  /\ \A c \in Couriers \ disputed : OneCarrier(c) /\ FleetFollows(c)

\* The stages at which an event writes its courier's row.
LEMMA TripStages == \A i \in 1..8 : Stages[i].courier # "" <=> i \in 3..7
<1> SUFFICES ASSUME NEW i \in 1..8 PROVE Stages[i].courier # "" <=> i \in 3..7
  OBVIOUS
<1>1. ASSUME i \in {1, 2, 8} PROVE Stages[i].courier = ""
  <2>1. CASE i = 1
    BY <2>1, Zenon DEF Stages, Stage
  <2>2. CASE i = 2
    BY <2>2, Zenon DEF Stages, Stage
  <2>3. CASE i = 8
    BY <2>3, Zenon DEF Stages, Stage
  <2> QED BY <1>1, <2>1, <2>2, <2>3
<1>2. ASSUME i \in {3, 4, 5, 6, 7} PROVE Stages[i].courier # ""
  <2>1. CASE i = 3
    BY <2>1, Zenon DEF Stages, Stage
  <2>2. CASE i = 4
    BY <2>2, Zenon DEF Stages, Stage
  <2>3. CASE i = 5
    BY <2>3, Zenon DEF Stages, Stage
  <2>4. CASE i = 6
    BY <2>4, Zenon DEF Stages, Stage
  <2>5. CASE i = 7
    BY <2>5, Zenon DEF Stages, Stage
  <2> QED BY <1>2, <2>1, <2>2, <2>3, <2>4, <2>5, Zenon
<1>3. (i \in {1, 2, 8} /\ i \notin 3..7) \/ (i \in {3, 4, 5, 6, 7} /\ i \in 3..7)
  OBVIOUS
<1> QED BY <1>1, <1>2, <1>3, Zenon

\* A trip goes on from a trip.
LEMMA TripsContinue ==
  ASSUME NEW p \in 0..8, NEW i \in Following(p)
  PROVE  /\ i \in {1, 2, 8} => p \notin UnderWay /\ i \notin UnderWay
         /\ i \in 4..7 => p \in UnderWay
         /\ i \in 1..8
  BY DEF Following, UnderWay, Over, Delivered, Rejected

\* A courier's row is to show the same as before if its orders under way are
\* the same, at the same stages.
LEMMA AnnouncedSame ==
  ASSUME NEW c \in Couriers,
         \A o \in Orders : CourierOf[o] = c =>
           \/ latest'[o] = latest[o]
           \/ latest'[o] \notin UnderWay /\ latest[o] \notin UnderWay
  PROVE  Announced(c)' = Announced(c)
<1>1. Free(c)' <=> Free(c)
  BY DEF Free
<1>2. {p \in Orders : CourierOf[p] = c /\ latest'[p] \in UnderWay}
        = {p \in Orders : CourierOf[p] = c /\ latest[p] \in UnderWay}
  OBVIOUS
<1>3. \A p \in Orders : CourierOf[p] = c /\ latest[p] \in UnderWay => latest'[p] = latest[p]
  OBVIOUS
<1>4. {CourierRow(o, latest'[o]) :
          o \in {p \in Orders : CourierOf[p] = c /\ latest'[p] \in UnderWay}}
        = {CourierRow(o, latest[o]) :
             o \in {p \in Orders : CourierOf[p] = c /\ latest[p] \in UnderWay}}
  BY <1>2, <1>3
<1> QED BY <1>1, <1>4 DEF Announced

\* A step that appends no trip of courier c, and commits none, and leaves its
\* orders under way where they are.
LEMMA FleetUntouched ==
  ASSUME NEW c \in Couriers, OneCarrier(c), FleetFollows(c),
         Announced(c)' = Announced(c), TripsWaiting(c)' = TripsWaiting(c),
         \A i \in TripsWaiting(c) : queue'[i].event = queue[i].event,
         \A w \in Workers :
           (OnTrip(w, c)' <=> OnTrip(w, c)) /\ (OnTrip(w, c) => holding'[w] = holding[w]),
         resets' = 0 => resets = 0 /\ couriers'[c] = couriers[c]
  PROVE  OneCarrier(c)' /\ FleetFollows(c)'
<1>1. OneCarrier(c)'
  BY DEF OneCarrier
<1>2. ASSUME NEW i \in TripsWaiting(c)', LastTrip(c, i)'
      PROVE  EventRow(queue'[i].event) \in Announced(c)'
  BY <1>2 DEF LastTrip, FleetFollows
<1>3. ASSUME TripsWaiting(c)' = {}, NEW w \in Workers, OnTrip(w, c)'
      PROVE  EventRow(holding'[w]) \in Announced(c)'
  BY <1>3 DEF FleetFollows
<1>4. ASSUME TripsWaiting(c)' = {}, \A w \in Workers : ~OnTrip(w, c)', resets' = 0
      PROVE  couriers'[c] \in Announced(c)'
  BY <1>4 DEF FleetFollows
<1> QED BY <1>1, <1>2, <1>3, <1>4 DEF FleetFollows, EventRow, CourierRow, IdleRow

\* A trip that is published is the last one of its courier, and announces what
\* the courier's row is to show.
LEMMA FleetPublish ==
  ASSUME WorkersTypeOK, HistoryTypeOK, FleetInv, NEW e \in Event, PublishEvent(e)
  PROVE  FleetInv'
<1> DEFINE n == Len(queue) + 1
           k == CourierOf[e.order]
<1>1. /\ queue' = Append(queue, Undelivered(e)) /\ latest' = [latest EXCEPT ![e.order] = e.stage]
      /\ e.stage \in Following(latest[e.order]) /\ (e.stage = 3 => Free(k))
      /\ UNCHANGED <<holding, couriers, resets, disputed>>
  BY DEF PublishEvent
<1>2. e.order \in Orders /\ e.stage \in 1..8 /\ latest \in [Orders -> 0..8] /\ k \in Couriers
  BY OrderRowsAssumption DEF Event, HistoryTypeOK
<1>3. /\ n \in Nat /\ Len(queue') = n /\ queue'[n].event = e
      /\ \A i \in 1..Len(queue) : queue'[i] = queue[i]
  BY <1>1, PublishAppends DEF WorkersTypeOK
<1>4. \A o \in Orders : latest'[o] = IF o = e.order THEN e.stage ELSE latest[o]
  BY <1>1, <1>2
<1>5. PICK p \in 0..8 : p = latest[e.order]
  BY <1>2
<1>6. PICK s \in Following(p) : s = e.stage
  BY <1>1, <1>5
<1>7. s \in 1..8 /\ (Trip(e, k) <=> s \in 3..7)
  BY <1>2, <1>6, TripStages DEF Trip
<1>8. s \in {1, 2, 8} => p \notin UnderWay /\ s \notin UnderWay
  BY TripsContinue
<1>9. s \in 4..7 => p \in UnderWay
  BY TripsContinue
<1>10. OneTrip'
  <2> SUFFICES ASSUME NEW o \in Orders, NEW o2 \in Orders, CourierOf[o] = CourierOf[o2],
                      latest'[o] \in UnderWay, latest'[o2] \in UnderWay, o # o2
               PROVE  FALSE
    BY DEF OneTrip
  <2>1. ASSUME NEW q \in Orders, NEW r \in Orders, q = e.order, r # e.order,
               CourierOf[q] = CourierOf[r], latest'[q] \in UnderWay, latest'[r] \in UnderWay
        PROVE  FALSE
    <3>1. latest[r] \in UnderWay /\ s \in UnderWay
      BY <1>4, <1>6, <2>1
    <3>2. CASE s = 3
      BY <1>1, <1>6, <2>1, <3>1, <3>2 DEF Free
    <3>3. CASE s # 3
      <4>1. latest[q] \in UnderWay
        <5>1. s \in 4..7
          BY <3>1, <3>3 DEF UnderWay
        <5> QED BY <1>5, <1>9, <2>1, <5>1
      <4> QED BY <2>1, <3>1, <4>1 DEF FleetInv, OneTrip
    <3> QED BY <3>2, <3>3
  <2>2. CASE o # e.order /\ o2 # e.order
    BY <1>4, <2>2 DEF FleetInv, OneTrip
  <2> QED BY <2>1, <2>2
<1>11. ASSUME NEW c \in Couriers \ disputed PROVE OneCarrier(c)' /\ FleetFollows(c)'
  <2>0. OneCarrier(c) /\ FleetFollows(c)
    BY <1>11 DEF FleetInv
  <2>1. TripsWaiting(c) \subseteq 1..Len(queue) /\ n \notin TripsWaiting(c)
    BY <1>3 DEF TripsWaiting
  <2>2. TripsWaiting(c)' = IF Trip(e, c) THEN TripsWaiting(c) \cup {n} ELSE TripsWaiting(c)
    BY <1>3 DEF TripsWaiting
  <2>3. CASE Trip(e, c)
    <3>1. c = k /\ s \in 3..7
      BY <1>7, <2>3 DEF Trip
    <3>2. EventRow(e) \in Announced(c)'
      <4>1. CASE s = 7
        <5>1. latest[e.order] \in UnderWay
          BY <1>5, <1>9, <4>1
        <5>2. s \notin UnderWay
          BY <4>1 DEF UnderWay
        <5>3. \A o \in Orders : CourierOf[o] = c => latest'[o] \notin UnderWay
          BY <1>2, <1>4, <1>6, <3>1, <5>1, <5>2 DEF FleetInv, OneTrip
        <5> QED BY <1>6, <5>2, <5>3 DEF Announced, Free, EventRow, CourierRow
      <4>2. CASE s # 7
        <5>0. s \in UnderWay
          BY <3>1, <4>2 DEF UnderWay
        <5>1. latest'[e.order] = e.stage /\ e.stage \in UnderWay
          BY <1>2, <1>4, <1>6, <5>0
        <5>2. ~Free(c)'
          BY <1>2, <3>1, <5>1 DEF Free
        <5> QED BY <1>2, <3>1, <5>1, <5>2 DEF Announced, EventRow
      <4> QED BY <4>1, <4>2
    <3>3. \A i \in TripsWaiting(c)' : LastTrip(c, i)' => i = n
      <4> SUFFICES ASSUME NEW i \in TripsWaiting(c)', LastTrip(c, i)' PROVE i = n
        OBVIOUS
      <4>1. n \in TripsWaiting(c)' /\ TripsWaiting(c)' \subseteq 1..n
        BY <1>3, <2>1, <2>2, <2>3
      <4>2. n <= i
        BY <4>1 DEF LastTrip
      <4> QED BY <1>3, <4>1, <4>2
    <3>4. OneCarrier(c)'
      BY <1>1, <2>0 DEF OneCarrier, OnTrip
    <3>5. TripsWaiting(c)' # {}
      BY <2>2, <2>3
    <3>6. EventRow(queue'[n].event) \in Announced(c)'
      BY <1>3, <3>2
    <3> QED BY <3>3, <3>4, <3>5, <3>6 DEF FleetFollows, EventRow, CourierRow, IdleRow
  <2>4. CASE ~Trip(e, c)
    <3>1. c # k \/ s \in {1, 2, 8}
      BY <1>7, <2>4
    <3>2. Announced(c)' = Announced(c)
      BY <1>2, <1>4, <1>5, <1>6, <1>8, <3>1, AnnouncedSame
    <3>3. TripsWaiting(c)' = TripsWaiting(c)
          /\ \A i \in TripsWaiting(c) : queue'[i].event = queue[i].event
      BY <1>3, <2>1, <2>2, <2>4
    <3> QED BY <1>1, <2>0, <3>2, <3>3, FleetUntouched DEF OnTrip
  <2> QED BY <2>3, <2>4
<1> QED BY <1>1, <1>10, <1>11 DEF FleetInv

\* A goroutine that takes up a trip takes up the first one of its courier, and is
\* the only one that carries it, or the courier is disputed.
LEMMA FleetTake ==
  ASSUME WorkersTypeOK, PodInv, FleetInv, NEW w \in Workers, Take(w)
  PROVE  FleetInv'
<1>0. queue \in Seq(Entry) /\ holding \in [Workers -> Event \cup {Reset, Nothing}]
  BY DEF WorkersTypeOK
<1>1. PICK i \in 1..Len(queue) :
        /\ Taken(w, i)
        /\ disputed' = disputed \cup
             (About(queue[i].event) \cap UNION {About(holding[v]) : v \in Workers \ {w}})
  BY <1>0, TakeMoves
<1>2. /\ holding[w] = Nothing /\ holding' = [holding EXCEPT ![w] = queue[i].event]
      /\ UNCHANGED <<latest, resets, couriers>> /\ i \in Nat
  <2>1. holding' = [holding EXCEPT ![w] = queue[i].event] /\ i \in Nat
    BY <1>1 DEF Taken
  <2>2. holding[w] = Nothing /\ UNCHANGED <<latest, resets, couriers>>
    BY DEF Take
  <2> QED BY <2>1, <2>2
<1>3. OneTrip' /\ couriers' \in [Couriers -> {couriers'[c] : c \in Couriers}]
  BY <1>2 DEF FleetInv, OneTrip
<1>4. ASSUME NEW c \in Couriers \ disputed' PROVE OneCarrier(c)' /\ FleetFollows(c)'
  <2>0. OneCarrier(c) /\ FleetFollows(c) /\ c \notin disputed
    BY <1>1, <1>4 DEF FleetInv
  <2>1. Announced(c)' = Announced(c)
    BY <1>2, AnnouncedSame
  <2>2. ~OnTrip(w, c)
    BY <1>2, NothingIsNoEvent DEF OnTrip, Trip
  <2>3. \A v \in Workers : v # w => holding'[v] = holding[v] /\ (OnTrip(v, c)' <=> OnTrip(v, c))
    BY <1>0, <1>2 DEF OnTrip
  <2>4. OnTrip(w, c)' <=> i \in TripsWaiting(c)
    BY <1>0, <1>2 DEF OnTrip, TripsWaiting
  <2>5. \A k \in TripsWaiting(c)' : /\ Before(i, k) \in TripsWaiting(c) /\ k \in Nat
                                    /\ queue'[k] = queue[Before(i, k)]
    BY <1>1 DEF Taken, TripsWaiting
  <2>6. \A k \in TripsWaiting(c) : k # i =>
          /\ After(i, k) \in TripsWaiting(c)' /\ After(i, k) \in Nat
          /\ Before(i, After(i, k)) = k
    BY <1>1 DEF Taken, TripsWaiting
  <2>7. \A k \in TripsWaiting(c) : c \in About(queue[k].event) /\ k \in 1..Len(queue)
    BY ResetIsNoEvent, NothingIsNoEvent, Zenon DEF TripsWaiting, Trip, About
  <2>8. ASSUME i \in TripsWaiting(c), NEW k \in TripsWaiting(c) PROVE i <= k
    <3>1. c \in About(queue[i].event) /\ c \in About(queue[k].event) /\ k \in 1..Len(queue)
      BY <2>7, <2>8
    <3> QED BY <1>1, <2>0, <3>1, FirstTaken
  <2>9. \A k, m \in Nat : Before(i, k) <= Before(i, m) <=> k <= m
    BY <1>2 DEF Before
  <2>10. ASSUME NEW k \in TripsWaiting(c)', LastTrip(c, k)'
         PROVE  EventRow(queue'[k].event) \in Announced(c)'
    <3>1. ASSUME NEW j \in TripsWaiting(c) PROVE j <= Before(i, k)
      <4>1. CASE j = i
        BY <2>5, <2>8, <4>1
      <4>2. CASE j # i
        <5>1. After(i, j) \in TripsWaiting(c)' /\ After(i, j) \in Nat /\ Before(i, After(i, j)) = j
          BY <2>6, <4>2
        <5>2. After(i, j) <= k
          BY <2>10, <5>1 DEF LastTrip
        <5> QED BY <2>5, <2>9, <5>1, <5>2
      <4> QED BY <4>1, <4>2
    <3>2. LastTrip(c, Before(i, k))
      BY <2>5, <3>1 DEF LastTrip
    <3> QED BY <2>0, <2>1, <2>5, <3>2 DEF FleetFollows
  <2>11. CASE i \in TripsWaiting(c)
    <3>1. \A v \in Workers \ {w} : c \notin About(holding[v])
      BY <1>1, <1>4, <2>7, <2>11
    <3>2. \A v \in Workers \ {w} : ~OnTrip(v, c)
      BY <3>1, ResetIsNoEvent, NothingIsNoEvent, Zenon DEF Trip, OnTrip, About
    <3>3. OnTrip(w, c)' /\ \A v \in Workers : OnTrip(v, c)' => v = w
      BY <2>3, <2>4, <2>11, <3>2
    <3>4. OneCarrier(c)'
      BY <3>3 DEF OneCarrier
    <3>5. ASSUME TripsWaiting(c)' = {} PROVE EventRow(holding'[w]) \in Announced(c)'
      <4>1. \A j \in TripsWaiting(c) : j = i
        BY <2>6, <3>5
      <4>2. LastTrip(c, i)
        BY <1>2, <2>11, <4>1 DEF LastTrip
      <4>3. EventRow(queue[i].event) \in Announced(c)
        BY <2>0, <2>11, <4>2 DEF FleetFollows
      <4> QED BY <1>0, <1>2, <2>1, <4>3
    <3> QED BY <2>10, <3>3, <3>4, <3>5 DEF FleetFollows, EventRow, CourierRow, IdleRow
  <2>12. CASE i \notin TripsWaiting(c)
    <3>1. \A v \in Workers : (OnTrip(v, c)' <=> OnTrip(v, c)) /\ (OnTrip(v, c) => holding'[v] = holding[v])
      BY <2>2, <2>3, <2>4, <2>12
    <3>2. OneCarrier(c)'
      BY <2>0, <3>1 DEF OneCarrier
    <3>3. TripsWaiting(c)' = {} => TripsWaiting(c) = {}
      BY <2>6, <2>12
    <3>4. ASSUME TripsWaiting(c)' = {}, NEW v \in Workers, OnTrip(v, c)'
          PROVE  EventRow(holding'[v]) \in Announced(c)'
      BY <2>0, <2>1, <3>1, <3>3, <3>4 DEF FleetFollows
    <3>5. ASSUME TripsWaiting(c)' = {}, \A v \in Workers : ~OnTrip(v, c)', resets' = 0
          PROVE  couriers'[c] \in Announced(c)'
      BY <1>2, <2>0, <2>1, <3>1, <3>3, <3>5 DEF FleetFollows
    <3> QED BY <2>10, <3>2, <3>4, <3>5 DEF FleetFollows, EventRow, CourierRow, IdleRow
  <2> QED BY <2>11, <2>12
<1> QED BY <1>3, <1>4 DEF FleetInv

\* The commit of a courier's last trip leaves the row that it announced.
LEMMA FleetCommit ==
  ASSUME WorkersTypeOK, HistoryTypeOK, FleetInv, NEW w \in Workers, Commit(w)
  PROVE  FleetInv'
<1> DEFINE e == holding[w]
<1>1. /\ couriers' = CouriersAfter(couriers, e)
      /\ holding' = [holding EXCEPT ![w] = Nothing]
      /\ e \in Event \cup {Reset}
      /\ UNCHANGED <<latest, resets, queue, disputed>>
  BY DEF Commit, Project, WorkersTypeOK
<1>2. couriers \in [Couriers -> {couriers[c] : c \in Couriers}]
  BY DEF FleetInv
<1>3. couriers' \in [Couriers -> {couriers'[c] : c \in Couriers}]
  <2>1. CASE e = Reset
    BY <1>1, <2>1 DEF CouriersAfter, AtRest
  <2>2. CASE e # Reset /\ Stages[e.stage].courier = ""
    BY <1>1, <1>2, <2>2, Zenon DEF CouriersAfter
  <2>3. CASE e # Reset /\ Stages[e.stage].courier # ""
    <3>1. couriers' = [couriers EXCEPT ![CourierOf[e.order]] = CourierRow(e.order, e.stage)]
      BY <1>1, <2>3, Zenon DEF CouriersAfter
    <3> QED BY <1>2, <3>1
  <2> QED BY <2>1, <2>2, <2>3
<1>4. e = Reset => resets > 0
  BY DEF HistoryTypeOK, ResetPending
<1>5. OneTrip'
  BY <1>1 DEF FleetInv, OneTrip
<1>6. ASSUME NEW c \in Couriers \ disputed PROVE OneCarrier(c)' /\ FleetFollows(c)'
  <2>0. OneCarrier(c) /\ FleetFollows(c)
    BY <1>6 DEF FleetInv
  <2>1. Announced(c)' = Announced(c)
    BY <1>1, AnnouncedSame
  <2>2. TripsWaiting(c)' = TripsWaiting(c)
    BY <1>1 DEF TripsWaiting
  <2>3. /\ ~OnTrip(w, c)'
        /\ \A v \in Workers : v # w => holding'[v] = holding[v] /\ (OnTrip(v, c)' <=> OnTrip(v, c))
    BY <1>1, NothingIsNoEvent DEF OnTrip, Trip, WorkersTypeOK
  <2>4. CASE OnTrip(w, c)
    <3>1. \A v \in Workers : ~OnTrip(v, c)'
      BY <2>0, <2>3, <2>4 DEF OneCarrier
    <3>2. e \in Event /\ Stages[e.stage].courier # "" /\ CourierOf[e.order] = c
      BY <2>4 DEF OnTrip, Trip
    <3>3. couriers' = [couriers EXCEPT ![CourierOf[e.order]] = CourierRow(e.order, e.stage)]
      BY <1>1, <3>2, ResetIsNoEvent, Zenon DEF CouriersAfter
    <3>4. CourierOf[e.order] = c
      BY <3>2, Zenon
    <3>5. couriers'[c] = EventRow(e)
      BY <1>2, <3>3, <3>4 DEF EventRow
    <3>6. TripsWaiting(c) = {} => EventRow(e) \in Announced(c)
      BY <2>0, <2>4 DEF FleetFollows
    <3>7. OneCarrier(c)'
      BY <3>1 DEF OneCarrier
    <3>8. \A i \in TripsWaiting(c)' : LastTrip(c, i)' => EventRow(queue'[i].event) \in Announced(c)'
      BY <1>1, <2>0, <2>1, <2>2 DEF FleetFollows, LastTrip
    <3> QED BY <2>1, <2>2, <3>1, <3>5, <3>6, <3>7, <3>8
            DEF FleetFollows, EventRow, CourierRow, IdleRow
  <2>5. CASE ~OnTrip(w, c)
    <3>1. resets' = 0 => resets = 0 /\ couriers'[c] = couriers[c]
      <4> SUFFICES ASSUME resets' = 0 PROVE couriers'[c] = couriers[c]
        BY <1>1
      <4>1. e \in Event /\ e # Reset
        BY <1>1, <1>4, ResetIsNoEvent
      <4>2. CASE Stages[e.stage].courier = ""
        BY <1>1, <4>1, <4>2, Zenon DEF CouriersAfter
      <4>3. CASE Stages[e.stage].courier # ""
        <5>1. CourierOf[e.order] # c
          BY <2>5, <4>1, <4>3, Zenon DEF OnTrip, Trip
        <5>2. couriers' = [couriers EXCEPT ![CourierOf[e.order]] = CourierRow(e.order, e.stage)]
          BY <1>1, <4>1, <4>3, Zenon DEF CouriersAfter
        <5> QED BY <1>2, <5>1, <5>2
      <4> QED BY <4>2, <4>3
    <3>2. \A v \in Workers :
            (OnTrip(v, c)' <=> OnTrip(v, c)) /\ (OnTrip(v, c) => holding'[v] = holding[v])
      BY <2>3, <2>5
    <3> QED BY <1>1, <2>0, <2>1, <2>2, <3>1, <3>2, FleetUntouched
  <2> QED BY <2>4, <2>5
<1> QED BY <1>1, <1>3, <1>5, <1>6 DEF FleetInv

LEMMA FleetStep ==
  WorkersTypeOK /\ PodInv /\ HistoryTypeOK /\ FleetInv /\ [Next]_vars => FleetInv'
<1> SUFFICES ASSUME WorkersTypeOK, PodInv, HistoryTypeOK, FleetInv, [Next]_vars PROVE FleetInv'
  OBVIOUS
<1>1. ASSUME NEW e \in Event, PublishEvent(e) PROVE FleetInv'
  BY <1>1, FleetPublish
<1>2. CASE PublishReset
  <2>1. /\ queue' = Append(queue, Undelivered(Reset)) /\ resets' # 0
        /\ UNCHANGED <<latest, holding, couriers, disputed>>
    BY <1>2 DEF PublishReset, HistoryTypeOK
  <2>2. /\ Len(queue') = Len(queue) + 1 /\ Len(queue) \in Nat
        /\ queue'[Len(queue) + 1].event = Reset
        /\ \A i \in 1..Len(queue) : queue'[i] = queue[i]
    BY <2>1, PublishAppends DEF WorkersTypeOK
  <2>3. ASSUME NEW c \in Couriers \ disputed PROVE OneCarrier(c)' /\ FleetFollows(c)'
    <3>1. ~Trip(Reset, c)
      BY ResetIsNoEvent DEF Trip
    <3>2. TripsWaiting(c)' = TripsWaiting(c)
          /\ \A i \in TripsWaiting(c) : queue'[i].event = queue[i].event
      BY <2>2, <3>1 DEF TripsWaiting
    <3>3. Announced(c)' = Announced(c)
      BY <2>1, AnnouncedSame
    <3>4. OneCarrier(c) /\ FleetFollows(c)
      BY <2>3 DEF FleetInv
    <3>5. \A v \in Workers :
            (OnTrip(v, c)' <=> OnTrip(v, c)) /\ (OnTrip(v, c) => holding'[v] = holding[v])
      BY <2>1 DEF OnTrip
    <3> QED BY <2>1, <3>2, <3>3, <3>4, <3>5, FleetUntouched
  <2> QED BY <2>1, <2>3 DEF FleetInv, OneTrip
<1>3. ASSUME NEW w \in Workers, Begin(w) PROVE FleetInv'
  BY <1>3, FleetTake DEF Begin
<1>4. ASSUME NEW w \in Workers, Commit(w) PROVE FleetInv'
  BY <1>4, FleetCommit
<1>5. ASSUME NEW w \in Workers, Abort(w) PROVE FleetInv'
  <2>1. /\ holding' = [holding EXCEPT ![w] = Nothing]
        /\ UNCHANGED <<latest, resets, queue, couriers>>
        /\ disputed' = disputed \cup About(holding[w])
    BY <1>5 DEF Abort, DeadLetter
  <2>2. ASSUME NEW c \in Couriers \ disputed' PROVE OneCarrier(c)' /\ FleetFollows(c)'
    <3>1. c \notin About(holding[w])
      BY <2>1, <2>2
    <3>2. ~OnTrip(w, c)
      BY <3>1, ResetIsNoEvent, NothingIsNoEvent, Zenon DEF About, OnTrip, Trip
    <3>3. \A v \in Workers :
            (OnTrip(v, c)' <=> OnTrip(v, c)) /\ (OnTrip(v, c) => holding'[v] = holding[v])
      BY <2>1, <3>2, NothingIsNoEvent DEF OnTrip, Trip, WorkersTypeOK
    <3>4. OneCarrier(c) /\ FleetFollows(c)
      BY <2>1, <2>2 DEF FleetInv
    <3>5. Announced(c)' = Announced(c) /\ TripsWaiting(c)' = TripsWaiting(c)
      BY <2>1, AnnouncedSame DEF TripsWaiting
    <3> QED BY <2>1, <3>3, <3>4, <3>5, FleetUntouched
  <2> QED BY <2>1, <2>2 DEF FleetInv, OneTrip
<1>6. ASSUME UNCHANGED rowVars PROVE FleetInv'
  <2>1. UNCHANGED <<latest, resets, queue, holding, couriers, disputed>>
    BY <1>6 DEF rowVars
  <2>2. ASSUME NEW c \in Couriers \ disputed PROVE OneCarrier(c)' /\ FleetFollows(c)'
    <3>1. OneCarrier(c) /\ FleetFollows(c)
      BY <2>2 DEF FleetInv
    <3>2. Announced(c)' = Announced(c) /\ TripsWaiting(c)' = TripsWaiting(c)
      BY <2>1, AnnouncedSame DEF TripsWaiting
    <3> QED BY <2>1, <3>1, <3>2, FleetUntouched DEF OnTrip
  <2> QED BY <2>1, <2>2 DEF FleetInv, OneTrip
<1>7. ASSUME NEW p \in Pods, Deliver(p) PROVE FleetInv'
  <2>1. PICK i \in 1..Len(queue) : Sent(p, i)
    BY <1>7, DeliverSends DEF WorkersTypeOK
  <2>2. UNCHANGED <<latest, resets, holding, couriers>> /\ disputed \subseteq disputed'
    BY <1>7 DEF Deliver
  <2>3. Len(queue') = Len(queue) /\ \A k \in 1..Len(queue) : queue'[k].event = queue[k].event
    BY <2>1 DEF Sent
  <2>4. ASSUME NEW c \in Couriers \ disputed' PROVE OneCarrier(c)' /\ FleetFollows(c)'
    <3>1. OneCarrier(c) /\ FleetFollows(c)
      BY <2>2, <2>4 DEF FleetInv
    <3>2. Announced(c)' = Announced(c)
      BY <2>2, AnnouncedSame
    <3>3. TripsWaiting(c)' = TripsWaiting(c)
          /\ \A k \in TripsWaiting(c) : queue'[k].event = queue[k].event
      BY <2>3 DEF TripsWaiting
    <3> QED BY <2>2, <3>1, <3>2, <3>3, FleetUntouched DEF OnTrip
  <2> QED BY <2>2, <2>4 DEF FleetInv, OneTrip
<1> QED BY <1>1, <1>2, <1>3, <1>4, <1>5, <1>6, <1>7
        DEF Next, Execute, BeginMigration, EndMigration, vars

\* Once every event is projected, and until a reset, the row of a courier
\* shows the order that it has under way, or that it is idle, unless two pods had
\* events of it at the same time, two of its trips were in open transactions at
\* the same time, or one was dead-lettered.
THEOREM UndisputedFleetIsCurrentHolds == Spec => []UndisputedFleetIsCurrent
<1>1. Init => HistoryTypeOK /\ FleetInv
  <2> SUFFICES ASSUME Init PROVE HistoryTypeOK /\ FleetInv
    OBVIOUS
  <2>1. /\ queue = <<>> /\ resets = 0 /\ latest = [o \in Orders |-> 0]
        /\ orders = [o \in Orders |-> Nothing] /\ couriers = [c \in Couriers |-> IdleRow]
        /\ \A w \in Workers : holding[w] = Nothing
    BY DEF Init, RowsInit
  <2>2. HistoryTypeOK
    BY <2>1, NothingIsNoEvent DEF HistoryTypeOK, ResetPending
  <2>3. OneTrip /\ \A c \in Couriers : Free(c)
    BY <2>1 DEF OneTrip, Free, UnderWay
  <2>4. ASSUME NEW c \in Couriers PROVE OneCarrier(c) /\ FleetFollows(c)
    <3>1. TripsWaiting(c) = {}
      BY <2>1 DEF TripsWaiting
    <3>2. \A w \in Workers : ~OnTrip(w, c)
      BY <2>1, NothingIsNoEvent DEF OnTrip, Trip
    <3>3. couriers[c] \in Announced(c)
      BY <2>1, <2>3 DEF Announced
    <3> QED BY <3>1, <3>2, <3>3 DEF OneCarrier, FleetFollows
  <2> QED BY <2>1, <2>2, <2>3, <2>4 DEF FleetInv
<1>2. WorkersTypeOK /\ FleetInv => UndisputedFleetIsCurrent
  <2> SUFFICES ASSUME WorkersTypeOK, FleetInv, Projected, resets = 0,
                      NEW c \in Couriers \ disputed
               PROVE  couriers[c] \in Announced(c)
    BY DEF UndisputedFleetIsCurrent, Announced
  <2>1. TripsWaiting(c) = {}
    BY DEF Projected, TripsWaiting
  <2>2. \A w \in Workers : ~OnTrip(w, c)
    BY NothingIsNoEvent DEF Projected, OnTrip, Trip
  <2> QED BY <2>1, <2>2 DEF FleetInv, FleetFollows
<1> QED BY <1>1, <1>2, HistoryTypeStep, FleetStep, PodsApart, WorkersTyped, PTL DEF Spec
=============================================================================
