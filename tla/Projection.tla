----------------------------- MODULE Projection -----------------------------
(***************************************************************************)
(* The durable projection: the queue order-projection, the order-worker    *)
(* pods that consume it (messaging.Consume, Workers goroutines sharing one *)
(* delivery channel) and the transaction of Repository.Project that claims *)
(* an event in processed_events and applies its effect.                    *)
(*                                                                         *)
(* The order in which the broker hands out ready messages is left open     *)
(* (several consumers, and requeues, reorder a queue); an effect on the    *)
(* tables is the event's place in "applied"; row contents are not here.    *)
(***************************************************************************)
EXTENDS Naturals, Sequences, FiniteSets

CONSTANTS
  Pods,           \* order-worker replicas
  Workers,        \* consumer goroutines of all pods
  PodOf,          \* the pod each worker belongs to
  Messages,       \* published copies of events (a lab may publish one twice)
  Events,         \* event ids
  EventOf,        \* the event a message carries
  Malformed,      \* messages whose body is not a JSON envelope
  Unprojectable,  \* events whose id or payload the transaction cannot store
  NoMessage,      \* a worker between two deliveries
  Prefetch,       \* channel.Qos
  MaxStops,       \* bound: SIGTERMs, SIGKILLs and lost broker connections
  MaxDbFaults,    \* bound: statements and commits that return an error
  MaxFailovers    \* bound: promotions of an asynchronous replica

ASSUME ProjectionAssumption ==
  /\ PodOf \in [Workers -> Pods]
  /\ EventOf \in [Messages -> Events]
  /\ Malformed \subseteq Messages
  /\ Unprojectable \subseteq Events
  /\ NoMessage \notin Messages
  /\ Prefetch \in Nat \ {0}
  /\ MaxStops \in Nat
  /\ MaxDbFaults \in Nat
  /\ MaxFailovers \in Nat

VARIABLES
  published,      \* messages the exchange has accepted
  ready,          \* in the queue, waiting for a consumer
  unacked,        \* per pod: delivered on its channel, not yet settled
  acked,          \* acknowledged, gone
  dead,           \* in food.dead
  pod,            \* life cycle of each pod
  pc,             \* where each worker is in the consume loop and in Project
  job,            \* the delivery each worker holds
  processed,      \* committed rows of processed_events
  applied,        \* committed effects, in commit order
  forgotten,      \* events whose commit a failover has discarded
  stops, dbFaults, failovers    \* faults so far

queueVars == <<published, ready, unacked, acked, dead>>
workerVars == <<pod, pc, job>>
tableVars == <<processed, applied, forgotten>>
faultVars == <<stops, dbFaults, failovers>>
vars == <<queueVars, workerVars, tableVars, faultVars>>

\* "canceled": ctx is done, Consume has not closed its channel yet.
\* "closed": the AMQP channel is gone, the process still winds down.
PodStates == {"running", "canceled", "closed", "down"}

Connected(p) == pod[p] \in {"running", "canceled"}

InTx == {"project", "commit"}         \* the claim row is inserted, uncommitted
Handling == {"claim"} \cup InTx       \* inside the handler
Settling == {"ack", "reject", "requeue"}
WorkerStates == {"idle"} \cup Handling \cup Settling

ActiveWorkers(p) == {w \in Workers : PodOf[w] = p /\ pc[w] # "idle"}

-----------------------------------------------------------------------------
Init ==
  /\ published = {} /\ ready = {} /\ acked = {} /\ dead = {}
  /\ unacked = [p \in Pods |-> {}]
  /\ pod = [p \in Pods |-> "running"]
  /\ pc = [w \in Workers |-> "idle"]
  /\ job = [w \in Workers |-> NoMessage]
  /\ processed = {} /\ applied = <<>> /\ forgotten = {}
  /\ stops = 0 /\ dbFaults = 0 /\ failovers = 0

(***************************************************************************)
(* The broker.                                                             *)
(***************************************************************************)

\* A confirmed persistent publish, routed by order.#, courier.#, customer.#
\* or simulation.# to the durable queue.
Publish(m) ==
  /\ m \notin published
  /\ published' = published \cup {m}
  /\ ready' = ready \cup {m}
  /\ UNCHANGED <<unacked, acked, dead, workerVars, tableVars, faultVars>>

Deliver(p, m) ==
  /\ Connected(p)
  /\ m \in ready
  /\ Cardinality(unacked[p]) < Prefetch
  /\ ready' = ready \ {m}
  /\ unacked' = [unacked EXCEPT ![p] = @ \cup {m}]
  /\ UNCHANGED <<published, acked, dead, workerVars, tableVars, faultVars>>

(***************************************************************************)
(* The consume loop and the transaction.                                   *)
(***************************************************************************)

\* Mutant of Receive: goroutines that each read the whole channel.
ReceiveShared(w, m) ==
  /\ pc[w] = "idle"
  /\ Connected(PodOf[w])
  /\ m \in unacked[PodOf[w]]
  /\ job' = [job EXCEPT ![w] = m]
  /\ pc' = [pc EXCEPT ![w] = "claim"]
  /\ UNCHANGED <<pod, queueVars, tableVars, faultVars>>

\* A worker takes a delivery off the shared channel.  A body that does not
\* unmarshal never reaches the handler; a handler entered after SIGTERM fails
\* in pool.Begin with context.Canceled.
Receive(w, m) ==
  /\ pc[w] = "idle"
  /\ Connected(PodOf[w])
  /\ m \in unacked[PodOf[w]]
  /\ \A v \in ActiveWorkers(PodOf[w]) : job[v] # m
  /\ job' = [job EXCEPT ![w] = m]
  /\ pc' = [pc EXCEPT ![w] = IF m \in Malformed THEN "reject"
                             ELSE IF pod[PodOf[w]] = "canceled" THEN "requeue"
                             ELSE "claim"]
  /\ UNCHANGED <<pod, queueVars, tableVars, faultVars>>

\* Mutant of Claim: a SELECT before the INSERT instead of the unique key.
ClaimUnlocked(w) ==
  /\ pc[w] = "claim"
  /\ pc' = [pc EXCEPT ![w] = IF EventOf[job[w]] \in processed
                             THEN "ack" ELSE "project"]
  /\ UNCHANGED <<pod, job, queueVars, tableVars, faultVars>>

\* INSERT INTO processed_events ... ON CONFLICT DO NOTHING waits while another
\* transaction holds the same event id uncommitted; a committed row makes the
\* event a duplicate, which the handler reports as success.
Claim(w) ==
  /\ pc[w] = "claim"
  /\ \A v \in Workers : pc[v] \in InTx => EventOf[job[v]] # EventOf[job[w]]
  /\ pc' = [pc EXCEPT ![w] = IF EventOf[job[w]] \in processed
                             THEN "ack" ELSE "project"]
  /\ UNCHANGED <<pod, job, queueVars, tableVars, faultVars>>

Project(w) ==
  /\ pc[w] = "project"
  /\ EventOf[job[w]] \notin Unprojectable
  /\ pc' = [pc EXCEPT ![w] = "commit"]
  /\ UNCHANGED <<pod, job, queueVars, tableVars, faultVars>>

\* An id that is no uuid or a payload that does not decode: the deferred
\* rollback withdraws the claim.
ProjectFails(w) ==
  /\ pc[w] = "project"
  /\ EventOf[job[w]] \in Unprojectable
  /\ pc' = [pc EXCEPT ![w] = "reject"]
  /\ UNCHANGED <<pod, job, queueVars, tableVars, faultVars>>

\* Mutant of CommitTx: the delivery is recorded, not the event it carries.
CommitDelivery(w) ==
  /\ pc[w] = "commit"
  /\ processed' = processed \cup {job[w]}
  /\ applied' = Append(applied, job[w])
  /\ UNCHANGED forgotten

\* Claim and effect become visible together.
CommitTx(w) ==
  /\ pc[w] = "commit"
  /\ processed' = processed \cup {EventOf[job[w]]}
  /\ applied' = Append(applied, EventOf[job[w]])
  /\ UNCHANGED forgotten

Commit(w) ==
  /\ CommitTx(w)
  /\ pc' = [pc EXCEPT ![w] = "ack"]
  /\ UNCHANGED <<pod, job, queueVars, faultVars>>

\* Mutant of DbError: the handler logs the error and returns nil.
DbErrorSwallowed(w) ==
  /\ pc[w] \in Handling
  /\ dbFaults < MaxDbFaults
  /\ dbFaults' = dbFaults + 1
  /\ pc' = [pc EXCEPT ![w] = "ack"]
  /\ UNCHANGED <<tableVars, pod, job, queueVars, stops, failovers>>

\* The database returns an error; a commit that errs may have been applied.
DbError(w) ==
  /\ pc[w] \in Handling
  /\ dbFaults < MaxDbFaults
  /\ dbFaults' = dbFaults + 1
  /\ pc' = [pc EXCEPT ![w] = "reject"]
  /\ CommitTx(w) \/ UNCHANGED tableVars
  /\ UNCHANGED <<pod, job, queueVars, stops, failovers>>

\* Mutants of Interrupt: cancellation taken for success, and for a failure.
InterruptSettles(w, outcome) ==
  /\ pc[w] \in Handling
  /\ pod[PodOf[w]] = "canceled"
  /\ pc' = [pc EXCEPT ![w] = outcome]
  /\ UNCHANGED <<tableVars, pod, job, queueVars, faultVars>>

InterruptAcks(w) == InterruptSettles(w, "ack")
InterruptRejects(w) == InterruptSettles(w, "reject")

\* ctx is done while a statement or the commit is under way: pgx returns an
\* error that wraps context.Canceled, and the commit may have been applied.
Interrupt(w) ==
  /\ pc[w] \in Handling
  /\ pod[PodOf[w]] = "canceled"
  /\ pc' = [pc EXCEPT ![w] = "requeue"]
  /\ CommitTx(w) \/ UNCHANGED tableVars
  /\ UNCHANGED <<pod, job, queueVars, faultVars>>

\* Ack, Nack to the dead-letter exchange, or Nack with requeue.
Settle(w) ==
  /\ pc[w] \in Settling
  /\ Connected(PodOf[w])
  /\ unacked' = [unacked EXCEPT ![PodOf[w]] = @ \ {job[w]}]
  /\ acked' = IF pc[w] = "ack" THEN acked \cup {job[w]} ELSE acked
  /\ dead' = IF pc[w] = "reject" THEN dead \cup {job[w]} ELSE dead
  /\ ready' = IF pc[w] = "requeue" THEN ready \cup {job[w]} ELSE ready
  /\ pc' = [pc EXCEPT ![w] = "idle"]
  /\ job' = [job EXCEPT ![w] = NoMessage]
  /\ UNCHANGED <<published, pod, tableVars, faultVars>>

\* Settling on a closed channel fails: the goroutine reports to errCh, returns.
SettleFails(w) ==
  /\ pc[w] \in Settling
  /\ ~Connected(PodOf[w])
  /\ pc' = [pc EXCEPT ![w] = "idle"]
  /\ job' = [job EXCEPT ![w] = NoMessage]
  /\ UNCHANGED <<pod, queueVars, tableVars, faultVars>>

(***************************************************************************)
(* Pods and the database server.                                           *)
(***************************************************************************)

\* Mutants of Redeliver: automatic acknowledgement, and a channel that is
\* served on after its messages went back.
RedeliverNothing(p) ==
  /\ unacked' = [unacked EXCEPT ![p] = {}]
  /\ UNCHANGED <<published, ready, acked, dead>>

RedeliverCopies(p) ==
  /\ ready' = ready \cup unacked[p]
  /\ UNCHANGED <<published, unacked, acked, dead>>

\* The broker puts what a lost channel held back into the queue.
Redeliver(p) ==
  /\ ready' = ready \cup unacked[p]
  /\ unacked' = [unacked EXCEPT ![p] = {}]
  /\ UNCHANGED <<published, acked, dead>>

CountStop ==
  /\ stops < MaxStops
  /\ stops' = stops + 1
  /\ UNCHANGED <<dbFaults, failovers>>

\* SIGTERM: signal.NotifyContext cancels ctx.
Cancel(p) ==
  /\ pod[p] = "running"
  /\ CountStop
  /\ pod' = [pod EXCEPT ![p] = "canceled"]
  /\ UNCHANGED <<pc, job, queueVars, tableVars>>

\* Consume returns on ctx.Done and its deferred calls close the channel.
CloseChannel(p) ==
  /\ pod[p] = "canceled"
  /\ pod' = [pod EXCEPT ![p] = "closed"]
  /\ Redeliver(p)
  /\ UNCHANGED <<pc, job, tableVars, faultVars>>

\* The connection breaks under a running pod; handlers do not notice.
LoseConnection(p) ==
  /\ pod[p] = "running"
  /\ CountStop
  /\ pod' = [pod EXCEPT ![p] = "closed"]
  /\ Redeliver(p)
  /\ UNCHANGED <<pc, job, tableVars>>

\* The process is gone, and with it its goroutines and open transactions.
EndProcess(p) ==
  /\ pod' = [pod EXCEPT ![p] = "down"]
  /\ pc' = [w \in Workers |-> IF PodOf[w] = p THEN "idle" ELSE pc[w]]
  /\ job' = [w \in Workers |-> IF PodOf[w] = p THEN NoMessage ELSE job[w]]
  /\ UNCHANGED tableVars

\* main returns after repository.Close.
Exit(p) ==
  /\ pod[p] = "closed"
  /\ EndProcess(p)
  /\ UNCHANGED <<queueVars, faultVars>>

\* SIGKILL, or the node is gone.
Kill(p) ==
  /\ Connected(p)
  /\ CountStop
  /\ EndProcess(p)
  /\ Redeliver(p)

\* Kubernetes restarts the container: connect, then consume.  The migrations in
\* between are in module RowLocks.
Start(p) ==
  /\ pod[p] = "down"
  /\ pod' = [pod EXCEPT ![p] = "running"]
  /\ UNCHANGED <<pc, job, queueVars, tableVars, faultVars>>

\* The replica lacks the last transactions the primary had committed; every
\* open transaction dies with the primary.
Failover ==
  /\ failovers < MaxFailovers
  /\ failovers' = failovers + 1
  /\ \E n \in 0..Len(applied) :
       /\ applied' = SubSeq(applied, 1, n)
       /\ processed' = {applied[i] : i \in 1..n}
       /\ forgotten' = forgotten \cup {applied[i] : i \in (n + 1)..Len(applied)}
  /\ pc' = [w \in Workers |-> IF pc[w] \in InTx THEN "reject" ELSE pc[w]]
  /\ UNCHANGED <<pod, job, queueVars, stops, dbFaults>>

-----------------------------------------------------------------------------
WorkerStep(w) ==
  \/ \E m \in Messages : Receive(w, m)
  \/ Claim(w) \/ Project(w) \/ ProjectFails(w) \/ Commit(w)
  \/ Settle(w) \/ SettleFails(w)

Disturbance ==
  \/ \E w \in Workers : DbError(w) \/ Interrupt(w)
  \/ \E p \in Pods : Cancel(p) \/ LoseConnection(p) \/ Kill(p)
  \/ Failover

\* Every published message is settled: the consumers wait for more.
Rest ==
  /\ published = acked \cup dead
  /\ UNCHANGED vars

Next ==
  \/ \E m \in Messages : Publish(m)
  \/ \E p \in Pods, m \in Messages : Deliver(p, m)
  \/ \E w \in Workers : WorkerStep(w)
  \/ \E p \in Pods : CloseChannel(p) \/ Exit(p) \/ Start(p)
  \/ Disturbance
  \/ Rest

Spec == Init /\ [][Next]_vars

\* The broker serves a consumer with room, goroutines run, a process that has
\* lost its channel ends, and Kubernetes restarts it.
Fairness ==
  /\ \A m \in Messages : WF_vars(\E p \in Pods : Deliver(p, m))
  /\ \A w \in Workers : WF_vars(WorkerStep(w))
  /\ \A p \in Pods : WF_vars(CloseChannel(p) \/ Exit(p) \/ Start(p))

FairSpec == Spec /\ Fairness

-----------------------------------------------------------------------------
TypeOK ==
  /\ published \subseteq Messages
  /\ ready \subseteq Messages
  /\ unacked \in [Pods -> SUBSET Messages]
  /\ acked \subseteq Messages
  /\ dead \subseteq Messages
  /\ pod \in [Pods -> PodStates]
  /\ pc \in [Workers -> WorkerStates]
  /\ job \in [Workers -> Messages \cup {NoMessage}]
  /\ processed \subseteq Events
  /\ applied \in Seq(Events)
  /\ forgotten \subseteq Events
  /\ stops \in 0..MaxStops
  /\ dbFaults \in 0..MaxDbFaults
  /\ failovers \in 0..MaxFailovers

\* Project applies an event once: whatever is redelivered, retried by another
\* pod or published twice, no event has two committed effects, and an event is
\* claimed in processed_events exactly when its effect is there.
EffectOnce ==
  /\ \A i, j \in 1..Len(applied) : applied[i] = applied[j] => i = j
  /\ processed = {applied[i] : i \in 1..Len(applied)}

\* Consume acknowledges only after Project: an acknowledged event is in the
\* tables unless a failover has discarded its commit.
AckedIsApplied ==
  \A m \in acked : EventOf[m] \in processed \cup forgotten

\* The queue, the channels, the dead-letter queue and the acknowledged
\* messages partition what was published: a message is neither lost nor
\* doubled by a stop, a lost channel or a requeue.
EachMessageOnce ==
  /\ published = ready \cup acked \cup dead \cup UNION {unacked[p] : p \in Pods}
  /\ ready \cap acked = {} /\ ready \cap dead = {} /\ acked \cap dead = {}
  /\ \A p \in Pods :
       /\ unacked[p] \cap (ready \cup acked \cup dead) = {}
       /\ \A q \in Pods \ {p} : unacked[p] \cap unacked[q] = {}

\* Two workers on open channels never handle the same delivery; only a worker
\* whose channel is gone can still be busy with a message handed out again.
OneLiveHandler ==
  \A v, w \in Workers :
    /\ v # w
    /\ Connected(PodOf[v]) /\ Connected(PodOf[w])
    /\ pc[v] # "idle" /\ pc[w] # "idle"
    => job[v] # job[w]

\* A rollout or an eviction never dead-letters: as long as the database
\* answers, only what cannot be parsed or stored reaches the dead-letter queue.
StopsNeverDeadLetter ==
  dbFaults + failovers = 0 =>
    \A m \in dead : m \in Malformed \/ EventOf[m] \in Unprojectable

\* Once the faults are over every published message leaves the queue for good.
EveryMessageSettles ==
  \A m \in Messages : m \in published ~> m \in acked \cup dead

\* Why the promises hold, as one inductive invariant.  A worker holds a
\* message exactly while it is busy, and on an open channel that message is
\* still unacknowledged there; the open transactions claim distinct events
\* that no committed transaction has claimed; what is about to be acknowledged
\* is in the tables; what is about to be dead-lettered has a cause; a process
\* that is down has no goroutines.
Busy(w) == pc[w] # "idle"

JobsHeld ==
  \A w \in Workers :
    /\ Busy(w) <=> job[w] # NoMessage
    /\ Busy(w) => job[w] \in published
    /\ Busy(w) /\ Connected(PodOf[w]) => job[w] \in unacked[PodOf[w]]
    /\ pod[PodOf[w]] = "down" => ~Busy(w)

ClaimsFresh ==
  \A w \in Workers : pc[w] \in InTx =>
    /\ EventOf[job[w]] \notin processed
    /\ \A v \in Workers \ {w} :
         pc[v] \in InTx => EventOf[job[v]] # EventOf[job[w]]

AckEarned ==
  \A w \in Workers :
    pc[w] = "ack" => EventOf[job[w]] \in processed \cup forgotten

RejectEarned ==
  dbFaults + failovers = 0 =>
    \A w \in Workers : pc[w] = "reject" =>
      job[w] \in Malformed \/ EventOf[job[w]] \in Unprojectable

IInv ==
  /\ TypeOK
  /\ JobsHeld /\ OneLiveHandler /\ EachMessageOnce
  /\ ClaimsFresh /\ EffectOnce
  /\ AckEarned /\ AckedIsApplied
  /\ RejectEarned /\ StopsNeverDeadLetter

-----------------------------------------------------------------------------
\* The refinement mapping to EventLedger.
VerdictOf(m) == IF m \in acked THEN "confirmed"
                ELSE IF m \in dead THEN "rejected"
                ELSE IF m \in published THEN "pending" ELSE "unsent"

Ledger == INSTANCE EventLedger WITH
            ledger <- applied,
            verdict <- [m \in Messages |-> VerdictOf(m)]

\* The projection implements the ledger: claims, transactions, requeues and
\* stops are invisible, and each visible step is one the ledger allows.
ImplementsLedger == Ledger!LedgerSpec
=============================================================================
