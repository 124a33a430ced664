------------------------------ MODULE Dispatch ------------------------------
(***************************************************************************)
(* The life of an order across the services: order.created goes to the     *)
(* queue of its restaurant, a restaurant-worker answers order.accepted or  *)
(* order.rejected, accepted orders go to courier-dispatch, and a courier   *)
(* publishes courier.assigned, location updates, order.picked_up and       *)
(* order.delivered from one handler call before it acknowledges.           *)
(*                                                                         *)
(* Both kinds of consumer run messaging.Consume with one worker and        *)
(* prefetch 1, so a delivery and its handler are one step.  Every event    *)
(* goes to the history of its order, in publication order; <<o, i>> is the *)
(* i-th event of order o and, when it was routed to a queue, its message.  *)
(***************************************************************************)
EXTENDS Naturals, Sequences, FiniteSets

CONSTANTS
  Orders, Restaurants,
  RestaurantOf,     \* Order.RestaurantID
  Kitchens,         \* restaurant-worker pods
  ServedBy,         \* RESTAURANT_ID of each kitchen
  Couriers,         \* courier-simulator pods
  DispatchQueue,    \* courier-dispatch
  NoMessage,        \* a consumer between two deliveries
  RejectEvery,      \* handled.Add(1) % 9 in the code
  MaxTicks,         \* bound: location updates per trip
  MaxStops,         \* bound: SIGTERMs, SIGKILLs, lost consumer connections
  MaxFaults,        \* bound: broken publisher connections, broker nacks and
                    \* bodies no handler can decode
  MaxLate           \* bound: deliveries taken and events published by
                    \* processes that are about to exit

Consumers == Kitchens \cup Couriers
Queues == Restaurants \cup {DispatchQueue}

ASSUME DispatchAssumption ==
  /\ RestaurantOf \in [Orders -> Restaurants]
  /\ ServedBy \in [Kitchens -> Restaurants]
  /\ Kitchens \cap Couriers = {} /\ IsFiniteSet(Consumers)
  /\ DispatchQueue \notin Restaurants
  /\ NoMessage \notin Orders \X Nat
  /\ RejectEvery \in Nat \ {0}
  /\ MaxTicks \in Nat /\ MaxStops \in Nat /\ MaxFaults \in Nat /\ MaxLate \in Nat

VARIABLES
  history,      \* per order: the events published about it
  declared,     \* queues some consumer has declared and bound
  ready,        \* per queue: messages waiting
  acked, dead,  \* settled messages
  unrouted,     \* messages whose queue did not exist when they were published
  requeued,     \* per order: how often one of its messages went back
  pod,          \* life cycle of each consumer process
  publisher,    \* its publisher connection: never reopened by the process
  job, phase,   \* the delivery it handles and how far the handler is
  cites,        \* the event the next milestone names as its cause
  trail,        \* the event the next location update names as its cause
  ticks,        \* location updates on the current trip
  handled,      \* accept/reject counter of a kitchen, modulo RejectEvery
  failed,       \* ghost: messages whose handler or decoding returned an error
  stops, faults, late    \* the bounded occurrences so far

brokerVars == <<history, declared, ready, acked, dead, unrouted, requeued>>
handlerVars == <<publisher, job, phase, cites, trail, ticks, handled>>
vars == <<brokerVars, handlerVars, pod, failed, stops, faults, late>>

PodStates == {"running", "canceled", "closed", "down"}
Legs == {"to_restaurant", "to_customer"}
Settling == {"ack", "reject", "requeue"}
Phases == {"idle", "cook", "answer", "assign", "pick_up", "handover", "deliver"}
            \cup Legs \cup Settling
EventTypes == {"order.created", "order.accepted", "order.rejected",
               "courier.assigned", "courier.location.updated",
               "order.picked_up", "order.delivered"}

QueueOf(c) == IF c \in Kitchens THEN ServedBy[c] ELSE DispatchQueue
FirstPhase(c) == IF c \in Kitchens THEN "cook" ELSE "assign"

Connected(c) == pod[c] \in {"running", "canceled"}

Event(m) == history[m[1]][m[2]]

\* Mutant of Routes: couriers bound to every answer about an order.
RoutesByWildcard(o, type) ==
  CASE type = "order.created"  -> {RestaurantOf[o]}
    [] type \in {"order.accepted", "order.picked_up"} -> {DispatchQueue}
    [] OTHER                   -> {}

\* RoutingKey and the bindings: the queue an event reaches, if any.
Routes(o, type) ==
  CASE type = "order.created"  -> {RestaurantOf[o]}
    [] type = "order.accepted" -> {DispatchQueue}
    [] OTHER                   -> {}

-----------------------------------------------------------------------------
Init ==
  /\ history = [o \in Orders |-> <<>>]
  /\ declared = {}
  /\ ready = [q \in Queues |-> {}]
  /\ acked = {} /\ dead = {} /\ unrouted = {}
  /\ requeued = [o \in Orders |-> 0]
  /\ pod = [c \in Consumers |-> "down"]
  /\ publisher = [c \in Consumers |-> "open"]
  /\ job = [c \in Consumers |-> NoMessage]
  /\ phase = [c \in Consumers |-> "idle"]
  /\ cites = [c \in Consumers |-> 0]
  /\ trail = [c \in Consumers |-> 0]
  /\ ticks = [c \in Consumers |-> 0]
  /\ handled = [k \in Kitchens |-> 0]
  /\ failed = {}
  /\ stops = 0 /\ faults = 0 /\ late = 0

\* The broker takes an event about order o.  Publishing is not mandatory: an
\* event whose queue nobody has declared yet is confirmed and dropped.
Emit(o, type, by, cause) ==
  LET m == <<o, Len(history[o]) + 1>> IN
  /\ history' = [history EXCEPT ![o] =
                   Append(@, [type |-> type, by |-> by, cause |-> cause])]
  /\ ready' = [q \in Queues |->
                 IF q \in Routes(o, type) \cap declared
                 THEN ready[q] \cup {m} ELSE ready[q]]
  /\ unrouted' = IF Routes(o, type) \subseteq declared
                 THEN unrouted ELSE unrouted \cup {m}
  /\ UNCHANGED <<declared, acked, dead, requeued>>

\* A customer-simulator tick, or POST /orders.
CreateOrder(o) ==
  /\ history[o] = <<>>
  /\ Emit(o, "order.created", "customer", 0)
  /\ UNCHANGED <<handlerVars, pod, failed, stops, faults, late>>

CountLate(c) ==
  IF pod[c] = "running" THEN UNCHANGED late
  ELSE late < MaxLate /\ late' = late + 1

(***************************************************************************)
(* The consume loop.                                                       *)
(***************************************************************************)
Take(c, m) ==
  /\ Connected(c)
  /\ phase[c] = "idle"
  /\ m \in ready[QueueOf(c)]
  /\ ready' = [ready EXCEPT ![QueueOf(c)] = @ \ {m}]
  /\ job' = [job EXCEPT ![c] = m]
  /\ phase' = [phase EXCEPT ![c] = FirstPhase(c)]
  /\ cites' = [cites EXCEPT ![c] = m[2]]
  /\ trail' = [trail EXCEPT ![c] = m[2]]
  /\ ticks' = [ticks EXCEPT ![c] = 0]
  /\ CountLate(c)
  /\ UNCHANGED <<history, declared, acked, dead, unrouted, requeued,
                 publisher, handled, pod, failed, stops, faults>>

\* Mutant of EndHandler: the delivery stays with the consumer.
EndHandlerKeepsJob(c) ==
  /\ phase' = [phase EXCEPT ![c] = "idle"]
  /\ cites' = [cites EXCEPT ![c] = 0]
  /\ trail' = [trail EXCEPT ![c] = 0]
  /\ ticks' = [ticks EXCEPT ![c] = 0]
  /\ UNCHANGED job

\* The handler's variables are gone.
EndHandler(c) ==
  /\ phase' = [phase EXCEPT ![c] = "idle"]
  /\ job' = [job EXCEPT ![c] = NoMessage]
  /\ cites' = [cites EXCEPT ![c] = 0]
  /\ trail' = [trail EXCEPT ![c] = 0]
  /\ ticks' = [ticks EXCEPT ![c] = 0]

Settle(c) ==
  /\ phase[c] \in Settling
  /\ EndHandler(c)
  /\ IF Connected(c)
     THEN /\ acked' = IF phase[c] = "ack" THEN acked \cup {job[c]} ELSE acked
          /\ dead' = IF phase[c] = "reject" THEN dead \cup {job[c]} ELSE dead
          /\ ready' = IF phase[c] = "requeue"
                      THEN [ready EXCEPT ![QueueOf(c)] = @ \cup {job[c]}]
                      ELSE ready
          /\ requeued' = IF phase[c] = "requeue"
                         THEN [requeued EXCEPT ![job[c][1]] = @ + 1]
                         ELSE requeued
     ELSE UNCHANGED <<acked, dead, ready, requeued>>
  /\ UNCHANGED <<history, declared, unrouted, publisher, handled,
                 pod, failed, stops, faults, late>>

(***************************************************************************)
(* Publisher.Publish inside a handler.                                     *)
(***************************************************************************)
EmitFrom(c, type) ==
  Emit(job[c][1], type, c,
       IF type = "courier.location.updated" THEN trail[c] ELSE cites[c])

\* Mutant of Confirmed: every event of the handler names its message as cause.
ConfirmedUncited(c, type, next) ==
  /\ publisher[c] = "open"
  /\ EmitFrom(c, type)
  /\ phase' = [phase EXCEPT ![c] = next]
  /\ UNCHANGED <<publisher, failed, faults, cites, trail>>

\* Confirmed: the handler goes on, and later events name this one.
Confirmed(c, type, next) ==
  /\ publisher[c] = "open"
  /\ EmitFrom(c, type)
  /\ phase' = [phase EXCEPT ![c] = next]
  /\ trail' = [trail EXCEPT ![c] = Len(history'[job[c][1]])]
  /\ cites' = IF type = "courier.location.updated" THEN cites
              ELSE [cites EXCEPT ![c] = Len(history'[job[c][1]])]
  /\ UNCHANGED <<publisher, failed, faults>>

\* Mutant of Broken: the failed publish is logged and the delivery acknowledged.
BrokenIgnored(c, type) ==
  /\ publisher[c] = "open" /\ faults < MaxFaults /\ faults' = faults + 1
  /\ publisher' = [publisher EXCEPT ![c] = "broken"]
  /\ phase' = [phase EXCEPT ![c] = "ack"]
  /\ UNCHANGED <<brokerVars, failed, cites, trail>>

\* The connection breaks around the publish: the broker may have the event.
\* Neither this publish nor any later one of the process succeeds.
Broken(c, type) ==
  /\ \/ publisher[c] = "open" /\ faults < MaxFaults /\ faults' = faults + 1
        /\ (EmitFrom(c, type) \/ UNCHANGED brokerVars)
     \/ publisher[c] = "broken" /\ UNCHANGED <<brokerVars, faults>>
  /\ publisher' = [publisher EXCEPT ![c] = "broken"]
  /\ phase' = [phase EXCEPT ![c] = "reject"]
  /\ failed' = failed \cup {job[c]}
  /\ UNCHANGED <<cites, trail>>

\* The broker answers with a nack, whatever it has done with the event; the
\* connection stays open.
Nacked(c, type) ==
  /\ publisher[c] = "open"
  /\ faults < MaxFaults /\ faults' = faults + 1
  /\ EmitFrom(c, type) \/ UNCHANGED brokerVars
  /\ phase' = [phase EXCEPT ![c] = "reject"]
  /\ failed' = failed \cup {job[c]}
  /\ UNCHANGED <<publisher, cites, trail>>

\* ctx is done while waiting for the confirmation of an event that is out.
Unwaited(c, type) ==
  /\ publisher[c] = "open"
  /\ pod[c] = "canceled"
  /\ EmitFrom(c, type)
  /\ phase' = [phase EXCEPT ![c] = "requeue"]
  /\ UNCHANGED <<publisher, failed, faults, cites, trail>>

Publish(c, type, next) ==
  /\ \/ Confirmed(c, type, next)
     \/ Broken(c, type)
     \/ Nacked(c, type)
     \/ Unwaited(c, type)
  /\ CountLate(c)
  /\ UNCHANGED <<job, pod, stops>>

\* Mutants of Interrupt: the cancellation dead-letters, or passes for success.
InterruptSettles(c, outcome) ==
  /\ phase[c] \in {"cook", "handover"} \cup Legs
  /\ pod[c] = "canceled"
  /\ phase' = [phase EXCEPT ![c] = outcome]
  /\ UNCHANGED <<brokerVars, publisher, job, cites, trail, ticks, handled,
                 pod, failed, stops, faults, late>>

InterruptRejects(c) == InterruptSettles(c, "reject")
InterruptAcks(c) == InterruptSettles(c, "ack")

\* ctx is done during waitFor or the cooking time: the error wraps
\* context.Canceled, so the delivery goes back.
Interrupt(c) ==
  /\ phase[c] \in {"cook", "handover"} \cup Legs
  /\ pod[c] = "canceled"
  /\ phase' = [phase EXCEPT ![c] = "requeue"]
  /\ UNCHANGED <<brokerVars, publisher, job, cites, trail, ticks, handled,
                 pod, failed, stops, faults, late>>

(***************************************************************************)
(* The handlers.                                                           *)
(***************************************************************************)

\* The body is not JSON, or not the payload the handler decodes first.  Any
\* delivery may be such, also one decoded before.
Undecodable(c) ==
  /\ phase[c] = FirstPhase(c)
  /\ faults < MaxFaults /\ faults' = faults + 1
  /\ phase' = [phase EXCEPT ![c] = "reject"]
  /\ failed' = failed \cup {job[c]}
  /\ UNCHANGED <<brokerVars, publisher, job, cites, trail, ticks, handled,
                 pod, stops, late>>

\* PROCESSING_MS passes; the kitchen counts the order.
Cook(k) ==
  /\ phase[k] = "cook"
  /\ handled' = [handled EXCEPT ![k] = (@ + 1) % RejectEvery]
  /\ phase' = [phase EXCEPT ![k] = "answer"]
  /\ UNCHANGED <<brokerVars, publisher, job, cites, trail, ticks,
                 pod, failed, stops, faults, late>>

Answer(k) ==
  /\ phase[k] = "answer"
  /\ Publish(k, IF handled[k] # 0 THEN "order.accepted" ELSE "order.rejected",
             "ack")
  /\ UNCHANGED <<ticks, handled>>

Assign(c) ==
  /\ phase[c] = "assign"
  /\ Publish(c, "courier.assigned", "to_restaurant")
  /\ UNCHANGED <<ticks, handled>>

\* One tick of travel: wait, move one tile, publish the position.
Tick(c) ==
  /\ phase[c] \in Legs
  /\ ticks[c] < MaxTicks
  /\ Publish(c, "courier.location.updated", phase[c])
  /\ ticks' = [ticks EXCEPT ![c] = @ + 1]
  /\ UNCHANGED handled

\* travel returns: at once when the courier is already there.
Arrive(c) ==
  /\ phase[c] \in Legs
  /\ phase' = [phase EXCEPT ![c] = IF @ = "to_restaurant" THEN "pick_up"
                                   ELSE "deliver"]
  /\ UNCHANGED <<brokerVars, publisher, job, cites, trail, ticks, handled,
                 pod, failed, stops, faults, late>>

PickUp(c) ==
  /\ phase[c] = "pick_up"
  /\ Publish(c, "order.picked_up", "handover")
  /\ UNCHANGED <<ticks, handled>>

\* PICKUP_DELAY_MS passes.
Leave(c) ==
  /\ phase[c] = "handover"
  /\ phase' = [phase EXCEPT ![c] = "to_customer"]
  /\ UNCHANGED <<brokerVars, publisher, job, cites, trail, ticks, handled,
                 pod, failed, stops, faults, late>>

\* Mutant of Deliver: the delivery is announced before the way to the customer.
DeliverEarly(c) ==
  /\ phase[c] = "deliver"
  /\ Publish(c, "order.delivered", "to_customer")
  /\ UNCHANGED <<ticks, handled>>

Deliver(c) ==
  /\ phase[c] = "deliver"
  /\ Publish(c, "order.delivered", "ack")
  /\ UNCHANGED <<ticks, handled>>

(***************************************************************************)
(* Processes.                                                              *)
(***************************************************************************)

\* A new process: publisher, registration, queue declaration and bindings.
Start(c) ==
  /\ pod[c] = "down"
  /\ pod' = [pod EXCEPT ![c] = "running"]
  /\ declared' = declared \cup {QueueOf(c)}
  /\ UNCHANGED <<history, ready, acked, dead, unrouted, requeued,
                 handlerVars, failed, stops, faults, late>>

\* Mutant of Redeliver: deliveries acknowledged as they are handed out.
RedeliverNothing(c) == UNCHANGED brokerVars

\* What the lost channel of c held goes back to its queue.
Redeliver(c) ==
  /\ IF phase[c] = "idle" THEN UNCHANGED <<ready, requeued>>
     ELSE /\ ready' = [ready EXCEPT ![QueueOf(c)] = @ \cup {job[c]}]
          /\ requeued' = [requeued EXCEPT ![job[c][1]] = @ + 1]
  /\ UNCHANGED <<history, declared, acked, dead, unrouted>>

Cancel(c) ==
  /\ pod[c] = "running"
  /\ stops < MaxStops /\ stops' = stops + 1
  /\ pod' = [pod EXCEPT ![c] = "canceled"]
  /\ UNCHANGED <<brokerVars, handlerVars, failed, faults, late>>

CloseChannel(c) ==
  /\ pod[c] = "canceled"
  /\ pod' = [pod EXCEPT ![c] = "closed"]
  /\ Redeliver(c)
  /\ UNCHANGED <<handlerVars, failed, stops, faults, late>>

\* The consumer connection breaks; the handler goes on publishing on the other
\* connection until main has returned.
LoseConnection(c) ==
  /\ pod[c] = "running"
  /\ stops < MaxStops /\ stops' = stops + 1
  /\ pod' = [pod EXCEPT ![c] = "closed"]
  /\ Redeliver(c)
  /\ UNCHANGED <<handlerVars, failed, faults, late>>

EndProcess(c) ==
  /\ pod' = [pod EXCEPT ![c] = "down"]
  /\ EndHandler(c)
  /\ publisher' = [publisher EXCEPT ![c] = "open"]
  /\ handled' = [k \in Kitchens |-> IF k = c THEN 0 ELSE handled[k]]
  /\ UNCHANGED <<failed, faults, late>>

Exit(c) ==
  /\ pod[c] = "closed"
  /\ EndProcess(c)
  /\ UNCHANGED <<brokerVars, stops>>

Kill(c) ==
  /\ Connected(c)
  /\ stops < MaxStops /\ stops' = stops + 1
  /\ EndProcess(c)
  /\ Redeliver(c)

-----------------------------------------------------------------------------
HandlerStep(c) ==
  \/ c \in Kitchens /\ (Cook(c) \/ Answer(c))
  \/ c \in Couriers /\ \/ Assign(c) \/ Tick(c) \/ Arrive(c)
                       \/ PickUp(c) \/ Leave(c) \/ Deliver(c)
  \/ Undecodable(c)
  \/ Settle(c)

PodStep(c) == CloseChannel(c) \/ Exit(c) \/ Start(c)

\* Every order is out, no message waits, no handler runs.
Rest ==
  /\ \A o \in Orders : history[o] # <<>>
  /\ \A q \in Queues : ready[q] = {}
  /\ \A c \in Consumers : phase[c] = "idle"
  /\ UNCHANGED vars

Takes == \E c \in Consumers : \E m \in ready[QueueOf(c)] : Take(c, m)

Next ==
  \/ \E o \in Orders : CreateOrder(o)
  \/ Takes
  \/ \E c \in Consumers : \/ HandlerStep(c) \/ PodStep(c)
                          \/ Interrupt(c) \/ Cancel(c) \/ LoseConnection(c) \/ Kill(c)
  \/ Rest

Spec == Init /\ [][Next]_vars

\* Consumers take what waits, handlers run on, leases end, pods are restarted.
Fairness ==
  /\ \A c \in Consumers : /\ WF_vars(\E m \in ready[QueueOf(c)] : Take(c, m))
                          /\ WF_vars(HandlerStep(c))
                          /\ WF_vars(PodStep(c))

FairSpec == Spec /\ Fairness

-----------------------------------------------------------------------------
IsMessage(m) == /\ m \in Orders \X Nat /\ m[2] \in 1..Len(history[m[1]])
                /\ Routes(m[1], Event(m).type) # {}

Records == [type : EventTypes, by : Consumers \cup {"customer"}, cause : Nat]

TypeOK ==
  /\ history \in [Orders -> Seq(Records)]
  /\ declared \subseteq Queues
  /\ ready \in [Queues -> SUBSET (Orders \X Nat)]
  /\ \A q \in Queues : \A m \in ready[q] : IsMessage(m)
  /\ \A m \in acked \cup dead \cup unrouted : IsMessage(m)
  /\ requeued \in [Orders -> Nat]
  /\ pod \in [Consumers -> PodStates]
  /\ publisher \in [Consumers -> {"open", "broken"}]
  /\ phase \in [Consumers -> Phases]
  /\ job \in [Consumers -> (Orders \X Nat) \cup {NoMessage}]
  /\ \A c \in Consumers : IF phase[c] = "idle" THEN job[c] = NoMessage
                           ELSE IsMessage(job[c])
  /\ cites \in [Consumers -> Nat] /\ trail \in [Consumers -> Nat]
  /\ ticks \in [Consumers -> 0..MaxTicks]
  /\ handled \in [Kitchens -> 0..(RejectEvery - 1)]
  /\ failed \subseteq Orders \X Nat
  /\ stops \in 0..MaxStops /\ faults \in 0..MaxFaults /\ late \in 0..MaxLate

\* The messages a live channel holds.
Held == {job[c] : c \in {d \in Consumers : Connected(d) /\ phase[d] # "idle"}}
Waiting == UNION {ready[q] : q \in Queues}

\* No created or accepted order is forgotten or worked on twice at a time: its
\* message waits, is held by exactly one live consumer, is acknowledged, is in
\* the dead-letter queue, or was published before its queue existed; and it is
\* in one of these places only.
MessageAccounted ==
  \A o \in Orders : \A i \in 1..Len(history[o]) :
    LET m == <<o, i>>
        places == <<m \in Waiting, m \in Held, m \in acked, m \in dead, m \in unrouted>>
    IN  /\ IsMessage(m) => \E k \in 1..5 : places[k]
        /\ \A k, l \in 1..5 : places[k] /\ places[l] => k = l
        /\ \A c, d \in Consumers :
             /\ Connected(c) /\ Connected(d)
             /\ job[c] = m /\ job[d] = m
             => c = d

Causes(o, i) == {j \in 1..Len(history[o]) : history[o][j].cause = i}

\* An acknowledgement is never early: behind an acknowledged order.created
\* there is the kitchen's answer, behind an acknowledged order.accepted an
\* unbroken chain assigned, picked up, delivered by one courier.
AckMeansDone ==
  \A m \in acked :
    LET o == m[1] h == history[o] IN
    IF Event(m).type = "order.created"
    THEN \E j \in Causes(o, m[2]) : h[j].type \in {"order.accepted", "order.rejected"}
    ELSE \E a \in Causes(o, m[2]) : h[a].type = "courier.assigned" /\
           \E p \in Causes(o, a) : h[p].type = "order.picked_up" /\
             \E d \in Causes(o, p) : h[d].type = "order.delivered" /\ h[d].by = h[a].by

\* The causation ids form the script of the services: whatever is repeated or
\* interrupted, an event names an earlier event of the same order that can
\* cause it, and events of one courier's trip name that courier's events.
CausalScript ==
  \A o \in Orders : \A i \in 1..Len(history[o]) :
    LET e == history[o][i]
        c == history[o][e.cause]
        own == c.by = e.by
    IN  IF e.type = "order.created" THEN e.cause = 0
        ELSE /\ e.cause \in 1..(i - 1)
             /\ CASE e.type \in {"order.accepted", "order.rejected"} -> c.type = "order.created"
                  [] e.type = "courier.assigned" -> c.type = "order.accepted"
                  [] e.type = "order.picked_up" -> c.type = "courier.assigned" /\ own
                  [] e.type = "order.delivered" -> c.type = "order.picked_up" /\ own
                  [] e.type = "courier.location.updated" ->
                       own /\ c.type \in {"courier.assigned", "order.picked_up",
                                         "courier.location.updated"}

Count(o, types) == Cardinality({i \in 1..Len(history[o]) : history[o][i].type \in types})

\* Repeats come from requeued messages only, one repeat each: an order has at
\* most one more answer, assignment or delivery than its messages were requeued.
RepeatsAreRequeues ==
  \A o \in Orders :
    \A types \in {{"order.accepted", "order.rejected"}, {"courier.assigned"},
                  {"order.picked_up"}, {"order.delivered"}} :
      Count(o, types) <= 1 + requeued[o]

\* Without a requeue the last event of an order is its end: nothing, no late
\* location update either, follows a delivery or a rejection.
EndIsLast ==
  \A o \in Orders : \A i \in 1..Len(history[o]) :
    requeued[o] = 0 /\ history[o][i].type \in {"order.rejected", "order.delivered"}
    => i = Len(history[o])

\* A stop is no failure: what SIGTERM, a kill or a lost consumer connection
\* interrupts goes back to its queue, and a message in the dead-letter queue is
\* one that could not be decoded or about which a publish failed.
OnlyFailuresDeadLetter == dead \subseteq failed

\* Every order ends: delivered, rejected, or visibly stuck in the dead-letter
\* queue, unless its event was dropped for want of a queue.
EveryOrderEnds ==
  \A o \in Orders :
    history[o] # <<>> ~>
      \/ Count(o, {"order.rejected", "order.delivered"}) > 0
      \/ \E m \in dead \cup unrouted : m[1] = o
=============================================================================
