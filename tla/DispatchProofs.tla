--------------------------- MODULE DispatchProofs ---------------------------
(***************************************************************************)
(* Theorems of Dispatch for any orders, restaurants, kitchens, couriers    *)
(* and bounds.                                                             *)
(*                                                                         *)
(* A step either puts one event at the end of one history (Emission,       *)
(* Publishes), or leaves the histories alone (Silent).  MessageInv says    *)
(* where each message is; EarnedInv, what a handler has in hand in each    *)
(* phase; Tokens, how many can be on their way to a milestone of an order. *)
(***************************************************************************)
EXTENDS Dispatch, FiniteSetTheorems, TLAPS

-----------------------------------------------------------------------------
(***************************************************************************)
(* Queues and histories.                                                   *)
(***************************************************************************)

LEMMA QueuesOfConsumers == \A c \in Consumers : QueueOf(c) \in Queues
  BY DispatchAssumption DEF QueueOf, Queues, Consumers

LEMMA RoutesOf ==
  \A o \in Orders, type \in EventTypes :
    /\ type = "order.created" => Routes(o, type) = {RestaurantOf[o]}
    /\ type = "order.accepted" => Routes(o, type) = {DispatchQueue}
    /\ type \notin {"order.created", "order.accepted"} => Routes(o, type) = {}
    /\ Routes(o, type) \subseteq Queues
  BY DispatchAssumption DEF Routes, EventTypes, Queues

\* What a history holds stays where it is.
Grown ==
  \A o \in Orders :
    /\ Len(history[o]) <= Len(history'[o])
    /\ \A i \in 1..Len(history[o]) : history'[o][i] = history[o][i]

\* The effect of Emit on the histories.
Extends(o, e) ==
  /\ history' \in [Orders -> Seq(Records)]
  /\ history'[o] = Append(history[o], e)
  /\ Len(history'[o]) = Len(history[o]) + 1
  /\ history'[o][Len(history[o]) + 1] = e
  /\ \A p \in Orders \ {o} : history'[p] = history[p]
  /\ Grown

LEMMA EmitExtends ==
  ASSUME TypeOK, NEW o \in Orders, NEW type \in EventTypes,
         NEW by \in Consumers \cup {"customer"}, NEW cause \in Nat,
         Emit(o, type, by, cause)
  PROVE  Extends(o, [type |-> type, by |-> by, cause |-> cause])
<1> DEFINE e == [type |-> type, by |-> by, cause |-> cause]
<1>1. e \in Records
  BY DEF Records
<1>2. history \in [Orders -> Seq(Records)]
  BY DEF TypeOK
<1>3. history' = [history EXCEPT ![o] = Append(@, e)]
  BY DEF Emit
<1> HIDE DEF e
<1>4. /\ Append(history[o], e) \in Seq(Records)
      /\ Len(Append(history[o], e)) = Len(history[o]) + 1
      /\ Append(history[o], e)[Len(history[o]) + 1] = e
      /\ \A i \in 1..Len(history[o]) : Append(history[o], e)[i] = history[o][i]
      /\ Len(history[o]) \in Nat
  BY <1>1, <1>2
<1>5. history'[o] = Append(history[o], e) /\ \A p \in Orders \ {o} : history'[p] = history[p]
  BY <1>2, <1>3
<1>6. history' \in [Orders -> Seq(Records)]
  BY <1>2, <1>3, <1>4
<1>7. Grown
  <2> SUFFICES ASSUME NEW p \in Orders
               PROVE  /\ Len(history[p]) <= Len(history'[p])
                      /\ \A i \in 1..Len(history[p]) : history'[p][i] = history[p][i]
    BY DEF Grown
  <2>1. Len(history[p]) \in Nat
    BY <1>2
  <2>2. CASE p = o
    BY <1>4, <1>5, <2>2
  <2>3. CASE p # o
    BY <1>5, <2>1, <2>3
  <2> QED BY <2>2, <2>3
<1> QED BY <1>4, <1>5, <1>6, <1>7 DEF Extends, e

LEMMA NothingNew == TypeOK /\ UNCHANGED history => Grown
<1> SUFFICES ASSUME TypeOK, UNCHANGED history, NEW o \in Orders
             PROVE  Len(history[o]) <= Len(history'[o])
  BY DEF Grown
<1>1. Len(history[o]) \in Nat
  BY DEF TypeOK
<1> QED BY <1>1

\* A message remains the message of its event.
LEMMA MessagesStay ==
  ASSUME TypeOK, Grown, history' \in [Orders -> Seq(Records)], NEW m, IsMessage(m)
  PROVE  /\ IsMessage(m)' /\ Event(m)' = Event(m)
         /\ m[1] \in Orders /\ m[2] \in 1..Len(history[m[1]]) /\ m = <<m[1], m[2]>>
         /\ Event(m).type \in EventTypes
<1>1. /\ m[1] \in Orders /\ m[2] \in Nat /\ m = <<m[1], m[2]>>
      /\ m[2] \in 1..Len(history[m[1]])
  BY DEF IsMessage
<1>2. /\ history[m[1]] \in Seq(Records)
      /\ Len(history[m[1]]) \in Nat /\ Len(history'[m[1]]) \in Nat
  BY <1>1 DEF TypeOK
<1>3. history'[m[1]][m[2]] = history[m[1]][m[2]] /\ m[2] \in 1..Len(history'[m[1]])
  BY <1>1, <1>2 DEF Grown
<1>4. history[m[1]][m[2]] \in Records
  BY <1>1, <1>2
<1> QED BY <1>1, <1>3, <1>4 DEF IsMessage, Event, Records

\* The message of an event that is emitted.
LEMMA EmitMessage ==
  ASSUME TypeOK, NEW o \in Orders, NEW type \in EventTypes,
         NEW by \in Consumers \cup {"customer"}, NEW cause \in Nat,
         Emit(o, type, by, cause), NEW m, m = <<o, Len(history[o]) + 1>>
  PROVE  /\ m \in Orders \X Nat /\ ~IsMessage(m)
         /\ Event(m)' = [type |-> type, by |-> by, cause |-> cause]
         /\ IsMessage(m)' <=> Routes(o, type) # {}
         /\ ready' = [q \in Queues |-> IF q \in Routes(o, type) \cap declared
                                       THEN ready[q] \cup {m} ELSE ready[q]]
         /\ unrouted' = IF Routes(o, type) \subseteq declared
                        THEN unrouted ELSE unrouted \cup {m}
<1>1. Extends(o, [type |-> type, by |-> by, cause |-> cause])
  BY EmitExtends
<1>2. Len(history[o]) \in Nat
  BY DEF TypeOK
<1>3. m[1] = o /\ m[2] = Len(history[o]) + 1 /\ m \in Orders \X Nat
  BY <1>2
<1>4. ~IsMessage(m)
  BY <1>2, <1>3 DEF IsMessage
<1>5. Event(m)' = [type |-> type, by |-> by, cause |-> cause]
  BY <1>1, <1>3 DEF Event, Extends
<1>6. m[2] \in 1..Len(history'[m[1]])
  BY <1>1, <1>2, <1>3 DEF Extends
<1>7. IsMessage(m)' <=> Routes(o, type) # {}
  BY <1>3, <1>5, <1>6 DEF IsMessage
<1>8. /\ ready' = [q \in Queues |-> IF q \in Routes(o, type) \cap declared
                                    THEN ready[q] \cup {m} ELSE ready[q]]
      /\ unrouted' = IF Routes(o, type) \subseteq declared
                     THEN unrouted ELSE unrouted \cup {m}
  BY DEF Emit
<1> QED BY <1>3, <1>4, <1>5, <1>7, <1>8

-----------------------------------------------------------------------------
(***************************************************************************)
(* Steps.  Handlers publish, or move on; the rest is the consume loop and  *)
(* the life of the process.                                                *)
(***************************************************************************)

\* What a handler publishes in a phase, and the phase that follows.
Scripts ==
  {<<"answer", "order.accepted", "ack">>, <<"answer", "order.rejected", "ack">>,
   <<"assign", "courier.assigned", "to_restaurant">>,
   <<"to_restaurant", "courier.location.updated", "to_restaurant">>,
   <<"pick_up", "order.picked_up", "handover">>,
   <<"to_customer", "courier.location.updated", "to_customer">>,
   <<"deliver", "order.delivered", "ack">>}

Publishes(c) ==
  \E s \in Scripts : phase[c] = s[1] /\ Publish(c, s[2], s[3])

Moves ==
  {<<"cook", "answer">>, <<"to_restaurant", "pick_up">>,
   <<"handover", "to_customer">>, <<"to_customer", "deliver">>}
    \cup ({"cook", "handover"} \cup Legs) \X {"requeue"}
    \cup {"cook", "assign"} \X {"reject"}

MovesOn(c) ==
  /\ \E s \in Moves :
       /\ phase[c] = s[1] /\ phase' = [phase EXCEPT ![c] = s[2]]
       /\ failed' = IF s[2] = "reject" THEN failed \cup {job[c]} ELSE failed
  /\ UNCHANGED <<brokerVars, publisher, job, cites, trail, pod, stops, late>>

ConsumerStep(c) ==
  \/ \E m \in ready[QueueOf(c)] : Take(c, m)
  \/ Publishes(c) \/ MovesOn(c) \/ Settle(c)
  \/ CloseChannel(c) \/ Exit(c) \/ Start(c)
  \/ Cancel(c) \/ LoseConnection(c) \/ Kill(c)

LEMMA Publishing ==
  ASSUME TypeOK, NEW c \in Consumers
  PROVE  /\ Answer(c) => Publishes(c) /\ phase[c] = "answer"
         /\ Assign(c) \/ Tick(c) \/ PickUp(c) \/ Deliver(c) => Publishes(c)
<1>1. \A s \in Scripts : phase[c] = s[1] /\ Publish(c, s[2], s[3]) => Publishes(c)
  BY DEF Publishes
<1>2. ASSUME Answer(c) PROVE Publishes(c) /\ phase[c] = "answer"
  <2>1. CASE handled[c] # 0
    <3> <<"answer", "order.accepted", "ack">> \in Scripts
      BY DEF Scripts
    <3> QED BY <1>1, <1>2, <2>1 DEF Answer
  <2>2. CASE handled[c] = 0
    <3> <<"answer", "order.rejected", "ack">> \in Scripts
      BY DEF Scripts
    <3> QED BY <1>1, <1>2, <2>2 DEF Answer
  <2> QED BY <2>1, <2>2
<1>3. ASSUME Assign(c) PROVE Publishes(c)
  <2> <<"assign", "courier.assigned", "to_restaurant">> \in Scripts
    BY DEF Scripts
  <2> QED BY <1>1, <1>3 DEF Assign
<1>4. ASSUME Tick(c) PROVE Publishes(c)
  <2>1. CASE phase[c] = "to_restaurant"
    <3> <<"to_restaurant", "courier.location.updated", "to_restaurant">> \in Scripts
      BY DEF Scripts
    <3> QED BY <1>1, <1>4, <2>1 DEF Tick
  <2>2. CASE phase[c] = "to_customer"
    <3> <<"to_customer", "courier.location.updated", "to_customer">> \in Scripts
      BY DEF Scripts
    <3> QED BY <1>1, <1>4, <2>2 DEF Tick
  <2> QED BY <1>4, <2>1, <2>2 DEF Tick, Legs
<1>5. ASSUME PickUp(c) PROVE Publishes(c)
  <2> <<"pick_up", "order.picked_up", "handover">> \in Scripts
    BY DEF Scripts
  <2> QED BY <1>1, <1>5 DEF PickUp
<1>6. ASSUME Deliver(c) PROVE Publishes(c)
  <2> <<"deliver", "order.delivered", "ack">> \in Scripts
    BY DEF Scripts
  <2> QED BY <1>1, <1>6 DEF Deliver
<1> QED BY <1>2, <1>3, <1>4, <1>5, <1>6

LEMMA MovingOn ==
  ASSUME TypeOK, NEW c \in Consumers,
         Cook(c) \/ Arrive(c) \/ Leave(c) \/ Interrupt(c) \/ Undecodable(c)
  PROVE  MovesOn(c)
<1>1. UNCHANGED <<brokerVars, publisher, job, cites, trail, pod, stops, late>>
  BY DEF Cook, Arrive, Leave, Interrupt, Undecodable
<1>2. phase \in [Consumers -> Phases]
  BY DEF TypeOK
<1>3. \A s \in Moves :
        /\ phase[c] = s[1] /\ phase' = [phase EXCEPT ![c] = s[2]]
        /\ failed' = IF s[2] = "reject" THEN failed \cup {job[c]} ELSE failed
        => MovesOn(c)
  BY <1>1 DEF MovesOn
<1>4. CASE Cook(c)
  <2> <<"cook", "answer">> \in Moves
    BY DEF Moves
  <2> QED BY <1>3, <1>4 DEF Cook
<1>5. CASE Arrive(c)
  <2> <<"to_restaurant", "pick_up">> \in Moves /\ <<"to_customer", "deliver">> \in Moves
    BY DEF Moves
  <2>1. CASE phase[c] = "to_restaurant"
    BY <1>2, <1>3, <1>5, <2>1 DEF Arrive
  <2>2. CASE phase[c] = "to_customer"
    BY <1>2, <1>3, <1>5, <2>2 DEF Arrive
  <2> QED BY <1>5, <2>1, <2>2 DEF Arrive, Legs
<1>6. CASE Leave(c)
  <2> <<"handover", "to_customer">> \in Moves
    BY DEF Moves
  <2> QED BY <1>3, <1>6 DEF Leave
<1>7. CASE Interrupt(c)
  <2> <<phase[c], "requeue">> \in Moves
    BY <1>7 DEF Moves, Interrupt
  <2> QED BY <1>3, <1>7 DEF Interrupt
<1>8. CASE Undecodable(c)
  <2> <<phase[c], "reject">> \in Moves
    BY <1>8 DEF Moves, Undecodable, FirstPhase
  <2> QED BY <1>3, <1>8 DEF Undecodable
<1> QED BY <1>4, <1>5, <1>6, <1>7, <1>8

LEMMA Steps ==
  ASSUME TypeOK, [Next]_vars
  PROVE  \/ \E o \in Orders : CreateOrder(o)
         \/ \E c \in Consumers : ConsumerStep(c)
         \/ UNCHANGED vars
<1>1. ASSUME NEW c \in Consumers, HandlerStep(c) PROVE ConsumerStep(c)
  BY <1>1, Publishing, MovingOn DEF HandlerStep, ConsumerStep
<1>2. ASSUME NEW c \in Consumers, Interrupt(c) PROVE ConsumerStep(c)
  BY <1>2, MovingOn DEF ConsumerStep
<1>3. CASE Rest
  BY <1>3 DEF Rest
<1> QED BY <1>1, <1>2, <1>3 DEF Next, Takes, PodStep, ConsumerStep

\* A handler publishes about the order of its delivery, or fails before.
LEMMA PublishEffect ==
  ASSUME TypeOK, NEW c \in Consumers, NEW s \in Scripts,
         phase[c] = s[1], Publish(c, s[2], s[3])
  PROVE  /\ s[2] \in EventTypes /\ IsMessage(job[c]) /\ job[c][1] \in Orders
         /\ cites[c] \in Nat /\ trail[c] \in Nat
         /\ UNCHANGED <<declared, acked, dead, requeued, job, pod, stops>>
         /\ \/ /\ EmitFrom(c, s[2])
               /\ \E p \in {s[3], "reject", "requeue"} : phase' = [phase EXCEPT ![c] = p]
            \/ UNCHANGED brokerVars /\ phase' = [phase EXCEPT ![c] = "reject"]
<1>1. s[2] \in EventTypes /\ s[1] # "idle"
  BY DEF Scripts, EventTypes
<1>2. IsMessage(job[c]) /\ cites[c] \in Nat /\ trail[c] \in Nat
  BY <1>1 DEF TypeOK
<1>3. job[c][1] \in Orders
  BY <1>2 DEF IsMessage
<1>4. EmitFrom(c, s[2]) => UNCHANGED <<declared, acked, dead, requeued>>
  BY DEF EmitFrom, Emit
<1>5. UNCHANGED <<job, pod, stops>>
  BY DEF Publish
<1>6. CASE Confirmed(c, s[2], s[3])
  BY <1>1, <1>2, <1>3, <1>4, <1>5, <1>6 DEF Confirmed
<1>7. CASE Broken(c, s[2])
  BY <1>1, <1>2, <1>3, <1>4, <1>5, <1>7 DEF Broken, brokerVars
<1>8. CASE Nacked(c, s[2])
  BY <1>1, <1>2, <1>3, <1>4, <1>5, <1>8 DEF Nacked, brokerVars
<1>9. CASE Unwaited(c, s[2])
  BY <1>1, <1>2, <1>3, <1>4, <1>5, <1>9 DEF Unwaited
<1> QED BY <1>6, <1>7, <1>8, <1>9 DEF Publish

\* EmitFrom as an Emit.
LEMMA EmitFromEmits ==
  ASSUME TypeOK, NEW c \in Consumers, NEW type \in EventTypes, EmitFrom(c, type)
  PROVE  \E cause \in Nat :
           /\ cause = IF type = "courier.location.updated" THEN trail[c] ELSE cites[c]
           /\ Emit(job[c][1], type, c, cause)
  BY DEF EmitFrom, TypeOK

-----------------------------------------------------------------------------
(***************************************************************************)
(* Types.                                                                  *)
(***************************************************************************)

\* The parts of TypeOK that speak of messages.
Messages ==
  /\ \A q \in Queues : \A m \in ready[q] : IsMessage(m)
  /\ \A m \in acked \cup dead \cup unrouted : IsMessage(m)
  /\ \A c \in Consumers : IF phase[c] = "idle" THEN job[c] = NoMessage
                           ELSE IsMessage(job[c])

BrokerTyped ==
  /\ history \in [Orders -> Seq(Records)]
  /\ declared \subseteq Queues
  /\ ready \in [Queues -> SUBSET (Orders \X Nat)]
  /\ requeued \in [Orders -> Nat]

HandlersTyped ==
  /\ pod \in [Consumers -> PodStates]
  /\ publisher \in [Consumers -> {"open", "broken"}]
  /\ phase \in [Consumers -> Phases]
  /\ job \in [Consumers -> (Orders \X Nat) \cup {NoMessage}]
  /\ cites \in [Consumers -> Nat] /\ trail \in [Consumers -> Nat]

CountersTyped ==
  /\ ticks \in [Consumers -> 0..MaxTicks]
  /\ handled \in [Kitchens -> 0..(RejectEvery - 1)]
  /\ failed \subseteq Orders \X Nat
  /\ stops \in 0..MaxStops /\ faults \in 0..MaxFaults /\ late \in 0..MaxLate

LEMMA TypeParts == TypeOK <=> Messages /\ BrokerTyped /\ HandlersTyped /\ CountersTyped
  BY DEF TypeOK, Messages, BrokerTyped, HandlersTyped, CountersTyped

\* The job of a busy consumer is a message.
LEMMA JobIsMessage ==
  ASSUME TypeOK, NEW c \in Consumers, phase[c] # "idle"
  PROVE  /\ IsMessage(job[c]) /\ job[c] \in Orders \X Nat /\ job[c] # NoMessage
         /\ job[c][1] \in Orders /\ job[c][2] \in 1..Len(history[job[c][1]])
  BY DispatchAssumption DEF TypeOK, IsMessage

LEMMA CountersStep == TypeOK /\ [Next]_vars => CountersTyped'
<1> SUFFICES ASSUME TypeOK, [Next]_vars PROVE CountersTyped'
  OBVIOUS
<1>1. /\ RejectEvery \in Nat \ {0} /\ MaxTicks \in Nat
      /\ MaxStops \in Nat /\ MaxFaults \in Nat /\ MaxLate \in Nat
  BY DispatchAssumption
<1>2. CountersTyped
  BY TypeParts
<1> USE DEF CountersTyped
<1>3. ASSUME NEW c \in Consumers, CountLate(c) PROVE late' \in 0..MaxLate
  BY <1>1, <1>2, <1>3 DEF CountLate
<1>4. ASSUME NEW c \in Consumers, phase[c] # "idle", NEW type, NEW next, Publish(c, type, next)
      PROVE  /\ stops' \in 0..MaxStops /\ faults' \in 0..MaxFaults /\ late' \in 0..MaxLate
             /\ failed' \subseteq Orders \X Nat
  <2>1. late' \in 0..MaxLate
    BY <1>3, <1>4 DEF Publish
  <2>2. faults' \in 0..MaxFaults
    BY <1>1, <1>2, <1>4 DEF Publish, Confirmed, Broken, Nacked, Unwaited
  <2>3. job[c] \in Orders \X Nat
    BY <1>4, JobIsMessage
  <2>4. failed' \subseteq Orders \X Nat
    BY <1>2, <1>4, <2>3 DEF Publish, Confirmed, Broken, Nacked, Unwaited
  <2> QED BY <1>2, <1>4, <2>1, <2>2, <2>4 DEF Publish
<1>5. ASSUME NEW c \in Consumers, EndHandler(c) PROVE ticks' \in [Consumers -> 0..MaxTicks]
  BY <1>1, <1>2, <1>5 DEF EndHandler
<1>6. ASSUME NEW o \in Orders, CreateOrder(o) PROVE CountersTyped'
  BY <1>2, <1>6 DEF CreateOrder, handlerVars
<1>7. ASSUME NEW c \in Consumers, NEW m, Take(c, m) PROVE CountersTyped'
  <2>1. late' \in 0..MaxLate
    BY <1>3, <1>7 DEF Take
  <2> QED BY <1>1, <1>2, <1>7, <2>1 DEF Take
<1>8. ASSUME NEW c \in Kitchens, Cook(c) PROVE CountersTyped'
  <2>1. handled' \in [Kitchens -> 0..(RejectEvery - 1)]
    <3>1. (handled[c] + 1) % RejectEvery \in 0..(RejectEvery - 1)
      BY <1>1, <1>2
    <3> QED BY <1>2, <1>8, <3>1 DEF Cook
  <2> QED BY <1>2, <1>8, <2>1 DEF Cook
<1>9. ASSUME NEW c \in Consumers, Answer(c) \/ Assign(c) \/ PickUp(c) \/ Deliver(c)
      PROVE  CountersTyped'
  <2>1. UNCHANGED <<ticks, handled>>
    BY <1>9 DEF Answer, Assign, PickUp, Deliver
  <2>2. /\ stops' \in 0..MaxStops /\ faults' \in 0..MaxFaults /\ late' \in 0..MaxLate
        /\ failed' \subseteq Orders \X Nat
    BY <1>4, <1>9 DEF Answer, Assign, PickUp, Deliver
  <2> QED BY <1>2, <2>1, <2>2
<1>10. ASSUME NEW c \in Consumers, Tick(c) PROVE CountersTyped'
  <2>1. ticks' \in [Consumers -> 0..MaxTicks]
    BY <1>1, <1>2, <1>10 DEF Tick
  <2>2. /\ stops' \in 0..MaxStops /\ faults' \in 0..MaxFaults /\ late' \in 0..MaxLate
        /\ failed' \subseteq Orders \X Nat
    BY <1>4, <1>10 DEF Tick, Legs
  <2> QED BY <1>2, <1>10, <2>1, <2>2 DEF Tick
<1>11. ASSUME NEW c \in Consumers, Arrive(c) \/ Interrupt(c) PROVE CountersTyped'
  BY <1>2, <1>11 DEF Arrive, Interrupt
<1>12. ASSUME NEW c \in Consumers, Leave(c) PROVE CountersTyped'
  BY <1>1, <1>2, <1>12 DEF Leave
<1>13. ASSUME NEW c \in Consumers, Settle(c) PROVE CountersTyped'
  BY <1>2, <1>5, <1>13 DEF Settle
<1>14. ASSUME NEW c \in Consumers, CloseChannel(c) \/ Start(c) PROVE CountersTyped'
  BY <1>2, <1>14 DEF CloseChannel, Start, handlerVars
<1>15. ASSUME NEW c \in Consumers, Cancel(c) \/ LoseConnection(c) PROVE CountersTyped'
  BY <1>1, <1>2, <1>15 DEF Cancel, LoseConnection, handlerVars
<1>16. ASSUME NEW c \in Consumers, Exit(c) \/ Kill(c) PROVE CountersTyped'
  <2>1. EndProcess(c)
    BY <1>16 DEF Exit, Kill
  <2>2. handled' \in [Kitchens -> 0..(RejectEvery - 1)]
    BY <1>1, <1>2, <2>1 DEF EndProcess
  <2>3. stops' \in 0..MaxStops
    BY <1>1, <1>2, <1>16 DEF Exit, Kill
  <2> QED BY <1>2, <1>5, <2>1, <2>2, <2>3 DEF EndProcess
<1>17. CASE UNCHANGED vars
  BY <1>2, <1>17 DEF vars, handlerVars
<1>18. ASSUME NEW c \in Consumers, Undecodable(c) PROVE CountersTyped'
  <2>1. job[c] \in Orders \X Nat
    BY <1>18, JobIsMessage DEF Undecodable, FirstPhase
  <2> QED BY <1>1, <1>2, <1>18, <2>1 DEF Undecodable
<1>19. ASSUME NEW c \in Consumers, HandlerStep(c) \/ PodStep(c) PROVE CountersTyped'
  BY <1>8, <1>9, <1>10, <1>11, <1>12, <1>13, <1>14, <1>16, <1>18, <1>19
     DEF HandlerStep, PodStep
<1> QED BY <1>6, <1>7, <1>11, <1>15, <1>16, <1>17, <1>19 DEF Next, Takes, Rest

\* Whatever does not publish leaves the histories alone.
Silent(c) ==
  \/ \E m \in ready[QueueOf(c)] : Take(c, m)
  \/ MovesOn(c) \/ Settle(c)
  \/ CloseChannel(c) \/ Exit(c) \/ Start(c)
  \/ Cancel(c) \/ LoseConnection(c) \/ Kill(c)

LEMMA SilentHistory ==
  ASSUME NEW c \in Consumers, Silent(c)
  PROVE  /\ UNCHANGED <<history, unrouted>>
         /\ \A m : IsMessage(m)' <=> IsMessage(m)
<1>1. UNCHANGED <<history, unrouted>>
  BY DEF Silent, Take, MovesOn, brokerVars, Settle, CloseChannel, Exit, Start, Cancel,
         LoseConnection, Kill, Redeliver
<1> QED BY <1>1 DEF IsMessage, Event

LEMMA SilentBroker ==
  ASSUME TypeOK, NEW c \in Consumers, Silent(c)
  PROVE  BrokerTyped'
<1> USE DEF BrokerTyped
<1>1. BrokerTyped /\ QueueOf(c) \in Queues
  BY TypeParts, QueuesOfConsumers
<1>2. UNCHANGED history
  BY SilentHistory
<1>3. CASE \E m \in ready[QueueOf(c)] : Take(c, m)
  BY <1>1, <1>3 DEF Take
<1>4. CASE MovesOn(c) \/ Exit(c) \/ Cancel(c)
  BY <1>1, <1>4 DEF MovesOn, Exit, Cancel, brokerVars
<1>5. CASE Settle(c)
  <2>1. job[c] \in Orders \X Nat /\ job[c][1] \in Orders
    BY <1>5, JobIsMessage DEF Settle, Settling
  <2>2. UNCHANGED declared
    BY <1>5 DEF Settle
  <2>3. ready' \in [Queues -> SUBSET (Orders \X Nat)]
    BY <1>1, <1>5, <2>1 DEF Settle
  <2>4. requeued' \in [Orders -> Nat]
    <3>1. \/ UNCHANGED requeued
          \/ requeued' = [requeued EXCEPT ![job[c][1]] = @ + 1]
      BY <1>5 DEF Settle
    <3> QED BY <1>1, <2>1, <3>1
  <2> QED BY <1>1, <1>2, <2>2, <2>3, <2>4
<1>6. CASE Start(c)
  BY <1>1, <1>6 DEF Start
<1>7. CASE CloseChannel(c) \/ LoseConnection(c) \/ Kill(c)
  <2>1. Redeliver(c)
    BY <1>7 DEF CloseChannel, LoseConnection, Kill
  <2>2. phase[c] # "idle" => job[c] \in Orders \X Nat /\ job[c][1] \in Orders
    BY JobIsMessage
  <2>3. ready' \in [Queues -> SUBSET (Orders \X Nat)]
    BY <1>1, <2>1, <2>2 DEF Redeliver
  <2>4. requeued' \in [Orders -> Nat]
    BY <1>1, <2>1, <2>2 DEF Redeliver
  <2> QED BY <1>1, <1>2, <2>1, <2>3, <2>4 DEF Redeliver
<1> QED BY <1>3, <1>4, <1>5, <1>6, <1>7 DEF Silent

LEMMA Starts == \A c \in Consumers : FirstPhase(c) \in Phases \ {"idle"}
  BY DEF FirstPhase, Phases

LEMMA SilentHandlers ==
  ASSUME TypeOK, NEW c \in Consumers, Silent(c)
  PROVE  HandlersTyped'
<1> USE DEF HandlersTyped
<1>1. HandlersTyped /\ QueueOf(c) \in Queues
  BY TypeParts, QueuesOfConsumers
<1>2. ASSUME EndHandler(c)
      PROVE  /\ phase' \in [Consumers -> Phases] /\ cites' \in [Consumers -> Nat]
             /\ job' \in [Consumers -> (Orders \X Nat) \cup {NoMessage}]
             /\ trail' \in [Consumers -> Nat]
  BY <1>1, <1>2 DEF EndHandler, Phases
<1>3. CASE \E m \in ready[QueueOf(c)] : Take(c, m)
  <2> PICK m \in ready[QueueOf(c)] : Take(c, m)
    BY <1>3
  <2>1. m \in Orders \X Nat
    BY <1>1 DEF TypeOK
  <2> QED BY <1>1, <2>1, Starts DEF Take
<1>4. CASE MovesOn(c)
  <2>1. \A s \in Moves : s[2] \in Phases
    BY DEF Moves, Phases, Legs, Settling
  <2> QED BY <1>1, <1>4, <2>1 DEF MovesOn
<1>5. CASE Settle(c)
  BY <1>1, <1>2, <1>5 DEF Settle
<1>6. CASE Start(c) \/ CloseChannel(c) \/ Cancel(c) \/ LoseConnection(c)
  BY <1>1, <1>6 DEF Start, CloseChannel, Cancel, LoseConnection, PodStates, handlerVars
<1>7. CASE Exit(c) \/ Kill(c)
  BY <1>1, <1>2, <1>7 DEF Exit, Kill, EndProcess, PodStates
<1> QED BY <1>3, <1>4, <1>5, <1>6, <1>7 DEF Silent

LEMMA SilentMessages ==
  ASSUME TypeOK, NEW c \in Consumers, Silent(c)
  PROVE  Messages'
<1>1. Messages /\ HandlersTyped /\ BrokerTyped /\ QueueOf(c) \in Queues
  BY TypeParts, QueuesOfConsumers
<1>2. /\ UNCHANGED <<history, unrouted>>
      /\ \A m : IsMessage(m)' <=> IsMessage(m)
  BY SilentHistory
<1> USE DEF Messages
<1> SUFFICES /\ \A q \in Queues : \A m \in ready'[q] : IsMessage(m)
             /\ \A m \in acked' \cup dead' : IsMessage(m)
             /\ \A d \in Consumers : IF phase'[d] = "idle" THEN job'[d] = NoMessage
                                      ELSE IsMessage(job'[d])
  BY <1>1, <1>2
<1>3. ASSUME EndHandler(c)
      PROVE  \A d \in Consumers : IF phase'[d] = "idle" THEN job'[d] = NoMessage
                                   ELSE IsMessage(job'[d])
  BY <1>1, <1>3 DEF EndHandler, HandlersTyped
<1>4. ASSUME Redeliver(c)
      PROVE  /\ \A q \in Queues : \A m \in ready'[q] : IsMessage(m)
             /\ UNCHANGED <<acked, dead>>
  BY <1>1, <1>4 DEF Redeliver, BrokerTyped
<1>5. CASE \E m \in ready[QueueOf(c)] : Take(c, m)
  <2> PICK m \in ready[QueueOf(c)] : Take(c, m)
    BY <1>5
  <2>1. \A q \in Queues : \A n \in ready'[q] : IsMessage(n)
    BY <1>1 DEF Take, BrokerTyped
  <2>2. IsMessage(m)
    BY <1>1
  <2> QED BY <1>1, <2>1, <2>2, Starts DEF Take, HandlersTyped
<1>6. CASE MovesOn(c)
  <2>1. \A s \in Moves : s[1] # "idle" /\ s[2] # "idle"
    BY DEF Moves, Legs
  <2> QED BY <1>1, <1>6, <2>1 DEF MovesOn, brokerVars, HandlersTyped
<1>7. CASE Settle(c)
  <2>1. IsMessage(job[c])
    BY <1>7, JobIsMessage DEF Settle, Settling
  <2>2. \A m \in acked' \cup dead' : IsMessage(m)
    BY <1>1, <1>7, <2>1 DEF Settle
  <2>3. \A q \in Queues : \A m \in ready'[q] : IsMessage(m)
    BY <1>1, <1>7, <2>1 DEF Settle, BrokerTyped
  <2> QED BY <1>3, <1>7, <2>2, <2>3 DEF Settle
<1>8. CASE CloseChannel(c) \/ LoseConnection(c)
  BY <1>1, <1>4, <1>8 DEF CloseChannel, LoseConnection, handlerVars
<1>9. CASE Start(c) \/ Cancel(c)
  BY <1>1, <1>9 DEF Start, Cancel, handlerVars, brokerVars
<1>10. CASE Exit(c)
  BY <1>1, <1>3, <1>10 DEF Exit, EndProcess, brokerVars
<1>11. CASE Kill(c)
  BY <1>1, <1>3, <1>4, <1>11 DEF Kill, EndProcess
<1> QED BY <1>5, <1>6, <1>7, <1>8, <1>9, <1>10, <1>11 DEF Silent

\* An emission: the event, its message, and what the handler does with it.
LEMMA EmissionTypes ==
  ASSUME TypeOK, NEW o \in Orders, NEW type \in EventTypes,
         NEW by \in Consumers \cup {"customer"}, NEW cause \in Nat,
         Emit(o, type, by, cause), UNCHANGED <<job, pod>>,
         \/ UNCHANGED phase
         \/ \E c \in Consumers : /\ phase[c] # "idle"
                                 /\ \E p \in Phases \ {"idle"} : phase' = [phase EXCEPT ![c] = p]
  PROVE  BrokerTyped' /\ Messages' /\ phase' \in [Consumers -> Phases]
<1> DEFINE New(n) == /\ n \in Orders \X Nat /\ n[2] \in 1..Len(history'[n[1]])
                     /\ Routes(n[1], history'[n[1]][n[2]].type) # {}
<1>1. Messages /\ BrokerTyped /\ HandlersTyped
  BY TypeParts
<1>2. Extends(o, [type |-> type, by |-> by, cause |-> cause])
  BY EmitExtends
<1>3. ASSUME NEW m, m = <<o, Len(history[o]) + 1>>
      PROVE  /\ m \in Orders \X Nat
             /\ New(m) <=> Routes(o, type) # {}
             /\ ready' = [q \in Queues |-> IF q \in Routes(o, type) \cap declared
                                           THEN ready[q] \cup {m} ELSE ready[q]]
             /\ unrouted' = IF Routes(o, type) \subseteq declared
                            THEN unrouted ELSE unrouted \cup {m}
  <2>1. IsMessage(m)' <=> New(m)
    BY DEF IsMessage, Event
  <2> HIDE DEF New
  <2>2. IsMessage(m)' <=> Routes(o, type) # {}
    BY <1>3, EmitMessage
  <2>3. m \in Orders \X Nat
    BY <1>3, EmitMessage
  <2> QED BY <1>3, <2>1, <2>2, <2>3 DEF Emit
<1>4. \A n : IsMessage(n) => New(n)
  BY <1>2, MessagesStay DEF Extends, IsMessage, Event
<1>5. UNCHANGED <<declared, acked, dead, requeued>>
  BY DEF Emit
<1> SUFFICES ASSUME NEW m, m = <<o, Len(history[o]) + 1>>
             PROVE  BrokerTyped' /\ Messages' /\ phase' \in [Consumers -> Phases]
  OBVIOUS
<1> HIDE DEF New
<1>6. BrokerTyped'
  <2>1. ready' \in [Queues -> SUBSET (Orders \X Nat)]
    <3>1. m \in Orders \X Nat /\ ready \in [Queues -> SUBSET (Orders \X Nat)]
      BY <1>1, <1>3 DEF BrokerTyped
    <3>2. \A q \in Queues : ready[q] \cup {m} \in SUBSET (Orders \X Nat)
      BY <3>1
    <3> QED BY <1>3, <3>1, <3>2
  <2> QED BY <1>1, <1>2, <1>5, <2>1 DEF BrokerTyped, Extends
<1>7. /\ phase' \in [Consumers -> Phases]
      /\ \A c \in Consumers : phase'[c] = "idle" <=> phase[c] = "idle"
  BY <1>1 DEF HandlersTyped
<1>8. \A q \in Queues : \A n \in ready'[q] : New(n)
  BY <1>1, <1>3, <1>4 DEF Messages, BrokerTyped
<1>9. \A n \in acked' \cup dead' \cup unrouted' : New(n)
  BY <1>1, <1>3, <1>4, <1>5 DEF Messages
<1>10. \A c \in Consumers : IF phase'[c] = "idle" THEN job'[c] = NoMessage
                             ELSE New(job'[c])
  BY <1>1, <1>4, <1>7 DEF Messages
<1>11. Messages'
  BY <1>8, <1>9, <1>10 DEF Messages, New, IsMessage, Event
<1> QED BY <1>6, <1>7, <1>11

LEMMA PublishTypes ==
  ASSUME TypeOK, NEW c \in Consumers, Publishes(c)
  PROVE  BrokerTyped' /\ Messages' /\ HandlersTyped'
<1> PICK s \in Scripts : phase[c] = s[1] /\ Publish(c, s[2], s[3])
  BY DEF Publishes
<1>1. /\ s[2] \in EventTypes /\ job[c][1] \in Orders
      /\ UNCHANGED <<declared, acked, dead, requeued, job, pod, stops>>
      /\ \/ /\ EmitFrom(c, s[2])
            /\ \E p \in {s[3], "reject", "requeue"} : phase' = [phase EXCEPT ![c] = p]
         \/ UNCHANGED brokerVars /\ phase' = [phase EXCEPT ![c] = "reject"]
  BY PublishEffect
<1>2. /\ s[1] # "idle" /\ s[3] \in Phases \ {"idle"}
      /\ {"reject", "requeue"} \subseteq Phases \ {"idle"}
  BY DEF Scripts, Phases, Legs, Settling
<1>3. Messages /\ BrokerTyped /\ HandlersTyped
  BY TypeParts
<1>4. BrokerTyped' /\ Messages' /\ phase' \in [Consumers -> Phases]
  <2>1. CASE /\ EmitFrom(c, s[2])
             /\ \E p \in {s[3], "reject", "requeue"} : phase' = [phase EXCEPT ![c] = p]
    <3> PICK cause \in Nat : Emit(job[c][1], s[2], c, cause)
      BY <1>1, <2>1, EmitFromEmits
    <3>1. \E p \in Phases \ {"idle"} : phase' = [phase EXCEPT ![c] = p]
      BY <1>2, <2>1
    <3> QED BY <1>1, <1>2, <3>1, EmissionTypes
  <2>2. CASE UNCHANGED brokerVars /\ phase' = [phase EXCEPT ![c] = "reject"]
    <3>1. \A n : IsMessage(n)' <=> IsMessage(n)
      BY <2>2 DEF IsMessage, Event, brokerVars
    <3>2. BrokerTyped'
      BY <1>3, <2>2 DEF brokerVars, BrokerTyped
    <3>3. phase' \in [Consumers -> Phases]
      BY <1>2, <1>3, <2>2 DEF HandlersTyped
    <3>4. Messages'
      BY <1>1, <1>2, <1>3, <2>2, <3>1 DEF Messages, HandlersTyped, brokerVars
    <3> QED BY <3>2, <3>3, <3>4
  <2> QED BY <1>1, <2>1, <2>2
<1>5. cites' \in [Consumers -> Nat] /\ trail' \in [Consumers -> Nat]
  <2>1. history' \in [Orders -> Seq(Records)]
    BY <1>4 DEF BrokerTyped
  <2>2. Len(history'[job[c][1]]) \in Nat
    BY <1>1, <2>1
  <2>3. CASE Confirmed(c, s[2], s[3])
    BY <1>3, <2>2, <2>3 DEF Confirmed, HandlersTyped
  <2> QED BY <1>3, <2>3 DEF Publish, Broken, Nacked, Unwaited, HandlersTyped
<1>6. publisher' \in [Consumers -> {"open", "broken"}]
  BY <1>3 DEF Publish, Confirmed, Broken, Nacked, Unwaited, HandlersTyped
<1> QED BY <1>1, <1>3, <1>4, <1>5, <1>6 DEF HandlersTyped

LEMMA TypeInit == Init => TypeOK
<1> SUFFICES ASSUME Init PROVE TypeOK
  OBVIOUS
<1>1. /\ RejectEvery \in Nat \ {0} /\ MaxTicks \in Nat
      /\ MaxStops \in Nat /\ MaxFaults \in Nat /\ MaxLate \in Nat
  BY DispatchAssumption
<1>2. Messages /\ BrokerTyped
  BY DEF Init, Messages, BrokerTyped
<1>3. HandlersTyped /\ CountersTyped
  BY <1>1 DEF Init, HandlersTyped, CountersTyped, Phases, PodStates
<1> QED BY <1>2, <1>3, TypeParts

LEMMA TypeStep == TypeOK /\ [Next]_vars => TypeOK'
<1> SUFFICES ASSUME TypeOK, [Next]_vars PROVE TypeOK'
  OBVIOUS
<1>1. ASSUME NEW o \in Orders, CreateOrder(o) PROVE BrokerTyped' /\ Messages' /\ HandlersTyped'
  <2>1. /\ Emit(o, "order.created", "customer", 0) /\ UNCHANGED <<job, pod, phase>>
        /\ UNCHANGED <<publisher, cites, trail>>
    BY <1>1 DEF CreateOrder, handlerVars
  <2>2. BrokerTyped' /\ Messages'
    BY <2>1, EmissionTypes DEF EventTypes
  <2> QED BY <2>1, <2>2, TypeParts DEF HandlersTyped
<1>2. ASSUME NEW c \in Consumers, ConsumerStep(c)
      PROVE  BrokerTyped' /\ Messages' /\ HandlersTyped'
  BY <1>2, PublishTypes, SilentBroker, SilentHandlers, SilentMessages DEF ConsumerStep, Silent
<1>4. BrokerTyped' /\ Messages' /\ HandlersTyped'
  <2>1. CASE UNCHANGED vars
    BY <2>1, TypeParts DEF vars, brokerVars, handlerVars, BrokerTyped, Messages,
                           HandlersTyped, IsMessage, Event
  <2> QED BY <1>1, <1>2, <2>1, Steps
<1>5. CountersTyped'
  BY CountersStep
<1> QED BY <1>4, <1>5 DEF Messages, BrokerTyped, HandlersTyped, CountersTyped, TypeOK

\* The type invariant of the dispatch: every queue and every busy consumer
\* holds an event of a history that was routed to a queue.
THEOREM TypeCorrect == Spec => []TypeOK
<1>1. Init => TypeOK
  BY TypeInit
<1>2. TypeOK /\ [Next]_vars => TypeOK'
  BY TypeStep
<1> QED BY <1>1, <1>2, PTL DEF Spec

-----------------------------------------------------------------------------
(***************************************************************************)
(* Where messages go.                                                      *)
(***************************************************************************)

\* Steps by their effect on messages: an event comes out; neither the broker
\* nor a job changes; or the consume loop and the life of a process go on.
SameIdle == \A c \in Consumers : phase'[c] = "idle" <=> phase[c] = "idle"

Emission(o, type, by, cause) ==
  Emit(o, type, by, cause) /\ UNCHANGED <<job, pod>> /\ SameIdle

Quiet == UNCHANGED <<brokerVars, job, pod>> /\ SameIdle

Bookkeeping(c) ==
  \/ \E m \in ready[QueueOf(c)] : Take(c, m)
  \/ Settle(c) \/ CloseChannel(c) \/ LoseConnection(c)
  \/ Start(c) \/ Cancel(c) \/ Exit(c) \/ Kill(c)

LEMMA StepKinds ==
  ASSUME TypeOK, [Next]_vars
  PROVE  \/ \E o \in Orders, type \in EventTypes, by \in Consumers \cup {"customer"}, cause \in Nat :
              Emission(o, type, by, cause)
         \/ Quiet
         \/ \E c \in Consumers : Bookkeeping(c)
<1>1. phase \in [Consumers -> Phases]
  BY DEF TypeOK
<1>2. ASSUME NEW o \in Orders, CreateOrder(o)
      PROVE  Emission(o, "order.created", "customer", 0)
  BY <1>1, <1>2 DEF CreateOrder, handlerVars, Emission, SameIdle
<1>3. ASSUME NEW c \in Consumers, MovesOn(c) PROVE Quiet
  <2>1. \A s \in Moves : s[1] # "idle" /\ s[2] # "idle"
    BY DEF Moves, Legs
  <2> QED BY <1>1, <1>3, <2>1 DEF MovesOn, Quiet, SameIdle
<1>4. ASSUME NEW c \in Consumers, Publishes(c)
      PROVE  \/ Quiet
             \/ \E o \in Orders, type \in EventTypes, by \in Consumers \cup {"customer"}, cause \in Nat :
                  Emission(o, type, by, cause)
  <2> PICK s \in Scripts : phase[c] = s[1] /\ Publish(c, s[2], s[3])
    BY <1>4 DEF Publishes
  <2>1. /\ s[2] \in EventTypes /\ job[c][1] \in Orders
        /\ UNCHANGED <<job, pod>>
        /\ \/ /\ EmitFrom(c, s[2])
              /\ \E p \in {s[3], "reject", "requeue"} : phase' = [phase EXCEPT ![c] = p]
           \/ UNCHANGED brokerVars /\ phase' = [phase EXCEPT ![c] = "reject"]
    BY PublishEffect
  <2>2. s[1] # "idle" /\ s[3] # "idle"
    BY DEF Scripts
  <2>3. SameIdle
    BY <1>1, <2>1, <2>2 DEF SameIdle
  <2>4. CASE EmitFrom(c, s[2])
    BY <2>1, <2>3, <2>4, EmitFromEmits DEF Emission
  <2> QED BY <2>1, <2>3, <2>4 DEF Quiet
<1>5. CASE UNCHANGED vars
  BY <1>5 DEF vars, handlerVars, Quiet, SameIdle
<1> QED BY <1>2, <1>3, <1>4, <1>5, Steps DEF ConsumerStep, Bookkeeping, EventTypes

\* The queues a message was routed to.
RouteOf(h, m) == Routes(m[1], h[m[1]][m[2]].type)

\* A message waits in the queue it was routed to, and is handled by a consumer
\* of that queue: kitchens hold order.created, couriers order.accepted.
Addressed ==
  /\ \A q \in Queues : \A m \in ready[q] : q \in RouteOf(history, m)
  /\ \A c \in Consumers : phase[c] # "idle" => QueueOf(c) \in RouteOf(history, job[c])

LEMMA AddressedStep ==
  ASSUME TypeOK, TypeOK', Addressed, [Next]_vars
  PROVE  Addressed'
<1> SUFFICES /\ \A q \in Queues : \A m \in ready'[q] : q \in RouteOf(history', m)
             /\ \A c \in Consumers :
                  phase'[c] # "idle" => QueueOf(c) \in RouteOf(history', job'[c])
  BY DEF Addressed, RouteOf, QueueOf
<1> USE DEF Addressed
<1>1. ASSUME NEW o \in Orders, NEW type \in EventTypes, NEW by \in Consumers \cup {"customer"},
             NEW cause \in Nat, Emission(o, type, by, cause)
      PROVE  /\ \A q \in Queues : \A m \in ready'[q] : q \in RouteOf(history', m)
             /\ \A c \in Consumers :
                  phase'[c] # "idle" => QueueOf(c) \in RouteOf(history', job'[c])
  <2> SUFFICES ASSUME NEW n, n = <<o, Len(history[o]) + 1>>
               PROVE  /\ \A q \in Queues : \A m \in ready'[q] : q \in RouteOf(history', m)
                      /\ \A c \in Consumers :
                           phase'[c] # "idle" => QueueOf(c) \in RouteOf(history', job'[c])
    OBVIOUS
  <2>1. Extends(o, [type |-> type, by |-> by, cause |-> cause])
    BY <1>1, EmitExtends DEF Emission
  <2>2. \A m : IsMessage(m) => RouteOf(history', m) = RouteOf(history, m)
    BY <2>1, MessagesStay DEF Extends, RouteOf, Event
  <2>3. RouteOf(history', n) = Routes(o, type)
    BY <2>1 DEF Extends, RouteOf
  <2>4. ready' = [q \in Queues |-> IF q \in Routes(o, type) \cap declared
                                   THEN ready[q] \cup {n} ELSE ready[q]]
    BY <1>1 DEF Emission, Emit
  <2>5. /\ \A q \in Queues : \A m \in ready[q] : IsMessage(m)
        /\ \A c \in Consumers : phase[c] # "idle" => IsMessage(job[c])
    BY DEF TypeOK
  <2>6. \A q \in Queues : \A m \in ready'[q] : q \in RouteOf(history', m)
    BY <2>2, <2>3, <2>4, <2>5
  <2>7. UNCHANGED job /\ SameIdle
    BY <1>1 DEF Emission
  <2> QED BY <2>2, <2>5, <2>6, <2>7 DEF SameIdle
<1>2. CASE Quiet
  BY <1>2 DEF Quiet, SameIdle, brokerVars
<1>3. ASSUME NEW c \in Consumers, Bookkeeping(c)
      PROVE  /\ \A q \in Queues : \A m \in ready'[q] : q \in RouteOf(history', m)
             /\ \A d \in Consumers :
                  phase'[d] # "idle" => QueueOf(d) \in RouteOf(history', job'[d])
  <2>1. UNCHANGED history
    BY <1>3, SilentHistory DEF Bookkeeping, Silent
  <2>2. /\ QueueOf(c) \in Queues
        /\ ready \in [Queues -> SUBSET (Orders \X Nat)]
        /\ phase \in [Consumers -> Phases]
        /\ job \in [Consumers -> (Orders \X Nat) \cup {NoMessage}]
    BY QueuesOfConsumers DEF TypeOK
  <2>3. CASE \E m \in ready[QueueOf(c)] : Take(c, m)
    <3> PICK m \in ready[QueueOf(c)] : Take(c, m)
      BY <2>3
    <3>1. \A q \in Queues : ready'[q] \subseteq ready[q]
      BY <2>2 DEF Take
    <3>2. \A d \in Consumers : \/ d = c /\ job'[d] = m
                               \/ phase'[d] = phase[d] /\ job'[d] = job[d]
      BY <2>2 DEF Take
    <3> QED BY <2>1, <2>2, <3>1, <3>2
  <2>4. ASSUME Redeliver(c)
        PROVE  \A q \in Queues : \A m \in ready'[q] : q \in RouteOf(history', m)
    BY <2>1, <2>2, <2>4 DEF Redeliver
  <2>5. ASSUME EndHandler(c)
        PROVE  \A d \in Consumers :
                  phase'[d] # "idle" => QueueOf(d) \in RouteOf(history', job'[d])
    BY <2>1, <2>2, <2>5 DEF EndHandler
  <2>6. CASE Settle(c)
    <3>1. phase[c] # "idle"
      BY <2>6 DEF Settle, Settling
    <3>2. \/ UNCHANGED ready
          \/ ready' = [ready EXCEPT ![QueueOf(c)] = @ \cup {job[c]}]
      BY <2>6 DEF Settle
    <3>3. \A q \in Queues : \A m \in ready'[q] : q \in RouteOf(history', m)
      BY <2>1, <2>2, <3>1, <3>2
    <3> QED BY <2>5, <2>6, <3>3 DEF Settle
  <2>7. CASE CloseChannel(c) \/ LoseConnection(c)
    BY <2>1, <2>4, <2>7 DEF CloseChannel, LoseConnection, handlerVars
  <2>8. CASE Start(c) \/ Cancel(c)
    BY <2>8 DEF Start, Cancel, brokerVars, handlerVars
  <2>9. CASE Exit(c)
    BY <2>5, <2>9 DEF Exit, EndProcess, brokerVars
  <2>10. CASE Kill(c)
    BY <2>4, <2>5, <2>10 DEF Kill, EndProcess
  <2> QED BY <1>3, <2>3, <2>6, <2>7, <2>8, <2>9, <2>10 DEF Bookkeeping
<1> QED BY <1>1, <1>2, <1>3, StepKinds

\* What Addressed says of a message and its queue.
LEMMA OneRoute ==
  ASSUME TypeOK, NEW m, IsMessage(m), NEW q \in RouteOf(history, m)
  PROVE  /\ RouteOf(history, m) = {q}
         /\ IF q = DispatchQueue THEN Event(m).type = "order.accepted"
            ELSE Event(m).type = "order.created"
<1>2. m[1] \in Orders /\ Event(m) \in Records
  BY DEF IsMessage, TypeOK, Event
<1>3. Event(m).type \in EventTypes /\ RestaurantOf[m[1]] # DispatchQueue
  BY <1>2, DispatchAssumption DEF Records
<1> QED BY <1>2, <1>3, RoutesOf DEF RouteOf, Event

-----------------------------------------------------------------------------
(***************************************************************************)
(* Phases of each kind of consumer, and failed messages.                   *)
(***************************************************************************)
KitchenPhases == {"idle", "cook", "answer"} \cup Settling

OwnPhases ==
  \A c \in Consumers :
    /\ c \in Kitchens => phase[c] \in KitchenPhases
    /\ c \in Couriers => phase[c] \notin {"cook", "answer"}
    /\ pod[c] = "down" => phase[c] = "idle"

\* A handler that rejects its delivery has failed on it.
Failures ==
  /\ \A c \in Consumers : phase[c] = "reject" => job[c] \in failed
  /\ dead \subseteq failed

\* How a step changes the phase of its consumer.
PhaseStep(c) ==
  \/ \E s \in Scripts : \E p \in {s[3], "reject", "requeue"} :
       phase[c] = s[1] /\ phase' = [phase EXCEPT ![c] = p] /\ UNCHANGED pod
  \/ \E s \in Moves : phase[c] = s[1] /\ phase' = [phase EXCEPT ![c] = s[2]] /\ UNCHANGED pod
  \/ /\ phase[c] = "idle" /\ Connected(c) /\ UNCHANGED pod
     /\ phase' = [phase EXCEPT ![c] = FirstPhase(c)]
  \/ /\ phase' = [phase EXCEPT ![c] = "idle"]
     /\ \/ UNCHANGED pod
        \/ pod' = [pod EXCEPT ![c] = "down"]
  \/ /\ UNCHANGED phase
     /\ \E p \in {"running", "canceled", "closed"} : pod' = [pod EXCEPT ![c] = p]

LEMMA PhaseSteps ==
  ASSUME TypeOK, [Next]_vars
  PROVE  UNCHANGED <<phase, pod>> \/ \E c \in Consumers : PhaseStep(c)
<1>1. ASSUME NEW o \in Orders, CreateOrder(o) PROVE UNCHANGED <<phase, pod>>
  BY <1>1 DEF CreateOrder, handlerVars
<1>2. ASSUME NEW c \in Consumers, Publishes(c) PROVE PhaseStep(c)
  <2> PICK s \in Scripts : phase[c] = s[1] /\ Publish(c, s[2], s[3])
    BY <1>2 DEF Publishes
  <2>1. \E p \in {s[3], "reject", "requeue"} : phase' = [phase EXCEPT ![c] = p]
    BY PublishEffect
  <2>2. UNCHANGED pod
    BY PublishEffect
  <2> QED BY <2>1, <2>2 DEF PhaseStep
<1>3. ASSUME NEW c \in Consumers, MovesOn(c) PROVE PhaseStep(c)
  BY <1>3 DEF MovesOn, PhaseStep
<1>4. ASSUME NEW c \in Consumers, Bookkeeping(c) PROVE PhaseStep(c)
  <2>1. CASE \E m \in ready[QueueOf(c)] : Take(c, m)
    BY <2>1 DEF Take, PhaseStep
  <2>2. CASE Settle(c)
    BY <2>2 DEF Settle, EndHandler, PhaseStep
  <2>3. CASE CloseChannel(c) \/ LoseConnection(c) \/ Start(c) \/ Cancel(c)
    BY <2>3 DEF CloseChannel, LoseConnection, Start, Cancel, handlerVars, PhaseStep
  <2>4. CASE Exit(c) \/ Kill(c)
    BY <2>4 DEF Exit, Kill, EndProcess, EndHandler, PhaseStep
  <2> QED BY <1>4, <2>1, <2>2, <2>3, <2>4 DEF Bookkeeping
<1>5. CASE UNCHANGED vars
  BY <1>5 DEF vars, handlerVars
<1> QED BY <1>1, <1>2, <1>3, <1>4, <1>5, Steps DEF ConsumerStep, Bookkeeping

LEMMA OwnPhasesStep ==
  ASSUME TypeOK, OwnPhases, [Next]_vars
  PROVE  OwnPhases'
<1>1. phase \in [Consumers -> Phases] /\ pod \in [Consumers -> PodStates]
  BY DEF TypeOK
<1>2. CASE UNCHANGED <<phase, pod>>
  BY <1>2 DEF OwnPhases
<1>3. ASSUME NEW c \in Consumers, PhaseStep(c) PROVE OwnPhases'
  <2> SUFFICES /\ c \in Kitchens => phase'[c] \in KitchenPhases
               /\ c \in Couriers => phase'[c] \notin {"cook", "answer"}
               /\ pod'[c] = "down" => phase'[c] = "idle"
               /\ \A d \in Consumers \ {c} : phase'[d] = phase[d] /\ pod'[d] = pod[d]
    BY DEF OwnPhases
  <2>1. \A d \in Consumers \ {c} : phase'[d] = phase[d] /\ pod'[d] = pod[d]
    BY <1>1, <1>3 DEF PhaseStep
  <2>2. /\ c \in Kitchens => phase[c] \in KitchenPhases
        /\ c \in Couriers => phase[c] \notin {"cook", "answer"}
        /\ pod[c] = "down" => phase[c] = "idle"
    BY DEF OwnPhases
  <2>3. /\ \A s \in Scripts : s[1] # "idle" /\ s[3] \notin {"cook", "answer"}
                              /\ (s[1] \in KitchenPhases => s[3] \in KitchenPhases)
        /\ \A s \in Moves : /\ s[1] # "idle"
                            /\ s[2] \in {"cook", "answer"} => s[1] \in {"cook", "answer"}
                            /\ s[1] \in KitchenPhases => s[2] \in KitchenPhases
    BY DEF Scripts, Moves, Legs, KitchenPhases, Settling
  <2>4. CASE \E s \in Scripts : \E p \in {s[3], "reject", "requeue"} :
               phase[c] = s[1] /\ phase' = [phase EXCEPT ![c] = p] /\ UNCHANGED pod
    BY <1>1, <2>1, <2>2, <2>3, <2>4 DEF KitchenPhases, Settling
  <2>5. CASE \E s \in Moves :
               phase[c] = s[1] /\ phase' = [phase EXCEPT ![c] = s[2]] /\ UNCHANGED pod
    BY <1>1, <2>1, <2>2, <2>3, <2>5
  <2>6. CASE /\ phase[c] = "idle" /\ Connected(c) /\ UNCHANGED pod
             /\ phase' = [phase EXCEPT ![c] = FirstPhase(c)]
    BY <1>1, <2>1, <2>6, DispatchAssumption
       DEF FirstPhase, KitchenPhases, Connected, Consumers
  <2>7. CASE /\ phase' = [phase EXCEPT ![c] = "idle"]
             /\ UNCHANGED pod \/ pod' = [pod EXCEPT ![c] = "down"]
    BY <1>1, <2>1, <2>7 DEF KitchenPhases
  <2>8. CASE /\ UNCHANGED phase
             /\ \E p \in {"running", "canceled", "closed"} : pod' = [pod EXCEPT ![c] = p]
    BY <1>1, <2>1, <2>2, <2>8
  <2> QED BY <1>3, <2>4, <2>5, <2>6, <2>7, <2>8 DEF PhaseStep
<1> QED BY <1>2, <1>3, PhaseSteps

LEMMA FailuresStep ==
  ASSUME TypeOK, Failures, [Next]_vars
  PROVE  Failures'
<1>1. /\ phase \in [Consumers -> Phases]
      /\ job \in [Consumers -> (Orders \X Nat) \cup {NoMessage}]
  BY DEF TypeOK
<1> USE DEF Failures
<1>2. ASSUME NEW o \in Orders, CreateOrder(o) PROVE Failures'
  BY <1>2 DEF CreateOrder, handlerVars, Emit
<1>3. ASSUME NEW c \in Consumers, Publishes(c) PROVE Failures'
  <2> PICK s \in Scripts : phase[c] = s[1] /\ Publish(c, s[2], s[3])
    BY <1>3 DEF Publishes
  <2>1. UNCHANGED <<dead, job>>
    BY PublishEffect
  <2>2. s[3] # "reject"
    BY DEF Scripts
  <2>3. CASE Confirmed(c, s[2], s[3]) \/ Unwaited(c, s[2])
    BY <1>1, <2>1, <2>2, <2>3 DEF Confirmed, Unwaited
  <2>4. CASE Broken(c, s[2]) \/ Nacked(c, s[2])
    BY <1>1, <2>1, <2>4 DEF Broken, Nacked
  <2> QED BY <2>3, <2>4 DEF Publish
<1>4. ASSUME NEW c \in Consumers, MovesOn(c) PROVE Failures'
  BY <1>1, <1>4 DEF MovesOn, brokerVars
<1>5. ASSUME NEW c \in Consumers, Bookkeeping(c) PROVE Failures'
  <2>1. CASE \E m \in ready[QueueOf(c)] : Take(c, m)
    BY <1>1, <2>1 DEF Take, FirstPhase
  <2>2. ASSUME EndHandler(c)
        PROVE  \A d \in Consumers :
                 phase'[d] = "reject" => phase[d] = "reject" /\ job'[d] = job[d]
    BY <1>1, <2>2 DEF EndHandler
  <2>3. CASE Settle(c)
    <3>1. dead' \subseteq failed /\ UNCHANGED failed
      BY <2>3 DEF Settle
    <3> QED BY <2>2, <2>3, <3>1 DEF Settle
  <2>4. CASE CloseChannel(c) \/ LoseConnection(c) \/ Start(c) \/ Cancel(c)
    BY <2>4 DEF CloseChannel, LoseConnection, Start, Cancel, Redeliver, handlerVars, brokerVars
  <2>5. CASE Exit(c) \/ Kill(c)
    <3>1. EndProcess(c) /\ UNCHANGED dead
      BY <2>5 DEF Exit, Kill, Redeliver, brokerVars
    <3> QED BY <1>1, <2>2, <3>1 DEF EndProcess
  <2> QED BY <1>5, <2>1, <2>3, <2>4, <2>5 DEF Bookkeeping
<1>6. CASE UNCHANGED vars
  BY <1>6 DEF vars, handlerVars, brokerVars
<1> QED BY <1>2, <1>3, <1>4, <1>5, <1>6, Steps DEF ConsumerStep, Bookkeeping

\* Whatever stops, kills and lost consumer connections interrupt is requeued:
\* a message in the dead-letter queue is one a handler has failed on.
THEOREM DeadLettersAreFailures == Spec => []OnlyFailuresDeadLetter
<1>1. Init => TypeOK /\ Failures
  <2>1. Init => Failures
    BY DEF Init, Failures
  <2> QED BY <2>1, TypeInit
<1>2. TypeOK /\ Failures /\ [Next]_vars => (TypeOK /\ Failures)'
  BY TypeStep, FailuresStep
<1>3. Failures => OnlyFailuresDeadLetter
  BY DEF Failures, OnlyFailuresDeadLetter
<1> QED BY <1>1, <1>2, <1>3, PTL DEF Spec

-----------------------------------------------------------------------------
(***************************************************************************)
(* Each message is in one place.                                           *)
(***************************************************************************)
Holds(c) == Connected(c) /\ phase[c] # "idle"

SingleHolder ==
  \A c, d \in Consumers : Holds(c) /\ Holds(d) /\ job[c] = job[d] => c = d

Apart ==
  /\ Waiting \cap (Held \cup acked \cup dead \cup unrouted) = {}
  /\ Held \cap (acked \cup dead \cup unrouted) = {}
  /\ acked \cap (dead \cup unrouted) = {}
  /\ dead \cap unrouted = {}

Covered ==
  \A o \in Orders : \A i \in 1..Len(history[o]) :
    IsMessage(<<o, i>>) => <<o, i>> \in Waiting \cup Held \cup acked \cup dead \cup unrouted

Accounted == SingleHolder /\ Apart /\ Covered

LEMMA PlacesAreMessages ==
  ASSUME TypeOK
  PROVE  \A m \in Waiting \cup Held \cup acked \cup dead \cup unrouted : IsMessage(m)
<1>1. \A m \in Held : IsMessage(m)
  BY DEF Held, TypeOK
<1> QED BY <1>1 DEF Waiting, TypeOK

\* The messages the other consumers hold.
HeldByOthers(c) == {job[d] : d \in {e \in Consumers \ {c} : Holds(e)}}

LEMMA HeldParts ==
  ASSUME SingleHolder, NEW c \in Consumers
  PROVE  /\ Held = HeldByOthers(c) \cup (IF Holds(c) THEN {job[c]} ELSE {})
         /\ Holds(c) => job[c] \notin HeldByOthers(c)
  BY DEF Held, HeldByOthers, Holds, SingleHolder

\* A step of consumer c: what the others hold is theirs still.
LEMMA HeldStep ==
  ASSUME SingleHolder, NEW c \in Consumers,
         \A d \in Consumers \ {c} :
           pod'[d] = pod[d] /\ phase'[d] = phase[d] /\ job'[d] = job[d]
  PROVE  /\ Held' = HeldByOthers(c) \cup (IF Holds(c)' THEN {job'[c]} ELSE {})
         /\ (Holds(c)' => job'[c] \notin HeldByOthers(c)) => SingleHolder'
<1>1. \A d \in Consumers \ {c} : Holds(d)' <=> Holds(d)
  BY DEF Holds, Connected
<1>2. Held' = HeldByOthers(c) \cup (IF Holds(c)' THEN {job'[c]} ELSE {})
  BY <1>1 DEF Held, HeldByOthers, Holds
<1>3. ASSUME Holds(c)' => job'[c] \notin HeldByOthers(c)
      PROVE  SingleHolder'
  BY <1>1, <1>3 DEF SingleHolder, HeldByOthers
<1> QED BY <1>2, <1>3

LEMMA WaitingMore ==
  ASSUME TypeOK, NEW q \in Queues, NEW m, ready' = [ready EXCEPT ![q] = @ \cup {m}]
  PROVE  Waiting' = Waiting \cup {m}
<1>1. ready'[q] = ready[q] \cup {m} /\ \A r \in Queues \ {q} : ready'[r] = ready[r]
  BY DEF TypeOK
<1> QED BY <1>1 DEF Waiting

LEMMA WaitingLess ==
  ASSUME TypeOK, Addressed, NEW q \in Queues, NEW m \in ready[q],
         ready' = [ready EXCEPT ![q] = @ \ {m}]
  PROVE  Waiting' = Waiting \ {m}
<1>1. ready'[q] = ready[q] \ {m} /\ \A r \in Queues \ {q} : ready'[r] = ready[r]
  BY DEF TypeOK
<1>2. \A r \in Queues \ {q} : m \notin ready[r]
  <2> SUFFICES ASSUME NEW r \in Queues \ {q}, m \in ready[r] PROVE FALSE
    OBVIOUS
  <2>1. q \in RouteOf(history, m) /\ r \in RouteOf(history, m) /\ IsMessage(m)
    BY DEF Addressed, TypeOK
  <2> QED BY <2>1, OneRoute
<1> QED BY <1>1, <1>2 DEF Waiting

\* Which messages an emission adds.
LEMMA NewMessage ==
  ASSUME TypeOK, NEW o \in Orders, NEW e, Extends(o, e), NEW m, IsMessage(m)'
  PROVE  \/ IsMessage(m)
         \/ m = <<o, Len(history[o]) + 1>> /\ Routes(o, e.type) # {}
<1>1. /\ m[1] \in Orders /\ m[2] \in Nat /\ m = <<m[1], m[2]>>
      /\ m \in Orders \X Nat
      /\ m[2] \in 1..Len(history'[m[1]])
      /\ Routes(m[1], history'[m[1]][m[2]].type) # {}
  BY DEF IsMessage, Event
<1>2. Len(history[o]) \in Nat
  BY DEF TypeOK
<1>3. CASE m[1] # o
  BY <1>1, <1>3 DEF Extends, IsMessage, Event
<1>4. CASE m[1] = o /\ m[2] = Len(history[o]) + 1
  BY <1>1, <1>4 DEF Extends
<1>5. CASE m[1] = o /\ m[2] # Len(history[o]) + 1
  <2>1. m[2] \in 1..Len(history[o])
    BY <1>1, <1>2, <1>5 DEF Extends
  <2>2. history'[o][m[2]] = history[o][m[2]]
    BY <2>1 DEF Extends, Grown
  <2> QED BY <1>1, <1>5, <2>1, <2>2 DEF IsMessage, Event
<1> QED BY <1>3, <1>4, <1>5

LEMMA CoveredAll ==
  Covered <=> \A m : IsMessage(m) => m \in Waiting \cup Held \cup acked \cup dead \cup unrouted
<1>1. ASSUME NEW m, IsMessage(m)
      PROVE  m = <<m[1], m[2]>> /\ m[1] \in Orders /\ m[2] \in 1..Len(history[m[1]])
  BY <1>1 DEF IsMessage
<1> QED BY <1>1 DEF Covered

LEMMA CoveredNext ==
  ASSUME \A m : IsMessage(m)' => m \in Waiting' \cup Held' \cup acked' \cup dead' \cup unrouted'
  PROVE  Covered'
  BY DEF Covered

LEMMA AccountedEmission ==
  ASSUME TypeOK, Accounted, NEW o \in Orders, NEW type \in EventTypes,
         NEW by \in Consumers \cup {"customer"}, NEW cause \in Nat,
         Emission(o, type, by, cause)
  PROVE  Accounted'
<1> SUFFICES ASSUME NEW n, n = <<o, Len(history[o]) + 1>> PROVE Accounted'
  OBVIOUS
<1>1. Emit(o, type, by, cause) /\ UNCHANGED <<job, pod>> /\ SameIdle
  BY DEF Emission
<1>2. Extends(o, [type |-> type, by |-> by, cause |-> cause])
  BY <1>1, EmitExtends
<1>3. n \notin Waiting \cup Held \cup acked \cup dead \cup unrouted
  <2>1. ~IsMessage(n)
    BY <1>1, EmitMessage
  <2> QED BY <2>1, PlacesAreMessages
<1>4. /\ ready' = [q \in Queues |-> IF q \in Routes(o, type) \cap declared
                                    THEN ready[q] \cup {n} ELSE ready[q]]
      /\ unrouted' = IF Routes(o, type) \subseteq declared
                     THEN unrouted ELSE unrouted \cup {n}
      /\ UNCHANGED <<acked, dead>>
  BY <1>1 DEF Emit
<1>5. Held' = Held
  BY <1>1 DEF Held, SameIdle, Connected
<1>6. SingleHolder'
  BY <1>1 DEF Accounted, SingleHolder, Holds, SameIdle, Connected
<1>7. \A m : IsMessage(m)' => IsMessage(m) \/ (m = n /\ Routes(o, type) # {})
  BY <1>2, NewMessage
<1>8. \E q \in Queues : Routes(o, type) \in {{}, {q}}
  BY RoutesOf, DispatchAssumption DEF Queues
<1>9. /\ Apart /\ \A m : IsMessage(m) => m \in Waiting \cup Held \cup acked \cup dead \cup unrouted
  BY CoveredAll DEF Accounted
<1>10. CASE Routes(o, type) = {}
  <2>1. Waiting' = Waiting /\ unrouted' = unrouted
    BY <1>4, <1>10 DEF Waiting
  <2>2. \A m : IsMessage(m)' => m \in Waiting' \cup Held' \cup acked' \cup dead' \cup unrouted'
    BY <1>4, <1>5, <1>7, <1>9, <1>10, <2>1
  <2> QED BY <1>4, <1>5, <1>6, <1>9, <2>1, <2>2, CoveredNext DEF Accounted, Apart
<1>11. ASSUME NEW q \in Queues, Routes(o, type) = {q} PROVE Accounted'
  <2>1. CASE q \in declared
    <3>1. Waiting' = Waiting \cup {n} /\ unrouted' = unrouted
      BY <1>4, <1>11, <2>1 DEF Waiting
    <3>2. \A m : IsMessage(m)' => m \in Waiting' \cup Held' \cup acked' \cup dead' \cup unrouted'
      BY <1>4, <1>5, <1>7, <1>9, <3>1
    <3> QED BY <1>3, <1>4, <1>5, <1>6, <1>9, <3>1, <3>2, CoveredNext DEF Accounted, Apart
  <2>2. CASE q \notin declared
    <3>1. Waiting' = Waiting /\ unrouted' = unrouted \cup {n}
      BY <1>4, <1>11, <2>2 DEF Waiting
    <3>2. \A m : IsMessage(m)' => m \in Waiting' \cup Held' \cup acked' \cup dead' \cup unrouted'
      BY <1>4, <1>5, <1>7, <1>9, <3>1
    <3> QED BY <1>3, <1>4, <1>5, <1>6, <1>9, <3>1, <3>2, CoveredNext DEF Accounted, Apart
  <2> QED BY <2>1, <2>2
<1> QED BY <1>8, <1>10, <1>11

\* A message that changes places, or stays, in a step that publishes nothing.
LEMMA AccountedMove ==
  ASSUME Accounted, SingleHolder',
         \A m : IsMessage(m)' <=> IsMessage(m),
         unrouted' = unrouted,
         Apart',
         Waiting \cup Held \cup acked \cup dead
           \subseteq Waiting' \cup Held' \cup acked' \cup dead'
  PROVE  Accounted'
<1>1. \A m : IsMessage(m) => m \in Waiting \cup Held \cup acked \cup dead \cup unrouted
  BY CoveredAll DEF Accounted
<1>2. \A m : IsMessage(m)' => m \in Waiting' \cup Held' \cup acked' \cup dead' \cup unrouted'
  BY <1>1
<1> QED BY <1>2, CoveredNext DEF Accounted

LEMMA AccountedRedeliver ==
  ASSUME TypeOK, Accounted, NEW c \in Consumers, Connected(c), Redeliver(c),
         pod'[c] \in {"closed", "down"},
         \A d \in Consumers \ {c} :
           pod'[d] = pod[d] /\ phase'[d] = phase[d] /\ job'[d] = job[d],
         \A m : IsMessage(m)' <=> IsMessage(m)
  PROVE  Accounted'
<1>1. /\ Held = HeldByOthers(c) \cup (IF Holds(c) THEN {job[c]} ELSE {})
      /\ Holds(c) => job[c] \notin HeldByOthers(c)
  BY HeldParts DEF Accounted
<1>2. ~Holds(c)'
  BY DEF Holds, Connected
<1>3. Held' = HeldByOthers(c) /\ SingleHolder'
  BY <1>2, HeldStep DEF Accounted
<1>4. UNCHANGED <<acked, dead, unrouted>> /\ QueueOf(c) \in Queues
  BY QueuesOfConsumers DEF Redeliver
<1>5. Waiting' = Waiting \cup (IF Holds(c) THEN {job[c]} ELSE {})
  <2>1. CASE phase[c] = "idle"
    BY <2>1 DEF Redeliver, Holds, Waiting
  <2>2. CASE phase[c] # "idle"
    BY <1>4, <2>2, WaitingMore DEF Redeliver, Holds
  <2> QED BY <2>1, <2>2
<1>6. Apart'
  BY <1>1, <1>3, <1>4, <1>5 DEF Accounted, Apart
<1> QED BY <1>1, <1>3, <1>4, <1>5, <1>6, AccountedMove

LEMMA AccountedStep ==
  ASSUME TypeOK, Addressed, OwnPhases, Accounted, [Next]_vars
  PROVE  Accounted'
<1>1. CASE Quiet
  <2>1. Held' = Held /\ Waiting' = Waiting /\ UNCHANGED <<acked, dead, unrouted>>
    BY <1>1 DEF Quiet, SameIdle, Held, Waiting, Connected, brokerVars
  <2>2. SingleHolder'
    BY <1>1 DEF Quiet, SameIdle, Accounted, SingleHolder, Holds, Connected
  <2>3. \A m : IsMessage(m)' <=> IsMessage(m)
    BY <1>1 DEF Quiet, brokerVars, IsMessage, Event
  <2>4. Apart'
    BY <2>1 DEF Accounted, Apart
  <2> QED BY <2>1, <2>2, <2>3, <2>4, AccountedMove
<1>2. ASSUME NEW c \in Consumers, Bookkeeping(c) PROVE Accounted'
  <2>1. unrouted' = unrouted /\ \A m : IsMessage(m)' <=> IsMessage(m)
    BY <1>2, SilentHistory DEF Bookkeeping, Silent
  <2>2. /\ QueueOf(c) \in Queues
        /\ ready \in [Queues -> SUBSET (Orders \X Nat)]
        /\ phase \in [Consumers -> Phases] /\ pod \in [Consumers -> PodStates]
        /\ job \in [Consumers -> (Orders \X Nat) \cup {NoMessage}]
    BY QueuesOfConsumers DEF TypeOK
  <2>3. \A d \in Consumers \ {c} :
          pod'[d] = pod[d] /\ phase'[d] = phase[d] /\ job'[d] = job[d]
    BY <1>2, <2>2 DEF Bookkeeping, Take, Settle, CloseChannel, LoseConnection, Start, Cancel,
                      Exit, Kill, EndProcess, EndHandler, handlerVars
  <2>4. /\ Held = HeldByOthers(c) \cup (IF Holds(c) THEN {job[c]} ELSE {})
        /\ Holds(c) => job[c] \notin HeldByOthers(c)
        /\ Held' = HeldByOthers(c) \cup (IF Holds(c)' THEN {job'[c]} ELSE {})
        /\ (Holds(c)' => job'[c] \notin HeldByOthers(c)) => SingleHolder'
    BY <2>3, HeldParts, HeldStep DEF Accounted
  <2>5. CASE \E m \in ready[QueueOf(c)] : Take(c, m)
    <3> PICK m \in ready[QueueOf(c)] : Take(c, m)
      BY <2>5
    <3>1. ~Holds(c) /\ Holds(c)' /\ job'[c] = m
      BY <2>2, Starts DEF Take, Holds, Connected
    <3>2. Waiting' = Waiting \ {m} /\ m \in Waiting
      BY <2>2, WaitingLess DEF Take, Waiting
    <3>3. UNCHANGED <<acked, dead>>
      BY DEF Take
    <3>4. SingleHolder'
      BY <2>4, <3>1, <3>2 DEF Accounted, Apart
    <3>5. Apart'
      BY <2>1, <2>4, <3>1, <3>2, <3>3 DEF Accounted, Apart
    <3> QED BY <2>1, <2>4, <3>1, <3>2, <3>3, <3>4, <3>5, AccountedMove
  <2>6. CASE Settle(c)
    <3>1. ~Holds(c)'
      BY <2>2, <2>6 DEF Settle, EndHandler, Holds
    <3>2. Held' = HeldByOthers(c) /\ SingleHolder'
      BY <2>4, <3>1
    <3>3. CASE ~Connected(c)
      <4>1. UNCHANGED <<acked, dead, ready>> /\ Held = HeldByOthers(c)
        BY <2>4, <2>6, <3>3 DEF Settle, Holds
      <4>2. Waiting' = Waiting
        BY <4>1 DEF Waiting
      <4>3. Apart'
        BY <2>1, <3>2, <4>1, <4>2 DEF Accounted, Apart
      <4> QED BY <2>1, <3>2, <4>1, <4>2, <4>3, AccountedMove
    <3>4. CASE Connected(c)
      <4>1. Holds(c)
        BY <2>6, <3>4 DEF Holds, Settle, Settling
      <4>2. CASE phase[c] = "ack"
        <5>1. acked' = acked \cup {job[c]} /\ UNCHANGED <<dead, ready>>
          BY <2>6, <3>4, <4>2 DEF Settle
        <5>2. Waiting' = Waiting
          BY <5>1 DEF Waiting
        <5>3. Apart'
          BY <2>1, <2>4, <3>2, <4>1, <5>1, <5>2 DEF Accounted, Apart
        <5> QED BY <2>1, <2>4, <3>2, <5>1, <5>2, <5>3, AccountedMove
      <4>3. CASE phase[c] = "reject"
        <5>1. dead' = dead \cup {job[c]} /\ UNCHANGED <<acked, ready>>
          BY <2>6, <3>4, <4>3 DEF Settle
        <5>2. Waiting' = Waiting
          BY <5>1 DEF Waiting
        <5>3. Apart'
          BY <2>1, <2>4, <3>2, <4>1, <5>1, <5>2 DEF Accounted, Apart
        <5> QED BY <2>1, <2>4, <3>2, <5>1, <5>2, <5>3, AccountedMove
      <4>4. CASE phase[c] = "requeue"
        <5>1. /\ ready' = [ready EXCEPT ![QueueOf(c)] = @ \cup {job[c]}]
              /\ UNCHANGED <<acked, dead>>
          BY <2>6, <3>4, <4>4 DEF Settle
        <5>2. Waiting' = Waiting \cup {job[c]}
          BY <2>2, <5>1, WaitingMore
        <5>3. Apart'
          BY <2>1, <2>4, <3>2, <4>1, <5>1, <5>2 DEF Accounted, Apart
        <5> QED BY <2>1, <2>4, <3>2, <5>1, <5>2, <5>3, AccountedMove
      <4> QED BY <2>6, <4>2, <4>3, <4>4 DEF Settle, Settling
    <3> QED BY <3>3, <3>4
  <2>7. CASE CloseChannel(c) \/ LoseConnection(c) \/ Kill(c)
    <3>1. Redeliver(c) /\ Connected(c) /\ pod'[c] \in {"closed", "down"}
      BY <2>2, <2>7 DEF CloseChannel, LoseConnection, Kill, EndProcess, Connected
    <3> QED BY <2>1, <2>3, <3>1, AccountedRedeliver
  <2>8. CASE Start(c) \/ Cancel(c) \/ Exit(c)
    <3>1. UNCHANGED <<ready, acked, dead>>
      BY <2>8 DEF Start, Cancel, Exit, brokerVars
    <3>2. Waiting' = Waiting
      BY <3>1 DEF Waiting
    <3>3. /\ Holds(c)' <=> Holds(c)
          /\ Holds(c) => job'[c] = job[c]
      <4>1. CASE Start(c)
        <5>1. phase[c] = "idle" /\ UNCHANGED phase
          BY <4>1 DEF OwnPhases, Start, handlerVars
        <5> QED BY <5>1 DEF Holds
      <4>2. CASE Cancel(c)
        BY <2>2, <4>2 DEF Cancel, handlerVars, Holds, Connected
      <4>3. CASE Exit(c)
        BY <2>2, <4>3 DEF Exit, EndProcess, Holds, Connected
      <4> QED BY <2>8, <4>1, <4>2, <4>3
    <3>4. Held' = Held /\ SingleHolder'
      BY <2>4, <3>3
    <3>5. Apart'
      BY <2>1, <3>1, <3>2, <3>4 DEF Accounted, Apart
    <3> QED BY <2>1, <3>1, <3>2, <3>4, <3>5, AccountedMove
  <2> QED BY <1>2, <2>5, <2>6, <2>7, <2>8 DEF Bookkeeping
<1> QED BY <1>1, <1>2, StepKinds, AccountedEmission

\* The messages: typed, in the queue of their route, in one place each.
MessageInv == TypeOK /\ Addressed /\ OwnPhases /\ Accounted

LEMMA MessageInit == Init => MessageInv
<1> SUFFICES ASSUME Init PROVE Addressed /\ OwnPhases /\ Accounted
  BY TypeInit DEF MessageInv
<1>1. Addressed /\ OwnPhases
  BY DEF Init, Addressed, OwnPhases, KitchenPhases
<1>2. Waiting = {} /\ Held = {} /\ \A c \in Consumers : ~Holds(c)
  BY DEF Init, Waiting, Held, Holds, Connected
<1>3. \A o \in Orders : Len(history[o]) = 0
  BY DEF Init
<1> QED BY <1>1, <1>2, <1>3 DEF Init, Accounted, Apart, Covered, SingleHolder

LEMMA MessageStep == MessageInv /\ [Next]_vars => MessageInv'
  BY TypeStep, AddressedStep, OwnPhasesStep, AccountedStep DEF MessageInv

LEMMA MessageInvariant == Spec => []MessageInv
  BY MessageInit, MessageStep, PTL DEF Spec

\* No created or accepted order is forgotten or worked on twice at a time:
\* whatever stops, dies or reconnects, its message is in exactly one place,
\* and one live consumer at most holds it.
THEOREM EveryMessageAccounted == Spec => []MessageAccounted
<1>1. ASSUME MessageInv PROVE MessageAccounted
  <2> SUFFICES ASSUME NEW o \in Orders, NEW i \in 1..Len(history[o]), NEW m, m = <<o, i>>
               PROVE  LET places == <<m \in Waiting, m \in Held, m \in acked,
                                      m \in dead, m \in unrouted>>
                      IN  /\ IsMessage(m) => \E k \in 1..5 : places[k]
                          /\ \A k, l \in 1..5 : places[k] /\ places[l] => k = l
                          /\ \A c, d \in Consumers :
                               /\ Connected(c) /\ Connected(d)
                               /\ job[c] = m /\ job[d] = m
                               => c = d
    BY DEF MessageAccounted
  <2>1. IsMessage(m) => m \in Waiting \cup Held \cup acked \cup dead \cup unrouted
    BY <1>1 DEF MessageInv, Accounted, Covered
  <2>2. Apart /\ SingleHolder
    BY <1>1 DEF MessageInv, Accounted
  <2>3. m # NoMessage
    BY <1>1, DispatchAssumption DEF MessageInv, TypeOK
  <2>4. \A c \in Consumers : job[c] = m => phase[c] # "idle"
    BY <1>1, <2>3 DEF MessageInv, TypeOK
  <2>5. \A c, d \in Consumers : /\ Connected(c) /\ Connected(d)
                                /\ job[c] = m /\ job[d] = m
                                => c = d
    BY <2>2, <2>4 DEF SingleHolder, Holds
  <2> DEFINE places == <<m \in Waiting, m \in Held, m \in acked, m \in dead, m \in unrouted>>
  <2>6. /\ places[1] <=> m \in Waiting
        /\ places[2] <=> m \in Held
        /\ places[3] <=> m \in acked
        /\ places[4] <=> m \in dead
        /\ places[5] <=> m \in unrouted
    OBVIOUS
  <2> HIDE DEF places
  <2>7. IsMessage(m) => \E k \in 1..5 : places[k]
    <3>1. 1 \in 1..5 /\ 2 \in 1..5 /\ 3 \in 1..5 /\ 4 \in 1..5 /\ 5 \in 1..5
      OBVIOUS
    <3> QED BY <2>1, <2>6, <3>1, Zenon
  <2>8. \A k, l \in 1..5 : places[k] /\ places[l] => k = l
    <3>1. \A k \in 1..5 : k = 1 \/ k = 2 \/ k = 3 \/ k = 4 \/ k = 5
      OBVIOUS
    <3>2. /\ ~(places[1] /\ (places[2] \/ places[3] \/ places[4] \/ places[5]))
          /\ ~(places[2] /\ (places[3] \/ places[4] \/ places[5]))
          /\ ~(places[3] /\ (places[4] \/ places[5]))
          /\ ~(places[4] /\ places[5])
      BY <2>2, <2>6 DEF Apart
    <3> QED BY <3>1, <3>2, ZenonT(60)
  <2> QED BY <2>5, <2>7, <2>8 DEF places
<1> QED BY <1>1, MessageInvariant, PTL

-----------------------------------------------------------------------------
(***************************************************************************)
(* Acknowledgements are earned: what the event a handler will cite next is *)
(* in each phase, and what is behind an acknowledgement.                   *)
(***************************************************************************)

\* In history h, about the delivery of event i to consumer c.
AssignedAt(h, c, i, a) ==
  a \in 1..Len(h) /\ h[a].type = "courier.assigned" /\ h[a].by = c /\ h[a].cause = i

PickedAt(h, c, i, p) ==
  /\ p \in 1..Len(h) /\ h[p].type = "order.picked_up" /\ h[p].by = c
  /\ AssignedAt(h, c, i, h[p].cause)

DeliveredAt(h, c, i, d) ==
  /\ d \in 1..Len(h) /\ h[d].type = "order.delivered" /\ h[d].by = c
  /\ PickedAt(h, c, i, h[d].cause)

AnsweredAt(h, i, j) ==
  j \in 1..Len(h) /\ h[j].type \in {"order.accepted", "order.rejected"} /\ h[j].cause = i

TrailAt(h, c, t) ==
  /\ t \in 1..Len(h) /\ h[t].by = c
  /\ h[t].type \in {"courier.assigned", "order.picked_up", "courier.location.updated"}

EarnedIn(h, c, i, ph, cite, tr) ==
  /\ ph \in {"cook", "answer", "assign"} => cite = i
  /\ ph \in {"to_restaurant", "pick_up"} => AssignedAt(h, c, i, cite)
  /\ ph \in {"handover", "to_customer", "deliver"} => PickedAt(h, c, i, cite)
  /\ ph \in Legs \cup {"handover"} => TrailAt(h, c, tr)
  /\ ph = "ack" => IF c \in Kitchens THEN \E j \in Nat : AnsweredAt(h, i, j)
                   ELSE \E d \in Nat : DeliveredAt(h, c, i, d)

Earned ==
  \A c \in Consumers :
    phase[c] # "idle" =>
      EarnedIn(history[job[c][1]], c, job[c][2], phase[c], cites[c], trail[c])

AckedDone ==
  \A m \in acked :
    IF Event(m).type = "order.created" THEN \E j \in Nat : AnsweredAt(history[m[1]], m[2], j)
    ELSE \E c \in Couriers, d \in Nat : DeliveredAt(history[m[1]], c, m[2], d)

\* CausalScript of one event.
ScriptedAt(h, i) ==
  IF h[i].type = "order.created" THEN h[i].cause = 0
  ELSE /\ h[i].cause \in 1..(i - 1)
       /\ LET e == h[i]
              k == h[h[i].cause]
          IN  /\ e.type \in {"order.accepted", "order.rejected"} => k.type = "order.created"
              /\ e.type = "courier.assigned" => k.type = "order.accepted"
              /\ e.type = "order.picked_up" => k.type = "courier.assigned" /\ k.by = e.by
              /\ e.type = "order.delivered" => k.type = "order.picked_up" /\ k.by = e.by
              /\ e.type = "courier.location.updated" =>
                   /\ k.by = e.by
                   /\ k.type \in {"courier.assigned", "order.picked_up",
                                  "courier.location.updated"}

Scripted == \A o \in Orders : \A i \in 1..Len(history[o]) : ScriptedAt(history[o], i)

\* None of this is undone when a history grows.
LEMMA Persists ==
  ASSUME NEW h \in Seq(Records), NEW k \in Seq(Records), Len(h) <= Len(k),
         \A i \in 1..Len(h) : k[i] = h[i]
  PROVE  /\ \A c, i, a : AssignedAt(h, c, i, a) => AssignedAt(k, c, i, a)
         /\ \A c, i, p : PickedAt(h, c, i, p) => PickedAt(k, c, i, p)
         /\ \A c, i, d : DeliveredAt(h, c, i, d) => DeliveredAt(k, c, i, d)
         /\ \A i, j : AnsweredAt(h, i, j) => AnsweredAt(k, i, j)
         /\ \A c, t : TrailAt(h, c, t) => TrailAt(k, c, t)
         /\ \A c, i, ph, cite, tr : EarnedIn(h, c, i, ph, cite, tr) => EarnedIn(k, c, i, ph, cite, tr)
         /\ \A i \in 1..Len(h) : ScriptedAt(h, i) => ScriptedAt(k, i)
<1>1. Len(h) \in Nat /\ Len(k) \in Nat /\ \A i \in 1..Len(h) : i \in 1..Len(k)
  OBVIOUS
<1>2. \A c, i, a : AssignedAt(h, c, i, a) => AssignedAt(k, c, i, a)
  BY <1>1 DEF AssignedAt
<1>3. \A c, i, p : PickedAt(h, c, i, p) => PickedAt(k, c, i, p)
  BY <1>1, <1>2 DEF PickedAt
<1>4. \A c, i, d : DeliveredAt(h, c, i, d) => DeliveredAt(k, c, i, d)
  BY <1>1, <1>3 DEF DeliveredAt
<1>5. \A i, j : AnsweredAt(h, i, j) => AnsweredAt(k, i, j)
  BY <1>1 DEF AnsweredAt
<1>6. \A c, t : TrailAt(h, c, t) => TrailAt(k, c, t)
  BY <1>1 DEF TrailAt
<1>7. \A c, i, ph, cite, tr : EarnedIn(h, c, i, ph, cite, tr) => EarnedIn(k, c, i, ph, cite, tr)
  BY <1>2, <1>3, <1>4, <1>5, <1>6 DEF EarnedIn
<1>8. ASSUME NEW i \in 1..Len(h), ScriptedAt(h, i) PROVE ScriptedAt(k, i)
  <2>1. k[i] = h[i]
    OBVIOUS
  <2>2. h[i].cause \in 1..(i - 1) => k[h[i].cause] = h[h[i].cause]
    BY <1>1
  <2> QED BY <1>8, <2>1, <2>2 DEF ScriptedAt
<1> QED BY <1>2, <1>3, <1>4, <1>5, <1>6, <1>7, <1>8

\* Kitchens handle order.created, couriers order.accepted.
LEMMA JobType ==
  ASSUME MessageInv, NEW c \in Consumers, phase[c] # "idle"
  PROVE  /\ Event(job[c]).type = IF c \in Kitchens THEN "order.created" ELSE "order.accepted"
         /\ job[c][1] \in Orders /\ job[c][2] \in 1..Len(history[job[c][1]])
         /\ job[c][2] \in Nat
<1>1. TypeOK /\ Addressed
  BY DEF MessageInv
<1>2. IsMessage(job[c]) /\ QueueOf(c) \in RouteOf(history, job[c])
  BY <1>1, JobIsMessage DEF Addressed
<1>3. QueueOf(c) = DispatchQueue <=> c \notin Kitchens
  BY DispatchAssumption DEF QueueOf
<1> QED BY <1>1, <1>2, <1>3, OneRoute, JobIsMessage DEF IsMessage

\* A handler that publishes knows the event it cites, whatever comes of it.
LEMMA PublishScripted ==
  ASSUME MessageInv, Earned, NEW c \in Consumers, NEW s \in Scripts, phase[c] = s[1],
         NEW k \in Seq(Records),
         Len(k) = Len(history[job[c][1]]) + 1,
         \A i \in 1..Len(history[job[c][1]]) : k[i] = history[job[c][1]][i],
         k[Len(k)] = [type |-> s[2], by |-> c,
                      cause |-> IF s[2] = "courier.location.updated" THEN trail[c] ELSE cites[c]]
  PROVE  /\ ScriptedAt(k, Len(k))
         /\ EarnedIn(k, c, job[c][2], s[3],
                     IF s[2] = "courier.location.updated" THEN cites[c] ELSE Len(k), Len(k))
<1> DEFINE h == history[job[c][1]]
           i == job[c][2]
           n == Len(k)
<1>1. s[1] # "idle"
  BY DEF Scripts
<1>2. /\ h[i].type = IF c \in Kitchens THEN "order.created" ELSE "order.accepted"
      /\ i \in 1..Len(h) /\ h \in Seq(Records) /\ Len(h) \in Nat
  <2>1. /\ Event(job[c]).type = IF c \in Kitchens THEN "order.created" ELSE "order.accepted"
        /\ job[c][1] \in Orders /\ i \in 1..Len(h)
    BY <1>1, JobType
  <2>2. h \in Seq(Records)
    BY <2>1 DEF MessageInv, TypeOK
  <2> QED BY <2>1, <2>2 DEF Event
<1>3. /\ c \in Kitchens => phase[c] \in KitchenPhases
      /\ c \in Couriers => phase[c] \notin {"cook", "answer"}
      /\ c \in Kitchens \/ c \in Couriers
  BY DEF MessageInv, OwnPhases, Consumers
<1>4. EarnedIn(h, c, i, s[1], cites[c], trail[c])
  BY <1>1 DEF Earned
<1>5. /\ n \in Nat /\ n \in 1..n /\ n = Len(h) + 1
      /\ \A j \in 1..Len(h) : j \in 1..(n - 1) /\ k[j] = h[j] /\ j \in 1..n
      /\ k[n].type = s[2] /\ k[n].by = c
      /\ k[n].cause = IF s[2] = "courier.location.updated" THEN trail[c] ELSE cites[c]
  BY <1>2
<1>6. /\ \A a : AssignedAt(h, c, i, a) => AssignedAt(k, c, i, a) /\ a \in 1..Len(h)
      /\ \A p : PickedAt(h, c, i, p) => PickedAt(k, c, i, p) /\ p \in 1..Len(h)
      /\ \A t : TrailAt(h, c, t) => TrailAt(k, c, t) /\ t \in 1..Len(h)
  <2> HIDE DEF h, i
  <2>1. Len(h) <= Len(k) /\ \A j \in 1..Len(h) : k[j] = h[j]
    BY <1>2, <1>5 DEF n
  <2>2. /\ \A a : AssignedAt(h, c, i, a) => AssignedAt(k, c, i, a)
        /\ \A p : PickedAt(h, c, i, p) => PickedAt(k, c, i, p)
        /\ \A t : TrailAt(h, c, t) => TrailAt(k, c, t)
    BY <1>2, <2>1, Persists
  <2> QED BY <2>2 DEF AssignedAt, PickedAt, TrailAt
<1> HIDE DEF h, i, n
<1> SUFFICES /\ ScriptedAt(k, n)
             /\ EarnedIn(k, c, i, s[3],
                         IF s[2] = "courier.location.updated" THEN cites[c] ELSE n, n)
  BY DEF i, n
<1>7. CASE s[1] = "answer"
  <2>1. c \in Kitchens /\ s[2] \in {"order.accepted", "order.rejected"} /\ s[3] = "ack"
    BY <1>3, <1>7 DEF Scripts
  <2>2. cites[c] = i
    BY <1>4, <1>7 DEF EarnedIn
  <2>3. AnsweredAt(k, i, n)
    BY <1>5, <2>1, <2>2 DEF AnsweredAt, n
  <2>4. ScriptedAt(k, n)
    BY <1>2, <1>5, <2>1, <2>2 DEF ScriptedAt
  <2> QED BY <1>5, <2>1, <2>3, <2>4 DEF EarnedIn, Legs
<1>8. CASE s[1] = "assign"
  <2>1. c \notin Kitchens /\ s[2] = "courier.assigned" /\ s[3] = "to_restaurant"
    BY <1>3, <1>8 DEF Scripts, KitchenPhases, Settling
  <2>2. cites[c] = i
    BY <1>4, <1>8 DEF EarnedIn
  <2>3. AssignedAt(k, c, i, n) /\ TrailAt(k, c, n)
    BY <1>5, <2>1, <2>2 DEF AssignedAt, TrailAt, n
  <2>4. ScriptedAt(k, n)
    BY <1>2, <1>5, <2>1, <2>2 DEF ScriptedAt
  <2> QED BY <2>1, <2>3, <2>4 DEF EarnedIn, Legs
<1>9. CASE s[1] \in Legs
  <2>1. s[2] = "courier.location.updated" /\ s[3] = s[1]
    BY <1>9 DEF Scripts, Legs
  <2>2. TrailAt(h, c, trail[c])
    BY <1>4, <1>9 DEF EarnedIn
  <2>3. TrailAt(k, c, n)
    BY <1>5, <2>1 DEF TrailAt, n
  <2>4. ScriptedAt(k, n)
    BY <1>5, <1>6, <2>1, <2>2 DEF ScriptedAt, TrailAt
  <2>5. /\ s[1] = "to_restaurant" => AssignedAt(k, c, i, cites[c])
        /\ s[1] = "to_customer" => PickedAt(k, c, i, cites[c])
    BY <1>4, <1>6 DEF EarnedIn
  <2> QED BY <1>9, <2>1, <2>3, <2>4, <2>5 DEF EarnedIn, Legs
<1>10. CASE s[1] = "pick_up"
  <2>1. s[2] = "order.picked_up" /\ s[3] = "handover"
    BY <1>10 DEF Scripts
  <2>2. AssignedAt(h, c, i, cites[c])
    BY <1>4, <1>10 DEF EarnedIn
  <2>3. PickedAt(k, c, i, n) /\ TrailAt(k, c, n)
    BY <1>5, <1>6, <2>1, <2>2 DEF PickedAt, TrailAt, n
  <2>4. ScriptedAt(k, n)
    BY <1>5, <1>6, <2>1, <2>2 DEF ScriptedAt, AssignedAt
  <2> QED BY <2>1, <2>3, <2>4 DEF EarnedIn, Legs
<1>11. CASE s[1] = "deliver"
  <2>1. s[2] = "order.delivered" /\ s[3] = "ack" /\ c \notin Kitchens
    BY <1>3, <1>11 DEF Scripts, KitchenPhases, Settling
  <2>2. PickedAt(h, c, i, cites[c])
    BY <1>4, <1>11 DEF EarnedIn
  <2>3. DeliveredAt(k, c, i, n)
    BY <1>5, <1>6, <2>1, <2>2 DEF DeliveredAt, n
  <2>4. ScriptedAt(k, n)
    BY <1>5, <1>6, <2>1, <2>2 DEF ScriptedAt, PickedAt
  <2> QED BY <1>5, <2>1, <2>3, <2>4 DEF EarnedIn, Legs
<1> QED BY <1>7, <1>8, <1>9, <1>10, <1>11 DEF Scripts, Legs

EarnedInv == Earned /\ AckedDone /\ Scripted

\* What was earned stays earned when the histories grow.
LEMMA EarnedPersists ==
  ASSUME MessageInv, EarnedInv, Grown, history' \in [Orders -> Seq(Records)]
  PROVE  /\ \A c \in Consumers :
              phase[c] # "idle" =>
                EarnedIn(history'[job[c][1]], c, job[c][2], phase[c], cites[c], trail[c])
         /\ acked' = acked => AckedDone'
         /\ \A o \in Orders : \A i \in 1..Len(history[o]) : ScriptedAt(history'[o], i)
<1>1. ASSUME NEW o \in Orders
      PROVE  /\ history[o] \in Seq(Records) /\ history'[o] \in Seq(Records)
             /\ Len(history[o]) <= Len(history'[o])
             /\ \A i \in 1..Len(history[o]) : history'[o][i] = history[o][i]
  BY DEF Grown, MessageInv, TypeOK
<1>2. ASSUME NEW c \in Consumers, phase[c] # "idle"
      PROVE  EarnedIn(history'[job[c][1]], c, job[c][2], phase[c], cites[c], trail[c])
  <2>1. job[c][1] \in Orders
    BY <1>2, JobType
  <2>2. EarnedIn(history[job[c][1]], c, job[c][2], phase[c], cites[c], trail[c])
    BY <1>2 DEF EarnedInv, Earned
  <2>3. \A d, i, ph, cite, tr : EarnedIn(history[job[c][1]], d, i, ph, cite, tr)
                                => EarnedIn(history'[job[c][1]], d, i, ph, cite, tr)
    BY <1>1, <2>1, Persists
  <2> QED BY <2>2, <2>3
<1>3. ASSUME acked' = acked PROVE AckedDone'
  <2> SUFFICES ASSUME NEW m \in acked
               PROVE  IF history'[m[1]][m[2]].type = "order.created"
                      THEN \E j \in Nat : AnsweredAt(history'[m[1]], m[2], j)
                      ELSE \E c \in Couriers, d \in Nat : DeliveredAt(history'[m[1]], c, m[2], d)
    BY <1>3 DEF AckedDone, Event
  <2>1. m[1] \in Orders /\ m[2] \in 1..Len(history[m[1]])
    BY DEF MessageInv, TypeOK, IsMessage
  <2>2. IF history[m[1]][m[2]].type = "order.created"
        THEN \E j \in Nat : AnsweredAt(history[m[1]], m[2], j)
        ELSE \E c \in Couriers, d \in Nat : DeliveredAt(history[m[1]], c, m[2], d)
    BY DEF EarnedInv, AckedDone, Event
  <2>3. /\ \A j : AnsweredAt(history[m[1]], m[2], j) => AnsweredAt(history'[m[1]], m[2], j)
        /\ \A c, d : DeliveredAt(history[m[1]], c, m[2], d) => DeliveredAt(history'[m[1]], c, m[2], d)
    BY <1>1, <2>1, Persists
  <2>4. history'[m[1]][m[2]] = history[m[1]][m[2]]
    BY <1>1, <2>1
  <2> QED BY <2>2, <2>3, <2>4
<1>4. ASSUME NEW o \in Orders, NEW i \in 1..Len(history[o]) PROVE ScriptedAt(history'[o], i)
  <2>1. ScriptedAt(history[o], i)
    BY DEF EarnedInv, Scripted
  <2> QED BY <1>1, <2>1, Persists
<1> QED BY <1>2, <1>3, <1>4

LEMMA EarnedCreate ==
  ASSUME MessageInv, EarnedInv, NEW o \in Orders, CreateOrder(o)
  PROVE  EarnedInv'
<1>1. /\ TypeOK /\ Emit(o, "order.created", "customer", 0) /\ history[o] = <<>>
      /\ UNCHANGED <<phase, job, cites, trail, acked>>
  BY DEF CreateOrder, handlerVars, MessageInv, Emit
<1>2. Extends(o, [type |-> "order.created", by |-> "customer", cause |-> 0])
  BY <1>1, EmitExtends DEF EventTypes
<1>3. Grown /\ history' \in [Orders -> Seq(Records)]
  BY <1>2 DEF Extends
<1>4. Earned' /\ AckedDone'
  BY <1>1, <1>3, EarnedPersists DEF Earned
<1>5. ScriptedAt(history'[o], 1) /\ Len(history'[o]) = 1
  BY <1>1, <1>2 DEF Extends, ScriptedAt
<1>6. Scripted'
  <2> SUFFICES ASSUME NEW p \in Orders, NEW i \in 1..Len(history'[p])
               PROVE  ScriptedAt(history'[p], i)
    BY DEF Scripted
  <2>1. CASE p = o
    <3>1. i \in 1..1
      BY <1>5, <2>1
    <3>2. i = 1
      BY <3>1
    <3> QED BY <1>5, <2>1, <3>2
  <2>2. CASE p # o
    <3>1. i \in 1..Len(history[p])
      BY <1>2, <2>2 DEF Extends
    <3> QED BY <1>3, <3>1, EarnedPersists
  <2> QED BY <2>1, <2>2
<1> QED BY <1>4, <1>6 DEF EarnedInv

LEMMA EarnedPublish ==
  ASSUME MessageInv, EarnedInv, NEW c \in Consumers, Publishes(c)
  PROVE  EarnedInv'
<1> PICK s \in Scripts : phase[c] = s[1] /\ Publish(c, s[2], s[3])
  BY DEF Publishes
<1> DEFINE o == job[c][1]
           k == history'[o]
<1>1. TypeOK
  BY DEF MessageInv
<1>2. /\ s[2] \in EventTypes /\ o \in Orders
      /\ UNCHANGED <<acked, job>>
      /\ \/ /\ EmitFrom(c, s[2])
            /\ \E p \in {s[3], "reject", "requeue"} : phase' = [phase EXCEPT ![c] = p]
         \/ UNCHANGED brokerVars /\ phase' = [phase EXCEPT ![c] = "reject"]
  BY <1>1, PublishEffect
<1>3. /\ phase \in [Consumers -> Phases]
      /\ cites \in [Consumers -> Nat] /\ trail \in [Consumers -> Nat]
      /\ history \in [Orders -> Seq(Records)]
  BY <1>1 DEF TypeOK
<1>4. \A h, i, cite, tr : /\ EarnedIn(h, c, i, "reject", cite, tr)
                          /\ EarnedIn(h, c, i, "requeue", cite, tr)
  BY DEF EarnedIn, Legs
<1>5. ASSUME Grown, history' \in [Orders -> Seq(Records)],
             EarnedIn(k, c, job[c][2], phase'[c], cites'[c], trail'[c])
      PROVE  Earned' /\ AckedDone'
  <2>1. \A d \in Consumers \ {c} :
          phase'[d] = phase[d] /\ cites'[d] = cites[d] /\ trail'[d] = trail[d]
    BY <1>3 DEF Publish, Confirmed, Broken, Nacked, Unwaited
  <2> QED BY <1>2, <1>5, <2>1, EarnedPersists DEF Earned
<1>6. CASE UNCHANGED brokerVars /\ phase' = [phase EXCEPT ![c] = "reject"]
  <2>1. Grown /\ UNCHANGED history
    BY <1>1, <1>6, NothingNew DEF brokerVars
  <2>2. Earned' /\ AckedDone'
    BY <1>3, <1>4, <1>5, <1>6, <2>1
  <2> QED BY <2>1, <2>2 DEF EarnedInv, Scripted
<1>7. CASE EmitFrom(c, s[2])
  <2> PICK cause \in Nat :
        /\ cause = IF s[2] = "courier.location.updated" THEN trail[c] ELSE cites[c]
        /\ Emit(o, s[2], c, cause)
    BY <1>1, <1>2, <1>7, EmitFromEmits
  <2>1. Extends(o, [type |-> s[2], by |-> c, cause |-> cause])
    BY <1>1, <1>2, EmitExtends
  <2>2. /\ k \in Seq(Records) /\ Len(k) = Len(history[o]) + 1
        /\ \A i \in 1..Len(history[o]) : k[i] = history[o][i]
        /\ k[Len(k)] = [type |-> s[2], by |-> c, cause |-> cause]
        /\ Grown /\ history' \in [Orders -> Seq(Records)]
    BY <1>2, <2>1 DEF Extends, Grown
  <2>3. /\ ScriptedAt(k, Len(k))
        /\ EarnedIn(k, c, job[c][2], s[3],
                    IF s[2] = "courier.location.updated" THEN cites[c] ELSE Len(k), Len(k))
    BY <2>2, PublishScripted DEF EarnedInv
  <2>4. Scripted'
    <3> SUFFICES ASSUME NEW p \in Orders, NEW i \in 1..Len(history'[p])
                 PROVE  ScriptedAt(history'[p], i)
      BY DEF Scripted
    <3>1. CASE p = o /\ i = Len(k)
      BY <2>3, <3>1
    <3>2. CASE ~(p = o /\ i = Len(k))
      <4>1. Len(history[p]) \in Nat /\ Len(history'[p]) \in Nat
        BY <1>3, <2>2
      <4>2. i \in 1..Len(history[p])
        BY <2>1, <2>2, <3>2, <4>1 DEF Extends
      <4> QED BY <2>2, <4>2, EarnedPersists
    <3> QED BY <3>1, <3>2
  <2>5. EarnedIn(k, c, job[c][2], phase'[c], cites'[c], trail'[c])
    <3>1. CASE Confirmed(c, s[2], s[3])
      <4>1. /\ phase'[c] = s[3] /\ trail'[c] = Len(k)
            /\ cites'[c] = IF s[2] = "courier.location.updated" THEN cites[c] ELSE Len(k)
        BY <1>3, <3>1 DEF Confirmed
      <4> QED BY <2>3, <4>1
    <3>2. CASE Broken(c, s[2]) \/ Nacked(c, s[2]) \/ Unwaited(c, s[2])
      <4>1. phase'[c] \in {"reject", "requeue"}
        BY <1>3, <3>2 DEF Broken, Nacked, Unwaited
      <4> QED BY <1>4, <4>1
    <3> QED BY <3>1, <3>2 DEF Publish
  <2> QED BY <1>5, <2>2, <2>4, <2>5 DEF EarnedInv
<1> QED BY <1>2, <1>6, <1>7

LEMMA EarnedSilent ==
  ASSUME MessageInv, EarnedInv, NEW c \in Consumers, Silent(c)
  PROVE  EarnedInv'
<1>1. TypeOK /\ UNCHANGED history /\ Scripted'
  BY SilentHistory DEF MessageInv, EarnedInv, Scripted
<1>2. /\ phase \in [Consumers -> Phases]
      /\ job \in [Consumers -> (Orders \X Nat) \cup {NoMessage}]
      /\ cites \in [Consumers -> Nat] /\ trail \in [Consumers -> Nat]
  BY <1>1 DEF TypeOK
<1> DEFINE EarnedBy(d) ==
      phase'[d] # "idle" =>
        EarnedIn(history[job'[d][1]], d, job'[d][2], phase'[d], cites'[d], trail'[d])
<1>3. \A d \in Consumers :
        phase[d] # "idle" =>
          EarnedIn(history[job[d][1]], d, job[d][2], phase[d], cites[d], trail[d])
  BY DEF EarnedInv, Earned
<1>4. ASSUME UNCHANGED acked, EarnedBy(c),
             \A d \in Consumers \ {c} :
               /\ phase'[d] = phase[d] /\ job'[d] = job[d]
               /\ cites'[d] = cites[d] /\ trail'[d] = trail[d]
      PROVE  EarnedInv'
  <2>1. Earned'
    BY <1>1, <1>3, <1>4 DEF Earned
  <2>2. AckedDone'
    BY <1>1, <1>4 DEF EarnedInv, AckedDone, Event
  <2> QED BY <1>1, <2>1, <2>2 DEF EarnedInv
<1>5. CASE \E m \in ready[QueueOf(c)] : Take(c, m)
  <2> PICK m \in ready[QueueOf(c)] : Take(c, m)
    BY <1>5
  <2>1. /\ phase'[c] \in {"cook", "assign"} /\ job'[c] = m /\ cites'[c] = m[2]
    <3>1. m \in Orders \X Nat
      BY <1>1, QueuesOfConsumers DEF TypeOK
    <3> QED BY <1>2, <3>1 DEF Take, FirstPhase
  <2>2. EarnedBy(c)
    BY <2>1 DEF EarnedIn, Legs
  <2> QED BY <1>2, <1>4, <2>2 DEF Take
<1>6. CASE MovesOn(c)
  <2> PICK s \in Moves : phase[c] = s[1] /\ phase' = [phase EXCEPT ![c] = s[2]]
    BY <1>6 DEF MovesOn
  <2>1. UNCHANGED <<job, cites, trail, acked>>
    BY <1>6 DEF MovesOn, brokerVars
  <2>2. \A h, i, cite, tr : EarnedIn(h, c, i, s[1], cite, tr) => EarnedIn(h, c, i, s[2], cite, tr)
    BY DEF Moves, EarnedIn, Legs
  <2>3. s[1] # "idle"
    BY DEF Moves, Legs
  <2>4. EarnedBy(c)
    BY <1>2, <1>3, <2>1, <2>2, <2>3
  <2> QED BY <1>2, <1>4, <2>1, <2>4
<1>7. ASSUME EndHandler(c)
      PROVE  /\ EarnedBy(c)
             /\ \A d \in Consumers \ {c} :
                  /\ phase'[d] = phase[d] /\ job'[d] = job[d]
                  /\ cites'[d] = cites[d] /\ trail'[d] = trail[d]
  BY <1>2, <1>7 DEF EndHandler
<1>8. CASE Settle(c)
  <2>1. CASE UNCHANGED acked
    BY <1>4, <1>7, <1>8, <2>1 DEF Settle
  <2>2. CASE phase[c] = "ack" /\ acked' = acked \cup {job[c]}
    <3>1. Earned'
      BY <1>1, <1>3, <1>7, <1>8 DEF Settle, Earned
    <3>2. EarnedIn(history[job[c][1]], c, job[c][2], "ack", cites[c], trail[c])
      BY <1>3, <2>2
    <3>3. Event(job[c]).type = IF c \in Kitchens THEN "order.created" ELSE "order.accepted"
      BY <2>2, JobType
    <3>4. IF Event(job[c]).type = "order.created"
          THEN \E j \in Nat : AnsweredAt(history[job[c][1]], job[c][2], j)
          ELSE \E d \in Couriers, j \in Nat : DeliveredAt(history[job[c][1]], d, job[c][2], j)
      BY <3>2, <3>3 DEF EarnedIn, Consumers
    <3>5. AckedDone'
      BY <1>1, <2>2, <3>4 DEF EarnedInv, AckedDone, Event
    <3> QED BY <1>1, <3>1, <3>5 DEF EarnedInv
  <2> QED BY <1>8, <2>1, <2>2 DEF Settle
<1>9. CASE CloseChannel(c) \/ LoseConnection(c) \/ Start(c) \/ Cancel(c)
  <2>1. UNCHANGED <<acked, phase, job, cites, trail>>
    BY <1>9 DEF CloseChannel, LoseConnection, Start, Cancel, Redeliver, handlerVars, brokerVars
  <2> QED BY <1>3, <1>4, <2>1
<1>10. CASE Exit(c) \/ Kill(c)
  <2>1. EndHandler(c) /\ UNCHANGED acked
    BY <1>10 DEF Exit, Kill, EndProcess, Redeliver, brokerVars
  <2> QED BY <1>4, <1>7, <2>1
<1> QED BY <1>5, <1>6, <1>8, <1>9, <1>10 DEF Silent

LEMMA EarnedInvariant == Spec => [](MessageInv /\ EarnedInv)
<1>1. Init => MessageInv /\ EarnedInv
  <2>1. Init => EarnedInv
    BY DEF Init, EarnedInv, Earned, AckedDone, Scripted
  <2> QED BY <2>1, MessageInit
<1>2. MessageInv /\ EarnedInv /\ [Next]_vars => (MessageInv /\ EarnedInv)'
  <2> SUFFICES ASSUME MessageInv, EarnedInv, [Next]_vars PROVE EarnedInv'
    BY MessageStep
  <2>1. CASE UNCHANGED vars
    BY <2>1 DEF vars, brokerVars, handlerVars, EarnedInv, Earned, AckedDone, Event, Scripted
  <2>2. ASSUME NEW c \in Consumers, ConsumerStep(c) PROVE EarnedInv'
    BY <2>2, EarnedPublish, EarnedSilent DEF ConsumerStep, Silent
  <2> QED BY <2>1, <2>2, EarnedCreate, Steps DEF MessageInv
<1> QED BY <1>1, <1>2, PTL DEF Spec

\* An acknowledgement is never early: behind an acknowledged order.created there
\* is the kitchen's answer, behind an acknowledged order.accepted the unbroken
\* chain assigned, picked up, delivered of one courier.
THEOREM AcknowledgedIsDone == Spec => []AckMeansDone
<1>1. ASSUME MessageInv, EarnedInv PROVE AckMeansDone
  <2> SUFFICES ASSUME NEW m \in acked, NEW o, o = m[1], NEW h, h = history[o]
               PROVE  IF Event(m).type = "order.created"
                      THEN \E j \in Causes(o, m[2]) :
                             h[j].type \in {"order.accepted", "order.rejected"}
                      ELSE \E a \in Causes(o, m[2]) : h[a].type = "courier.assigned" /\
                             \E p \in Causes(o, a) : h[p].type = "order.picked_up" /\
                               \E d \in Causes(o, p) :
                                 h[d].type = "order.delivered" /\ h[d].by = h[a].by
    BY DEF AckMeansDone
  <2>1. IF Event(m).type = "order.created" THEN \E j \in Nat : AnsweredAt(h, m[2], j)
        ELSE \E c \in Couriers, d \in Nat : DeliveredAt(h, c, m[2], d)
    BY <1>1 DEF EarnedInv, AckedDone
  <2>2. \A j, i : i \in Causes(o, j) <=> i \in 1..Len(h) /\ h[i].cause = j
    BY DEF Causes
  <2>3. CASE Event(m).type = "order.created"
    BY <2>1, <2>2, <2>3 DEF AnsweredAt
  <2>4. CASE Event(m).type # "order.created"
    <3> PICK c \in Couriers, d \in Nat : DeliveredAt(h, c, m[2], d)
      BY <2>1, <2>4
    <3> DEFINE p == h[d].cause
               a == h[p].cause
    <3>1. /\ d \in Causes(o, p) /\ h[d].type = "order.delivered" /\ h[d].by = c
          /\ p \in Causes(o, a) /\ h[p].type = "order.picked_up"
          /\ a \in Causes(o, m[2]) /\ h[a].type = "courier.assigned" /\ h[a].by = c
      BY <2>2 DEF DeliveredAt, PickedAt, AssignedAt
    <3> HIDE DEF p, a
    <3> QED BY <2>4, <3>1
  <2> QED BY <2>3, <2>4
<1> QED BY <1>1, EarnedInvariant, PTL

\* Whatever is repeated or interrupted, the causation ids form the script of the
\* services: each event names an earlier event of its order that can cause it.
THEOREM CausesFollowScript == Spec => []CausalScript
<1>1. ASSUME MessageInv, EarnedInv PROVE CausalScript
  <2> SUFFICES ASSUME NEW o \in Orders, NEW i \in 1..Len(history[o])
               PROVE  LET e == history[o][i]
                          c == history[o][e.cause]
                          own == c.by = e.by
                      IN  IF e.type = "order.created" THEN e.cause = 0
                          ELSE /\ e.cause \in 1..(i - 1)
                               /\ CASE e.type \in {"order.accepted", "order.rejected"} ->
                                         c.type = "order.created"
                                    [] e.type = "courier.assigned" -> c.type = "order.accepted"
                                    [] e.type = "order.picked_up" ->
                                         c.type = "courier.assigned" /\ own
                                    [] e.type = "order.delivered" ->
                                         c.type = "order.picked_up" /\ own
                                    [] e.type = "courier.location.updated" ->
                                         own /\ c.type \in {"courier.assigned",
                                           "order.picked_up", "courier.location.updated"}
    BY DEF CausalScript
  <2>1. ScriptedAt(history[o], i)
    BY <1>1 DEF EarnedInv, Scripted
  <2>2. history[o][i] \in Records
    BY <1>1 DEF MessageInv, TypeOK
  <2>3. history[o][i].type \in EventTypes
    BY <2>2 DEF Records
  <2> QED BY <2>1, <2>3 DEF ScriptedAt, EventTypes
<1> QED BY <1>1, EarnedInvariant, PTL

-----------------------------------------------------------------------------
(***************************************************************************)
(* Tokens.  For each milestone of an order there is one token, and one     *)
(* more per requeue: a waiting message that leads to the milestone, a      *)
(* consumer on its way to it, or an event that marks it done.              *)
(***************************************************************************)
Milestones == {"answer", "assign", "pick_up", "deliver"}

\* The phases from which a handler, or the one it triggers, reaches g.
Before(g) ==
  {"cook", "answer"}
    \cup (IF g = "answer" THEN {} ELSE {"assign"})
    \cup (IF g \in {"answer", "assign"} THEN {} ELSE {"to_restaurant", "pick_up"})
    \cup (IF g = "deliver" THEN {"handover", "to_customer", "deliver"} ELSE {})

Marked(g) ==
  {"order.rejected"}
    \cup (CASE g = "answer"  -> {"order.accepted"}
            [] g = "assign"  -> {"courier.assigned"}
            [] g = "pick_up" -> {"order.picked_up"}
            [] g = "deliver" -> {"order.delivered"})

Starting(g) ==
  {"order.created"} \cup (IF g = "answer" THEN {} ELSE {"order.accepted"})

MarksIn(h, waiting, o, g) ==
  {i \in 1..Len(h[o]) : \/ h[o][i].type \in Marked(g)
                        \/ h[o][i].type \in Starting(g) /\ <<o, i>> \in waiting}

WorkingIn(ph, jb, o, g) == {c \in Consumers : ph[c] \in Before(g) /\ jb[c][1] = o}

Tokens ==
  \A o \in Orders : \A g \in Milestones :
    Cardinality(MarksIn(history, Waiting, o, g)) + Cardinality(WorkingIn(phase, job, o, g))
      <= 1 + requeued[o]

LEMMA MilestoneFacts ==
  ASSUME NEW g \in Milestones
  PROVE  /\ \A s \in Moves : s[2] \in Before(g) => s[1] \in Before(g)
         /\ \A s \in Scripts :
              /\ s[3] \in Before(g) => s[1] \in Before(g)
              /\ s[2] \in Marked(g) \cup Starting(g) => s[1] \in Before(g) /\ s[3] \notin Before(g)
         /\ {"idle", "ack", "reject", "requeue"} \cap Before(g) = {}
         /\ "cook" \in Before(g) /\ "order.created" \in Starting(g)
         /\ "assign" \in Before(g) => "order.accepted" \in Starting(g)
         /\ Starting(g) \cap Marked(g) = {}
<1>1. CASE g = "answer"
  BY <1>1 DEF Moves, Scripts, Legs, Before, Marked, Starting
<1>2. CASE g = "assign"
  BY <1>2 DEF Moves, Scripts, Legs, Before, Marked, Starting
<1>3. CASE g = "pick_up"
  BY <1>3 DEF Moves, Scripts, Legs, Before, Marked, Starting
<1>4. CASE g = "deliver"
  BY <1>4 DEF Moves, Scripts, Legs, Before, Marked, Starting
<1> QED BY <1>1, <1>2, <1>3, <1>4 DEF Milestones

\* Finite sets that gain or lose an element.
LEMMA AtMostOneMore ==
  ASSUME NEW S, IsFiniteSet(S), NEW T, NEW x, T \subseteq S \cup {x}
  PROVE  IsFiniteSet(T) /\ Cardinality(T) \in Nat /\ Cardinality(S) \in Nat
         /\ Cardinality(T) <= Cardinality(S) + 1
<1>1. /\ IsFiniteSet(S \cup {x}) /\ Cardinality(S) \in Nat
      /\ Cardinality(S \cup {x}) \in {Cardinality(S), Cardinality(S) + 1}
  BY FS_AddElement, FS_CardinalityType
<1>2. IsFiniteSet(T) /\ Cardinality(T) <= Cardinality(S \cup {x})
  BY <1>1, FS_Subset
<1>3. Cardinality(T) \in Nat
  BY <1>2, FS_CardinalityType
<1> QED BY <1>1, <1>2, <1>3

LEMMA AtLeastOneLess ==
  ASSUME NEW S, IsFiniteSet(S), NEW x \in S, NEW T, T \subseteq S \ {x}
  PROVE  IsFiniteSet(T) /\ Cardinality(T) \in Nat /\ Cardinality(S) \in Nat
         /\ Cardinality(T) + 1 <= Cardinality(S)
<1>1. /\ IsFiniteSet(S \ {x}) /\ Cardinality(S) \in Nat
      /\ Cardinality(S \ {x}) = Cardinality(S) - 1
  BY FS_RemoveElement, FS_CardinalityType
<1>2. IsFiniteSet(T) /\ Cardinality(T) <= Cardinality(S \ {x})
  BY <1>1, FS_Subset
<1>3. Cardinality(T) \in Nat
  BY <1>2, FS_CardinalityType
<1> QED BY <1>1, <1>2, <1>3

\* The token moves, or is lost, or a requeue brings another.
LEMMA TokenMoves ==
  ASSUME NEW A, NEW B, NEW C, NEW D, IsFiniteSet(A), IsFiniteSet(B),
         NEW r \in Nat, NEW t \in Nat, Cardinality(A) + Cardinality(B) <= 1 + r,
         \/ C \subseteq A /\ D \subseteq B /\ r <= t
         \/ (\E i : C \subseteq A \cup {i}) /\ (\E c \in B : D \subseteq B \ {c}) /\ r <= t
         \/ (\E i \in A : C \subseteq A \ {i}) /\ (\E c : D \subseteq B \cup {c}) /\ r <= t
         \/ (\E i : C \subseteq A \cup {i}) /\ D \subseteq B /\ r + 1 <= t
  PROVE  Cardinality(C) + Cardinality(D) <= 1 + t
<1>1. Cardinality(A) \in Nat /\ Cardinality(B) \in Nat
  BY FS_CardinalityType
<1>2. C \subseteq A => Cardinality(C) \in Nat /\ Cardinality(C) <= Cardinality(A)
  BY FS_Subset, FS_CardinalityType
<1>3. D \subseteq B => Cardinality(D) \in Nat /\ Cardinality(D) <= Cardinality(B)
  BY FS_Subset, FS_CardinalityType
<1>4. ASSUME NEW i, C \subseteq A \cup {i}
      PROVE  Cardinality(C) \in Nat /\ Cardinality(C) <= Cardinality(A) + 1
  BY <1>4, AtMostOneMore
<1>5. ASSUME NEW c, D \subseteq B \cup {c}
      PROVE  Cardinality(D) \in Nat /\ Cardinality(D) <= Cardinality(B) + 1
  BY <1>5, AtMostOneMore
<1>6. ASSUME NEW i \in A, C \subseteq A \ {i}
      PROVE  Cardinality(C) \in Nat /\ Cardinality(C) + 1 <= Cardinality(A)
  BY <1>6, AtLeastOneLess
<1>7. ASSUME NEW c \in B, D \subseteq B \ {c}
      PROVE  Cardinality(D) \in Nat /\ Cardinality(D) + 1 <= Cardinality(B)
  BY <1>7, AtLeastOneLess
<1>8. CASE C \subseteq A /\ D \subseteq B /\ r <= t
  BY <1>1, <1>2, <1>3, <1>8
<1>9. CASE (\E i : C \subseteq A \cup {i}) /\ (\E c \in B : D \subseteq B \ {c}) /\ r <= t
  BY <1>1, <1>4, <1>7, <1>9
<1>10. CASE (\E i \in A : C \subseteq A \ {i}) /\ (\E c : D \subseteq B \cup {c}) /\ r <= t
  <2>1. Cardinality(D) \in Nat /\ Cardinality(D) <= Cardinality(B) + 1
    BY <1>5, <1>10
  <2>2. Cardinality(C) \in Nat /\ Cardinality(C) + 1 <= Cardinality(A)
    BY <1>6, <1>10
  <2> QED BY <1>1, <1>10, <2>1, <2>2
<1>11. CASE (\E i : C \subseteq A \cup {i}) /\ D \subseteq B /\ r + 1 <= t
  <2>1. Cardinality(C) \in Nat /\ Cardinality(C) <= Cardinality(A) + 1
    BY <1>4, <1>11
  <2> QED BY <1>1, <1>3, <1>11, <2>1
<1> QED BY <1>8, <1>9, <1>10, <1>11

LEMMA TokensFinite ==
  ASSUME TypeOK, NEW o \in Orders, NEW g
  PROVE  /\ IsFiniteSet(MarksIn(history, Waiting, o, g))
         /\ IsFiniteSet(WorkingIn(phase, job, o, g))
<1>1. Len(history[o]) \in Nat
  BY DEF TypeOK
<1>2. IsFiniteSet(1..Len(history[o]))
  BY <1>1, FS_Interval
<1>3. MarksIn(history, Waiting, o, g) \subseteq 1..Len(history[o])
  BY DEF MarksIn
<1>4. WorkingIn(phase, job, o, g) \subseteq Consumers /\ IsFiniteSet(Consumers)
  BY DispatchAssumption DEF WorkingIn
<1> QED BY <1>2, <1>3, <1>4, FS_Subset

\* How the tokens of order o and milestone g change in a step.
TokensMove(o, g) ==
  LET A == MarksIn(history, Waiting, o, g)
      B == WorkingIn(phase, job, o, g)
      C == MarksIn(history', Waiting', o, g)
      D == WorkingIn(phase', job', o, g)
  IN  \/ C \subseteq A /\ D \subseteq B /\ requeued[o] <= requeued'[o]
      \/ /\ \E i : C \subseteq A \cup {i}
         /\ \E c \in B : D \subseteq B \ {c}
         /\ requeued[o] <= requeued'[o]
      \/ /\ \E i \in A : C \subseteq A \ {i}
         /\ \E c : D \subseteq B \cup {c}
         /\ requeued[o] <= requeued'[o]
      \/ /\ \E i : C \subseteq A \cup {i}
         /\ D \subseteq B
         /\ requeued[o] + 1 <= requeued'[o]

\* The marks of an order when its history is as it was.
LEMMA SameMarks ==
  ASSUME NEW o \in Orders, NEW g, history'[o] = history[o]
  PROVE  /\ (\A i \in Nat : <<o, i>> \in Waiting' => <<o, i>> \in Waiting)
              => MarksIn(history', Waiting', o, g) \subseteq MarksIn(history, Waiting, o, g)
         /\ \A j : (\A i \in Nat : <<o, i>> \in Waiting' => <<o, i>> \in Waiting \/ i = j)
              => MarksIn(history', Waiting', o, g) \subseteq MarksIn(history, Waiting, o, g) \cup {j}
  BY DEF MarksIn

LEMMA TokensEmission ==
  ASSUME TypeOK, NEW o \in Orders, NEW type \in EventTypes,
         NEW by \in Consumers \cup {"customer"}, NEW cause \in Nat,
         Emit(o, type, by, cause), NEW g
  PROVE  /\ \A p \in Orders \ {o} :
              MarksIn(history', Waiting', p, g) \subseteq MarksIn(history, Waiting, p, g)
         /\ MarksIn(history', Waiting', o, g)
              \subseteq MarksIn(history, Waiting, o, g) \cup {Len(history[o]) + 1}
         /\ type \notin Marked(g) \cup Starting(g) =>
              MarksIn(history', Waiting', o, g) \subseteq MarksIn(history, Waiting, o, g)
<1> DEFINE n == Len(history[o]) + 1
<1>1. Extends(o, [type |-> type, by |-> by, cause |-> cause])
  BY EmitExtends
<1>2. Len(history[o]) \in Nat
  BY DEF TypeOK
<1>3. \A p \in Orders : \A i \in Nat :
        <<p, i>> \in Waiting' => <<p, i>> \in Waiting \/ (p = o /\ i = n)
  <2>1. ready' = [q \in Queues |-> IF q \in Routes(o, type) \cap declared
                                   THEN ready[q] \cup {<<o, n>>} ELSE ready[q]]
    BY DEF Emit
  <2> HIDE DEF n
  <2>2. \A q \in Queues : ready'[q] \subseteq ready[q] \cup {<<o, n>>}
    BY <2>1
  <2> QED BY <2>2 DEF Waiting
<1>4. \A p \in Orders \ {o} :
        MarksIn(history', Waiting', p, g) \subseteq MarksIn(history, Waiting, p, g)
  BY <1>1, <1>3, SameMarks DEF Extends
<1>5. ASSUME NEW i \in MarksIn(history', Waiting', o, g), i # n
      PROVE  i \in MarksIn(history, Waiting, o, g)
  <2>1. /\ i \in 1..Len(history'[o])
        /\ \/ history'[o][i].type \in Marked(g)
           \/ history'[o][i].type \in Starting(g) /\ <<o, i>> \in Waiting'
    BY DEF MarksIn
  <2>2. i \in 1..Len(history[o]) /\ i \in Nat
    BY <1>1, <1>2, <1>5, <2>1 DEF Extends
  <2>3. history'[o][i] = history[o][i]
    BY <1>1, <2>2 DEF Extends, Grown
  <2>4. <<o, i>> \in Waiting' => <<o, i>> \in Waiting
    BY <1>3, <1>5, <2>2
  <2> QED BY <2>1, <2>2, <2>3, <2>4 DEF MarksIn
<1>6. n \in MarksIn(history', Waiting', o, g) => type \in Marked(g) \cup Starting(g)
  BY <1>1 DEF MarksIn, Extends
<1> QED BY <1>4, <1>5, <1>6

LEMMA TokensCreate ==
  ASSUME MessageInv, NEW p \in Orders, CreateOrder(p), NEW o \in Orders, NEW g \in Milestones
  PROVE  Cardinality(MarksIn(history', Waiting', o, g))
           + Cardinality(WorkingIn(phase', job', o, g)) <= 1 + requeued'[o]
         \/ TokensMove(o, g)
<1>1. /\ TypeOK /\ Emit(p, "order.created", "customer", 0) /\ history[p] = <<>>
      /\ UNCHANGED <<phase, job, requeued>>
  BY DEF CreateOrder, handlerVars, MessageInv, Emit
<1>2. requeued[o] \in Nat
  BY <1>1 DEF TypeOK
<1>3. /\ \A q \in Orders \ {p} :
           MarksIn(history', Waiting', q, g) \subseteq MarksIn(history, Waiting, q, g)
      /\ MarksIn(history', Waiting', p, g)
           \subseteq MarksIn(history, Waiting, p, g) \cup {Len(history[p]) + 1}
  BY <1>1, TokensEmission DEF EventTypes
<1>4. CASE o # p
  BY <1>1, <1>2, <1>3, <1>4 DEF TokensMove
<1>5. CASE o = p
  <2>1. MarksIn(history, Waiting, o, g) = {}
    BY <1>1, <1>5 DEF MarksIn
  <2>2. WorkingIn(phase, job, o, g) = {}
    <3> SUFFICES ASSUME NEW c \in WorkingIn(phase, job, o, g) PROVE FALSE
      OBVIOUS
    <3>1. phase[c] # "idle" /\ job[c][1] = o /\ c \in Consumers
      BY MilestoneFacts DEF WorkingIn
    <3>2. job[c][2] \in 1..Len(history[o])
      BY <1>1, <3>1, JobIsMessage
    <3> QED BY <1>1, <1>5, <3>2
  <2>3. MarksIn(history', Waiting', o, g) \subseteq {Len(history[p]) + 1}
    BY <1>3, <1>5, <2>1
  <2>4. WorkingIn(phase', job', o, g) = {}
    BY <1>1, <2>2
  <2>5. Cardinality(WorkingIn(phase', job', o, g)) = 0
    BY <2>4, FS_EmptySet
  <2>6. /\ Cardinality(MarksIn(history', Waiting', o, g)) \in Nat
        /\ Cardinality(MarksIn(history', Waiting', o, g)) <= 1
    <3>1. /\ IsFiniteSet({Len(history[p]) + 1})
          /\ Cardinality({Len(history[p]) + 1}) = 1
      BY FS_Singleton
    <3>2. /\ IsFiniteSet(MarksIn(history', Waiting', o, g))
          /\ Cardinality(MarksIn(history', Waiting', o, g)) <= 1
      BY <2>3, <3>1, FS_Subset
    <3> QED BY <3>2, FS_CardinalityType
  <2> QED BY <1>1, <1>2, <2>5, <2>6
<1> QED BY <1>4, <1>5

LEMMA TokensPublish ==
  ASSUME MessageInv, NEW c \in Consumers, Publishes(c), NEW o \in Orders, NEW g \in Milestones
  PROVE  TokensMove(o, g)
<1> PICK s \in Scripts : phase[c] = s[1] /\ Publish(c, s[2], s[3])
  BY DEF Publishes
<1> DEFINE B == WorkingIn(phase, job, o, g)
           D == WorkingIn(phase', job', o, g)
<1>1. TypeOK /\ phase \in [Consumers -> Phases] /\ requeued[o] \in Nat
  BY DEF MessageInv, TypeOK
<1>2. /\ s[2] \in EventTypes /\ job[c][1] \in Orders
      /\ UNCHANGED <<requeued, job>>
      /\ \/ /\ EmitFrom(c, s[2])
            /\ \E p \in {s[3], "reject", "requeue"} : phase' = [phase EXCEPT ![c] = p]
         \/ UNCHANGED brokerVars /\ phase' = [phase EXCEPT ![c] = "reject"]
  BY <1>1, PublishEffect
<1>3. \E p \in {s[3], "reject", "requeue"} :
        phase'[c] = p /\ \A d \in Consumers \ {c} : phase'[d] = phase[d]
  BY <1>1, <1>2
<1>4. /\ s[3] \in Before(g) => s[1] \in Before(g)
      /\ s[2] \in Marked(g) \cup Starting(g) => s[1] \in Before(g) /\ s[3] \notin Before(g)
      /\ "reject" \notin Before(g) /\ "requeue" \notin Before(g)
  BY MilestoneFacts
<1>5. D \subseteq B
  BY <1>2, <1>3, <1>4 DEF WorkingIn
<1>6. requeued[o] <= requeued'[o]
  BY <1>1, <1>2
<1>7. CASE UNCHANGED brokerVars
  <2>1. MarksIn(history', Waiting', o, g) \subseteq MarksIn(history, Waiting, o, g)
    BY <1>7 DEF brokerVars, MarksIn, Waiting
  <2> QED BY <1>5, <1>6, <2>1 DEF TokensMove
<1>8. CASE EmitFrom(c, s[2])
  <2>1. /\ \A p \in Orders \ {job[c][1]} :
             MarksIn(history', Waiting', p, g) \subseteq MarksIn(history, Waiting, p, g)
        /\ MarksIn(history', Waiting', job[c][1], g)
             \subseteq MarksIn(history, Waiting, job[c][1], g) \cup {Len(history[job[c][1]]) + 1}
        /\ s[2] \notin Marked(g) \cup Starting(g) =>
             MarksIn(history', Waiting', job[c][1], g) \subseteq MarksIn(history, Waiting, job[c][1], g)
    BY <1>1, <1>2, <1>8, EmitFromEmits, TokensEmission
  <2>2. CASE job[c][1] # o \/ s[2] \notin Marked(g) \cup Starting(g)
    <3>1. MarksIn(history', Waiting', o, g) \subseteq MarksIn(history, Waiting, o, g)
      BY <2>1, <2>2
    <3> QED BY <1>5, <1>6, <3>1 DEF TokensMove
  <2>3. CASE job[c][1] = o /\ s[2] \in Marked(g) \cup Starting(g)
    <3>1. c \in B /\ c \notin D
      BY <1>3, <1>4, <2>3 DEF WorkingIn
    <3>2. D \subseteq B \ {c}
      BY <1>5, <3>1
    <3>3. \E i : MarksIn(history', Waiting', o, g) \subseteq MarksIn(history, Waiting, o, g) \cup {i}
      BY <2>1, <2>3
    <3> QED BY <1>6, <3>1, <3>2, <3>3 DEF TokensMove
  <2> QED BY <2>2, <2>3
<1> QED BY <1>2, <1>7, <1>8

LEMMA TokensSilent ==
  ASSUME MessageInv, NEW c \in Consumers, Silent(c), NEW o \in Orders, NEW g \in Milestones
  PROVE  TokensMove(o, g)
<1> DEFINE A == MarksIn(history, Waiting, o, g)
           B == WorkingIn(phase, job, o, g)
           C == MarksIn(history', Waiting', o, g)
           D == WorkingIn(phase', job', o, g)
<1>1. /\ TypeOK /\ Addressed /\ UNCHANGED history
      /\ QueueOf(c) \in Queues
      /\ phase \in [Consumers -> Phases]
      /\ job \in [Consumers -> (Orders \X Nat) \cup {NoMessage}]
      /\ requeued \in [Orders -> Nat] /\ requeued[o] \in Nat
  BY SilentHistory, QueuesOfConsumers DEF MessageInv, TypeOK
<1>2. {"idle", "ack", "reject", "requeue"} \cap Before(g) = {}
  BY MilestoneFacts
<1>3. /\ \A j : (\A i \in Nat : <<o, i>> \in Waiting' => <<o, i>> \in Waiting \/ i = j)
                  => C \subseteq A \cup {j}
      /\ Waiting' \subseteq Waiting => C \subseteq A
  BY <1>1, SameMarks
\* A handler that ends, or goes on without publishing, is no nearer to g.
<1>4. ASSUME EndHandler(c) PROVE D \subseteq B
  BY <1>1, <1>2, <1>4 DEF EndHandler, WorkingIn
<1>5. CASE MovesOn(c)
  <2>1. Waiting' = Waiting /\ UNCHANGED <<job, requeued>>
    BY <1>5 DEF MovesOn, brokerVars, Waiting
  <2>2. D \subseteq B
    <3>1. \A s \in Moves : s[2] \in Before(g) => s[1] \in Before(g)
      BY MilestoneFacts
    <3> QED BY <1>1, <1>5, <2>1, <3>1 DEF MovesOn, WorkingIn
  <2> QED BY <1>1, <1>3, <2>1, <2>2 DEF TokensMove
<1>6. CASE \E m \in ready[QueueOf(c)] : Take(c, m)
  <2> PICK m \in ready[QueueOf(c)] : Take(c, m)
    BY <1>6
  <2>1. Waiting' = Waiting \ {m} /\ m \in Waiting /\ IsMessage(m) /\ UNCHANGED requeued
    <3>1. m \in Waiting /\ IsMessage(m)
      BY <1>1 DEF Waiting, TypeOK
    <3>2. ready' = [ready EXCEPT ![QueueOf(c)] = @ \ {m}] /\ UNCHANGED requeued
      BY DEF Take
    <3>3. Waiting' = Waiting \ {m}
      BY <1>1, <3>2, WaitingLess
    <3> QED BY <3>1, <3>2, <3>3
  <2>2. /\ m[1] \in Orders /\ m[2] \in 1..Len(history[m[1]]) /\ m = <<m[1], m[2]>>
        /\ m[2] \in Nat /\ m \in Orders \X Nat
    BY <2>1 DEF IsMessage
  <2>3. /\ phase'[c] = FirstPhase(c) /\ job'[c] = m
        /\ \A d \in Consumers \ {c} : phase'[d] = phase[d] /\ job'[d] = job[d]
    BY <1>1, <2>2 DEF Take
  <2>4. C \subseteq A /\ D \subseteq B \cup {c}
    BY <1>3, <2>1, <2>3 DEF WorkingIn
  <2>5. requeued[o] <= requeued'[o]
    BY <1>1, <2>1
  <2>6. CASE m[1] = o /\ FirstPhase(c) \in Before(g)
    <3>1. Event(m).type \in Starting(g)
      <4>1. QueueOf(c) \in RouteOf(history, m)
        BY <1>1 DEF Addressed
      <4>2. Event(m).type = IF QueueOf(c) = DispatchQueue THEN "order.accepted"
                            ELSE "order.created"
        BY <1>1, <2>1, <4>1, OneRoute
      <4>3. CASE c \in Kitchens
        BY <4>2, <4>3, DispatchAssumption, MilestoneFacts DEF QueueOf
      <4>4. CASE c \notin Kitchens
        BY <2>6, <4>2, <4>4, MilestoneFacts DEF QueueOf, FirstPhase
      <4> QED BY <4>3, <4>4
    <3>2. history[o][m[2]].type \in Starting(g) /\ history[o][m[2]].type \notin Marked(g)
      BY <2>6, <3>1, MilestoneFacts DEF Event
    <3>3. m[2] \in A /\ m[2] \notin C
      BY <1>1, <2>1, <2>2, <2>6, <3>2 DEF MarksIn
    <3>4. C \subseteq A \ {m[2]}
      BY <2>4, <3>3
    <3>5. (\E i \in A : C \subseteq A \ {i}) /\ (\E d : D \subseteq B \cup {d})
      BY <2>4, <3>3, <3>4
    <3> QED BY <2>5, <3>5 DEF TokensMove
  <2>7. CASE ~(m[1] = o /\ FirstPhase(c) \in Before(g))
    <3>1. D \subseteq B
      BY <2>3, <2>7 DEF WorkingIn
    <3> QED BY <2>4, <2>5, <3>1 DEF TokensMove
  <2> QED BY <2>6, <2>7
\* A delivery goes back to its queue.
<1>7. ASSUME phase[c] # "idle", D \subseteq B,
             ready' = [ready EXCEPT ![QueueOf(c)] = @ \cup {job[c]}],
             requeued' = [requeued EXCEPT ![job[c][1]] = @ + 1]
      PROVE  TokensMove(o, g)
  <2>1. Waiting' = Waiting \cup {job[c]}
    BY <1>1, <1>7, WaitingMore
  <2>2. job[c] \in Orders \X Nat /\ job[c][1] \in Orders
    BY <1>1, <1>7, JobIsMessage
  <2>3. CASE job[c][1] = o
    <3>1. requeued[o] + 1 <= requeued'[o]
      BY <1>1, <1>7, <2>3
    <3>2. C \subseteq A \cup {job[c][2]}
      BY <1>3, <2>1
    <3> QED BY <1>7, <3>1, <3>2 DEF TokensMove
  <2>4. CASE job[c][1] # o
    <3>1. requeued[o] <= requeued'[o]
      BY <1>1, <1>7, <2>2, <2>4
    <3>2. \A i \in Nat : <<o, i>> \in Waiting' => <<o, i>> \in Waiting
      BY <2>1, <2>4
    <3>3. C \subseteq A
      BY <1>1, <3>2, SameMarks
    <3> QED BY <1>7, <3>1, <3>3 DEF TokensMove
  <2> QED BY <2>3, <2>4
<1>8. ASSUME D \subseteq B, UNCHANGED <<ready, requeued>> PROVE TokensMove(o, g)
  <2>1. C \subseteq A
    BY <1>3, <1>8 DEF Waiting
  <2> QED BY <1>1, <1>8, <2>1 DEF TokensMove
<1>9. CASE Settle(c)
  <2>1. CASE Connected(c) /\ phase[c] = "requeue"
    BY <1>4, <1>7, <1>9, <2>1 DEF Settle
  <2>2. CASE ~(Connected(c) /\ phase[c] = "requeue")
    BY <1>4, <1>8, <1>9, <2>2 DEF Settle
  <2> QED BY <2>1, <2>2
<1>10. ASSUME Redeliver(c), D \subseteq B PROVE TokensMove(o, g)
  BY <1>7, <1>8, <1>10 DEF Redeliver
<1>11. CASE CloseChannel(c) \/ LoseConnection(c)
  <2>1. UNCHANGED <<phase, job>> /\ Redeliver(c)
    BY <1>11 DEF CloseChannel, LoseConnection, handlerVars
  <2> QED BY <1>10, <2>1
<1>12. CASE Start(c) \/ Cancel(c)
  <2>1. UNCHANGED <<phase, job, ready, requeued>>
    BY <1>12 DEF Start, Cancel, handlerVars, brokerVars
  <2> QED BY <1>8, <2>1
<1>13. CASE Exit(c)
  BY <1>4, <1>8, <1>13 DEF Exit, EndProcess, brokerVars
<1>14. CASE Kill(c)
  BY <1>4, <1>10, <1>14 DEF Kill, EndProcess
<1> QED BY <1>5, <1>6, <1>9, <1>11, <1>12, <1>13, <1>14 DEF Silent

LEMMA TokensStep ==
  ASSUME MessageInv, Tokens, [Next]_vars
  PROVE  Tokens'
<1> SUFFICES ASSUME NEW o \in Orders, NEW g \in Milestones
             PROVE  Cardinality(MarksIn(history', Waiting', o, g))
                      + Cardinality(WorkingIn(phase', job', o, g)) <= 1 + requeued'[o]
  BY DEF Tokens
<1>1. TypeOK /\ TypeOK' /\ requeued[o] \in Nat /\ requeued'[o] \in Nat
  BY TypeStep DEF MessageInv, TypeOK
<1>2. ASSUME TokensMove(o, g)
      PROVE  Cardinality(MarksIn(history', Waiting', o, g))
               + Cardinality(WorkingIn(phase', job', o, g)) <= 1 + requeued'[o]
  <2> DEFINE A == MarksIn(history, Waiting, o, g)
             B == WorkingIn(phase, job, o, g)
             C == MarksIn(history', Waiting', o, g)
             D == WorkingIn(phase', job', o, g)
  <2>1. IsFiniteSet(A) /\ IsFiniteSet(B) /\ Cardinality(A) + Cardinality(B) <= 1 + requeued[o]
    BY <1>1, TokensFinite DEF Tokens
  <2>2. \/ C \subseteq A /\ D \subseteq B /\ requeued[o] <= requeued'[o]
        \/ /\ \E i : C \subseteq A \cup {i}
           /\ \E c \in B : D \subseteq B \ {c}
           /\ requeued[o] <= requeued'[o]
        \/ /\ \E i \in A : C \subseteq A \ {i}
           /\ \E c : D \subseteq B \cup {c}
           /\ requeued[o] <= requeued'[o]
        \/ /\ \E i : C \subseteq A \cup {i}
           /\ D \subseteq B
           /\ requeued[o] + 1 <= requeued'[o]
    BY <1>2 DEF TokensMove
  <2> HIDE DEF A, B, C, D
  <2>3. Cardinality(C) + Cardinality(D) <= 1 + requeued'[o]
    BY <1>1, <2>1, <2>2, TokenMoves
  <2> QED BY <2>3 DEF C, D
<1>3. CASE UNCHANGED vars
  <2>1. UNCHANGED <<history, phase, job, requeued>> /\ Waiting' = Waiting
    BY <1>3 DEF vars, brokerVars, handlerVars, Waiting
  <2> QED BY <2>1 DEF Tokens
<1>4. ASSUME NEW c \in Consumers, ConsumerStep(c) PROVE TokensMove(o, g)
  BY <1>4, TokensPublish, TokensSilent DEF ConsumerStep, Silent
<1> QED BY <1>1, <1>2, <1>3, <1>4, TokensCreate, Steps

LEMMA TokensInit == Init => Tokens
<1> SUFFICES ASSUME Init, NEW o \in Orders, NEW g \in Milestones
             PROVE  Cardinality(MarksIn(history, Waiting, o, g))
                      + Cardinality(WorkingIn(phase, job, o, g)) <= 1 + requeued[o]
  BY DEF Tokens
<1>1. MarksIn(history, Waiting, o, g) = {}
  BY DEF Init, MarksIn
<1>2. WorkingIn(phase, job, o, g) = {}
  BY MilestoneFacts DEF Init, WorkingIn
<1>3. Cardinality({}) = 0 /\ requeued[o] = 0
  BY FS_EmptySet DEF Init
<1> QED BY <1>1, <1>2, <1>3

\* While nothing was requeued, whoever publishes holds the only token of the
\* delivery, so nothing has ended yet.
LEMMA EndStep ==
  ASSUME MessageInv, Tokens, EndIsLast, [Next]_vars
  PROVE  EndIsLast'
<1> SUFFICES ASSUME NEW o \in Orders, NEW i \in 1..Len(history'[o]), requeued'[o] = 0,
                    history'[o][i].type \in {"order.rejected", "order.delivered"}
             PROVE  i = Len(history'[o])
  BY DEF EndIsLast
<1>1. TypeOK /\ Len(history[o]) \in Nat /\ requeued[o] \in Nat
  BY DEF MessageInv, TypeOK
<1>2. ASSUME history'[o] = history[o], requeued[o] = 0 PROVE i = Len(history'[o])
  BY <1>2 DEF EndIsLast
<1>3. ASSUME NEW p \in Orders, NEW type \in EventTypes, NEW by \in Consumers \cup {"customer"},
             NEW cause \in Nat, Emit(p, type, by, cause),
             \A j \in 1..Len(history[p]) :
               ~(requeued[p] = 0 /\ history[p][j].type \in {"order.rejected", "order.delivered"})
      PROVE  i = Len(history'[o])
  <2>1. Extends(p, [type |-> type, by |-> by, cause |-> cause]) /\ UNCHANGED requeued
    BY <1>1, <1>3, EmitExtends DEF Emit
  <2>2. CASE p = o
    <3> SUFFICES ASSUME i # Len(history'[o]) PROVE FALSE
      OBVIOUS
    <3>1. i \in 1..Len(history[o])
      BY <1>1, <2>1, <2>2 DEF Extends
    <3>2. history'[o][i] = history[o][i]
      BY <2>1, <3>1 DEF Extends, Grown
    <3> QED BY <1>3, <2>1, <2>2, <3>1, <3>2
  <2>3. CASE p # o
    BY <1>2, <2>1, <2>3 DEF Extends
  <2> QED BY <2>2, <2>3
<1>4. ASSUME NEW p \in Orders, CreateOrder(p) PROVE i = Len(history'[o])
  <2>1. Emit(p, "order.created", "customer", 0) /\ Len(history[p]) = 0
    BY <1>4 DEF CreateOrder
  <2> QED BY <1>3, <2>1 DEF EventTypes
<1>5. ASSUME NEW c \in Consumers, Publishes(c) PROVE i = Len(history'[o])
  <2> PICK s \in Scripts : phase[c] = s[1] /\ Publish(c, s[2], s[3])
    BY <1>5 DEF Publishes
  <2>1. /\ s[2] \in EventTypes /\ job[c][1] \in Orders
        /\ EmitFrom(c, s[2]) \/ UNCHANGED brokerVars
    BY <1>1, PublishEffect
  <2>2. CASE UNCHANGED brokerVars
    BY <1>2, <2>2 DEF brokerVars
  <2>3. CASE EmitFrom(c, s[2])
    <3> DEFINE p == job[c][1]
               A == MarksIn(history, Waiting, p, "deliver")
               B == WorkingIn(phase, job, p, "deliver")
    <3>1. ASSUME NEW j \in 1..Len(history[p]), requeued[p] = 0,
                 history[p][j].type \in {"order.rejected", "order.delivered"}
          PROVE  FALSE
      <4>1. j \in A
        BY <3>1 DEF MarksIn, Marked
      <4>2. c \in B
        BY DEF WorkingIn, Before, Scripts
      <4>3. /\ IsFiniteSet(A) /\ IsFiniteSet(B)
            /\ Cardinality(A) + Cardinality(B) <= 1
        BY <1>1, <2>1, <3>1, TokensFinite DEF Tokens, Milestones
      <4> HIDE DEF A, B
      <4>4. /\ Cardinality(A) \in Nat /\ Cardinality(B) \in Nat
            /\ Cardinality(A) # 0 /\ Cardinality(B) # 0
        BY <4>1, <4>2, <4>3, FS_EmptySet, FS_CardinalityType
      <4> QED BY <4>3, <4>4
    <3>2. PICK cause \in Nat : Emit(p, s[2], c, cause)
      BY <1>1, <2>1, <2>3, EmitFromEmits
    <3> QED BY <1>3, <2>1, <3>1, <3>2
  <2> QED BY <2>1, <2>2, <2>3
<1>6. ASSUME NEW c \in Consumers, Silent(c) PROVE i = Len(history'[o])
  <2>1. UNCHANGED history
    BY <1>6, SilentHistory
  <2>2. requeued[o] <= requeued'[o]
    BY <1>1, <1>6, TokensSilent DEF TokensMove, Milestones
  <2> QED BY <1>1, <1>2, <2>1, <2>2
<1>7. CASE UNCHANGED vars
  BY <1>2, <1>7 DEF vars, brokerVars
<1> QED BY <1>1, <1>4, <1>5, <1>6, <1>7, Steps DEF ConsumerStep, Silent

LEMMA TokensInvariant == Spec => [](MessageInv /\ Tokens /\ EndIsLast)
<1>1. Init => MessageInv /\ Tokens /\ EndIsLast
  <2>1. Init => EndIsLast
    BY DEF Init, EndIsLast
  <2> QED BY <2>1, MessageInit, TokensInit
<1>2. MessageInv /\ Tokens /\ EndIsLast /\ [Next]_vars => (MessageInv /\ Tokens /\ EndIsLast)'
  BY MessageStep, TokensStep, EndStep
<1> QED BY <1>1, <1>2, PTL DEF Spec

\* An order has at most one more answer, assignment, pick-up or delivery than
\* its messages were requeued, however deliveries and handlers interleave.
THEOREM RepeatsOnlyByRequeue == Spec => []RepeatsAreRequeues
<1>1. ASSUME MessageInv, Tokens PROVE RepeatsAreRequeues
  <2> SUFFICES ASSUME NEW o \in Orders,
                      NEW types \in {{"order.accepted", "order.rejected"}, {"courier.assigned"},
                                     {"order.picked_up"}, {"order.delivered"}}
               PROVE  Count(o, types) <= 1 + requeued[o]
    BY DEF RepeatsAreRequeues
  <2>1. PICK g \in Milestones : types \subseteq Marked(g)
    BY DEF Milestones, Marked
  <2> DEFINE A == MarksIn(history, Waiting, o, g)
             B == WorkingIn(phase, job, o, g)
             S == {i \in 1..Len(history[o]) : history[o][i].type \in types}
  <2>2. S \subseteq A
    BY <2>1 DEF MarksIn
  <2>3. /\ IsFiniteSet(A) /\ IsFiniteSet(B) /\ requeued[o] \in Nat
        /\ Cardinality(A) + Cardinality(B) <= 1 + requeued[o]
    BY <1>1, TokensFinite DEF Tokens, MessageInv, TypeOK
  <2>4. Count(o, types) = Cardinality(S)
    BY DEF Count
  <2> HIDE DEF A, B, S
  <2>5. /\ Cardinality(S) \in Nat /\ Cardinality(S) <= Cardinality(A)
        /\ Cardinality(A) \in Nat /\ Cardinality(B) \in Nat
    BY <2>2, <2>3, FS_Subset, FS_CardinalityType
  <2> QED BY <2>3, <2>4, <2>5
<1> QED BY <1>1, TokensInvariant, PTL

\* Without a requeue nothing follows the end of an order, no late location
\* update either.
THEOREM EndsAreLast == Spec => []EndIsLast
  BY TokensInvariant, PTL
=============================================================================
