------------------------------ MODULE Control ------------------------------
(***************************************************************************)
(* Start, pause and reset in the distributed mode.  A control-api replica  *)
(* publishes a command; every customer-simulator pod and every replica     *)
(* has a queue of its own for it and keeps a running flag of its own,      *)
(* which starts with true.  A customer looks at the flag at each tick and  *)
(* publishes an order afterwards.                                          *)
(*                                                                         *)
(* The broker routes a command to the queues that are bound when it takes  *)
(* it.  Commands of one replica reach a queue in their order, commands of  *)
(* two replicas in any.  A command that is answered with 502 has reached   *)
(* the broker, and is one of these, or has changed nothing.                *)
(***************************************************************************)
EXTENDS Naturals, Sequences

CONSTANTS
  Customers, Replicas,
  MaxCommands,    \* bound: commands
  MaxLosses       \* bound: lost connections and crashes of pods

ASSUME ControlAssumption ==
  Customers \cap Replicas = {} /\ MaxCommands \in Nat /\ MaxLosses \in Nat

VARIABLES
  phase,          \* per pod: "down", "starting", "bound", or "lost" when its
                  \* consumer has lost the connection
  running,        \* per pod: its flag
  queue,          \* per pod: simulation-control.<pod> or live.<pod>
  routes,         \* per replica and pod: commands on the way to that queue
  ordering,       \* per customer: it has seen the flag and is about to publish
  strays,         \* per customer: orders published since its flag fell
  last, commands, \* the last command, and the number of them
  clean,          \* no command of another replica was on its way at that time
  audience,       \* pods whose queues were bound then, and have been since
  losses

podVars == <<phase, running, queue, routes>>
orderVars == <<ordering, strays>>
ghostVars == <<last, commands, clean, audience>>
vars == <<podVars, orderVars, ghostVars, losses>>

Pods == Customers \cup Replicas
Commands == {"simulation.started", "simulation.paused", "simulation.reset"}

Up(p) == phase[p] # "down"
Bound == {p \in Pods : phase[p] = "bound"}

\* Nothing is on the way to pod p.
CaughtUp(p) == queue[p] = <<>> /\ \A r \in Replicas : routes[r][p] = <<>>

Init ==
  /\ phase = [p \in Pods |-> "starting"]
  /\ running = [p \in Pods |-> TRUE]
  /\ queue = [p \in Pods |-> <<>>]
  /\ routes = [r \in Replicas |-> [p \in Pods |-> <<>>]]
  /\ ordering = [c \in Customers |-> FALSE]
  /\ strays = [c \in Customers |-> 0]
  /\ last = "simulation.started" /\ commands = 0
  /\ clean = TRUE /\ audience = {}
  /\ losses = 0

(***************************************************************************)
(* Commands.                                                               *)
(***************************************************************************)

\* POST /api/v1/simulation/start, pause, reset at replica r: publishCommand.
IssueTo(r, command, pods) ==
  /\ Up(r) /\ commands < MaxCommands
  /\ routes' = [routes EXCEPT ![r] =
       [p \in Pods |-> IF p \in pods THEN Append(@[p], command) ELSE @[p]]]
  /\ last' = command /\ commands' = commands + 1
  /\ clean' = \A q \in Replicas \ {r}, p \in Pods : routes[q][p] = <<>>
  /\ audience' = Bound
  /\ UNCHANGED <<phase, running, queue, orderVars, losses>>

\* Mutant of Issue: the pods share one queue.
IssueShared(r, command) == \E p \in Bound : IssueTo(r, command, {p})

Issue(r, command) == IssueTo(r, command, Bound)

Route(r, p) ==
  /\ routes[r][p] # <<>>
  /\ queue' = [queue EXCEPT ![p] = Append(@, Head(routes[r][p]))]
  /\ routes' = [routes EXCEPT ![r][p] = Tail(@)]
  /\ UNCHANGED <<phase, running, orderVars, ghostVars, losses>>

SetFlag(p, value) ==
  /\ phase[p] = "bound" /\ queue[p] # <<>>
  /\ queue' = [queue EXCEPT ![p] = Tail(@)]
  /\ running' = [running EXCEPT ![p] = value]
  /\ strays' = [c \in Customers |-> IF c = p /\ value THEN 0 ELSE strays[c]]
  /\ UNCHANGED <<phase, routes, ordering, ghostVars, losses>>

\* Mutant of Apply: no case for simulation.reset.
ApplyWithoutReset(p) ==
  queue[p] # <<>> /\
    SetFlag(p, IF Head(queue[p]) = "simulation.reset" THEN running[p]
               ELSE Head(queue[p]) = "simulation.started")

\* The handler of a customer, and ApplyEvent of a replica.
Apply(p) == queue[p] # <<>> /\ SetFlag(p, Head(queue[p]) # "simulation.paused")

(***************************************************************************)
(* Orders.                                                                 *)
(***************************************************************************)

\* Mutant of Check: the flag is not consulted.
CheckNothing(c) ==
  /\ Up(c) /\ ~ordering[c]
  /\ ordering' = [ordering EXCEPT ![c] = TRUE]
  /\ UNCHANGED <<podVars, strays, ghostVars, losses>>

\* The ticker: running.Load().
Check(c) ==
  /\ Up(c) /\ ~ordering[c]
  /\ running[c]
  /\ ordering' = [ordering EXCEPT ![c] = TRUE]
  /\ UNCHANGED <<podVars, strays, ghostVars, losses>>

\* The order is published, or fails.
Send(c) ==
  /\ ordering[c]
  /\ ordering' = [ordering EXCEPT ![c] = FALSE]
  /\ \/ strays' = [strays EXCEPT ![c] = IF running[c] THEN 0 ELSE @ + 1]
     \/ UNCHANGED strays
  /\ UNCHANGED <<podVars, ghostVars, losses>>

(***************************************************************************)
(* Pods.                                                                   *)
(***************************************************************************)

\* Consume has declared and bound the queue.
Bind(p) ==
  /\ phase[p] = "starting"
  /\ phase' = [phase EXCEPT ![p] = "bound"]
  /\ UNCHANGED <<running, queue, routes, orderVars, ghostVars, losses>>

\* The queue goes with its only consumer, and what was in it or for it.
QueueGone(p) ==
  /\ queue' = [queue EXCEPT ![p] = <<>>]
  /\ routes' = [r \in Replicas |-> [routes[r] EXCEPT ![p] = <<>>]]
  /\ audience' = audience \ {p}

Loss == losses < MaxLosses /\ losses' = losses + 1

LoseConnection(p) ==
  /\ phase[p] = "bound"
  /\ Loss
  /\ phase' = [phase EXCEPT ![p] = "lost"]
  /\ QueueGone(p)
  /\ UNCHANGED <<running, orderVars, last, commands, clean>>

ProcessEnds(p) ==
  /\ phase' = [phase EXCEPT ![p] = "down"]
  /\ ordering' = [c \in Customers |-> c # p /\ ordering[c]]
  /\ strays' = [c \in Customers |-> IF c = p THEN 0 ELSE strays[c]]

\* Consume returns, and the process with it.
Exit(p) ==
  /\ phase[p] = "lost"
  /\ ProcessEnds(p)
  /\ UNCHANGED <<running, queue, routes, ghostVars, losses>>

\* Mutant of Kill: the queue outlives the connection.
KillKeepsQueue(p) ==
  /\ Up(p)
  /\ Loss
  /\ ProcessEnds(p)
  /\ audience' = audience \ {p}
  /\ UNCHANGED <<running, queue, routes, last, commands, clean>>

Kill(p) ==
  /\ Up(p)
  /\ Loss
  /\ ProcessEnds(p)
  /\ QueueGone(p)
  /\ UNCHANGED <<running, last, commands, clean>>

\* The flag starts with true again; no table keeps it.
Start(p) ==
  /\ phase[p] = "down"
  /\ phase' = [phase EXCEPT ![p] = "starting"]
  /\ running' = [running EXCEPT ![p] = TRUE]
  /\ UNCHANGED <<queue, routes, orderVars, ghostVars, losses>>

-----------------------------------------------------------------------------
Next ==
  \/ \E r \in Replicas, command \in Commands : Issue(r, command)
  \/ \E r \in Replicas, p \in Pods : Route(r, p)
  \/ \E c \in Customers : Check(c) \/ Send(c)
  \/ \E p \in Pods :
       Apply(p) \/ Bind(p) \/ LoseConnection(p) \/ Exit(p) \/ Kill(p) \/ Start(p)

Spec == Init /\ [][Next]_vars

\* The broker routes, consumers take what is in their queues, and a publish
\* that has begun ends.
Fairness ==
  /\ \A r \in Replicas, p \in Pods : WF_vars(Route(r, p))
  /\ \A p \in Pods : WF_vars(Apply(p))
  /\ \A c \in Customers : WF_vars(Send(c))

FairSpec == Spec /\ Fairness

-----------------------------------------------------------------------------
TypeOK ==
  /\ phase \in [Pods -> {"down", "starting", "bound", "lost"}]
  /\ running \in [Pods -> BOOLEAN]
  /\ queue \in [Pods -> Seq(Commands)]
  /\ routes \in [Replicas -> [Pods -> Seq(Commands)]]
  /\ \A p \in Pods : ~CaughtUp(p) => p \in Bound
  /\ ordering \in [Customers -> BOOLEAN]
  /\ strays \in [Customers -> Nat]
  /\ last \in Commands /\ commands \in 0..MaxCommands
  /\ clean \in BOOLEAN
  /\ audience \subseteq Bound
  /\ losses \in 0..MaxLosses

\* A pod that has been listening since the last command obeys it once nothing
\* is on its way, provided that the command met none of another replica.
FollowsLast ==
  clean => \A p \in audience :
    CaughtUp(p) => (running[p] <=> last # "simulation.paused")

\* The flag may fall between the look at it and the publish, but no customer
\* publishes a second order after that.
OneStraggler == \A c \in Customers : strays[c] <= 1

Paused(c) == last = "simulation.paused" /\ clean /\ c \in audience

\* A pause that stays the last command ends the stream of orders of every
\* customer that keeps its connection: processing can drain.
PauseEndsOrders ==
  \A c \in Customers : <>[]Paused(c) => <>[](~running[c] /\ ~ordering[c])
=============================================================================
