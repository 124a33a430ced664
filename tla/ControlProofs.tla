--------------------------- MODULE ControlProofs ---------------------------
(***************************************************************************)
(* Theorems of Control for any number of customers, replicas, commands and *)
(* losses.                                                                 *)
(***************************************************************************)
EXTENDS Control, TLAPS

USE ControlAssumption
USE DEF podVars, orderVars, ghostVars

EndOf(s) == s[Len(s)]

LEMMA SequenceEnds ==
  ASSUME NEW S, NEW s \in Seq(S), NEW x \in S
  PROVE  /\ Append(s, x) # <<>> /\ EndOf(Append(s, x)) = x
         /\ s # <<>> => /\ Head(s) \in S /\ Tail(s) \in Seq(S) /\ EndOf(s) \in S
                        /\ Tail(s) = <<>> => EndOf(s) = Head(s)
                        /\ Tail(s) # <<>> => EndOf(Tail(s)) = EndOf(s)
<1>1. Append(s, x) # <<>> /\ EndOf(Append(s, x)) = x
  BY DEF EndOf
<1>2. ASSUME s # <<>>
      PROVE  /\ Head(s) \in S /\ Tail(s) \in Seq(S) /\ EndOf(s) \in S
             /\ Tail(s) = <<>> => EndOf(s) = Head(s)
             /\ Tail(s) # <<>> => EndOf(Tail(s)) = EndOf(s)
  <2>1. Len(s) \in Nat /\ Len(s) # 0
    BY <1>2
  <2>2. Head(s) \in S /\ Tail(s) \in Seq(S) /\ EndOf(s) \in S /\ Len(Tail(s)) = Len(s) - 1
    BY <1>2, <2>1 DEF EndOf
  <2>3. ASSUME Tail(s) = <<>> PROVE EndOf(s) = Head(s)
    BY <1>2, <2>1, <2>2, <2>3 DEF EndOf
  <2>4. ASSUME Tail(s) # <<>> PROVE EndOf(Tail(s)) = EndOf(s)
    <3>1. Len(Tail(s)) # 0
      BY <2>2, <2>4
    <3>2. \A i \in 1..Len(Tail(s)) : Tail(s)[i] = s[i + 1]
      BY <1>2, <2>1
    <3> QED BY <2>1, <2>2, <3>1, <3>2 DEF EndOf
  <2> QED BY <2>2, <2>3, <2>4
<1> QED BY <1>1, <1>2

-----------------------------------------------------------------------------
(***************************************************************************)
(* Types.                                                                  *)
(***************************************************************************)

LEMMA TypeStep == TypeOK /\ [Next]_vars => TypeOK'
<1> SUFFICES ASSUME TypeOK, [Next]_vars PROVE TypeOK'
  OBVIOUS
<1> USE DEF TypeOK, Bound, CaughtUp, Pods
<1>1. ASSUME NEW r \in Replicas, NEW command \in Commands, Issue(r, command) PROVE TypeOK'
  <2>1. routes' \in [Replicas -> [Pods -> Seq(Commands)]]
    <3>1. \A p \in Pods : Append(routes[r][p], command) \in Seq(Commands)
      OBVIOUS
    <3>2. [p \in Pods |-> IF p \in Bound THEN Append(routes[r][p], command) ELSE routes[r][p]]
            \in [Pods -> Seq(Commands)]
      BY <3>1
    <3>3. routes' = [routes EXCEPT ![r] =
            [p \in Pods |-> IF p \in Bound THEN Append(routes[r][p], command) ELSE routes[r][p]]]
      BY <1>1 DEF Issue, IssueTo
    <3> QED BY <3>2, <3>3
  <2>2. \A p \in Pods : ~CaughtUp(p)' => p \in Bound
    <3> SUFFICES ASSUME NEW p \in Pods, p \notin Bound PROVE CaughtUp(p)'
      OBVIOUS
    <3>1. queue' = queue /\ \A q \in Replicas : routes'[q][p] = routes[q][p]
      BY <1>1 DEF Issue, IssueTo
    <3> QED BY <3>1
  <2>3. /\ UNCHANGED <<phase, running, queue, ordering, strays, losses>>
        /\ last' \in Commands /\ clean' \in BOOLEAN /\ audience' = Bound
        /\ commands' \in 0..MaxCommands
    BY <1>1 DEF Issue, IssueTo
  <2> QED BY <2>1, <2>2, <2>3
<1>2. ASSUME NEW r \in Replicas, NEW p \in Pods, Route(r, p) PROVE TypeOK'
  <2>1. Head(routes[r][p]) \in Commands /\ Tail(routes[r][p]) \in Seq(Commands)
    BY <1>2, SequenceEnds DEF Route
  <2>2. /\ queue' = [queue EXCEPT ![p] = Append(@, Head(routes[r][p]))]
        /\ routes' = [routes EXCEPT ![r] = [routes[r] EXCEPT ![p] = Tail(routes[r][p])]]
        /\ UNCHANGED <<phase, running, orderVars, ghostVars, losses>>
    BY <1>2 DEF Route
  <2>3. queue' \in [Pods -> Seq(Commands)]
    BY <2>1, <2>2, SequenceEnds
  <2>4. routes' \in [Replicas -> [Pods -> Seq(Commands)]]
    BY <2>1, <2>2
  <2>5. \A q \in Pods : ~CaughtUp(q)' => q \in Bound
    <3>1. p \in Bound
      BY <1>2 DEF Route
    <3> QED BY <2>2, <3>1
  <2> QED BY <2>2, <2>3, <2>4, <2>5
<1>3. ASSUME NEW p \in Pods, Apply(p) PROVE TypeOK'
  <2>1. Tail(queue[p]) \in Seq(Commands) /\ (Head(queue[p]) # "simulation.paused") \in BOOLEAN
    BY <1>3, SequenceEnds DEF Apply
  <2>2. queue' \in [Pods -> Seq(Commands)] /\ running' \in [Pods -> BOOLEAN]
        /\ strays' \in [Customers -> Nat]
    BY <1>3, <2>1 DEF Apply, SetFlag
  <2>3. \A q \in Pods : ~CaughtUp(q)' => q \in Bound
    BY <1>3 DEF Apply, SetFlag
  <2> QED BY <1>3, <2>2, <2>3 DEF Apply, SetFlag
<1>4. ASSUME NEW c \in Customers, Check(c) PROVE TypeOK'
  BY <1>4 DEF Check
<1>5. ASSUME NEW c \in Customers, Send(c) PROVE TypeOK'
  <2>1. /\ ordering' = [ordering EXCEPT ![c] = FALSE]
        /\ UNCHANGED <<podVars, ghostVars, losses>>
    BY <1>5 DEF Send
  <2>2. strays' \in [Customers -> Nat]
    <3>1. CASE UNCHANGED strays
      BY <3>1
    <3>2. CASE strays' = [strays EXCEPT ![c] = IF running[c] THEN 0 ELSE @ + 1]
      <4>1. (IF running[c] THEN 0 ELSE strays[c] + 1) \in Nat
        OBVIOUS
      <4> QED BY <3>2, <4>1
    <3> QED BY <1>5, <3>1, <3>2 DEF Send
  <2>3. ordering' \in [Customers -> BOOLEAN]
    BY <2>1
  <2> QED BY <2>1, <2>2, <2>3
<1>6. ASSUME NEW p \in Pods, Bind(p) PROVE TypeOK'
  BY <1>6 DEF Bind
<1>7. ASSUME NEW p \in Pods, LoseConnection(p) PROVE TypeOK'
  BY <1>7 DEF LoseConnection, Loss, QueueGone
<1>8. ASSUME NEW p \in Pods, Exit(p) PROVE TypeOK'
  BY <1>8 DEF Exit, ProcessEnds
<1>9. ASSUME NEW p \in Pods, Kill(p) PROVE TypeOK'
  BY <1>9 DEF Kill, Loss, QueueGone, ProcessEnds
<1>10. ASSUME NEW p \in Pods, Start(p) PROVE TypeOK'
  BY <1>10 DEF Start
<1>11. CASE UNCHANGED vars
  BY <1>11 DEF vars
<1> QED BY <1>1, <1>2, <1>3, <1>4, <1>5, <1>6, <1>7, <1>8, <1>9, <1>10, <1>11 DEF Next

\* The variables keep their types; commands are in or on the way to queues
\* that exist only.
THEOREM TypeCorrect == Spec => []TypeOK
<1>1. Init => TypeOK
  BY DEF Init, TypeOK, Pods, Commands, CaughtUp, Bound
<1> QED BY <1>1, TypeStep, PTL DEF Spec

-----------------------------------------------------------------------------
(***************************************************************************)
(* Stragglers.                                                             *)
(***************************************************************************)

\* While its flag is up a customer has no strays; nor has it while it is about
\* to publish, since it has seen the flag up, or a process.
StrayInv ==
  \A c \in Customers :
    /\ strays[c] \in {0, 1}
    /\ running[c] \/ ordering[c] \/ ~Up(c) => strays[c] = 0
    /\ ~Up(c) => ~ordering[c]

LEMMA StrayStep == TypeOK /\ StrayInv /\ [Next]_vars => StrayInv'
<1> SUFFICES ASSUME TypeOK, StrayInv, [Next]_vars PROVE StrayInv'
  OBVIOUS
<1> USE DEF StrayInv, TypeOK, Pods, Up
<1>1. ASSUME NEW r \in Replicas, NEW command \in Commands, Issue(r, command) PROVE StrayInv'
  BY <1>1 DEF Issue, IssueTo
<1>2. ASSUME NEW r \in Replicas, NEW p \in Pods, Route(r, p) PROVE StrayInv'
  BY <1>2 DEF Route
<1>3. ASSUME NEW p \in Pods, Apply(p) PROVE StrayInv'
  BY <1>3 DEF Apply, SetFlag
<1>4. ASSUME NEW c \in Customers, Check(c) PROVE StrayInv'
  BY <1>4 DEF Check
<1>5. ASSUME NEW c \in Customers, Send(c) PROVE StrayInv'
  BY <1>5 DEF Send
<1>6. ASSUME NEW p \in Pods, Bind(p) PROVE StrayInv'
  BY <1>6 DEF Bind
<1>7. ASSUME NEW p \in Pods, LoseConnection(p) PROVE StrayInv'
  BY <1>7 DEF LoseConnection
<1>8. ASSUME NEW p \in Pods, Exit(p) PROVE StrayInv'
  BY <1>8 DEF Exit, ProcessEnds
<1>9. ASSUME NEW p \in Pods, Kill(p) PROVE StrayInv'
  BY <1>9 DEF Kill, ProcessEnds
<1>10. ASSUME NEW p \in Pods, Start(p) PROVE StrayInv'
  BY <1>10 DEF Start
<1>11. CASE UNCHANGED vars
  BY <1>11 DEF vars
<1> QED BY <1>1, <1>2, <1>3, <1>4, <1>5, <1>6, <1>7, <1>8, <1>9, <1>10, <1>11 DEF Next

\* However its ticks, commands and losses interleave, a customer publishes at
\* most one order after its flag has fallen.
THEOREM OneStragglerHolds == Spec => []OneStraggler
<1>1. Init => StrayInv
  BY DEF Init, StrayInv, Up, Pods
<1>2. StrayInv => OneStraggler
  <2> SUFFICES ASSUME StrayInv, NEW c \in Customers PROVE strays[c] <= 1
    BY DEF OneStraggler
  <2>1. strays[c] = 0 \/ strays[c] = 1
    BY DEF StrayInv
  <2> QED BY <2>1
<1> QED BY <1>1, <1>2, StrayStep, TypeCorrect, PTL DEF Spec

-----------------------------------------------------------------------------
(***************************************************************************)
(* The last command.                                                       *)
(***************************************************************************)

\* Only replica r has commands on the way to pod p, and the last one of what
\* is on the way, or waits, or has been applied is the last command.
Awaits(r, p) ==
  /\ \A q \in Replicas \ {r} : routes[q][p] = <<>>
  /\ routes[r][p] # <<>> => EndOf(routes[r][p]) = last
  /\ routes[r][p] = <<>> /\ queue[p] # <<>> => EndOf(queue[p]) = last
  /\ routes[r][p] = <<>> /\ queue[p] = <<>> => (running[p] <=> last # "simulation.paused")

FollowInv == clean => \A p \in audience : \E r \in Replicas : Awaits(r, p)

\* A step that leaves what concerns a pod of the audience alone.
LEMMA AwaitsUntouched ==
  ASSUME FollowInv, UNCHANGED <<last, clean>>, audience' \subseteq audience,
         \A p \in audience' : queue'[p] = queue[p] /\ running'[p] = running[p]
                              /\ \A r \in Replicas : routes'[r][p] = routes[r][p]
  PROVE  FollowInv'
<1> SUFFICES ASSUME clean', NEW p \in audience' PROVE \E r \in Replicas : Awaits(r, p)'
  BY DEF FollowInv
<1>1. PICK r \in Replicas : Awaits(r, p)
  BY DEF FollowInv
<1>2. Awaits(r, p)'
  BY <1>1 DEF Awaits
<1> QED BY <1>2

LEMMA FollowStep == TypeOK /\ FollowInv /\ [Next]_vars => FollowInv'
<1> SUFFICES ASSUME TypeOK, FollowInv, [Next]_vars PROVE FollowInv'
  OBVIOUS
<1>1. audience \subseteq Pods /\ \A p \in audience : phase[p] = "bound"
  BY DEF TypeOK, Bound
<1>2. ASSUME NEW r \in Replicas, NEW command \in Commands, Issue(r, command) PROVE FollowInv'
  <2> SUFFICES ASSUME clean', NEW p \in audience' PROVE Awaits(r, p)'
    BY DEF FollowInv
  <2>1. p \in Bound /\ p \in Pods /\ last' = command
    BY <1>2 DEF Issue, IssueTo, Bound
  <2>2. \A q \in Replicas \ {r} : routes[q][p] = <<>> /\ routes'[q] = routes[q]
    BY <1>2, <2>1 DEF Issue, IssueTo, TypeOK
  <2>3. routes'[r][p] = Append(routes[r][p], command) /\ routes[r][p] \in Seq(Commands)
    BY <1>2, <2>1 DEF Issue, IssueTo, TypeOK
  <2>4. routes'[r][p] # <<>> /\ EndOf(routes'[r][p]) = command
    BY <2>3, SequenceEnds
  <2> QED BY <2>1, <2>2, <2>4 DEF Awaits
<1>3. ASSUME NEW s \in Replicas, NEW p \in Pods, Route(s, p) PROVE FollowInv'
  <2> DEFINE old == routes[s][p]
  <2>1. /\ old # <<>> /\ old \in Seq(Commands) /\ queue[p] \in Seq(Commands)
        /\ queue'[p] = Append(queue[p], Head(old))
        /\ routes'[s][p] = Tail(old)
        /\ \A q \in Replicas \ {s} : routes'[q][p] = routes[q][p]
        /\ \A q \in Pods \ {p} : queue'[q] = queue[q] /\ \A r \in Replicas : routes'[r][q] = routes[r][q]
        /\ UNCHANGED <<running, last, clean, audience>>
    BY <1>3 DEF Route, TypeOK
  <2>2. /\ Head(old) \in Commands
        /\ Tail(old) = <<>> => EndOf(old) = Head(old)
        /\ Tail(old) # <<>> => EndOf(Tail(old)) = EndOf(old)
    BY <2>1, SequenceEnds
  <2>3. queue'[p] # <<>> /\ EndOf(queue'[p]) = Head(old)
    BY <2>1, <2>2, SequenceEnds
  <2> SUFFICES ASSUME clean, NEW t \in audience PROVE \E r \in Replicas : Awaits(r, t)'
    BY <2>1 DEF FollowInv
  <2>4. PICK r \in Replicas : Awaits(r, t)
    BY DEF FollowInv
  <2>5. CASE t = p
    <3>1. r = s
      BY <2>1, <2>4, <2>5 DEF Awaits
    <3>2. EndOf(old) = last /\ \A q \in Replicas \ {s} : routes'[q][p] = <<>>
      BY <2>1, <2>4, <2>5, <3>1 DEF Awaits
    <3>3. Awaits(s, p)'
      BY <2>1, <2>2, <2>3, <3>2 DEF Awaits
    <3> QED BY <2>5, <3>3
  <2>6. CASE t # p
    <3>1. Awaits(r, t)'
      BY <1>1, <2>1, <2>4, <2>6 DEF Awaits
    <3> QED BY <3>1
  <2> QED BY <2>5, <2>6
<1>4. ASSUME NEW p \in Pods, Apply(p) PROVE FollowInv'
  <2>1. /\ queue[p] # <<>> /\ queue[p] \in Seq(Commands) /\ queue'[p] = Tail(queue[p])
        /\ (running'[p] <=> Head(queue[p]) # "simulation.paused")
        /\ \A q \in Pods \ {p} : queue'[q] = queue[q] /\ running'[q] = running[q]
        /\ UNCHANGED <<routes, last, clean, audience>>
    BY <1>4 DEF Apply, SetFlag, TypeOK
  <2>2. /\ Head(queue[p]) \in Commands
        /\ Tail(queue[p]) = <<>> => EndOf(queue[p]) = Head(queue[p])
        /\ Tail(queue[p]) # <<>> => EndOf(Tail(queue[p])) = EndOf(queue[p])
    BY <2>1, SequenceEnds
  <2> SUFFICES ASSUME clean, NEW t \in audience PROVE \E r \in Replicas : Awaits(r, t)'
    BY <2>1 DEF FollowInv
  <2>3. PICK r \in Replicas : Awaits(r, t)
    BY DEF FollowInv
  <2>4. CASE t = p
    <3>1. Awaits(r, p)'
      BY <2>1, <2>2, <2>3, <2>4 DEF Awaits
    <3> QED BY <2>4, <3>1
  <2>5. CASE t # p
    <3>1. Awaits(r, t)'
      BY <1>1, <2>1, <2>3, <2>5 DEF Awaits
    <3> QED BY <3>1
  <2> QED BY <2>4, <2>5
<1>5. ASSUME NEW c \in Customers, Check(c) \/ Send(c) PROVE FollowInv'
  BY <1>5, AwaitsUntouched DEF Check, Send
<1>6. ASSUME NEW p \in Pods, Bind(p) \/ Exit(p) PROVE FollowInv'
  BY <1>6, AwaitsUntouched DEF Bind, Exit
<1>7. ASSUME NEW p \in Pods, LoseConnection(p) \/ Kill(p) PROVE FollowInv'
  <2>1. QueueGone(p) /\ UNCHANGED <<running, last, clean>>
    BY <1>7 DEF LoseConnection, Kill
  <2>2. audience' = audience \ {p}
    BY <2>1 DEF QueueGone
  <2>3. \A q \in audience' : queue'[q] = queue[q] /\ \A r \in Replicas : routes'[r][q] = routes[r][q]
    BY <1>1, <2>1, <2>2 DEF QueueGone, TypeOK
  <2> QED BY <2>1, <2>2, <2>3, AwaitsUntouched
<1>8. ASSUME NEW p \in Pods, Start(p) PROVE FollowInv'
  <2>1. p \notin audience
    BY <1>1, <1>8 DEF Start
  <2>2. \A q \in audience : running'[q] = running[q]
    BY <1>1, <1>8, <2>1 DEF Start, TypeOK
  <2> QED BY <1>8, <2>2, AwaitsUntouched DEF Start
<1>9. CASE UNCHANGED vars
  BY <1>9, AwaitsUntouched DEF vars
<1> QED BY <1>2, <1>3, <1>4, <1>5, <1>6, <1>7, <1>8, <1>9 DEF Next

\* A pod that has been listening since the last command obeys it once nothing
\* is on its way, unless the command met one of another replica.
THEOREM FollowsLastHolds == Spec => []FollowsLast
<1>1. Init => FollowInv
  BY DEF Init, FollowInv
<1>2. FollowInv => FollowsLast
  BY DEF FollowInv, FollowsLast, Awaits, CaughtUp
<1> QED BY <1>1, <1>2, FollowStep, TypeCorrect, PTL DEF Spec
=============================================================================
