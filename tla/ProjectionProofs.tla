-------------------------- MODULE ProjectionProofs --------------------------
(***************************************************************************)
(* Theorems of Projection for any number of pods, workers, messages and    *)
(* events.  One lemma per part of the inductive invariant IInv shows that  *)
(* every step keeps that part; Invariance puts them together; each         *)
(* property follows.  The last theorem is the refinement of EventLedger.   *)
(***************************************************************************)
EXTENDS Projection, TLAPS

USE ProjectionAssumption
USE DEF queueVars, workerVars, tableVars, faultVars

\* Every step keeps the types; a worker that settles or commits has a delivery
\* to settle or commit (JobsHeld).
LEMMA TypeStep == TypeOK /\ JobsHeld /\ [Next]_vars => TypeOK'
<1> SUFFICES ASSUME TypeOK /\ JobsHeld, [Next]_vars PROVE TypeOK'
  OBVIOUS
<1> USE DEF TypeOK, PodStates, WorkerStates, Handling, InTx, Settling, JobsHeld, Busy
<1>1. ASSUME NEW m \in Messages, Publish(m) PROVE TypeOK'
  BY <1>1 DEF Publish
<1>2. ASSUME NEW p \in Pods, NEW m \in Messages, Deliver(p, m) PROVE TypeOK'
  BY <1>2 DEF Deliver
<1>3. ASSUME NEW w \in Workers, NEW m \in Messages, Receive(w, m) PROVE TypeOK'
  BY <1>3 DEF Receive
<1>4. ASSUME NEW w \in Workers, Claim(w) PROVE TypeOK'
  BY <1>4 DEF Claim
<1>5. ASSUME NEW w \in Workers, Project(w) PROVE TypeOK'
  BY <1>5 DEF Project
<1>6. ASSUME NEW w \in Workers, ProjectFails(w) PROVE TypeOK'
  BY <1>6 DEF ProjectFails
<1>7. ASSUME NEW w \in Workers, Commit(w) PROVE TypeOK'
  BY <1>7 DEF Commit, CommitTx
<1>8. ASSUME NEW w \in Workers, Settle(w) PROVE TypeOK'
  BY <1>8 DEF Settle
<1>9. ASSUME NEW w \in Workers, SettleFails(w) PROVE TypeOK'
  BY <1>9 DEF SettleFails
<1>10. ASSUME NEW w \in Workers, DbError(w) PROVE TypeOK'
  <2>1. CASE CommitTx(w)
    BY <1>10, <2>1 DEF DbError, CommitTx
  <2>2. CASE UNCHANGED tableVars
    BY <1>10, <2>2 DEF DbError
  <2> QED BY <1>10, <2>1, <2>2 DEF DbError
<1>11. ASSUME NEW w \in Workers, Interrupt(w) PROVE TypeOK'
  <2>1. CASE CommitTx(w)
    BY <1>11, <2>1 DEF Interrupt, CommitTx
  <2>2. CASE UNCHANGED tableVars
    BY <1>11, <2>2 DEF Interrupt
  <2> QED BY <1>11, <2>1, <2>2 DEF Interrupt
<1>12. ASSUME NEW p \in Pods, CloseChannel(p) PROVE TypeOK'
  BY <1>12 DEF CloseChannel, Redeliver
<1>13. ASSUME NEW p \in Pods, Exit(p) PROVE TypeOK'
  BY <1>13 DEF Exit, EndProcess
<1>14. ASSUME NEW p \in Pods, Start(p) PROVE TypeOK'
  BY <1>14 DEF Start
<1>15. ASSUME NEW p \in Pods, Cancel(p) PROVE TypeOK'
  BY <1>15 DEF Cancel, CountStop
<1>16. ASSUME NEW p \in Pods, LoseConnection(p) PROVE TypeOK'
  BY <1>16 DEF LoseConnection, CountStop, Redeliver
<1>17. ASSUME NEW p \in Pods, Kill(p) PROVE TypeOK'
  BY <1>17 DEF Kill, CountStop, EndProcess, Redeliver
<1>18. CASE Failover
  BY <1>18 DEF Failover
<1>19. CASE UNCHANGED vars
  BY <1>19 DEF vars
<1> QED
  BY <1>1, <1>2, <1>3, <1>4, <1>5, <1>6, <1>7, <1>8, <1>9, <1>10, <1>11, <1>12, <1>13, <1>14, <1>15, <1>16, <1>17, <1>18, <1>19
  DEF Next, WorkerStep, Disturbance, Rest

\* Every step keeps worker and delivery together: in particular a message is
\* taken off a channel's unacknowledged set by the one worker that holds it.
LEMMA JobsStep == TypeOK /\ JobsHeld /\ EachMessageOnce /\ OneLiveHandler /\ [Next]_vars => JobsHeld'
<1> SUFFICES ASSUME TypeOK /\ JobsHeld /\ EachMessageOnce /\ OneLiveHandler, [Next]_vars PROVE JobsHeld'
  OBVIOUS
<1> USE DEF TypeOK, JobsHeld, Busy, Connected, PodStates, WorkerStates, Handling, InTx, Settling, OneLiveHandler, EachMessageOnce
<1>1. ASSUME NEW m \in Messages, Publish(m) PROVE JobsHeld'
  BY <1>1 DEF Publish
<1>2. ASSUME NEW p \in Pods, NEW m \in Messages, Deliver(p, m) PROVE JobsHeld'
  BY <1>2 DEF Deliver
<1>3. ASSUME NEW w \in Workers, NEW m \in Messages, Receive(w, m) PROVE JobsHeld'
  BY <1>3 DEF Receive
<1>4. ASSUME NEW w \in Workers, Claim(w) PROVE JobsHeld'
  BY <1>4 DEF Claim
<1>5. ASSUME NEW w \in Workers, Project(w) PROVE JobsHeld'
  BY <1>5 DEF Project
<1>6. ASSUME NEW w \in Workers, ProjectFails(w) PROVE JobsHeld'
  BY <1>6 DEF ProjectFails
<1>7. ASSUME NEW w \in Workers, Commit(w) PROVE JobsHeld'
  BY <1>7 DEF Commit, CommitTx
<1>8. ASSUME NEW w \in Workers, Settle(w) PROVE JobsHeld'
  BY <1>8 DEF Settle
<1>9. ASSUME NEW w \in Workers, SettleFails(w) PROVE JobsHeld'
  BY <1>9 DEF SettleFails
<1>10. ASSUME NEW w \in Workers, DbError(w) PROVE JobsHeld'
  BY <1>10 DEF DbError, CommitTx
<1>11. ASSUME NEW w \in Workers, Interrupt(w) PROVE JobsHeld'
  BY <1>11 DEF Interrupt, CommitTx
<1>12. ASSUME NEW p \in Pods, CloseChannel(p) PROVE JobsHeld'
  BY <1>12 DEF CloseChannel, Redeliver
<1>13. ASSUME NEW p \in Pods, Exit(p) PROVE JobsHeld'
  BY <1>13 DEF Exit, EndProcess
<1>14. ASSUME NEW p \in Pods, Start(p) PROVE JobsHeld'
  BY <1>14 DEF Start
<1>15. ASSUME NEW p \in Pods, Cancel(p) PROVE JobsHeld'
  BY <1>15 DEF Cancel, CountStop
<1>16. ASSUME NEW p \in Pods, LoseConnection(p) PROVE JobsHeld'
  BY <1>16 DEF LoseConnection, CountStop, Redeliver
<1>17. ASSUME NEW p \in Pods, Kill(p) PROVE JobsHeld'
  BY <1>17 DEF Kill, CountStop, EndProcess, Redeliver
<1>18. CASE Failover
  BY <1>18 DEF Failover
<1>19. CASE UNCHANGED vars
  BY <1>19 DEF vars
<1> QED
  BY <1>1, <1>2, <1>3, <1>4, <1>5, <1>6, <1>7, <1>8, <1>9, <1>10, <1>11, <1>12, <1>13, <1>14, <1>15, <1>16, <1>17, <1>18, <1>19
  DEF Next, WorkerStep, Disturbance, Rest

\* Every step keeps the deliveries handled on live channels distinct: a stale
\* handler belongs to a channel that is gone and does not come back with it.
LEMMA HandlerStep == TypeOK /\ JobsHeld /\ EachMessageOnce /\ OneLiveHandler /\ [Next]_vars => OneLiveHandler'
<1> SUFFICES ASSUME TypeOK /\ JobsHeld /\ EachMessageOnce /\ OneLiveHandler, [Next]_vars PROVE OneLiveHandler'
  OBVIOUS
<1> USE DEF TypeOK, JobsHeld, Busy, Connected, PodStates, WorkerStates, Handling, InTx, Settling, OneLiveHandler, ActiveWorkers, EachMessageOnce
<1>1. ASSUME NEW m \in Messages, Publish(m) PROVE OneLiveHandler'
  BY <1>1 DEF Publish
<1>2. ASSUME NEW p \in Pods, NEW m \in Messages, Deliver(p, m) PROVE OneLiveHandler'
  BY <1>2 DEF Deliver
<1>3. ASSUME NEW w \in Workers, NEW m \in Messages, Receive(w, m) PROVE OneLiveHandler'
  BY <1>3 DEF Receive
<1>4. ASSUME NEW w \in Workers, Claim(w) PROVE OneLiveHandler'
  BY <1>4 DEF Claim
<1>5. ASSUME NEW w \in Workers, Project(w) PROVE OneLiveHandler'
  BY <1>5 DEF Project
<1>6. ASSUME NEW w \in Workers, ProjectFails(w) PROVE OneLiveHandler'
  BY <1>6 DEF ProjectFails
<1>7. ASSUME NEW w \in Workers, Commit(w) PROVE OneLiveHandler'
  BY <1>7 DEF Commit, CommitTx
<1>8. ASSUME NEW w \in Workers, Settle(w) PROVE OneLiveHandler'
  BY <1>8 DEF Settle
<1>9. ASSUME NEW w \in Workers, SettleFails(w) PROVE OneLiveHandler'
  BY <1>9 DEF SettleFails
<1>10. ASSUME NEW w \in Workers, DbError(w) PROVE OneLiveHandler'
  BY <1>10 DEF DbError, CommitTx
<1>11. ASSUME NEW w \in Workers, Interrupt(w) PROVE OneLiveHandler'
  BY <1>11 DEF Interrupt, CommitTx
<1>12. ASSUME NEW p \in Pods, CloseChannel(p) PROVE OneLiveHandler'
  BY <1>12 DEF CloseChannel, Redeliver
<1>13. ASSUME NEW p \in Pods, Exit(p) PROVE OneLiveHandler'
  BY <1>13 DEF Exit, EndProcess
<1>14. ASSUME NEW p \in Pods, Start(p) PROVE OneLiveHandler'
  BY <1>14 DEF Start
<1>15. ASSUME NEW p \in Pods, Cancel(p) PROVE OneLiveHandler'
  BY <1>15 DEF Cancel, CountStop
<1>16. ASSUME NEW p \in Pods, LoseConnection(p) PROVE OneLiveHandler'
  BY <1>16 DEF LoseConnection, CountStop, Redeliver
<1>17. ASSUME NEW p \in Pods, Kill(p) PROVE OneLiveHandler'
  BY <1>17 DEF Kill, CountStop, EndProcess, Redeliver
<1>18. CASE Failover
  BY <1>18 DEF Failover
<1>19. CASE UNCHANGED vars
  BY <1>19 DEF vars
<1> QED
  BY <1>1, <1>2, <1>3, <1>4, <1>5, <1>6, <1>7, <1>8, <1>9, <1>10, <1>11, <1>12, <1>13, <1>14, <1>15, <1>16, <1>17, <1>18, <1>19
  DEF Next, WorkerStep, Disturbance, Rest

\* Every step keeps the open claims fresh: a claim waits for the transactions
\* that hold its event, and a failover closes all of them.
LEMMA ClaimsStep == TypeOK /\ JobsHeld /\ EffectOnce /\ ClaimsFresh /\ [Next]_vars => ClaimsFresh'
<1> SUFFICES ASSUME TypeOK /\ JobsHeld /\ EffectOnce /\ ClaimsFresh, [Next]_vars PROVE ClaimsFresh'
  OBVIOUS
<1> USE DEF TypeOK, JobsHeld, Busy, ClaimsFresh, EffectOnce, InTx, Handling, Settling, WorkerStates
<1>1. ASSUME NEW m \in Messages, Publish(m) PROVE ClaimsFresh'
  BY <1>1 DEF Publish
<1>2. ASSUME NEW p \in Pods, NEW m \in Messages, Deliver(p, m) PROVE ClaimsFresh'
  BY <1>2 DEF Deliver
<1>3. ASSUME NEW w \in Workers, NEW m \in Messages, Receive(w, m) PROVE ClaimsFresh'
  BY <1>3 DEF Receive
<1>4. ASSUME NEW w \in Workers, Claim(w) PROVE ClaimsFresh'
  BY <1>4 DEF Claim
<1>5. ASSUME NEW w \in Workers, Project(w) PROVE ClaimsFresh'
  BY <1>5 DEF Project
<1>6. ASSUME NEW w \in Workers, ProjectFails(w) PROVE ClaimsFresh'
  BY <1>6 DEF ProjectFails
<1>7. ASSUME NEW w \in Workers, Commit(w) PROVE ClaimsFresh'
  BY <1>7 DEF Commit, CommitTx
<1>8. ASSUME NEW w \in Workers, Settle(w) PROVE ClaimsFresh'
  BY <1>8 DEF Settle
<1>9. ASSUME NEW w \in Workers, SettleFails(w) PROVE ClaimsFresh'
  BY <1>9 DEF SettleFails
<1>10. ASSUME NEW w \in Workers, DbError(w) PROVE ClaimsFresh'
  BY <1>10 DEF DbError, CommitTx
<1>11. ASSUME NEW w \in Workers, Interrupt(w) PROVE ClaimsFresh'
  BY <1>11 DEF Interrupt, CommitTx
<1>12. ASSUME NEW p \in Pods, CloseChannel(p) PROVE ClaimsFresh'
  BY <1>12 DEF CloseChannel, Redeliver
<1>13. ASSUME NEW p \in Pods, Exit(p) PROVE ClaimsFresh'
  BY <1>13 DEF Exit, EndProcess
<1>14. ASSUME NEW p \in Pods, Start(p) PROVE ClaimsFresh'
  BY <1>14 DEF Start
<1>15. ASSUME NEW p \in Pods, Cancel(p) PROVE ClaimsFresh'
  BY <1>15 DEF Cancel, CountStop
<1>16. ASSUME NEW p \in Pods, LoseConnection(p) PROVE ClaimsFresh'
  BY <1>16 DEF LoseConnection, CountStop, Redeliver
<1>17. ASSUME NEW p \in Pods, Kill(p) PROVE ClaimsFresh'
  BY <1>17 DEF Kill, CountStop, EndProcess, Redeliver
<1>18. CASE Failover
  BY <1>18 DEF Failover
<1>19. CASE UNCHANGED vars
  BY <1>19 DEF vars
<1> QED
  BY <1>1, <1>2, <1>3, <1>4, <1>5, <1>6, <1>7, <1>8, <1>9, <1>10, <1>11, <1>12, <1>13, <1>14, <1>15, <1>16, <1>17, <1>18, <1>19
  DEF Next, WorkerStep, Disturbance, Rest

\* Every step keeps earned the acknowledgements about to be sent: the event is
\* committed, or a failover has recorded its loss.
LEMMA AckStep == TypeOK /\ JobsHeld /\ EffectOnce /\ AckEarned /\ [Next]_vars => AckEarned'
<1> SUFFICES ASSUME TypeOK /\ JobsHeld /\ EffectOnce /\ AckEarned, [Next]_vars PROVE AckEarned'
  OBVIOUS
<1> USE DEF TypeOK, AckEarned, EffectOnce, InTx, Handling, Settling, WorkerStates
<1>1. ASSUME NEW m \in Messages, Publish(m) PROVE AckEarned'
  BY <1>1 DEF Publish
<1>2. ASSUME NEW p \in Pods, NEW m \in Messages, Deliver(p, m) PROVE AckEarned'
  BY <1>2 DEF Deliver
<1>3. ASSUME NEW w \in Workers, NEW m \in Messages, Receive(w, m) PROVE AckEarned'
  BY <1>3 DEF Receive
<1>4. ASSUME NEW w \in Workers, Claim(w) PROVE AckEarned'
  BY <1>4 DEF Claim
<1>5. ASSUME NEW w \in Workers, Project(w) PROVE AckEarned'
  BY <1>5 DEF Project
<1>6. ASSUME NEW w \in Workers, ProjectFails(w) PROVE AckEarned'
  BY <1>6 DEF ProjectFails
<1>7. ASSUME NEW w \in Workers, Commit(w) PROVE AckEarned'
  BY <1>7 DEF Commit, CommitTx
<1>8. ASSUME NEW w \in Workers, Settle(w) PROVE AckEarned'
  BY <1>8 DEF Settle
<1>9. ASSUME NEW w \in Workers, SettleFails(w) PROVE AckEarned'
  BY <1>9 DEF SettleFails
<1>10. ASSUME NEW w \in Workers, DbError(w) PROVE AckEarned'
  BY <1>10 DEF DbError, CommitTx
<1>11. ASSUME NEW w \in Workers, Interrupt(w) PROVE AckEarned'
  BY <1>11 DEF Interrupt, CommitTx
<1>12. ASSUME NEW p \in Pods, CloseChannel(p) PROVE AckEarned'
  BY <1>12 DEF CloseChannel, Redeliver
<1>13. ASSUME NEW p \in Pods, Exit(p) PROVE AckEarned'
  BY <1>13 DEF Exit, EndProcess
<1>14. ASSUME NEW p \in Pods, Start(p) PROVE AckEarned'
  BY <1>14 DEF Start
<1>15. ASSUME NEW p \in Pods, Cancel(p) PROVE AckEarned'
  BY <1>15 DEF Cancel, CountStop
<1>16. ASSUME NEW p \in Pods, LoseConnection(p) PROVE AckEarned'
  BY <1>16 DEF LoseConnection, CountStop, Redeliver
<1>17. ASSUME NEW p \in Pods, Kill(p) PROVE AckEarned'
  BY <1>17 DEF Kill, CountStop, EndProcess, Redeliver
<1>18. CASE Failover
  BY <1>18 DEF Failover
<1>19. CASE UNCHANGED vars
  BY <1>19 DEF vars
<1> QED
  BY <1>1, <1>2, <1>3, <1>4, <1>5, <1>6, <1>7, <1>8, <1>9, <1>10, <1>11, <1>12, <1>13, <1>14, <1>15, <1>16, <1>17, <1>18, <1>19
  DEF Next, WorkerStep, Disturbance, Rest

\* As long as the database answers, every step that leads to a rejection starts
\* from a delivery that cannot be parsed or stored.
LEMMA RejectStep == TypeOK /\ RejectEarned /\ [Next]_vars => RejectEarned'
<1> SUFFICES ASSUME TypeOK /\ RejectEarned, [Next]_vars PROVE RejectEarned'
  OBVIOUS
<1> USE DEF TypeOK, RejectEarned, InTx, Handling, Settling
<1>1. ASSUME NEW m \in Messages, Publish(m) PROVE RejectEarned'
  BY <1>1 DEF Publish
<1>2. ASSUME NEW p \in Pods, NEW m \in Messages, Deliver(p, m) PROVE RejectEarned'
  BY <1>2 DEF Deliver
<1>3. ASSUME NEW w \in Workers, NEW m \in Messages, Receive(w, m) PROVE RejectEarned'
  BY <1>3 DEF Receive
<1>4. ASSUME NEW w \in Workers, Claim(w) PROVE RejectEarned'
  BY <1>4 DEF Claim
<1>5. ASSUME NEW w \in Workers, Project(w) PROVE RejectEarned'
  BY <1>5 DEF Project
<1>6. ASSUME NEW w \in Workers, ProjectFails(w) PROVE RejectEarned'
  BY <1>6 DEF ProjectFails
<1>7. ASSUME NEW w \in Workers, Commit(w) PROVE RejectEarned'
  BY <1>7 DEF Commit, CommitTx
<1>8. ASSUME NEW w \in Workers, Settle(w) PROVE RejectEarned'
  BY <1>8 DEF Settle
<1>9. ASSUME NEW w \in Workers, SettleFails(w) PROVE RejectEarned'
  BY <1>9 DEF SettleFails
<1>10. ASSUME NEW w \in Workers, DbError(w) PROVE RejectEarned'
  BY <1>10 DEF DbError, CommitTx
<1>11. ASSUME NEW w \in Workers, Interrupt(w) PROVE RejectEarned'
  BY <1>11 DEF Interrupt, CommitTx
<1>12. ASSUME NEW p \in Pods, CloseChannel(p) PROVE RejectEarned'
  BY <1>12 DEF CloseChannel, Redeliver
<1>13. ASSUME NEW p \in Pods, Exit(p) PROVE RejectEarned'
  BY <1>13 DEF Exit, EndProcess
<1>14. ASSUME NEW p \in Pods, Start(p) PROVE RejectEarned'
  BY <1>14 DEF Start
<1>15. ASSUME NEW p \in Pods, Cancel(p) PROVE RejectEarned'
  BY <1>15 DEF Cancel, CountStop
<1>16. ASSUME NEW p \in Pods, LoseConnection(p) PROVE RejectEarned'
  BY <1>16 DEF LoseConnection, CountStop, Redeliver
<1>17. ASSUME NEW p \in Pods, Kill(p) PROVE RejectEarned'
  BY <1>17 DEF Kill, CountStop, EndProcess, Redeliver
<1>18. CASE Failover
  BY <1>18 DEF Failover
<1>19. CASE UNCHANGED vars
  BY <1>19 DEF vars
<1> QED
  BY <1>1, <1>2, <1>3, <1>4, <1>5, <1>6, <1>7, <1>8, <1>9, <1>10, <1>11, <1>12, <1>13, <1>14, <1>15, <1>16, <1>17, <1>18, <1>19
  DEF Next, WorkerStep, Disturbance, Rest

\* Which steps touch the tables: commits and failovers.
LEMMA TablesFrame ==
  ASSUME [Next]_vars
  PROVE  UNCHANGED tableVars \/ (\E w \in Workers : CommitTx(w)) \/ Failover
BY DEF Next, WorkerStep, Disturbance, Rest, vars, Publish, Deliver, Receive,
       Claim, Project, ProjectFails, Commit, DbError, Interrupt, Settle,
       SettleFails, Cancel, CloseChannel, LoseConnection, Exit, Kill, Start,
       EndProcess

\* Which steps move a message between the places of EachMessageOnce.
LEMMA QueuesFrame ==
  ASSUME [Next]_vars
  PROVE  \/ UNCHANGED queueVars
         \/ \E m \in Messages : Publish(m)
         \/ \E p \in Pods, m \in Messages : Deliver(p, m)
         \/ \E w \in Workers : Settle(w)
         \/ \E p \in Pods : Redeliver(p)
BY DEF Next, WorkerStep, Disturbance, Rest, vars, Receive,
       Claim, Project, ProjectFails, Commit, DbError, Interrupt,
       SettleFails, Cancel, CloseChannel, LoseConnection, Exit, Kill, Start,
       Failover

\* Every step moves a message from one place to exactly one other.
LEMMA MessagesStep ==
  TypeOK /\ JobsHeld /\ EachMessageOnce /\ [Next]_vars => EachMessageOnce'
<1> SUFFICES ASSUME TypeOK, JobsHeld, EachMessageOnce, [Next]_vars
             PROVE  EachMessageOnce'
  OBVIOUS
<1> USE DEF TypeOK, EachMessageOnce
<1>1. CASE UNCHANGED queueVars
  BY <1>1
<1>2. ASSUME NEW m \in Messages, Publish(m) PROVE EachMessageOnce'
  BY <1>2 DEF Publish
<1>3. ASSUME NEW p \in Pods, NEW m \in Messages, Deliver(p, m)
      PROVE  EachMessageOnce'
  BY <1>3 DEF Deliver
<1>4. ASSUME NEW w \in Workers, Settle(w) PROVE EachMessageOnce'
  <2>1. job[w] \in unacked[PodOf[w]] /\ PodOf[w] \in Pods
    BY <1>4 DEF Settle, JobsHeld, Busy, Settling
  <2>2. /\ job[w] \notin ready \cup acked \cup dead
        /\ \A q \in Pods \ {PodOf[w]} : job[w] \notin unacked[q]
    BY <2>1
  <2>3. \/ acked' = acked \cup {job[w]} /\ dead' = dead /\ ready' = ready
        \/ acked' = acked /\ dead' = dead \cup {job[w]} /\ ready' = ready
        \/ acked' = acked /\ dead' = dead /\ ready' = ready \cup {job[w]}
    BY <1>4 DEF Settle, Settling
  <2>4. /\ unacked' = [unacked EXCEPT ![PodOf[w]] = @ \ {job[w]}]
        /\ published' = published
    BY <1>4 DEF Settle
  <2> QED BY <2>1, <2>2, <2>3, <2>4
<1>5. ASSUME NEW p \in Pods, Redeliver(p) PROVE EachMessageOnce'
  BY <1>5 DEF Redeliver
<1> QED BY <1>1, <1>2, <1>3, <1>4, <1>5, QueuesFrame

\* Every step keeps claims and effects in the tables together and single.
LEMMA EffectStep ==
  TypeOK /\ JobsHeld /\ ClaimsFresh /\ EffectOnce /\ [Next]_vars => EffectOnce'
<1> SUFFICES ASSUME TypeOK, JobsHeld, ClaimsFresh, EffectOnce, [Next]_vars
             PROVE  EffectOnce'
  OBVIOUS
<1>1. CASE UNCHANGED tableVars
  BY <1>1 DEF EffectOnce
<1>2. ASSUME NEW w \in Workers, CommitTx(w) PROVE EffectOnce'
  <2> DEFINE e == EventOf[job[w]]
  <2>1. e \in Events /\ e \notin processed
    BY <1>2 DEF CommitTx, ClaimsFresh, InTx, JobsHeld, Busy, TypeOK
  <2>2. /\ Len(applied') = Len(applied) + 1
        /\ \A i \in 1..Len(applied) : applied'[i] = applied[i]
        /\ applied'[Len(applied) + 1] = e
        /\ processed' = processed \cup {e}
    BY <1>2, <2>1 DEF CommitTx, TypeOK
  <2> DEFINE n == Len(applied)
  <2>3. n \in Nat /\ \A i \in 1..(n + 1) : i \in 1..n \/ i = n + 1
    BY DEF TypeOK
  <2>4. \A i \in 1..n : applied[i] # e
    BY <2>1 DEF EffectOnce
  <2> HIDE DEF e
  <2>5. ASSUME NEW i \in 1..(n + 1), NEW j \in 1..(n + 1),
               applied'[i] = applied'[j]
        PROVE  i = j
    BY <2>2, <2>3, <2>4, <2>5 DEF EffectOnce
  <2>6. {applied'[i] : i \in 1..(n + 1)} = {applied[i] : i \in 1..n} \cup {e}
    <3> HIDE DEF n
    <3> SUFFICES \A x : x \in {applied'[i] : i \in 1..(n + 1)}
                        <=> x \in {applied[i] : i \in 1..n} \cup {e}
      OBVIOUS
    <3> QED BY <2>2, <2>3 DEF n
  <2> QED BY <2>2, <2>5, <2>6 DEF EffectOnce
<1>3. CASE Failover
  BY <1>3 DEF Failover, EffectOnce, TypeOK
<1> QED BY <1>1, <1>2, <1>3, TablesFrame

\* Every step keeps acknowledged events in the tables or among the forgotten.
LEMMA AckedStep ==
  /\ TypeOK /\ EffectOnce /\ AckEarned /\ AckedIsApplied
  /\ [Next]_vars
  => AckedIsApplied'
<1> SUFFICES ASSUME TypeOK, EffectOnce, AckEarned, AckedIsApplied, [Next]_vars
             PROVE  AckedIsApplied'
  OBVIOUS
<1>1. \A m \in acked' \ acked : EventOf[m] \in processed \cup forgotten
  BY QueuesFrame
  DEF Publish, Deliver, Settle, Redeliver, AckEarned, TypeOK
<1>2. processed \cup forgotten \subseteq processed' \cup forgotten'
  <2>1. ASSUME NEW w \in Workers, CommitTx(w)
        PROVE  processed \cup forgotten \subseteq processed' \cup forgotten'
    BY <2>1 DEF CommitTx
  <2>2. CASE Failover
    BY <2>2 DEF Failover, EffectOnce, TypeOK
  <2> QED BY <2>1, <2>2, TablesFrame
<1> QED BY <1>1, <1>2 DEF AckedIsApplied, TypeOK

\* Every step dead-letters only what RejectEarned allows.
LEMMA StopsStep ==
  TypeOK /\ RejectEarned /\ StopsNeverDeadLetter /\ [Next]_vars
  => StopsNeverDeadLetter'
<1> SUFFICES ASSUME TypeOK, RejectEarned, StopsNeverDeadLetter, [Next]_vars
             PROVE  StopsNeverDeadLetter'
  OBVIOUS
<1>1. dbFaults' + failovers' = 0 => dbFaults + failovers = 0
  BY DEF Next, WorkerStep, Disturbance, Rest, vars, Publish, Deliver, Receive,
         Claim, Project, ProjectFails, Commit, DbError, Interrupt, Settle,
         SettleFails, Cancel, CloseChannel, LoseConnection, Exit, Kill, Start,
         Failover, CountStop, TypeOK
<1>2. dead' = dead \/ \E w \in Workers : /\ pc[w] = "reject"
                                         /\ dead' = dead \cup {job[w]}
  BY QueuesFrame DEF Publish, Deliver, Settle, Redeliver
<1> QED BY <1>1, <1>2 DEF StopsNeverDeadLetter, RejectEarned

-----------------------------------------------------------------------------
\* IInv is inductive: the initial states satisfy it and every step keeps it.
LEMMA Invariance == Spec => []IInv
<1>1. Init => IInv
  BY DEF Init, IInv, TypeOK, JobsHeld, Busy, OneLiveHandler, EachMessageOnce,
         ClaimsFresh, EffectOnce, AckEarned, AckedIsApplied, RejectEarned,
         StopsNeverDeadLetter, InTx, PodStates, WorkerStates
<1>2. IInv /\ [Next]_vars => IInv'
  BY TypeStep, JobsStep, HandlerStep, MessagesStep, ClaimsStep, EffectStep,
     AckStep, AckedStep, RejectStep, StopsStep
  DEF IInv
<1> QED BY <1>1, <1>2, PTL DEF Spec

\* Variables keep their types: in particular a worker never settles a delivery
\* it does not hold.
THEOREM TypeCorrect == Spec => []TypeOK
BY Invariance, PTL DEF IInv

\* "Project applies an event once in a single transaction": no interleaving of
\* redeliveries, duplicates, crashes and failed or uncertain commits applies
\* an event twice, or claims it without applying it.
THEOREM EffectOnceHolds == Spec => []EffectOnce
BY Invariance, PTL DEF IInv

\* Consume acknowledges after Project has returned: only a failover of the
\* asynchronous database can take an acknowledged event out of the tables.
THEOREM AckedIsAppliedHolds == Spec => []AckedIsApplied
BY Invariance, PTL DEF IInv

\* Manual acknowledgements keep each message in exactly one place.
THEOREM EachMessageOnceHolds == Spec => []EachMessageOnce
BY Invariance, PTL DEF IInv

\* The workers of all live channels hold distinct deliveries.
THEOREM OneLiveHandlerHolds == Spec => []OneLiveHandler
BY Invariance, PTL DEF IInv

\* SIGTERM, SIGKILL and lost connections requeue; they never dead-letter.
THEOREM StopsNeverDeadLetterHolds == Spec => []StopsNeverDeadLetter
BY Invariance, PTL DEF IInv

-----------------------------------------------------------------------------
\* The steps the ledger can see.
LEMMA VisibleSteps ==
  ASSUME [Next]_vars
  PROVE  \/ UNCHANGED <<published, acked, dead, tableVars>>
         \/ \E m \in Messages : Publish(m)
         \/ \E w \in Workers : Settle(w)
         \/ \E w \in Workers : CommitTx(w) /\ UNCHANGED queueVars
         \/ Failover
BY DEF Next, WorkerStep, Disturbance, Rest, vars, Deliver, Receive, Claim,
       Project, ProjectFails, Commit, DbError, Interrupt, SettleFails, Cancel,
       CloseChannel, LoseConnection, Exit, Kill, Start, EndProcess, Redeliver

\* The refinement mapping of the verdicts, as a name to reason with.
Verdict == [m \in Messages |-> VerdictOf(m)]

\* Only a publish, an acknowledgement or a dead letter changes a verdict.
LEMMA VerdictStep ==
  ASSUME UNCHANGED <<published, acked, dead>>
  PROVE  Verdict' = Verdict
BY DEF Verdict, VerdictOf

\* The detailed projection implements the ledger, whatever its size.
THEOREM Refinement == Spec => ImplementsLedger
<1> USE DEF Ledger!InEffect
<1>1. Init => Ledger!LedgerInit
  BY DEF Init, Ledger!LedgerInit, VerdictOf
<1>2. IInv /\ [Next]_vars => [Ledger!LedgerNext]_(Ledger!ledgerVars)
  <2> SUFFICES ASSUME IInv, [Next]_vars
               PROVE  Ledger!LedgerNext \/ UNCHANGED Ledger!ledgerVars
    OBVIOUS
  <2> USE DEF IInv
  <2>1. CASE UNCHANGED <<published, acked, dead, tableVars>>
    BY <2>1, VerdictStep DEF Verdict, Ledger!ledgerVars
  <2>2. ASSUME NEW m \in Messages, Publish(m) PROVE Ledger!LedgerNext
    <3>1. m \notin acked \cup dead /\ UNCHANGED <<acked, dead, tableVars>>
      BY <2>2 DEF Publish, EachMessageOnce
    <3>2. Verdict[m] = "unsent" /\ Verdict' = [Verdict EXCEPT ![m] = "pending"]
      BY <2>2, <3>1 DEF Publish, Verdict, VerdictOf
    <3>3. Ledger!Send(m)
      BY <3>1, <3>2 DEF Ledger!Send, Verdict
    <3> QED BY <3>3 DEF Ledger!LedgerNext
  <2>3. ASSUME NEW w \in Workers, Settle(w)
        PROVE  Ledger!LedgerNext \/ UNCHANGED Ledger!ledgerVars
    <3> DEFINE m == job[w]
    <3>1. /\ m \in Messages /\ m \in published /\ m \notin acked \cup dead
          /\ UNCHANGED <<published, tableVars>>
      BY <2>3 DEF Settle, Settling, JobsHeld, Busy, EachMessageOnce, TypeOK
    <3>2. Verdict[m] = "pending"
      BY <3>1 DEF Verdict, VerdictOf
    <3>3. CASE pc[w] = "ack"
      <4>1. acked' = acked \cup {m} /\ dead' = dead
        BY <2>3, <3>3 DEF Settle
      <4>2. Verdict' = [Verdict EXCEPT ![m] = "confirmed"]
        BY <3>1, <4>1 DEF Verdict, VerdictOf
      <4>3. EventOf[m] \in {applied[i] : i \in 1..Len(applied)} \cup forgotten
        BY <3>3 DEF AckEarned, EffectOnce
      <4>4. Ledger!Confirm(m)
        BY <3>1, <3>2, <4>2, <4>3 DEF Ledger!Confirm, Verdict
      <4> QED BY <3>1, <4>4 DEF Ledger!LedgerNext
    <3>4. CASE pc[w] = "reject"
      <4>1. dead' = dead \cup {m} /\ acked' = acked
        BY <2>3, <3>4 DEF Settle
      <4>2. Verdict' = [Verdict EXCEPT ![m] = "rejected"]
        BY <3>1, <4>1 DEF Verdict, VerdictOf
      <4>3. Ledger!Reject(m)
        BY <3>1, <3>2, <4>2 DEF Ledger!Reject, Verdict
      <4> QED BY <3>1, <4>3 DEF Ledger!LedgerNext
    <3>5. CASE pc[w] = "requeue"
      <4>1. acked' = acked /\ dead' = dead
        BY <2>3, <3>5 DEF Settle
      <4> QED BY <3>1, <4>1, VerdictStep DEF Verdict, Ledger!ledgerVars
    <3> QED BY <2>3, <3>3, <3>4, <3>5 DEF Settle, Settling
  <2>4. ASSUME NEW w \in Workers, CommitTx(w), UNCHANGED queueVars
        PROVE  Ledger!LedgerNext
    <3> DEFINE m == job[w]
    <3>1. m \in Messages /\ m \in published /\ EventOf[m] \in Events
      BY <2>4 DEF CommitTx, JobsHeld, Busy, TypeOK, EachMessageOnce, Connected
    <3>2. Verdict[m] # "unsent" /\ Verdict' = Verdict
      BY <2>4, <3>1, VerdictStep DEF Verdict, VerdictOf
    <3>3. EventOf[m] \notin {applied[i] : i \in 1..Len(applied)}
      BY <2>4 DEF CommitTx, ClaimsFresh, InTx, EffectOnce
    <3>4. Ledger!Apply(EventOf[m])
      BY <2>4, <3>1, <3>2, <3>3 DEF Ledger!Apply, CommitTx, Verdict
    <3> QED BY <3>1, <3>4 DEF Ledger!LedgerNext
  <2>5. CASE Failover
    <3>1. Verdict' = Verdict
      BY <2>5, VerdictStep DEF Failover
    <3>2. \E n \in 0..Len(applied) : Ledger!Forget(n)
      BY <2>5, <3>1 DEF Failover, Ledger!Forget, Verdict
    <3> QED BY <3>2 DEF Ledger!LedgerNext
  <2> QED BY <2>1, <2>2, <2>3, <2>4, <2>5, VisibleSteps
<1> QED BY <1>1, <1>2, Invariance, PTL DEF Spec, ImplementsLedger, Ledger!LedgerSpec
=============================================================================
