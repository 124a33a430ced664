---------------------------- MODULE EventLedger ----------------------------
(***************************************************************************)
(* What the durable projection promises to the rest of the system, without *)
(* queues, pods, workers or transactions.  Messages carry events; an event *)
(* takes effect at most once; a message is confirmed only when its event   *)
(* has taken effect; anything else is rejected to the dead-letter queue.   *)
(* Only a database failover may forget effects, always the latest ones.    *)
(***************************************************************************)
EXTENDS Naturals, Sequences

CONSTANTS
  Messages,     \* copies of events handed to the broker
  Events,       \* event identities (EventEnvelope.ID)
  EventOf       \* the event each message carries

VARIABLES
  ledger,       \* the events in effect, in the order they took effect
  forgotten,    \* the events some failover has undone
  verdict       \* what has become of each message

ledgerVars == <<ledger, forgotten, verdict>>

Verdicts == {"unsent", "pending", "confirmed", "rejected"}

InEffect == {ledger[i] : i \in 1..Len(ledger)}

LedgerInit ==
  /\ ledger = <<>>
  /\ forgotten = {}
  /\ verdict = [m \in Messages |-> "unsent"]

Send(m) ==
  /\ verdict[m] = "unsent"
  /\ verdict' = [verdict EXCEPT ![m] = "pending"]
  /\ UNCHANGED <<ledger, forgotten>>

\* One event takes effect, once.
Apply(e) ==
  /\ e \notin InEffect
  /\ \E m \in Messages : EventOf[m] = e /\ verdict[m] # "unsent"
  /\ ledger' = Append(ledger, e)
  /\ UNCHANGED <<forgotten, verdict>>

\* Taken off the queue for good: the event is, or has been, in effect.
Confirm(m) ==
  /\ verdict[m] = "pending"
  /\ EventOf[m] \in InEffect \cup forgotten
  /\ verdict' = [verdict EXCEPT ![m] = "confirmed"]
  /\ UNCHANGED <<ledger, forgotten>>

Reject(m) ==
  /\ verdict[m] = "pending"
  /\ verdict' = [verdict EXCEPT ![m] = "rejected"]
  /\ UNCHANGED <<ledger, forgotten>>

Forget(n) ==
  /\ ledger' = SubSeq(ledger, 1, n)
  /\ forgotten' = forgotten \cup {ledger[i] : i \in (n + 1)..Len(ledger)}
  /\ UNCHANGED verdict

LedgerNext ==
  \/ \E m \in Messages : Send(m) \/ Confirm(m) \/ Reject(m)
  \/ \E e \in Events : Apply(e)
  \/ \E n \in 0..Len(ledger) : Forget(n)

LedgerSpec == LedgerInit /\ [][LedgerNext]_ledgerVars
=============================================================================
