----------------------------- MODULE Dashboard -----------------------------
(***************************************************************************)
(* A browser and the control-api pods behind the ingress: useDeliveryApi   *)
(* keeps a snapshot and a feed of events up to date from an event stream   *)
(* and from snapshots fetched after events, after commands and every five  *)
(* seconds.  Each pod is told of all events through a queue of its own, in *)
(* one order and at its own pace; the state of its engine after event n is *)
(* n.  Any pod may answer a request or serve the next stream, and requests *)
(* overtake each other on their way back.                                  *)
(***************************************************************************)
EXTENDS Naturals, Sequences, FiniteSets

CONSTANTS
  Pods,           \* control-api pods; one in the standalone mode
  Trails,         \* the location updates among the events: a set per source
  Buffer,         \* subscriber channel: 64
  FeedLength,     \* events.value: 40
  MaxEvents,      \* bound: events of the system
  MaxRequests,    \* bound: snapshot requests under way
  MaxFaults       \* bound: failed requests and broken streams

ASSUME DashboardAssumption ==
  /\ MaxEvents \in Nat /\ Trails \subseteq SUBSET (1..MaxEvents)
  /\ \A s, t \in Trails : s \cap t # {} => s = t
  /\ Buffer \in Nat \ {0} /\ FeedLength \in Nat \ {0}
  /\ MaxRequests \in Nat \ {0} /\ MaxFaults \in Nat

VARIABLES
  version,        \* per pod: events its engine has applied and emitted
  subscribers,    \* per pod: subscriptions 1, 2, ... as the browser opened them
  targets,        \* per pod, while its engine emits and holds its lock: the
                  \* subscribers to which it has still to offer the event
  opened,         \* number of subscriptions so far; the last is the stream's
  stream,         \* the EventSource: "none" before connect(), "asked", "open",
                  \* "dead" when the browser has given it up
  buffer,         \* channel of its subscription
  asked,          \* snapshot requests no pod has answered yet
  answers,        \* snapshots on their way back
  shown,          \* snapshot.value, 0 also for the empty snapshot
  feed,           \* events.value, newest first
  refreshTimer,   \* a refresh is due in 180 ms
  connection,
  carried,        \* ghost: entries emitted to an open stream and not lost
  faults

engineVars == <<version, subscribers, targets, opened, buffer, carried>>
vars == <<engineVars, stream, asked, answers, shown, feed, refreshTimer, connection,
          faults>>

Events == 1..MaxEvents
Subscriptions == 1..(MaxFaults + 1)
Members(s) == {s[i] : i \in 1..Len(s)}

\* What a stream carries: an event, and the subscription it was emitted to.
Entries == [event : Events, stream : Subscriptions]
Entry(n, s) == [event |-> n, stream |-> s]

\* Entry x arrives after entry y.
Later(x, y) ==
  \/ x.stream > y.stream
  \/ x.stream = y.stream /\ x.event > y.event

\* onMounted asks for a snapshot first.
Init ==
  /\ version = [p \in Pods |-> 0] /\ buffer = <<>> /\ carried = {}
  /\ subscribers = [p \in Pods |-> {}] /\ targets = [p \in Pods |-> {}] /\ opened = 0
  /\ stream = "none" /\ connection = "connecting"
  /\ asked = 1 /\ answers = {}
  /\ shown = 0 /\ feed = <<>>
  /\ refreshTimer = FALSE
  /\ faults = 0

(***************************************************************************)
(* The servers.                                                            *)
(***************************************************************************)

Unlocked(p) == targets[p] = {}

\* Subscription s is that of the open stream.
Live(s) == stream = "open" /\ s = opened

\* The engine of pod p takes its lock and applies an event.
Emit(p) ==
  /\ Unlocked(p)
  /\ version[p] < MaxEvents
  /\ version' = [version EXCEPT ![p] = @ + 1]
  /\ targets' = [targets EXCEPT ![p] = subscribers[p]]
  /\ carried' = carried \cup {Entry(version[p] + 1, s) : s \in {t \in subscribers[p] : Live(t)}}
  /\ UNCHANGED <<subscribers, opened, buffer>>

Event(p) ==
  /\ Emit(p)
  /\ UNCHANGED <<stream, asked, answers, shown, feed, refreshTimer, connection, faults>>

\* Mutant of Offer: the engine waits for room in the channel.  Nobody reads
\* the channel of a broken stream.
OfferBlocking(p, s) ==
  /\ s \in targets[p] /\ targets' = [targets EXCEPT ![p] = @ \ {s}]
  /\ Live(s) /\ Len(buffer) < Buffer
  /\ buffer' = Append(buffer, Entry(version[p], s))
  /\ UNCHANGED <<version, subscribers, opened, carried, stream, asked, answers, shown, feed,
                 refreshTimer, connection, faults>>

\* A full channel does not take the event.  What the channel of a broken
\* stream takes is lost.  With the last offer the engine leaves its lock.
Offer(p, s) ==
  /\ s \in targets[p] /\ targets' = [targets EXCEPT ![p] = @ \ {s}]
  /\ IF ~Live(s) THEN UNCHANGED <<buffer, carried>>
     ELSE IF Len(buffer) < Buffer
     THEN buffer' = Append(buffer, Entry(version[p], s)) /\ UNCHANGED carried
     ELSE carried' = carried \ {Entry(version[p], s)} /\ UNCHANGED buffer
  /\ UNCHANGED <<version, subscribers, opened, stream, asked, answers, shown, feed,
                 refreshTimer, connection, faults>>

\* GET /api/v1/snapshot
Answer(p) ==
  /\ Unlocked(p)
  /\ asked > 0
  /\ asked' = asked - 1
  /\ answers' = answers \cup {version[p]}
  /\ UNCHANGED <<engineVars, stream, shown, feed, refreshTimer, connection, faults>>

\* GET /api/v1/events: Subscribe, and the response starts.  A reconnection may
\* find another pod than the stream before, with fewer events or more.
Open(p) ==
  /\ stream = "asked"
  /\ Unlocked(p)
  /\ opened' = opened + 1
  /\ subscribers' = [subscribers EXCEPT ![p] = @ \cup {opened + 1}]
  /\ stream' = "open" /\ connection' = "live"
  /\ UNCHANGED <<version, targets, buffer, carried, asked, answers, shown, feed, refreshTimer,
                 faults>>

\* Mutant of Unsubscribe: the channel is closed without the lock.
UnsubscribeUnlocked(p, s) ==
  /\ s \in subscribers[p] /\ ~Live(s)
  /\ subscribers' = [subscribers EXCEPT ![p] = @ \ {s}]
  /\ UNCHANGED <<version, targets, opened, buffer, carried, stream, asked, answers, shown, feed,
                 refreshTimer, connection, faults>>

\* The handler of a stream that has ended takes the lock, and closes and
\* removes its channel.
Unsubscribe(p, s) ==
  /\ s \in subscribers[p] /\ ~Live(s)
  /\ Unlocked(p)
  /\ subscribers' = [subscribers EXCEPT ![p] = @ \ {s}]
  /\ UNCHANGED <<version, targets, opened, buffer, carried, stream, asked, answers, shown, feed,
                 refreshTimer, connection, faults>>

(***************************************************************************)
(* The browser.                                                            *)
(***************************************************************************)
Send ==
  /\ asked + Cardinality(answers) < MaxRequests
  /\ asked' = asked + 1

\* connect() follows the first refreshSnapshot, whatever came of it.
Connect ==
  IF stream = "none" THEN stream' = "asked" /\ connection' = "connecting"
  ELSE UNCHANGED <<stream, connection>>

Arrive(n) ==
  /\ n \in answers
  /\ answers' = answers \ {n}
  /\ shown' = n
  /\ Connect
  /\ UNCHANGED <<engineVars, asked, feed, refreshTimer, faults>>

\* Faults are counted, whatever they hit.
Fault ==
  /\ faults < MaxFaults
  /\ faults' = faults + 1

FetchFails ==
  /\ Fault
  /\ \/ asked > 0 /\ asked' = asked - 1 /\ UNCHANGED answers
     \/ \E n \in answers : answers' = answers \ {n} /\ UNCHANGED asked
  /\ IF stream = "none" THEN Connect ELSE connection' = "offline" /\ UNCHANGED stream
  /\ UNCHANGED <<engineVars, shown, feed, refreshTimer>>

\* What an engine has emitted, but not offered yet to the newest subscription.
Due == {Entry(version[p], opened) : p \in {q \in Pods : opened \in targets[q]}}

\* What the page has received.
Received == carried \ (Members(buffer) \cup Due)

\* The stream ends.  The browser asks again, unless an HTTP error answers it.
StreamBreaks ==
  /\ stream \in {"asked", "open"}
  /\ Fault
  /\ stream' \in {"asked", "dead"} /\ connection' = "offline"
  /\ buffer' = <<>>
  /\ carried' = Received
  /\ UNCHANGED <<version, subscribers, targets, opened, asked, answers, shown, feed, refreshTimer>>

Listed(f) == IF Len(f) > FeedLength THEN SubSeq(f, 1, FeedLength) ELSE f

\* Events m and n are location updates of one source.
SameTrail(m, n) == \E trail \in Trails : m \in trail /\ n \in trail

\* events.value.filter(...): all but the older location updates of the source
\* of event n; for an event that is no location update, all.
Without(n, f) ==
  LET kept[i \in 0..Len(f)] ==
        IF i = 0 THEN <<>>
        ELSE IF SameTrail(n, f[i].event) THEN kept[i - 1]
        ELSE Append(kept[i - 1], f[i])
  IN  kept[Len(f)]

\* Mutants of FeedWith: unlimited, without the filter, and with a filter that
\* drops the location updates of all sources.
FeedUnlimited(x) == <<x>> \o Without(x.event, feed)

FeedUnfiltered(x) == Listed(<<x>> \o feed)

FeedOneSource(x) ==
  LET Position(n) == n \in UNION Trails IN
  Listed(<<x>> \o IF Position(x.event)
                  THEN SelectSeq(feed, LAMBDA y : ~Position(y.event)) ELSE feed)

\* A location update replaces the previous one of its source.
FeedWith(x) == Listed(<<x>> \o Without(x.event, feed))

\* onmessage, and scheduleRefresh unless a refresh is due already.
Receive ==
  /\ stream = "open" /\ buffer # <<>>
  /\ buffer' = Tail(buffer)
  /\ feed' = FeedWith(Head(buffer))
  /\ refreshTimer' = TRUE
  /\ UNCHANGED <<version, subscribers, targets, opened, carried, stream, asked, answers, shown,
                 connection, faults>>

TimerFires ==
  /\ refreshTimer
  /\ Send
  /\ refreshTimer' = FALSE
  /\ UNCHANGED <<engineVars, stream, answers, shown, feed, connection, faults>>

\* Mutant of Poll: nothing is fetched while the page says OFFLINE.
PollOnline ==
  /\ connection = "live"
  /\ Send
  /\ UNCHANGED <<engineVars, stream, answers, shown, feed, refreshTimer, connection, faults>>

Poll ==
  /\ stream # "none"
  /\ Send
  /\ UNCHANGED <<engineVars, stream, answers, shown, feed, refreshTimer, connection, faults>>

\* A POST has been answered, and a refresh follows.  In the standalone mode the
\* engine has emitted its event before, in the distributed mode it is still to
\* come.  The buttons are used once the page has loaded.
Command ==
  /\ stream # "none"
  /\ Send
  /\ UNCHANGED <<engineVars, stream, answers, shown, feed, refreshTimer, connection, faults>>

-----------------------------------------------------------------------------
\* Another pod has been told of more events.
Behind(p) == \E q \in Pods : version[p] < version[q]

Next ==
  \/ \E p \in Pods : \/ Event(p) \/ Answer(p) \/ Open(p)
                     \/ \E s \in Subscriptions : Offer(p, s) \/ Unsubscribe(p, s)
  \/ \E n \in 0..MaxEvents : Arrive(n)
  \/ FetchFails \/ StreamBreaks
  \/ Receive \/ TimerFires \/ Poll \/ Command

Spec == Init /\ [][Next]_vars

\* The engines' loops over the subscribers go on, handlers of broken streams
\* notice and get the lock, requests and the stream are served by some pod,
\* timers fire, and what has reached the queue of one pod is in that of every
\* other and is applied there.
Fairness ==
  /\ WF_vars(\E p \in Pods : Behind(p) /\ Event(p))
  /\ WF_vars(\E p \in Pods : \E s \in targets[p] : Offer(p, s))
  /\ WF_vars(\E p \in Pods : \E s \in subscribers[p] : Unsubscribe(p, s))
  /\ WF_vars(\E p \in Pods : Answer(p)) /\ WF_vars(\E p \in Pods : Open(p))
  /\ WF_vars(\E n \in answers : Arrive(n))
  /\ WF_vars(Receive)
  /\ WF_vars(TimerFires)
  /\ WF_vars(Poll)

FairSpec == Spec /\ Fairness

-----------------------------------------------------------------------------
TypeOK ==
  /\ version \in [Pods -> 0..MaxEvents]
  /\ opened \in 0..(MaxFaults + 1)
  /\ subscribers \in [Pods -> SUBSET (1..opened)] /\ targets \in [Pods -> SUBSET (1..opened)]
  /\ stream \in {"none", "asked", "open", "dead"}
  /\ buffer \in Seq(Entries) /\ Len(buffer) <= Buffer
  /\ asked \in Nat /\ asked + Cardinality(answers) <= MaxRequests
  /\ answers \subseteq 0..MaxEvents
  /\ shown \in 0..MaxEvents
  /\ feed \in Seq(Entries) /\ Len(feed) <= FeedLength
  /\ refreshTimer \in BOOLEAN
  /\ connection \in {"connecting", "live", "offline"}
  /\ carried \subseteq Entries
  /\ faults \in 0..MaxFaults

\* The feed of the page, through full buffers and reconnections to any pod:
\* what a newer stream carried is above what an older one did, the events of
\* one stream have the order of the engine and none is there twice, and there
\* is one location per source, also when two streams carried one event.
FeedInOrder ==
  /\ \A i, j \in 1..Len(feed) : i < j => Later(feed[i], feed[j])
  /\ \A trail \in Trails : Cardinality({x \in Members(feed) : x.event \in trail}) <= 1

\* What a stream has brought is on the page: an event emitted to an open
\* stream, and not dropped by a full channel or lost with the stream, is still
\* on its way, is listed, has been replaced by an entry of its source received
\* later, or has made room for forty later ones.
FeedComplete ==
  \A x \in Received :
    \/ x \in Members(feed)
    \/ \E y \in Received : Later(y, x) /\ SameTrail(y.event, x.event)
    \/ Cardinality({y \in Members(feed) : Later(y, x)}) = FeedLength

\* Once no more events happen the page settles on the current state, whatever
\* was missed, failed or came back late, and whichever pod answered: one that
\* is behind may set the page back, but not for good.
CatchesUp == <>[](\A p \in Pods : shown = version[p])

\* An engine never sends on a closed channel, which would end the process,
\* although streams break and are replaced while it emits.
SendsMeetOpenChannels == \A p \in Pods : targets[p] \subseteq subscribers[p]

\* A subscriber that reads no more cannot hold an engine up, and with it the
\* handler that would remove it: the subscriptions of broken streams go.
SubscriptionsEnd == <>[](\A p \in Pods : \A s \in subscribers[p] : Live(s))
=============================================================================
