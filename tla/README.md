# Dispatch City: formal models

Dispatch City is a food delivery demo: services in Go exchange events over RabbitMQ, project
them into PostgreSQL (CloudNativePG), and show them in a browser. A standalone mode runs the
same city in one process. This directory holds TLA+ models of it, the instances TLC checks, and
proofs that TLAPS checks. `PROJECT.json` names for every definition the lines of code it
stands for.

## Inventory

| Component | Code | State | Operations | Hard behaviour |
|---|---|---|---|---|
| Broker access | `internal/messaging/rabbitmq.go` | connections, channels, unacknowledged deliveries | `Publish` with confirms, `Consume` with N goroutines on one channel, ack, dead-letter, requeue | lost channels with handlers still running, publisher connection never reopened, queues declared by consumers only |
| Durable projection | `cmd/order-worker`, `internal/persistence/repository.go` | `processed_events`, `orders`, `couriers`, `order_events`, row and table locks | `Project`: claim, project, commit | redelivery, uncertain commits, concurrent claims, failover to an asynchronous replica, events prefetched by two pods and committed in another order than published, deadlocks with `TRUNCATE` and `CREATE INDEX` |
| Kitchen | `cmd/restaurant-worker` | accept/reject counter | wait, answer `order.accepted` or `order.rejected` | stop between answer and acknowledgement |
| Courier | `cmd/courier-simulator`, `internal/scenario/city.go` | position | assigned, travel with location events, picked up, delivered: one handler call | stop, broken connection or refused publish in the middle of a trip, bodies that cannot be decoded, redelivery to another courier |
| Customer | `cmd/customer-simulator` | running flag, sequence | look at the flag and publish an order per tick; follow `simulation.*` | flag kept per pod, from a queue that lives as long as its connection; a pause between the look and the publish |
| Control API | `cmd/control-api`, `internal/simulation/engine.go` | in-memory copy of orders and couriers, running flag, in every replica | `ApplyEvent`, `Hydrate` every ten seconds, commands published to the broker | torn, late and limited snapshots, exclusive queue lost on restart, commands of two replicas at once |
| Standalone engine | `internal/simulation/engine.go`, `internal/api/commands.go` | orders, couriers, counters, positions | `advance` per tick, pause, start, reset, manual order | random order of a Go map, commands between ticks |
| HTTP server | `internal/api/server.go`, `Subscribe` and `emitLocked` of the engine | subscriber channels | snapshot, event stream, commands | slow and abandoned subscribers, channels closed while the engine sends |
| Browser | `apps/dashboard/composables/useDeliveryApi.ts` | snapshot, feed of events, connection label | fetch, stream, poll, commands | overtaking requests, reconnections to another replica |
| Migrations | `Migrate` in `internal/persistence/repository.go`, `cmd/migrate` | table locks | run by every order-worker that starts, and by a job | index creation next to projections |
| Cluster observer, telemetry, configuration | `internal/cluster`, `internal/telemetry`, `internal/appenv`, `internal/workerutil` | none that matters to the above | | |

Components interact through the topic exchange `food.events` (at-least-once, dead letters to
`food.dead`), through the tables, and through HTTP. Nothing else is shared, except
the engine's mutex within one process.

What makes each of them correct: the projection applies an event once and never acknowledges
it early; orders are never lost or worked on by two live consumers at once and always end;
couriers keep to the roads and arrive; the engine keeps orders and couriers paired; rows, the
read model and the page settle on what was last announced; transactions of orders do not
deadlock; a pause reaches every pod and ends the stream of orders.

## Modules

- **EventLedger** is the promise of the projection without queues, pods and transactions: an
  event takes effect at most once, a message is confirmed only when its event has taken
  effect, a failover forgets latest effects only.
- **Projection** is `Consume` and `Repository.Project` in any number of order-worker pods and
  goroutines. `pc[w]` is where a goroutine is: waiting (`idle`), in the handler (`claim`,
  `project`, `commit`), or about to settle (`ack`, `reject`, `requeue`); `pod[p]` is the life of
  the process: `canceled` after SIGTERM, `closed` once its channel is gone, `down`. The broker
  is the sets `ready`, `unacked`, `acked`, `dead`; the tables are `processed` and `applied`.
  `Ledger` is the refinement mapping to EventLedger.
- **OrderRows** is what events do to rows: the events of an order are the eight `Stages` of
  its life, `OrdersAfter` and `CouriersAfter` are the switch of `projectEvent`. The broker delivers
  the events in order to pods with credit (`Deliver`), where they wait in the buffer of the
  channel; a goroutine takes the first of its pod (`Take`) and commits when it will (`Project`).
  `queue` holds all that no goroutine has taken, each with the pod it was delivered to.
  `disputed` and `cleared` only record what happened.
- **RowLocks** extends OrderRows with the statements of each transaction (`Statements`, from
  the claim on) and the locks PostgreSQL takes for them: `done[w]` counts the statements of
  worker w's transaction, `BlockedBy` is a lock that another one holds, `Abort` the deadlock
  detector, or another failure, and the dead letter that follows. `Migrators` are order-workers that
  start and the migrate job; of their scripts the locks of `CREATE INDEX IF NOT EXISTS` are
  left (`Migration`), which are taken although the index exists. Which rows a transaction locks, and in which
  sequence, is read off the SQL; that `INSERT` and `UPDATE` share the lock of a table and
  `TRUNCATE` and `CREATE INDEX` do not is PostgreSQL's.
- **ReadModel** extends OrderRows with a control-api pod: the live queue, `ApplyEvent` (the
  same row functions, in memory), and `LoadSnapshot`, which reads couriers and orders in two
  steps and is applied in a third. A snapshot lists the `Limit` orders that were updated last
  (`Listed`); when a stage of an order is stamped is a constant (`UpdatedAt`), as the services stamp
  events with their own clocks. A read that is cut short yields fewer rows and no error,
  as the code does not ask for `rows.Err()`.
- **Dispatch** is the kitchen and courier handlers on the same consume loop (one worker,
  prefetch 1). `history[o]` holds every event published about order o with its author and
  cause (`causation_id`), and `<<o, i>>` is the i-th of them, also as a message. `phase[c]` is
  the statement the handler has reached. A publish is `Confirmed`, `Broken` (for this process for
  good), `Nacked` by the broker, or `Unwaited` at a stop; a body may be `Undecodable` at each delivery.
- **Control** is start, pause and reset in the distributed mode: the replicas of control-api
  publish commands (`Issue`), the broker takes them to the queue of every pod (`routes`, `Route`),
  and customers and replicas set their `running` flag (`Apply`). A customer's tick is `Check` and
  then `Send`. `phase[p]` is the life of a pod; its queue goes with its connection. `clean`,
  `audience`, `strays` only record what the properties speak of.
- **RoadGrid** is the geometry of `city.go` in parts of a tile. **Travel** (courier-simulator,
  whole tiles) and **Drive** (standalone engine, hundredths of a tile, with the shifted homes
  of `createOrderLocked`) move a courier on it.
- **Engine** is `advance` and the local commands. `todo` holds the orders the tick under way
  has still to visit, so that the map's random order is a choice; a leg lasts any number of
  ticks up to a bound, the movement itself being Drive's.
- **Dashboard** is a browser and the control-api replicas behind the ingress. `version[p]` is the
  number of events the engine of pod p has applied, each pod at its own pace; requests and
  answers are in flight separately, and any pod may answer one (`Answer`) or serve the next stream
  (`Open`). What a stream carries are entries: an event and the subscription it was emitted to, so
  that an event which a second stream brings again is another entry. `Trails` are the location
  updates of each source, `buffer` is the channel of the open stream. An engine offers an event to
  one subscription after the other (`targets[p]`) with its lock taken, the abandoned subscriptions of
  broken streams among them, until `Unsubscribe` gets that lock.
- **ProjectionProofs**, **DispatchProofs**, **RowLocksProofs**, **ControlProofs**,
  **EngineProofs**, **TravelProofs**, **DriveProofs** and **DashboardProofs** hold the theorems. Modules `MC*`
  give constants to an instance; Engine, Dashboard and Control need none.

Operators commented "Mutant of X" are not part of any specification. Each is a plausible slip
in the code behind X, and put in X's place it violates the property that `PROJECT.json` names:
that is how every property is shown to depend on the code.

## Runs

| Run | Instance | What it shows |
|---|---|---|
| `projection` | 2 pods, 2+1 goroutines, prefetch 1, 3 messages of 2 events, one of them unprojectable, one stop, one database error, one failover | effects are once only, acknowledgements earned, messages in one place; stops dead-letter nothing; Projection implements EventLedger; every message settles |
| `dispatch` | 1 order, 1 kitchen, 2 couriers, 1 location update per trip, one stop, one fault (broken publisher, refused event or undecodable body), one act of a dying process | no order lost or held twice; only orders whose handler or decoding failed are dead-lettered; acknowledgements are earned; causes form the script; repeats come from requeues; nothing follows the end |
| `dispatch_live` | 2 orders, 1 kitchen, 1 courier, the same faults | every order ends |
| `travel` | all positions and places of the code | couriers stay on roads on the shortest way, from wherever a trip broke off |
| `drive` | all positions, homes shifted by -0.15, 0, 0.15 | the engine's courier arrives, makes progress only, strays by at most the shift |
| `drive_road` | the same | **violated**: a courier leaves the road (finding below) |
| `engine` | 3 orders, 2 couriers, 2 commands, legs of 1 or 2 ticks | orders and couriers stay paired, the counter is right, every order is delivered |
| `row_locks` | 2 orders of one courier, restaurant and customer, 2 pods with 2+1 goroutines, prefetch 2, 2 events under way, 1 fault (reset, failing transaction or migration) | projections alone never deadlock; rows are right unless two pods or two open transactions had events about them at once, or one was dead-lettered; a drained reset clears |
| `order_rows_current` | OrderRows with 2 pods of one goroutine, prefetch 2, 3 events under way | **violated**: a row stays behind its order (finding below) |
| `read_model` | 2 orders, snapshots of 1 order, 1 courier, 1 pod and worker, 1 reset, 1 event under way, 1 fault | the control-api pod settles on the tables, as far as a snapshot lists them |
| `dashboard` | 2 replicas, 3 events of which 2 are locations of two sources, channel of 1, feed of 2, 2 requests, 1 failed request or broken stream, so up to 2 subscriptions | the feed keeps the order of each stream, one location per source, and what the stream took; no send meets a closed channel; abandoned subscriptions go; the page settles on the current state |
| `control` | 1 customer, 2 replicas, 2 commands, 1 lost connection or crash | listening pods follow the last command; at most one order slips through a pause; a pause ends the orders |

**Bounds.** Faults are counted because every one of them can strike in any state: one stop, one
broken connection and one database error or refused publish already combine in every order with each step of
the handlers, and a second pod suffices to take over what the first one left. The
goroutines of two pods race for a claim when the message was published twice, or when an old
handler outlives its channel. An event published twice is the only way in which messages relate; the third
message is independent of it. Prefetch 1 lets a pod hold one message at a time while the other
waits; larger prefetches, more pods, workers and messages are what the theorems cover, and
the same holds for more pods and commands in `control` and more orders and workers in
`row_locks`. Two orders make couriers and kitchens contend, and are enough for a circle of two
workers in RowLocks. Two replicas with one command each are enough for commands that cross.
Channels and lists of 64 and 40 are cut to 1 and 2 so that they run full; every ninth
rejection is every second or third, so that both answers occur.

In `row_locks` one pod has the two goroutines of the deployment, the other one takes what the
first does not; with a prefetch of 2 an event waits in a buffer next to an open transaction.
One of a reset, a failure and a migration suffices for each kind of circle, since each needs one
other transaction. The read model is checked with one worker because the order of commits does
not matter to what it converges to; a limit of one order with two orders makes every change of the
list an order that leaves it. `dashboard` has two replicas, since a browser talks to two at most at
a time, and one fault, after which a second subscription meets either of them while the first is
abandoned. Further faults are a matter of size: for any number of them the invariants have
theorems, liveness after several has not been checked. In `projection` two goroutines of one pod do
not hold live deliveries together, since its prefetch is 1; that they never share one for any
prefetch is a theorem (`OneLiveHandlerHolds`), and that their race for a claim doubles no effect is another
(`EffectOnceHolds`); a run with prefetch 2 takes longer than five minutes.

`CHECK_DEADLOCK FALSE` in `engine` (a paused simulation whose orders are used up waits for
nobody), `row_locks` and `order_rows_current` (all events projected) and `control` (paused, and
no more commands). Elsewhere a `Rest` step or a loop of the code runs on, and deadlock is
checked.

**Symmetry** is used in `dispatch` (couriers, orders) and `row_locks` (orders, which share their
courier, restaurant and customer; the goroutines of the first pod), which check invariants only.

**Fairness** is weak throughout and assumed of what the code or its platform repeats: the
broker hands ready messages to a consumer with room and routes what it has confirmed,
goroutines run on, a process without channel ends (`cancel()` in main), Kubernetes restarts it;
`time.Ticker` drives `advance`, the refresh loop and, in the browser, the poll. In Control, a
publish that has begun ends (it is bounded by its context), consumers take what is in their
queues. In Dashboard, the loop over the subscribers goes on, handlers of broken streams get
the lock, requests are answered and streams served by some pod; events happen or not, but what
one replica has been told the others will be told (`Behind`). Faults, commands, publishing and pausing are never fair.
`engine` has finitely many orders: with an endless stream only the randomness of Go's map order
keeps one order from being overtaken for ever, which no fairness of steps expresses.

## Findings

- `order_rows_current`: `upsertOrder` and the location update overwrite a row whatever it
  holds, while two pods prefetch sixteen deliveries each and two goroutines per pod commit
  independently. An older event that waits in the buffer of one pod, or in an open transaction,
  while a newer one is committed elsewhere leaves the older status, for good if the newer one was
  `order.delivered`. `UndisputedRowIsCurrent` bounds the damage: without a dead-lettered event, and
  without two pods or two open transactions that have events of the order at the same time, the row
  is right. How often pods share the events of an order is up to the broker.
- `drive_road`: homes are shifted along their row, and a path that starts or ends there turns
  at a column that is no road, against the comment of `RoadPath` and the test that couriers
  never leave the road. `StaysNearRoad` bounds the deviation by 0.15 tiles.

Met while modelling, without a statement in the repository to hold them against:

- the page stays OFFLINE after one failed fetch although its stream is open, and a browser
  gives the stream up after an HTTP error;
- `rows.Err()` is not looked at;
- a stream that is opened again may reach the other control-api replica. Is that one behind,
  the page lists events a second time, and older above newer ones: it does not look at their ids.
  `FeedInOrder` states what is left, the order of each stream and one location per source;
- with more orders than a snapshot lists, board and counter of a control-api pod are those of
  the fifty orders updated last, and the exported counter falls when deliveries leave the list;
- an order-worker that starts runs the migrations: `CREATE INDEX IF NOT EXISTS` locks writers out
  of `orders`, then of `order_events`, although both indexes exist; projections of other pods take
  the two the other way round, and one of the two transactions is aborted: an event is
  dead-lettered, or the pod fails to start;
- an order created or accepted before its queue exists is dropped, and a broken publisher
  connection turns a worker into one that dead-letters whatever it takes;
- `simulation.reset` resumes customers at once, also after processing has drained. The
  `order.created` that follows it holds `order_events` and wants `orders`, the reset holds `orders`
  and wants `order_events`: one of the two is aborted and dead-lettered, the reset perhaps;
- commands of two replicas that cross reach pods in different sequences, and leave some of
  them running and others paused until the next command (`clean` in `FollowsLast`);
- a customer pod that restarts in a pause orders again, a control-api replica that restarts
  shows the simulation running: no table keeps the flag;
- the row of a courier that died on a trip shows it busy until its next one: registering
  leaves the row as it is.

## Proofs

All theorems hold for any finite or infinite sets of pods, workers, orders and the like that
satisfy the named assumptions of the modules (`ProjectionAssumption`, `DispatchAssumption`,
`OrderRowsAssumption` and `NothingAssumption`, `ControlAssumption`, `EngineAssumption`, `UnitAssumption`,
`RowLocksAssumption`, `TravelAssumption`, `DriveAssumption` and `DashboardAssumption`). What is counted must be finite: the
orders and couriers of Engine, the consumers of Dispatch, the events, requests and faults of
Dashboard. The fixed places of Travel and Drive must be crossings (`Crossings`), as those of `city.go` and `engine.go` are; homes
are shifted in Drive by any part of 0.15 tiles.

**Projection.** `TypeCorrect`, `EffectOnceHolds`, `AckedIsAppliedHolds`, `EachMessageOnceHolds`,
`OneLiveHandlerHolds`, `StopsNeverDeadLetterHolds`, and `Refinement`: Projection implements
EventLedger. None of these is inductive by itself. That an event has no second effect needs
that an open transaction holds a fresh claim (`ClaimsFresh`), which needs to know what workers
hold (`JobsHeld`); that an acknowledgement is earned needs `AckEarned` of the workers about to
give it; that a message is in one place needs that two live workers never hold the same one
(`OneLiveHandler`), or both would settle it. `IInv` is the conjunction. One lemma per part shows
that every step keeps it, with a step of the proof for each action; actions that leave the
queues or the tables alone are dealt with once (`QueuesFrame`, `TablesFrame`). `Refinement` shows
that exactly publishing, committing, settling and failing over are visible to the ledger
(`VisibleSteps`) and that a settled message changes its verdict alone (`VerdictStep`).

**Dispatch.** All its safety properties, in three layers. `MessageInv` is where messages are:
`TypeOK`; `Addressed`, a message waits in the queue it was routed to, so that a kitchen holds
`order.created` and a courier `order.accepted`, and taking a message takes it out of the only
queue it is in; `OwnPhases`; and `Accounted`, the five places are disjoint, cover all messages, and
no two live consumers hold the same one. `MessageAccounted` follows (`EveryMessageAccounted`).
`EarnedInv` adds what a handler has in hand: in each phase the event it will cite next is that of
the last milestone of this very delivery, by this consumer (`EarnedIn`). What a history says is
never undone when it grows (`Persists`), and each publish earns the next phase
(`PublishScripted`); `AckMeansDone` and `CausalScript` follow. `Tokens` counts: for each milestone g of an
order, the events that mark it, the waiting messages that lead to it and the consumers before it,
dead channels included, are one and one more per requeue. Taking a message turns a mark into a
worker, publishing turns a worker into a mark, a requeue pays for the message it puts back
(`TokensMove`); the sets change by one element at a time, so the cardinalities do too
(`TokenMoves`). `RepeatsAreRequeues` follows at once. `EndIsLast` is inductive with it: whoever
publishes holds a token for the delivery, so without a requeue there is no end yet.
`OnlyFailuresDeadLetter` follows from `Failures`: a consumer that is about to reject a delivery has failed
on that very delivery, and no stop leads it there.

**Row locks.** `ProjectionsNeverDeadlockHolds` gives the tables a rank. The statements of every
transaction but a reset or a migration ask for locks of ascending rank (`StatementsAscend`), so a worker that
is blocked by another one waits for a table of lower rank than the other does
(`WaitsForHigher`); along a circle the rank would grow with every step, and there are five
tables (`NoCircle`). `DrainedResetClearsHolds` follows a reset that is alone in the system
(`ResetAlone`): nobody can block it, so it is never aborted, and when it commits the rows of
the orders that were over are gone; `DrainInv` says where such a reset is. What both row theorems
need is that undisputed events are taken up in the sequence of the queue (`FirstTaken`): the broker
delivers from the front (`InTurn`), and two pods have nothing about the same undisputed order or
courier (`Apart`), so that the one pod that has such events takes the first of them first.
`UndisputedRowIsCurrentHolds`
then needs the history of an order: its waiting events follow each other up to its latest stage
(`Linked`), and if the order is undisputed one worker at most holds an event of it, and there is
a stage that the row shows, that this event goes on from, and the waiting ones from the event
(`RowFollows`). `HistoryInv` is preserved because publishing, taking and committing each move one
end of that run, and delivering none. A courier's row needs less, since it is overwritten whatever it holds:
`UndisputedFleetIsCurrentHolds` follows the last event of its trips, which announces what the row
is to show, from the queue to the one worker that carries it and into the row (`FleetFollows`). That
later events of other orders announce the same courier rightly is because it has one order at a
time (`OneTrip`).

**Control.** `TypeCorrect`; `OneStragglerHolds`, from the fact that a customer with a stray order has a
fallen flag and looks at it before it orders again (`StrayInv`); `FollowsLastHolds`, from
`FollowInv`: if the last command met none of another replica, each pod of its audience either
shows it already and has nothing before it, or it is the last thing in the queue or on the one
route that is not empty (`Awaits`).

**Engine.** `PairedUpHolds` needs that orders that have not been created are on no courier
(`NotYet`) and types (`Typed`); assignment, pick-up and delivery each change one order and its
courier together (`GoesOn`, `NobodysOrder`). `DeliveredCountedHolds` is about the cardinality of
the delivered orders, which grows by one where the counter does and is zero after a reset. With
it, `TypeCorrect` bounds the counter.

**Travel.** `StaysOnRoadsHolds` and `ShortestWayHolds` rest on three facts of the grid: a point
on a road is left where it is (`SnapOnRoad`), a corner joins two ends by two streets inside their
rectangle (`CornerJoins`), a step keeps to its street and stays between its ends (`StepAhead`).
`OnTheWay` carries them along: what is driven and what is left lie in the rectangle of start
and end, so distances add up. Which coordinates are roads is never used.

**Drive.** `StaysNearRoadHolds`: a courier that is close to a road heads for that road or straight
along the column of its goal (`WayAhead`), and a tick ends between the courier and its waypoint
(`MovedBetween`), so it stays close (`StepStaysNear`); homes are close to crossings
(`HomesArePlaces`). That the hypotenuse exists in whole parts is an induction, made with the least
number principle of the library (`RootExists`). `ProgressGrowsHolds` is the action property, from the range
that progress has in each status (`ProgressInv`).

**Dashboard.** `SendsMeetOpenChannelsHolds`: subscriptions are removed between two events of
their pod only. `TypeCorrect` needs that streams are opened one at a time, another one after a
fault only, and each in one pod (`StreamInv`), and that answers are finitely many. `FeedInOrderHolds`
needs to know where entries are. They arrive in the order `Later`: by subscription, then by event.
Those in the channel ascend and are later than all of the feed, an entry under way (`Due`) is in
neither until it has been offered, and nothing is carried for the newest subscription that its pod
has not emitted (`CarriedInv`), so that the next one is later still (`FlowInv`). That a pod to which
the browser comes back may be behind is what entries are for: the event is old, the entry is
new. One location per source holds for any number of sources, because no event belongs to two
(`OneTrail`). `FeedCompleteHolds` follows the entries that the page has received (`Received`): each is
listed, replaced by a later entry of its source that was received too, or older than a full feed
(`Kept`). Steps of the engines and broken streams leave what has been received as it is
(`FeedFrame`); `onmessage` adds one entry, and what it may remove is in `FeedWithFacts`. What the
filter of the feed does is an induction on the length of the feed (`WithoutFilters`), made with the
least number principle: of a feed with one location of each source it drops one entry at most, so
that a full feed stays full.

Only model-checked: liveness everywhere (`EveryMessageSettles`, `EveryOrderEnds`, `EveryTripEnds`,
`EveryOrderDelivered`, `Converges`, `CatchesUp`, `SubscriptionsEnd`, `PauseEndsOrders`), since
fairness is out of the prover's reach. Each invariant and action property that a passing run
checks has a theorem.

## Abstractions and what is left out

- Row contents in Projection, claims and requeues in OrderRows: each has the other's half. In
  OrderRows and RowLocks the pods keep running. An event that goes back to the queue when a pod
  stops or loses its channel can be overtaken, too; what it meets then is outside the theorems
  about rows.
- RabbitMQ, PostgreSQL and Kubernetes are modelled as the code uses them. The client library
  may hand out deliveries that were buffered when the channel closed; this is the same as a
  delivery taken just before. RowLocks grants a free lock to any waiter: a circle through
  PostgreSQL's queue of waiters alone is not in it. A queue that is declared and has no
  consumer yet survives a crash; Control counts its pod as not bound until it consumes.
- Registrations of agents, and the contents of customers, restaurants and `order_events`:
  written, and hardly read; RowLocks has their locks. No event brings a transient customer.
- Observed replicas change which agents the snapshot lists; `ReplaceComponents` is called by
  tests only.
- A command that is answered with 502 either reached the broker and is one of Control's, or
  changed nothing.
- Order-worker without a database keeps ids in memory; the current deployment has one.
- One browser with one page that is never closed. Its rendering is left out. In Dashboard the
  replicas keep running and their state is the events they have applied; restarts and `Hydrate` are
  in ReadModel.
- A redelivered order may go to another courier; OrderRows gives each order one. Dispatch has
  the redelivery, without rows.
- Of the migrations RowLocks has the locks on existing tables. Their creation is left out: a pod
  consumes after it.
- Observer, telemetry, configuration, logging and routing keep no state of the protocols above.

## Plan

Done, in this order: Projection with EventLedger and its proofs, Dispatch, RoadGrid with
Travel and Drive, Engine, OrderRows, ReadModel, Dashboard; then RowLocks and Control, the
subscriptions of Dashboard, and the proofs of RowLocks, Control, Engine, Travel and Dashboard;
then those of Dispatch, of the fleet in RowLocks, of Drive, and of the feed in Dashboard.

After them: prefetch buffers of several pods, migrations and the limit of a snapshot; refused
publishes and undecodable bodies in Dispatch; replicas and several sources in Dashboard.

Next: couriers' rows when an order is redelivered to another courier, and requeues in OrderRows.
