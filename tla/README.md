# Trackeroo in TLA+

Trackeroo follows a fleet of trucks. A device agent in each truck (`tracky`)
publishes readings over MQTT; a bridge (`brokeroo`) writes them to TimescaleDB
and streams them to Kafka; a Flink job aggregates the stream; a backend
(`trackeroo-backend`) keeps devices and users, authenticates them towards the
broker, relays readings posted over HTTP and follows who is connected. This
directory holds TLA+ models of that code, the configurations TLC checks them
with, and proofs about them that TLAPS checks.

Run `tlc -workers 2 -config <name>.cfg <module>.tla` for a run and
`tlapm <module>Proofs.tla` for the proofs. `PROJECT.json` lists the runs, which
lines of the source each definition stands for, the hazards, and the theorems.

## 1. Inventory

| Component | State | Operations | What is hard | Modules |
|---|---|---|---|---|
| Persistent queue (`tracky/src/trackeroo/pq.go`, `trackeroo-backend/.../service/pq.go`) | a SQLite table per queue with a status column, `AUTOINCREMENT`'s high-water mark | `InitQueue`, `EnqueueData`, `DequeueData`, `Ack`, `Unack`, `Size`, `QueuesCleanUp` | two callers on one file, cleaner beside callers, death between take and ack | `WorkQueue`, `PersistentQueue` |
| Device agent (`tracky.go`, `firmware.go`, `agent.go`, `mqtt.go`, `task.go`, `task_manager.go`) | rounds of the main loop, tasks and their kicks, the Agent's row, the client's connection and outbound store | read, enqueue, dequeue, publish, wait, ack, reconnect, watchdog, panic and recover, `Terminate` | lost connections, a token that expires, resent packets, blocked waits, two rounds at once, process death | `Tracky` |
| Driving simulator (`driving.go`, `routes.go`, `utils.go`, `Loop` of `firmware.go`) | the end of the last route, a leg of this one, the channel of positions, running statistics, distance not yet reported | choose a route and look it up, stop, drive a leg, send a position, arrive; take a position, publish | look-ups that fail, two goroutines on a bounded channel, boundaries, first samples, what a payload resets | `Driving` |
| Bridge (`brokeroo/cmd/brokeroo/main.go`) | MQTT session, callbacks in flight, known topics, asynchronous Kafka batches; the data table and the topics | start, connect, subscribe, message callback (insert, ensure topic, write, ack), stop | callbacks overlap, manual acks, persistent session, a SUBSCRIBE that fails, partial failure, crash, graceful stop, replicas | `Brokeroo`, `MCBrokeroo` |
| Flink job (`flink_job/`) | topic positions, open windows per device, a batch of records | parse, filter, fold a window, upsert | stop and new submission without checkpoints, envelopes that stop the job, several bridge replicas, stages of different parallelism that keep no order | `Aggregator`, `MCAggregator` |
| Publish relay (`service/mqtt.go`, `handler/mqtt.go`) | a queue file, one client, the row in hand | enqueue on POST, dequeue, cut the row, publish | as the device's Agent, without a watchdog | `Backend`; its queue: `PersistentQueue` |
| Connectivity (`rabbit.go`, `connectivity.go`) | a status per device in Redis or in a cache | receive, acknowledge, read one field, write the status | two replicas, ack before handling, acks lost with their connection, reordering, redelivery | `Connectivity` |
| Devices, caches (`db.go`, `cache.go`, `handler/devices.go`, `middleware/auth.go`) | MongoDB documents, two caches per replica | create, delete, credentials, authenticate a post | stale caches, deletes that miss, requests beside each other | `Backend`, `MCBackend` |
| Users, login, broker authorisation (`login.go`, `mqttauth.go`, `handler/users.go`) | users nobody changes, a cache of who is one | log in, authenticate a connection, authorise a topic, delete | errors taken for an answer, errors cached | `Backend` |
| Shutdown and logger (`main.go`, `logger.go`) | the server, a log channel | SIGTERM, wait for handlers, close | goroutines that go on when the log channel is closed | `Backend` |
| Infrastructure (`bootstrap/`, `services/`, `mongo/`, `tsdb/`, `rabbitmq/`, `grafana-dashboards/`, `utils/`) | third-party | | | external actions only |

How they interact: `tracky` and the relay publish with QoS 1 on `j/data/<device>/<tag>`;
RabbitMQ's MQTT plugin puts each message in the session of every connected or
durable `brokeroo` replica; a replica inserts, streams and only then
acknowledges; Flink reads the Kafka topics. RabbitMQ asks the backend to
authenticate each connection and reports connections on `amq.rabbitmq.event`,
which the backend's replicas consume from one queue.

What makes each correct:

* **Queue**: oldest first; one holder per row; a held row moves for no one else;
  no row comes back after its ack; the cleaner removes finished rows only.
* **Device agent**: no reading acked before the broker took it; at most one lost
  reading per Agent and death; duplicates only for lost connections; order;
  nobody waits for ever.
* **Bridge**: acknowledged only when both stores took it; the stream never ahead
  of the table; a session keeps what is unacknowledged and, until a stop, gets
  everything; a graceful stop loses nothing; a queued message is settled.
* **Driving**: a route begins where the last one ended; nothing of a route goes unreported or is reported twice; the
  statistics are of the positions since the last payload; every status is seen.
* **Flink**: a window's record says what its readings say, in whatever order they came; no position of a topic
  counts twice; only a stop loses readings.
* **Relay**: what the broker gets is what a device posted, in order, under its name.
* **Connectivity**: a status never mixes devices or kinds of event; each crash and
  each error costs one event; an event comes again once at most for each connection
  that died; without faults a lone watcher is exact.
* **Devices, users**: no cache differs from the collections; the broker and whoever
  logs in hear what the registry says, or the request itself met an error.
* **Shutdown**: ends what runs at the price of one row in hand at most.

## 2. Modules

`WorkQueue` is the abstract queue: tickets issued in order, waiting, in hand,
or finished. `PersistentQueue` is the table: `table` maps ids to the status
column, `seq` is what `AUTOINCREMENT` keeps, `held` what callers were given.
Each function of `pq.go` holds `dbLock` and runs one transaction, so each is one
step. Callers settle a row once, and every caller ignores the error of `Ack`:
`Settle` allows the row to stay as it was. The refinement mapping counts
`issued` as `seq`, `waiting` and `inHand` as the rows with status 0 and 1.

`Tracky` is the device process around an instance of `PersistentQueue` whose
`held` are the rows the Agents hold. A *round* is one pass of `main`'s loop in
`tracky.go`: `Init` starts a task manager, a client and an Agent, `Loop` enqueues
readings, a panic is recovered by `runLoop` and leads to the next round while the
goroutines of the earlier one go on, since `Terminate` sets a flag nobody reads.
The Agent's control states are the lines it can be stopped at: `loop`,
`publish`, `wait` (in `token.Wait`), `retry` (agent.go:35-39), `ack`, `done`. The
client library appears as its connection state and the one packet in its
outbound store. `Tick` is a second: it ages only tasks whose loop cannot come
round to `Kick`, and a task older than `Wtd` makes the watchdog stop the tasks and
panic (`Watchdog`, `WatchdogPanic`). `TokenExpires` leaves a client that reconnects for
ever refused: `IsConnected` is true meanwhile, so `run` makes no new one. Process death forgets everything but the
queue file and what the broker accepted.

`Brokeroo` is the bridge, any number of replicas of it, with the broker's
session for each. A running callback is a *delivery*: replica, message, the
connection it came on, and the second its row is keyed by; `handling` says which
call the callback makes next. `Insert`, `EnsureTopic`, `WriteKafka` and `Ack` are
the calls in the order of `messageHandler`; `Fail` is any of the three that
returns an error, after which the callback returns and the message stays in
flight. `SubscribeFails` is a SUBSCRIBE that returns an error: `refused` until the
next connection, with the route in place, as paho adds it before it sends. The Kafka writer is asynchronous: `WriteKafka` puts the delivery in
`buffer`, `Flush` or `FlushFails` decides later. `Stop` is cut where other steps
can get between: unsubscribe and disconnect, close the stores, exit when the
writer has drained.

`Connectivity` is the watcher of every backend replica on one RabbitMQ queue. A
delivered event is in `got` until the loop receives it; then `pc` says whether it
is to be acknowledged, read or written, which is the order of rabbit.go:131 and
`SetDeviceStatus`. `Ack` writes a frame, which the broker has with `AckArrives`
only: until then the event is in `unacked`. `Disconnect` cuts a connection with
all the frames under way. What the broker had no acknowledgement of is then in
`stale`, a set for each dead connection, until it notices (`Requeue`); the watcher,
in svc `cut`, goes on with what it was given until it notices (`Notice`). The n-th
event has timestamp n, so that a time in a status names the event it came from.

`Backend` is the registry, what the broker asks of it, and the relay. Each
request is handled by a `Handler`, a goroutine of net/http on one of the replicas,
beside the others. It is cut where another goroutine can get between two effects: insert
and read back, find and cache, look a user up and look up again. `devices` is
the collection, `keys`, `creds` and `isUser` the caches, which map a name to what
never changes. `ok` in a request says whether its credential is right (for a
topic, whether it contains the name); `err`, which only properties read, that a
call of it returned an error. A post goes through `MqttAuth` first: the key is looked
up (`FindKey`), and a token that is not right is refused (`RefuseToken`). `answer` is
the status and the text of the last step's answer, if it gave one. A text is the sequence of its parts between
slashes: `Row` joins them as `EnqueueData` does and `Message` cuts them as the
relay does. The queue's rows are numbers of posts; a row in the relay's hand
when the process dies is in no queue again, as `PersistentQueue` shows. `svc` is
`up`, `draining` while `server.Shutdown` waits for the handlers (`Busy`), and `closing`
while the deferred calls run: from `Drained` on, the relay may end by its flag or
by the panic of a log call, which is one step, `Closed`.

`Driving` is the goroutine of `SimulateDrive` (`Stop`, `Drive`, `SendStep`, `Arrive`), the
channel, and `Loop` (`NewRoute`, `Take`). `NewRoute` is a pass of Loop's outer loop: a
route from `lastEnd`, two addresses and a way looked up, each with any reply, and
another pass if one failed. Whether the publish period is over is an input.
Speeds are integers in thousandths of km/h, chosen so that the divisions the
model makes are exact; `StatVar`'s average appears as the total it is a part of.

`Aggregator` is the Flink job. A position of a topic is an envelope from one
bridge replica. `Read` takes a topic's next position into `flight`, and `Arrive` puts
any position of `flight` into the window: the job's stages run at parallelism 2, 4, 2
and 6, so a device's envelopes pass each other on the way. `win` holds positions in
the order in which they came, and every record names those it stands for.
`CloseWindow` folds a window and puts the record in the sink's batch; `WindowThrows`
is the same step when `processElements` throws, and stops the job. What makes it throw
is a payload that is null in the last place, or one with a flaw: a missing
field, sensors of another shape, on which `convertValue` throws, or a statistic that
the cast to `Number` refuses. `flaw` says in which place of a window it is fatal.
`Submit` starts a new job at the ends of the topics.

`MCBrokeroo`, `MCBackend` and `MCAggregator` give model values and data to TLC.

In every module a few definitions are marked "mutant of": each is a plausible
mistake in the definition after it, and shows that the property named with it in
`PROJECT.json` notices the mistake.

## 3. Runs

| Run | Instance | Shows |
|---|---|---|
| `PersistentQueue` | 5 rows | the table implements `WorkQueue`; nothing moves a held row |
| `Tracky` | 1 round, 3 rows, 2 starts, 2 lost connections | order, no publish after ack, no wait for ever, queued readings get published |
| `TrackyRounds` | 2 rounds, 3 rows, a lost connection | acks, losses, duplicates and queue use with two Agents on one file |
| `TrackyRetry` | 1 row | **violation**: a failed publish is never retried (agent.go:35) |
| `BrokerooReplicas` | 2 replicas, a drop, a crash, a stop, a lost batch | stream behind table, sessions keep, graceful stop loses nothing |
| `BrokerooSettles` | 3 messages, one malformed, 2 seconds, window of 2, a failed call or SUBSCRIBE, a crash | acknowledgement comes after both stores; a session misses nothing; queued messages are settled |
| `BrokerooSameSecond` | 2 messages in a second | **violation**: acknowledged and never stored (main.go:218) |
| `Connectivity` | 2 replicas, 1 device, 2 events; two faults: crashes, dead connections, Redis errors, a Redis away at start | each crash and error costs one event, an event comes again once for each dead connection at most, times are real, a lone watcher is exact, every event is handled |
| `Driving` | 2 streets, 2 routes of up to 3 legs, channel of 2 | routes connect and are flushed, statistics match, flags are right, every status is reported |
| `Aggregator` | 2 messages, 2 bridge replicas, 2 jobs, any order of arrival | records match readings, nothing counts twice, losses and stops have a cause |
| `Backend` | 2 replicas, 3 requests, 2 of them at one time; a crash or a SIGTERM, an error or a lost PUBACK | caches and answers are right, posts are relayed as posted, in order, lost only by faults |
| `DeviceDelete` | 1 device | **violation**: DELETE of a device answers 500 and removes nothing (db.go:238) |

Where a run leaves its module's `TypeOK` out, it is proved (section 4) for every
value of the constants.

Why the bounds are enough: the queue's rules compare two rows at a time and the
refinement needs a row in every status plus one issued later (5 rows). The
Agent's hazards need two Agents, two deaths, and a connection lost both before
and after the broker accepted a packet. The bridge's replicas share only the
data table, so two of them, with one crash and one stop to distribute, reach
every pair of phases; two messages are what a collision of keys, a full window
or a race on `knownTopics` takes, three what the window needs to be full of
parked messages while another waits. Counters of faults (`MaxDrops`,
`MaxCrashes`, `MaxStops`, `MaxEnds`, `MaxFailures`, `MaxLostFlushes`, `MaxFaults`) bound the environment,
never the code. `BrokerooReplicas` uses the symmetry of replicas; it checks
invariants only.

Two events are what two watchers need to come between each other's read and
write of one device, and a third replica would only repeat the second; a second device
shares nothing with the first but the queue (the proofs are for any number). Two
faults are a connection that dies with two acknowledgements, and again, or beside a
crash or an error. A channel
of two positions is full and empty within a leg; three legs hold a stop, the
speeding up after it and a change of speed. Two messages forwarded twice put up
to four envelopes into a window, in every order, and leave some for a second
window or a second job. Three requests create a device and use it from two
replicas or from two handlers of one, or fill a cache, meet an error and ask again; the errors, lost PUBACKs
and ends of a process are one each, since two on one replica are two histories of
one, and a replica that ended begins with empty caches as a new one does. Two
streets and two routes are what a route that begins at the wrong end takes.

Runs switch deadlock checking off where the system may stop: a device is
generated with `restart="no"` (`make_compose.py`), and a bridge with nothing
published waits, as do watchers without events, a device after its last route, and
a job that nobody submits again.

Fairness. `Tracky`'s `GoroutineFairness` is the Go scheduler's for goroutines
that are not blocked, and time; it does not make the main loop read, panic or
restart. The broker owes the device nothing in `FairSpec`, which is what
`PublishNeverHangs` is checked under; `ReadingsArePublished` assumes
`BrokerFairness` in its own statement: after finitely many losses the broker can
be reached and answers. `Brokeroo`'s `Fairness` restarts pods (the StatefulSet
does), schedules goroutines and lets calls return one way or the other; nothing
has to be published or to fail. `Connectivity`'s and `Backend`'s fairness is the
same kind: pods are restarted, goroutines run, RabbitMQ delivers; a graceful
shutdown goes on. `Connectivity` adds that an acknowledgement's frame arrives unless
its connection dies, and that heartbeats make both ends notice that. `Backend`
asks this of its relay and of a main that returns, not of handlers: no liveness
property is about a request. `Driving` needs
only that `Loop` takes positions, whatever the period. `Aggregator`'s says that a
running job reads, that what it read arrives, that processing time ends windows, and
that batches are written; nobody has to submit a stopped job. Two of these are written
as `[]<>` of the action's guard being false, which for an action that its own step
alone disables is the same as its weak fairness, and cheaper to evaluate.

## 4. Proofs

TLC agrees with each statement on small instances; the proofs hold for every
number of rows, rounds, replicas, messages and faults, under the assumptions
named in the modules (bounds are naturals, a window has room for one, every
message has a device, and the like), which TLC evaluates in the runs.

* `PersistentQueueProofs`: `TypeCorrect`; `HeldRowsAreSafe`, whose inductive
  invariant is type correctness with `HeldStaysDequeued` itself; and
  `QueueRefinement`, that each step is a step of `WorkQueue` or a stutter. It
  needs the held-row invariant: an `Ack` of a row that is not in hand would take
  a ticket out of the waiting ones.
* `TrackyProofs`: the invariant ties a client's packet to an Agent that waits
  for it: a packet in the store or on the wire belongs to an Agent in `wait` or
  `retry`, an accepted one to a published row, and no two Agents hold one row.
  From it: `TypeCorrect` (the broker can append only a row), `NoReadingAckedUnpublished`,
  `AgentsUseQueueWell` (the composition implements `PersistentQueue`'s
  specification of its callers) and `NothingAfterAck`.
  The second half counts. `RepeatsNeedDrops` needs that a packet which will be
  sent again (`Resends`) is already paid for by a lost connection;
  `LossIsBounded` that a process that runs has at most a row per Agent in hand, so
  its death strands no more; `FirstRoundInOrder` that rows are taken oldest first
  and the first round's Agent has the newest that was taken (`TakenInOrder`).
* `BrokerooProofs`: `TypeCorrect`, `AcknowledgedLast` and `TableBeforeStream` from an
  invariant that says what a callback has done by the call it makes next;
  `SessionKeepsUnacked` from one that says where each seen message is;
  `SessionsStayBound` from one that a session which anything has reached is bound,
  or a replica was stopped; `StopLosesNothing`, which is inductive with the types.
* `ConnectivityProofs`: `TimesStayReal` needs that the other half, read before the
  status is written, is a real time too; `LossIsBounded` that a watcher at its loop
  has nothing in hand (`AtRest`), so that each step which drops an event is one
  that is counted. `RepeatsArePaid` needs where an event can be (`PlaceInv`: in
  the queue, with one connection, or with one that is dead, and there once) and that the copies
  of an event (`Copies`: its writes, and wherever it is in hand or waits to be handled)
  are at most one more than the connections that died (`RepeatInv`), however many
  acknowledgements died with each. `AloneIsExact` is from `LoneInv`: with one
  replica and no fault, the events handled, in hand, received and queued are, in
  this order, all the events, and a half that was read is the one of the events handled.
* `SumLemmas` is about the folds of the community modules. Their definition is a
  recursive function on sets, chosen by its equation; the library's induction cannot be used
  on it, so `TotalsAreSums` shows that the equation has only one solution: were
  there two, take a smallest set on which they differ (`SmallestSet`), and it has an
  element whose removal leaves another. `FoldSeqIsSum`, `OneMoreSums` and
  `AppendSums` then say what a sum is when one element is added.
* `DrivingProofs`: `OnlyPiratesAreFlagged` carries `Fair` from the leg that is driven
  through the channel to the payload; its arithmetic is of 3% at most, for base
  speeds up to 333 km/h (above, 3% are more than the 10 km/h of margin: stated as
  an assumption of the theorem). `RoutesAreConnected` needs `Connected`: the last payload
  is of the route being driven or of the one before it, which ended where this
  one begins, and this one ends at `lastEnd`. `RoutesAreFlushed` is from `SumInv` and
  `EndInv`: what the payloads of a route reported, what `Loop` has accumulated and what
  waits in the channel add up to what was driven. `StatsAreOfPositions` is from
  `StatInv`: the accumulators are those of the positions taken since the last payload
  (`Matches`), a statement that each position taken extends (`StatStep`).
* `AggregatorProofs`: `CountInv` says that windows and records name positions
  that were read, that no record stands for a position of an open window, and
  that no two have the same time; from it `NothingCountsTwice` and `OnlyAStopLoses`. `StopsHaveCause` is
  inductive with the types. `RecordsTellReadings` compares the code's loop over a window,
  which is a fold over a sequence in the order of arrival, with sums over the set of
  readings, and the record's route, status and statistics with some reading's. `Tells` says
  that a record is what the loop has after a sequence; `LoopIsFold` that the loop
  is the model's fold; `TellInv` carries the statement for every window and record,
  so that the state machine's own steps do the induction.
* `BackendProofs`: `HandlersInv` says of any number of handlers what each knows by where
  it stands (`Knows`), and of the collections and caches that they agree (`RegistryInv`):
  they only grow, so what one handler does keeps what another knows (`RegistryGrows`).
  With it `CachesAgree`, and `AnswersAreRight`, an action property that compares an
  answer with what the registry asks for. `RelayInv` is of the relay:
  types, what was relayed is what was posted (`SentInv`), a repetition is paid for
  by a lost PUBACK (`Repeats`), and each post is relayed, queued, in hand, lost with a file or
  paid for (`Paid`); from it `BackendTypes`, `BrokerGetsPosts`, `PostsInOrder` and `LossesArePaid`.

TLC checked the inductive invariants on the components' instances before they were
proved; where one speaks of a function that exists (`SumsTo`, `Tells`), with the
fold in its place. Every safety invariant and every action property of
section 3's passing runs is now stated by one of these theorems.

Only model-checked: liveness (`PublishNeverHangs`, `ReadingsArePublished`,
`QueuedIsSettled`, `EventsAreHandled`, `EveryStatusIsReported`,
`ReadingsAreRecorded`, `PostsAreRelayed`), which rests on fairness and so on
`ENABLED`: out of the prover's reach.

## 5. What the models say about the code

Beyond the three violations above (each quoted with its line in `PROJECT.json`),
the properties state facts that a reader of the code may not expect:

* A row in hand when a process dies is never published (`LossPerDeathIsBounded`).
* `Terminate` (firmware.go:101) sets a flag that nothing reads: a terminated
  round's Agent runs beside the next round's. `TrackyRounds` checks that the queue
  survives this.
* The token of a device's client is good for 200 seconds (mqtt.go:185). After a
  longer outage the client reconnects with it for ever in vain; what ends that is
  the watchdog, when the Agent waits for a PUBACK (`PublishNeverHangs`), and nothing
  restarts the container.
* The bridge acknowledges a message when the asynchronous writer has it in a
  batch; a batch that fails is reported to nobody (`ForwardedIsLostOnlyByFault`).
* On a resumed session the broker may deliver before `Subscribe` has registered
  the handler; such a message stays in flight until the next connection
  (`DeliverUnrouted`, and `Parked` in `QueuedIsSettled`).
* `Stop` unsubscribes: a replica that was stopped misses what devices publish until
  it is back (`SessionsMissNothing` holds up to the first stop, and not beyond).
* Every position of a leg carries the whole leg's distance (driving.go:362), so a
  leg of n steps adds n + 1 times its length (`Drive`'s `owed`).
* `StatVar`'s average leaves the first value out of its sum (`StatsMatchPositions`).
* Each bridge replica forwards each message, so a reading counts once per replica
  in the aggregates (`CountedOnce` is about a topic's positions, and says: at most once).
* Nothing keeps a device's envelopes in order between the topic and its window: a
  record's route is the first arrival's and its status the last one's, which need not be
  the earliest and the latest reading's (`RecordsMatchReadings` says: some reading's).
* One envelope without a payload at the end of a window, one with a missing field, with
  sensors of another shape or with a statistic that is not a number, stops the whole
  job, as five failures of a batch do (`Die`); without checkpoints there is no restart strategy,
  and a new job begins at the latest offsets (`StopsForCause`, `LostOnlyByStop`).
* A failed SUBSCRIBE is logged and not sent again on that connection (main.go:186): a
  bridge replica whose session was never bound hears nothing until it reconnects.
* A connection that dies can take any number of acknowledgements with it, so events
  already handled come again, each once at most for each such connection
  (`RepeatedOnlyByFault`).
* A connection event is acknowledged before it is handled (`LostOnlyByFault` of
  `Connectivity`), and a Redis error on the read writes the other time as zero.
  Across replicas the later event need not win; one replica that meets no fault
  gets it right, because it handles an event before it receives the next
  (`LoneWatcherIsExact`).
* The credential and key caches are right only because no device can be removed
  (`CachedIsRegistered`): the mutant that lets DELETE work makes them stale.
* `UserAuth` takes any error for "not a user"; a login whose second look-up fails is
  answered 200 with a token that opens nothing (`handler/login.go:28`). Neither
  admits anyone wrongly or outlasts the error, as `TopicAuth` does not cache it
  (`AnsweredAsRegistered`).
* `DeleteUser` answers 204 and deletes nothing: it looks for the id as a string.
* The graceful shutdown closes the log channel while the relay and the watcher may
  still log, which is a panic; it costs at most the row in the relay's hands
  (`LostOnlyByFault` of `Backend`). `server.Shutdown` has waited for the handlers by then,
  or `Fatal` has ended the process (`ShutdownFails`).
* The relay's loop over `err` never ends (mqtt.go:60), as the Agent's; a queue that
  could not store a post answers "ok!" all the same (`LostOnlyByFault` of `Backend`).
* A tag with a slash is cut at that slash (`RelayedAsPosted` excepts it).

## 6. Not modelled

The reads of the registry and of the connectivity status, where
connectivity.go:215 inverts the nil check of the fallback cache; `ResourceAuth` and
`VhostAuth`, which always allow; the signatures of tokens; the HTTP layer; the MQTT
job replies (`handleDnMsg`; its subscription is commented out); configuration,
formatting and logging; consumption and geography; the sensors, and with them
`normalRun`, which firmware.go:140 clears and nothing sets again. A route of no
segment is an index out of range in `SimulateDrive` and so one of `Tracky`'s
panics of the main loop. The error of
`StructToMap` in `Loop` (firmware.go:183), after which the payload is gone and what it
accumulated with it, needs a number that is not finite, which the simulator does not
make. `Post` stores the row and answers "ok!" in one step, so a process that dies
between the two counts as one that died before both or after. The records' `ts` is a
counter of windows closed: windows of one device end ten seconds apart, so the
milliseconds of `System.currentTimeMillis` differ. The third-party services appear as
what the code relies on of them: SQLite's transactions, MQTT sessions and PUBACKs,
unique keys, Kafka positions and batches, RabbitMQ's requeueing, Flink's windows.

## 7. Plan

Done: the modules above, and the proofs of section 4 (eight modules).

1. Extend the models.
   * `Pipeline`: abstract stages of device, bridge and aggregation (a reading is
     taken, published, recorded, streamed, counted), and `Tracky`, `Brokeroo` and
     `Aggregator` each shown to implement its stage, so that the losses and
     duplicates of the stages add up end to end.
   * `DeviceStatus`: an abstract last-writer register per device, which `Connectivity`
     implements under the conditions of `LoneWatcherIsExact`.
   * `Backend`'s queue as an instance of `WorkQueue`, as `Tracky`'s already is of
     `PersistentQueue`.
2. Prove more.
   * That `Connectivity` implements `DeviceStatus`, and the stages of `Pipeline`
     theirs, each by the invariants of section 4.
   * That a replica's queue in `Backend` implements `WorkQueue` while its file stays.
