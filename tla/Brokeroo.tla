------------------------------ MODULE Brokeroo ------------------------------
(***************************************************************************)
(* The bridge from MQTT to Postgres and Kafka (brokeroo/cmd/brokeroo).     *)
(* Every replica has an MQTT session of its own (its client id is the pod  *)
(* name, the session is persistent), receives every message, handles each  *)
(* in a goroutine of its own, and acknowledges by hand as the last step.   *)
(* A handler that fails returns without an acknowledgement: the message    *)
(* stays in flight on that connection until the connection is replaced.    *)
(*                                                                         *)
(* A message is a model value with a device; the tag is left out.  Time is *)
(* in the seconds that data rows are keyed by.                             *)
(***************************************************************************)
EXTENDS Naturals, FiniteSets

CONSTANTS
    Replica,
    Msg,
    Device,         \* the devices
    From,           \* message -> the device whose topic it is published on
    Bad,            \* messages with a malformed topic or payload
    Window,         \* unacknowledged messages the broker has in flight at most
    MaxNow,         \* bound: seconds that pass
    MaxDrops,       \* bound: connections lost
    MaxCrashes,     \* bound: processes that die
    MaxStops,       \* bound: processes stopped by SIGTERM
    MaxFailures,    \* bound: calls to Postgres, Kafka or the broker (SUBSCRIBE) that
                    \* return an error
    MaxLostFlushes  \* bound: asynchronous Kafka batches that fail for good

ASSUME BrokerooAssumption ==
    /\ From \in [Msg -> Device]
    /\ Bad \subseteq Msg
    /\ Window \in Nat \ {0}
    /\ {MaxNow, MaxDrops, MaxCrashes, MaxStops, MaxFailures, MaxLostFlushes}
            \subseteq Nat

VARIABLES
    published,      \* messages the devices have published
    sub,            \* replica -> its session is bound to the topic pattern
    queue,          \* replica -> messages waiting in its session
    inflight,       \* replica -> delivered on this connection, unacknowledged
    conn,           \* replica -> its MQTT connection is open
    epoch,          \* replica -> connections opened so far
    refused,        \* replica -> its SUBSCRIBE failed on this connection
    svc,            \* replica -> how far Start or Stop has got
    route,          \* replica -> paho knows messageHandler for the pattern
    known,          \* replica -> knownTopics, one topic per device
    handling,       \* running messageHandler -> the call it makes next
    db,             \* rows of trackeroo.data
    buffer,         \* deliveries in a writer's asynchronous batches
    kafka,          \* deliveries whose envelope is in Kafka
    forwarded,      \* deliveries logged "Message forwarded to Kafka topic"
    acked,          \* deliveries acknowledged on their own connection
    now, drops, crashes, stops, failures, lostFlushes

brokerVars == <<published, sub, queue, inflight, conn, epoch, refused>>
svcVars == <<svc, route, known>>
dataVars == <<db, buffer, kafka, forwarded, acked>>
countVars == <<now, drops, crashes, stops, failures, lostFlushes>>
vars == <<brokerVars, svcVars, handling, dataVars, countVars>>

Svc == {"down", "starting", "opening", "probing", "up", "stopping", "draining"}
Step == {"insert", "topic", "write", "ack"}
Delivery == [replica : Replica, msg : Msg, epoch : Nat, ts : 0 .. MaxNow]
Row == [ts : 0 .. MaxNow, dev : Device, msg : Msg]

Of(r, S) == {d \in S : d.replica = r}
Current(d) == conn[d.replica] /\ d.epoch = epoch[d.replica]
Without(S) == [d \in DOMAIN handling \ S |-> handling[d]]

\* The primary key (ts, dev_id) of the data table has a row.
Recorded(d) == \E row \in db : row.ts = d.ts /\ row.dev = From[d.msg]

\* In flight with no handler that could still acknowledge: the handler failed,
\* or there was no route when it was delivered.
Parked(r) ==
    {m \in inflight[r] :
        \A d \in Of(r, DOMAIN handling) : d.msg = m => ~Current(d)}

------------------------------------------------------------------------------
Init ==
    /\ published = {}
    /\ sub = [r \in Replica |-> FALSE]
    /\ queue = [r \in Replica |-> {}]
    /\ inflight = [r \in Replica |-> {}]
    /\ conn = [r \in Replica |-> FALSE]
    /\ epoch = [r \in Replica |-> 0]
    /\ refused = [r \in Replica |-> FALSE]
    /\ svc = [r \in Replica |-> "down"]
    /\ route = [r \in Replica |-> FALSE]
    /\ known = [r \in Replica |-> {}]
    /\ handling = [d \in {} |-> "insert"]
    /\ db = {}
    /\ buffer = {}
    /\ kafka = {}
    /\ forwarded = {}
    /\ acked = {}
    /\ now = 0
    /\ drops = 0
    /\ crashes = 0
    /\ stops = 0
    /\ failures = 0
    /\ lostFlushes = 0

(* The broker and the devices *)

\* A published message goes to every bound session, and to no other.
Publish(m) ==
    /\ m \notin published
    /\ published' = published \cup {m}
    /\ queue' = [r \in Replica |-> IF sub[r] THEN queue[r] \cup {m} ELSE queue[r]]
    /\ UNCHANGED <<sub, inflight, conn, epoch, refused, svcVars, handling, dataVars, countVars>>

\* Unacknowledged messages of a closed connection wait in the session again.
Requeued(r) == [queue EXCEPT ![r] = @ \cup inflight[r]]

ConnLost(r) ==
    /\ conn[r]
    /\ drops < MaxDrops
    /\ drops' = drops + 1
    /\ conn' = [conn EXCEPT ![r] = FALSE]
    /\ queue' = Requeued(r)
    /\ inflight' = [inflight EXCEPT ![r] = {}]
    /\ UNCHANGED <<published, sub, epoch, refused, svcVars, handling, dataVars,
                   now, crashes, stops, failures, lostFlushes>>

Tick ==
    /\ now < MaxNow
    /\ now' = now + 1
    /\ UNCHANGED <<brokerVars, svcVars, handling, dataVars,
                   drops, crashes, stops, failures, lostFlushes>>

------------------------------------------------------------------------------
(* Start, Stop and the end of a process *)

\* Start() after a Ping that Postgres answered.
StartService(r) ==
    /\ svc[r] = "down"
    /\ svc' = [svc EXCEPT ![r] = "starting"]
    /\ UNCHANGED <<brokerVars, route, known, handling, dataVars, countVars>>

CleanSession(r) ==                      \* mutant of Connect: SetCleanSession(true)
    /\ svc[r] \in {"starting", "opening", "probing", "up"}
    /\ ~conn[r]
    /\ conn' = [conn EXCEPT ![r] = TRUE]
    /\ epoch' = [epoch EXCEPT ![r] = @ + 1]
    /\ refused' = [refused EXCEPT ![r] = FALSE]
    /\ svc' = [svc EXCEPT ![r] = IF @ = "starting" THEN "opening" ELSE @]
    /\ queue' = [queue EXCEPT ![r] = {}]
    /\ sub' = [sub EXCEPT ![r] = FALSE]
    /\ UNCHANGED <<published, inflight, route, known, handling, dataVars, countVars>>

\* connectMQTT, or paho's reconnect.  The session is resumed.
Connect(r) ==
    /\ svc[r] \in {"starting", "opening", "probing", "up"}
    /\ ~conn[r]
    /\ conn' = [conn EXCEPT ![r] = TRUE]
    /\ epoch' = [epoch EXCEPT ![r] = @ + 1]
    /\ refused' = [refused EXCEPT ![r] = FALSE]
    /\ svc' = [svc EXCEPT ![r] = IF @ = "starting" THEN "opening" ELSE @]
    /\ UNCHANGED <<published, sub, queue, inflight, route, known, handling,
                   dataVars, countVars>>

\* The OnConnect goroutine; it runs beside the first deliveries of the
\* resumed session and beside connectKafka.
Subscribe(r) ==
    /\ conn[r] /\ ~refused[r]
    /\ ~sub[r] \/ ~route[r]
    /\ sub' = [sub EXCEPT ![r] = TRUE]
    /\ route' = [route EXCEPT ![r] = TRUE]
    /\ UNCHANGED <<published, queue, inflight, conn, epoch, refused, svc, known,
                   handling, dataVars, countVars>>

\* The SUBSCRIBE returns an error.  It is logged and not sent again before the
\* next connection; paho has added the route before it sent the packet.
SubscribeFails(r) ==
    /\ conn[r] /\ ~refused[r]
    /\ ~sub[r] \/ ~route[r]
    /\ failures < MaxFailures
    /\ failures' = failures + 1
    /\ refused' = [refused EXCEPT ![r] = TRUE]
    /\ route' = [route EXCEPT ![r] = TRUE]
    /\ UNCHANGED <<published, sub, queue, inflight, conn, epoch, svc, known,
                   handling, dataVars, now, drops, crashes, stops, lostFlushes>>

\* connectKafka creates the writer: until here kafkaWriter is nil.
OpenKafka(r) ==
    /\ svc[r] = "opening"
    /\ svc' = [svc EXCEPT ![r] = "probing"]
    /\ UNCHANGED <<brokerVars, route, known, handling, dataVars, countVars>>

\* The health-check message was taken; Start returns.
ProbeKafka(r) ==
    /\ svc[r] = "probing"
    /\ svc' = [svc EXCEPT ![r] = "up"]
    /\ UNCHANGED <<brokerVars, route, known, handling, dataVars, countVars>>

\* The memory of replica r's process goes: handlers, known topics, batches.
Exit(r) ==
    /\ svc' = [svc EXCEPT ![r] = "down"]
    /\ route' = [route EXCEPT ![r] = FALSE]
    /\ known' = [known EXCEPT ![r] = {}]
    /\ handling' = Without(Of(r, DOMAIN handling))
    /\ buffer' = buffer \ Of(r, buffer)
    /\ conn' = [conn EXCEPT ![r] = FALSE]
    /\ queue' = Requeued(r)
    /\ inflight' = [inflight EXCEPT ![r] = {}]
    /\ UNCHANGED <<published, sub, epoch, refused, db, kafka, forwarded, acked,
                   now, drops, failures, lostFlushes>>

\* A kill, or log.Fatalf when Start could not reach Kafka or the broker.
Crash(r) ==
    /\ svc[r] # "down"
    /\ crashes < MaxCrashes
    /\ crashes' = crashes + 1
    /\ Exit(r)
    /\ UNCHANGED stops

\* Go ends the process when it meets concurrent accesses to knownTopics, which
\* handlers read and write without a lock.
MapRace(r) ==
    /\ \E d, e \in Of(r, DOMAIN handling) :
        /\ d # e
        /\ handling[d] = "topic" /\ handling[e] = "topic"
        /\ From[d.msg] \notin known[r]
    /\ Crash(r)

\* A handler that gets to the writer before connectKafka made it.
NilWriter(r) ==
    /\ svc[r] = "opening"
    /\ \E d \in Of(r, DOMAIN handling) : handling[d] = "write"
    /\ Crash(r)

\* Stop(), first part: Unsubscribe and Disconnect.  Handlers go on.
Stop(r) ==
    /\ svc[r] = "up"
    /\ stops < MaxStops
    /\ stops' = stops + 1
    /\ svc' = [svc EXCEPT ![r] = "stopping"]
    /\ sub' = [sub EXCEPT ![r] = @ /\ ~conn[r]]
    /\ conn' = [conn EXCEPT ![r] = FALSE]
    /\ queue' = Requeued(r)
    /\ inflight' = [inflight EXCEPT ![r] = {}]
    /\ UNCHANGED <<published, epoch, refused, route, known, handling, dataVars,
                   now, drops, crashes, failures, lostFlushes>>

\* Stop(), second part: the database and the writer are closed to new calls.
CloseStores(r) ==
    /\ svc[r] = "stopping"
    /\ svc' = [svc EXCEPT ![r] = "draining"]
    /\ UNCHANGED <<brokerVars, route, known, handling, dataVars, countVars>>

ExitUnflushed(r) ==                     \* mutant of Stopped: no kafkaWriter.Close
    /\ svc[r] = "draining"
    /\ Exit(r)
    /\ UNCHANGED <<crashes, stops>>

\* kafkaWriter.Close returns when its batches are written or given up.
Stopped(r) ==
    /\ svc[r] = "draining"
    /\ Of(r, buffer) = {}
    /\ Exit(r)
    /\ UNCHANGED <<crashes, stops>>

------------------------------------------------------------------------------
(* messageHandler *)

Advance(d, step) == handling' = [handling EXCEPT ![d] = step]

\* The broker hands out a queued message while the window has room.
HandOut(r, m) ==
    /\ conn[r]
    /\ m \in queue[r]
    /\ Cardinality(inflight[r]) < Window
    /\ queue' = [queue EXCEPT ![r] = @ \ {m}]
    /\ UNCHANGED <<published, sub, conn, epoch, refused, svcVars, db, buffer, kafka,
                   forwarded, countVars>>

\* The handler starts.  data["ts"].(int64) never holds for a decoded JSON
\* number, so the row's second is the bridge's own clock.
Deliver(r, m) ==
    /\ HandOut(r, m)
    /\ route[r] /\ m \notin Bad
    /\ inflight' = [inflight EXCEPT ![r] = @ \cup {m}]
    /\ LET d == [replica |-> r, msg |-> m, epoch |-> epoch[r], ts |-> now] IN
        handling' = [e \in DOMAIN handling \cup {d} |->
                        IF e = d THEN "insert" ELSE handling[e]]
    /\ UNCHANGED acked

\* A malformed topic or payload is acknowledged at once.
Reject(r, m) ==
    /\ HandOut(r, m)
    /\ route[r] /\ m \in Bad
    /\ acked' = acked \cup
            {[replica |-> r, msg |-> m, epoch |-> epoch[r], ts |-> now]}
    /\ UNCHANGED <<inflight, handling>>

\* A session resumed before Subscribe registered messageHandler: paho has no
\* handler for the message and leaves it unacknowledged.
DeliverUnrouted(r, m) ==
    /\ HandOut(r, m)
    /\ ~route[r]
    /\ inflight' = [inflight EXCEPT ![r] = @ \cup {m}]
    /\ UNCHANGED <<handling, acked>>

ErrorIgnored(d) ==                      \* mutant of Insert: no return on its error
    /\ handling[d] = "insert"
    /\ svc[d.replica] # "draining"
    /\ UNCHANGED db
    /\ Advance(d, "topic")
    /\ UNCHANGED <<brokerVars, svcVars, buffer, kafka, forwarded, acked, countVars>>

\* insertData: ON CONFLICT (ts, dev_id) DO NOTHING.
Insert(d) ==
    /\ handling[d] = "insert"
    /\ svc[d.replica] # "draining"
    /\ db' = IF Recorded(d) THEN db
             ELSE db \cup {[ts |-> d.ts, dev |-> From[d.msg], msg |-> d.msg]}
    /\ Advance(d, "topic")
    /\ UNCHANGED <<brokerVars, svcVars, buffer, kafka, forwarded, acked, countVars>>

WrongKey(d) ==                          \* mutant of EnsureTopic: cached by message
    /\ handling[d] = "topic"
    /\ known' = [known EXCEPT ![d.replica] = @ \cup {d.msg}]
    /\ Advance(d, "write")
    /\ UNCHANGED <<brokerVars, svc, route, dataVars, countVars>>

\* ensureTopicExists: a known topic, or one the controller has now.
EnsureTopic(d) ==
    /\ handling[d] = "topic"
    /\ known' = [known EXCEPT ![d.replica] = @ \cup {From[d.msg]}]
    /\ Advance(d, "write")
    /\ UNCHANGED <<brokerVars, svc, route, dataVars, countVars>>

\* WriteMessages of an Async writer: it returns nil once the message is in a
\* batch, and the handler logs that it was forwarded.
WriteKafka(d) ==
    /\ handling[d] = "write"
    /\ svc[d.replica] \in {"probing", "up", "stopping"}
    /\ buffer' = buffer \cup {d}
    /\ forwarded' = forwarded \cup {d}
    /\ Advance(d, "ack")
    /\ UNCHANGED <<brokerVars, svcVars, db, kafka, acked, countVars>>

AckOnError(d) ==                        \* mutant of Fail: acknowledges anyway
    /\ handling[d] \in {"insert", "topic", "write"}
    /\ failures < MaxFailures
    /\ failures' = failures + 1
    /\ handling' = Without({d})
    /\ acked' = IF Current(d) THEN acked \cup {d} ELSE acked
    /\ inflight' = IF Current(d) THEN [inflight EXCEPT ![d.replica] = @ \ {d.msg}]
                   ELSE inflight
    /\ UNCHANGED <<published, sub, queue, conn, epoch, refused, svcVars, db, buffer, kafka,
                   forwarded, now, drops, crashes, stops, lostFlushes>>

\* Any of the three calls returns an error, and the handler just returns; a
\* topic already known makes no call.
Fail(d) ==
    /\ \/ handling[d] \in {"insert", "write"}
       \/ handling[d] = "topic" /\ From[d.msg] \notin known[d.replica]
    /\ failures < MaxFailures
    /\ failures' = failures + 1
    /\ handling' = Without({d})
    /\ UNCHANGED <<brokerVars, svcVars, dataVars,
                   now, drops, crashes, stops, lostFlushes>>

\* The stores of a stopping service are closed: the call cannot succeed.
FailClosed(d) ==
    /\ svc[d.replica] = "draining"
    /\ handling[d] \in {"insert", "write"}
    /\ handling' = Without({d})
    /\ UNCHANGED <<brokerVars, svcVars, dataVars, countVars>>

NoAck(d) ==                             \* mutant of Ack: the call is missing
    /\ handling[d] = "ack"
    /\ handling' = Without({d})
    /\ UNCHANGED <<brokerVars, svcVars, dataVars, countVars>>

\* msg.Ack(): nothing happens when its connection is gone.
Ack(d) ==
    /\ handling[d] = "ack"
    /\ handling' = Without({d})
    /\ IF Current(d)
       THEN /\ acked' = acked \cup {d}
            /\ inflight' = [inflight EXCEPT ![d.replica] = @ \ {d.msg}]
       ELSE UNCHANGED <<acked, inflight>>
    /\ UNCHANGED <<published, sub, queue, conn, epoch, refused, svcVars, db, buffer, kafka,
                   forwarded, countVars>>

(* The writer's own goroutine *)

Flush(d) ==
    /\ d \in buffer
    /\ buffer' = buffer \ {d}
    /\ kafka' = kafka \cup {d}
    /\ UNCHANGED <<brokerVars, svcVars, handling, db, forwarded, acked, countVars>>

\* The batch's attempts are used up; the error goes to no one.
FlushFails(d) ==
    /\ d \in buffer
    /\ lostFlushes < MaxLostFlushes
    /\ lostFlushes' = lostFlushes + 1
    /\ buffer' = buffer \ {d}
    /\ UNCHANGED <<brokerVars, svcVars, handling, db, kafka, forwarded, acked,
                   now, drops, crashes, stops, failures>>

------------------------------------------------------------------------------
Process(r) ==
    \/ StartService(r)
    \/ Connect(r)
    \/ Subscribe(r)
    \/ OpenKafka(r)
    \/ ProbeKafka(r)
    \/ CloseStores(r)
    \/ Stopped(r)

Handler(d) ==
    \/ Insert(d)
    \/ EnsureTopic(d)
    \/ WriteKafka(d)
    \/ Fail(d)
    \/ FailClosed(d)
    \/ Ack(d)

Next ==
    \/ \E m \in Msg : Publish(m)
    \/ Tick
    \/ \E r \in Replica :
        \/ Process(r)
        \/ ConnLost(r)
        \/ SubscribeFails(r)
        \/ Stop(r)
        \/ Crash(r)
        \/ MapRace(r)
        \/ NilWriter(r)
        \/ \E m \in Msg : Deliver(r, m) \/ Reject(r, m) \/ DeliverUnrouted(r, m)
    \/ \E d \in DOMAIN handling : Handler(d)
    \/ \E d \in buffer : Flush(d) \/ FlushFails(d)

Spec == Init /\ [][Next]_vars

\* Pods are restarted, goroutines are scheduled, the broker accepts connections
\* and delivers, calls return.  Nothing has to be published, fail or stop.
Fairness ==
    /\ \A r \in Replica :
        /\ WF_vars(StartService(r))
        /\ WF_vars(Connect(r))
        /\ WF_vars(Subscribe(r))
        /\ WF_vars(OpenKafka(r))
        /\ WF_vars(ProbeKafka(r))
        /\ WF_vars(CloseStores(r))
        /\ WF_vars(Stopped(r))
        /\ WF_vars(\E m \in Msg :
                        Deliver(r, m) \/ Reject(r, m) \/ DeliverUnrouted(r, m))
    /\ WF_vars(\E d \in DOMAIN handling : Handler(d))
    /\ WF_vars(\E d \in buffer : Flush(d) \/ FlushFails(d))

FairSpec == Spec /\ Fairness

------------------------------------------------------------------------------
(* Properties *)

TypeOK ==
    /\ published \subseteq Msg
    /\ sub \in [Replica -> BOOLEAN]
    /\ queue \in [Replica -> SUBSET Msg]
    /\ inflight \in [Replica -> SUBSET Msg]
    /\ conn \in [Replica -> BOOLEAN]
    /\ epoch \in [Replica -> Nat]
    /\ refused \in [Replica -> BOOLEAN]
    /\ svc \in [Replica -> Svc]
    /\ route \in [Replica -> BOOLEAN]
    /\ known \in [Replica -> SUBSET Device]
    /\ DOMAIN handling \subseteq Delivery
    /\ \A d \in DOMAIN handling : handling[d] \in Step
    /\ db \subseteq Row
    /\ buffer \subseteq Delivery
    /\ kafka \subseteq Delivery
    /\ forwarded \subseteq Delivery
    /\ acked \subseteq Delivery
    /\ now \in 0 .. MaxNow
    /\ drops \in 0 .. MaxDrops
    /\ crashes \in 0 .. MaxCrashes
    /\ stops \in 0 .. MaxStops
    /\ failures \in 0 .. MaxFailures
    /\ lostFlushes \in 0 .. MaxLostFlushes

\* A well-formed message is acknowledged only when both destinations took it:
\* its device and second have a row, and the Kafka writer has it.  Failed
\* calls, stale handlers of an old connection and restarts do not change that.
AckedWasTaken ==
    \A d \in acked : d.msg \notin Bad => d \in forwarded /\ Recorded(d)

\* What is in Kafka, or on its way there, has a row for its device and second:
\* the stream never runs ahead of the table.
StreamedIsRecorded == \A d \in buffer \cup kafka : Recorded(d)

\* "Keep unacked messages" (main.go:144): a message that reached a replica's
\* session stays there until that replica acknowledges it.
Seen(r) ==
    {d.msg : d \in Of(r, DOMAIN handling \cup forwarded \cup acked)}

Settled(r) == {d.msg : d \in Of(r, acked)}

UnackedIsKept ==
    \A r \in Replica : Seen(r) \subseteq Settled(r) \cup queue[r] \cup inflight[r]

\* A message that was acknowledged as forwarded and is neither in Kafka nor
\* in a batch fell victim to a crash or to a batch that failed: a graceful
\* Stop, which closes the writer last, loses none.
ForwardedIsLostOnlyByFault ==
    forwarded \subseteq kafka \cup buffer \/ crashes + lostFlushes > 0

\* What a replica's session ever had of the messages.
Got(r) == Seen(r) \cup queue[r] \cup inflight[r]

\* A session that has had a message gets every later one, over lost
\* connections, crashes and restarts, for as long as no replica is stopped:
\* only Stop unsubscribes (main.go:308).
SessionsMissNothing ==
    [][stops = 0 =>
        \A r \in Replica : Got(r) # {} => published' \ published \subseteq queue'[r]]_vars

\* Something went wrong somewhere: the only reason to be left unacknowledged.
Faults == failures + drops + crashes + stops > 0

\* A message waiting for a connected replica, or in one of its handlers, is
\* acknowledged in the end, unless a fault left it parked, the connection
\* went, or parked messages have used up the broker's window.
QueuedIsSettled ==
    \A r \in Replica, m \in Msg :
        m \in queue[r] \cup inflight[r]
            ~> \/ m \in Settled(r)
               \/ Faults /\ m \in Parked(r)
               \/ Faults /\ Cardinality(Parked(r)) = Window
               \/ ~conn[r]

\* "Brokeroo (Go) routes raw data to TimescaleDB" (README.md:9): a well-formed
\* message that was acknowledged is in the data table.
AckedIsStored ==
    \A d \in acked : d.msg \notin Bad => \E row \in db : row.msg = d.msg
==============================================================================
