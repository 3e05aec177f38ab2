----------------------------- MODULE Aggregator -----------------------------
(***************************************************************************)
(* The aggregation job (flink_job).  It reads the devices' Kafka topics,   *)
(* keeps a ten-second window per device, folds a window into one record    *)
(* when it closes and upserts the records in batches.  It has no           *)
(* checkpoints: when an operator throws, the job stops, and a job that is  *)
(* submitted again begins at the ends of the topics.  Its stages run at    *)
(* different parallelisms, so envelopes reach a window in any order.       *)
(*                                                                         *)
(* Every replica of the bridge forwards every message, so an envelope      *)
(* comes once from each.  Speed and consumption statistics, which a record *)
(* copies from the last envelope, are one value, and so are the sensors    *)
(* that are summed.                                                        *)
(***************************************************************************)
EXTENDS Naturals, Sequences, FiniteSetsExt, SequencesExt

CONSTANTS
    Device,
    Copies,         \* replicas of the bridge
    Payloads,       \* payloads that a device or a client of the relay sends
    MaxMessages,    \* bound: messages published
    MaxStops,       \* bound: jobs that die for reasons of their own
    MaxSubmits      \* bound: jobs submitted

\* A payload is "absent" (null), "garbled" (of types Jackson cannot read) or a
\* "reading".  A reading can have a flaw: "any" where it is fatal in any place
\* (no speed, limit or device_type, or sensors of another shape, which have no
\* type until convertValue), "first" where it is fatal in the first place (no
\* start or end), "last" in the last place (a statistic that is not a number).
PayloadType ==
    [kind : {"absent", "garbled", "reading"},
     flaw : {"none", "any", "first", "last"},
     route : Nat, status : STRING, delta : Nat, stat : Nat, sensor : Nat,
     fast : BOOLEAN,    \* speed above the limit by more than 10 km/h
     alarm : BOOLEAN]   \* alarm or collision

ASSUME AggregatorAssumption ==
    /\ {Copies, MaxMessages, MaxStops} \subseteq Nat
    /\ MaxSubmits \in Nat \ {0}
    /\ Payloads \subseteq PayloadType

VARIABLES
    sent,       \* the messages published, in order: [dev, payload]
    topic,      \* device -> the numbers of the messages in its Kafka topic
    job,        \* "running" or "stopped"
    offset,     \* device -> the position of its topic that the job has reached
    flight,     \* device -> the positions between the source and its window
    win,        \* device -> the positions in its open window, as they came
    clock,      \* the ts of the next record: windows closed so far, as those
                \* of a device close ten seconds apart
    sink,       \* records of the batch not yet written
    table,      \* trackeroo.aggregated
    stops, submits

vars == <<sent, topic, job, offset, flight, win, clock, sink, table, stops, submits>>

\* The payload at position i of d's topic.
At(d, i) == sent[topic[d][i]].payload

------------------------------------------------------------------------------
(* AggregationHandler *)

Empty == [count |-> 0, route |-> 0, delta |-> 0, sensors |-> 0,
          is_pirate |-> FALSE, alarm |-> FALSE]

LastWins(s, p) ==                       \* mutant of Accumulate
    [count |-> s.count + 1, route |-> p.route, delta |-> s.delta + p.delta,
     sensors |-> s.sensors + p.sensor, is_pirate |-> p.fast, alarm |-> p.alarm]

\* The loop's body for a payload that is there.  The first one gives the route.
Accumulate(s, p) ==
    [count |-> s.count + 1,
     route |-> IF s.count = 0 THEN p.route ELSE s.route,
     delta |-> s.delta + p.delta,
     sensors |-> s.sensors + p.sensor,
     is_pirate |-> s.is_pirate \/ p.fast,
     alarm |-> s.alarm \/ p.alarm]

processElements(d, w) ==
    FoldLeft(LAMBDA s, i : IF At(d, i).kind = "reading" THEN Accumulate(s, At(d, i)) ELSE s,
             Empty, w)

\* The loop passes over elements without a payload, but the last element is
\* dereferenced whether it has one or not.
Throws(d, w) ==
    \/ \E j \in DOMAIN w :
        /\ At(d, w[j]).kind = "reading"
        /\ \/ At(d, w[j]).flaw = "any"
           \/ At(d, w[j]).flaw = "first" /\ \A k \in 1 .. j - 1 : At(d, w[k]).kind # "reading"
    \/ At(d, Last(w)).kind # "reading" \/ At(d, Last(w)).flaw = "last"

\* The averages are sums over the count; status and statistics are the last's.
buildAggregatedRecord(d, w) ==
    LET s == processElements(d, w)  last == At(d, Last(w)) IN
    [dev |-> d, ts |-> clock, route |-> s.route, count |-> s.count,
     delta_sum |-> s.delta, average |-> <<s.sensors, s.count>>,
     is_pirate |-> s.is_pirate, alarm |-> s.alarm,
     status |-> last.status, stats |-> last.stat,
     of |-> Range(w)]       \* the positions that the record stands for

------------------------------------------------------------------------------
Init ==
    /\ sent = <<>>
    /\ topic = [d \in Device |-> <<>>]
    /\ job = "running"
    /\ offset = [d \in Device |-> 0]
    /\ flight = [d \in Device |-> {}]
    /\ win = [d \in Device |-> <<>>]
    /\ clock = 0
    /\ sink = {}
    /\ table = {}
    /\ stops = 0
    /\ submits = 1

Publish(d, p) ==
    /\ Len(sent) < MaxMessages
    /\ sent' = Append(sent, [dev |-> d, payload |-> p])
    /\ UNCHANGED <<topic, job, offset, flight, win, clock, sink, table, stops, submits>>

\* A replica of the bridge writes message m.  Replicas do not wait for each
\* other and handle a device's messages concurrently.
Forward(m) ==
    LET d == sent[m].dev IN
    /\ Quantify(DOMAIN topic[d], LAMBDA i : topic[d][i] = m) < Copies
    /\ topic' = [topic EXCEPT ![d] = Append(@, m)]
    /\ UNCHANGED <<sent, job, offset, flight, win, clock, sink, table, stops, submits>>

Unfiltered(d, i) == TRUE                \* mutant of Parsed: no filter

\* What Jackson cannot read becomes the unknown device's and is filtered out.
Parsed(d, i) == At(d, i).kind # "garbled"

Read(d) ==
    LET i == offset[d] + 1 IN
    /\ job = "running"
    /\ i <= Len(topic[d])
    /\ offset' = [offset EXCEPT ![d] = i]
    /\ flight' = [flight EXCEPT ![d] = @ \cup {i}]
    /\ UNCHANGED <<sent, topic, job, win, clock, sink, table, stops, submits>>

\* Two source subtasks, four that parse, two that filter and six with windows:
\* an envelope can pass another on the way.
Arrive(d, i) ==
    /\ job = "running"
    /\ i \in flight[d]
    /\ flight' = [flight EXCEPT ![d] = @ \ {i}]
    /\ win' = IF Parsed(d, i) THEN [win EXCEPT ![d] = Append(@, i)] ELSE win
    /\ UNCHANGED <<sent, topic, job, offset, clock, sink, table, stops, submits>>

\* There is no restart strategy without checkpoints: the windows of all
\* devices, what was on its way to them and the batch are gone.
Stopped ==
    /\ job' = "stopped"
    /\ flight' = [d \in Device |-> {}]
    /\ win' = [d \in Device |-> <<>>]
    /\ sink' = {}

OnNextEnvelope(d) ==                    \* mutant of WindowIsOver: event time
    win[d] # <<>> /\ offset[d] < Len(topic[d])

\* Processing time: a window ends without another envelope's help.
WindowIsOver(d) == win[d] # <<>>

CloseWindow(d) ==
    /\ job = "running"
    /\ WindowIsOver(d) /\ ~Throws(d, win[d])
    /\ clock' = clock + 1
    /\ sink' = sink \cup {buildAggregatedRecord(d, win[d])}
    /\ win' = [win EXCEPT ![d] = <<>>]
    /\ UNCHANGED <<sent, topic, job, offset, flight, table, stops, submits>>

WindowThrows(d) ==
    /\ job = "running"
    /\ WindowIsOver(d) /\ Throws(d, win[d])
    /\ Stopped
    /\ UNCHANGED <<sent, topic, offset, clock, table, stops, submits>>

ByRoute(r, t) == r.route = t.route /\ r.dev = t.dev     \* mutant of SameKey

SameKey(r, t) == r.route = t.route /\ r.ts = t.ts /\ r.dev = t.dev

\* A batch of one of the sink's subtasks: ON CONFLICT DO UPDATE.
Flush(batch) ==
    /\ job = "running"
    /\ sink' = sink \ batch
    /\ table' = {t \in table : \A r \in batch : ~SameKey(r, t)} \cup batch
    /\ UNCHANGED <<sent, topic, job, offset, flight, win, clock, stops, submits>>

\* The cluster, or a batch that failed five times: the database is away, or it
\* does not take a record.
Die ==
    /\ job = "running"
    /\ stops < MaxStops
    /\ stops' = stops + 1
    /\ Stopped
    /\ UNCHANGED <<sent, topic, offset, clock, table, submits>>

Earliest(d) == 0                        \* mutant of StartingOffset

StartingOffset(d) == Len(topic[d])      \* OffsetsInitializer.latest()

\* Somebody starts the job's container again.
Submit ==
    /\ job = "stopped"
    /\ submits < MaxSubmits
    /\ submits' = submits + 1
    /\ job' = "running"
    /\ offset' = [d \in Device |-> StartingOffset(d)]
    /\ UNCHANGED <<sent, topic, flight, win, clock, sink, table, stops>>

Next ==
    \/ \E d \in Device, p \in Payloads : Publish(d, p)
    \/ \E m \in DOMAIN sent : Forward(m)
    \/ \E d \in Device : Read(d) \/ CloseWindow(d) \/ WindowThrows(d)
    \/ \E d \in Device : \E i \in flight[d] : Arrive(d, i)
    \/ \E batch \in SUBSET sink \ {{}} : Flush(batch)
    \/ Die
    \/ Submit

Spec == Init /\ [][Next]_vars

\* A running job reads, what it read arrives, and its batches are written within
\* 200 ms.  No window stays over while the job runs: that is weak fairness of
\* CloseWindow(d) \/ WindowThrows(d), which can step just when it is over and
\* after which it is not.
Fairness ==
    /\ \A d \in Device :
        /\ WF_vars(Read(d))
        /\ WF_vars(\E i \in flight[d] : Arrive(d, i))
        /\ []<>~(job = "running" /\ WindowIsOver(d))
    /\ WF_vars(\E batch \in SUBSET sink \ {{}} : Flush(batch))

FairSpec == Spec /\ Fairness

------------------------------------------------------------------------------
(* Properties *)

Records == table \cup sink

TypeOK ==
    /\ sent \in Seq([dev : Device, payload : Payloads])
    /\ topic \in [Device -> Seq(1 .. Len(sent))]
    /\ job \in {"running", "stopped"}
    /\ offset \in [Device -> Nat] /\ clock \in Nat
    /\ flight \in [Device -> SUBSET Nat] /\ win \in [Device -> Seq(Nat)]
    /\ \A d \in Device :
        /\ offset[d] <= Len(topic[d])
        /\ Range(win[d]) \subseteq {i \in 1 .. offset[d] : At(d, i).kind # "garbled"}
        /\ flight[d] \subseteq 1 .. offset[d]
    /\ \A r \in Records :
        r.dev \in Device /\ r.ts \in Nat /\ r.ts < clock /\ r.of \subseteq 1 .. offset[r.dev]
    /\ stops \in 0 .. MaxStops
    /\ submits \in 1 .. MaxSubmits

\* A record says of its window what its readings say, in whatever order they
\* came: nobody flagged or alarmed is passed over, nobody else is flagged, the
\* sums are over all of them, the route is one reading's, and the status and
\* the statistics are one reading's, which need not be the latest.
RecordsMatchReadings ==
    \A r \in Records :
        LET read == {i \in r.of : At(r.dev, i).kind = "reading"} IN
        /\ r.count = Cardinality(read) /\ r.count > 0
        /\ r.delta_sum = MapThenSumSet(LAMBDA i : At(r.dev, i).delta, read)
        /\ r.average = <<MapThenSumSet(LAMBDA i : At(r.dev, i).sensor, read), r.count>>
        /\ r.is_pirate = \E i \in read : At(r.dev, i).fast
        /\ r.alarm = \E i \in read : At(r.dev, i).alarm
        /\ \E i \in read : r.route = At(r.dev, i).route
        /\ \E i \in read : r.status = At(r.dev, i).status /\ r.stats = At(r.dev, i).stat

\* No position of a topic counts in two records, whatever is restarted.  (A
\* message has a position for each replica of the bridge that forwarded it.)
CountedOnce ==
    \A r, t \in Records : r.dev = t.dev /\ r # t => r.of \cap t.of = {}

Covered(d) == flight[d] \cup Range(win[d]) \cup UNION {r.of : r \in {t \in Records : t.dev = d}}

\* What was read is on its way, in a window or in a record as long as the first
\* job runs; a stop loses the windows, the batch and what is published meanwhile.
LostOnlyByStop ==
    job = "running" /\ submits = 1 =>
        \A d \in Device : \A i \in 1 .. offset[d] :
            At(d, i).kind # "garbled" => i \in Covered(d)

\* A payload that can make a window throw.
Harmful(p) == p.kind = "absent" \/ (p.kind = "reading" /\ p.flaw # "none")

\* A window stops the job only for a payload that is null or flawed, never for
\* one that could not be read, whatever it is beside and in whatever order.
StopsForCause ==
    stops = 0 /\ (job = "stopped" \/ submits > 1) =>
        \E m \in DOMAIN sent : Harmful(sent[m].payload)

Unrecorded(d) ==
    {i \in DOMAIN topic[d] : At(d, i).kind = "reading"}
        \ UNION {r.of : r \in {t \in table : t.dev = d}}

\* Again and again the table has caught up with every reading in the topics,
\* unless a stop of the job intervenes.
ReadingsAreRecorded ==
    []<>(job = "stopped" \/ submits > 1 \/ \A d \in Device : Unrecorded(d) = {})
==============================================================================
