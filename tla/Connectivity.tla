---------------------------- MODULE Connectivity ----------------------------
(***************************************************************************)
(* Who is connected (trackeroo-backend, rabbit.go and connectivity.go).    *)
(* RabbitMQ reports connections opened and closed to a durable queue that  *)
(* the watchers of all backend replicas consume.  A watcher acknowledges   *)
(* an event before it handles it, then reads one field of the device's     *)
(* status and writes the whole status back, in Redis or, when Redis did    *)
(* not answer at start, in a cache of its own.  An acknowledgement is a    *)
(* frame that nobody confirms, and a connection that dies is noticed by    *)
(* the broker and by the watcher each in its own time.                     *)
(*                                                                         *)
(* The n-th event has timestamp n.  A field never written reads as zero,   *)
(* as an absent hash key does.  Names and addresses are left out.          *)
(***************************************************************************)
EXTENDS Naturals, FiniteSets, Sequences

CONSTANTS
    Replica,
    Device,
    MaxEvents,      \* bound: events reported
    MaxFaults       \* bound: replicas that die, AMQP connections lost and
                    \* Redis commands without an answer, together

ASSUME ConnectivityAssumption ==
    MaxEvents \in Nat /\ MaxFaults \in Nat

VARIABLES
    bound,      \* device_conn_events is declared and bound
    emitted,    \* the events reported since, in order
    queue,      \* the events waiting in it
    unacked,    \* replica -> the events delivered to it that the broker has no
                \* acknowledgement of
    stale,      \* the same of each dead connection that the broker has not noticed
    svc,        \* replica -> "down", "dialing", "consuming", or "cut": its
                \* connection is dead and it has not noticed
    mode,       \* replica -> where SetDeviceStatus writes: "redis" or "cache"
    got,        \* replica -> events delivered to msgs and not received from it
    pc,         \* replica -> where its watcher is in the handling of an event
    ev,         \* replica -> the event in hand
    other,      \* replica -> the field that was read
    redis,      \* device -> status
    cache,      \* replica -> device -> status
    written,    \* the events handled, in the order of their writes
    crashes,        \* replicas that died, SIGTERM included
    disconnects,    \* AMQP connections lost
    errors          \* Redis commands that returned an error

brokerVars == <<bound, emitted, queue, unacked, stale>>
watcherVars == <<pc, ev, other>>
statusVars == <<redis, cache, written>>
vars == <<brokerVars, svc, mode, got, watcherVars, statusVars,
          crashes, disconnects, errors>>

None == 0
Event == [dev : Device, connected : BOOLEAN]
Status == [connected : BOOLEAN,
           last_connection : 0 .. MaxEvents, last_disconnection : 0 .. MaxEvents]
Unknown == [connected |-> FALSE, last_connection |-> 0, last_disconnection |-> 0]

Elements(s) == {s[i] : i \in DOMAIN s}

\* A replica for whose first ping Redis did not answer counts while it lives.
FaultsLeft ==
    crashes + disconnects + errors
        + Cardinality({r \in Replica : mode[r] = "cache"}) < MaxFaults

------------------------------------------------------------------------------
Init ==
    /\ bound = FALSE
    /\ emitted = <<>>
    /\ queue = {}
    /\ unacked = [r \in Replica |-> {}]
    /\ stale = {}
    /\ svc = [r \in Replica |-> "down"]
    /\ mode = [r \in Replica |-> "redis"]
    /\ got = [r \in Replica |-> <<>>]
    /\ pc = [r \in Replica |-> "loop"]
    /\ ev = [r \in Replica |-> None]
    /\ other = [r \in Replica |-> 0]
    /\ redis = [d \in Device |-> Unknown]
    /\ cache = [r \in Replica |-> [d \in Device |-> Unknown]]
    /\ written = <<>>
    /\ crashes = 0
    /\ disconnects = 0
    /\ errors = 0

(* RabbitMQ *)

\* A connection of d is created or closed.  A device's new connection may be
\* reported before its old one is closed, so any order is possible.  What
\* happens before the queue is bound is reported to nobody.
Report(d, connected) ==
    /\ bound
    /\ Len(emitted) < MaxEvents
    /\ emitted' = Append(emitted, [dev |-> d, connected |-> connected])
    /\ queue' = queue \cup {Len(emitted) + 1}
    /\ UNCHANGED <<bound, unacked, stale, svc, mode, got, watcherVars, statusVars,
                   crashes, disconnects, errors>>

QueuePerReplica(r) ==                   \* mutant of HandOut: a queue each
    /\ svc[r] = "consuming"
    /\ \E n \in queue :
        /\ \A m \in queue : n <= m
        /\ unacked' = [unacked EXCEPT ![r] = @ \cup {n}]
        /\ got' = [got EXCEPT ![r] = Append(@, n)]
    /\ UNCHANGED <<bound, emitted, queue, stale, svc, mode, watcherVars, statusVars,
                   crashes, disconnects, errors>>

\* Deliveries are not limited by a prefetch count.
HandOut(r) ==
    /\ svc[r] = "consuming"
    /\ \E n \in queue :
        /\ \A m \in queue : n <= m
        /\ queue' = queue \ {n}
        /\ unacked' = [unacked EXCEPT ![r] = @ \cup {n}]
        /\ got' = [got EXCEPT ![r] = Append(@, n)]
    /\ UNCHANGED <<bound, emitted, stale, svc, mode, watcherVars, statusVars,
                   crashes, disconnects, errors>>

\* What was delivered and is not acknowledged yet.
Pending(r) == Elements(got[r]) \cup (IF pc[r] = "ack" THEN {ev[r]} ELSE {})

\* The frame of an acknowledgement reaches the broker.
AckArrives(r) ==
    /\ \E n \in unacked[r] \ Pending(r) : unacked' = [unacked EXCEPT ![r] = @ \ {n}]
    /\ UNCHANGED <<bound, emitted, queue, stale, svc, mode, got, watcherVars, statusVars,
                   crashes, disconnects, errors>>

AutoAck(r) == {}                        \* mutant of Unsettled: auto-ack

Unsettled(r) == unacked[r]

\* A connection dies, with the frames that are under way.
CutOff(r) ==
    /\ stale' = stale \cup ({Unsettled(r)} \ {{}})
    /\ unacked' = [unacked EXCEPT ![r] = {}]

\* The broker notices: what it has no acknowledgement of goes back to its place
\* in the queue, handled or not.
Requeue ==
    /\ \E s \in stale : queue' = queue \cup s /\ stale' = stale \ {s}
    /\ UNCHANGED <<bound, emitted, unacked, svc, mode, got, watcherVars, statusVars,
                   crashes, disconnects, errors>>

------------------------------------------------------------------------------
(* Replicas *)

\* InitConnectivityCache pings Redis once; StartRabbitWatcher.
Start(r) ==
    /\ svc[r] = "down"
    /\ svc' = [svc EXCEPT ![r] = "dialing"]
    /\ \/ mode' = [mode EXCEPT ![r] = "redis"]
       \/ FaultsLeft /\ mode' = [mode EXCEPT ![r] = "cache"]
    /\ UNCHANGED <<brokerVars, got, watcherVars, statusVars,
                   crashes, disconnects, errors>>

Exclusive(r) ==                         \* mutant of Dial: an exclusive queue
    /\ svc[r] = "dialing" /\ pc[r] = "loop"
    /\ ~bound
    /\ svc' = [svc EXCEPT ![r] = "consuming"]
    /\ bound' = TRUE
    /\ UNCHANGED <<emitted, queue, unacked, stale, mode, got, watcherVars, statusVars,
                   crashes, disconnects, errors>>

\* Dial, declare, bind and consume; an error in between is another round of
\* the outer loop.
Dial(r) ==
    /\ svc[r] = "dialing" /\ pc[r] = "loop"
    /\ svc' = [svc EXCEPT ![r] = "consuming"]
    /\ bound' = TRUE
    /\ UNCHANGED <<emitted, queue, unacked, stale, mode, got, watcherVars, statusVars,
                   crashes, disconnects, errors>>

\* The AMQP connection is lost.  The watcher goes on with what it was given,
\* and its acknowledgements go nowhere.
Disconnect(r) ==
    /\ svc[r] = "consuming"
    /\ FaultsLeft
    /\ disconnects' = disconnects + 1
    /\ svc' = [svc EXCEPT ![r] = "cut"]
    /\ CutOff(r)
    /\ UNCHANGED <<bound, emitted, queue, mode, got, watcherVars, statusVars, crashes, errors>>

\* The client closes msgs and drops what is in it; the loop breaks.
Notice(r) ==
    /\ svc[r] = "cut" /\ pc[r] = "loop"
    /\ svc' = [svc EXCEPT ![r] = "dialing"]
    /\ got' = [got EXCEPT ![r] = <<>>]
    /\ UNCHANGED <<brokerVars, mode, watcherVars, statusVars,
                   crashes, disconnects, errors>>

\* A replica dies, or main returns after SIGTERM, which waits for no watcher.
Crash(r) ==
    /\ svc[r] # "down"
    /\ FaultsLeft
    /\ crashes' = crashes + 1
    /\ svc' = [svc EXCEPT ![r] = "down"]
    /\ mode' = [mode EXCEPT ![r] = "redis"]
    /\ CutOff(r)
    /\ got' = [got EXCEPT ![r] = <<>>]
    /\ pc' = [pc EXCEPT ![r] = "loop"]
    /\ ev' = [ev EXCEPT ![r] = None]
    /\ other' = [other EXCEPT ![r] = 0]
    /\ cache' = [cache EXCEPT ![r] = [d \in Device |-> Unknown]]
    /\ UNCHANGED <<bound, emitted, queue, redis, written, disconnects, errors>>

------------------------------------------------------------------------------
(* The watcher's loop over msgs *)

AnyMessage(r) ==                        \* mutant of Receive: a goroutine for each
    /\ pc[r] = "loop"
    /\ \E i \in DOMAIN got[r] :
        /\ ev' = [ev EXCEPT ![r] = got[r][i]]
        /\ got' = [got EXCEPT ![r] = SubSeq(@, 1, i - 1) \o SubSeq(@, i + 1, Len(@))]
    /\ pc' = [pc EXCEPT ![r] = "ack"]
    /\ UNCHANGED <<brokerVars, svc, mode, other, statusVars,
                   crashes, disconnects, errors>>

Receive(r) ==
    /\ pc[r] = "loop"
    /\ got[r] # <<>>
    /\ ev' = [ev EXCEPT ![r] = Head(got[r])]
    /\ got' = [got EXCEPT ![r] = Tail(@)]
    /\ pc' = [pc EXCEPT ![r] = "ack"]
    /\ UNCHANGED <<brokerVars, svc, mode, other, statusVars,
                   crashes, disconnects, errors>>

\* msg.Ack(false) writes a frame, before the event is handled; that it could
\* not be written is ignored.
Ack(r) ==
    /\ pc[r] = "ack"
    /\ pc' = [pc EXCEPT ![r] = "read"]
    /\ UNCHANGED <<brokerVars, svc, mode, got, ev, other, statusVars,
                   crashes, disconnects, errors>>

\* SetDeviceStatus, in two steps that other replicas can come between.
InHand(r) == emitted[ev[r]]
Stored(r) == IF mode[r] = "redis" THEN redis[InHand(r).dev] ELSE cache[r][InHand(r).dev]

SameField(r) ==                         \* mutant of Read: the other field is not read
    /\ pc[r] = "read"
    /\ other' = [other EXCEPT ![r] =
                    IF InHand(r).connected THEN Stored(r).last_connection
                                           ELSE Stored(r).last_disconnection]
    /\ pc' = [pc EXCEPT ![r] = "write"]
    /\ UNCHANGED <<brokerVars, svc, mode, got, ev, statusVars,
                   crashes, disconnects, errors>>

\* The time that this event does not set is kept.
Read(r) ==
    /\ pc[r] = "read"
    /\ other' = [other EXCEPT ![r] =
                    IF InHand(r).connected THEN Stored(r).last_disconnection
                                           ELSE Stored(r).last_connection]
    /\ pc' = [pc EXCEPT ![r] = "write"]
    /\ UNCHANGED <<brokerVars, svc, mode, got, ev, statusVars,
                   crashes, disconnects, errors>>

\* HGet returns an error: a warning, and the time is written as zero.
ReadFails(r) ==
    /\ pc[r] = "read" /\ mode[r] = "redis"
    /\ FaultsLeft
    /\ errors' = errors + 1
    /\ other' = [other EXCEPT ![r] = 0]
    /\ pc' = [pc EXCEPT ![r] = "write"]
    /\ UNCHANGED <<brokerVars, svc, mode, got, ev, statusVars, crashes, disconnects>>

Handled(r) ==
    /\ pc' = [pc EXCEPT ![r] = "loop"]
    /\ ev' = [ev EXCEPT ![r] = None]
    /\ other' = [other EXCEPT ![r] = 0]
    /\ UNCHANGED <<brokerVars, svc, mode, got, crashes, disconnects>>

NewStatus(r) ==
    IF InHand(r).connected
    THEN [connected |-> TRUE,
          last_connection |-> ev[r], last_disconnection |-> other[r]]
    ELSE [connected |-> FALSE,
          last_connection |-> other[r], last_disconnection |-> ev[r]]

Write(r) ==
    /\ pc[r] = "write"
    /\ IF mode[r] = "redis"
       THEN redis' = [redis EXCEPT ![InHand(r).dev] = NewStatus(r)] /\ UNCHANGED cache
       ELSE cache' = [cache EXCEPT ![r][InHand(r).dev] = NewStatus(r)] /\ UNCHANGED redis
    /\ written' = Append(written, ev[r])
    /\ Handled(r)
    /\ UNCHANGED errors

\* HSet returns an error that nobody looks at.
WriteFails(r) ==
    /\ pc[r] = "write" /\ mode[r] = "redis"
    /\ FaultsLeft
    /\ errors' = errors + 1
    /\ Handled(r)
    /\ UNCHANGED statusVars

------------------------------------------------------------------------------
Watcher(r) ==
    \/ Receive(r)
    \/ Ack(r)
    \/ Read(r)
    \/ ReadFails(r)
    \/ Write(r)
    \/ WriteFails(r)

Next ==
    \/ \E d \in Device, connected \in BOOLEAN : Report(d, connected)
    \/ Requeue
    \/ \E r \in Replica :
        \/ Start(r)
        \/ Dial(r)
        \/ HandOut(r)
        \/ AckArrives(r)
        \/ Watcher(r)
        \/ Disconnect(r)
        \/ Notice(r)
        \/ Crash(r)

Spec == Init /\ [][Next]_vars

\* Pods are restarted, the broker accepts connections and delivers, goroutines
\* are scheduled, a frame arrives unless its connection dies, and heartbeats
\* make both ends notice that.  Nothing has to connect or to fail.
Fairness ==
    /\ \A r \in Replica :
        /\ WF_vars(Start(r))
        /\ WF_vars(Dial(r))
        /\ WF_vars(Watcher(r))
        /\ WF_vars(AckArrives(r))
        /\ WF_vars(Notice(r))
    /\ WF_vars(Requeue)
    /\ WF_vars(\E r \in Replica : HandOut(r))

FairSpec == Spec /\ Fairness

------------------------------------------------------------------------------
(* Properties *)

Position == {"loop", "ack", "read", "write"}
Reported == 1 .. Len(emitted)

TypeOK ==
    /\ bound \in BOOLEAN
    /\ emitted \in Seq(Event)
    /\ Len(emitted) <= MaxEvents
    /\ queue \subseteq Reported
    /\ unacked \in [Replica -> SUBSET Reported]
    /\ stale \subseteq SUBSET Reported
    /\ svc \in [Replica -> {"down", "dialing", "consuming", "cut"}]
    /\ mode \in [Replica -> {"redis", "cache"}]
    /\ got \in [Replica -> Seq(Reported)]
    /\ pc \in [Replica -> Position]
    /\ ev \in [Replica -> Reported \cup {None}]
    /\ \A r \in Replica : pc[r] # "loop" => ev[r] # None
    /\ other \in [Replica -> 0 .. MaxEvents]
    /\ redis \in [Device -> Status]
    /\ cache \in [Replica -> [Device -> Status]]
    /\ written \in Seq(Reported)
    /\ {crashes, disconnects, errors} \subseteq Nat

WrittenEvents == Elements(written)

\* Events that are nowhere any more and were never written to a status.
Lost ==
    Reported \ (queue \cup WrittenEvents \cup (UNION stale)
                \cup UNION {unacked[r] \cup Elements(got[r]) \cup {ev[r]} : r \in Replica})

\* An event acknowledged before it is handled (rabbit.go:131) is lost with the
\* replica that holds it: one for each crash, and one for each Redis error;
\* dead connections and events still in msgs lose none.
LostOnlyByFault == Cardinality(Lost) <= crashes + errors

\* How often an event was handled.
Times(n) == Cardinality({i \in DOMAIN written : written[i] = n})

\* An event is handled again only because the connection died over which it was
\* delivered, by itself or with its replica: once at most for each, although a
\* dead connection can take any number of acknowledgements with it, and although
\* the watcher goes on with what it was given while another has it again.
RepeatedOnlyByFault ==
    \A n \in Reported : Times(n) <= 1 + disconnects + crashes

\* The times in every status are those of events of that device and kind,
\* although a status is assembled from a read and an event and other replicas
\* write in between.
TimesAreReal ==
    \A s \in {redis} \cup {cache[r] : r \in Replica}, d \in Device :
        /\ s[d].last_connection # 0 =>
            emitted[s[d].last_connection] = [dev |-> d, connected |-> TRUE]
        /\ s[d].last_disconnection # 0 =>
            emitted[s[d].last_disconnection] = [dev |-> d, connected |-> FALSE]

\* The status that the events written so far, handled in order, give a device.
Latest(S) == IF S = {} THEN None ELSE CHOOSE n \in S : \A m \in S : m <= n
StatusOf(d) ==
    LET events == {n \in WrittenEvents : emitted[n].dev = d}
        opened == {n \in events : emitted[n].connected}
    IN  [connected |-> Latest(events) \in opened,
         last_connection |-> Latest(opened), last_disconnection |-> Latest(events \ opened)]

\* A lone watcher's statuses are those of the events in their order: a later
\* event is handled before an earlier one (rabbit.go:149), or a time is lost,
\* only where a second replica consumes, or after a fault.
LoneWatcherIsExact ==
    \A r \in Replica :
        /\ \A o \in Replica \ {r} : svc[o] = "down"
        /\ crashes + disconnects + errors = 0
        => \A d \in Device :
            (IF mode[r] = "redis" THEN redis[d] ELSE cache[r][d]) = StatusOf(d)

\* Every event in the queue is handled in the end or falls to a fault.
EventsAreHandled ==
    \A n \in 1 .. MaxEvents :
        n \in queue ~> n \in WrittenEvents \/ n \in Lost
==============================================================================
