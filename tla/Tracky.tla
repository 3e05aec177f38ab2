------------------------------- MODULE Tracky -------------------------------
(***************************************************************************)
(* The device agent: one process whose main loop enqueues readings in the  *)
(* persistent queue, an Agent goroutine that publishes them over MQTT, a   *)
(* TdmClient goroutine that opens the connection and a TaskManager that    *)
(* watches both.  A panic of the main loop is recovered and starts a new   *)
(* round, with a TaskManager, client and Agent of its own, on the same     *)
(* queue file and the same MQTT client id; the goroutines of earlier       *)
(* rounds are still there.                                                 *)
(*                                                                         *)
(* Time is a tick of about a second: long enough for every goroutine that  *)
(* is not blocked to go round its loop once and kick, so a tick ages only  *)
(* the tasks that are stuck.                                               *)
(***************************************************************************)
EXTENDS Naturals, FiniteSets, Sequences

CONSTANTS
    MaxRows,    \* bound: readings enqueued over all restarts
    MaxRounds,  \* bound: rounds of the main loop in one process
    MaxStarts,  \* bound: times the process is started
    MaxDrops,   \* bound: connections lost, takeovers included
    Wtd         \* ticks without a kick that the watchdog tolerates

ASSUME TrackyAssumption ==
    /\ MaxRows \in Nat
    /\ MaxRounds \in Nat \ {0}
    /\ MaxStarts \in Nat
    /\ MaxDrops \in Nat
    /\ Wtd \in Nat \ {0}

Round == 1 .. MaxRounds
Row == 1 .. MaxRows
Nobody == 0                     \* an Agent holding no row
Task == {"MQTT", "Agent"}

VARIABLES
    table, seq,     \* the queue file (PersistentQueue)
    starts,         \* times the process was started
    up,             \* the process is running
    round,          \* round of the main loop
    recovering,     \* the main loop panicked and runLoop's recover is running
    tm,             \* round -> its TaskManager: "off", "running", "stopping"
    resetting,      \* round -> Terminate called Reset on its TaskManager
    pc,             \* round -> where its Agent is
    holds,          \* round -> the row its Agent dequeued
    conn,           \* round -> its MQTT client's connection
    out,            \* round -> the PUBLISH in the client's outbound store
    age,            \* round -> task -> ticks since its last kick
    drops,          \* connections lost so far
    published       \* ids in the order in which the broker accepted them

queueVars == <<table, seq>>
procVars == <<starts, up, round, recovering, tm, resetting>>
agentVars == <<pc, holds>>
netVars == <<conn, out, drops, published>>
vars == <<queueVars, procVars, agentVars, netVars, age>>

Held == {holds[r] : r \in Round} \ {Nobody}

Q == INSTANCE PersistentQueue WITH held <- Held

\* paho's IsConnected with auto-reconnect: true while it is reconnecting, and
\* so while the broker refuses every attempt.
IsConnected(r) == conn[r] \in {"connected", "reconnecting", "refused"}

Alive(r) == up /\ tm[r] # "off"

\* Agent.run has left the loop on `running`: the TaskManager killed it.
Killed(r) == tm[r] = "stopping"

------------------------------------------------------------------------------
(* The process *)

Init ==
    /\ table = [id \in {} |-> Q!WAITING]
    /\ seq = 0
    /\ starts = 0
    /\ up = FALSE
    /\ round = 0
    /\ recovering = FALSE
    /\ tm = [r \in Round |-> "off"]
    /\ resetting = [r \in Round |-> FALSE]
    /\ pc = [r \in Round |-> "off"]
    /\ holds = [r \in Round |-> Nobody]
    /\ conn = [r \in Round |-> "off"]
    /\ out = [r \in Round |-> "none"]
    /\ age = [r \in Round |-> [t \in Task |-> 0]]
    /\ drops = 0
    /\ published = <<>>

\* Init() of firmware.go: open the queue, build and start round r's tasks.
InitRound(r) ==
    /\ round' = r
    /\ Q!InitQueue
    /\ tm' = [tm EXCEPT ![r] = "running"]
    /\ pc' = [pc EXCEPT ![r] = "loop"]
    /\ conn' = [conn EXCEPT ![r] = "connecting"]
    /\ recovering' = FALSE

Start ==
    /\ ~up
    /\ starts < MaxStarts
    /\ up' = TRUE
    /\ starts' = starts + 1
    /\ InitRound(1)
    /\ UNCHANGED <<resetting, holds, out, age, drops, published>>

\* Loop() of firmware.go enqueues a reading.
Reading ==
    /\ up /\ ~recovering
    /\ Q!EnqueueData
    /\ UNCHANGED <<procVars, agentVars, netVars, age>>

\* A panic in Init or Loop; the deferred recover calls Terminate, whose
\* Shutdown only sets the TaskManager's own resetting flag, which Start never
\* reads: it asks the tasks for theirs.
LoopPanic ==
    /\ up /\ ~recovering
    /\ recovering' = TRUE
    /\ resetting' = [resetting EXCEPT ![round] = TRUE]
    /\ UNCHANGED <<queueVars, starts, up, round, tm, agentVars, netVars, age>>

\* "Terminated task manager, waiting...", two seconds, and main's next round.
NextRound ==
    /\ up /\ recovering
    /\ round < MaxRounds
    /\ InitRound(round + 1)
    /\ UNCHANGED <<starts, up, resetting, holds, out, age, drops, published>>

\* The process ends and its memory with it; the file and the broker remain.
Die ==
    /\ up' = FALSE
    /\ round' = 0
    /\ recovering' = FALSE
    /\ tm' = [r \in Round |-> "off"]
    /\ resetting' = [r \in Round |-> FALSE]
    /\ pc' = [r \in Round |-> "off"]
    /\ holds' = [r \in Round |-> Nobody]
    /\ conn' = [r \in Round |-> "off"]
    /\ out' = [r \in Round |-> "none"]
    /\ age' = [r \in Round |-> [t \in Task |-> 0]]
    /\ UNCHANGED <<queueVars, starts, drops, published>>

\* A crash, or SIGTERM: Terminate stops nothing and os.Exit(0) follows.
Crash == up /\ Die

------------------------------------------------------------------------------
(* The Agent of round r (agent.go) *)

PeekOnly(r) ==                          \* mutant of AgentDequeue: no status update
    /\ Alive(r) /\ ~Killed(r)
    /\ pc[r] = "loop"
    /\ IsConnected(r)
    /\ \E id \in Q!RowsIn(Q!WAITING) : holds' = [holds EXCEPT ![r] = id]
    /\ pc' = [pc EXCEPT ![r] = "publish"]
    /\ UNCHANGED <<queueVars, procVars, netVars, age>>

AckedWhenTaken(r) ==                    \* mutant of AgentDequeue: the order swapped
    /\ Alive(r) /\ ~Killed(r)
    /\ pc[r] = "loop"
    /\ IsConnected(r)
    /\ \E id \in Q!RowsIn(Q!WAITING) :
        /\ Q!Ack(id)
        /\ holds' = [holds EXCEPT ![r] = id]
    /\ pc' = [pc EXCEPT ![r] = "publish"]
    /\ UNCHANGED <<procVars, netVars, age>>

LastRowWaits(r) ==                      \* mutant of AgentDequeue: size off by one
    /\ Alive(r) /\ ~Killed(r)
    /\ pc[r] = "loop"
    /\ IsConnected(r)
    /\ Q!Size > 1
    /\ \E id \in Q!RowsIn(Q!WAITING) :
        /\ Q!DequeueData(id)
        /\ holds' = [holds EXCEPT ![r] = id]
    /\ pc' = [pc EXCEPT ![r] = "publish"]
    /\ UNCHANGED <<procVars, netVars, age>>

\* One turn of the loop with a connection and a row.  Size and DequeueData
\* are two transactions: when another round's Agent empties the queue between
\* them the turn ends with Ack(-1), which matches no row.
AgentDequeue(r) ==
    /\ Alive(r) /\ ~Killed(r)
    /\ pc[r] = "loop"
    /\ IsConnected(r)
    /\ Q!Size > 0
    /\ \E id \in Q!RowsIn(Q!WAITING) :
        /\ Q!DequeueData(id)
        /\ holds' = [holds EXCEPT ![r] = id]
    /\ pc' = [pc EXCEPT ![r] = "publish"]
    /\ UNCHANGED <<procVars, netVars, age>>

NoWait(r) ==                            \* mutant of AgentPublish: no token.Wait
    /\ pc[r] = "publish"
    /\ out' = [out EXCEPT ![r] = IF conn[r] = "connected" THEN "wire" ELSE "stored"]
    /\ pc' = [pc EXCEPT ![r] = "ack"]
    /\ UNCHANGED <<queueVars, procVars, holds, conn, drops, published, age>>

\* client.Publish stores the packet and, when connected, hands it to the
\* connection; while reconnecting it is only stored.  Then token.Wait.
AgentPublish(r) ==
    /\ pc[r] = "publish"
    /\ out' = [out EXCEPT ![r] = IF conn[r] = "connected" THEN "wire" ELSE "stored"]
    /\ pc' = [pc EXCEPT ![r] = "wait"]
    /\ UNCHANGED <<queueVars, procVars, holds, conn, drops, published, age>>

GiveUpOnError(r) ==                     \* mutant of AgentPublishFails
    /\ pc[r] = "publish"
    /\ conn[r] = "connected"
    /\ out' = [out EXCEPT ![r] = "stored"]
    /\ pc' = [pc EXCEPT ![r] = "loop"]
    /\ holds' = [holds EXCEPT ![r] = Nobody]
    /\ UNCHANGED <<queueVars, procVars, conn, drops, published, age>>

\* The connection's writer did not take the packet within paho's 30 s: the
\* token fails, the packet stays in the store, and the `for err := ...` loop
\* begins, whose condition never changes again.
AgentPublishFails(r) ==
    /\ pc[r] = "publish"
    /\ conn[r] = "connected"
    /\ out' = [out EXCEPT ![r] = "stored"]
    /\ pc' = [pc EXCEPT ![r] = "retry"]
    /\ UNCHANGED <<queueVars, procVars, holds, conn, drops, published, age>>

UnackedAfterPublish(r) ==               \* mutant of AgentAck: the wrong call
    /\ pc[r] = "ack"
    /\ Q!Unack(holds[r])
    /\ holds' = [holds EXCEPT ![r] = Nobody]
    /\ pc' = [pc EXCEPT ![r] = "loop"]
    /\ UNCHANGED <<procVars, netVars, age>>

\* Ack("data", id); its error is ignored and leaves the row dequeued.
AgentAck(r) ==
    /\ pc[r] = "ack"
    /\ Q!Ack(holds[r]) \/ UNCHANGED queueVars
    /\ holds' = [holds EXCEPT ![r] = Nobody]
    /\ pc' = [pc EXCEPT ![r] = "loop"]
    /\ UNCHANGED <<procVars, netVars, age>>

AgentExit(r) ==
    /\ Killed(r)
    /\ pc[r] = "loop"
    /\ pc' = [pc EXCEPT ![r] = "done"]
    /\ UNCHANGED <<queueVars, procVars, holds, netVars, age>>

------------------------------------------------------------------------------
(* The MQTT client of round r (mqtt.go, paho) and the broker *)

\* The packet goes back to the store when the connection under it is lost.
Unsent(r) == IF out[r] = "none" THEN "none" ELSE "stored"

ConnLost(r) ==
    /\ conn[r] = "connected"
    /\ drops < MaxDrops
    /\ drops' = drops + 1
    /\ conn' = [conn EXCEPT ![r] = "reconnecting"]
    /\ out' = [out EXCEPT ![r] = Unsent(r)]
    /\ UNCHANGED <<queueVars, procVars, agentVars, published, age>>

\* connect() of TdmClient.run, or paho's own reconnect: the stored packet is
\* resent.  Every round's client uses the same client id, so the broker
\* closes the connection another round's client has.
Connect(r) ==
    /\ conn[r] \in {"connecting", "reconnecting"}
    /\ LET others == {o \in Round : conn[o] = "connected"} IN
        /\ drops + Cardinality(others) <= MaxDrops
        /\ drops' = drops + Cardinality(others)
        /\ conn' = [o \in Round |->
                        IF o = r THEN "connected"
                        ELSE IF o \in others THEN "reconnecting" ELSE conn[o]]
        /\ out' = [o \in Round |->
                        IF o = r /\ out[o] = "stored" THEN "wire"
                        ELSE IF o \in others THEN Unsent(o) ELSE out[o]]
    /\ UNCHANGED <<queueVars, procVars, agentVars, published, age>>

\* The token that initClient made is good for 200 seconds (mqtt.go:184), and
\* paho reconnects with it for ever: once it has expired every CONNECT is
\* refused, and run, which asks IsConnected, does not make another client.
TokenExpires(r) ==
    /\ conn[r] = "reconnecting"
    /\ conn' = [conn EXCEPT ![r] = "refused"]
    /\ UNCHANGED <<queueVars, procVars, agentVars, out, drops, published, age>>

\* The packet is the held row's: an Agent lets go of its row only after the
\* PUBACK has emptied the store.
BrokerAccept(r) ==
    /\ conn[r] = "connected"
    /\ out[r] = "wire"
    /\ out' = [out EXCEPT ![r] = "accepted"]
    /\ published' = Append(published, holds[r])
    /\ UNCHANGED <<queueVars, procVars, agentVars, conn, drops, age>>

\* The PUBACK completes the token; only token.Wait is there to notice.
PubAck(r) ==
    /\ conn[r] = "connected"
    /\ out[r] = "accepted"
    /\ out' = [out EXCEPT ![r] = "none"]
    /\ pc' = [pc EXCEPT ![r] = IF pc[r] = "wait" THEN "ack" ELSE pc[r]]
    /\ UNCHANGED <<queueVars, procVars, holds, conn, drops, published, age>>

------------------------------------------------------------------------------
(* Time and the watchdog (task.go, task_manager.go) *)

ClientKicksAlways(r, t) ==              \* mutant of Kicks
    \/ t = "Agent" /\ pc[r] \in {"loop", "wait", "retry"}
    \/ t = "MQTT" /\ IsConnected(r)

\* Whether the task's loop comes round to its Kick within a tick: the Agent
\* in its outer loop or in the retry loop, the client once IsConnected.
Kicks(r, t) ==
    \/ t = "Agent" /\ pc[r] \in {"loop", "retry"}
    \/ t = "MQTT" /\ IsConnected(r)

Older(n) == IF n > Wtd THEN n ELSE n + 1

Tick ==
    /\ up
    /\ age' = [r \in Round |-> [t \in Task |->
                    IF Alive(r) /\ ~Kicks(r, t) THEN Older(age[r][t]) ELSE 0]]
    /\ UNCHANGED <<queueVars, procVars, agentVars, netVars>>

\* The TaskManager's turn: it leaves its loop and kills its own tasks.
Watchdog(r) ==
    /\ up
    /\ tm[r] = "running"
    /\ \E t \in Task : age[r][t] > Wtd
    /\ tm' = [tm EXCEPT ![r] = "stopping"]
    /\ UNCHANGED <<queueVars, starts, up, round, recovering, resetting,
                   agentVars, netVars, age>>

\* Five seconds later it panics in a goroutine that nothing recovers.
WatchdogPanic(r) == tm[r] = "stopping" /\ Die

------------------------------------------------------------------------------
Next ==
    \/ Start
    \/ Reading
    \/ LoopPanic
    \/ NextRound
    \/ Crash
    \/ \E r \in Round :
        \/ AgentDequeue(r)
        \/ AgentPublish(r)
        \/ AgentPublishFails(r)
        \/ AgentAck(r)
        \/ AgentExit(r)
        \/ ConnLost(r)
        \/ Connect(r)
        \/ TokenExpires(r)
        \/ BrokerAccept(r)
        \/ PubAck(r)
        \/ Watchdog(r)
        \/ WatchdogPanic(r)
    \/ Tick

Spec == Init /\ [][Next]_vars

\* The process's goroutines are scheduled and time passes.  Nothing makes the
\* main loop read, panic or start again, and nothing is owed by the broker.
GoroutineFairness ==
    /\ WF_vars(Tick)
    /\ \A r \in Round :
        /\ WF_vars(AgentDequeue(r))
        /\ WF_vars(AgentPublish(r) \/ AgentPublishFails(r))
        /\ WF_vars(AgentAck(r))
        /\ WF_vars(AgentExit(r))
        /\ WF_vars(Watchdog(r))
        /\ WF_vars(WatchdogPanic(r))

\* The broker can be reached again after at most MaxDrops losses, and answers.
BrokerFairness ==
    \A r \in Round :
        /\ WF_vars(Connect(r))
        /\ WF_vars(BrokerAccept(r))
        /\ WF_vars(PubAck(r))

FairSpec == Spec /\ GoroutineFairness
ReachableSpec == FairSpec /\ BrokerFairness

------------------------------------------------------------------------------
(* Properties *)

AcceptedRows == {published[i] : i \in 1 .. Len(published)}

TypeOK ==
    /\ Q!TypeOK
    /\ starts \in 0 .. MaxStarts
    /\ up \in BOOLEAN
    /\ round \in 0 .. MaxRounds
    /\ recovering \in BOOLEAN
    /\ tm \in [Round -> {"off", "running", "stopping"}]
    /\ resetting \in [Round -> BOOLEAN]
    /\ pc \in [Round -> {"off", "loop", "publish", "wait", "retry", "ack", "done"}]
    /\ holds \in [Round -> Row \cup {Nobody}]
    /\ conn \in [Round -> {"off", "connecting", "connected", "reconnecting", "refused"}]
    /\ out \in [Round -> {"none", "stored", "wire", "accepted"}]
    /\ age \in [Round -> [Task -> 0 .. Wtd + 1]]
    /\ drops \in 0 .. MaxDrops
    /\ published \in Seq(Row)

\* The Agent acks a row (agent.go:40) only after the broker accepted it: no
\* reading leaves the queue unpublished, whatever crashes, rounds and lost
\* connections come in between.
AckedWasPublished == Q!RowsIn(Q!ACKED) \subseteq AcceptedRows

\* What a dead process leaves behind: rows marked dequeued that were never
\* published and that no Agent holds.  DequeueData selects status 0 only, so
\* nobody takes them again.
Stranded == (Q!RowsIn(Q!TAKEN) \ Held) \ AcceptedRows

\* Readings are stranded only by the death of the process, and each death
\* strands at most the one row that each round's Agent had in hand.
LossPerDeathIsBounded ==
    Cardinality(Stranded) <= MaxRounds * (IF up THEN starts - 1 ELSE starts)

\* A row is accepted by the broker more than once only for a connection that
\* was lost between the broker's acceptance and the PUBACK.
DuplicatesNeedDrops ==
    Len(published) - Cardinality(AcceptedRows) <= drops

\* Until the main loop panics, the broker sees readings in the order they were
\* taken, even across restarts, resent packets and publishes that failed
\* locally.
PublishedInOrder ==
    [][published' # published /\ round = 1 =>
            \A i \in DOMAIN published :
                published[i] <= published'[Len(published')]]_vars

\* An acked reading is never accepted by the broker afterwards: no packet of
\* it is left in a client's store when its row is acked.
NoPublishAfterAck ==
    [][published' # published =>
            published'[Len(published')] \notin Q!RowsIn(Q!ACKED)]_vars

\* Agents of all rounds together use the queue file as its callers must.
UsesQueueWell == Q!Spec

\* An Agent blocked in token.Wait (mqtt.go:197) does not stay there for ever:
\* the PUBACK arrives, or its missing kicks end the process, even with a
\* broker that never answers.
PublishNeverHangs ==
    \A r \in Round : pc[r] = "wait" ~> pc[r] # "wait"

\* With a broker that can be reached in the end, a reading in the queue of a
\* running process is published, unless the process dies first or its Agent
\* entered the retry loop.
ReadingsArePublished ==
    BrokerFairness =>
        \A id \in Row :
            up /\ id \in Q!RowsIn(Q!WAITING)
                ~> \/ id \in AcceptedRows
                   \/ ~up
                   \/ \E r \in Round : pc[r] = "retry"

\* "Cannot publish ...  Retrying..." (agent.go:36): after a failed publish the
\* Agent tries again.
FailedPublishIsRetried ==
    \A r \in Round : pc[r] = "retry" ~> pc[r] # "retry"
==============================================================================
