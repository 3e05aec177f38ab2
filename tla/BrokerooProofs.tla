--------------------------- MODULE BrokerooProofs ---------------------------
(***************************************************************************)
(* Safety of the bridge for any number of replicas, messages, devices and  *)
(* faults.  The order of messageHandler's calls is carried by DoneSoFar:   *)
(* what each running handler has behind it.                                *)
(***************************************************************************)
EXTENDS Brokeroo, TLAPS

PastInsert == {"topic", "write", "ack"}

\* A handler past insertData has its row; one past WriteMessages has handed
\* its message to the writer.
DoneSoFar ==
    \A d \in DOMAIN handling :
        /\ handling[d] \in PastInsert => Recorded(d)
        /\ handling[d] = "ack" => d \in forwarded

\* Only forwarded deliveries are in the stream, and they have their row.
ForwardedIsRecorded ==
    /\ buffer \cup kafka \subseteq forwarded
    /\ \A d \in forwarded : Recorded(d)

AckedIsForwarded == \A d \in acked : d.msg \notin Bad => d \in forwarded

IInv == DoneSoFar /\ ForwardedIsRecorded /\ AckedIsForwarded

\* Rows are never deleted.
LEMMA RowsStay ==
    ASSUME [Next]_vars PROVE \A d : Recorded(d) => Recorded(d)'
<1> SUFFICES db \subseteq db'
  BY DEF Recorded
<1> USE DEF brokerVars, svcVars, dataVars, countVars
<1>1. ASSUME NEW m \in Msg, Publish(m) PROVE db \subseteq db'
  BY <1>1 DEF Publish
<1>2. ASSUME Tick PROVE db \subseteq db'
  BY <1>2 DEF Tick
<1>3. ASSUME NEW r \in Replica, StartService(r) PROVE db \subseteq db'
  BY <1>3 DEF StartService
<1>4. ASSUME NEW r \in Replica, Connect(r) PROVE db \subseteq db'
  BY <1>4 DEF Connect
<1>5. ASSUME NEW r \in Replica, Subscribe(r) PROVE db \subseteq db'
  BY <1>5 DEF Subscribe
<1>5a. ASSUME NEW r \in Replica, SubscribeFails(r) PROVE db \subseteq db'
  BY <1>5a DEF SubscribeFails
<1>6. ASSUME NEW r \in Replica, OpenKafka(r) PROVE db \subseteq db'
  BY <1>6 DEF OpenKafka
<1>7. ASSUME NEW r \in Replica, ProbeKafka(r) PROVE db \subseteq db'
  BY <1>7 DEF ProbeKafka
<1>8. ASSUME NEW r \in Replica, CloseStores(r) PROVE db \subseteq db'
  BY <1>8 DEF CloseStores
<1>9. ASSUME NEW r \in Replica, Exit(r) PROVE db \subseteq db'
  BY <1>9 DEF Exit
<1>10. ASSUME NEW r \in Replica, ConnLost(r) PROVE db \subseteq db'
  BY <1>10 DEF ConnLost
<1>11. ASSUME NEW r \in Replica, Stop(r) PROVE db \subseteq db'
  BY <1>11 DEF Stop
<1>12. ASSUME NEW r \in Replica, NEW m \in Msg, Deliver(r, m) PROVE db \subseteq db'
  BY <1>12 DEF Deliver, HandOut
<1>13. ASSUME NEW r \in Replica, NEW m \in Msg, Reject(r, m) PROVE db \subseteq db'
  BY <1>13 DEF Reject, HandOut
<1>14. ASSUME NEW r \in Replica, NEW m \in Msg, DeliverUnrouted(r, m) PROVE db \subseteq db'
  BY <1>14 DEF DeliverUnrouted, HandOut
<1>15. ASSUME NEW d \in DOMAIN handling, Insert(d) PROVE db \subseteq db'
  BY <1>15 DEF Insert
<1>16. ASSUME NEW d \in DOMAIN handling, EnsureTopic(d) PROVE db \subseteq db'
  BY <1>16 DEF EnsureTopic
<1>17. ASSUME NEW d \in DOMAIN handling, WriteKafka(d) PROVE db \subseteq db'
  BY <1>17 DEF WriteKafka
<1>18. ASSUME NEW d \in DOMAIN handling, Fail(d) PROVE db \subseteq db'
  BY <1>18 DEF Fail
<1>19. ASSUME NEW d \in DOMAIN handling, FailClosed(d) PROVE db \subseteq db'
  BY <1>19 DEF FailClosed
<1>20. ASSUME NEW d \in DOMAIN handling, Ack(d) PROVE db \subseteq db'
  BY <1>20 DEF Ack
<1>21. ASSUME NEW d \in buffer, Flush(d) PROVE db \subseteq db'
  BY <1>21 DEF Flush
<1>22. ASSUME NEW d \in buffer, FlushFails(d) PROVE db \subseteq db'
  BY <1>22 DEF FlushFails
<1>23. ASSUME UNCHANGED vars PROVE db \subseteq db'
  BY <1>23 DEF vars
<1> QED
  BY <1>1, <1>2, <1>3, <1>4, <1>5, <1>5a, <1>6, <1>7, <1>8, <1>9,
     <1>10, <1>11, <1>12, <1>13, <1>14, <1>15, <1>16, <1>17,
     <1>18, <1>19, <1>20, <1>21, <1>22, <1>23
  DEF Next, Process, Handler, Crash, MapRace, NilWriter, Stopped

\* The invariant of the callbacks holds at the start.
LEMMA IInvInit == Init => IInv
BY DEF Init, IInv, DoneSoFar, ForwardedIsRecorded, AckedIsForwarded

\* Each handler goes through its calls in order.
LEMMA DoneNext == IInv /\ [Next]_vars => DoneSoFar'
<1> SUFFICES ASSUME IInv, [Next]_vars
             PROVE  DoneSoFar'
  OBVIOUS
<1> USE RowsStay DEF IInv, DoneSoFar, PastInsert, brokerVars, svcVars, dataVars, countVars
<1>1. ASSUME NEW m \in Msg, Publish(m) PROVE DoneSoFar'
  BY <1>1 DEF Publish
<1>2. ASSUME Tick PROVE DoneSoFar'
  BY <1>2 DEF Tick
<1>3. ASSUME NEW r \in Replica, StartService(r) PROVE DoneSoFar'
  BY <1>3 DEF StartService
<1>4. ASSUME NEW r \in Replica, Connect(r) PROVE DoneSoFar'
  BY <1>4 DEF Connect
<1>5. ASSUME NEW r \in Replica, Subscribe(r) PROVE DoneSoFar'
  BY <1>5 DEF Subscribe
<1>5a. ASSUME NEW r \in Replica, SubscribeFails(r) PROVE DoneSoFar'
  BY <1>5a DEF SubscribeFails
<1>6. ASSUME NEW r \in Replica, OpenKafka(r) PROVE DoneSoFar'
  BY <1>6 DEF OpenKafka
<1>7. ASSUME NEW r \in Replica, ProbeKafka(r) PROVE DoneSoFar'
  BY <1>7 DEF ProbeKafka
<1>8. ASSUME NEW r \in Replica, CloseStores(r) PROVE DoneSoFar'
  BY <1>8 DEF CloseStores
<1>9. ASSUME NEW r \in Replica, Exit(r) PROVE DoneSoFar'
  BY <1>9 DEF Exit, Without, Requeued
<1>10. ASSUME NEW r \in Replica, ConnLost(r) PROVE DoneSoFar'
  BY <1>10 DEF ConnLost, Requeued
<1>11. ASSUME NEW r \in Replica, Stop(r) PROVE DoneSoFar'
  BY <1>11 DEF Stop, Requeued
<1>12. ASSUME NEW r \in Replica, NEW m \in Msg, Deliver(r, m) PROVE DoneSoFar'
  BY <1>12 DEF Deliver, HandOut
<1>13. ASSUME NEW r \in Replica, NEW m \in Msg, Reject(r, m) PROVE DoneSoFar'
  BY <1>13 DEF Reject, HandOut
<1>14. ASSUME NEW r \in Replica, NEW m \in Msg, DeliverUnrouted(r, m) PROVE DoneSoFar'
  BY <1>14 DEF DeliverUnrouted, HandOut
<1>15. ASSUME NEW d \in DOMAIN handling, Insert(d) PROVE DoneSoFar'
  <2>1. Recorded(d)'
    BY <1>15 DEF Insert, Recorded
  <2> QED
    BY <1>15, <2>1 DEF Insert, Advance
<1>16. ASSUME NEW d \in DOMAIN handling, EnsureTopic(d) PROVE DoneSoFar'
  BY <1>16 DEF EnsureTopic, Advance
<1>17. ASSUME NEW d \in DOMAIN handling, WriteKafka(d) PROVE DoneSoFar'
  BY <1>17 DEF WriteKafka, Advance
<1>18. ASSUME NEW d \in DOMAIN handling, Fail(d) PROVE DoneSoFar'
  BY <1>18 DEF Fail, Without
<1>19. ASSUME NEW d \in DOMAIN handling, FailClosed(d) PROVE DoneSoFar'
  BY <1>19 DEF FailClosed, Without
<1>20. ASSUME NEW d \in DOMAIN handling, Ack(d) PROVE DoneSoFar'
  BY <1>20 DEF Ack, Without
<1>21. ASSUME NEW d \in buffer, Flush(d) PROVE DoneSoFar'
  BY <1>21 DEF Flush
<1>22. ASSUME NEW d \in buffer, FlushFails(d) PROVE DoneSoFar'
  BY <1>22 DEF FlushFails
<1>23. ASSUME UNCHANGED vars PROVE DoneSoFar'
  BY <1>23 DEF vars
<1> QED
  BY <1>1, <1>2, <1>3, <1>4, <1>5, <1>5a, <1>6, <1>7, <1>8, <1>9,
     <1>10, <1>11, <1>12, <1>13, <1>14, <1>15, <1>16, <1>17,
     <1>18, <1>19, <1>20, <1>21, <1>22, <1>23
  DEF Next, Process, Handler, Crash, MapRace, NilWriter, Stopped

\* A message is forwarded only with its row behind it.
LEMMA ForwardedNext == IInv /\ [Next]_vars => ForwardedIsRecorded'
<1> SUFFICES ASSUME IInv, [Next]_vars
             PROVE  ForwardedIsRecorded'
  OBVIOUS
<1> USE RowsStay DEF IInv, ForwardedIsRecorded, brokerVars, svcVars, dataVars, countVars
<1>1. ASSUME NEW m \in Msg, Publish(m) PROVE ForwardedIsRecorded'
  BY <1>1 DEF Publish
<1>2. ASSUME Tick PROVE ForwardedIsRecorded'
  BY <1>2 DEF Tick
<1>3. ASSUME NEW r \in Replica, StartService(r) PROVE ForwardedIsRecorded'
  BY <1>3 DEF StartService
<1>4. ASSUME NEW r \in Replica, Connect(r) PROVE ForwardedIsRecorded'
  BY <1>4 DEF Connect
<1>5. ASSUME NEW r \in Replica, Subscribe(r) PROVE ForwardedIsRecorded'
  BY <1>5 DEF Subscribe
<1>5a. ASSUME NEW r \in Replica, SubscribeFails(r) PROVE ForwardedIsRecorded'
  BY <1>5a DEF SubscribeFails
<1>6. ASSUME NEW r \in Replica, OpenKafka(r) PROVE ForwardedIsRecorded'
  BY <1>6 DEF OpenKafka
<1>7. ASSUME NEW r \in Replica, ProbeKafka(r) PROVE ForwardedIsRecorded'
  BY <1>7 DEF ProbeKafka
<1>8. ASSUME NEW r \in Replica, CloseStores(r) PROVE ForwardedIsRecorded'
  BY <1>8 DEF CloseStores
<1>9. ASSUME NEW r \in Replica, Exit(r) PROVE ForwardedIsRecorded'
  BY <1>9 DEF Exit, Without, Requeued
<1>10. ASSUME NEW r \in Replica, ConnLost(r) PROVE ForwardedIsRecorded'
  BY <1>10 DEF ConnLost, Requeued
<1>11. ASSUME NEW r \in Replica, Stop(r) PROVE ForwardedIsRecorded'
  BY <1>11 DEF Stop, Requeued
<1>12. ASSUME NEW r \in Replica, NEW m \in Msg, Deliver(r, m) PROVE ForwardedIsRecorded'
  BY <1>12 DEF Deliver, HandOut
<1>13. ASSUME NEW r \in Replica, NEW m \in Msg, Reject(r, m) PROVE ForwardedIsRecorded'
  BY <1>13 DEF Reject, HandOut
<1>14. ASSUME NEW r \in Replica, NEW m \in Msg, DeliverUnrouted(r, m) PROVE ForwardedIsRecorded'
  BY <1>14 DEF DeliverUnrouted, HandOut
<1>15. ASSUME NEW d \in DOMAIN handling, Insert(d) PROVE ForwardedIsRecorded'
  BY <1>15 DEF Insert, Advance
<1>16. ASSUME NEW d \in DOMAIN handling, EnsureTopic(d) PROVE ForwardedIsRecorded'
  BY <1>16 DEF EnsureTopic, Advance
<1>17. ASSUME NEW d \in DOMAIN handling, WriteKafka(d) PROVE ForwardedIsRecorded'
  BY <1>17 DEF WriteKafka, Advance, DoneSoFar, PastInsert
<1>18. ASSUME NEW d \in DOMAIN handling, Fail(d) PROVE ForwardedIsRecorded'
  BY <1>18 DEF Fail, Without
<1>19. ASSUME NEW d \in DOMAIN handling, FailClosed(d) PROVE ForwardedIsRecorded'
  BY <1>19 DEF FailClosed, Without
<1>20. ASSUME NEW d \in DOMAIN handling, Ack(d) PROVE ForwardedIsRecorded'
  BY <1>20 DEF Ack, Without
<1>21. ASSUME NEW d \in buffer, Flush(d) PROVE ForwardedIsRecorded'
  BY <1>21 DEF Flush
<1>22. ASSUME NEW d \in buffer, FlushFails(d) PROVE ForwardedIsRecorded'
  BY <1>22 DEF FlushFails
<1>23. ASSUME UNCHANGED vars PROVE ForwardedIsRecorded'
  BY <1>23 DEF vars
<1> QED
  BY <1>1, <1>2, <1>3, <1>4, <1>5, <1>5a, <1>6, <1>7, <1>8, <1>9,
     <1>10, <1>11, <1>12, <1>13, <1>14, <1>15, <1>16, <1>17,
     <1>18, <1>19, <1>20, <1>21, <1>22, <1>23
  DEF Next, Process, Handler, Crash, MapRace, NilWriter, Stopped

\* Only messages handed to the writer, and malformed ones, are acknowledged.
LEMMA AckedNext == IInv /\ [Next]_vars => AckedIsForwarded'
<1> SUFFICES ASSUME IInv, [Next]_vars
             PROVE  AckedIsForwarded'
  OBVIOUS
<1> USE DEF IInv, AckedIsForwarded, brokerVars, svcVars, dataVars, countVars
<1>1. ASSUME NEW m \in Msg, Publish(m) PROVE AckedIsForwarded'
  BY <1>1 DEF Publish
<1>2. ASSUME Tick PROVE AckedIsForwarded'
  BY <1>2 DEF Tick
<1>3. ASSUME NEW r \in Replica, StartService(r) PROVE AckedIsForwarded'
  BY <1>3 DEF StartService
<1>4. ASSUME NEW r \in Replica, Connect(r) PROVE AckedIsForwarded'
  BY <1>4 DEF Connect
<1>5. ASSUME NEW r \in Replica, Subscribe(r) PROVE AckedIsForwarded'
  BY <1>5 DEF Subscribe
<1>5a. ASSUME NEW r \in Replica, SubscribeFails(r) PROVE AckedIsForwarded'
  BY <1>5a DEF SubscribeFails
<1>6. ASSUME NEW r \in Replica, OpenKafka(r) PROVE AckedIsForwarded'
  BY <1>6 DEF OpenKafka
<1>7. ASSUME NEW r \in Replica, ProbeKafka(r) PROVE AckedIsForwarded'
  BY <1>7 DEF ProbeKafka
<1>8. ASSUME NEW r \in Replica, CloseStores(r) PROVE AckedIsForwarded'
  BY <1>8 DEF CloseStores
<1>9. ASSUME NEW r \in Replica, Exit(r) PROVE AckedIsForwarded'
  BY <1>9 DEF Exit, Without, Requeued
<1>10. ASSUME NEW r \in Replica, ConnLost(r) PROVE AckedIsForwarded'
  BY <1>10 DEF ConnLost, Requeued
<1>11. ASSUME NEW r \in Replica, Stop(r) PROVE AckedIsForwarded'
  BY <1>11 DEF Stop, Requeued
<1>12. ASSUME NEW r \in Replica, NEW m \in Msg, Deliver(r, m) PROVE AckedIsForwarded'
  BY <1>12 DEF Deliver, HandOut
<1>13. ASSUME NEW r \in Replica, NEW m \in Msg, Reject(r, m) PROVE AckedIsForwarded'
  BY <1>13 DEF Reject, HandOut
<1>14. ASSUME NEW r \in Replica, NEW m \in Msg, DeliverUnrouted(r, m) PROVE AckedIsForwarded'
  BY <1>14 DEF DeliverUnrouted, HandOut
<1>15. ASSUME NEW d \in DOMAIN handling, Insert(d) PROVE AckedIsForwarded'
  BY <1>15 DEF Insert, Advance
<1>16. ASSUME NEW d \in DOMAIN handling, EnsureTopic(d) PROVE AckedIsForwarded'
  BY <1>16 DEF EnsureTopic, Advance
<1>17. ASSUME NEW d \in DOMAIN handling, WriteKafka(d) PROVE AckedIsForwarded'
  BY <1>17 DEF WriteKafka, Advance
<1>18. ASSUME NEW d \in DOMAIN handling, Fail(d) PROVE AckedIsForwarded'
  BY <1>18 DEF Fail, Without
<1>19. ASSUME NEW d \in DOMAIN handling, FailClosed(d) PROVE AckedIsForwarded'
  BY <1>19 DEF FailClosed, Without
<1>20. ASSUME NEW d \in DOMAIN handling, Ack(d) PROVE AckedIsForwarded'
  BY <1>20 DEF Ack, Without, DoneSoFar
<1>21. ASSUME NEW d \in buffer, Flush(d) PROVE AckedIsForwarded'
  BY <1>21 DEF Flush
<1>22. ASSUME NEW d \in buffer, FlushFails(d) PROVE AckedIsForwarded'
  BY <1>22 DEF FlushFails
<1>23. ASSUME UNCHANGED vars PROVE AckedIsForwarded'
  BY <1>23 DEF vars
<1> QED
  BY <1>1, <1>2, <1>3, <1>4, <1>5, <1>5a, <1>6, <1>7, <1>8, <1>9,
     <1>10, <1>11, <1>12, <1>13, <1>14, <1>15, <1>16, <1>17,
     <1>18, <1>19, <1>20, <1>21, <1>22, <1>23
  DEF Next, Process, Handler, Crash, MapRace, NilWriter, Stopped

\* Every step keeps the invariant of the callbacks.
LEMMA IInvNext == IInv /\ [Next]_vars => IInv'
BY DoneNext, ForwardedNext, AckedNext DEF IInv

\* A well-formed message is acknowledged only when the writer has it and its
\* device and second have a row, for any number of replicas and faults.
THEOREM AcknowledgedLast == Spec => []AckedWasTaken
<1>1. IInv => AckedWasTaken
  BY DEF IInv, AckedIsForwarded, ForwardedIsRecorded, AckedWasTaken
<1> QED
  BY <1>1, IInvInit, IInvNext, PTL DEF Spec

\* The stream never runs ahead of the table.
THEOREM TableBeforeStream == Spec => []StreamedIsRecorded
<1>1. IInv => StreamedIsRecorded
  BY DEF IInv, ForwardedIsRecorded, StreamedIsRecorded
<1> QED
  BY <1>1, IInvInit, IInvNext, PTL DEF Spec

\* Every bound is a number.
LEMMA Bounds ==
    /\ MaxNow \in Nat /\ MaxDrops \in Nat /\ MaxCrashes \in Nat
    /\ MaxStops \in Nat /\ MaxFailures \in Nat /\ MaxLostFlushes \in Nat
BY BrokerooAssumption

\* Type correctness holds at the start.
LEMMA TypeInit == Init => TypeOK
BY Bounds DEF Init, TypeOK, Svc

\* Every step keeps every variable within its type.
LEMMA TypeNext == TypeOK /\ [Next]_vars => TypeOK'
<1> SUFFICES ASSUME TypeOK, [Next]_vars
             PROVE  TypeOK'
  OBVIOUS
<1> USE Bounds DEF TypeOK, brokerVars, svcVars, dataVars, countVars
<1>1. ASSUME NEW m \in Msg, Publish(m) PROVE TypeOK'
  BY <1>1 DEF Publish
<1>2. ASSUME Tick PROVE TypeOK'
  BY <1>2 DEF Tick
<1>3. ASSUME NEW r \in Replica, StartService(r) PROVE TypeOK'
  BY <1>3 DEF StartService, Svc
<1>4. ASSUME NEW r \in Replica, Connect(r) PROVE TypeOK'
  BY <1>4 DEF Connect, Svc
<1>5. ASSUME NEW r \in Replica, Subscribe(r) PROVE TypeOK'
  BY <1>5 DEF Subscribe
<1>5a. ASSUME NEW r \in Replica, SubscribeFails(r) PROVE TypeOK'
  BY <1>5a DEF SubscribeFails
<1>6. ASSUME NEW r \in Replica, OpenKafka(r) PROVE TypeOK'
  BY <1>6 DEF OpenKafka, Svc
<1>7. ASSUME NEW r \in Replica, ProbeKafka(r) PROVE TypeOK'
  BY <1>7 DEF ProbeKafka, Svc
<1>8. ASSUME NEW r \in Replica, CloseStores(r) PROVE TypeOK'
  BY <1>8 DEF CloseStores, Svc
<1>9. ASSUME NEW r \in Replica, Exit(r),
             crashes' \in 0 .. MaxCrashes, stops' \in 0 .. MaxStops
      PROVE  TypeOK'
  <2>1. /\ DOMAIN handling' \subseteq DOMAIN handling
        /\ \A d \in DOMAIN handling' : handling'[d] = handling[d]
        /\ buffer' \subseteq buffer
    BY <1>9 DEF Exit, Without
  <2>2. /\ queue' \in [Replica -> SUBSET Msg] /\ inflight' \in [Replica -> SUBSET Msg]
        /\ conn' \in [Replica -> BOOLEAN] /\ route' \in [Replica -> BOOLEAN]
        /\ svc' \in [Replica -> Svc] /\ known' \in [Replica -> SUBSET Device]
    BY <1>9 DEF Exit, Requeued, Svc
  <2>3. UNCHANGED <<published, sub, epoch, refused, db, kafka, forwarded, acked,
                    now, drops, failures, lostFlushes>>
    BY <1>9 DEF Exit
  <2>4. crashes' \in 0 .. MaxCrashes /\ stops' \in 0 .. MaxStops
    BY <1>9
  <2> QED
    BY <2>1, <2>2, <2>3, <2>4
<1>10. ASSUME NEW r \in Replica, ConnLost(r) PROVE TypeOK'
  BY <1>10 DEF ConnLost, Requeued
<1>11. ASSUME NEW r \in Replica, Stop(r) PROVE TypeOK'
  BY <1>11 DEF Stop, Requeued, Svc
<1>12. ASSUME NEW r \in Replica, NEW m \in Msg, Deliver(r, m) PROVE TypeOK'
  <2> DEFINE d == [replica |-> r, msg |-> m, epoch |-> epoch[r], ts |-> now]
  <2>1. d \in Delivery
    BY <1>12 DEF Delivery
  <2>2. /\ DOMAIN handling' = DOMAIN handling \cup {d}
        /\ \A e \in DOMAIN handling' : handling'[e] \in Step
    BY <1>12 DEF Deliver, Step
  <2> QED
    BY <1>12, <2>1, <2>2 DEF Deliver, HandOut
<1>13. ASSUME NEW r \in Replica, NEW m \in Msg, Reject(r, m) PROVE TypeOK'
  <2>1. [replica |-> r, msg |-> m, epoch |-> epoch[r], ts |-> now] \in Delivery
    BY <1>13 DEF Delivery
  <2> QED
    BY <1>13, <2>1 DEF Reject, HandOut
<1>14. ASSUME NEW r \in Replica, NEW m \in Msg, DeliverUnrouted(r, m) PROVE TypeOK'
  BY <1>14 DEF DeliverUnrouted, HandOut
<1>15. ASSUME NEW d \in DOMAIN handling, Insert(d) PROVE TypeOK'
  <2>1. d \in Delivery
    BY <1>15
  <2>2. [ts |-> d.ts, dev |-> From[d.msg], msg |-> d.msg] \in Row
    BY <2>1, BrokerooAssumption DEF Delivery, Row
  <2>3. db' \subseteq Row
    BY <1>15, <2>2 DEF Insert
  <2>4. /\ DOMAIN handling' = DOMAIN handling
        /\ \A e \in DOMAIN handling : handling'[e] \in Step
    BY <1>15 DEF Insert, Advance, Step
  <2> QED
    BY <1>15, <2>3, <2>4 DEF Insert
<1>16. ASSUME NEW d \in DOMAIN handling, EnsureTopic(d) PROVE TypeOK'
  <2>1. From[d.msg] \in Device /\ d.replica \in Replica
    BY <1>16, BrokerooAssumption DEF Delivery
  <2> QED
    BY <1>16, <2>1 DEF EnsureTopic, Advance, Step
<1>17. ASSUME NEW d \in DOMAIN handling, WriteKafka(d) PROVE TypeOK'
  BY <1>17 DEF WriteKafka, Advance, Step
<1>18. ASSUME NEW d \in DOMAIN handling, Fail(d) PROVE TypeOK'
  BY <1>18 DEF Fail, Without
<1>19. ASSUME NEW d \in DOMAIN handling, FailClosed(d) PROVE TypeOK'
  BY <1>19 DEF FailClosed, Without
<1>20. ASSUME NEW d \in DOMAIN handling, Ack(d) PROVE TypeOK'
  BY <1>20 DEF Ack, Without, Delivery
<1>21. ASSUME NEW d \in buffer, Flush(d) PROVE TypeOK'
  BY <1>21 DEF Flush
<1>22. ASSUME NEW d \in buffer, FlushFails(d) PROVE TypeOK'
  BY <1>22 DEF FlushFails
<1>23. ASSUME UNCHANGED vars PROVE TypeOK'
  BY <1>23 DEF vars
<1> QED
  BY <1>1, <1>2, <1>3, <1>4, <1>5, <1>5a, <1>6, <1>7, <1>8, <1>9,
     <1>10, <1>11, <1>12, <1>13, <1>14, <1>15, <1>16, <1>17,
     <1>18, <1>19, <1>20, <1>21, <1>22, <1>23
  DEF Next, Process, Handler, Crash, MapRace, NilWriter, Stopped

\* Every variable keeps its type.
THEOREM TypeCorrect == Spec => []TypeOK
BY TypeInit, TypeNext, PTL DEF Spec

\* UnackedIsKept, delivery by delivery.
Kept(d) ==
    \/ \E a \in acked : a.replica = d.replica /\ a.msg = d.msg
    \/ d.msg \in queue[d.replica]
    \/ d.msg \in inflight[d.replica]

AllKept == \A d \in DOMAIN handling \cup forwarded : Kept(d)

KeptInv == TypeOK /\ AllKept

\* No step takes an unacknowledged message out of the session.
LEMMA KeptNext == KeptInv /\ [Next]_vars => AllKept'
<1> SUFFICES ASSUME KeptInv, [Next]_vars
             PROVE  AllKept'
  OBVIOUS
<1> USE DEF KeptInv, AllKept, Kept, TypeOK, Delivery, brokerVars, svcVars, dataVars, countVars
<1>1. ASSUME NEW m \in Msg, Publish(m) PROVE AllKept'
  BY <1>1 DEF Publish
<1>2. ASSUME Tick PROVE AllKept'
  BY <1>2 DEF Tick
<1>3. ASSUME NEW r \in Replica, StartService(r) PROVE AllKept'
  BY <1>3 DEF StartService
<1>4. ASSUME NEW r \in Replica, Connect(r) PROVE AllKept'
  BY <1>4 DEF Connect
<1>5. ASSUME NEW r \in Replica, Subscribe(r) PROVE AllKept'
  BY <1>5 DEF Subscribe
<1>5a. ASSUME NEW r \in Replica, SubscribeFails(r) PROVE AllKept'
  BY <1>5a DEF SubscribeFails
<1>6. ASSUME NEW r \in Replica, OpenKafka(r) PROVE AllKept'
  BY <1>6 DEF OpenKafka
<1>7. ASSUME NEW r \in Replica, ProbeKafka(r) PROVE AllKept'
  BY <1>7 DEF ProbeKafka
<1>8. ASSUME NEW r \in Replica, CloseStores(r) PROVE AllKept'
  BY <1>8 DEF CloseStores
<1>9. ASSUME NEW r \in Replica, Exit(r) PROVE AllKept'
  BY <1>9 DEF Exit, Without, Requeued, Of
<1>10. ASSUME NEW r \in Replica, ConnLost(r) PROVE AllKept'
  BY <1>10 DEF ConnLost, Requeued
<1>11. ASSUME NEW r \in Replica, Stop(r) PROVE AllKept'
  BY <1>11 DEF Stop, Requeued
<1>12. ASSUME NEW r \in Replica, NEW m \in Msg, Deliver(r, m) PROVE AllKept'
  BY <1>12 DEF Deliver, HandOut
<1>13. ASSUME NEW r \in Replica, NEW m \in Msg, Reject(r, m) PROVE AllKept'
  <2> DEFINE a == [replica |-> r, msg |-> m, epoch |-> epoch[r], ts |-> now]
  <2>1. acked' = acked \cup {a} /\ a.replica = r /\ a.msg = m
    BY <1>13 DEF Reject
  <2>2. queue' = [queue EXCEPT ![r] = @ \ {m}] /\ UNCHANGED <<inflight, handling, forwarded>>
    BY <1>13 DEF Reject, HandOut
  <2> HIDE DEF a
  <2>3. ASSUME NEW x \in DOMAIN handling \cup forwarded PROVE Kept(x)'
    <3>1. CASE x.replica = r /\ x.msg = m
      BY <2>1, <3>1
    <3>2. CASE ~(x.replica = r /\ x.msg = m)
      BY <2>1, <2>2, <3>2
    <3> QED
      BY <3>1, <3>2
  <2> QED
    BY <2>2, <2>3
<1>14. ASSUME NEW r \in Replica, NEW m \in Msg, DeliverUnrouted(r, m) PROVE AllKept'
  BY <1>14 DEF DeliverUnrouted, HandOut
<1>15. ASSUME NEW d \in DOMAIN handling, Insert(d) PROVE AllKept'
  BY <1>15 DEF Insert, Advance
<1>16. ASSUME NEW d \in DOMAIN handling, EnsureTopic(d) PROVE AllKept'
  BY <1>16 DEF EnsureTopic, Advance
<1>17. ASSUME NEW d \in DOMAIN handling, WriteKafka(d) PROVE AllKept'
  BY <1>17 DEF WriteKafka, Advance
<1>18. ASSUME NEW d \in DOMAIN handling, Fail(d) PROVE AllKept'
  BY <1>18 DEF Fail, Without
<1>19. ASSUME NEW d \in DOMAIN handling, FailClosed(d) PROVE AllKept'
  BY <1>19 DEF FailClosed, Without
<1>20. ASSUME NEW d \in DOMAIN handling, Ack(d) PROVE AllKept'
  BY <1>20 DEF Ack, Without
<1>21. ASSUME NEW d \in buffer, Flush(d) PROVE AllKept'
  BY <1>21 DEF Flush
<1>22. ASSUME NEW d \in buffer, FlushFails(d) PROVE AllKept'
  BY <1>22 DEF FlushFails
<1>23. ASSUME UNCHANGED vars PROVE AllKept'
  BY <1>23 DEF vars
<1> QED
  BY <1>1, <1>2, <1>3, <1>4, <1>5, <1>5a, <1>6, <1>7, <1>8, <1>9,
     <1>10, <1>11, <1>12, <1>13, <1>14, <1>15, <1>16, <1>17,
     <1>18, <1>19, <1>20, <1>21, <1>22, <1>23
  DEF Next, Process, Handler, Crash, MapRace, NilWriter, Stopped

\* What reached a replica's session stays there until that replica
\* acknowledges it: across lost connections, crashes and graceful stops.
THEOREM SessionKeepsUnacked == Spec => []UnackedIsKept
<1>1. Init => KeptInv
  BY TypeInit DEF Init, KeptInv, AllKept
<1>2. KeptInv /\ [Next]_vars => KeptInv'
  BY KeptNext, TypeNext DEF KeptInv
<1>3. KeptInv => UnackedIsKept
  BY DEF KeptInv, AllKept, Kept, UnackedIsKept, Seen, Settled, Of
<1> QED
  BY <1>1, <1>2, <1>3, PTL DEF Spec

\* A replica's session that is not bound to the topics never had a message,
\* for as long as no replica is stopped.
NothingReached(r) ==
    queue[r] = {} /\ inflight[r] = {} /\ Of(r, DOMAIN handling \cup forwarded \cup acked) = {}

BoundOrEmpty == stops = 0 => \A r \in Replica : sub[r] \/ NothingReached(r)

BoundInv == TypeOK /\ BoundOrEmpty

\* A session that nothing had reached is as empty after the end of a process.
LEMMA ExitEmpties ==
    ASSUME TypeOK, NEW r \in Replica, Exit(r)
    PROVE  sub' = sub /\ \A o \in Replica : NothingReached(o) => NothingReached(o)'
<1>1. DOMAIN handling' \subseteq DOMAIN handling /\ UNCHANGED <<forwarded, acked, sub>>
  BY DEF Exit, Without
<1>2. /\ queue' = [queue EXCEPT ![r] = @ \cup inflight[r]]
      /\ inflight' = [inflight EXCEPT ![r] = {}]
  BY DEF Exit, Requeued
<1> QED
  BY <1>1, <1>2 DEF NothingReached, Of, TypeOK

\* Every step leaves a session bound to the topic or empty, if none is stopped.
LEMMA BoundNext == BoundInv /\ [Next]_vars => BoundOrEmpty'
<1> SUFFICES ASSUME BoundInv, [Next]_vars
             PROVE  BoundOrEmpty'
  OBVIOUS
<1> USE DEF BoundInv, BoundOrEmpty, NothingReached, Of, TypeOK, brokerVars, svcVars, dataVars, countVars
<1>1. ASSUME NEW m \in Msg, Publish(m) PROVE BoundOrEmpty'
  BY <1>1 DEF Publish
<1>2. ASSUME Tick PROVE BoundOrEmpty'
  BY <1>2 DEF Tick
<1>3. ASSUME NEW r \in Replica, StartService(r) PROVE BoundOrEmpty'
  BY <1>3 DEF StartService
<1>4. ASSUME NEW r \in Replica, Connect(r) PROVE BoundOrEmpty'
  BY <1>4 DEF Connect
<1>5. ASSUME NEW r \in Replica, Subscribe(r) PROVE BoundOrEmpty'
  BY <1>5 DEF Subscribe
<1>5a. ASSUME NEW r \in Replica, SubscribeFails(r) PROVE BoundOrEmpty'
  BY <1>5a DEF SubscribeFails
<1>6. ASSUME NEW r \in Replica, OpenKafka(r) PROVE BoundOrEmpty'
  BY <1>6 DEF OpenKafka
<1>7. ASSUME NEW r \in Replica, ProbeKafka(r) PROVE BoundOrEmpty'
  BY <1>7 DEF ProbeKafka
<1>8. ASSUME NEW r \in Replica, CloseStores(r) PROVE BoundOrEmpty'
  BY <1>8 DEF CloseStores
<1>9. ASSUME NEW r \in Replica, Crash(r) PROVE BoundOrEmpty'
  BY <1>9, ExitEmpties DEF Crash
<1>10. ASSUME NEW r \in Replica, Stopped(r) PROVE BoundOrEmpty'
  BY <1>10, ExitEmpties DEF Stopped
<1>11. ASSUME NEW r \in Replica, ConnLost(r) PROVE BoundOrEmpty'
  BY <1>11 DEF ConnLost, Requeued
<1>12. ASSUME NEW r \in Replica, Stop(r) PROVE BoundOrEmpty'
  BY <1>12 DEF Stop, Requeued
<1>13. ASSUME NEW r \in Replica, NEW m \in Msg, Deliver(r, m) PROVE BoundOrEmpty'
  BY <1>13 DEF Deliver, HandOut
<1>14. ASSUME NEW r \in Replica, NEW m \in Msg, Reject(r, m) PROVE BoundOrEmpty'
  <2> DEFINE a == [replica |-> r, msg |-> m, epoch |-> epoch[r], ts |-> now]
  <2>1. acked' = acked \cup {a} /\ a.replica = r
    BY <1>14 DEF Reject
  <2>2. /\ queue' = [queue EXCEPT ![r] = @ \ {m}] /\ m \in queue[r]
        /\ UNCHANGED <<inflight, handling, forwarded, sub, stops>>
    BY <1>14 DEF Reject, HandOut
  <2>3. stops = 0 => sub[r]
    BY <2>2
  <2> HIDE DEF a
  <2>4. ASSUME stops = 0, NEW o \in Replica, o # r, ~ sub[o] PROVE NothingReached(o)'
    BY <2>1, <2>2, <2>4
  <2> QED
    BY <2>2, <2>3, <2>4
<1>15. ASSUME NEW r \in Replica, NEW m \in Msg, DeliverUnrouted(r, m) PROVE BoundOrEmpty'
  BY <1>15 DEF DeliverUnrouted, HandOut
<1>16. ASSUME NEW d \in DOMAIN handling, Insert(d) PROVE BoundOrEmpty'
  BY <1>16 DEF Insert, Advance
<1>17. ASSUME NEW d \in DOMAIN handling, EnsureTopic(d) PROVE BoundOrEmpty'
  BY <1>17 DEF EnsureTopic, Advance
<1>18. ASSUME NEW d \in DOMAIN handling, WriteKafka(d) PROVE BoundOrEmpty'
  BY <1>18 DEF WriteKafka, Advance
<1>19. ASSUME NEW d \in DOMAIN handling, Fail(d) PROVE BoundOrEmpty'
  BY <1>19 DEF Fail, Without
<1>20. ASSUME NEW d \in DOMAIN handling, FailClosed(d) PROVE BoundOrEmpty'
  BY <1>20 DEF FailClosed, Without
<1>21. ASSUME NEW d \in DOMAIN handling, Ack(d) PROVE BoundOrEmpty'
  BY <1>21 DEF Ack, Without
<1>22. ASSUME NEW d \in buffer, Flush(d) PROVE BoundOrEmpty'
  BY <1>22 DEF Flush
<1>23. ASSUME NEW d \in buffer, FlushFails(d) PROVE BoundOrEmpty'
  BY <1>23 DEF FlushFails
<1>24. ASSUME UNCHANGED vars PROVE BoundOrEmpty'
  BY <1>24 DEF vars
<1> QED
  BY <1>1, <1>2, <1>3, <1>4, <1>5, <1>5a, <1>6, <1>7, <1>8, <1>9,
     <1>10, <1>11, <1>12, <1>13, <1>14, <1>15, <1>16, <1>17, <1>18,
     <1>19, <1>20, <1>21, <1>22, <1>23, <1>24
  DEF Next, Process, Handler, MapRace, NilWriter

\* No step but Publish adds to what was published.
LEMMA OnlyPublishPublishes ==
    ASSUME [Next]_vars
    PROVE  published' = published \/ \E m \in Msg : Publish(m)
<1> USE DEF brokerVars
<1>1. ASSUME NEW m \in Msg, Publish(m) PROVE published' = published \/ \E x \in Msg : Publish(x)
  BY <1>1
<1>2. ASSUME Tick PROVE published' = published \/ \E x \in Msg : Publish(x)
  BY <1>2 DEF Tick
<1>3. ASSUME NEW r \in Replica, StartService(r) PROVE published' = published \/ \E x \in Msg : Publish(x)
  BY <1>3 DEF StartService
<1>4. ASSUME NEW r \in Replica, Connect(r) PROVE published' = published \/ \E x \in Msg : Publish(x)
  BY <1>4 DEF Connect
<1>5. ASSUME NEW r \in Replica, Subscribe(r) PROVE published' = published \/ \E x \in Msg : Publish(x)
  BY <1>5 DEF Subscribe
<1>5a. ASSUME NEW r \in Replica, SubscribeFails(r) PROVE published' = published \/ \E x \in Msg : Publish(x)
  BY <1>5a DEF SubscribeFails
<1>6. ASSUME NEW r \in Replica, OpenKafka(r) PROVE published' = published \/ \E x \in Msg : Publish(x)
  BY <1>6 DEF OpenKafka
<1>7. ASSUME NEW r \in Replica, ProbeKafka(r) PROVE published' = published \/ \E x \in Msg : Publish(x)
  BY <1>7 DEF ProbeKafka
<1>8. ASSUME NEW r \in Replica, CloseStores(r) PROVE published' = published \/ \E x \in Msg : Publish(x)
  BY <1>8 DEF CloseStores
<1>9. ASSUME NEW r \in Replica, Exit(r) PROVE published' = published \/ \E x \in Msg : Publish(x)
  BY <1>9 DEF Exit, Without, Requeued, Of
<1>10. ASSUME NEW r \in Replica, ConnLost(r) PROVE published' = published \/ \E x \in Msg : Publish(x)
  BY <1>10 DEF ConnLost, Requeued
<1>11. ASSUME NEW r \in Replica, Stop(r) PROVE published' = published \/ \E x \in Msg : Publish(x)
  BY <1>11 DEF Stop, Requeued
<1>12. ASSUME NEW r \in Replica, NEW m \in Msg, Deliver(r, m) PROVE published' = published \/ \E x \in Msg : Publish(x)
  BY <1>12 DEF Deliver, HandOut
<1>13. ASSUME NEW r \in Replica, NEW m \in Msg, Reject(r, m) PROVE published' = published \/ \E x \in Msg : Publish(x)
  BY <1>13 DEF Reject, HandOut
<1>14. ASSUME NEW r \in Replica, NEW m \in Msg, DeliverUnrouted(r, m) PROVE published' = published \/ \E x \in Msg : Publish(x)
  BY <1>14 DEF DeliverUnrouted, HandOut
<1>15. ASSUME NEW d \in DOMAIN handling, Insert(d) PROVE published' = published \/ \E x \in Msg : Publish(x)
  BY <1>15 DEF Insert, Advance
<1>16. ASSUME NEW d \in DOMAIN handling, EnsureTopic(d) PROVE published' = published \/ \E x \in Msg : Publish(x)
  BY <1>16 DEF EnsureTopic, Advance
<1>17. ASSUME NEW d \in DOMAIN handling, WriteKafka(d) PROVE published' = published \/ \E x \in Msg : Publish(x)
  BY <1>17 DEF WriteKafka, Advance
<1>18. ASSUME NEW d \in DOMAIN handling, Fail(d) PROVE published' = published \/ \E x \in Msg : Publish(x)
  BY <1>18 DEF Fail, Without
<1>19. ASSUME NEW d \in DOMAIN handling, FailClosed(d) PROVE published' = published \/ \E x \in Msg : Publish(x)
  BY <1>19 DEF FailClosed, Without
<1>20. ASSUME NEW d \in DOMAIN handling, Ack(d) PROVE published' = published \/ \E x \in Msg : Publish(x)
  BY <1>20 DEF Ack, Without
<1>21. ASSUME NEW d \in buffer, Flush(d) PROVE published' = published \/ \E x \in Msg : Publish(x)
  BY <1>21 DEF Flush
<1>22. ASSUME NEW d \in buffer, FlushFails(d) PROVE published' = published \/ \E x \in Msg : Publish(x)
  BY <1>22 DEF FlushFails
<1>23. ASSUME UNCHANGED vars PROVE published' = published \/ \E x \in Msg : Publish(x)
  BY <1>23 DEF vars
<1> QED
  BY <1>1, <1>2, <1>3, <1>4, <1>5, <1>5a, <1>6, <1>7, <1>8, <1>9,
     <1>10, <1>11, <1>12, <1>13, <1>14, <1>15, <1>16, <1>17, <1>18,
     <1>19, <1>20, <1>21, <1>22, <1>23
  DEF Next, Process, Handler, Crash, MapRace, NilWriter, Stopped

\* A session that had a message once gets every later one until a Stop,
\* whatever is lost, crashes and restarts in between.
THEOREM SessionsStayBound == Spec => SessionsMissNothing
<1>1. Init => BoundInv
  BY TypeInit DEF Init, BoundInv, BoundOrEmpty, NothingReached, Of
<1>2. BoundInv /\ [Next]_vars => BoundInv'
  BY BoundNext, TypeNext DEF BoundInv
<1>3. ASSUME BoundInv, [Next]_vars, stops = 0, NEW r \in Replica, Got(r) # {}
      PROVE  published' \ published \subseteq queue'[r]
  <2>1. sub[r]
    BY <1>3 DEF BoundInv, BoundOrEmpty, NothingReached, Got, Seen, Of
  <2>2. ASSUME NEW m \in Msg, Publish(m) PROVE published' \ published \subseteq queue'[r]
    BY <2>1, <2>2 DEF Publish
  <2> QED
    BY <1>3, <2>2, OnlyPublishPublishes
<1>4. BoundInv /\ [Next]_vars =>
        [stops = 0 => \A r \in Replica :
            Got(r) # {} => published' \ published \subseteq queue'[r]]_vars
  BY <1>3
<1> QED
  BY <1>1, <1>2, <1>4, PTL DEF Spec, SessionsMissNothing

\* What was acknowledged as forwarded reaches Kafka or waits in a batch, unless
\* a process died or a batch failed: Stop, which flushes last, loses nothing.
LEMMA LostNext ==
    TypeOK /\ ForwardedIsLostOnlyByFault /\ [Next]_vars => ForwardedIsLostOnlyByFault'
<1> SUFFICES ASSUME TypeOK, ForwardedIsLostOnlyByFault, [Next]_vars
             PROVE  ForwardedIsLostOnlyByFault'
  OBVIOUS
<1> USE BrokerooAssumption
    DEF TypeOK, ForwardedIsLostOnlyByFault, brokerVars, svcVars, dataVars, countVars
<1>1. ASSUME NEW m \in Msg, Publish(m) PROVE ForwardedIsLostOnlyByFault'
  BY <1>1 DEF Publish
<1>2. ASSUME Tick PROVE ForwardedIsLostOnlyByFault'
  BY <1>2 DEF Tick
<1>3. ASSUME NEW r \in Replica, StartService(r) PROVE ForwardedIsLostOnlyByFault'
  BY <1>3 DEF StartService
<1>4. ASSUME NEW r \in Replica, Connect(r) PROVE ForwardedIsLostOnlyByFault'
  BY <1>4 DEF Connect
<1>5. ASSUME NEW r \in Replica, Subscribe(r) PROVE ForwardedIsLostOnlyByFault'
  BY <1>5 DEF Subscribe
<1>5a. ASSUME NEW r \in Replica, SubscribeFails(r) PROVE ForwardedIsLostOnlyByFault'
  BY <1>5a DEF SubscribeFails
<1>6. ASSUME NEW r \in Replica, OpenKafka(r) PROVE ForwardedIsLostOnlyByFault'
  BY <1>6 DEF OpenKafka
<1>7. ASSUME NEW r \in Replica, ProbeKafka(r) PROVE ForwardedIsLostOnlyByFault'
  BY <1>7 DEF ProbeKafka
<1>8. ASSUME NEW r \in Replica, CloseStores(r) PROVE ForwardedIsLostOnlyByFault'
  BY <1>8 DEF CloseStores
<1>9. ASSUME NEW r \in Replica, Crash(r) PROVE ForwardedIsLostOnlyByFault'
  BY <1>9 DEF Crash, Exit, Without, Requeued, Of
<1>10. ASSUME NEW r \in Replica, Stopped(r) PROVE ForwardedIsLostOnlyByFault'
  BY <1>10 DEF Stopped, Exit, Without, Requeued, Of
<1>11. ASSUME NEW r \in Replica, ConnLost(r) PROVE ForwardedIsLostOnlyByFault'
  BY <1>11 DEF ConnLost, Requeued
<1>12. ASSUME NEW r \in Replica, Stop(r) PROVE ForwardedIsLostOnlyByFault'
  BY <1>12 DEF Stop, Requeued
<1>13. ASSUME NEW r \in Replica, NEW m \in Msg, Deliver(r, m) PROVE ForwardedIsLostOnlyByFault'
  BY <1>13 DEF Deliver, HandOut
<1>14. ASSUME NEW r \in Replica, NEW m \in Msg, Reject(r, m) PROVE ForwardedIsLostOnlyByFault'
  BY <1>14 DEF Reject, HandOut
<1>15. ASSUME NEW r \in Replica, NEW m \in Msg, DeliverUnrouted(r, m) PROVE ForwardedIsLostOnlyByFault'
  BY <1>15 DEF DeliverUnrouted, HandOut
<1>16. ASSUME NEW d \in DOMAIN handling, Insert(d) PROVE ForwardedIsLostOnlyByFault'
  BY <1>16 DEF Insert, Advance
<1>17. ASSUME NEW d \in DOMAIN handling, EnsureTopic(d) PROVE ForwardedIsLostOnlyByFault'
  BY <1>17 DEF EnsureTopic, Advance
<1>18. ASSUME NEW d \in DOMAIN handling, WriteKafka(d) PROVE ForwardedIsLostOnlyByFault'
  BY <1>18 DEF WriteKafka, Advance
<1>19. ASSUME NEW d \in DOMAIN handling, Fail(d) PROVE ForwardedIsLostOnlyByFault'
  BY <1>19 DEF Fail, Without
<1>20. ASSUME NEW d \in DOMAIN handling, FailClosed(d) PROVE ForwardedIsLostOnlyByFault'
  BY <1>20 DEF FailClosed, Without
<1>21. ASSUME NEW d \in DOMAIN handling, Ack(d) PROVE ForwardedIsLostOnlyByFault'
  BY <1>21 DEF Ack, Without
<1>22. ASSUME NEW d \in buffer, Flush(d) PROVE ForwardedIsLostOnlyByFault'
  BY <1>22 DEF Flush
<1>23. ASSUME NEW d \in buffer, FlushFails(d) PROVE ForwardedIsLostOnlyByFault'
  BY <1>23 DEF FlushFails
<1>24. ASSUME UNCHANGED vars PROVE ForwardedIsLostOnlyByFault'
  BY <1>24 DEF vars
<1> QED
  BY <1>1, <1>2, <1>3, <1>4, <1>5, <1>5a, <1>6, <1>7, <1>8, <1>9,
     <1>10, <1>11, <1>12, <1>13, <1>14, <1>15, <1>16, <1>17, <1>18,
     <1>19, <1>20, <1>21, <1>22, <1>23, <1>24
  DEF Next, Process, Handler, MapRace, NilWriter

\* Without a crash or a failed batch everything forwarded is in Kafka or in a
\* batch that is still to be sent: a graceful stop loses nothing.
THEOREM StopLosesNothing == Spec => []ForwardedIsLostOnlyByFault
<1>1. Init => TypeOK /\ ForwardedIsLostOnlyByFault
  BY TypeInit DEF Init, ForwardedIsLostOnlyByFault
<1> QED
  BY <1>1, TypeNext, LostNext, PTL DEF Spec
==============================================================================
