---------------------------- MODULE TrackyProofs ----------------------------
(***************************************************************************)
(* Safety of the device agent for any number of readings, rounds, starts,  *)
(* lost connections and any watchdog period: nothing is acknowledged       *)
(* unpublished, and what is lost, repeated and reordered is bounded.       *)
(***************************************************************************)
EXTENDS Tracky, TLAPS, FiniteSetTheorems

Working == {"publish", "wait", "retry", "ack"}

\* An Agent holds a row exactly while it is between DequeueData and Ack.
HoldsWhileWorking == \A r \in Round : pc[r] \in Working <=> holds[r] # Nobody

\* A round that has not begun has no Agent; a process that is down has none.
NotBegunIsOff ==
    /\ ~up => round = 0
    /\ \A r \in Round : r > round => pc[r] = "off"

\* A client has a packet only for an Agent that waits for it or gave up on it.
PacketHasWaiter == \A r \in Round : out[r] # "none" => pc[r] \in {"wait", "retry"}

Shape == HoldsWhileWorking /\ NotBegunIsOff /\ PacketHasWaiter

\* The row an Agent holds is marked dequeued, and no other Agent holds it.
HoldersAgree ==
    /\ \A r \in Round : holds[r] # Nobody => holds[r] \in Q!RowsIn(Q!TAKEN)
    /\ \A r, s \in Round : r # s /\ holds[r] # Nobody => holds[r] # holds[s]

\* Past the broker's acceptance the row held is among those published.
AcceptedIsPublished ==
    \A r \in Round : out[r] = "accepted" \/ pc[r] = "ack"
                        => holds[r] \in AcceptedRows

\* TypeOK with the queue's held set spelled out row by row.
Types ==
    /\ seq \in 0 .. MaxRows
    /\ DOMAIN table \subseteq 1 .. seq
    /\ \A id \in DOMAIN table : table[id] \in Q!Status
    /\ starts \in 0 .. MaxStarts
    /\ up \in BOOLEAN
    /\ round \in 0 .. MaxRounds
    /\ recovering \in BOOLEAN
    /\ tm \in [Round -> {"off", "running", "stopping"}]
    /\ resetting \in [Round -> BOOLEAN]
    /\ pc \in [Round -> {"off", "loop", "publish", "wait", "retry", "ack", "done"}]
    /\ holds \in [Round -> Nat]
    /\ \A r \in Round : holds[r] <= seq
    /\ conn \in [Round -> {"off", "connecting", "connected", "reconnecting", "refused"}]
    /\ out \in [Round -> {"none", "stored", "wire", "accepted"}]
    /\ age \in [Round -> [Task -> 0 .. Wtd + 1]]
    /\ drops \in 0 .. MaxDrops
    /\ published \in Seq(Row)

IInv ==
    /\ Types
    /\ HoldsWhileWorking
    /\ NotBegunIsOff
    /\ PacketHasWaiter
    /\ HoldersAgree
    /\ AcceptedIsPublished
    /\ AckedWasPublished

------------------------------------------------------------------------------
\* A set of rounds is finite: its size is a number.
LEMMA RoundsFinite == ASSUME NEW S \in SUBSET Round PROVE Cardinality(S) \in Nat
<1>1. IsFiniteSet(Round)
  BY FS_Interval, TrackyAssumption DEF Round
<1> QED
  BY <1>1, FS_Subset, FS_CardinalityType

\* One more acceptance adds one row to those published.
LEMMA AcceptedGrows ==
    ASSUME published \in Seq(Row), NEW id \in Row,
           published' = Append(published, id)
    PROVE  AcceptedRows' = AcceptedRows \cup {id}
<1>1. Len(published') = Len(published) + 1 /\ Len(published) \in Nat
  OBVIOUS
<1>2. \A i \in 1 .. Len(published) : published'[i] = published[i]
  OBVIOUS
<1>3. published'[Len(published) + 1] = id
  OBVIOUS
<1>4. AcceptedRows' \subseteq AcceptedRows \cup {id}
  BY <1>1, <1>2, <1>3 DEF AcceptedRows
<1>5. AcceptedRows \subseteq AcceptedRows'
  BY <1>1, <1>2 DEF AcceptedRows
<1>6. id \in AcceptedRows'
  BY <1>1, <1>3 DEF AcceptedRows
<1> QED
  BY <1>4, <1>5, <1>6

\* Type correctness in parts, one for each group of variables.
LEMMA TypesIsTypeOK == Types <=> TypeOK
<1>1. ASSUME Types PROVE TypeOK
  <2>1. holds \in [Round -> Row \cup {Nobody}]
    BY <1>1, TrackyAssumption DEF Types, Row, Nobody
  <2>2. Held \subseteq 1 .. seq
    BY <1>1, TrackyAssumption DEF Types, Held, Nobody
  <2> QED
    BY <1>1, <2>1, <2>2 DEF Types, TypeOK, Q!TypeOK
<1>2. ASSUME TypeOK PROVE Types
  <2>1. \A r \in Round : holds[r] # Nobody => holds[r] \in Held
    BY DEF Held
  <2>2. \A r \in Round : holds[r] \in Nat /\ holds[r] <= seq
    BY <1>2, <2>1, TrackyAssumption DEF TypeOK, Q!TypeOK, Row, Nobody
  <2>3. holds \in [Round -> Nat]
    BY <1>2, <2>2 DEF TypeOK
  <2> QED
    BY <1>2, <2>2, <2>3 DEF Types, TypeOK, Q!TypeOK
<1> QED
  BY <1>1, <1>2

\* What Init and Die give the volatile variables.
LEMMA Fresh ==
    /\ [r \in Round |-> [t \in Task |-> 0]] \in [Round -> [Task -> 0 .. Wtd + 1]]
    /\ [r \in Round |-> Nobody] \in [Round -> Nat]
    /\ \A r \in Round : [s \in Round |-> Nobody][r] = 0
<1>1. 0 \in 0 .. Wtd + 1
  BY TrackyAssumption
<1>2. [t \in Task |-> 0] \in [Task -> 0 .. Wtd + 1]
  BY <1>1
<1> QED
  BY <1>2 DEF Nobody

\* The first round is a round.
LEMMA RoundRange == 1 \in Round /\ 0 \in 0 .. MaxRounds /\ Round \subseteq 0 .. MaxRounds
BY TrackyAssumption DEF Round

\* The invariant of packets and Agents holds at the start.
LEMMA IInvInit == Init => IInv
<1> SUFFICES ASSUME Init PROVE IInv
  OBVIOUS
<1>1. Types
  <2>1. published \in Seq(Row)
    BY DEF Init
  <2>2. /\ age \in [Round -> [Task -> 0 .. Wtd + 1]]
        /\ holds \in [Round -> Nat]
        /\ \A r \in Round : holds[r] = 0
    BY Fresh DEF Init
  <2>3. DOMAIN table = {} /\ seq = 0
    BY DEF Init
  <2>4. /\ tm \in [Round -> {"off", "running", "stopping"}]
        /\ resetting \in [Round -> BOOLEAN]
        /\ pc \in [Round -> {"off", "loop", "publish", "wait", "retry", "ack", "done"}]
        /\ conn \in [Round -> {"off", "connecting", "connected", "reconnecting", "refused"}]
        /\ out \in [Round -> {"none", "stored", "wire", "accepted"}]
    BY DEF Init
  <2>5. /\ starts = 0 /\ up = FALSE /\ round = 0 /\ recovering = FALSE /\ drops = 0
    BY DEF Init
  <2>6. round \in 0 .. MaxRounds
    BY <2>5, RoundRange
  <2>7. \A r \in Round : holds[r] <= seq
    BY <2>2, <2>3
  <2>8. up \in BOOLEAN /\ recovering \in BOOLEAN
    BY <2>5
  <2>9. seq \in 0 .. MaxRows /\ starts \in 0 .. MaxStarts /\ drops \in 0 .. MaxDrops
    BY <2>3, <2>5, TrackyAssumption
  <2>10. DOMAIN table \subseteq 1 .. seq /\ (\A id \in DOMAIN table : table[id] \in Q!Status)
    BY <2>3
  <2> QED
    BY <2>1, <2>2, <2>4, <2>6, <2>7, <2>8, <2>9, <2>10 DEF Types
<1>2. HoldsWhileWorking /\ NotBegunIsOff /\ PacketHasWaiter
  BY TrackyAssumption
  DEF Init, HoldsWhileWorking, NotBegunIsOff, PacketHasWaiter, Working, Round
<1>3. HoldersAgree /\ AcceptedIsPublished /\ AckedWasPublished
  BY DEF Init, HoldersAgree, AcceptedIsPublished, AckedWasPublished, Q!RowsIn
<1> QED
  BY <1>1, <1>2, <1>3 DEF IInv

\* Every step keeps every variable within its type.
LEMMA TypesNext == Types /\ HoldsWhileWorking /\ PacketHasWaiter /\ [Next]_vars => Types'
<1> SUFFICES ASSUME Types, HoldsWhileWorking, PacketHasWaiter, [Next]_vars
             PROVE  Types'
  OBVIOUS
<1> USE TrackyAssumption DEF Types, Nobody,
      queueVars, procVars, agentVars, netVars
<1>1. CASE Start
  <2>1. round' \in 0 .. MaxRounds
    BY <1>1, RoundRange DEF Start, InitRound
  <2>2. starts' \in 0 .. MaxStarts
    BY <1>1 DEF Start
  <2> QED
    BY <1>1, <2>1, <2>2 DEF Start, InitRound, Q!InitQueue
<1>2. CASE Reading
  BY <1>2 DEF Reading, Q!EnqueueData, Q!WAITING, Q!Status
<1>3. CASE LoopPanic
  BY <1>3 DEF LoopPanic
<1>4. CASE NextRound
  <2>1. round + 1 \in Round
    BY <1>4 DEF NextRound, Round
  <2> QED
    BY <1>4, <2>1, RoundRange DEF NextRound, InitRound, Q!InitQueue
<1>5. ASSUME Die PROVE Types'
  <2>1. /\ age' \in [Round -> [Task -> 0 .. Wtd + 1]]
        /\ holds' \in [Round -> Nat]
        /\ \A r \in Round : holds'[r] = 0
    BY <1>5, Fresh DEF Die
  <2>2. /\ tm' \in [Round -> {"off", "running", "stopping"}]
        /\ resetting' \in [Round -> BOOLEAN]
        /\ pc' \in [Round -> {"off", "loop", "publish", "wait", "retry", "ack", "done"}]
        /\ conn' \in [Round -> {"off", "connecting", "connected", "reconnecting", "refused"}]
        /\ out' \in [Round -> {"none", "stored", "wire", "accepted"}]
    BY <1>5 DEF Die
  <2>3. up' = FALSE /\ round' = 0 /\ recovering' = FALSE
        /\ UNCHANGED <<table, seq, starts, drops, published>>
    BY <1>5 DEF Die
  <2>4. round' \in 0 .. MaxRounds
    BY <2>3, RoundRange
  <2>5. \A r \in Round : holds'[r] <= seq'
    BY <2>1, <2>3
  <2>6. up' \in BOOLEAN /\ recovering' \in BOOLEAN
    BY <2>3
  <2>7. DOMAIN table' \subseteq 1 .. seq' /\ (\A id \in DOMAIN table' : table'[id] \in Q!Status)
    BY <2>3
  <2>8. starts' \in 0 .. MaxStarts /\ drops' \in 0 .. MaxDrops /\ seq' \in 0 .. MaxRows /\ published' \in Seq(Row)
    BY <2>3
  <2> QED
    BY <2>1, <2>2, <2>4, <2>5, <2>6, <2>7, <2>8
<1>6. ASSUME NEW r \in Round, AgentDequeue(r) PROVE Types'
  BY <1>6 DEF AgentDequeue, Q!DequeueData, Q!RowsIn, Q!WAITING, Q!TAKEN, Q!Status
<1>7. ASSUME NEW r \in Round, AgentPublish(r) PROVE Types'
  BY <1>7 DEF AgentPublish
<1>8. ASSUME NEW r \in Round, AgentPublishFails(r) PROVE Types'
  BY <1>8 DEF AgentPublishFails
<1>9. ASSUME NEW r \in Round, AgentAck(r) PROVE Types'
  BY <1>9 DEF AgentAck, Q!Ack, Q!setStatus, Q!ACKED, Q!Status
<1>10. ASSUME NEW r \in Round, AgentExit(r) PROVE Types'
  BY <1>10 DEF AgentExit
<1>11. ASSUME NEW r \in Round, ConnLost(r) PROVE Types'
  BY <1>11 DEF ConnLost, Unsent
<1>12. ASSUME NEW r \in Round, Connect(r) PROVE Types'
  <2>1. drops' \in 0 .. MaxDrops
    <3> DEFINE others == {o \in Round : conn[o] = "connected"}
    <3>1. Cardinality(others) \in Nat
      BY RoundsFinite
    <3>2. drops + Cardinality(others) <= MaxDrops /\ drops' = drops + Cardinality(others)
      BY <1>12 DEF Connect
    <3> QED
      BY <3>1, <3>2
  <2>2. conn' \in [Round -> {"off", "connecting", "connected", "reconnecting", "refused"}]
    BY <1>12 DEF Connect
  <2>3. out' \in [Round -> {"none", "stored", "wire", "accepted"}]
    BY <1>12 DEF Connect, Unsent
  <2> QED
    BY <1>12, <2>1, <2>2, <2>3 DEF Connect
<1>13. ASSUME NEW r \in Round, BrokerAccept(r) PROVE Types'
  <2>1. holds[r] \in Row
    BY <1>13 DEF BrokerAccept, PacketHasWaiter, HoldsWhileWorking, Working, Row, Nobody
  <2> QED
    BY <1>13, <2>1 DEF BrokerAccept
<1>14. ASSUME NEW r \in Round, PubAck(r) PROVE Types'
  BY <1>14 DEF PubAck
<1>15. ASSUME NEW r \in Round, Watchdog(r) PROVE Types'
  BY <1>15 DEF Watchdog
<1>16. CASE Tick
  <2>1. \A n \in 0 .. Wtd + 1 : Older(n) \in 0 .. Wtd + 1
    BY DEF Older
  <2>2. age' \in [Round -> [Task -> 0 .. Wtd + 1]]
    BY <1>16, <2>1 DEF Tick
  <2> QED
    BY <1>16, <2>2 DEF Tick
<1>17. CASE UNCHANGED vars
  BY <1>17 DEF vars
<1>18. ASSUME NEW r \in Round, TokenExpires(r) PROVE Types'
  BY <1>18 DEF TokenExpires
<1> QED
  BY <1>1, <1>2, <1>3, <1>4, <1>5, <1>6, <1>7, <1>8, <1>9,
     <1>10, <1>11, <1>12, <1>13, <1>14, <1>15, <1>16, <1>17, <1>18 DEF Next, Crash, WatchdogPanic

\* What each Agent, its row and its client's packet have to do with each other.
LEMMA ShapeNext == IInv /\ [Next]_vars => Shape'
<1> SUFFICES ASSUME IInv, [Next]_vars
             PROVE  Shape'
  OBVIOUS
<1> USE DEF Shape, IInv, Types, HoldsWhileWorking, NotBegunIsOff, PacketHasWaiter, Working, Nobody,
          queueVars, procVars, agentVars, netVars
<1>1. CASE Start
  BY <1>1 DEF Start, InitRound, Round
<1>2. CASE Reading
  BY <1>2 DEF Reading
<1>3. CASE LoopPanic
  BY <1>3 DEF LoopPanic
<1>4. CASE NextRound
  BY <1>4 DEF NextRound, InitRound, Round
<1>5. ASSUME Die PROVE Shape'
  BY <1>5 DEF Die
<1>6. ASSUME NEW r \in Round, AgentDequeue(r) PROVE Shape'
  BY <1>6 DEF AgentDequeue, Q!DequeueData, Q!RowsIn
<1>7. ASSUME NEW r \in Round, AgentPublish(r) PROVE Shape'
  BY <1>7 DEF AgentPublish
<1>8. ASSUME NEW r \in Round, AgentPublishFails(r) PROVE Shape'
  BY <1>8 DEF AgentPublishFails
<1>9. ASSUME NEW r \in Round, AgentAck(r) PROVE Shape'
  BY <1>9 DEF AgentAck
<1>10. ASSUME NEW r \in Round, AgentExit(r) PROVE Shape'
  BY <1>10 DEF AgentExit
<1>11. ASSUME NEW r \in Round, ConnLost(r) PROVE Shape'
  BY <1>11 DEF ConnLost, Unsent
<1>12. ASSUME NEW r \in Round, Connect(r) PROVE Shape'
  BY <1>12 DEF Connect, Unsent
<1>13. ASSUME NEW r \in Round, BrokerAccept(r) PROVE Shape'
  BY <1>13 DEF BrokerAccept
<1>14. ASSUME NEW r \in Round, PubAck(r) PROVE Shape'
  BY <1>14 DEF PubAck
<1>15. ASSUME NEW r \in Round, Watchdog(r) PROVE Shape'
  BY <1>15 DEF Watchdog
<1>16. CASE Tick
  BY <1>16 DEF Tick
<1>17. CASE UNCHANGED vars
  BY <1>17 DEF vars
<1>18. ASSUME NEW r \in Round, TokenExpires(r) PROVE Shape'
  BY <1>18 DEF TokenExpires
<1> QED
  BY <1>1, <1>2, <1>3, <1>4, <1>5, <1>6, <1>7, <1>8, <1>9,
     <1>10, <1>11, <1>12, <1>13, <1>14, <1>15, <1>16, <1>17, <1>18 DEF Next, Crash, WatchdogPanic

\* Two Agents never hold the same row, even two rounds on one queue file.
LEMMA HoldersNext == IInv /\ [Next]_vars => HoldersAgree'
<1> SUFFICES ASSUME IInv, [Next]_vars
             PROVE  HoldersAgree'
  OBVIOUS
<1> USE DEF IInv, Types, HoldsWhileWorking, HoldersAgree, Q!RowsIn, Working, Nobody,
          queueVars, procVars, agentVars, netVars
<1>1. CASE Start
  BY <1>1 DEF Start, InitRound, Q!InitQueue
<1>2. CASE Reading
  BY <1>2 DEF Reading, Q!EnqueueData
<1>3. CASE LoopPanic
  BY <1>3 DEF LoopPanic
<1>4. CASE NextRound
  BY <1>4 DEF NextRound, InitRound, Q!InitQueue
<1>5. ASSUME Die PROVE HoldersAgree'
  BY <1>5 DEF Die
<1>6. ASSUME NEW r \in Round, AgentDequeue(r) PROVE HoldersAgree'
  BY <1>6 DEF AgentDequeue, Q!DequeueData, Q!WAITING, Q!TAKEN
<1>7. ASSUME NEW r \in Round, AgentPublish(r) PROVE HoldersAgree'
  BY <1>7 DEF AgentPublish
<1>8. ASSUME NEW r \in Round, AgentPublishFails(r) PROVE HoldersAgree'
  BY <1>8 DEF AgentPublishFails
<1>9. ASSUME NEW r \in Round, AgentAck(r) PROVE HoldersAgree'
  BY <1>9 DEF AgentAck, Q!Ack, Q!setStatus, Q!ACKED, Q!TAKEN
<1>10. ASSUME NEW r \in Round, AgentExit(r) PROVE HoldersAgree'
  BY <1>10 DEF AgentExit
<1>11. ASSUME NEW r \in Round, ConnLost(r) PROVE HoldersAgree'
  BY <1>11 DEF ConnLost
<1>12. ASSUME NEW r \in Round, Connect(r) PROVE HoldersAgree'
  BY <1>12 DEF Connect
<1>13. ASSUME NEW r \in Round, BrokerAccept(r) PROVE HoldersAgree'
  BY <1>13 DEF BrokerAccept
<1>14. ASSUME NEW r \in Round, PubAck(r) PROVE HoldersAgree'
  BY <1>14 DEF PubAck
<1>15. ASSUME NEW r \in Round, Watchdog(r) PROVE HoldersAgree'
  BY <1>15 DEF Watchdog
<1>16. CASE Tick
  BY <1>16 DEF Tick
<1>17. CASE UNCHANGED vars
  BY <1>17 DEF vars
<1>18. ASSUME NEW r \in Round, TokenExpires(r) PROVE HoldersAgree'
  BY <1>18 DEF TokenExpires
<1> QED
  BY <1>1, <1>2, <1>3, <1>4, <1>5, <1>6, <1>7, <1>8, <1>9,
     <1>10, <1>11, <1>12, <1>13, <1>14, <1>15, <1>16, <1>17, <1>18 DEF Next, Crash, WatchdogPanic

\* What the broker accepted stays known up to the Ack.
LEMMA AcceptedNext == IInv /\ [Next]_vars => AcceptedIsPublished'
<1> SUFFICES ASSUME IInv, [Next]_vars
             PROVE  AcceptedIsPublished'
  OBVIOUS
<1> USE DEF IInv, Types, HoldsWhileWorking, PacketHasWaiter, NotBegunIsOff,
          AcceptedIsPublished, Working, Nobody,
          queueVars, procVars, agentVars, netVars
<1>1. CASE Start
  BY <1>1 DEF Start, InitRound, AcceptedRows
<1>2. CASE Reading
  BY <1>2 DEF Reading, AcceptedRows
<1>3. CASE LoopPanic
  BY <1>3 DEF LoopPanic, AcceptedRows
<1>4. CASE NextRound
  BY <1>4 DEF NextRound, InitRound, AcceptedRows
<1>5. ASSUME Die PROVE AcceptedIsPublished'
  BY <1>5 DEF Die, AcceptedRows
<1>6. ASSUME NEW r \in Round, AgentDequeue(r) PROVE AcceptedIsPublished'
  <2>1. PICK id : holds' = [holds EXCEPT ![r] = id]
    BY <1>6 DEF AgentDequeue
  <2>2. out[r] = "none" /\ out' = out
    BY <1>6 DEF AgentDequeue
  <2>3. AcceptedRows' = AcceptedRows
    BY <1>6 DEF AgentDequeue, AcceptedRows
  <2>4. pc' = [pc EXCEPT ![r] = "publish"]
    BY <1>6 DEF AgentDequeue
  <2> QED
    BY <2>1, <2>2, <2>3, <2>4
<1>7. ASSUME NEW r \in Round, AgentPublish(r) PROVE AcceptedIsPublished'
  BY <1>7 DEF AgentPublish, AcceptedRows
<1>8. ASSUME NEW r \in Round, AgentPublishFails(r) PROVE AcceptedIsPublished'
  BY <1>8 DEF AgentPublishFails, AcceptedRows
<1>9. ASSUME NEW r \in Round, AgentAck(r) PROVE AcceptedIsPublished'
  <2>1. holds' = [holds EXCEPT ![r] = 0] /\ pc' = [pc EXCEPT ![r] = "loop"]
    BY <1>9 DEF AgentAck
  <2>2. out[r] = "none" /\ out' = out
    BY <1>9 DEF AgentAck
  <2>3. AcceptedRows' = AcceptedRows
    BY <1>9 DEF AgentAck, AcceptedRows
  <2> QED
    BY <2>1, <2>2, <2>3
<1>10. ASSUME NEW r \in Round, AgentExit(r) PROVE AcceptedIsPublished'
  BY <1>10 DEF AgentExit, AcceptedRows
<1>11. ASSUME NEW r \in Round, ConnLost(r) PROVE AcceptedIsPublished'
  BY <1>11 DEF ConnLost, Unsent, AcceptedRows
<1>12. ASSUME NEW r \in Round, Connect(r) PROVE AcceptedIsPublished'
  BY <1>12 DEF Connect, Unsent, AcceptedRows
<1>13. ASSUME NEW r \in Round, BrokerAccept(r) PROVE AcceptedIsPublished'
  <2>1. holds[r] \in Row
    BY <1>13, TrackyAssumption DEF BrokerAccept, Row
  <2>2. AcceptedRows' = AcceptedRows \cup {holds[r]}
    BY <1>13, <2>1, AcceptedGrows DEF BrokerAccept
  <2> QED
    BY <1>13, <2>2 DEF BrokerAccept
<1>14. ASSUME NEW r \in Round, PubAck(r) PROVE AcceptedIsPublished'
  BY <1>14 DEF PubAck, AcceptedRows
<1>15. ASSUME NEW r \in Round, Watchdog(r) PROVE AcceptedIsPublished'
  BY <1>15 DEF Watchdog, AcceptedRows
<1>16. CASE Tick
  BY <1>16 DEF Tick, AcceptedRows
<1>17. CASE UNCHANGED vars
  BY <1>17 DEF vars, AcceptedRows
<1>18. ASSUME NEW r \in Round, TokenExpires(r) PROVE AcceptedIsPublished'
  BY <1>18 DEF TokenExpires, AcceptedRows
<1> QED
  BY <1>1, <1>2, <1>3, <1>4, <1>5, <1>6, <1>7, <1>8, <1>9,
     <1>10, <1>11, <1>12, <1>13, <1>14, <1>15, <1>16, <1>17, <1>18 DEF Next, Crash, WatchdogPanic

\* An Ack is for a row the broker accepted.
LEMMA AckedNext == IInv /\ [Next]_vars => AckedWasPublished'
<1> SUFFICES ASSUME IInv, [Next]_vars
             PROVE  AckedWasPublished'
  OBVIOUS
<1> USE DEF IInv, Types, AckedWasPublished, Q!RowsIn, Q!ACKED,
          queueVars, procVars, agentVars, netVars
<1>1. ASSUME Start PROVE AckedWasPublished'
  <2>1. table' = table /\ published' = published
    BY <1>1 DEF Start, InitRound, Q!InitQueue
  <2>2. AcceptedRows' = AcceptedRows
    BY <2>1 DEF AcceptedRows
  <2> QED
    BY <2>1, <2>2
<1>2. CASE Reading
  BY <1>2 DEF Reading, Q!EnqueueData, Q!WAITING, AcceptedRows
<1>3. CASE LoopPanic
  BY <1>3 DEF LoopPanic, AcceptedRows
<1>4. CASE NextRound
  BY <1>4 DEF NextRound, InitRound, Q!InitQueue, AcceptedRows
<1>5. ASSUME Die PROVE AckedWasPublished'
  BY <1>5 DEF Die, AcceptedRows
<1>6. ASSUME NEW r \in Round, AgentDequeue(r) PROVE AckedWasPublished'
  BY <1>6 DEF AgentDequeue, Q!DequeueData, Q!TAKEN, AcceptedRows
<1>7. ASSUME NEW r \in Round, AgentPublish(r) PROVE AckedWasPublished'
  BY <1>7 DEF AgentPublish, AcceptedRows
<1>8. ASSUME NEW r \in Round, AgentPublishFails(r) PROVE AckedWasPublished'
  BY <1>8 DEF AgentPublishFails, AcceptedRows
<1>9. ASSUME NEW r \in Round, AgentAck(r) PROVE AckedWasPublished'
  <2>1. holds[r] \in AcceptedRows
    BY <1>9 DEF AgentAck, AcceptedIsPublished
  <2>2. AcceptedRows' = AcceptedRows
    BY <1>9 DEF AgentAck, AcceptedRows
  <2>3. Q!RowsIn(Q!ACKED)' \subseteq Q!RowsIn(Q!ACKED) \cup {holds[r]}
    BY <1>9 DEF AgentAck, Q!Ack, Q!setStatus
  <2> QED
    BY <2>1, <2>2, <2>3
<1>10. ASSUME NEW r \in Round, AgentExit(r) PROVE AckedWasPublished'
  BY <1>10 DEF AgentExit, AcceptedRows
<1>11. ASSUME NEW r \in Round, ConnLost(r) PROVE AckedWasPublished'
  BY <1>11 DEF ConnLost, AcceptedRows
<1>12. ASSUME NEW r \in Round, Connect(r) PROVE AckedWasPublished'
  BY <1>12 DEF Connect, AcceptedRows
<1>13. ASSUME NEW r \in Round, BrokerAccept(r) PROVE AckedWasPublished'
  <2>1. holds[r] \in Row
    BY <1>13, TrackyAssumption DEF BrokerAccept, Row, PacketHasWaiter, HoldsWhileWorking, Working, Nobody
  <2>2. AcceptedRows' = AcceptedRows \cup {holds[r]}
    BY <1>13, <2>1, AcceptedGrows DEF BrokerAccept
  <2> QED
    BY <1>13, <2>2 DEF BrokerAccept
<1>14. ASSUME NEW r \in Round, PubAck(r) PROVE AckedWasPublished'
  BY <1>14 DEF PubAck, AcceptedRows
<1>15. ASSUME NEW r \in Round, Watchdog(r) PROVE AckedWasPublished'
  BY <1>15 DEF Watchdog, AcceptedRows
<1>16. CASE Tick
  BY <1>16 DEF Tick, AcceptedRows
<1>17. CASE UNCHANGED vars
  BY <1>17 DEF vars, AcceptedRows
<1>18. ASSUME NEW r \in Round, TokenExpires(r) PROVE AckedWasPublished'
  BY <1>18 DEF TokenExpires, AcceptedRows
<1> QED
  BY <1>1, <1>2, <1>3, <1>4, <1>5, <1>6, <1>7, <1>8, <1>9,
     <1>10, <1>11, <1>12, <1>13, <1>14, <1>15, <1>16, <1>17, <1>18 DEF Next, Crash, WatchdogPanic

\* Every step keeps the invariant of packets and Agents.
LEMMA IInvNext == IInv /\ [Next]_vars => IInv'
BY TypesNext, ShapeNext, HoldersNext, AcceptedNext, AckedNext DEF IInv, Shape

\* Every variable keeps its type, whatever the bounds and the watchdog period.
THEOREM TypeCorrect == Spec => []TypeOK
<1>1. IInv => TypeOK
  BY TypesIsTypeOK DEF IInv
<1> QED
  BY <1>1, IInvInit, IInvNext, PTL DEF Spec

\* No reading is acked out of the queue before the broker accepted it: through
\* crashes, recovered rounds, lost connections and failed publishes.
THEOREM NoReadingAckedUnpublished == Spec => []AckedWasPublished
<1>1. IInv => AckedWasPublished
  BY DEF IInv
<1> QED
  BY <1>1, IInvInit, IInvNext, PTL DEF Spec

\* A step that leaves the file and every holder alone is a stuttering step of
\* the queue.
LEMMA QueueIdle ==
    ASSUME UNCHANGED <<table, seq, holds>> PROVE UNCHANGED Q!vars
BY DEF Q!vars, Held

\* A new device's queue is an empty queue.
LEMMA QueueInit == Init => Q!Init
<1> SUFFICES ASSUME Init PROVE Q!Init
  OBVIOUS
<1>1. Held = {}
  BY Fresh DEF Init, Held, Nobody
<1> QED
  BY <1>1 DEF Init, Q!Init

\* Every step of the agent is a step of one of the queue's callers.
LEMMA QueueNext == IInv /\ [Next]_vars => [Q!Next]_(Q!vars)
<1> SUFFICES ASSUME IInv, [Next]_vars
             PROVE  [Q!Next]_(Q!vars)
  OBVIOUS
<1> USE DEF queueVars, procVars, agentVars, netVars
<1>1. CASE Start
  BY <1>1, QueueIdle DEF Start, InitRound, Q!InitQueue
<1>2. CASE Reading
  <2>1. Held' = Held
    BY <1>2 DEF Reading, Held
  <2> QED
    BY <1>2, <2>1 DEF Reading, Q!Next, Q!Insert
<1>3. CASE LoopPanic
  BY <1>3, QueueIdle DEF LoopPanic
<1>4. CASE NextRound
  BY <1>4, QueueIdle DEF NextRound, InitRound, Q!InitQueue
<1>5. ASSUME Die PROVE [Q!Next]_(Q!vars)
  <2>1. holds' = [r \in Round |-> Nobody]
    BY <1>5 DEF Die
  <2>2. Held' = {}
    BY <2>1, Fresh DEF Held, Nobody
  <2>3. Q!Restart
    BY <1>5, <2>2 DEF Die, Q!Restart, Q!InitQueue
  <2> QED
    BY <2>3 DEF Q!Next
<1>6. ASSUME NEW r \in Round, AgentDequeue(r) PROVE [Q!Next]_(Q!vars)
  <2>1. PICK id \in Q!RowsIn(Q!WAITING) :
            Q!DequeueData(id) /\ holds' = [holds EXCEPT ![r] = id]
    BY <1>6 DEF AgentDequeue
  <2>2. holds \in [Round -> Nat] /\ holds[r] = 0
    BY <1>6 DEF AgentDequeue, IInv, Types, HoldsWhileWorking, Working, Nobody
  <2>3. id # 0
    BY <2>1 DEF IInv, Types, Q!RowsIn
  <2>4. Held' = Held \cup {id}
    BY <2>1, <2>2, <2>3 DEF Held, Nobody
  <2> QED
    BY <2>1, <2>4 DEF Q!Next, Q!HandOut
<1>7. ASSUME NEW r \in Round, AgentPublish(r) PROVE [Q!Next]_(Q!vars)
  BY <1>7, QueueIdle DEF AgentPublish
<1>8. ASSUME NEW r \in Round, AgentPublishFails(r) PROVE [Q!Next]_(Q!vars)
  BY <1>8, QueueIdle DEF AgentPublishFails
<1>9. ASSUME NEW r \in Round, AgentAck(r) PROVE [Q!Next]_(Q!vars)
  <2>1. holds \in [Round -> Nat] /\ holds[r] # 0
    BY <1>9 DEF AgentAck, IInv, Types, HoldsWhileWorking, Working, Nobody
  <2>2. holds' = [holds EXCEPT ![r] = 0]
    BY <1>9 DEF AgentAck, Nobody
  <2>3. \A o \in Round : o # r => holds[o] # holds[r]
    BY <2>1 DEF IInv, HoldersAgree, Nobody
  <2>4. holds[r] \in Held /\ Held' = Held \ {holds[r]}
    BY <2>1, <2>2, <2>3 DEF Held, Nobody
  <2>5. Q!Settle(holds[r])
    BY <1>9, <2>4 DEF AgentAck, Q!Settle
  <2> QED
    BY <2>4, <2>5 DEF Q!Next
<1>10. ASSUME NEW r \in Round, AgentExit(r) PROVE [Q!Next]_(Q!vars)
  BY <1>10, QueueIdle DEF AgentExit
<1>11. ASSUME NEW r \in Round, ConnLost(r) PROVE [Q!Next]_(Q!vars)
  BY <1>11, QueueIdle DEF ConnLost
<1>12. ASSUME NEW r \in Round, Connect(r) PROVE [Q!Next]_(Q!vars)
  BY <1>12, QueueIdle DEF Connect
<1>13. ASSUME NEW r \in Round, BrokerAccept(r) PROVE [Q!Next]_(Q!vars)
  BY <1>13, QueueIdle DEF BrokerAccept
<1>14. ASSUME NEW r \in Round, PubAck(r) PROVE [Q!Next]_(Q!vars)
  BY <1>14, QueueIdle DEF PubAck
<1>15. ASSUME NEW r \in Round, Watchdog(r) PROVE [Q!Next]_(Q!vars)
  BY <1>15, QueueIdle DEF Watchdog
<1>16. CASE Tick
  BY <1>16, QueueIdle DEF Tick
<1>17. CASE UNCHANGED vars
  BY <1>17, QueueIdle DEF vars
<1>18. ASSUME NEW r \in Round, TokenExpires(r) PROVE [Q!Next]_(Q!vars)
  BY <1>18, QueueIdle DEF TokenExpires
<1> QED
  BY <1>1, <1>2, <1>3, <1>4, <1>5, <1>6, <1>7, <1>8, <1>9,
     <1>10, <1>11, <1>12, <1>13, <1>14, <1>15, <1>16, <1>17, <1>18 DEF Next, Crash, WatchdogPanic

\* The Agents of all rounds are proper callers of the queue: together they
\* never hold one row twice and settle only what they hold.  With
\* QueueRefinement of PersistentQueueProofs the device is a work queue.
THEOREM AgentsUseQueueWell == Spec => UsesQueueWell
<1>1. IInv /\ IInv' /\ [Next]_vars => [Q!Next]_(Q!vars)
  BY QueueNext
<1> QED
  BY <1>1, IInvInit, IInvNext, QueueInit, PTL DEF Spec, UsesQueueWell, Q!Spec

\* Only the broker adds to what was published.
LEMMA OnlyBrokerAccepts ==
    IInv /\ [Next]_vars /\ published' # published => \E r \in Round : BrokerAccept(r)
<1> SUFFICES ASSUME IInv, [Next]_vars, published' # published
             PROVE  \E r \in Round : BrokerAccept(r)
  OBVIOUS
<1> USE DEF queueVars, procVars, agentVars, netVars
<1>1. ~ UNCHANGED vars /\ ~ Die
  BY DEF vars, Die
<1>2. ~ (Start \/ Reading \/ LoopPanic \/ NextRound \/ Tick)
  BY DEF Start, Reading, LoopPanic, NextRound, Tick
<1>3. \A r \in Round :
        ~ (AgentDequeue(r) \/ AgentPublish(r) \/ AgentPublishFails(r)
            \/ AgentAck(r) \/ AgentExit(r))
  BY DEF AgentDequeue, AgentPublish, AgentPublishFails, AgentAck, AgentExit
<1>4. \A r \in Round :
        ~ (ConnLost(r) \/ Connect(r) \/ TokenExpires(r) \/ PubAck(r) \/ Watchdog(r))
  BY DEF ConnLost, Connect, TokenExpires, PubAck, Watchdog
<1> QED
  BY <1>1, <1>2, <1>3, <1>4 DEF Next, Crash, WatchdogPanic

\* The broker never accepts a reading whose row was already acked, so acking
\* ends a reading's traffic for good, across rounds and restarts.
THEOREM NothingAfterAck == Spec => NoPublishAfterAck
<1>1. ASSUME IInv, [Next]_vars, published' # published
      PROVE  published'[Len(published')] \notin Q!RowsIn(Q!ACKED)
  <2>1. PICK r \in Round : BrokerAccept(r)
    BY <1>1, OnlyBrokerAccepts
  <2>2. out[r] # "none" /\ published' = Append(published, holds[r])
    BY <2>1 DEF BrokerAccept
  <2>3. holds[r] \in Q!RowsIn(Q!TAKEN)
    BY <1>1, <2>2 DEF IInv, PacketHasWaiter, HoldsWhileWorking, Working, HoldersAgree
  <2>4. published'[Len(published')] = holds[r]
    BY <1>1, <2>2 DEF IInv, Types
  <2> QED
    BY <2>3, <2>4 DEF Q!RowsIn, Q!TAKEN, Q!ACKED
<1>2. IInv /\ [Next]_vars =>
        [published' # published =>
            published'[Len(published')] \notin Q!RowsIn(Q!ACKED)]_vars
  BY <1>1
<1> QED
  BY <1>2, IInvInit, IInvNext, PTL DEF Spec, NoPublishAfterAck

------------------------------------------------------------------------------
(* What the agent may lose, repeat and reorder.  These count and compare rows,
   so they need more than the invariant above: what was published was taken,
   and in which order rows are taken. *)

Waiting == Q!RowsIn(Q!WAITING)
Taken == (DOMAIN table) \ Waiting

\* A row that the broker has seen was taken, and nobody puts it back; a row in
\* an Agent's hands that it did not publish yet was not seen by the broker.
SeenWasTaken ==
    /\ AcceptedRows \subseteq Taken
    /\ \A r \in Round : pc[r] = "publish" => holds[r] \notin AcceptedRows

\* A packet that the broker has accepted and will be given again.
Resends == {r \in Round : out[r] \in {"stored", "wire"} /\ holds[r] \in AcceptedRows}

\* The resends to come are paid for by lost connections, as those that were.
ResendsNeedDrops ==
    Len(published) + Cardinality(Resends) <= drops + Cardinality(AcceptedRows)

\* Rows are taken from the oldest on, and the first round's Agent has the
\* newest that was taken.
TakenInOrder ==
    /\ \A x \in Taken, w \in Waiting : x < w
    /\ round <= 1 => \A r \in Round : holds[r] # Nobody => \A x \in Taken : x <= holds[r]

\* Every process but the one that runs has died.
Deaths == IF up THEN starts - 1 ELSE starts

LossInv ==
    /\ IInv
    /\ up => starts > 0
    /\ SeenWasTaken
    /\ ResendsNeedDrops
    /\ TakenInOrder
    /\ LossPerDeathIsBounded

------------------------------------------------------------------------------
\* Nothing but a dequeue takes a row, gives one to an Agent or has it publish
\* one; and only a process that starts begins a first round.
Keeps ==
    /\ Taken' = Taken
    /\ Waiting' \subseteq Waiting \cup {seq + 1}
    /\ \A o \in Round : holds'[o] \in {holds[o], Nobody}
    /\ \A o \in Round : pc'[o] = "publish" => pc[o] = "publish" /\ holds'[o] = holds[o]
    /\ round' <= 1 => round' = round \/ \A o \in Round : holds'[o] = Nobody

\* Every step but a dequeue is one of Keeps.
LEMMA OthersKeep ==
    IInv /\ [Next]_vars /\ ~ (\E r \in Round : AgentDequeue(r)) => Keeps
<1> SUFFICES ASSUME IInv, [Next]_vars, ~ (\E r \in Round : AgentDequeue(r))
             PROVE  Keeps
  OBVIOUS
<1> USE DEF Keeps, IInv, Types, HoldsWhileWorking, NotBegunIsOff, Working, Nobody,
          Taken, Waiting, Q!RowsIn, Q!WAITING, queueVars, procVars, agentVars, netVars
<1>1. ASSUME Start PROVE Keeps
  BY <1>1 DEF Start, InitRound, Q!InitQueue, Round
<1>2. ASSUME Reading PROVE Keeps
  BY <1>2 DEF Reading, Q!EnqueueData
<1>3. ASSUME LoopPanic PROVE Keeps
  BY <1>3 DEF LoopPanic
<1>4. ASSUME NextRound PROVE Keeps
  BY <1>4 DEF NextRound, InitRound, Q!InitQueue, Round
<1>5. ASSUME Die PROVE Keeps
  BY <1>5 DEF Die
<1>6. ASSUME NEW r \in Round, AgentPublish(r) PROVE Keeps
  BY <1>6 DEF AgentPublish
<1>7. ASSUME NEW r \in Round, AgentPublishFails(r) PROVE Keeps
  BY <1>7 DEF AgentPublishFails
<1>8. ASSUME NEW r \in Round, AgentAck(r) PROVE Keeps
  <2>1. Q!RowsIn(Q!TAKEN) \subseteq Taken /\ holds[r] \in Taken
    BY <1>8 DEF AgentAck, HoldersAgree, Q!TAKEN
  <2>2. Taken' = Taken /\ Waiting' = Waiting
    BY <1>8, <2>1 DEF AgentAck, Q!Ack, Q!setStatus, Q!ACKED
  <2> QED
    BY <1>8, <2>2 DEF AgentAck
<1>9. ASSUME NEW r \in Round, AgentExit(r) PROVE Keeps
  BY <1>9 DEF AgentExit
<1>10. ASSUME NEW r \in Round, ConnLost(r) PROVE Keeps
  BY <1>10 DEF ConnLost
<1>11. ASSUME NEW r \in Round, Connect(r) PROVE Keeps
  BY <1>11 DEF Connect
<1>12. ASSUME NEW r \in Round, BrokerAccept(r) PROVE Keeps
  BY <1>12 DEF BrokerAccept
<1>13. ASSUME NEW r \in Round, PubAck(r) PROVE Keeps
  BY <1>13 DEF PubAck
<1>14. ASSUME NEW r \in Round, Watchdog(r) PROVE Keeps
  BY <1>14 DEF Watchdog
<1>15. ASSUME NEW r \in Round, TokenExpires(r) PROVE Keeps
  BY <1>15 DEF TokenExpires
<1>16. ASSUME Tick PROVE Keeps
  BY <1>16 DEF Tick
<1>17. ASSUME UNCHANGED vars PROVE Keeps
  BY <1>17 DEF vars
<1> QED
  BY <1>1, <1>2, <1>3, <1>4, <1>5, <1>6, <1>7, <1>8, <1>9, <1>10, <1>11, <1>12, <1>13, <1>14, <1>15, <1>16, <1>17 DEF Next, Crash, WatchdogPanic

\* A dequeue gives an Agent the oldest row that waits, and moves no other.
LEMMA Dequeues ==
    ASSUME IInv, NEW r \in Round, AgentDequeue(r)
    PROVE  \E id \in Waiting :
             /\ \A w \in Waiting : id <= w
             /\ Taken' = Taken \cup {id} /\ Waiting' = Waiting \ {id}
             /\ holds' = [holds EXCEPT ![r] = id]
             /\ pc' = [pc EXCEPT ![r] = "publish"]
             /\ UNCHANGED <<published, out, round, up, starts, drops>>
<1>1. PICK id \in Waiting : Q!DequeueData(id) /\ holds' = [holds EXCEPT ![r] = id]
  BY DEF AgentDequeue, Waiting
<1>2. id \in DOMAIN table /\ table' = [table EXCEPT ![id] = Q!TAKEN]
  BY <1>1 DEF Q!DequeueData, Q!RowsIn
<1>3. Waiting' = Waiting \ {id}
  BY <1>2 DEF Waiting, Q!RowsIn, Q!WAITING, Q!TAKEN
<1>4. DOMAIN table' = DOMAIN table /\ Waiting \subseteq DOMAIN table
  BY <1>2 DEF Waiting, Q!RowsIn
<1>5. Taken' = Taken \cup {id}
  BY <1>1, <1>3, <1>4 DEF Taken
<1>6. \A w \in Waiting : id <= w
  BY <1>1 DEF Q!DequeueData, Waiting
<1>7. /\ pc' = [pc EXCEPT ![r] = "publish"]
      /\ UNCHANGED <<published, out, round, up, starts, drops>>
  BY DEF AgentDequeue, procVars, netVars
<1> QED
  BY <1>1, <1>3, <1>5, <1>6, <1>7

\* The rows accepted depend on what was published only.
LEMMA AcceptedSame == ASSUME published' = published PROVE AcceptedRows' = AcceptedRows
BY DEF AcceptedRows

\* Only an acceptance shows the broker a row, the one that the Agent holds.
LEMMA Accepts ==
    ASSUME IInv, [Next]_vars
    PROVE  \/ published' = published /\ AcceptedRows' = AcceptedRows
           \/ \E r \in Round :
                /\ BrokerAccept(r)
                /\ holds[r] \in Row /\ published' = Append(published, holds[r])
                /\ AcceptedRows' = AcceptedRows \cup {holds[r]}
<1>1. CASE published' = published
  BY <1>1, AcceptedSame
<1>2. CASE published' # published
  <2>1. PICK r \in Round : BrokerAccept(r)
    BY <1>2, OnlyBrokerAccepts
  <2>2. holds[r] \in Row
    BY <2>1, TrackyAssumption DEF IInv, Types, BrokerAccept, Row, PacketHasWaiter, HoldsWhileWorking, Working, Nobody
  <2>3. published' = Append(published, holds[r]) /\ published \in Seq(Row)
    BY <2>1 DEF BrokerAccept, IInv, Types
  <2> QED
    BY <2>1, <2>2, <2>3, AcceptedGrows
<1> QED
  BY <1>1, <1>2

\* What the broker has seen was taken, after every step too.
LEMMA SeenNext == IInv /\ SeenWasTaken /\ [Next]_vars => SeenWasTaken'
<1> SUFFICES ASSUME IInv, SeenWasTaken, [Next]_vars
             PROVE  SeenWasTaken'
  OBVIOUS
<1>1. ASSUME NEW r \in Round, AgentDequeue(r) PROVE SeenWasTaken'
  <2>1. PICK id \in Waiting :
          /\ Taken' = Taken \cup {id}
          /\ holds' = [holds EXCEPT ![r] = id]
          /\ pc' = [pc EXCEPT ![r] = "publish"]
          /\ published' = published
    BY <1>1, Dequeues
  <2>2. AcceptedRows' = AcceptedRows
    BY <2>1, AcceptedSame
  <2>3. id \notin AcceptedRows
    BY DEF SeenWasTaken, Taken
  <2>4. holds \in [Round -> Nat] /\ DOMAIN pc = Round
    BY DEF IInv, Types
  <2> QED
    BY <2>1, <2>2, <2>3, <2>4 DEF SeenWasTaken
<1>2. ASSUME ~ (\E r \in Round : AgentDequeue(r)) PROVE SeenWasTaken'
  <2>1. Keeps
    BY <1>2, OthersKeep
  <2>2. CASE AcceptedRows' = AcceptedRows
    BY <2>1, <2>2 DEF SeenWasTaken, Keeps
  <2>3. ASSUME NEW r \in Round, BrokerAccept(r), AcceptedRows' = AcceptedRows \cup {holds[r]}
        PROVE  SeenWasTaken'
    <3>1. out[r] # "none" /\ pc[r] # "publish" /\ holds[r] # Nobody
      BY <2>3 DEF BrokerAccept, IInv, PacketHasWaiter, HoldsWhileWorking, Working
    <3>2. holds[r] \in Taken
      BY <3>1 DEF IInv, HoldersAgree, Taken, Waiting, Q!RowsIn, Q!WAITING, Q!TAKEN
    <3>3. \A o \in Round : pc[o] = "publish" => holds[o] # holds[r]
      BY <3>1 DEF IInv, HoldersAgree
    <3> QED
      BY <2>1, <2>3, <3>2, <3>3 DEF SeenWasTaken, Keeps
  <2> QED
    BY <2>2, <2>3, Accepts
<1> QED
  BY <1>1, <1>2

\* Rows are taken in the order of their ids, after every step too.
LEMMA OrderNext == IInv /\ TakenInOrder /\ [Next]_vars => TakenInOrder'
<1> SUFFICES ASSUME IInv, TakenInOrder, [Next]_vars
             PROVE  TakenInOrder'
  OBVIOUS
<1>0. Taken \subseteq 1 .. seq /\ Waiting \subseteq 1 .. seq /\ seq \in Nat
  BY TrackyAssumption DEF IInv, Types, Taken, Waiting, Q!RowsIn
<1>1. ASSUME NEW r \in Round, AgentDequeue(r) PROVE TakenInOrder'
  <2>1. PICK id \in Waiting :
          /\ \A w \in Waiting : id <= w
          /\ Taken' = Taken \cup {id} /\ Waiting' = Waiting \ {id}
          /\ holds' = [holds EXCEPT ![r] = id]
          /\ round' = round
    BY <1>1, Dequeues
  <2>2. \A x \in Taken', w \in Waiting' : x < w
    BY <1>0, <2>1 DEF TakenInOrder
  <2>3. round <= 1 => \A o \in Round : o # r => holds[o] = Nobody
    <3>1. pc[r] # "off" /\ \A o \in Round : o > round => pc[o] = "off"
      BY <1>1 DEF AgentDequeue, IInv, NotBegunIsOff
    <3>2. \A o \in Round : o > round => holds[o] = Nobody
      BY <3>1 DEF IInv, HoldsWhileWorking, Working
    <3>3. round \in Nat
      BY TrackyAssumption DEF IInv, Types
    <3> QED
      BY <3>1, <3>2, <3>3, TrackyAssumption DEF Round
  <2>4. round' <= 1 => \A o \in Round : holds'[o] # Nobody => \A x \in Taken' : x <= holds'[o]
    BY <1>0, <2>1, <2>3 DEF TakenInOrder, IInv, Types
  <2> QED
    BY <2>2, <2>4 DEF TakenInOrder
<1>2. ASSUME ~ (\E r \in Round : AgentDequeue(r)) PROVE TakenInOrder'
  <2>1. Keeps
    BY <1>2, OthersKeep
  <2>2. ASSUME NEW x \in Taken', NEW w \in Waiting' PROVE x < w
    <3>1. x \in Taken /\ x \in 1 .. seq
      BY <1>0, <2>1 DEF Keeps
    <3>2. CASE w \in Waiting
      BY <3>1, <3>2 DEF TakenInOrder
    <3>3. CASE w = seq + 1
      BY <1>0, <3>1, <3>3
    <3> QED
      BY <2>1, <3>2, <3>3 DEF Keeps
  <2>3. ASSUME round' <= 1, NEW o \in Round, holds'[o] # Nobody, NEW x \in Taken'
        PROVE  x <= holds'[o]
    <3>1. round' = round /\ holds'[o] = holds[o] /\ x \in Taken
      BY <2>1, <2>3 DEF Keeps
    <3> QED
      BY <2>3, <3>1 DEF TakenInOrder
  <2> QED
    BY <2>2, <2>3 DEF TakenInOrder
<1> QED
  BY <1>1, <1>2

------------------------------------------------------------------------------
(* Resends *)

\* Sets of rows are finite.
LEMMA RowsFinite ==
    ASSUME IInv
    PROVE  IsFiniteSet(AcceptedRows) /\ Cardinality(AcceptedRows) \in Nat
<1>1. IsFiniteSet(1 .. Len(published)) /\ IsFiniteSet(Row)
  BY FS_Interval, TrackyAssumption DEF IInv, Types, Row
<1>2. AcceptedRows \subseteq Row
  BY DEF IInv, Types, AcceptedRows
<1> QED
  BY <1>1, <1>2, FS_Subset, FS_CardinalityType

\* Sets of rounds are finite.
LEMMA RoundSets == ASSUME NEW S \in SUBSET Round PROVE IsFiniteSet(S) /\ Cardinality(S) \in Nat
<1>1. IsFiniteSet(Round)
  BY FS_Interval, TrackyAssumption DEF Round
<1> QED
  BY <1>1, FS_Subset, FS_CardinalityType

\* A packet comes to be resent only when a connection is lost under it.
LEMMA ResendsShrink ==
    ASSUME IInv, SeenWasTaken, [Next]_vars,
           ~ (\E r \in Round : ConnLost(r) \/ Connect(r) \/ BrokerAccept(r))
    PROVE  Resends' \subseteq Resends /\ UNCHANGED <<drops, published>>
<1> DEFINE Goal == Resends' \subseteq Resends /\ UNCHANGED <<drops, published>>
<1> USE DEF Resends, IInv, Types, HoldsWhileWorking, NotBegunIsOff, PacketHasWaiter, Working, Nobody,
          SeenWasTaken, queueVars, procVars, agentVars, netVars
<1>1. ASSUME Start PROVE Goal
  BY <1>1 DEF Start, InitRound, AcceptedRows
<1>2. ASSUME Reading PROVE Goal
  BY <1>2 DEF Reading, AcceptedRows
<1>3. ASSUME LoopPanic PROVE Goal
  BY <1>3 DEF LoopPanic, AcceptedRows
<1>4. ASSUME NextRound PROVE Goal
  BY <1>4 DEF NextRound, InitRound, AcceptedRows
<1>5. ASSUME Die PROVE Goal
  BY <1>5 DEF Die, AcceptedRows
<1>6. ASSUME NEW r \in Round, AgentDequeue(r) PROVE Goal
  <2>1. PICK id \in Waiting :
          holds' = [holds EXCEPT ![r] = id] /\ UNCHANGED <<published, out, drops>>
    BY <1>6, Dequeues
  <2>2. out[r] = "none"
    BY <1>6 DEF AgentDequeue
  <2>3. AcceptedRows' = AcceptedRows
    BY <2>1, AcceptedSame
  <2> QED
    BY <2>1, <2>2, <2>3
<1>7. ASSUME NEW r \in Round, AgentPublish(r) PROVE Goal
  BY <1>7 DEF AgentPublish, AcceptedRows
<1>8. ASSUME NEW r \in Round, AgentPublishFails(r) PROVE Goal
  BY <1>8 DEF AgentPublishFails, AcceptedRows
<1>9. ASSUME NEW r \in Round, AgentAck(r) PROVE Goal
  <2>1. out[r] = "none" /\ UNCHANGED <<out, published, drops>>
    BY <1>9 DEF AgentAck
  <2>2. \A o \in Round : o # r => holds'[o] = holds[o]
    BY <1>9 DEF AgentAck
  <2>3. AcceptedRows' = AcceptedRows
    BY <2>1, AcceptedSame
  <2> QED
    BY <2>1, <2>2, <2>3
<1>10. ASSUME NEW r \in Round, AgentExit(r) PROVE Goal
  BY <1>10 DEF AgentExit, AcceptedRows
<1>11. ASSUME NEW r \in Round, PubAck(r) PROVE Goal
  BY <1>11 DEF PubAck, AcceptedRows
<1>12. ASSUME NEW r \in Round, Watchdog(r) PROVE Goal
  BY <1>12 DEF Watchdog, AcceptedRows
<1>13. ASSUME NEW r \in Round, TokenExpires(r) PROVE Goal
  BY <1>13 DEF TokenExpires, AcceptedRows
<1>14. ASSUME Tick PROVE Goal
  BY <1>14 DEF Tick, AcceptedRows
<1>15. ASSUME UNCHANGED vars PROVE Goal
  BY <1>15 DEF vars, AcceptedRows
<1> QED
  BY <1>1, <1>2, <1>3, <1>4, <1>5, <1>6, <1>7, <1>8, <1>9, <1>10, <1>11, <1>12, <1>13, <1>14, <1>15 DEF Next, Crash, WatchdogPanic

\* Every step pays for the resends it makes with a lost connection.
LEMMA ResendsNext ==
    IInv /\ SeenWasTaken /\ ResendsNeedDrops /\ [Next]_vars => ResendsNeedDrops'
<1> SUFFICES ASSUME IInv, SeenWasTaken, ResendsNeedDrops, [Next]_vars
             PROVE  ResendsNeedDrops'
  OBVIOUS
<1>1. /\ Resends \in SUBSET Round /\ Resends' \in SUBSET Round
      /\ Cardinality(Resends) \in Nat /\ Cardinality(Resends') \in Nat
      /\ IsFiniteSet(Resends) /\ IsFiniteSet(Resends')
  BY RoundSets DEF Resends
<1>2. /\ drops \in Nat /\ published \in Seq(Row) /\ Len(published) \in Nat
      /\ IsFiniteSet(AcceptedRows) /\ Cardinality(AcceptedRows) \in Nat
  BY RowsFinite, TrackyAssumption DEF IInv, Types
<1>3. ASSUME ~ (\E r \in Round : ConnLost(r) \/ Connect(r) \/ BrokerAccept(r))
      PROVE  ResendsNeedDrops'
  <2>1. Resends' \subseteq Resends /\ drops' = drops /\ published' = published
    BY <1>3, ResendsShrink
  <2>2. Cardinality(Resends') <= Cardinality(Resends)
    BY <1>1, <2>1, FS_Subset
  <2>3. AcceptedRows' = AcceptedRows
    BY <2>1, AcceptedSame
  <2> QED
    BY <1>1, <1>2, <2>1, <2>2, <2>3 DEF ResendsNeedDrops
<1>4. ASSUME NEW r \in Round, ConnLost(r) PROVE ResendsNeedDrops'
  <2>1. /\ drops' = drops + 1 /\ published' = published /\ holds' = holds
        /\ out' = [out EXCEPT ![r] = Unsent(r)]
    BY <1>4 DEF ConnLost, netVars, agentVars
  <2>2. AcceptedRows' = AcceptedRows
    BY <2>1, AcceptedSame
  <2>3. Resends' \subseteq Resends \cup {r}
    BY <2>1, <2>2 DEF Resends, Unsent
  <2>4. /\ IsFiniteSet(Resends \cup {r})
        /\ Cardinality(Resends \cup {r}) \in {Cardinality(Resends), Cardinality(Resends) + 1}
    BY <1>1, FS_AddElement
  <2>5. Cardinality(Resends') <= Cardinality(Resends \cup {r})
    BY <2>3, <2>4, FS_Subset
  <2> QED
    BY <1>1, <1>2, <2>1, <2>2, <2>4, <2>5 DEF ResendsNeedDrops
<1>5. ASSUME NEW r \in Round, Connect(r) PROVE ResendsNeedDrops'
  <2> DEFINE others == {o \in Round : conn[o] = "connected"}
  <2>1. /\ drops' = drops + Cardinality(others) /\ published' = published /\ holds' = holds
        /\ out' = [o \in Round |-> IF o = r /\ out[o] = "stored" THEN "wire"
                                   ELSE IF o \in others THEN Unsent(o) ELSE out[o]]
    BY <1>5 DEF Connect, netVars, agentVars
  <2>2. AcceptedRows' = AcceptedRows
    BY <2>1, AcceptedSame
  <2>3. Resends' \subseteq Resends \cup others
    BY <2>1, <2>2 DEF Resends
  <2>4. IsFiniteSet(others) /\ Cardinality(others) \in Nat
    BY RoundSets
  <2>5. /\ IsFiniteSet(Resends \cup others)
        /\ Cardinality(Resends \cup others) =
               Cardinality(Resends) + Cardinality(others) - Cardinality(Resends \cap others)
        /\ Cardinality(Resends \cap others) \in Nat
    BY <1>1, <2>4, FS_Union, FS_Intersection, FS_CardinalityType
  <2>6. Cardinality(Resends') <= Cardinality(Resends \cup others)
    BY <2>3, <2>5, FS_Subset
  <2>7. Cardinality(Resends') <= Cardinality(Resends) + Cardinality(others)
    BY <1>1, <2>4, <2>5, <2>6
  <2>8. /\ Len(published') = Len(published)
        /\ Cardinality(AcceptedRows') = Cardinality(AcceptedRows)
        /\ drops' = drops + Cardinality(others)
    BY <2>1, <2>2
  <2> HIDE DEF others
  <2> QED
    BY <1>1, <1>2, <2>4, <2>7, <2>8 DEF ResendsNeedDrops
<1>6. ASSUME NEW r \in Round, BrokerAccept(r) PROVE ResendsNeedDrops'
  <2>1. /\ out[r] = "wire" /\ drops' = drops /\ holds' = holds
        /\ out' = [out EXCEPT ![r] = "accepted"]
        /\ published' = Append(published, holds[r])
    BY <1>6 DEF BrokerAccept, agentVars
  <2>2. holds[r] \in Row /\ holds[r] # Nobody
    BY <1>6, TrackyAssumption
    DEF IInv, Types, BrokerAccept, Row, PacketHasWaiter, HoldsWhileWorking, Working, Nobody
  <2>3. AcceptedRows' = AcceptedRows \cup {holds[r]} /\ Len(published') = Len(published) + 1
    BY <1>2, <2>1, <2>2, AcceptedGrows
  <2>4. \A o \in Round : o # r => holds[o] # holds[r]
    BY <2>2 DEF IInv, HoldersAgree
  <2>5. Resends' = Resends \ {r}
    <3>1. DOMAIN out = Round
      BY DEF IInv, Types
    <3> QED
      BY <2>1, <2>3, <2>4, <3>1 DEF Resends
  <2>6. r \in Resends <=> holds[r] \in AcceptedRows
    BY <2>1 DEF Resends
  <2>7. Cardinality(Resends') =
            IF r \in Resends THEN Cardinality(Resends) - 1 ELSE Cardinality(Resends)
    BY <1>1, <2>5, FS_RemoveElement
  <2>8. Cardinality(AcceptedRows') =
            IF holds[r] \in AcceptedRows THEN Cardinality(AcceptedRows)
            ELSE Cardinality(AcceptedRows) + 1
    BY <1>2, <2>3, FS_AddElement
  <2> QED
    BY <1>1, <1>2, <2>1, <2>3, <2>6, <2>7, <2>8 DEF ResendsNeedDrops
<1> QED
  BY <1>3, <1>4, <1>5, <1>6

------------------------------------------------------------------------------
(* Rows lost *)

\* Each round's Agent has one row at most.
LEMMA HeldBounded ==
    ASSUME IInv
    PROVE  IsFiniteSet(Held) /\ Cardinality(Held) <= MaxRounds /\ Cardinality(Held) \in Nat
<1> DEFINE all == {holds[r] : r \in Round}
<1>1. IsFiniteSet(Round) /\ Cardinality(Round) = MaxRounds
  BY FS_Interval, TrackyAssumption DEF Round
<1>2. holds \in Surjection(Round, all)
  BY DEF Surjection, IInv, Types
<1>3. IsFiniteSet(all) /\ Cardinality(all) <= MaxRounds
  BY <1>1, <1>2, FS_Surjection
<1>4. Held \subseteq all
  BY DEF Held
<1>5. /\ IsFiniteSet(Held) /\ Cardinality(Held) <= Cardinality(all)
      /\ Cardinality(Held) \in Nat /\ Cardinality(all) \in Nat
  BY <1>3, <1>4, FS_Subset, FS_CardinalityType
<1> QED
  BY <1>3, <1>5, TrackyAssumption

\* The stranded rows are finitely many, so they can be counted.
LEMMA StrandedFinite ==
    ASSUME IInv PROVE IsFiniteSet(Stranded) /\ Cardinality(Stranded) \in Nat
<1>1. IsFiniteSet(1 .. seq)
  BY FS_Interval, TrackyAssumption DEF IInv, Types
<1>2. Stranded \subseteq 1 .. seq
  BY DEF Stranded, Q!RowsIn, IInv, Types
<1> QED
  BY <1>1, <1>2, FS_Subset, FS_CardinalityType

\* While the process lives no row is stranded: what an Agent lets go of was
\* accepted.
LEMMA NothingStranded ==
    ASSUME IInv, up => starts > 0, [Next]_vars, ~ Die
    PROVE  Stranded' \subseteq Stranded /\ Deaths' = Deaths
<1> DEFINE Goal == Stranded' \subseteq Stranded /\ Deaths' = Deaths
<1> USE TrackyAssumption DEF Stranded, Held, Q!RowsIn, Q!TAKEN, Deaths, IInv, Types, Nobody,
          queueVars, procVars, agentVars, netVars
<1>1. ASSUME Start PROVE Goal
  BY <1>1 DEF Start, InitRound, Q!InitQueue, AcceptedRows
<1>2. ASSUME Reading PROVE Goal
  BY <1>2 DEF Reading, Q!EnqueueData, Q!WAITING, AcceptedRows
<1>3. ASSUME LoopPanic PROVE Goal
  BY <1>3 DEF LoopPanic, AcceptedRows
<1>4. ASSUME NextRound PROVE Goal
  BY <1>4 DEF NextRound, InitRound, Q!InitQueue, AcceptedRows
<1>5. ASSUME NEW r \in Round, AgentDequeue(r) PROVE Goal
  <2>1. PICK id \in Q!RowsIn(Q!WAITING) :
            Q!DequeueData(id) /\ holds' = [holds EXCEPT ![r] = id]
    BY <1>5 DEF AgentDequeue
  <2>2. holds[r] = 0 /\ DOMAIN holds = Round
    BY <1>5 DEF AgentDequeue, HoldsWhileWorking, Working
  <2>3. id # 0
    BY <2>1
  <2>4. Held' = Held \cup {id}
    <3> HIDE DEF IInv, Types
    <3> QED
      BY <2>1, <2>2, <2>3
  <2>5. AcceptedRows' = AcceptedRows /\ Deaths' = Deaths
    BY <1>5 DEF AgentDequeue, AcceptedRows
  <2>6. \A x \in DOMAIN table' : x \in DOMAIN table /\ (x # id => table'[x] = table[x])
    BY <2>1 DEF Q!DequeueData
  <2> QED
    BY <2>4, <2>5, <2>6
<1>6. ASSUME NEW r \in Round, AgentPublish(r) PROVE Goal
  BY <1>6 DEF AgentPublish, AcceptedRows
<1>7. ASSUME NEW r \in Round, AgentPublishFails(r) PROVE Goal
  BY <1>7 DEF AgentPublishFails, AcceptedRows
<1>8. ASSUME NEW r \in Round, AgentAck(r) PROVE Goal
  <2>1. AcceptedRows' = AcceptedRows /\ holds[r] \in AcceptedRows /\ Deaths' = Deaths
    BY <1>8 DEF AgentAck, AcceptedRows, AcceptedIsPublished
  <2>2. Q!RowsIn(Q!TAKEN)' \subseteq Q!RowsIn(Q!TAKEN)
    BY <1>8 DEF AgentAck, Q!Ack, Q!setStatus, Q!ACKED
  <2>3. Held \subseteq Held' \cup {holds[r]}
    BY <1>8 DEF AgentAck
  <2> QED
    BY <2>1, <2>2, <2>3
<1>9. ASSUME NEW r \in Round, AgentExit(r) PROVE Goal
  BY <1>9 DEF AgentExit, AcceptedRows
<1>10. ASSUME NEW r \in Round, ConnLost(r) PROVE Goal
  BY <1>10 DEF ConnLost, AcceptedRows
<1>11. ASSUME NEW r \in Round, Connect(r) PROVE Goal
  BY <1>11 DEF Connect, AcceptedRows
<1>12. ASSUME NEW r \in Round, BrokerAccept(r) PROVE Goal
  <2>1. UNCHANGED <<table, holds, up, starts>> /\ AcceptedRows \subseteq AcceptedRows'
    BY <1>12, Accepts DEF BrokerAccept
  <2> QED
    BY <2>1
<1>13. ASSUME NEW r \in Round, PubAck(r) PROVE Goal
  BY <1>13 DEF PubAck, AcceptedRows
<1>14. ASSUME NEW r \in Round, Watchdog(r) PROVE Goal
  BY <1>14 DEF Watchdog, AcceptedRows
<1>15. ASSUME NEW r \in Round, TokenExpires(r) PROVE Goal
  BY <1>15 DEF TokenExpires, AcceptedRows
<1>16. ASSUME Tick PROVE Goal
  BY <1>16 DEF Tick, AcceptedRows
<1>17. ASSUME UNCHANGED vars PROVE Goal
  BY <1>17 DEF vars, AcceptedRows
<1> QED
  BY <1>1, <1>2, <1>3, <1>4, <1>5, <1>6, <1>7, <1>8, <1>9, <1>10, <1>11, <1>12, <1>13, <1>14, <1>15, <1>16, <1>17 DEF Next, Crash, WatchdogPanic

\* A death strands what the Agents had in hand.
LEMMA DeathStrands ==
    ASSUME IInv, up => starts > 0, LossPerDeathIsBounded, Die, up
    PROVE  LossPerDeathIsBounded'
<1>1. /\ up' = FALSE /\ starts' = starts /\ table' = table /\ published' = published
      /\ holds' = [r \in Round |-> Nobody]
  BY DEF Die, queueVars
<1>2. AcceptedRows' = AcceptedRows /\ Held' = {}
  BY <1>1, Fresh, AcceptedSame DEF Held, Nobody
<1>3. Stranded' \subseteq Stranded \cup Held
  BY <1>1, <1>2 DEF Stranded, Q!RowsIn
<1>4. /\ IsFiniteSet(Stranded) /\ Cardinality(Stranded) \in Nat
      /\ IsFiniteSet(Held) /\ Cardinality(Held) <= MaxRounds /\ Cardinality(Held) \in Nat
  BY StrandedFinite, HeldBounded
<1>5. /\ IsFiniteSet(Stranded \cup Held)
      /\ Cardinality(Stranded \cup Held) =
             Cardinality(Stranded) + Cardinality(Held) - Cardinality(Stranded \cap Held)
      /\ Cardinality(Stranded \cap Held) \in Nat
  BY <1>4, FS_Union, FS_Intersection, FS_CardinalityType
<1>6. Cardinality(Stranded') <= Cardinality(Stranded \cup Held) /\ Cardinality(Stranded') \in Nat
  BY <1>3, <1>5, FS_Subset, FS_CardinalityType
<1>7. MaxRounds * starts = MaxRounds * (starts - 1) + MaxRounds
  BY TrackyAssumption DEF IInv, Types
<1>8. Cardinality(Stranded) <= MaxRounds * (starts - 1)
  BY DEF LossPerDeathIsBounded
<1>9. starts \in Nat /\ MaxRounds \in Nat /\ MaxRounds * starts \in Nat /\ MaxRounds * (starts - 1) \in Int
  BY TrackyAssumption DEF IInv, Types
<1>10. Cardinality(Stranded') <= MaxRounds * starts
  BY <1>4, <1>5, <1>6, <1>7, <1>8, <1>9
<1> QED
  BY <1>1, <1>10 DEF LossPerDeathIsBounded

\* A death strands at most a row per Agent, and no other step strands any.
LEMMA LossNext ==
    ASSUME IInv, up => starts > 0, LossPerDeathIsBounded, [Next]_vars
    PROVE  LossPerDeathIsBounded' /\ (up' => starts' > 0)
<1>1. up' => starts' > 0
  <2>1. CASE Die
    BY <2>1 DEF Die
  <2>2. CASE ~ Die
    <3>1. Deaths' = Deaths
      BY <2>2, NothingStranded
    <3>2. starts \in Nat /\ starts' \in Nat
      BY IInvNext, TrackyAssumption DEF IInv, Types
    <3>3. Deaths \in Nat
      BY <3>2 DEF Deaths
    <3>4. up' \in BOOLEAN
      BY IInvNext DEF IInv, Types
    <3>5. PICK n \in Nat : starts' = n
      BY <3>2
    <3>6. CASE up' = TRUE
      <4>1. Deaths' = n - 1
        BY <3>5, <3>6 DEF Deaths
      <4>2. n > 0
        BY <3>1, <3>3, <4>1
      <4> QED
        BY <3>5, <4>2
    <3> QED
      BY <3>4, <3>6
  <2> QED
    BY <2>1, <2>2
<1>2. CASE ~ Die
  <2>1. Stranded' \subseteq Stranded /\ Deaths' = Deaths
    BY <1>2, NothingStranded
  <2>2. Cardinality(Stranded') <= Cardinality(Stranded) /\ Cardinality(Stranded') \in Nat
    BY <2>1, StrandedFinite, FS_Subset, FS_CardinalityType
  <2>3. MaxRounds * Deaths \in Int /\ Cardinality(Stranded) \in Nat
    BY StrandedFinite, TrackyAssumption DEF Deaths, IInv, Types
  <2> QED
    BY <1>1, <2>1, <2>2, <2>3 DEF LossPerDeathIsBounded, Deaths
<1>3. CASE Die
  <2>1. CASE up
    BY <1>1, <1>3, <2>1, DeathStrands
  <2>2. CASE ~ up
    <3>1. Held = {}
      BY <2>2 DEF IInv, NotBegunIsOff, HoldsWhileWorking, Working, Held, Round
    <3>2. /\ up' = up /\ starts' = starts /\ table' = table /\ published' = published
          /\ holds' = [r \in Round |-> Nobody]
      BY <1>3, <2>2 DEF Die, queueVars, IInv, Types
    <3>3. AcceptedRows' = AcceptedRows /\ Held' = {}
      BY <3>2, Fresh, AcceptedSame DEF Held, Nobody
    <3>4. Stranded' = Stranded
      BY <3>1, <3>2, <3>3 DEF Stranded, Q!RowsIn
    <3> QED
      BY <1>1, <3>2, <3>4 DEF LossPerDeathIsBounded
  <2> QED
    BY <2>1, <2>2 DEF IInv, Types
<1> QED
  BY <1>2, <1>3

------------------------------------------------------------------------------
\* Nothing is stranded at the start.
LEMMA LossInvInit == Init => LossInv
<1> SUFFICES ASSUME Init PROVE LossInv
  OBVIOUS
<1>1. IInv
  BY IInvInit
<1>2. /\ published = <<>> /\ Len(published) = 0 /\ drops = 0 /\ up = FALSE /\ starts = 0
      /\ DOMAIN table = {}
      /\ \A r \in Round : pc[r] = "off" /\ out[r] = "none" /\ holds[r] = Nobody
  BY DEF Init
<1>3. AcceptedRows = {} /\ Taken = {} /\ Waiting = {} /\ Resends = {} /\ Stranded = {}
  BY <1>2 DEF AcceptedRows, Taken, Waiting, Resends, Stranded, Q!RowsIn
<1>4. Cardinality(AcceptedRows) = 0 /\ Cardinality(Resends) = 0 /\ Cardinality(Stranded) = 0
  BY <1>3, FS_EmptySet
<1>5. LossPerDeathIsBounded
  BY <1>2, <1>4, TrackyAssumption DEF LossPerDeathIsBounded
<1> QED
  BY <1>1, <1>2, <1>3, <1>4, <1>5 DEF LossInv, SeenWasTaken, ResendsNeedDrops, TakenInOrder

\* Every step keeps the counts.
LEMMA LossInvNext == LossInv /\ [Next]_vars => LossInv'
BY IInvNext, SeenNext, OrderNext, ResendsNext, LossNext DEF LossInv

\* However often the process dies, each death costs at most the reading that
\* each round's Agent had in hand, and nothing else costs any.
THEOREM LossIsBounded == Spec => []LossPerDeathIsBounded
<1>1. LossInv => LossPerDeathIsBounded
  BY DEF LossInv
<1> QED
  BY <1>1, LossInvInit, LossInvNext, PTL DEF Spec

\* The broker sees a reading again only when a connection was lost between its
\* acceptance and the PUBACK, once for each such connection.
THEOREM RepeatsNeedDrops == Spec => []DuplicatesNeedDrops
<1>1. LossInv => DuplicatesNeedDrops
  <2>1. ASSUME LossInv PROVE DuplicatesNeedDrops
    <3>1. Cardinality(Resends) \in Nat /\ Cardinality(AcceptedRows) \in Nat
      BY <2>1, RoundSets, RowsFinite DEF LossInv, Resends
    <3>2. Len(published) \in Nat /\ drops \in Nat
      BY <2>1, TrackyAssumption DEF LossInv, IInv, Types
    <3> QED
      BY <2>1, <3>1, <3>2 DEF LossInv, ResendsNeedDrops, DuplicatesNeedDrops
  <2> QED
    BY <2>1
<1> QED
  BY <1>1, LossInvInit, LossInvNext, PTL DEF Spec

\* Until its main loop panics a process publishes in the order in which
\* readings were taken, whatever its predecessors left.
THEOREM FirstRoundInOrder == Spec => PublishedInOrder
<1>1. ASSUME LossInv, [Next]_vars, published' # published /\ round = 1,
             NEW i \in DOMAIN published
      PROVE  published[i] <= published'[Len(published')]
  <2>1. PICK r \in Round :
            /\ BrokerAccept(r) /\ holds[r] \in Row /\ published' = Append(published, holds[r])
    BY <1>1, Accepts DEF LossInv
  <2>2. published'[Len(published')] = holds[r] /\ published[i] \in AcceptedRows
    BY <1>1, <2>1 DEF LossInv, IInv, Types, AcceptedRows
  <2>3. published[i] \in Taken /\ holds[r] # Nobody
    BY <1>1, <2>1, <2>2, TrackyAssumption DEF LossInv, SeenWasTaken, Row, Nobody
  <2> QED
    BY <1>1, <2>2, <2>3 DEF LossInv, TakenInOrder
<1>2. LossInv /\ [Next]_vars =>
        [published' # published /\ round = 1 =>
            \A i \in DOMAIN published :
                published[i] <= published'[Len(published')]]_vars
  BY <1>1
<1> QED
  BY <1>2, LossInvInit, LossInvNext, PTL DEF Spec, PublishedInOrder
==============================================================================
