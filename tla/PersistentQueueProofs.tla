------------------------ MODULE PersistentQueueProofs ------------------------
(***************************************************************************)
(* The queue's invariants and its refinement, for every number of rows.    *)
(* IInv is inductive: HeldStaysDequeued alone is not, since without the    *)
(* bound of the ids by seq an insert could land on a held row.             *)
(***************************************************************************)
EXTENDS PersistentQueue, TLAPS

IInv == TypeOK /\ HeldStaysDequeued

\* The inductive invariant holds at the start.
LEMMA IInvInit == Init => IInv
BY MaxRowsAssumption DEF Init, IInv, TypeOK, HeldStaysDequeued, RowsIn, Status

\* Every call keeps the inductive invariant.
LEMMA IInvNext == IInv /\ [Next]_vars => IInv'
<1> SUFFICES ASSUME IInv, [Next]_vars
             PROVE  IInv'
    OBVIOUS
<1> USE MaxRowsAssumption DEF IInv, TypeOK, HeldStaysDequeued, RowsIn, Status
<1>1. CASE Insert
  BY <1>1 DEF Insert, EnqueueData, WAITING
<1>2. ASSUME NEW id \in RowsIn(WAITING), HandOut(id)
      PROVE  IInv'
  BY <1>2 DEF HandOut, DequeueData, WAITING, TAKEN
<1>3. ASSUME NEW id \in held, Settle(id)
      PROVE  IInv'
  BY <1>3 DEF Settle, Ack, Unack, setStatus, ACKED, WAITING, TAKEN
<1>4. CASE CleanUp
  BY <1>4 DEF CleanUp, QueuesCleanUp, ACKED, TAKEN
<1>5. CASE Restart
  BY <1>5 DEF Restart, InitQueue
<1>6. CASE UNCHANGED vars
  BY <1>6 DEF vars
<1> QED
  BY <1>1, <1>2, <1>3, <1>4, <1>5, <1>6 DEF Next

\* Rows keep issued ids and legal statuses, for every MaxRows.
THEOREM TypeCorrect == Spec => []TypeOK
<1>1. IInv => TypeOK
  BY DEF IInv
<1> QED
  BY <1>1, IInvInit, IInvNext, PTL DEF Spec

\* No step of another caller, of the cleaner or of an insert touches a row
\* that a caller of DequeueData still holds.
THEOREM HeldRowsAreSafe == Spec => []HeldStaysDequeued
<1>1. IInv => HeldStaysDequeued
  BY DEF IInv
<1> QED
  BY <1>1, IInvInit, IInvNext, PTL DEF Spec

\* An empty file is an empty work queue.
LEMMA WQInit == Init => WQ!Init
BY DEF Init, WQ!Init, RowsIn

\* Every call is a step of the work queue, or changes nothing of it.
LEMMA WQNext == IInv /\ [Next]_vars => [WQ!Next]_(WQ!vars)
<1> SUFFICES ASSUME IInv, [Next]_vars
             PROVE  [WQ!Next]_(WQ!vars)
    OBVIOUS
<1> USE DEF IInv, TypeOK, RowsIn, WAITING, TAKEN, ACKED
<1>1. CASE Insert
  <2>1. seq' = seq + 1 /\ seq + 1 \notin DOMAIN table /\ seq \in Nat
    BY <1>1, MaxRowsAssumption DEF Insert, EnqueueData
  <2>2. RowsIn(WAITING)' = RowsIn(WAITING) \cup {seq + 1}
    BY <1>1, <2>1 DEF Insert, EnqueueData
  <2>3. RowsIn(TAKEN)' = RowsIn(TAKEN)
    BY <1>1, <2>1 DEF Insert, EnqueueData
  <2> QED
    BY <2>1, <2>2, <2>3 DEF WQ!Next, WQ!Put
<1>2. ASSUME NEW id \in RowsIn(WAITING), HandOut(id)
      PROVE  WQ!Next
  <2>1. RowsIn(WAITING)' = RowsIn(WAITING) \ {id}
    BY <1>2 DEF HandOut, DequeueData
  <2>2. RowsIn(TAKEN)' = RowsIn(TAKEN) \cup {id}
    BY <1>2 DEF HandOut, DequeueData
  <2>3. \A other \in RowsIn(WAITING) : id <= other
    BY <1>2 DEF HandOut, DequeueData
  <2>4. WQ!Take(id)
    BY <1>2, <2>1, <2>2, <2>3 DEF WQ!Take, HandOut, DequeueData
  <2> QED
    BY <1>2, <2>4 DEF WQ!Next
<1>3. ASSUME NEW id \in held, Settle(id)
      PROVE  [WQ!Next]_(WQ!vars)
  <2>1. id \in RowsIn(TAKEN)
    BY <1>3 DEF HeldStaysDequeued
  <2>2. CASE Ack(id)
    <3>1. RowsIn(TAKEN)' = RowsIn(TAKEN) \ {id}
      BY <2>1, <2>2 DEF Ack, setStatus
    <3>2. RowsIn(WAITING)' = RowsIn(WAITING)
      BY <2>1, <2>2 DEF Ack, setStatus
    <3> QED
      BY <2>1, <2>2, <3>1, <3>2 DEF WQ!Next, WQ!Finish, Ack, setStatus
  <2>3. CASE Unack(id)
    <3>1. RowsIn(TAKEN)' = RowsIn(TAKEN) \ {id}
      BY <2>1, <2>3 DEF Unack, setStatus
    <3>2. RowsIn(WAITING)' = RowsIn(WAITING) \cup {id}
      BY <2>1, <2>3 DEF Unack, setStatus
    <3> QED
      BY <2>1, <2>3, <3>1, <3>2 DEF WQ!Next, WQ!GiveBack, Unack, setStatus
  <2>4. CASE UNCHANGED <<table, seq>>
    BY <2>4 DEF WQ!vars
  <2> QED
    BY <1>3, <2>2, <2>3, <2>4 DEF Settle
<1>4. CASE CleanUp
  <2>1. RowsIn(TAKEN)' = RowsIn(TAKEN)
    BY <1>4 DEF CleanUp, QueuesCleanUp
  <2>2. RowsIn(WAITING)' = RowsIn(WAITING)
    BY <1>4 DEF CleanUp, QueuesCleanUp
  <2> QED
    BY <1>4, <2>1, <2>2 DEF WQ!vars, CleanUp, QueuesCleanUp
<1>5. CASE Restart
  BY <1>5 DEF Restart, InitQueue, WQ!vars
<1>6. CASE UNCHANGED vars
  BY <1>6 DEF vars, WQ!vars
<1> QED
  BY <1>1, <1>2, <1>3, <1>4, <1>5, <1>6 DEF Next

\* Every behaviour of the table is one of the abstract queue: oldest first,
\* one holder at a time, nothing comes back once finished.
THEOREM QueueRefinement == Spec => ImplementsWorkQueue
<1>1. IInv /\ IInv' /\ [Next]_vars => [WQ!Next]_(WQ!vars)
  BY WQNext
<1> QED
  BY <1>1, IInvInit, IInvNext, WQInit, PTL
  DEF Spec, ImplementsWorkQueue, WQ!Spec
==============================================================================
