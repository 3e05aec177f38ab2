--------------------------- MODULE PersistentQueue ---------------------------
(***************************************************************************)
(* The SQLite-backed queue that the device agent (trackeroo/pq.go) and the *)
(* backend (internal/service/pq.go) share as a design: one table, rows     *)
(* numbered by AUTOINCREMENT, a status column.  Every function of pq.go    *)
(* holds dbLock and runs one transaction, so each is one action; a         *)
(* transaction that fails is rolled back and leaves the table as it was,   *)
(* which is a stuttering step unless the caller's own state moves.         *)
(* The payload is not modelled: a row is its id.                           *)
(***************************************************************************)
EXTENDS Naturals, FiniteSets

CONSTANT MaxRows    \* bound: rows ever inserted

ASSUME MaxRowsAssumption == MaxRows \in Nat

VARIABLES
    table,  \* id -> status, the rows of <name>_queue now in the file
    seq,    \* the AUTOINCREMENT high-water mark SQLite keeps with the file
    held    \* ids DequeueData returned to callers that have not settled them

vars == <<table, seq, held>>

\* The status column: inserted with 0, 1 once dequeued, 5 once acked.
WAITING == 0
TAKEN == 1
ACKED == 5
Status == {WAITING, TAKEN, ACKED}

RowsIn(status) == {id \in DOMAIN table : table[id] = status}

Size == Cardinality(RowsIn(WAITING))

------------------------------------------------------------------------------
(* The functions of pq.go, as steps of the file. *)

InitQueue == UNCHANGED <<table, seq>>   \* CREATE TABLE IF NOT EXISTS

EnqueueData ==
    /\ seq < MaxRows
    /\ seq' = seq + 1
    /\ table' = [id \in DOMAIN table \cup {seq + 1} |->
                    IF id = seq + 1 THEN WAITING ELSE table[id]]

NewestFirst(id) ==                      \* mutant of DequeueData: ORDER BY id DESC
    /\ id \in RowsIn(WAITING)
    /\ \A other \in RowsIn(WAITING) : other <= id
    /\ table' = [table EXCEPT ![id] = TAKEN]
    /\ UNCHANGED seq

DequeueData(id) ==
    /\ id \in RowsIn(WAITING)
    /\ \A other \in RowsIn(WAITING) : id <= other
    /\ table' = [table EXCEPT ![id] = TAKEN]
    /\ UNCHANGED seq

\* UPDATE ... WHERE id = ?: any row with that id, whatever its status.
setStatus(id, status) ==
    /\ table' = [row \in DOMAIN table |->
                    IF row = id THEN status ELSE table[row]]
    /\ UNCHANGED seq

Ack(id) == setStatus(id, ACKED)

Unack(id) == setStatus(id, WAITING)

AllTakenDeleted ==                      \* mutant of QueuesCleanUp
    /\ table' = [id \in RowsIn(WAITING) |-> table[id]]
    /\ UNCHANGED seq

QueuesCleanUp ==
    /\ table' = [id \in DOMAIN table \ RowsIn(ACKED) |-> table[id]]
    /\ UNCHANGED seq

------------------------------------------------------------------------------
(* The callers: whoever was handed a row acks it or gives it back once.    *)
(* setStatus's error is ignored by every caller, so a row can be let go of *)
(* with its status unchanged; so it is when the process dies.              *)

Init ==
    /\ table = [id \in {} |-> WAITING]
    /\ seq = 0
    /\ held = {}

Insert == EnqueueData /\ UNCHANGED held

HandOut(id) == DequeueData(id) /\ held' = held \cup {id}

Settle(id) ==
    /\ id \in held
    /\ Ack(id) \/ Unack(id) \/ UNCHANGED <<table, seq>>
    /\ held' = held \ {id}

CleanUp == QueuesCleanUp /\ UNCHANGED held

Restart == InitQueue /\ held' = {}

Next ==
    \/ Insert
    \/ \E id \in RowsIn(WAITING) : HandOut(id)
    \/ \E id \in held : Settle(id)
    \/ CleanUp
    \/ Restart

Spec == Init /\ [][Next]_vars

------------------------------------------------------------------------------
(* Properties *)

\* Rows carry ids that AUTOINCREMENT has issued and one of the three statuses.
TypeOK ==
    /\ seq \in 0 .. MaxRows
    /\ DOMAIN table \subseteq 1 .. seq
    /\ \A id \in DOMAIN table : table[id] \in Status
    /\ held \subseteq 1 .. seq

\* While a caller holds a row, nothing else moves it: it is still in the
\* file and still marked dequeued, whatever other callers, the cleaner or an
\* enqueue did meanwhile.
HeldStaysDequeued == held \subseteq RowsIn(TAKEN)

\* The table implements the abstract queue: oldest first, one holder at a
\* time, no row back after its ack, no id issued twice, and rows deleted by
\* the cleaner are exactly finished tickets.
WQ == INSTANCE WorkQueue WITH
        issued <- seq, waiting <- RowsIn(WAITING), inHand <- RowsIn(TAKEN)

ImplementsWorkQueue == WQ!Spec
==============================================================================
