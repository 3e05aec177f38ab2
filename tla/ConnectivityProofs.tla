------------------------- MODULE ConnectivityProofs -------------------------
(***************************************************************************)
(* What holds of the connectivity watchers for any number of replicas,     *)
(* devices, events and faults: types, real times in every status, the      *)
(* bounds on the events that acknowledging before handling loses and that  *)
(* dead connections repeat, and that a watcher that is alone and meets no  *)
(* fault shows what the events give in their order.                        *)
(***************************************************************************)
EXTENDS Connectivity, FiniteSetTheorems, TLAPS

\* The bounds are naturals.
LEMMA Bounds == MaxEvents \in Nat /\ MaxFaults \in Nat
BY ConnectivityAssumption

\* Reported events stay reported.
LEMMA ReportedGrows ==
    ASSUME TypeOK, NEW e \in Event, emitted' = Append(emitted, e)
    PROVE  /\ emitted' \in Seq(Event) /\ Len(emitted') = Len(emitted) + 1
           /\ Reported \subseteq Reported'
           /\ \A n \in Reported : emitted'[n] = emitted[n]
           /\ \A s \in Seq(Reported) : s \in Seq(Reported')
BY DEF TypeOK, Reported

\* The elements of a sequence, of one with an element appended, and of a tail.
LEMMA ElementsOf ==
    ASSUME NEW S, NEW s \in Seq(S)
    PROVE  /\ Elements(s) \subseteq S
           /\ \A x \in S : Append(s, x) \in Seq(S) /\ Elements(Append(s, x)) = Elements(s) \cup {x}
           /\ s # <<>> => /\ Head(s) \in S /\ Tail(s) \in Seq(S)
                          /\ Elements(s) = {Head(s)} \cup Elements(Tail(s))
<1>1. Elements(s) \subseteq S
  BY DEF Elements
<1>2. ASSUME NEW x \in S
      PROVE  Append(s, x) \in Seq(S) /\ Elements(Append(s, x)) = Elements(s) \cup {x}
  <2>1. Append(s, x) \in Seq(S) /\ Len(Append(s, x)) = Len(s) + 1
    OBVIOUS
  <2>2. Append(s, x)[Len(s) + 1] = x /\ \A i \in 1 .. Len(s) : Append(s, x)[i] = s[i]
    OBVIOUS
  <2>3. DOMAIN Append(s, x) = 1 .. Len(s) + 1 /\ DOMAIN s = 1 .. Len(s)
    BY <2>1
  <2> QED  BY <2>2, <2>3 DEF Elements
<1>3. ASSUME s # <<>>
      PROVE  /\ Head(s) \in S /\ Tail(s) \in Seq(S)
             /\ Elements(s) = {Head(s)} \cup Elements(Tail(s))
  <2>1. /\ Head(s) = s[1] /\ Head(s) \in S /\ Tail(s) \in Seq(S) /\ Len(s) \in Nat \ {0}
        /\ Len(Tail(s)) = Len(s) - 1 /\ \A i \in 1 .. Len(s) - 1 : Tail(s)[i] = s[i + 1]
    BY <1>3
  <2>2. DOMAIN s = 1 .. Len(s) /\ DOMAIN Tail(s) = 1 .. Len(s) - 1
    BY <2>1
  <2>3. ASSUME NEW x \in Elements(s)
        PROVE  x \in {Head(s)} \cup Elements(Tail(s))
    <3>1. PICK i \in 1 .. Len(s) : x = s[i]
      BY <2>2, <2>3 DEF Elements
    <3>2. CASE i = 1
      BY <2>1, <3>1, <3>2
    <3>3. CASE i # 1
      <4>1. i - 1 \in 1 .. Len(s) - 1 /\ Tail(s)[i - 1] = s[(i - 1) + 1]
        BY <2>1, <3>1, <3>3
      <4>2. x = Tail(s)[i - 1]
        BY <2>1, <3>1, <4>1
      <4> QED  BY <2>2, <4>1, <4>2 DEF Elements
    <3> QED  BY <3>2, <3>3
  <2>4. ASSUME NEW x \in {Head(s)} \cup Elements(Tail(s))
        PROVE  x \in Elements(s)
    <3>1. CASE x = Head(s)
      BY <2>1, <2>2, <3>1 DEF Elements
    <3>2. CASE x \in Elements(Tail(s))
      <4>1. PICK i \in 1 .. Len(s) - 1 : x = Tail(s)[i]
        BY <2>2, <3>2 DEF Elements
      <4>2. i + 1 \in 1 .. Len(s) /\ x = s[i + 1]
        BY <2>1, <4>1
      <4> QED  BY <2>2, <4>2 DEF Elements
    <3> QED  BY <2>4, <3>1, <3>2
  <2> QED  BY <2>1, <2>3, <2>4
<1> QED  BY <1>1, <1>2, <1>3

\* Type correctness holds at the start.
LEMMA TypeInit == Init => TypeOK
<1> SUFFICES ASSUME Init  PROVE TypeOK
  OBVIOUS
<1>1. MaxEvents \in Nat /\ 0 \in 0 .. MaxEvents
  BY Bounds
<1>2. Unknown \in Status
  BY <1>1 DEF Unknown, Status
<1>3. redis \in [Device -> Status] /\ cache \in [Replica -> [Device -> Status]]
  BY <1>2 DEF Init
<1>4. /\ emitted \in Seq(Event) /\ Len(emitted) = 0 /\ written \in Seq(Reported)
      /\ got \in [Replica -> Seq(Reported)]
  BY DEF Init
<1>5. /\ svc \in [Replica -> {"down", "dialing", "consuming", "cut"}]
      /\ unacked \in [Replica -> SUBSET Reported] /\ stale \subseteq SUBSET Reported
      /\ mode \in [Replica -> {"redis", "cache"}]
      /\ pc \in [Replica -> Position] /\ ev \in [Replica -> Reported \cup {None}]
      /\ other \in [Replica -> 0 .. MaxEvents] /\ \A r \in Replica : pc[r] = "loop"
  BY <1>1 DEF Init, Position
<1>6. bound \in BOOLEAN /\ queue = {} /\ crashes = 0 /\ disconnects = 0 /\ errors = 0
  BY DEF Init
<1> QED  BY <1>1, <1>3, <1>4, <1>5, <1>6 DEF TypeOK

\* A status keeps its type.
LEMMA NewStatusType ==
    ASSUME TypeOK, NEW r \in Replica, pc[r] = "write"
    PROVE  NewStatus(r) \in Status /\ InHand(r) \in Event /\ ev[r] \in Reported
<1>1. ev[r] \in Reported /\ ev[r] \in 0 .. MaxEvents /\ other[r] \in 0 .. MaxEvents
  BY Bounds DEF TypeOK, Reported
<1>2. InHand(r) \in Event
  BY <1>1 DEF InHand, TypeOK, Reported
<1> QED  BY <1>1, <1>2 DEF NewStatus, Status

\* A watcher past its acknowledgement has a reported event in hand, and what is
\* stored for its device is a status.
LEMMA StoredType ==
    ASSUME TypeOK, NEW r \in Replica, pc[r] \in {"read", "write"}
    PROVE  Stored(r) \in Status /\ InHand(r) \in Event /\ ev[r] \in Reported
<1>1. ev[r] \in Reported
  BY DEF TypeOK, Reported
<1>2. InHand(r) \in Event
  BY <1>1 DEF InHand, TypeOK, Reported
<1> QED  BY <1>1, <1>2 DEF Stored, TypeOK, Event

\* What a dead connection leaves behind are reported events.
LEMMA CutOffType ==
    ASSUME TypeOK, NEW r \in Replica, CutOff(r)
    PROVE  unacked' \in [Replica -> SUBSET Reported] /\ stale' \subseteq SUBSET Reported
BY DEF CutOff, Unsettled, TypeOK

\* Every step keeps the types.
LEMMA TypeStep == TypeOK /\ [Next]_vars => TypeOK'
<1> SUFFICES ASSUME TypeOK, [Next]_vars  PROVE TypeOK'
  OBVIOUS
<1> USE DEF brokerVars, watcherVars, statusVars
<1>1. ASSUME NEW d \in Device, NEW connected \in BOOLEAN, Report(d, connected)
      PROVE  TypeOK'
  <2> DEFINE e == [dev |-> d, connected |-> connected]
  <2>1. e \in Event /\ emitted' = Append(emitted, e)
    BY <1>1 DEF Report, Event
  <2>2. /\ emitted' \in Seq(Event) /\ Len(emitted') = Len(emitted) + 1
        /\ Reported \subseteq Reported' /\ \A s \in Seq(Reported) : s \in Seq(Reported')
    BY <2>1, ReportedGrows
  <2>3. queue' \subseteq Reported' /\ Len(emitted') <= MaxEvents
    <3>1. Len(emitted) \in Nat /\ Len(emitted) < MaxEvents /\ Len(emitted') <= MaxEvents
      BY <1>1, <2>2, Bounds DEF Report, TypeOK
    <3>2. Len(emitted) + 1 \in Reported'
      BY <2>2, <3>1 DEF Reported
    <3> QED  BY <1>1, <2>2, <3>1, <3>2 DEF Report, TypeOK
  <2>4. got' \in [Replica -> Seq(Reported')] /\ written' \in Seq(Reported')
    BY <1>1, <2>2 DEF Report, TypeOK
  <2>5. ev' \in [Replica -> Reported' \cup {None}]
    BY <1>1, <2>2 DEF Report, TypeOK
  <2>6. unacked' \in [Replica -> SUBSET Reported'] /\ stale' \subseteq SUBSET Reported'
    BY <1>1, <2>2 DEF Report, TypeOK
  <2> HIDE DEF e
  <2> QED  BY <1>1, <2>2, <2>3, <2>4, <2>5, <2>6 DEF Report, TypeOK
<1>2. ASSUME NEW r \in Replica, Start(r)
      PROVE  TypeOK'
  BY <1>2 DEF Start, TypeOK, Reported
<1>3. ASSUME NEW r \in Replica, Dial(r)
      PROVE  TypeOK'
  BY <1>3 DEF Dial, TypeOK, Reported
<1>4. ASSUME NEW r \in Replica, HandOut(r)
      PROVE  TypeOK'
  <2>1. PICK k \in queue : /\ queue' = queue \ {k}
                           /\ unacked' = [unacked EXCEPT ![r] = unacked[r] \cup {k}]
                           /\ got' = [got EXCEPT ![r] = Append(got[r], k)]
    BY <1>4, Zenon DEF HandOut
  <2>2. got[r] \in Seq(Reported) /\ k \in Reported
    BY <2>1 DEF TypeOK
  <2>3. Append(got[r], k) \in Seq(Reported)
    BY <2>2
  <2>4. got' \in [Replica -> Seq(Reported)] /\ unacked' \in [Replica -> SUBSET Reported]
    BY <2>1, <2>2, <2>3 DEF TypeOK
  <2> QED  BY <1>4, <2>1, <2>4 DEF HandOut, TypeOK, Reported
<1>5. ASSUME NEW r \in Replica, Receive(r)
      PROVE  TypeOK'
  <2>1. Head(got[r]) \in Reported /\ Tail(got[r]) \in Seq(Reported)
    BY <1>5, ElementsOf DEF Receive, TypeOK
  <2>2. got' \in [Replica -> Seq(Reported)] /\ ev' \in [Replica -> Reported \cup {None}]
    BY <1>5, <2>1 DEF Receive, TypeOK
  <2>3. pc' \in [Replica -> Position] /\ \A o \in Replica : pc'[o] # "loop" => ev'[o] # None
    <3>1. Head(got[r]) # None
      BY <2>1 DEF Reported, None
    <3> QED  BY <1>5, <3>1 DEF Receive, TypeOK, Position
  <2> QED  BY <1>5, <2>2, <2>3 DEF Receive, TypeOK, Reported
<1>6. ASSUME NEW r \in Replica, Ack(r)
      PROVE  TypeOK'
  BY <1>6 DEF Ack, TypeOK, Reported, Position
<1>7. ASSUME NEW r \in Replica, Read(r)
      PROVE  TypeOK'
  <2>1. Stored(r) \in Status
    BY <1>7, StoredType DEF Read
  <2>2. other' \in [Replica -> 0 .. MaxEvents] /\ pc' \in [Replica -> Position]
    BY <1>7, <2>1 DEF Read, TypeOK, Status, Position
  <2>3. \A o \in Replica : pc'[o] # "loop" => ev'[o] # None
    BY <1>7 DEF Read, TypeOK
  <2> QED  BY <1>7, <2>2, <2>3 DEF Read, TypeOK, Reported
<1>8. ASSUME NEW r \in Replica, ReadFails(r)
      PROVE  TypeOK'
  <2>1. errors' \in Nat /\ 0 \in 0 .. MaxEvents
    BY <1>8, Bounds DEF ReadFails, TypeOK
  <2> QED  BY <1>8, <2>1 DEF ReadFails, TypeOK, Reported, Position
<1>9. ASSUME NEW r \in Replica, Write(r)
      PROVE  TypeOK'
  <2>1. NewStatus(r) \in Status /\ InHand(r) \in Event /\ ev[r] \in Reported
    BY <1>9, NewStatusType DEF Write
  <2>2. redis' \in [Device -> Status] /\ cache' \in [Replica -> [Device -> Status]]
    <3>1. CASE mode[r] = "redis"
      BY <1>9, <2>1, <3>1 DEF Write, TypeOK
    <3>2. CASE mode[r] # "redis"
      <4> DEFINE c == [cache[r] EXCEPT ![InHand(r).dev] = NewStatus(r)]
      <4>1. c \in [Device -> Status]
        BY <2>1 DEF TypeOK
      <4>2. cache' = [cache EXCEPT ![r] = c] /\ redis' = redis
        BY <1>9, <3>2 DEF Write
      <4> HIDE DEF c
      <4> QED  BY <4>1, <4>2 DEF TypeOK
    <3> QED  BY <3>1, <3>2
  <2>3. written' \in Seq(Reported)
    BY <1>9, <2>1, ElementsOf DEF Write, TypeOK
  <2>4. /\ ev' \in [Replica -> Reported \cup {None}] /\ pc' \in [Replica -> Position]
        /\ other' \in [Replica -> 0 .. MaxEvents]
        /\ \A o \in Replica : pc'[o] # "loop" => ev'[o] # None
    BY <1>9, Bounds DEF Write, Handled, TypeOK, Position
  <2> QED  BY <1>9, <2>2, <2>3, <2>4 DEF Write, Handled, TypeOK, Reported
<1>10. ASSUME NEW r \in Replica, WriteFails(r)
      PROVE  TypeOK'
  <2>1. errors' \in Nat
    BY <1>10 DEF WriteFails, TypeOK
  <2>2. /\ ev' \in [Replica -> Reported \cup {None}] /\ pc' \in [Replica -> Position]
        /\ other' \in [Replica -> 0 .. MaxEvents]
        /\ \A o \in Replica : pc'[o] # "loop" => ev'[o] # None
    BY <1>10, Bounds DEF WriteFails, Handled, TypeOK, Position
  <2> QED  BY <1>10, <2>1, <2>2 DEF WriteFails, Handled, TypeOK, Reported
<1>11. ASSUME NEW r \in Replica, Disconnect(r)
      PROVE  TypeOK'
  <2>1. disconnects' \in Nat
    BY <1>11 DEF Disconnect, TypeOK
  <2>2. unacked' \in [Replica -> SUBSET Reported] /\ stale' \subseteq SUBSET Reported
    BY <1>11, CutOffType DEF Disconnect
  <2> QED  BY <1>11, <2>1, <2>2 DEF Disconnect, TypeOK, Reported
<1>12. ASSUME NEW r \in Replica, Crash(r)
      PROVE  TypeOK'
  <2>1. crashes' \in Nat /\ 0 \in 0 .. MaxEvents
    BY <1>12, Bounds DEF Crash, TypeOK
  <2>2. unacked' \in [Replica -> SUBSET Reported] /\ stale' \subseteq SUBSET Reported
    BY <1>12, CutOffType DEF Crash
  <2>3. cache' \in [Replica -> [Device -> Status]] /\ got' \in [Replica -> Seq(Reported)]
    BY <1>12, <2>1 DEF Crash, TypeOK, Status, Unknown
  <2>4. /\ ev' \in [Replica -> Reported \cup {None}] /\ pc' \in [Replica -> Position]
        /\ other' \in [Replica -> 0 .. MaxEvents]
        /\ \A o \in Replica : pc'[o] # "loop" => ev'[o] # None
    BY <1>12, <2>1 DEF Crash, TypeOK, Position
  <2>5. svc' \in [Replica -> {"down", "dialing", "consuming", "cut"}] /\ mode' \in [Replica -> {"redis", "cache"}]
    BY <1>12 DEF Crash, TypeOK
  <2> QED  BY <1>12, <2>1, <2>2, <2>3, <2>4, <2>5 DEF Crash, TypeOK, Reported
<1>14. ASSUME NEW r \in Replica, AckArrives(r) \/ Notice(r)
      PROVE  TypeOK'
  <2>1. CASE AckArrives(r)
    <3>1. PICK n : unacked' = [unacked EXCEPT ![r] = unacked[r] \ {n}]
      BY <2>1, Zenon DEF AckArrives
    <3> QED  BY <2>1, <3>1 DEF AckArrives, TypeOK, Reported
  <2>2. CASE Notice(r)
    BY <2>2 DEF Notice, TypeOK, Reported
  <2> QED  BY <1>14, <2>1, <2>2
<1>15. CASE Requeue
  <2>1. PICK s \in stale : queue' = queue \cup s /\ stale' = stale \ {s}
    BY <1>15, Zenon DEF Requeue
  <2> QED  BY <1>15, <2>1 DEF Requeue, TypeOK, Reported
<1>13. CASE UNCHANGED vars
  BY <1>13 DEF vars, TypeOK, Reported
<1> QED
  BY <1>1, <1>2, <1>3, <1>4, <1>5, <1>6, <1>7, <1>8, <1>9, <1>10, <1>11, <1>12, <1>13, <1>14, <1>15 DEF Next, Watcher

\* Type correctness of the watchers.
THEOREM TypeCorrect == Spec => []TypeOK
BY TypeInit, TypeStep, PTL DEF Spec
------------------------------------------------------------------------------
\* The times of a status of d are those of reported events of d and their kind.
Real(d, s) ==
    /\ s.last_connection # 0 =>
        /\ s.last_connection \in Reported
        /\ emitted[s.last_connection] = [dev |-> d, connected |-> TRUE]
    /\ s.last_disconnection # 0 =>
        /\ s.last_disconnection \in Reported
        /\ emitted[s.last_disconnection] = [dev |-> d, connected |-> FALSE]

\* So is the time that a watcher read, of the kind that its event is not.
ReadIsReal(r) ==
    pc[r] = "write" /\ other[r] # 0 =>
        /\ other[r] \in Reported
        /\ emitted[other[r]] = [dev |-> InHand(r).dev, connected |-> ~InHand(r).connected]

StatusesReal == (\A d \in Device : Real(d, redis[d])) /\ \A r \in Replica, d \in Device : Real(d, cache[r][d])

ReadsReal == \A r \in Replica : ReadIsReal(r)

TimesInv == TypeOK /\ StatusesReal /\ ReadsReal

\* A time that names an event of its kind goes on to do so: events are only added.
LEMMA RealStays ==
    ASSUME NEW d, NEW s, Real(d, s),
           Reported \subseteq Reported', \A n \in Reported : emitted'[n] = emitted[n]
    PROVE  Real(d, s)'
BY DEF Real

\* An event is its device and its kind.
LEMMA EventRecord == \A e \in Event : e = [dev |-> e.dev, connected |-> e.connected] /\ e.connected \in BOOLEAN
BY DEF Event

\* What a watcher writes is real when what it read is.
LEMMA NewStatusReal ==
    ASSUME TypeOK, NEW r \in Replica, pc[r] = "write", ReadIsReal(r)
    PROVE  Real(InHand(r).dev, NewStatus(r))
<1> DEFINE e == InHand(r)
<1>1. e \in Event /\ ev[r] \in Reported /\ emitted[ev[r]] = e
  BY NewStatusType DEF InHand
<1>2. e = [dev |-> e.dev, connected |-> e.connected] /\ e.connected \in BOOLEAN
  BY <1>1, EventRecord
<1> HIDE DEF e
<1>3. CASE e.connected
  <2>1. NewStatus(r) = [connected |-> TRUE, last_connection |-> ev[r], last_disconnection |-> other[r]]
    BY <1>3 DEF NewStatus, e
  <2>2. other[r] # 0 => other[r] \in Reported /\ emitted[other[r]] = [dev |-> e.dev, connected |-> FALSE]
    BY <1>3 DEF ReadIsReal, e
  <2>3. e.connected = TRUE
    BY <1>2, <1>3
  <2>4. emitted[ev[r]] = [dev |-> e.dev, connected |-> TRUE]
    BY <1>1, <1>2, <2>3
  <2> DEFINE s == NewStatus(r)
  <2>5. s.last_connection = ev[r] /\ s.last_disconnection = other[r]
    BY <2>1
  <2> HIDE DEF s
  <2>6. Real(e.dev, s)
    BY <1>1, <2>2, <2>4, <2>5 DEF Real
  <2> QED  BY <2>6 DEF s, e
<1>4. CASE ~e.connected
  <2>1. NewStatus(r) = [connected |-> FALSE, last_connection |-> other[r], last_disconnection |-> ev[r]]
    BY <1>4 DEF NewStatus, e
  <2>2. other[r] # 0 => other[r] \in Reported /\ emitted[other[r]] = [dev |-> e.dev, connected |-> TRUE]
    BY <1>4 DEF ReadIsReal, e
  <2>3. e.connected = FALSE
    BY <1>2, <1>4
  <2>4. emitted[ev[r]] = [dev |-> e.dev, connected |-> FALSE]
    BY <1>1, <1>2, <2>3
  <2> DEFINE s == NewStatus(r)
  <2>5. s.last_connection = other[r] /\ s.last_disconnection = ev[r]
    BY <2>1
  <2> HIDE DEF s
  <2>6. Real(e.dev, s)
    BY <1>1, <2>2, <2>4, <2>5 DEF Real
  <2> QED  BY <2>6 DEF s, e
<1> QED  BY <1>2, <1>3, <1>4

\* The times are real at the start: all are zero.
LEMMA TimesInit == Init => TimesInv
<1> SUFFICES ASSUME Init  PROVE TimesInv
  OBVIOUS
<1>1. StatusesReal
  BY DEF Init, StatusesReal, Real, Unknown
<1>2. ReadsReal
  BY DEF Init, ReadsReal, ReadIsReal
<1> QED  BY <1>1, <1>2, TypeInit DEF TimesInv

\* Every step keeps the times real.
LEMMA TimesStep == TimesInv /\ [Next]_vars => TimesInv'
<1> SUFFICES ASSUME TimesInv, [Next]_vars  PROVE TimesInv'
  OBVIOUS
<1> USE DEF TimesInv
<1>0. TypeOK'
  BY TypeStep
<1>1. ASSUME UNCHANGED <<emitted, redis, cache>>
      PROVE  StatusesReal'
  BY <1>1 DEF StatusesReal, Real, Reported
<1>2. ASSUME UNCHANGED emitted,
             \A o \in Replica : pc'[o] = "write" => pc[o] = "write" /\ ev'[o] = ev[o] /\ other'[o] = other[o]
      PROVE  ReadsReal'
  BY <1>2 DEF ReadsReal, ReadIsReal, InHand, Reported
<1> SUFFICES StatusesReal' /\ ReadsReal'
  BY <1>0
<1> USE DEF brokerVars, watcherVars, statusVars
<1>3. ASSUME NEW d \in Device, NEW connected \in BOOLEAN, Report(d, connected)
      PROVE  StatusesReal' /\ ReadsReal'
  <2>1. Reported \subseteq Reported' /\ \A n \in Reported : emitted'[n] = emitted[n]
    BY <1>3, ReportedGrows DEF Report, Event
  <2>2. UNCHANGED <<redis, cache, pc, ev, other>>
    BY <1>3 DEF Report
  <2>3. StatusesReal'
    BY <2>1, <2>2, RealStays DEF StatusesReal, Real
  <2>4. ASSUME NEW r \in Replica  PROVE ReadIsReal(r)'
    <3>1. CASE pc[r] = "write"
      <4>1. ev[r] \in Reported
        BY <3>1, NewStatusType
      <4>2. InHand(r)' = InHand(r)
        BY <2>1, <2>2, <4>1 DEF InHand
      <4> QED  BY <2>1, <2>2, <4>2 DEF ReadsReal, ReadIsReal
    <3>2. CASE pc[r] # "write"
      BY <2>2, <3>2 DEF ReadIsReal
    <3> QED  BY <3>1, <3>2
  <2> QED  BY <2>3, <2>4 DEF ReadsReal
<1>4. ASSUME NEW r \in Replica,
             Start(r) \/ Dial(r) \/ HandOut(r) \/ AckArrives(r) \/ Disconnect(r) \/ Notice(r)
      PROVE  StatusesReal' /\ ReadsReal'
  <2>1. UNCHANGED <<emitted, redis, cache, pc, ev, other>>
    BY <1>4 DEF Start, Dial, HandOut, AckArrives, Disconnect, Notice
  <2> QED  BY <1>1, <1>2, <2>1
<1>5. ASSUME NEW r \in Replica, Receive(r) \/ Ack(r)
      PROVE  StatusesReal' /\ ReadsReal'
  <2>1. /\ UNCHANGED <<emitted, redis, cache, other>>
        /\ \A o \in Replica : pc'[o] = "write" => pc[o] = "write" /\ ev'[o] = ev[o]
    BY <1>5 DEF Receive, Ack, TypeOK
  <2> QED  BY <1>1, <1>2, <2>1
<1>6. ASSUME NEW r \in Replica, Read(r)
      PROVE  StatusesReal' /\ ReadsReal'
  <2>1. StatusesReal'
    BY <1>1, <1>6 DEF Read
  <2>2. Stored(r) \in Status /\ InHand(r) \in Event /\ pc[r] = "read"
    BY <1>6, StoredType DEF Read
  <2>3. Real(InHand(r).dev, Stored(r))
    BY <2>2 DEF Stored, StatusesReal, Event
  <2>4. /\ pc'[r] = "write" /\ UNCHANGED <<emitted, ev>>
        /\ other'[r] = IF InHand(r).connected THEN Stored(r).last_disconnection ELSE Stored(r).last_connection
        /\ \A o \in Replica \ {r} : pc'[o] = pc[o] /\ other'[o] = other[o]
    BY <1>6 DEF Read, TypeOK
  <2>5. ReadIsReal(r)'
    BY <2>2, <2>3, <2>4, EventRecord DEF ReadIsReal, Real, InHand, Reported
  <2>6. \A o \in Replica \ {r} : ReadIsReal(o)'
    BY <2>4 DEF ReadsReal, ReadIsReal, InHand, Reported
  <2> QED  BY <2>1, <2>5, <2>6 DEF ReadsReal
<1>7. ASSUME NEW r \in Replica, ReadFails(r)
      PROVE  StatusesReal' /\ ReadsReal'
  <2>1. StatusesReal'
    BY <1>1, <1>7 DEF ReadFails
  <2>2. /\ other'[r] = 0 /\ UNCHANGED <<emitted, ev>>
        /\ \A o \in Replica \ {r} : pc'[o] = pc[o] /\ other'[o] = other[o]
    BY <1>7 DEF ReadFails, TypeOK
  <2> QED  BY <2>1, <2>2 DEF ReadsReal, ReadIsReal, InHand, Reported
<1>8. ASSUME NEW r \in Replica, Write(r)
      PROVE  StatusesReal' /\ ReadsReal'
  <2> DEFINE d == InHand(r).dev
  <2>1. d \in Device /\ Real(d, NewStatus(r)) /\ UNCHANGED emitted
    BY <1>8, NewStatusType, NewStatusReal DEF Write, Handled, ReadsReal, Event
  <2>2. \A c \in Device : /\ redis'[c] \in {redis[c], NewStatus(r)} /\ (c # d => redis'[c] = redis[c])
                          /\ \A o \in Replica : /\ cache'[o][c] \in {cache[o][c], NewStatus(r)}
                                                /\ (c # d => cache'[o][c] = cache[o][c])
    <3>1. CASE mode[r] = "redis"
      BY <1>8, <2>1, <3>1 DEF Write, TypeOK
    <3>2. CASE mode[r] # "redis"
      <4> DEFINE t == [cache[r] EXCEPT ![d] = NewStatus(r)]
      <4>1. cache' = [cache EXCEPT ![r] = t] /\ redis' = redis
        BY <1>8, <3>2 DEF Write
      <4>2. \A c \in Device : t[c] \in {cache[r][c], NewStatus(r)} /\ (c # d => t[c] = cache[r][c])
        BY <2>1 DEF TypeOK
      <4> HIDE DEF t
      <4>3. cache'[r] = t /\ \A o \in Replica \ {r} : cache'[o] = cache[o]
        BY <4>1 DEF TypeOK
      <4> QED  BY <4>1, <4>2, <4>3
    <3> QED  BY <3>1, <3>2
  <2>3. StatusesReal'
    <3> HIDE DEF d
    <3>1. ASSUME NEW c \in Device  PROVE Real(c, redis[c])'
      <4>1. Real(c, redis[c]) /\ redis'[c] \in {redis[c], NewStatus(r)} /\ (c # d => redis'[c] = redis[c])
        BY <2>2 DEF StatusesReal
      <4>2. Real(c, redis'[c])
        BY <2>1, <4>1
      <4> QED  BY <2>1, <4>2 DEF Real, Reported
    <3>2. ASSUME NEW o \in Replica, NEW c \in Device  PROVE Real(c, cache[o][c])'
      <4>1. Real(c, cache[o][c]) /\ cache'[o][c] \in {cache[o][c], NewStatus(r)} /\ (c # d => cache'[o][c] = cache[o][c])
        BY <2>2 DEF StatusesReal
      <4>2. Real(c, cache'[o][c])
        BY <2>1, <4>1
      <4> QED  BY <2>1, <4>2 DEF Real, Reported
    <3> QED  BY <3>1, <3>2 DEF StatusesReal
  <2>4. \A o \in Replica : pc'[o] = "write" => pc[o] = "write" /\ ev'[o] = ev[o] /\ other'[o] = other[o]
    BY <1>8 DEF Write, Handled, TypeOK
  <2> QED  BY <1>2, <2>1, <2>3, <2>4
<1>9. ASSUME NEW r \in Replica, WriteFails(r)
      PROVE  StatusesReal' /\ ReadsReal'
  <2>1. \A o \in Replica : pc'[o] = "write" => pc[o] = "write" /\ ev'[o] = ev[o] /\ other'[o] = other[o]
    BY <1>9 DEF WriteFails, Handled, TypeOK
  <2> QED  BY <1>1, <1>2, <1>9, <2>1 DEF WriteFails, Handled
<1>10. ASSUME NEW r \in Replica, Crash(r)
      PROVE  StatusesReal' /\ ReadsReal'
  <2>1. /\ UNCHANGED <<emitted, redis>>
        /\ \A o \in Replica, d \in Device : cache'[o][d] \in {cache[o][d], Unknown}
    BY <1>10 DEF Crash, TypeOK
  <2>2. StatusesReal'
    BY <2>1 DEF StatusesReal, Real, Reported, Unknown
  <2>3. \A o \in Replica : pc'[o] = "write" => pc[o] = "write" /\ ev'[o] = ev[o] /\ other'[o] = other[o]
    BY <1>10 DEF Crash, TypeOK
  <2> QED  BY <1>2, <2>1, <2>2, <2>3
<1>11. CASE UNCHANGED vars \/ Requeue
  <2>1. UNCHANGED <<emitted, redis, cache, pc, ev, other>>
    BY <1>11 DEF vars, Requeue
  <2> QED  BY <1>1, <1>2, <2>1
<1> QED
  BY <1>3, <1>4, <1>5, <1>6, <1>7, <1>8, <1>9, <1>10, <1>11 DEF Next, Watcher

\* For any replicas, events and faults: however the reads and writes of
\* SetDeviceStatus interleave (connectivity.go:103), a status never mixes the
\* devices or the kinds of events.
THEOREM TimesStayReal == Spec => []TimesAreReal
<1>1. TimesInv => TimesAreReal
  BY DEF TimesInv, StatusesReal, Real, TimesAreReal
<1> QED  BY TimesInit, TimesStep, <1>1, PTL DEF Spec
------------------------------------------------------------------------------
(* What acknowledging before handling loses *)

\* A watcher between events has none in hand, and one that is down handles
\* nothing; without a connection nothing is delivered, and what is in msgs of
\* one that lives is not acknowledged.
Rests(r) ==
    /\ pc[r] = "loop" => ev[r] = None
    /\ svc[r] \notin {"consuming", "cut"} => got[r] = <<>>
    /\ svc[r] = "down" => pc[r] = "loop"
    /\ svc[r] # "consuming" => unacked[r] = {}
    /\ svc[r] = "consuming" => Elements(got[r]) \subseteq unacked[r]

AtRest == \A r \in Replica : Rests(r)

\* What the broker will hand out, at once or when it notices a dead connection.
Waiting == queue \cup UNION stale

\* The event will be handled if nothing more fails, wherever acknowledgements
\* got to: it waits, it is in hand or in the msgs of a connection that lives.
Kept(n) ==
    \/ n \in Waiting
    \/ n \in WrittenEvents
    \/ \E r \in Replica : n = ev[r]
    \/ \E r \in Replica : svc[r] = "consuming" /\ n \in Elements(got[r])

Doomed == {n \in Reported : ~Kept(n)}

LossBound == Cardinality(Doomed) <= crashes + errors

LossInv == TypeOK /\ AtRest /\ LossBound

\* Lost events are among those that nothing keeps.
LEMMA LostIsNotKept == Lost \subseteq Doomed
<1> SUFFICES ASSUME NEW n \in Lost  PROVE n \in Doomed
  OBVIOUS
<1>1. /\ n \in Reported /\ n \notin queue /\ n \notin WrittenEvents /\ n \notin UNION stale
      /\ n \notin UNION {unacked[r] \cup Elements(got[r]) \cup {ev[r]} : r \in Replica}
  BY DEF Lost
<1>2. ASSUME NEW r \in Replica
      PROVE  n \notin Elements(got[r]) /\ n # ev[r]
  BY <1>1
<1> QED  BY <1>1, <1>2 DEF Doomed, Kept, Waiting

\* The doomed events after a step.
LEMMA DoomedNext == \A n : n \in Doomed' <=> n \in Reported' /\ ~Kept(n)'
BY DEF Doomed

\* They are finitely many, so they can be counted.
LEMMA DoomedIsFinite == TypeOK => IsFiniteSet(Doomed) /\ Cardinality(Doomed) \in Nat
<1> SUFFICES ASSUME TypeOK  PROVE IsFiniteSet(Doomed)
  BY FS_CardinalityType
<1>1. IsFiniteSet(Reported)
  BY FS_Interval DEF Reported, TypeOK
<1>2. Doomed \subseteq Reported
  BY DEF Doomed
<1> QED  BY <1>1, <1>2, FS_Subset

\* Inequalities chain: cited where terms are too large to compare at once.
LEMMA Chain == \A a, b, m, n \in Int : a <= b /\ b <= m /\ m <= n => a <= n
OBVIOUS

\* The bound is kept by a step that loses nothing, and by one that loses one
\* event and is a fault.
LEMMA NothingLost ==
    ASSUME LossInv, TypeOK', Doomed' \subseteq Doomed,
           crashes' + errors' >= crashes + errors
    PROVE  LossBound'
<1>1. IsFiniteSet(Doomed) /\ Cardinality(Doomed) \in Nat
  BY DoomedIsFinite DEF LossInv
<1>2. Cardinality(Doomed') <= Cardinality(Doomed) /\ Cardinality(Doomed') \in Nat
  BY <1>1, FS_Subset, FS_CardinalityType
<1>3. /\ crashes \in Int /\ errors \in Int /\ crashes' \in Int /\ errors' \in Int
      /\ Cardinality(Doomed) <= crashes + errors
  BY DEF LossInv, TypeOK, LossBound
<1>4. PICK c \in Int, e \in Int : c = crashes' /\ e = errors'
  BY <1>3
<1>5. c + e >= crashes + errors
  BY <1>4
<1>6. Cardinality(Doomed') <= c + e
  BY <1>1, <1>2, <1>3, <1>5
<1> QED  BY <1>4, <1>6 DEF LossBound

\* A step that stops keeping one event loses at most that one.
LEMMA OneLost ==
    ASSUME LossInv, TypeOK', NEW n, Doomed' \subseteq Doomed \cup {n},
           crashes' + errors' = crashes + errors + 1
    PROVE  LossBound'
<1>1. IsFiniteSet(Doomed) /\ Cardinality(Doomed) \in Nat
  BY DoomedIsFinite DEF LossInv
<1>2. /\ IsFiniteSet(Doomed \cup {n})
      /\ Cardinality(Doomed \cup {n}) = Cardinality(Doomed) \/ Cardinality(Doomed \cup {n}) = Cardinality(Doomed) + 1
  BY <1>1, FS_AddElement
<1>3. Cardinality(Doomed') <= Cardinality(Doomed \cup {n}) /\ Cardinality(Doomed') \in Nat
  BY <1>2, FS_Subset, FS_CardinalityType
<1>4. /\ crashes \in Int /\ errors \in Int /\ crashes' \in Int /\ errors' \in Int
      /\ Cardinality(Doomed) <= crashes + errors
  BY DEF LossInv, TypeOK, LossBound
<1>5. Cardinality(Doomed \cup {n}) \in Int /\ Cardinality(Doomed \cup {n}) <= crashes + errors + 1
  BY <1>1, <1>2, <1>4
<1>6. Cardinality(Doomed') <= crashes + errors + 1
  BY <1>3, <1>4, <1>5, Chain
<1> QED  BY <1>6 DEF LossBound

\* Nothing is lost at the start.
LEMMA LossInit == Init => LossInv
<1> SUFFICES ASSUME Init  PROVE LossInv
  OBVIOUS
<1>1. Doomed = {} /\ crashes = 0 /\ errors = 0
  BY DEF Init, Doomed, Reported
<1>2. AtRest
  BY DEF Init, AtRest, Rests, Elements
<1> QED  BY <1>1, <1>2, TypeInit, FS_EmptySet DEF LossInv, LossBound

\* A watcher at its loop has nothing in hand, and one without a connection was
\* given nothing, after every step too.
LEMMA AtRestStep == TypeOK /\ AtRest /\ [Next]_vars => AtRest'
<1> SUFFICES ASSUME TypeOK, AtRest, [Next]_vars, NEW o \in Replica
             PROVE  Rests(o)'
  BY DEF AtRest
<1> USE DEF brokerVars, watcherVars, statusVars
<1>r. Rests(o) /\ got[o] \in Seq(Reported)
  BY DEF AtRest, TypeOK
\* Most steps concern another replica, or move neither queue nor msgs.
<1>s. ASSUME svc'[o] = svc[o], pc'[o] = pc[o], ev'[o] = ev[o], got'[o] = got[o], unacked'[o] = unacked[o]
      PROVE  Rests(o)'
  BY <1>r, <1>s DEF Rests
<1>1. ASSUME NEW r \in Replica, Start(r) \/ Dial(r) \/ Disconnect(r) \/ Notice(r) \/ Crash(r)
      PROVE  Rests(o)'
  <2>1. CASE r # o
    BY <1>1, <1>s, <2>1 DEF Start, Dial, Disconnect, Notice, Crash, CutOff, TypeOK
  <2>2. CASE r = o /\ Start(r)
    BY <1>r, <2>2 DEF Start, Rests, TypeOK
  <2>3. CASE r = o /\ Dial(r)
    BY <1>r, <2>3 DEF Dial, Rests, TypeOK, Elements
  <2>4. CASE r = o /\ Disconnect(r)
    BY <1>r, <2>4 DEF Disconnect, CutOff, Rests, TypeOK
  <2>5. CASE r = o /\ Notice(r)
    BY <1>r, <2>5 DEF Notice, Rests, TypeOK
  <2>6. CASE r = o /\ Crash(r)
    BY <1>r, <2>6 DEF Crash, CutOff, Rests, TypeOK
  <2> QED  BY <1>1, <2>1, <2>2, <2>3, <2>4, <2>5, <2>6
<1>2. ASSUME NEW r \in Replica, Watcher(r)
      PROVE  Rests(o)'
  <2>1. CASE r # o
    BY <1>2, <1>s, <2>1 DEF Watcher, Receive, Ack, Read, ReadFails, Write, WriteFails, Handled, TypeOK
  <2>2. CASE r = o /\ Receive(r)
    <3>1. Elements(Tail(got[o])) \subseteq Elements(got[o])
      BY <1>r, <2>2, ElementsOf DEF Receive
    <3> QED  BY <1>r, <2>2, <3>1 DEF Receive, Rests, TypeOK
  <2>3. CASE r = o /\ (Ack(r) \/ Read(r) \/ ReadFails(r))
    BY <1>r, <2>3 DEF Ack, Read, ReadFails, Rests, TypeOK
  <2>4. CASE r = o /\ (Write(r) \/ WriteFails(r))
    BY <1>r, <2>4 DEF Write, WriteFails, Handled, Rests, TypeOK
  <2> QED  BY <1>2, <2>1, <2>2, <2>3, <2>4 DEF Watcher
<1>3. ASSUME NEW r \in Replica, HandOut(r)
      PROVE  Rests(o)'
  <2>1. PICK k \in queue : /\ unacked' = [unacked EXCEPT ![r] = unacked[r] \cup {k}]
                           /\ got' = [got EXCEPT ![r] = Append(got[r], k)]
    BY <1>3, Zenon DEF HandOut
  <2>2. k \in Reported /\ UNCHANGED <<svc, pc, ev>> /\ svc[r] = "consuming"
    BY <1>3 DEF HandOut, TypeOK
  <2>3. CASE r = o
    <3>1. Elements(Append(got[o], k)) = Elements(got[o]) \cup {k}
      BY <1>r, <2>2, ElementsOf
    <3> QED  BY <1>r, <2>1, <2>2, <2>3, <3>1 DEF Rests, TypeOK
  <2>4. CASE r # o
    BY <1>s, <2>1, <2>2, <2>4 DEF TypeOK
  <2> QED  BY <2>3, <2>4
<1>4. ASSUME NEW r \in Replica, AckArrives(r)
      PROVE  Rests(o)'
  <2>1. PICK n \in unacked[r] \ Pending(r) : unacked' = [unacked EXCEPT ![r] = unacked[r] \ {n}]
    BY <1>4, Zenon DEF AckArrives
  <2>2. UNCHANGED <<svc, pc, ev, got>>
    BY <1>4 DEF AckArrives
  <2>3. CASE r = o
    <3>1. n \notin Elements(got[o])
      BY <2>1, <2>3 DEF Pending
    <3> QED  BY <1>r, <2>1, <2>2, <2>3, <3>1 DEF Rests, TypeOK
  <2>4. CASE r # o
    BY <1>s, <2>1, <2>2, <2>4 DEF TypeOK
  <2> QED  BY <2>3, <2>4
<1>5. CASE (\E d \in Device, connected \in BOOLEAN : Report(d, connected)) \/ Requeue \/ UNCHANGED vars
  BY <1>s, <1>5 DEF Report, Requeue, vars
<1> QED  BY <1>1, <1>2, <1>3, <1>4, <1>5 DEF Next

\* What a dead connection takes with it waits for the broker to notice.
LEMMA CutOffWaits ==
    ASSUME TypeOK, NEW r \in Replica, CutOff(r), UNCHANGED queue
    PROVE  /\ unacked' = [unacked EXCEPT ![r] = {}]
           /\ Waiting' = Waiting \cup unacked[r]
<1>1. unacked' = [unacked EXCEPT ![r] = {}] /\ stale' = stale \cup ({unacked[r]} \ {{}})
  BY DEF CutOff, Unsettled
<1>2. ASSUME NEW n
      PROVE  n \in UNION stale' <=> n \in UNION stale \/ n \in unacked[r]
  <2>1. CASE n \in unacked[r]
    <3>1. unacked[r] \in stale'
      BY <1>1, <2>1
    <3> QED  BY <2>1, <3>1
  <2>2. CASE n \notin unacked[r]
    BY <1>1, <2>2
  <2> QED  BY <2>1, <2>2
<1> QED  BY <1>1, <1>2 DEF Waiting

\* The broker notices: what the connection left goes on waiting.
LEMMA RequeueWaits == Requeue => Waiting' = Waiting
<1> SUFFICES ASSUME Requeue  PROVE Waiting' = Waiting
  OBVIOUS
<1>1. PICK s \in stale : queue' = queue \cup s /\ stale' = stale \ {s}
  BY Zenon DEF Requeue
<1>2. UNION stale = s \cup UNION (stale \ {s})
  OBVIOUS
<1> QED  BY <1>1, <1>2 DEF Waiting

\* Every step that gives an event up is a crash or an error, and is counted.
LEMMA LossStep == LossInv /\ [Next]_vars => LossInv'
<1> SUFFICES ASSUME LossInv, [Next]_vars  PROVE LossInv'
  OBVIOUS
<1>1. TypeOK' /\ AtRest' /\ TypeOK /\ AtRest
  BY TypeStep, AtRestStep DEF LossInv
<1> SUFFICES LossBound'
  BY <1>1 DEF LossInv
<1> USE DEF brokerVars, watcherVars, statusVars
<1>n. {crashes, errors} \subseteq Int
  BY <1>1 DEF TypeOK
<1>k. ASSUME Reported' = Reported, \A m \in Reported : Kept(m) => Kept(m)', crashes' = crashes,
             errors' = errors \/ errors' = errors + 1
      PROVE  LossBound'
  <2>1. Doomed' \subseteq Doomed
    BY <1>k, DoomedNext DEF Doomed
  <2>2. crashes' + errors' >= crashes + errors
    BY <1>k, <1>n
  <2> QED  BY <1>1, <2>1, <2>2, NothingLost
<1>g. ASSUME NEW n, Reported' = Reported, \A m \in Reported \ {n} : Kept(m) => Kept(m)',
             \/ crashes' = crashes + 1 /\ errors' = errors
             \/ errors' = errors + 1 /\ crashes' = crashes
      PROVE  LossBound'
  <2>1. Doomed' \subseteq Doomed \cup {n}
    BY <1>g, DoomedNext DEF Doomed
  <2>2. crashes' + errors' = crashes + errors + 1
    BY <1>g, <1>n
  <2> QED  BY <1>1, <2>1, <2>2, OneLost
<1>2. ASSUME NEW d \in Device, NEW connected \in BOOLEAN, Report(d, connected)
      PROVE  LossBound'
  <2>0. PICK k : k = Len(emitted) + 1
    OBVIOUS
  <2>1. /\ queue' = queue \cup {k}
        /\ UNCHANGED <<stale, written, svc, got, ev, crashes, errors>>
    BY <1>2, <2>0 DEF Report
  <2>2. Reported' = Reported \cup {k}
    BY <1>1, <1>2, <2>0, ReportedGrows DEF Report, Event, Reported, TypeOK
  <2>3. Doomed' \subseteq Doomed
    <3>1. \A m : Kept(m) => Kept(m)'
      BY <2>1 DEF Kept, Waiting, WrittenEvents
    <3>2. Kept(k)'
      BY <2>1 DEF Kept, Waiting
    <3> QED  BY <2>2, <3>1, <3>2, DoomedNext DEF Doomed
  <2>4. crashes' + errors' >= crashes + errors
    BY <1>n, <2>1
  <2> QED  BY <1>1, <2>3, <2>4, NothingLost
<1>3. ASSUME NEW r \in Replica,
             Start(r) \/ Dial(r) \/ AckArrives(r) \/ Notice(r) \/ Ack(r) \/ Read(r) \/ ReadFails(r)
      PROVE  LossBound'
  <2>1. /\ UNCHANGED <<emitted, queue, stale, written, ev, crashes>>
        /\ errors' = errors \/ errors' = errors + 1
    BY <1>3 DEF Start, Dial, AckArrives, Notice, Ack, Read, ReadFails
  <2>2. \A o \in Replica : svc[o] = "consuming" => svc'[o] = "consuming" /\ got'[o] = got[o]
    <3>1. CASE Notice(r)
      BY <1>1, <3>1 DEF Notice, TypeOK
    <3>2. CASE Start(r) \/ Dial(r)
      BY <1>1, <3>2 DEF Start, Dial, TypeOK
    <3>3. CASE AckArrives(r) \/ Ack(r) \/ Read(r) \/ ReadFails(r)
      <4>1. UNCHANGED <<svc, got>>
        BY <3>3 DEF AckArrives, Ack, Read, ReadFails
      <4> QED  BY <4>1
    <3> QED  BY <1>3, <3>1, <3>2, <3>3
  <2>3. \A m \in Reported : Kept(m) => Kept(m)'
    BY <2>1, <2>2 DEF Kept, Waiting, WrittenEvents
  <2> QED  BY <1>k, <2>1, <2>3 DEF Reported
<1>4. ASSUME NEW r \in Replica, HandOut(r)
      PROVE  LossBound'
  <2>1. PICK k \in queue : queue' = queue \ {k} /\ got' = [got EXCEPT ![r] = Append(got[r], k)]
    BY <1>4, Zenon DEF HandOut
  <2>2. UNCHANGED <<emitted, stale, written, ev, svc, crashes, errors>> /\ svc[r] = "consuming"
    BY <1>4 DEF HandOut
  <2>3. got[r] \in Seq(Reported) /\ k \in Reported
    BY <1>1, <2>1 DEF TypeOK
  <2>4. Elements(got'[r]) = Elements(got[r]) \cup {k} /\ \A o \in Replica \ {r} : got'[o] = got[o]
    BY <1>1, <2>1, <2>3, ElementsOf DEF TypeOK
  <2>5. \A m \in Reported : Kept(m) => Kept(m)'
    BY <2>1, <2>2, <2>4 DEF Kept, Waiting, WrittenEvents
  <2> QED  BY <1>k, <2>2, <2>5 DEF Reported
<1>5. ASSUME NEW r \in Replica, Receive(r)
      PROVE  LossBound'
  <2>1. /\ ev' = [ev EXCEPT ![r] = Head(got[r])] /\ got' = [got EXCEPT ![r] = Tail(got[r])]
        /\ UNCHANGED <<emitted, queue, stale, written, svc, crashes, errors>>
    BY <1>5 DEF Receive
  <2>2. Elements(got[r]) = {Head(got[r])} \cup Elements(Tail(got[r]))
    BY <1>1, <1>5, ElementsOf DEF Receive, TypeOK
  <2>3. ev[r] = None
    BY <1>1, <1>5 DEF Receive, AtRest, Rests
  <2>4. /\ ev'[r] = Head(got[r]) /\ Elements(got'[r]) = Elements(Tail(got[r]))
        /\ \A o \in Replica \ {r} : ev'[o] = ev[o] /\ got'[o] = got[o]
    BY <1>1, <2>1 DEF TypeOK
  <2>5. ASSUME NEW m \in Reported, Kept(m)  PROVE Kept(m)'
    <3>1. m # None
      BY DEF Reported, None
    <3> QED  BY <2>1, <2>2, <2>3, <2>4, <2>5, <3>1 DEF Kept, Waiting, WrittenEvents
  <2> QED  BY <1>k, <2>1, <2>5 DEF Reported
<1>6. ASSUME NEW r \in Replica, Write(r)
      PROVE  LossBound'
  <2>1. /\ ev' = [ev EXCEPT ![r] = None] /\ written' = Append(written, ev[r])
        /\ UNCHANGED <<emitted, queue, stale, svc, got, crashes, errors>>
    BY <1>6 DEF Write, Handled
  <2>2. WrittenEvents' = WrittenEvents \cup {ev[r]}
    BY <1>1, <1>6, <2>1, NewStatusType, ElementsOf DEF Write, WrittenEvents, TypeOK
  <2>3. \A o \in Replica \ {r} : ev'[o] = ev[o]
    BY <1>1, <2>1 DEF TypeOK
  <2>4. \A m \in Reported : Kept(m) => Kept(m)'
    BY <2>1, <2>2, <2>3 DEF Kept, Waiting
  <2> QED  BY <1>k, <2>1, <2>4 DEF Reported
<1>7. ASSUME NEW r \in Replica, WriteFails(r)
      PROVE  LossBound'
  <2>1. /\ ev' = [ev EXCEPT ![r] = None] /\ errors' = errors + 1
        /\ UNCHANGED <<emitted, queue, stale, svc, got, written, crashes>>
    BY <1>7 DEF WriteFails, Handled
  <2>2. \A o \in Replica \ {r} : ev'[o] = ev[o]
    BY <1>1, <2>1 DEF TypeOK
  <2>3. \A m \in Reported \ {ev[r]} : Kept(m) => Kept(m)'
    BY <2>1, <2>2 DEF Kept, Waiting, WrittenEvents
  <2> QED  BY <1>g, <2>1, <2>3 DEF Reported
<1>8. ASSUME NEW r \in Replica, Disconnect(r)
      PROVE  LossBound'
  <2>1. UNCHANGED <<emitted, queue, written, ev, got, crashes, errors>>
    BY <1>8 DEF Disconnect
  <2>2. \A o \in Replica \ {r} : svc'[o] = svc[o]
    BY <1>1, <1>8 DEF Disconnect, TypeOK
  <2>3. Waiting' = Waiting \cup unacked[r]
    BY <1>1, <1>8, <2>1, CutOffWaits DEF Disconnect, Waiting
  <2>4. svc[r] = "consuming" => Elements(got[r]) \subseteq unacked[r]
    BY <1>1 DEF AtRest, Rests
  <2>5. \A m \in Reported : Kept(m) => Kept(m)'
    BY <2>1, <2>2, <2>3, <2>4 DEF Kept, WrittenEvents
  <2> QED  BY <1>k, <2>1, <2>5 DEF Reported
<1>9. ASSUME NEW r \in Replica, Crash(r)
      PROVE  LossBound'
  <2>1. crashes' = crashes + 1 /\ UNCHANGED <<emitted, queue, written, errors>>
    BY <1>9 DEF Crash
  <2>2. \A o \in Replica \ {r} : svc'[o] = svc[o] /\ got'[o] = got[o] /\ ev'[o] = ev[o]
    BY <1>1, <1>9 DEF Crash, TypeOK
  <2>3. Waiting' = Waiting \cup unacked[r]
    BY <1>1, <1>9, <2>1, CutOffWaits DEF Crash, Waiting
  <2>4. svc[r] = "consuming" => Elements(got[r]) \subseteq unacked[r]
    BY <1>1 DEF AtRest, Rests
  <2>5. \A m \in Reported \ {ev[r]} : Kept(m) => Kept(m)'
    BY <2>1, <2>2, <2>3, <2>4 DEF Kept, WrittenEvents
  <2> QED  BY <1>g, <2>1, <2>5 DEF Reported
<1>10. CASE Requeue \/ UNCHANGED vars
  <2>1. UNCHANGED <<emitted, written, svc, got, ev, crashes, errors>>
    BY <1>10 DEF Requeue, vars
  <2>2. Waiting' = Waiting
    BY <1>10, RequeueWaits DEF vars, Waiting
  <2>3. \A m \in Reported : Kept(m) => Kept(m)'
    BY <2>1, <2>2 DEF Kept, WrittenEvents
  <2> QED  BY <1>k, <2>1, <2>3 DEF Reported
<1> QED
  BY <1>2, <1>3, <1>4, <1>5, <1>6, <1>7, <1>8, <1>9, <1>10 DEF Next, Watcher

\* For any replicas, events and faults: acknowledging an event before it is
\* handled (rabbit.go:131) loses at most one event for each crash and for each
\* Redis error, and a dead AMQP connection loses none.
THEOREM LossIsBounded == Spec => []LostOnlyByFault
<1>1. LossInv => LostOnlyByFault
  <2> SUFFICES ASSUME LossInv  PROVE LostOnlyByFault
    OBVIOUS
  <2>1. IsFiniteSet(Doomed) /\ Cardinality(Doomed) \in Nat /\ {crashes, errors} \subseteq Nat
    BY DoomedIsFinite DEF LossInv, TypeOK
  <2>2. Cardinality(Lost) <= Cardinality(Doomed) /\ Cardinality(Lost) \in Nat
    BY <2>1, LostIsNotKept, FS_Subset, FS_CardinalityType
  <2> QED  BY <2>1, <2>2 DEF LossInv, LossBound, LostOnlyByFault
<1> QED  BY LossInit, LossStep, <1>1, PTL DEF Spec

------------------------------------------------------------------------------
(* An event is handled again only for a dead connection *)

\* No element twice.
Once(s) == \A i, j \in DOMAIN s : s[i] = s[j] => i = j

\* An event waits in the queue or for one dead connection, and the broker has
\* given it to one that lives.
WaitsOnce ==
    /\ queue \cap UNION stale = {}
    /\ \A s, t \in stale : s # t => s \cap t = {}
GivenOnce ==
    /\ \A r \in Replica : unacked[r] \cap Waiting = {}
    /\ \A r, o \in Replica : r # o => unacked[r] \cap unacked[o] = {}
GotOnce == \A r \in Replica : Once(got[r])

PlaceInv == WaitsOnce /\ GivenOnce /\ GotOnce

\* Where event n is to be handled, is handled and was handled.
Copies(n) ==
    {<<"waiting", 0>> : x \in {n} \cap Waiting}
    \cup {<<"msgs", r>> : r \in {o \in Replica : n \in Elements(got[o])}}
    \cup {<<"hand", r>> : r \in {o \in Replica : ev[o] = n}}
    \cup {<<"written", i>> : i \in {j \in DOMAIN written : written[j] = n}}

\* All but one of them have their dead connection.
Paid(n) == IsFiniteSet(Copies(n)) /\ Cardinality(Copies(n)) <= 1 + disconnects + crashes
RepeatInv == \A n \in Reported : Paid(n)

RepeatsInv == TypeOK /\ AtRest /\ PlaceInv /\ RepeatInv

\* A new element at the end, and a sequence without its first.
LEMMA OnceOf ==
    ASSUME NEW S, NEW s \in Seq(S), Once(s)
    PROVE  /\ \A x \in S : x \notin Elements(s) => Once(Append(s, x))
           /\ s # <<>> => Once(Tail(s)) /\ Head(s) \notin Elements(Tail(s))
<1>1. PICK k \in Nat : k = Len(s) /\ DOMAIN s = 1 .. k
  OBVIOUS
<1>2. ASSUME NEW x \in S, x \notin Elements(s)
      PROVE  Once(Append(s, x))
  <2> DEFINE t == Append(s, x)
  <2>1. DOMAIN t = 1 .. k + 1 /\ t[k + 1] = x /\ \A i \in 1 .. k : t[i] = s[i]
    BY <1>1
  <2>2. \A i \in 1 .. k : s[i] # x
    BY <1>1, <1>2 DEF Elements
  <2> HIDE DEF t
  <2>3. ASSUME NEW i \in 1 .. k + 1, NEW j \in 1 .. k + 1, t[i] = t[j]
        PROVE  i = j
    <3>1. (i \in 1 .. k \/ i = k + 1) /\ (j \in 1 .. k \/ j = k + 1)
      BY <1>1
    <3> QED  BY <1>1, <2>1, <2>2, <2>3, <3>1 DEF Once
  <2> QED  BY <2>1, <2>3 DEF Once, t
<1>3. ASSUME s # <<>>
      PROVE  Once(Tail(s)) /\ Head(s) \notin Elements(Tail(s))
  <2> DEFINE t == Tail(s)
  <2>1. k > 0 /\ Head(s) = s[1] /\ DOMAIN t = 1 .. k - 1 /\ \A i \in 1 .. k - 1 : t[i] = s[i + 1]
    BY <1>1, <1>3
  <2>2. \A i \in 1 .. k - 1 : i + 1 \in 1 .. k /\ i + 1 # 1
    BY <1>1
  <2>3. 1 \in 1 .. k
    BY <1>1, <2>1
  <2> HIDE DEF t
  <2>4. \A i, j \in 1 .. k - 1 : t[i] = t[j] => i = j
    <3> SUFFICES ASSUME NEW i \in 1 .. k - 1, NEW j \in 1 .. k - 1, t[i] = t[j]  PROVE i = j
      OBVIOUS
    <3>1. s[i + 1] = s[j + 1] /\ i + 1 \in 1 .. k /\ j + 1 \in 1 .. k
      BY <2>1, <2>2
    <3>2. i + 1 = j + 1
      BY <1>1, <3>1 DEF Once
    <3> QED  BY <3>2
  <2>5. \A i \in 1 .. k - 1 : t[i] # Head(s)
    BY <1>1, <2>1, <2>2, <2>3 DEF Once
  <2> QED  BY <2>1, <2>4, <2>5 DEF Once, Elements, t
<1> QED  BY <1>2, <1>3

\* What was written was reported.
LEMMA WrittenAreReported == TypeOK => WrittenEvents \subseteq Reported /\ Len(written) \in Nat
<1> SUFFICES ASSUME TypeOK  PROVE WrittenEvents \subseteq Reported /\ Len(written) \in Nat
  OBVIOUS
<1>1. written \in Seq(Reported)
  BY DEF TypeOK
<1> QED  BY <1>1, ElementsOf DEF WrittenEvents

\* Every event is in one place only at the broker, after every step too.
LEMMA PlaceStep == RepeatsInv /\ [Next]_vars => PlaceInv'
<1> SUFFICES ASSUME RepeatsInv, [Next]_vars  PROVE PlaceInv'
  OBVIOUS
<1>t. TypeOK /\ AtRest /\ WaitsOnce /\ GivenOnce /\ GotOnce
  BY DEF RepeatsInv, PlaceInv
<1> USE DEF brokerVars, watcherVars, statusVars
<1>1. ASSUME NEW d \in Device, NEW connected \in BOOLEAN, Report(d, connected)
      PROVE  PlaceInv'
  <2>1. queue' = queue \cup {Len(emitted) + 1} /\ UNCHANGED <<stale, unacked, got>>
    BY <1>1 DEF Report
  <2>2. Len(emitted) + 1 \notin Reported
    BY <1>t DEF Reported, TypeOK
  <2>3. (\A r \in Replica : unacked[r] \subseteq Reported) /\ UNION stale \subseteq Reported
    BY <1>t DEF TypeOK
  <2>4. WaitsOnce'
    BY <1>t, <2>1, <2>2, <2>3 DEF WaitsOnce
  <2>5. GivenOnce'
    BY <1>t, <2>1, <2>2, <2>3 DEF GivenOnce, Waiting
  <2> QED  BY <1>t, <2>1, <2>4, <2>5 DEF PlaceInv, GotOnce
<1>2. ASSUME NEW r \in Replica, HandOut(r)
      PROVE  PlaceInv'
  <2>1. PICK k \in queue : /\ queue' = queue \ {k}
                           /\ unacked' = [unacked EXCEPT ![r] = unacked[r] \cup {k}]
                           /\ got' = [got EXCEPT ![r] = Append(got[r], k)]
    BY <1>2, Zenon DEF HandOut
  <2>2. UNCHANGED stale /\ svc[r] = "consuming" /\ got[r] \in Seq(Reported) /\ k \in Reported
    BY <1>2, <1>t, <2>1 DEF HandOut, TypeOK
  <2>3. /\ unacked'[r] = unacked[r] \cup {k} /\ \A o \in Replica \ {r} : unacked'[o] = unacked[o]
        /\ got'[r] = Append(got[r], k) /\ \A o \in Replica \ {r} : got'[o] = got[o]
    BY <1>t, <2>1 DEF TypeOK
  <2>4. WaitsOnce'
    BY <1>t, <2>1, <2>2 DEF WaitsOnce
  <2>5. k \in Waiting /\ Waiting' = Waiting \ {k}
    BY <1>t, <2>1, <2>2 DEF Waiting, WaitsOnce
  <2>6. \A o \in Replica : k \notin unacked[o]
    BY <1>t, <2>5 DEF GivenOnce
  <2>7. GivenOnce'
    BY <1>t, <2>3, <2>5, <2>6 DEF GivenOnce
  <2>8. k \notin Elements(got[r])
    BY <1>t, <2>2, <2>6 DEF AtRest, Rests
  <2>9. Once(got'[r])
    BY <1>t, <2>2, <2>3, <2>8, OnceOf DEF GotOnce
  <2> QED  BY <1>t, <2>3, <2>4, <2>7, <2>9 DEF PlaceInv, GotOnce
<1>3. ASSUME NEW r \in Replica, AckArrives(r)
      PROVE  PlaceInv'
  <2>1. PICK n : unacked' = [unacked EXCEPT ![r] = unacked[r] \ {n}]
    BY <1>3, Zenon DEF AckArrives
  <2>2. UNCHANGED <<queue, stale, got>> /\ \A o \in Replica : unacked'[o] \subseteq unacked[o]
    BY <1>3, <1>t, <2>1 DEF AckArrives, TypeOK
  <2>3. GivenOnce'
    BY <1>t, <2>2 DEF GivenOnce, Waiting
  <2> QED  BY <1>t, <2>2, <2>3 DEF PlaceInv, WaitsOnce, GotOnce
<1>4. ASSUME NEW r \in Replica, Receive(r)
      PROVE  PlaceInv'
  <2>1. got[r] # <<>> /\ got' = [got EXCEPT ![r] = Tail(got[r])] /\ UNCHANGED <<queue, stale, unacked>>
    BY <1>4 DEF Receive
  <2>2. got[r] \in Seq(Reported) /\ Once(got[r])
    BY <1>t DEF TypeOK, GotOnce
  <2>3. Once(Tail(got[r]))
    BY <2>1, <2>2, OnceOf
  <2>4. GotOnce'
    BY <1>t, <2>1, <2>3 DEF GotOnce, TypeOK
  <2> QED  BY <1>t, <2>1, <2>4 DEF PlaceInv, WaitsOnce, GivenOnce, Waiting
<1>5. ASSUME NEW r \in Replica, Disconnect(r) \/ Crash(r)
      PROVE  PlaceInv'
  <2>1. CutOff(r) /\ UNCHANGED queue /\ got'[r] \in {got[r], <<>>} /\ \A o \in Replica \ {r} : got'[o] = got[o]
    BY <1>5, <1>t DEF Disconnect, Crash, TypeOK
  <2>2. /\ unacked'[r] = {} /\ (\A o \in Replica \ {r} : unacked'[o] = unacked[o])
        /\ Waiting' = Waiting \cup unacked[r]
    BY <1>t, <2>1, CutOffWaits DEF TypeOK
  <2>3. unacked[r] \cap Waiting = {} /\ \A o \in Replica \ {r} : unacked[o] \cap unacked[r] = {}
    BY <1>t DEF GivenOnce
  <2>4. GivenOnce'
    BY <1>t, <2>2, <2>3 DEF GivenOnce
  <2>5. WaitsOnce'
    <3>1. stale' \subseteq stale \cup {unacked[r]}
      BY <2>1 DEF CutOff, Unsettled
    <3>2. \A s \in stale : s \cap unacked[r] = {}
      BY <2>3 DEF Waiting
    <3>3. \A s, t \in stale' : s # t => s \cap t = {}
      BY <1>t, <3>1, <3>2 DEF WaitsOnce
    <3>4. \A s \in stale' : queue' \cap s = {}
      <4>1. (\A s \in stale : queue \cap s = {}) /\ queue \cap unacked[r] = {}
        BY <1>t, <2>3 DEF WaitsOnce, Waiting
      <4> QED  BY <2>1, <3>1, <4>1
    <3> QED  BY <3>3, <3>4 DEF WaitsOnce
  <2>6. Once(<<>>)
    BY DEF Once
  <2> QED  BY <1>t, <2>1, <2>4, <2>5, <2>6 DEF PlaceInv, GotOnce
<1>6. ASSUME NEW r \in Replica, Notice(r)
      PROVE  PlaceInv'
  <2>1. UNCHANGED <<queue, stale, unacked>> /\ \A o \in Replica : got'[o] \in {got[o], <<>>}
    BY <1>6, <1>t DEF Notice, TypeOK
  <2>2. Once(<<>>)
    BY DEF Once
  <2> QED  BY <1>t, <2>1, <2>2 DEF PlaceInv, WaitsOnce, GivenOnce, GotOnce, Waiting
<1>7. CASE Requeue
  <2>1. PICK s \in stale : queue' = queue \cup s /\ stale' = stale \ {s}
    BY <1>7, Zenon DEF Requeue
  <2>2. UNCHANGED <<unacked, got>> /\ Waiting' = Waiting
    BY <1>7, RequeueWaits DEF Requeue
  <2>3. \A t \in stale \ {s} : s \cap t = {}
    BY <1>t, <2>1 DEF WaitsOnce
  <2>4. WaitsOnce'
    BY <1>t, <2>1, <2>3 DEF WaitsOnce
  <2> QED  BY <1>t, <2>2, <2>4 DEF PlaceInv, GivenOnce, GotOnce
<1>8. ASSUME UNCHANGED <<queue, stale, unacked, got>>
      PROVE  PlaceInv'
  BY <1>t, <1>8 DEF PlaceInv, WaitsOnce, GivenOnce, GotOnce, Waiting
<1>9. ASSUME NEW r \in Replica,
             Start(r) \/ Dial(r) \/ Ack(r) \/ Read(r) \/ ReadFails(r) \/ Write(r) \/ WriteFails(r)
      PROVE  PlaceInv'
  BY <1>8, <1>9 DEF Start, Dial, Ack, Read, ReadFails, Write, WriteFails, Handled
<1>10. CASE UNCHANGED vars
  BY <1>8, <1>10 DEF vars
<1> QED
  BY <1>1, <1>2, <1>3, <1>4, <1>5, <1>6, <1>7, <1>9, <1>10 DEF Next, Watcher

\* With or without one element.
LEMMA OneMore ==
    ASSUME NEW S, NEW x, IsFiniteSet(S)
    PROVE  /\ IsFiniteSet(S \cup {x}) /\ IsFiniteSet(S \ {x}) /\ Cardinality(S) \in Nat
           /\ x \notin S => Cardinality(S \cup {x}) = Cardinality(S) + 1
           /\ x \in S => Cardinality(S \ {x}) = Cardinality(S) - 1
BY FS_AddElement, FS_RemoveElement, FS_CardinalityType

\* A set that takes one element for another, and one that has another more.
LEMMA Exchange ==
    ASSUME NEW S, NEW T, NEW x, NEW y, IsFiniteSet(S), T \subseteq S \cup {y}
    PROVE  /\ IsFiniteSet(T) /\ Cardinality(T) \in Nat /\ Cardinality(S) \in Nat
           /\ Cardinality(T) <= Cardinality(S) + 1
           /\ x \in S /\ T \subseteq (S \ {x}) \cup {y} => Cardinality(T) <= Cardinality(S)
           /\ T \subseteq S => Cardinality(T) <= Cardinality(S)
<1>1. /\ IsFiniteSet(S \cup {y}) /\ Cardinality(S) \in Nat
      /\ Cardinality(S \cup {y}) \in {Cardinality(S), Cardinality(S) + 1}
  BY FS_AddElement, FS_CardinalityType
<1>2. IsFiniteSet(T) /\ Cardinality(T) <= Cardinality(S \cup {y}) /\ Cardinality(T) \in Nat
  BY <1>1, FS_Subset, FS_CardinalityType
<1>3. Cardinality(T) <= Cardinality(S) + 1
  BY <1>1, <1>2
<1>4. ASSUME x \in S, T \subseteq (S \ {x}) \cup {y}
      PROVE  Cardinality(T) <= Cardinality(S)
  <2> DEFINE R == S \ {x}
  <2>1. IsFiniteSet(R) /\ Cardinality(R) = Cardinality(S) - 1
    BY <1>4, OneMore
  <2>2. IsFiniteSet(R \cup {y}) /\ Cardinality(R \cup {y}) \in {Cardinality(R), Cardinality(R) + 1}
    BY <2>1, FS_AddElement
  <2>3. Cardinality(T) <= Cardinality(R \cup {y})
    BY <1>4, <2>2, FS_Subset
  <2> HIDE DEF R
  <2> QED  BY <1>1, <1>2, <2>1, <2>2, <2>3
<1>5. T \subseteq S => Cardinality(T) <= Cardinality(S)
  BY FS_Subset
<1> QED  BY <1>1, <1>2, <1>3, <1>4, <1>5

\* The copies of an event, one by one.
LEMMA CopyOf ==
    \A n, c : c \in Copies(n) <=>
        \/ n \in Waiting /\ c = <<"waiting", 0>>
        \/ \E r \in Replica : n \in Elements(got[r]) /\ c = <<"msgs", r>>
        \/ \E r \in Replica : ev[r] = n /\ c = <<"hand", r>>
        \/ \E i \in DOMAIN written : written[i] = n /\ c = <<"written", i>>
BY DEF Copies

\* The same after a step.
LEMMA CopyNext ==
    \A n, c : c \in Copies(n)' <=>
        \/ n \in Waiting' /\ c = <<"waiting", 0>>
        \/ \E r \in Replica : n \in Elements(got'[r]) /\ c = <<"msgs", r>>
        \/ \E r \in Replica : ev'[r] = n /\ c = <<"hand", r>>
        \/ \E i \in DOMAIN written' : written'[i] = n /\ c = <<"written", i>>
BY DEF Copies, Elements

\* Every step keeps the copies paid: one is added only where a connection dies.
LEMMA RepeatStep == RepeatsInv /\ [Next]_vars => RepeatInv'
<1> SUFFICES ASSUME RepeatsInv, [Next]_vars  PROVE RepeatInv'
  OBVIOUS
<1>t. TypeOK /\ TypeOK' /\ AtRest /\ PlaceInv /\ RepeatInv /\ {disconnects, crashes} \subseteq Nat
  BY TypeStep DEF RepeatsInv, TypeOK
<1> USE DEF brokerVars, watcherVars, statusVars
\* No copy of n more, one for another, or one more and a connection less.
<1>f. ASSUME NEW n \in Reported, Copies(n)' \subseteq Copies(n), UNCHANGED <<disconnects, crashes>>
      PROVE  Paid(n)'
  <2>1. IsFiniteSet(Copies(n)) /\ Cardinality(Copies(n)) <= 1 + disconnects + crashes
    BY <1>t DEF RepeatInv, Paid
  <2>2. PICK T : T = Copies(n)'
    OBVIOUS
  <2>3. IsFiniteSet(T) /\ Cardinality(T) <= Cardinality(Copies(n)) /\ {Cardinality(T), Cardinality(Copies(n))} \subseteq Nat
    BY <1>f, <2>1, <2>2, FS_Subset, FS_CardinalityType
  <2>4. Cardinality(T) <= 1 + disconnects + crashes
    BY <1>t, <2>1, <2>3
  <2> QED  BY <1>f, <2>2, <2>3, <2>4 DEF Paid
<1>m. ASSUME NEW n \in Reported, NEW x \in Copies(n), NEW y, Copies(n)' \subseteq (Copies(n) \ {x}) \cup {y},
             UNCHANGED <<disconnects, crashes>>
      PROVE  Paid(n)'
  <2>1. IsFiniteSet(Copies(n)) /\ Cardinality(Copies(n)) <= 1 + disconnects + crashes
    BY <1>t DEF RepeatInv, Paid
  <2>2. PICK T : T = Copies(n)'
    OBVIOUS
  <2>3. T \subseteq Copies(n) \cup {y} /\ T \subseteq (Copies(n) \ {x}) \cup {y}
    BY <1>m, <2>2
  <2>4. IsFiniteSet(T) /\ Cardinality(T) <= Cardinality(Copies(n)) /\ {Cardinality(T), Cardinality(Copies(n))} \subseteq Nat
    BY <1>m, <2>1, <2>3, Exchange
  <2>5. Cardinality(T) <= 1 + disconnects + crashes
    BY <1>t, <2>1, <2>4
  <2> QED  BY <1>m, <2>2, <2>4, <2>5 DEF Paid
<1>p. ASSUME NEW n \in Reported, NEW y, Copies(n)' \subseteq Copies(n) \cup {y},
             \/ disconnects' = disconnects + 1 /\ crashes' = crashes
             \/ crashes' = crashes + 1 /\ disconnects' = disconnects
      PROVE  Paid(n)'
  <2>1. IsFiniteSet(Copies(n)) /\ Cardinality(Copies(n)) <= 1 + disconnects + crashes
    BY <1>t DEF RepeatInv, Paid
  <2>2. PICK T : T = Copies(n)'
    OBVIOUS
  <2>3. IsFiniteSet(T) /\ Cardinality(T) <= Cardinality(Copies(n)) + 1 /\ {Cardinality(T), Cardinality(Copies(n))} \subseteq Nat
    BY <1>p, <2>1, <2>2, Exchange
  <2>4. Cardinality(T) <= 1 + disconnects' + crashes'
    BY <1>p, <1>t, <2>1, <2>3
  <2> QED  BY <2>2, <2>3, <2>4 DEF Paid
<1>1. ASSUME NEW d \in Device, NEW connected \in BOOLEAN, Report(d, connected)
      PROVE  RepeatInv'
  <2>0. PICK k : k = Len(emitted) + 1
    OBVIOUS
  <2>1. queue' = queue \cup {k} /\ UNCHANGED <<stale, got, ev, written, disconnects, crashes>>
    BY <1>1, <2>0 DEF Report
  <2>2. Reported' = Reported \cup {k} /\ k \notin Reported /\ k # None
    BY <1>1, <1>t, <2>0, ReportedGrows DEF Report, Event, Reported, TypeOK, None
  <2>3. /\ \A r \in Replica : Elements(got[r]) \subseteq Reported /\ ev[r] # k
        /\ \A i \in DOMAIN written : written[i] # k
    <3>1. \A r \in Replica : Elements(got[r]) \subseteq Reported /\ ev[r] # k
      BY <1>t, <2>2, ElementsOf DEF TypeOK
    <3>2. WrittenEvents \subseteq Reported
      BY <1>t, WrittenAreReported
    <3> QED  BY <2>2, <3>1, <3>2 DEF WrittenEvents, Elements
  <2>4. Waiting' = Waiting \cup {k}
    BY <2>1 DEF Waiting
  <2>5. ASSUME NEW n \in Reported  PROVE Paid(n)'
    <3>1. Copies(n)' \subseteq Copies(n)
      BY <2>1, <2>2, <2>4, CopyOf, CopyNext
    <3> QED  BY <1>f, <2>1, <3>1
  <2>6. Paid(k)'
    <3>1. Copies(k)' \subseteq {<<"waiting", 0>>}
      BY <2>1, <2>2, <2>3, CopyNext
    <3>2. PICK T : T = Copies(k)'
      OBVIOUS
    <3>3. PICK y : y = <<"waiting", 0>>
      OBVIOUS
    <3>4. IsFiniteSet({y}) /\ Cardinality({y}) = 1
      BY FS_Singleton
    <3>5. IsFiniteSet(T) /\ Cardinality(T) <= 1 /\ Cardinality(T) \in Nat
      BY <3>1, <3>2, <3>3, <3>4, FS_Subset, FS_CardinalityType
    <3>6. Cardinality(T) <= 1 + disconnects' + crashes'
      BY <1>t, <2>1, <3>5
    <3> QED  BY <3>2, <3>5, <3>6 DEF Paid
  <2> QED  BY <2>2, <2>5, <2>6 DEF RepeatInv
<1>2. ASSUME NEW r \in Replica, HandOut(r)
      PROVE  RepeatInv'
  <2>1. PICK k \in queue : queue' = queue \ {k} /\ got' = [got EXCEPT ![r] = Append(got[r], k)]
    BY <1>2, Zenon DEF HandOut
  <2>2. UNCHANGED <<emitted, stale, ev, written, disconnects, crashes>> /\ got[r] \in Seq(Reported) /\ k \in Reported
    BY <1>2, <1>t, <2>1 DEF HandOut, TypeOK
  <2>3. Elements(got'[r]) = Elements(got[r]) \cup {k} /\ \A o \in Replica \ {r} : got'[o] = got[o]
    BY <1>t, <2>1, <2>2, ElementsOf DEF TypeOK
  <2>4. k \in Waiting /\ k \notin Waiting' /\ Waiting' \subseteq Waiting
    BY <1>t, <2>1, <2>2 DEF Waiting, PlaceInv, WaitsOnce
  <2>5. ASSUME NEW n \in Reported, n # k  PROVE Paid(n)'
    <3>1. Copies(n)' \subseteq Copies(n)
      BY <2>2, <2>3, <2>4, <2>5, CopyOf, CopyNext
    <3> QED  BY <1>f, <2>2, <3>1
  <2>6. Paid(k)'
    <3>1. <<"waiting", 0>> \in Copies(k)
      BY <2>4, CopyOf
    <3>2. Copies(k)' \subseteq (Copies(k) \ {<<"waiting", 0>>}) \cup {<<"msgs", r>>}
      BY <2>2, <2>3, <2>4, CopyOf, CopyNext
    <3> QED  BY <1>m, <2>2, <3>1, <3>2
  <2> QED  BY <2>2, <2>5, <2>6 DEF RepeatInv, Reported
<1>3. ASSUME NEW r \in Replica, Receive(r)
      PROVE  RepeatInv'
  <2>1. /\ UNCHANGED <<emitted, queue, stale, written, disconnects, crashes>> /\ got[r] # <<>> /\ pc[r] = "loop"
        /\ ev' = [ev EXCEPT ![r] = Head(got[r])] /\ got' = [got EXCEPT ![r] = Tail(got[r])]
    BY <1>3 DEF Receive
  <2>2. PICK k : k = Head(got[r])
    OBVIOUS
  <2>3. k \in Reported /\ Elements(got[r]) = {k} \cup Elements(Tail(got[r]))
    BY <1>t, <2>1, <2>2, ElementsOf DEF TypeOK
  <2>4. k \notin Elements(Tail(got[r]))
    BY <1>t, <2>1, <2>2, OnceOf DEF TypeOK, PlaceInv, GotOnce
  <2>5. ev[r] = None
    BY <1>t, <2>1 DEF AtRest, Rests
  <2>6. /\ got'[r] = Tail(got[r]) /\ ev'[r] = k
        /\ \A o \in Replica \ {r} : got'[o] = got[o] /\ ev'[o] = ev[o]
    BY <1>t, <2>1, <2>2 DEF TypeOK
  <2>7. Waiting' = Waiting
    BY <2>1 DEF Waiting
  <2>8. ASSUME NEW n \in Reported, n # k  PROVE Paid(n)'
    <3>1. Copies(n)' \subseteq Copies(n)
      BY <2>1, <2>3, <2>6, <2>7, <2>8, CopyOf, CopyNext
    <3> QED  BY <1>f, <2>1, <3>1
  <2>9. Paid(k)'
    <3>1. <<"msgs", r>> \in Copies(k)
      BY <2>3, CopyOf
    <3>2. Copies(k)' \subseteq (Copies(k) \ {<<"msgs", r>>}) \cup {<<"hand", r>>}
      BY <2>1, <2>3, <2>4, <2>6, <2>7, CopyOf, CopyNext
    <3> QED  BY <1>m, <2>1, <2>3, <3>1, <3>2
  <2> QED  BY <2>1, <2>8, <2>9 DEF RepeatInv, Reported
<1>4. ASSUME NEW r \in Replica, Write(r)
      PROVE  RepeatInv'
  <2>1. /\ UNCHANGED <<emitted, queue, stale, got, disconnects, crashes>>
        /\ ev' = [ev EXCEPT ![r] = None] /\ written' = Append(written, ev[r])
    BY <1>4 DEF Write, Handled
  <2>2. PICK k : k = ev[r]
    OBVIOUS
  <2>3. k \in Reported /\ k # None /\ written \in Seq(Reported)
    BY <1>4, <1>t, <2>2, NewStatusType DEF Write, TypeOK, Reported, None
  <2>4. ev'[r] = None /\ \A o \in Replica \ {r} : ev'[o] = ev[o]
    BY <1>t, <2>1 DEF TypeOK
  <2>5. PICK l \in Nat : l = Len(written) /\ DOMAIN written = 1 .. l
    BY <2>3
  <2>6. DOMAIN written' = 1 .. l + 1 /\ written'[l + 1] = k /\ \A i \in 1 .. l : written'[i] = written[i]
    BY <2>1, <2>2, <2>3, <2>5
  <2>7. Waiting' = Waiting /\ \A n \in Reported : n # None
    BY <2>1 DEF Waiting, Reported, None
  <2>8. ASSUME NEW n \in Reported, n # k  PROVE Paid(n)'
    <3>1. \A i \in DOMAIN written' : written'[i] = n => i \in DOMAIN written /\ written[i] = n
      BY <2>5, <2>6, <2>8
    <3>2. Copies(n)' \subseteq Copies(n)
      BY <2>1, <2>4, <2>7, <2>8, <3>1, CopyOf, CopyNext
    <3> QED  BY <1>f, <2>1, <3>2
  <2>9. Paid(k)'
    <3>1. <<"hand", r>> \in Copies(k)
      BY <2>2, CopyOf
    <3>2. \A i \in DOMAIN written' : written'[i] = k => i = l + 1 \/ (i \in DOMAIN written /\ written[i] = k)
      BY <2>5, <2>6
    <3>3. Copies(k)' \subseteq (Copies(k) \ {<<"hand", r>>}) \cup {<<"written", l + 1>>}
      BY <2>1, <2>3, <2>4, <2>7, <3>2, CopyOf, CopyNext
    <3> QED  BY <1>m, <2>1, <2>3, <3>1, <3>3
  <2> QED  BY <2>1, <2>8, <2>9 DEF RepeatInv, Reported
<1>5. ASSUME NEW r \in Replica, Disconnect(r) \/ Crash(r)
      PROVE  RepeatInv'
  <2>1. /\ UNCHANGED <<emitted, written>>
        /\ \A o \in Replica : got'[o] \in {got[o], <<>>} /\ ev'[o] \in {ev[o], None}
        /\ \/ disconnects' = disconnects + 1 /\ crashes' = crashes
           \/ crashes' = crashes + 1 /\ disconnects' = disconnects
    BY <1>5, <1>t DEF Disconnect, Crash, TypeOK
  <2>2. Elements(<<>>) = {} /\ \A n \in Reported : n # None
    BY DEF Elements, Reported, None
  <2>3. ASSUME NEW n \in Reported  PROVE Paid(n)'
    <3>1. Copies(n)' \subseteq Copies(n) \cup {<<"waiting", 0>>}
      BY <2>1, <2>2, CopyOf, CopyNext
    <3> QED  BY <1>p, <2>1, <3>1
  <2> QED  BY <2>1, <2>3 DEF RepeatInv, Reported
\* No copy more of any event.
<1>6. ASSUME UNCHANGED <<emitted, written, disconnects, crashes>>, Waiting' = Waiting,
             \A o \in Replica : got'[o] \in {got[o], <<>>} /\ ev'[o] \in {ev[o], None}
      PROVE  RepeatInv'
  <2>1. Elements(<<>>) = {} /\ \A n \in Reported : n # None
    BY DEF Elements, Reported, None
  <2>2. ASSUME NEW n \in Reported  PROVE Paid(n)'
    <3>1. Copies(n)' \subseteq Copies(n)
      BY <1>6, <2>1, CopyOf, CopyNext
    <3> QED  BY <1>f, <1>6, <3>1
  <2> QED  BY <1>6, <2>2 DEF RepeatInv, Reported
<1>7. ASSUME NEW r \in Replica,
             \/ Start(r) \/ Dial(r) \/ AckArrives(r) \/ Notice(r)
             \/ Ack(r) \/ Read(r) \/ ReadFails(r) \/ WriteFails(r)
      PROVE  RepeatInv'
  <2>1. UNCHANGED <<emitted, queue, stale, written, disconnects, crashes>>
    BY <1>7 DEF Start, Dial, AckArrives, Notice, Ack, Read, ReadFails, WriteFails, Handled
  <2>2. \A o \in Replica : got'[o] \in {got[o], <<>>} /\ ev'[o] \in {ev[o], None}
    <3>1. CASE Notice(r)
      BY <1>t, <3>1 DEF Notice, TypeOK
    <3>2. CASE WriteFails(r)
      BY <1>t, <3>2 DEF WriteFails, Handled, TypeOK
    <3>3. CASE Start(r) \/ Dial(r) \/ AckArrives(r) \/ Ack(r) \/ Read(r) \/ ReadFails(r)
      <4>1. UNCHANGED <<got, ev>>
        BY <3>3 DEF Start, Dial, AckArrives, Ack, Read, ReadFails
      <4> QED  BY <4>1
    <3> QED  BY <1>7, <3>1, <3>2, <3>3
  <2> QED  BY <1>6, <2>1, <2>2 DEF Waiting
<1>8. CASE Requeue \/ UNCHANGED vars
  <2>1. UNCHANGED <<emitted, written, got, ev, disconnects, crashes>>
    BY <1>8 DEF Requeue, vars
  <2>2. Waiting' = Waiting
    BY <1>8, RequeueWaits DEF vars, Waiting
  <2> QED  BY <1>6, <2>1, <2>2
<1> QED
  BY <1>1, <1>2, <1>3, <1>4, <1>5, <1>7, <1>8 DEF Next, Watcher

\* For any replicas, events and faults: an event is handled once more for each
\* connection that dies, by itself or with its replica, and no more often, however
\* many acknowledgements the connection took with it (rabbit.go:131) and although
\* the watcher goes on with what it was given (rabbit.go:123).
THEOREM RepeatsArePaid == Spec => []RepeatedOnlyByFault
<1>1. Init => RepeatsInv
  <2> SUFFICES ASSUME Init  PROVE RepeatsInv
    OBVIOUS
  <2>1. TypeOK /\ AtRest
    BY TypeInit, LossInit DEF LossInv
  <2>2. PlaceInv
    BY DEF Init, PlaceInv, WaitsOnce, GivenOnce, GotOnce, Waiting, Once
  <2>3. RepeatInv
    BY DEF Init, RepeatInv, Reported
  <2> QED  BY <2>1, <2>2, <2>3 DEF RepeatsInv
<1>2. RepeatsInv /\ [Next]_vars => RepeatsInv'
  <2> SUFFICES ASSUME RepeatsInv, [Next]_vars  PROVE RepeatsInv'
    OBVIOUS
  <2>1. AtRest'
    BY AtRestStep DEF RepeatsInv
  <2> QED  BY <2>1, TypeStep, PlaceStep, RepeatStep DEF RepeatsInv
<1>3. RepeatsInv => RepeatedOnlyByFault
  <2> SUFFICES ASSUME RepeatsInv, NEW n \in Reported
               PROVE  Times(n) <= 1 + disconnects + crashes
    BY DEF RepeatedOnlyByFault
  <2> DEFINE I == {i \in DOMAIN written : written[i] = n}
             C == Copies(n)
             f == [i \in I |-> <<"written", i>>]
  <2>1. IsFiniteSet(C) /\ Cardinality(C) <= 1 + disconnects + crashes /\ {disconnects, crashes} \subseteq Nat
    BY DEF RepeatsInv, RepeatInv, Paid, TypeOK
  <2>2. f \in Injection(I, C)
    <3>1. \A i \in I : <<"written", i>> \in C
      BY CopyOf
    <3>2. \A i, j : <<"written", i>> = <<"written", j>> => i = j
      OBVIOUS
    <3> QED  BY <3>1, <3>2 DEF Injection, IsInjective
  <2> HIDE DEF C, f
  <2>3. Cardinality(I) <= Cardinality(C) /\ IsFiniteSet(I)
    BY <2>1, <2>2, FS_Injection
  <2>4. Cardinality(I) \in Nat /\ Cardinality(C) \in Nat /\ Times(n) = Cardinality(I)
    BY <2>1, <2>3, FS_CardinalityType DEF Times
  <2> HIDE DEF I
  <2> QED  BY <2>1, <2>3, <2>4
<1> QED  BY <1>1, <1>2, <1>3, PTL DEF Spec

------------------------------------------------------------------------------
(* A lone watcher handles every event in its order *)

Lone(r) == (\A o \in Replica \ {r} : svc[o] = "down") /\ crashes + disconnects + errors = 0

\* The events that r has received.
Begun(r) == Len(written) + (IF pc[r] = "loop" THEN 0 ELSE 1)

\* The events in their order: written, in hand, delivered, queued.
InTurn(r) ==
    /\ \A i \in 1 .. Len(written) : written[i] = i
    /\ pc[r] # "loop" => ev[r] = Len(written) + 1
    /\ \A i \in 1 .. Len(got[r]) : got[r][i] = Begun(r) + i
    /\ queue = Begun(r) + Len(got[r]) + 1 .. Len(emitted)
    /\ Begun(r) + Len(got[r]) <= Len(emitted)

\* The status of d where r writes it.
Shown(r, d) == IF mode[r] = "redis" THEN redis[d] ELSE cache[r][d]

\* What is shown, and what was read of it, is the status that they give; before
\* the first start nothing is.
Exact(r) ==
    /\ \A d \in Device : Shown(r, d) = StatusOf(d)
    /\ pc[r] = "write" =>
        other[r] = (IF InHand(r).connected THEN StatusOf(InHand(r).dev).last_disconnection
                                           ELSE StatusOf(InHand(r).dev).last_connection)
    /\ svc[r] = "down" => \A d \in Device : redis[d] = Unknown /\ cache[r][d] = Unknown

\* No connection is dead where none was lost.
Calm == crashes + disconnects = 0 => stale = {} /\ \A r \in Replica : svc[r] # "cut"

LoneInv == TypeOK /\ AtRest /\ Calm /\ \A r \in Replica : Lone(r) => InTurn(r) /\ Exact(r)

\* A step after which no connection was lost left none dead.
LEMMA CalmStep == TypeOK /\ TypeOK' /\ Calm /\ [Next]_vars => Calm'
<1> SUFFICES ASSUME TypeOK, TypeOK', Calm, [Next]_vars, crashes' + disconnects' = 0
             PROVE  stale' = {} /\ \A o \in Replica : svc'[o] # "cut"
  BY DEF Calm
<1> USE DEF brokerVars, watcherVars, statusVars
<1>n. {crashes, disconnects, crashes', disconnects'} \subseteq Nat /\ crashes' = 0 /\ disconnects' = 0
  <2>1. \A a, b \in Nat : a + b = 0 => a = 0 /\ b = 0
    OBVIOUS
  <2>2. {crashes, disconnects, crashes', disconnects'} \subseteq Nat
    BY DEF TypeOK
  <2> QED  BY <2>1, <2>2
<1>m. \A n \in Nat : n + 1 # 0
  OBVIOUS
<1>1. ASSUME UNCHANGED <<crashes, disconnects>>
      PROVE  stale = {} /\ \A o \in Replica : svc[o] # "cut"
  BY <1>n, <1>1 DEF Calm
<1>2. ASSUME NEW r \in Replica, Disconnect(r) \/ Crash(r)
      PROVE  FALSE
  BY <1>n, <1>m, <1>2 DEF Disconnect, Crash
<1>3. ASSUME NEW r \in Replica, Start(r) \/ Dial(r) \/ HandOut(r) \/ AckArrives(r) \/ Notice(r)
      PROVE  stale' = {} /\ \A o \in Replica : svc'[o] # "cut"
  <2>1. UNCHANGED <<crashes, disconnects, stale>> /\ \A o \in Replica : svc'[o] \in {svc[o], "dialing", "consuming"}
    BY <1>3 DEF Start, Dial, HandOut, AckArrives, Notice, TypeOK
  <2> QED  BY <1>1, <2>1
<1>4. ASSUME NEW r \in Replica, Watcher(r)
      PROVE  stale' = {} /\ \A o \in Replica : svc'[o] # "cut"
  <2>1. UNCHANGED <<crashes, disconnects, stale, svc>>
    BY <1>4 DEF Watcher, Receive, Ack, Read, ReadFails, Write, WriteFails, Handled
  <2> QED  BY <1>1, <2>1
<1>5. CASE Requeue
  <2>1. UNCHANGED <<crashes, disconnects>> /\ stale # {}
    BY <1>5 DEF Requeue
  <2> QED  BY <1>1, <2>1
<1>6. CASE (\E d \in Device, connected \in BOOLEAN : Report(d, connected)) \/ UNCHANGED vars
  <2>1. UNCHANGED <<crashes, disconnects, stale, svc>>
    BY <1>6 DEF Report, vars
  <2> QED  BY <1>1, <2>1
<1> QED  BY <1>2, <1>3, <1>4, <1>5, <1>6 DEF Next

\* The events written, when they were written in order.
LEMMA WrittenInOrder ==
    ASSUME TypeOK, \A i \in 1 .. Len(written) : written[i] = i
    PROVE  WrittenEvents = 1 .. Len(written) /\ Len(written) <= Len(emitted)
<1>1. PICK k \in Nat : k = Len(written) /\ DOMAIN written = 1 .. k
  BY DEF TypeOK
<1>2. WrittenEvents = 1 .. k
  BY <1>1 DEF WrittenEvents, Elements
<1>3. WrittenEvents \subseteq Reported /\ Len(emitted) \in Nat
  BY WrittenAreReported DEF TypeOK
<1>4. k <= Len(emitted)
  <2>1. CASE k = 0
    BY <1>3, <2>1
  <2>2. CASE k # 0
    <3>1. k \in Reported
      BY <1>1, <1>2, <1>3, <2>2
    <3> QED  BY <1>3, <3>1 DEF Reported
  <2> QED  BY <2>1, <2>2
<1> QED  BY <1>1, <1>2, <1>4

\* The latest of no events, and of some and a later one.
LEMMA LatestOf ==
    /\ Latest({}) = None
    /\ \A k \in Nat : \A S \in SUBSET (1 .. k) : Latest(S \cup {k + 1}) = k + 1
<1>1. ASSUME NEW k \in Nat, NEW S, S \subseteq 1 .. k
      PROVE  Latest(S \cup {k + 1}) = k + 1
  <2> DEFINE T == S \cup {k + 1}
  <2>1. k + 1 \in T /\ (\A m \in T : m <= k + 1) /\ T # {}
    BY <1>1
  <2>2. ASSUME NEW n \in T, \A m \in T : m <= n
        PROVE  n = k + 1
    <3>1. n \in Nat /\ n <= k + 1 /\ k + 1 <= n
      BY <1>1, <2>1, <2>2
    <3> QED  BY <3>1
  <2> HIDE DEF T
  <2>3. (CHOOSE n \in T : \A m \in T : m <= n) = k + 1
    BY <2>1, <2>2
  <2> QED  BY <2>1, <2>3 DEF Latest, T
<1> QED  BY <1>1 DEF Latest

\* A step that reports or writes nothing changes no status that the events give.
LEMMA StatusStays ==
    ASSUME TypeOK, UNCHANGED written, \A n \in Reported : emitted'[n] = emitted[n]
    PROVE  \A d : StatusOf(d)' = StatusOf(d)
<1>1. WrittenEvents' = WrittenEvents /\ WrittenEvents \subseteq Reported
  BY WrittenAreReported DEF WrittenEvents
<1> SUFFICES ASSUME NEW d  PROVE StatusOf(d)' = StatusOf(d)
  OBVIOUS
<1> DEFINE E == {n \in WrittenEvents : emitted[n].dev = d}
           O == {n \in E : emitted[n].connected}
           F == {n \in WrittenEvents' : emitted'[n].dev = d}
           P == {n \in F : emitted'[n].connected}
<1>2. F = E /\ P = O
  BY <1>1
<1> HIDE DEF E, O, F, P
<1>3. /\ StatusOf(d) = [connected |-> Latest(E) \in O,
                        last_connection |-> Latest(O), last_disconnection |-> Latest(E \ O)]
      /\ StatusOf(d)' = [connected |-> Latest(F) \in P,
                         last_connection |-> Latest(P), last_disconnection |-> Latest(F \ P)]
  BY DEF StatusOf, E, O, F, P
<1> QED  BY <1>2, <1>3

\* The next event in turn gives its device its kind and its time, and leaves the
\* other time and the other devices alone.
LEMMA StatusMoves ==
    ASSUME TypeOK, UNCHANGED emitted, NEW k \in Nat, k + 1 \in Reported,
           WrittenEvents = 1 .. k, WrittenEvents' = 1 .. k + 1, NEW d \in Device
    PROVE  /\ emitted[k + 1].dev # d => StatusOf(d)' = StatusOf(d)
           /\ emitted[k + 1].dev = d =>
                StatusOf(d)' = IF emitted[k + 1].connected
                    THEN [connected |-> TRUE, last_connection |-> k + 1,
                          last_disconnection |-> StatusOf(d).last_disconnection]
                    ELSE [connected |-> FALSE, last_connection |-> StatusOf(d).last_connection,
                          last_disconnection |-> k + 1]
<1> DEFINE e == emitted[k + 1]
           E == {n \in WrittenEvents : emitted[n].dev = d}
           O == {n \in E : emitted[n].connected}
           F == {n \in WrittenEvents' : emitted'[n].dev = d}
           P == {n \in F : emitted'[n].connected}
<1>1. /\ StatusOf(d) = [connected |-> Latest(E) \in O,
                        last_connection |-> Latest(O), last_disconnection |-> Latest(E \ O)]
      /\ StatusOf(d)' = [connected |-> Latest(F) \in P,
                         last_connection |-> Latest(P), last_disconnection |-> Latest(F \ P)]
  BY DEF StatusOf
<1>2. WrittenEvents' = WrittenEvents \cup {k + 1} /\ k + 1 \notin WrittenEvents
  <2>1. 1 .. k + 1 = 1 .. k \cup {k + 1} /\ k + 1 \notin 1 .. k
    OBVIOUS
  <2> QED  BY <2>1
<1>3. E \subseteq 1 .. k /\ O \subseteq 1 .. k /\ E \ O \subseteq 1 .. k
  OBVIOUS
<1>4. CASE e.dev # d
  <2>1. F = E /\ P = O
    BY <1>2, <1>4
  <2> HIDE DEF E, O, F, P
  <2> QED  BY <1>1, <1>4, <2>1
<1>5. CASE e.dev = d /\ e.connected
  <2>1. F = E \cup {k + 1} /\ P = O \cup {k + 1} /\ F \ P = E \ O
    BY <1>2, <1>5
  <2> HIDE DEF E, O, F, P
  <2>2. Latest(F) = k + 1 /\ Latest(P) = k + 1 /\ k + 1 \in P
    BY <1>3, <2>1, LatestOf
  <2>3. (Latest(F) \in P) = TRUE /\ StatusOf(d).last_disconnection = Latest(E \ O)
    BY <1>1, <2>2
  <2> QED  BY <1>1, <1>5, <2>1, <2>2, <2>3
<1>6. CASE e.dev = d /\ ~e.connected
  <2>1. F = E \cup {k + 1} /\ P = O /\ F \ P = (E \ O) \cup {k + 1}
    BY <1>2, <1>6
  <2>2. k + 1 \notin O
    BY <1>2
  <2> HIDE DEF E, O, F, P
  <2>3. Latest(F) = k + 1 /\ Latest(F \ P) = k + 1 /\ k + 1 \notin P
    BY <1>3, <2>1, <2>2, LatestOf
  <2>4. (Latest(F) \in P) = FALSE /\ StatusOf(d).last_connection = Latest(O)
    BY <1>1, <2>3
  <2> QED  BY <1>1, <1>6, <2>1, <2>3, <2>4
<1> QED  BY <1>4, <1>5, <1>6

\* A watcher that is alone after a step was alone before it, and the step was
\* its own or the broker's.
LEMMA LoneActs ==
    ASSUME TypeOK, TypeOK', AtRest, Calm, NEW r \in Replica, Lone(r)', [Next]_vars
    PROVE  /\ Lone(r)
           /\ \/ \E d \in Device, connected \in BOOLEAN : Report(d, connected)
              \/ Start(r) \/ Dial(r) \/ HandOut(r) \/ AckArrives(r)
              \/ Receive(r) \/ Ack(r) \/ Read(r) \/ Write(r)
              \/ UNCHANGED vars
<1> USE DEF brokerVars, watcherVars, statusVars
<1>n. /\ {crashes, disconnects, errors} \subseteq Nat
      /\ crashes' = 0 /\ disconnects' = 0 /\ errors' = 0
  <2>1. \A a, b, c \in Nat : a + b + c = 0 => a = 0 /\ b = 0 /\ c = 0
    OBVIOUS
  <2>2. {crashes, disconnects, errors} \subseteq Nat /\ {crashes', disconnects', errors'} \subseteq Nat
    BY DEF TypeOK
  <2> QED  BY <2>1, <2>2 DEF Lone
<1>d. \A o \in Replica \ {r} : svc'[o] = "down"
  BY DEF Lone
<1>m. \A n \in Nat : n + 1 # 0
  OBVIOUS
<1>1. CASE (\E d \in Device, connected \in BOOLEAN : Report(d, connected)) \/ UNCHANGED vars
  BY <1>1, <1>n, <1>d DEF Report, vars, Lone
<1>2. ASSUME NEW o \in Replica, Start(o) \/ Dial(o)
      PROVE  o = r /\ Lone(r)
  BY <1>2, <1>n, <1>d DEF Start, Dial, Lone, TypeOK
<1>3. ASSUME NEW o \in Replica, HandOut(o) \/ AckArrives(o) \/ Receive(o) \/ Ack(o) \/ Read(o) \/ Write(o)
      PROVE  o = r /\ Lone(r)
  <2>1. svc[o] # "down" /\ UNCHANGED <<svc, crashes, disconnects, errors>>
    <3>1. CASE HandOut(o) \/ AckArrives(o) \/ Receive(o)
      BY <3>1 DEF HandOut, AckArrives, Receive, AtRest, Rests
    <3>2. CASE Ack(o) \/ Read(o) \/ Write(o)
      BY <3>2 DEF Ack, Read, Write, Handled, AtRest, Rests
    <3> QED  BY <1>3, <3>1, <3>2
  <2> QED  BY <2>1, <1>n, <1>d DEF Lone
<1>4. ASSUME NEW o \in Replica
      PROVE  ~ReadFails(o) /\ ~WriteFails(o) /\ ~Disconnect(o) /\ ~Crash(o)
  BY <1>n, <1>m DEF ReadFails, WriteFails, Disconnect, Crash
<1>5. ASSUME Requeue \/ \E o \in Replica : Notice(o)
      PROVE  FALSE
  <2>1. crashes + disconnects = 0
    <3>1. UNCHANGED <<crashes, disconnects>>
      BY <1>5 DEF Requeue, Notice
    <3> QED  BY <1>n, <3>1
  <2> QED  BY <1>5, <2>1 DEF Calm, Requeue, Notice
<1> QED  BY <1>1, <1>2, <1>3, <1>4, <1>5 DEF Next, Watcher

\* The first of a queue that has no gaps.
LEMMA FirstOf ==
    \A a, n \in Nat, k \in Int :
        k \in a + 1 .. n /\ (\A m \in a + 1 .. n : k <= m) =>
            k = a + 1 /\ k <= n /\ (a + 1 .. n) \ {k} = a + 2 .. n
<1> SUFFICES ASSUME NEW a \in Nat, NEW n \in Nat, NEW k \in a + 1 .. n, \A m \in a + 1 .. n : k <= m
             PROVE  k = a + 1 /\ k <= n /\ (a + 1 .. n) \ {k} = a + 2 .. n
  OBVIOUS
<1>1. a + 1 \in a + 1 .. n
  OBVIOUS
<1>2. k = a + 1
  BY <1>1
<1> QED  BY <1>2

\* Alone, events stay in their turn.
LEMMA InTurnStep ==
    ASSUME LoneInv, [Next]_vars, NEW r \in Replica, Lone(r)'
    PROVE  InTurn(r)'
<1>t. TypeOK /\ TypeOK' /\ AtRest /\ Calm
  BY TypeStep DEF LoneInv
<1>o. /\ Lone(r)
      /\ \/ \E d \in Device, connected \in BOOLEAN : Report(d, connected)
         \/ Start(r) \/ Dial(r) \/ HandOut(r) \/ AckArrives(r)
         \/ Receive(r) \/ Ack(r) \/ Read(r) \/ Write(r)
         \/ UNCHANGED vars
  BY <1>t, LoneActs
<1>i. InTurn(r)
  BY <1>o DEF LoneInv
<1> USE DEF brokerVars, watcherVars, statusVars
<1>s. /\ got[r] \in Seq(Reported) /\ written \in Seq(Reported)
      /\ Len(got[r]) \in Nat /\ Len(written) \in Nat /\ Len(emitted) \in Nat /\ Begun(r) \in Nat
  BY <1>t DEF TypeOK, Begun
<1>1. CASE \E d \in Device, connected \in BOOLEAN : Report(d, connected)
  <2>1. queue' = queue \cup {Len(emitted) + 1} /\ UNCHANGED <<got, written, pc, ev>>
    BY <1>1 DEF Report
  <2>2. Len(emitted') = Len(emitted) + 1
    BY <1>1, <1>t, ReportedGrows DEF Report, Event
  <2>3. \A a, n \in Nat : a <= n => (a + 1 .. n) \cup {n + 1} = a + 1 .. n + 1 /\ a <= n + 1
    OBVIOUS
  <2>4. Begun(r)' = Begun(r) /\ Begun(r) + Len(got[r]) \in Nat
    <3>1. Begun(r)' = Begun(r)
      BY <2>1 DEF Begun
    <3> QED  BY <1>s, <3>1
  <2>5. queue' = Begun(r) + Len(got[r]) + 1 .. Len(emitted) + 1 /\ Begun(r) + Len(got[r]) <= Len(emitted) + 1
    BY <1>i, <1>s, <2>1, <2>3, <2>4 DEF InTurn
  <2> QED  BY <1>i, <2>1, <2>2, <2>4, <2>5 DEF InTurn
<1>2. CASE Start(r) \/ Dial(r) \/ AckArrives(r) \/ UNCHANGED vars
  <2>1. UNCHANGED <<emitted, queue, got, written, pc, ev>>
    BY <1>2 DEF Start, Dial, AckArrives, vars
  <2> QED  BY <1>i, <2>1 DEF InTurn, Begun
<1>3. CASE HandOut(r)
  <2>1. PICK k \in queue : /\ \A m \in queue : k <= m
                           /\ queue' = queue \ {k} /\ got' = [got EXCEPT ![r] = Append(got[r], k)]
    BY <1>3, Zenon DEF HandOut
  <2>2. UNCHANGED <<emitted, written, pc, ev>>
    BY <1>3 DEF HandOut
  <2>3. PICK a \in Nat : a = Begun(r) + Len(got[r]) /\ queue = a + 1 .. Len(emitted)
    BY <1>i, <1>s DEF InTurn
  <2>4. k = a + 1 /\ k <= Len(emitted) /\ queue' = a + 2 .. Len(emitted)
    <3>1. k \in a + 1 .. Len(emitted) /\ \A m \in a + 1 .. Len(emitted) : k <= m
      BY <2>1, <2>3
    <3>2. k \in Int
      BY <3>1
    <3>3. k = a + 1 /\ k <= Len(emitted) /\ (a + 1 .. Len(emitted)) \ {k} = a + 2 .. Len(emitted)
      BY <1>s, <3>1, <3>2, FirstOf
    <3> QED  BY <2>1, <2>3, <3>3
  <2>5. got'[r] = Append(got[r], a + 1) /\ a + 1 \in Reported
    BY <1>t, <2>1, <2>4 DEF TypeOK
  <2>6. /\ Len(got'[r]) = Len(got[r]) + 1
        /\ \A i \in 1 .. Len(got'[r]) : got'[r][i] = IF i = Len(got[r]) + 1 THEN a + 1 ELSE got[r][i]
    BY <1>s, <2>5
  <2>7. Begun(r)' = Begun(r)
    BY <2>2 DEF Begun
  <2>8. ASSUME NEW i \in 1 .. Len(got'[r])  PROVE got'[r][i] = Begun(r) + i
    <3>1. CASE i = Len(got[r]) + 1
      <4>1. \A b, n \in Nat : (b + n) + 1 = b + (n + 1)
        OBVIOUS
      <4> QED  BY <1>s, <2>3, <2>6, <3>1, <4>1
    <3>2. CASE i # Len(got[r]) + 1
      <4>1. i \in 1 .. Len(got[r])
        BY <1>s, <2>6, <3>2
      <4> QED  BY <1>i, <2>6, <3>2, <4>1 DEF InTurn
    <3> QED  BY <3>1, <3>2
  <2>9. Begun(r) + Len(got'[r]) + 1 = a + 2 /\ Begun(r) + Len(got'[r]) <= Len(emitted)
    <3>1. \A b, n, m \in Nat : (b + n) + 1 <= m => b + (n + 1) + 1 = (b + n) + 2 /\ b + (n + 1) <= m
      OBVIOUS
    <3>2. (Begun(r) + Len(got[r])) + 1 <= Len(emitted) /\ Len(got'[r]) = Len(got[r]) + 1
      BY <2>3, <2>4, <2>6
    <3>3. /\ Begun(r) + (Len(got[r]) + 1) + 1 = (Begun(r) + Len(got[r])) + 2
          /\ Begun(r) + (Len(got[r]) + 1) <= Len(emitted)
      BY <1>s, <3>1, <3>2
    <3> QED  BY <2>3, <3>2, <3>3
  <2> QED  BY <1>i, <2>2, <2>4, <2>7, <2>8, <2>9 DEF InTurn
<1>4. CASE Receive(r)
  <2>1. /\ pc[r] = "loop" /\ pc'[r] = "ack" /\ got[r] # <<>> /\ ev'[r] = Head(got[r]) /\ got'[r] = Tail(got[r])
        /\ UNCHANGED <<emitted, queue, written>>
    BY <1>4, <1>t DEF Receive, TypeOK
  <2>2. /\ Len(got[r]) > 0 /\ Head(got[r]) = got[r][1] /\ Len(got'[r]) = Len(got[r]) - 1
        /\ \A i \in 1 .. Len(got'[r]) : got'[r][i] = got[r][i + 1]
    BY <1>s, <2>1
  <2>3. Begun(r) = Len(written) /\ Begun(r)' = Begun(r) + 1
    BY <1>s, <2>1 DEF Begun
  <2>4. ev'[r] = Len(written) + 1
    <3>1. 1 \in 1 .. Len(got[r])
      BY <1>s, <2>2
    <3> QED  BY <1>i, <2>1, <2>2, <2>3, <3>1 DEF InTurn
  <2>5. ASSUME NEW i \in 1 .. Len(got'[r])  PROVE got'[r][i] = (Begun(r) + 1) + i
    <3>1. i + 1 \in 1 .. Len(got[r]) /\ i \in Nat
      BY <1>s, <2>2
    <3>2. got[r][i + 1] = Begun(r) + (i + 1)
      BY <1>i, <3>1 DEF InTurn
    <3> QED  BY <1>s, <2>2, <3>1, <3>2
  <2>6. (Begun(r) + 1) + Len(got'[r]) = Begun(r) + Len(got[r])
    BY <1>s, <2>2
  <2> QED  BY <1>i, <2>1, <2>3, <2>4, <2>5, <2>6 DEF InTurn
<1>5. CASE Ack(r) \/ Read(r)
  <2>1. UNCHANGED <<emitted, queue, got, written, ev>> /\ pc[r] # "loop" /\ pc'[r] # "loop"
    BY <1>5, <1>t DEF Ack, Read, TypeOK
  <2> QED  BY <1>i, <2>1 DEF InTurn, Begun
<1>6. CASE Write(r)
  <2>1. /\ pc[r] = "write" /\ pc'[r] = "loop" /\ written' = Append(written, ev[r])
        /\ UNCHANGED <<emitted, queue, got>>
    BY <1>6, <1>t DEF Write, Handled, TypeOK
  <2>2. ev[r] = Len(written) + 1 /\ ev[r] \in Reported
    BY <1>i, <1>t, <2>1, NewStatusType DEF InTurn
  <2>3. /\ Len(written') = Len(written) + 1
        /\ \A i \in 1 .. Len(written') : written'[i] = IF i = Len(written) + 1 THEN ev[r] ELSE written[i]
    BY <1>s, <2>1, <2>2
  <2>4. \A i \in 1 .. Len(written') : i # Len(written) + 1 => i \in 1 .. Len(written)
    BY <1>s, <2>3
  <2>5. Begun(r)' = Begun(r)
    BY <1>s, <2>1, <2>3 DEF Begun
  <2>6. \A i \in 1 .. Len(written') : written'[i] = i
    BY <1>i, <2>2, <2>3, <2>4 DEF InTurn
  <2> QED  BY <1>i, <2>1, <2>5, <2>6 DEF InTurn
<1> QED  BY <1>o, <1>1, <1>2, <1>3, <1>4, <1>5, <1>6

\* Alone, what is shown stays what the events written give.
LEMMA ExactStep ==
    ASSUME LoneInv, [Next]_vars, NEW r \in Replica, Lone(r)'
    PROVE  Exact(r)'
<1>t. TypeOK /\ TypeOK' /\ AtRest /\ Calm
  BY TypeStep DEF LoneInv
<1>o. /\ Lone(r)
      /\ \/ \E d \in Device, connected \in BOOLEAN : Report(d, connected)
         \/ Start(r) \/ Dial(r) \/ HandOut(r) \/ AckArrives(r)
         \/ Receive(r) \/ Ack(r) \/ Read(r) \/ Write(r)
         \/ UNCHANGED vars
  BY <1>t, LoneActs
<1>i. InTurn(r) /\ Exact(r)
  BY <1>o DEF LoneInv
<1>e. /\ pc[r] # "loop" => ev[r] \in Reported /\ InHand(r) \in Event
      /\ svc[r] = "down" => pc[r] = "loop" /\ got[r] = <<>>
  <2>1. pc[r] # "loop" => ev[r] \in Reported
    BY <1>t DEF TypeOK
  <2>2. pc[r] # "loop" => InHand(r) \in Event
    <3>1. emitted \in Seq(Event)
      BY <1>t DEF TypeOK
    <3> QED  BY <2>1, <3>1 DEF InHand, Reported
  <2> QED  BY <1>t, <2>1, <2>2 DEF AtRest, Rests
<1> USE DEF brokerVars, watcherVars, statusVars
\* A step that changes neither the statuses nor what was read.
<1>k. ASSUME UNCHANGED <<redis, cache, mode, written>>, \A n \in Reported : emitted'[n] = emitted[n],
             pc'[r] = "write" => pc[r] = "write" /\ ev'[r] = ev[r] /\ other'[r] = other[r],
             svc'[r] = "down" => svc[r] = "down"
      PROVE  Exact(r)'
  <2>1. \A d : StatusOf(d)' = StatusOf(d)
    BY <1>t, <1>k, StatusStays
  <2>2. \A d \in Device : Shown(r, d)' = StatusOf(d)'
    BY <1>i, <1>k, <2>1 DEF Exact, Shown
  <2>3. pc'[r] = "write" => InHand(r)' = InHand(r)
    BY <1>e, <1>k DEF InHand
  <2> DEFINE Rest == IF InHand(r).connected THEN StatusOf(InHand(r).dev).last_disconnection
                                            ELSE StatusOf(InHand(r).dev).last_connection
  <2>4. pc'[r] = "write" => Rest' = Rest
    <3> SUFFICES ASSUME pc'[r] = "write"  PROVE Rest' = Rest
      OBVIOUS
    <3>1. PICK e : e = InHand(r) /\ e = InHand(r)'
      BY <2>3
    <3>2. StatusOf(e.dev)' = StatusOf(e.dev)
      BY <2>1
    <3> QED  BY <3>1, <3>2
  <2>5. pc'[r] = "write" => other'[r] = Rest'
    BY <1>i, <1>k, <2>4 DEF Exact
  <2> QED  BY <1>i, <1>k, <2>2, <2>5 DEF Exact
<1>1. CASE \E d \in Device, connected \in BOOLEAN : Report(d, connected)
  <2>1. \A n \in Reported : emitted'[n] = emitted[n]
    BY <1>1, <1>t, ReportedGrows DEF Report, Event
  <2> QED  BY <1>1, <1>k, <2>1 DEF Report
<1>2. CASE Dial(r) \/ HandOut(r) \/ AckArrives(r) \/ Receive(r) \/ Ack(r) \/ UNCHANGED vars
  <2>1. UNCHANGED <<redis, cache, mode, written, emitted, other>>
    BY <1>2 DEF Dial, HandOut, AckArrives, Receive, Ack, vars
  <2>2. pc'[r] = "write" => pc[r] = "write" /\ ev'[r] = ev[r]
    BY <1>2, <1>t DEF Dial, HandOut, AckArrives, Receive, Ack, vars, TypeOK
  <2>3. svc'[r] = "down" => svc[r] = "down"
    BY <1>2, <1>t DEF Dial, HandOut, AckArrives, Receive, Ack, vars, TypeOK
  <2> QED  BY <1>k, <2>1, <2>2, <2>3
<1>3. CASE Start(r)
  <2>1. /\ svc[r] = "down" /\ svc'[r] = "dialing" /\ pc'[r] = "loop"
        /\ UNCHANGED <<redis, cache, written, emitted>>
    BY <1>3, <1>t, <1>e DEF Start, TypeOK
  <2>2. \A d : StatusOf(d)' = StatusOf(d)
    BY <1>t, <2>1, StatusStays
  <2>3. \A d \in Device : Shown(r, d) = Unknown /\ Shown(r, d)' = Unknown
    BY <1>i, <2>1 DEF Exact, Shown
  <2>4. \A d \in Device : StatusOf(d) = Unknown
    BY <1>i, <2>3 DEF Exact
  <2> QED  BY <2>1, <2>2, <2>3, <2>4 DEF Exact
<1>4. CASE Read(r)
  <2>1. /\ pc[r] = "read" /\ UNCHANGED <<redis, cache, mode, written, emitted, svc, ev>>
        /\ other'[r] = IF InHand(r).connected THEN Stored(r).last_disconnection
                                              ELSE Stored(r).last_connection
    BY <1>4, <1>t DEF Read, TypeOK
  <2>2. \A d : StatusOf(d)' = StatusOf(d)
    BY <1>t, <2>1, StatusStays
  <2>3. InHand(r)' = InHand(r) /\ InHand(r).dev \in Device
    BY <1>e, <2>1 DEF InHand, Event
  <2>4. Stored(r) = StatusOf(InHand(r).dev)
    BY <1>i, <2>3 DEF Exact, Stored, Shown
  <2>5. \A d \in Device : Shown(r, d)' = StatusOf(d)'
    BY <1>i, <2>1, <2>2 DEF Exact, Shown
  <2> DEFINE Rest == IF InHand(r).connected THEN StatusOf(InHand(r).dev).last_disconnection
                                            ELSE StatusOf(InHand(r).dev).last_connection
  <2>6. Rest' = Rest
    <3>1. PICK e : e = InHand(r) /\ e = InHand(r)'
      BY <2>3
    <3>2. StatusOf(e.dev)' = StatusOf(e.dev)
      BY <2>2
    <3> QED  BY <3>1, <3>2
  <2>7. other'[r] = Rest'
    BY <2>1, <2>4, <2>6
  <2>8. svc'[r] # "down"
    BY <1>e, <2>1
  <2> QED  BY <2>5, <2>7, <2>8 DEF Exact
<1>5. CASE Write(r)
  <2>1. /\ pc[r] = "write" /\ pc'[r] = "loop" /\ written' = Append(written, ev[r])
        /\ UNCHANGED <<emitted, mode, svc>> /\ svc[r] # "down"
    BY <1>5, <1>t, <1>e DEF Write, Handled, TypeOK
  <2>2. PICK k \in Nat : k = Len(written)
    BY <1>t DEF TypeOK
  <2>3. ev[r] = k + 1 /\ k + 1 \in Reported /\ InHand(r) = emitted[k + 1] /\ InHand(r) \in Event
    BY <1>e, <1>i, <2>1, <2>2 DEF InTurn, InHand
  <2>4. WrittenEvents = 1 .. k /\ WrittenEvents' = 1 .. k + 1
    <3>1. WrittenEvents = 1 .. k
      BY <1>i, <1>t, <2>2, WrittenInOrder DEF InTurn
    <3>2. WrittenEvents' = WrittenEvents \cup {k + 1}
      BY <1>t, <2>1, <2>3, ElementsOf DEF WrittenEvents, TypeOK
    <3>3. 1 .. k + 1 = 1 .. k \cup {k + 1}
      OBVIOUS
    <3> QED  BY <3>1, <3>2, <3>3
  <2>5. InHand(r).dev \in Device /\ InHand(r).connected \in BOOLEAN
    BY <2>3 DEF Event
  <2>6. \A d \in Device : Shown(r, d)' = IF d = InHand(r).dev THEN NewStatus(r) ELSE Shown(r, d)
    <3>1. CASE mode[r] = "redis"
      BY <1>5, <1>t, <2>1, <3>1 DEF Write, Shown, TypeOK
    <3>2. CASE mode[r] # "redis"
      <4> DEFINE c == [cache[r] EXCEPT ![InHand(r).dev] = NewStatus(r)]
      <4>1. cache' = [cache EXCEPT ![r] = c]
        BY <1>5, <3>2 DEF Write
      <4>2. \A d \in Device : c[d] = IF d = InHand(r).dev THEN NewStatus(r) ELSE cache[r][d]
        BY <1>t DEF TypeOK
      <4> HIDE DEF c
      <4>3. cache'[r] = c
        BY <1>t, <4>1 DEF TypeOK
      <4> QED  BY <2>1, <3>2, <4>2, <4>3 DEF Shown
    <3> QED  BY <3>1, <3>2
  <2>7. ASSUME NEW d \in Device  PROVE Shown(r, d)' = StatusOf(d)'
    <3>1. /\ InHand(r).dev # d => StatusOf(d)' = StatusOf(d)
          /\ InHand(r).dev = d =>
                StatusOf(d)' = IF InHand(r).connected
                    THEN [connected |-> TRUE, last_connection |-> k + 1,
                          last_disconnection |-> StatusOf(d).last_disconnection]
                    ELSE [connected |-> FALSE, last_connection |-> StatusOf(d).last_connection,
                          last_disconnection |-> k + 1]
      BY <1>t, <2>1, <2>3, <2>4, StatusMoves
    <3>2. InHand(r).dev = d =>
            other[r] = IF InHand(r).connected THEN StatusOf(d).last_disconnection
                                              ELSE StatusOf(d).last_connection
      BY <1>i, <2>1 DEF Exact
    <3>3. InHand(r).dev = d => NewStatus(r) = StatusOf(d)'
      BY <2>3, <3>1, <3>2 DEF NewStatus
    <3>4. Shown(r, d) = StatusOf(d)
      BY <1>i DEF Exact
    <3> QED  BY <2>6, <3>1, <3>3, <3>4
  <2> QED  BY <2>1, <2>7 DEF Exact
<1> QED  BY <1>o, <1>1, <1>2, <1>3, <1>4, <1>5

\* For any devices and events: while one watcher runs and nothing fails, what
\* it shows is what the events written give, and they are written in the order
\* in which they were reported (rabbit.go:107-149, connectivity.go:103).
THEOREM AloneIsExact == Spec => []LoneWatcherIsExact
<1>1. Init => LoneInv
  <2> SUFFICES ASSUME Init  PROVE LoneInv
    OBVIOUS
  <2>1. TypeOK /\ AtRest
    BY TypeInit, LossInit DEF LossInv
  <2>c. Calm
    BY DEF Init, Calm
  <2>2. /\ written = <<>> /\ queue = {} /\ emitted = <<>> /\ WrittenEvents = {}
        /\ redis = [d \in Device |-> Unknown]
        /\ cache = [r \in Replica |-> [d \in Device |-> Unknown]]
    BY DEF Init, WrittenEvents, Elements
  <2>3. \A d \in Device : StatusOf(d) = Unknown
    <3> SUFFICES ASSUME NEW d \in Device  PROVE StatusOf(d) = Unknown
      OBVIOUS
    <3> DEFINE E == {n \in WrittenEvents : emitted[n].dev = d}
               O == {n \in E : emitted[n].connected}
    <3>1. E = {} /\ O = {} /\ E \ O = {}
      BY <2>2
    <3>2. StatusOf(d) = [connected |-> Latest(E) \in O,
                         last_connection |-> Latest(O), last_disconnection |-> Latest(E \ O)]
      BY DEF StatusOf
    <3> HIDE DEF E, O
    <3>3. (Latest(E) \in O) = FALSE
      BY <3>1
    <3> QED  BY <3>1, <3>2, <3>3, LatestOf DEF Unknown, None
  <2>4. ASSUME NEW r \in Replica  PROVE InTurn(r) /\ Exact(r)
    <3>1. pc[r] = "loop" /\ got[r] = <<>> /\ Len(got[r]) = 0 /\ Len(written) = 0 /\ Len(emitted) = 0
      BY DEF Init
    <3>2. Begun(r) = 0
      BY <3>1 DEF Begun
    <3>3. 0 + 0 + 1 .. 0 = {}
      OBVIOUS
    <3>4. InTurn(r)
      BY <2>2, <3>1, <3>2, <3>3 DEF InTurn
    <3>5. Exact(r)
      BY <2>2, <2>3, <3>1 DEF Exact, Shown
    <3> QED  BY <3>4, <3>5
  <2> QED  BY <2>1, <2>c, <2>4 DEF LoneInv
<1>2. LoneInv /\ [Next]_vars => LoneInv'
  <2> SUFFICES ASSUME LoneInv, [Next]_vars  PROVE LoneInv'
    OBVIOUS
  <2>1. TypeOK' /\ AtRest' /\ Calm'
    BY TypeStep, AtRestStep, CalmStep DEF LoneInv
  <2>2. \A r \in Replica : Lone(r)' => InTurn(r)' /\ Exact(r)'
    BY InTurnStep, ExactStep
  <2> QED  BY <2>1, <2>2 DEF LoneInv
<1>3. LoneInv => LoneWatcherIsExact
  BY DEF LoneInv, Lone, Exact, Shown, LoneWatcherIsExact
<1> QED  BY <1>1, <1>2, <1>3, PTL DEF Spec

===============================================================================
