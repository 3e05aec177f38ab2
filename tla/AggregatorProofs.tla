-------------------------- MODULE AggregatorProofs --------------------------
(***************************************************************************)
(* What holds of the aggregation job for any devices, payloads, replicas   *)
(* of the bridge, stops and submissions: types, that no position of a      *)
(* topic counts twice, that only a stop loses what was read, that a job    *)
(* stops by itself for a bad payload only, and that a record says of its   *)
(* window what the readings in it say.                                     *)
(***************************************************************************)
EXTENDS Aggregator, SumLemmas, TLAPS

\* The bounds are naturals.
LEMMA Bounds == /\ Copies \in Nat /\ MaxMessages \in Nat /\ MaxStops \in Nat
                /\ MaxSubmits \in Nat \ {0} /\ Payloads \subseteq PayloadType
BY AggregatorAssumption

\* Messages and the positions they have in the topics stay as they are.
Settled ==
    \A d \in Device :
        /\ topic'[d] \in Seq(1 .. Len(sent')) /\ Len(topic[d]) <= Len(topic'[d])
        /\ \A i \in 1 .. Len(topic[d]) : At(d, i)' = At(d, i)

\* A position of a topic holds a message that was sent.
LEMMA TopicHolds ==
    ASSUME TypeOK, NEW d \in Device, NEW i \in 1 .. Len(topic[d])
    PROVE  topic[d][i] \in 1 .. Len(sent)
<1>1. topic[d] \in Seq(1 .. Len(sent))
  BY DEF TypeOK
<1> QED  BY <1>1

\* A new message leaves every position of a topic what it was.
LEMMA PublishSettles ==
    ASSUME TypeOK, NEW d \in Device, NEW p \in Payloads, Publish(d, p)
    PROVE  /\ Settled /\ sent' \in Seq([dev : Device, payload : Payloads])
           /\ topic' \in [Device -> Seq(1 .. Len(sent'))]
           /\ \A m \in DOMAIN sent : m \in DOMAIN sent' /\ sent'[m] = sent[m]
<1> DEFINE e == [dev |-> d, payload |-> p]
<1>1. e \in [dev : Device, payload : Payloads] /\ sent' = Append(sent, e) /\ topic' = topic
  BY DEF Publish
<1> HIDE DEF e
<1>2. /\ sent' \in Seq([dev : Device, payload : Payloads]) /\ Len(sent') = Len(sent) + 1
      /\ \A m \in 1 .. Len(sent) : sent'[m] = sent[m]
      /\ Len(sent) \in Nat /\ DOMAIN sent = 1 .. Len(sent) /\ DOMAIN sent' = 1 .. Len(sent')
  BY <1>1 DEF TypeOK
<1>3. \A s \in Seq(1 .. Len(sent)) : s \in Seq(1 .. Len(sent'))
  BY <1>2
<1>4. topic' \in [Device -> Seq(1 .. Len(sent'))]
  BY <1>1, <1>3 DEF TypeOK
<1>5. \A c \in Device : \A i \in 1 .. Len(topic[c]) : topic[c][i] \in 1 .. Len(sent)
  BY TopicHolds
<1>6. Settled
  BY <1>1, <1>2, <1>4, <1>5 DEF Settled, At, TypeOK
<1> QED  BY <1>2, <1>4, <1>6

\* A forwarded envelope is put behind the positions of its topic, which stay.
LEMMA ForwardSettles ==
    ASSUME TypeOK, NEW m \in DOMAIN sent, Forward(m)
    PROVE  Settled /\ topic' \in [Device -> Seq(1 .. Len(sent))]
<1> DEFINE d == sent[m].dev
<1>1. m \in 1 .. Len(sent) /\ d \in Device
  <2> DEFINE S == [dev : Device, payload : Payloads]
  <2>1. sent \in Seq(S)
    BY DEF TypeOK
  <2> HIDE DEF S
  <2>2. DOMAIN sent = 1 .. Len(sent)
    BY <2>1
  <2>3. m \in 1 .. Len(sent) /\ sent[m] \in S
    BY <2>1, <2>2
  <2> QED  BY <2>3 DEF S
<1>2. topic' = [topic EXCEPT ![d] = Append(topic[d], m)] /\ sent' = sent
  BY DEF Forward
<1> HIDE DEF d
<1>3. /\ topic[d] \in Seq(1 .. Len(sent)) /\ Append(topic[d], m) \in Seq(1 .. Len(sent))
      /\ Len(Append(topic[d], m)) = Len(topic[d]) + 1
      /\ \A i \in 1 .. Len(topic[d]) : Append(topic[d], m)[i] = topic[d][i]
  BY <1>1 DEF TypeOK
<1>4. topic' \in [Device -> Seq(1 .. Len(sent))]
  BY <1>2, <1>3 DEF TypeOK
<1>5. topic'[d] = Append(topic[d], m) /\ \A c \in Device \ {d} : topic'[c] = topic[c]
  BY <1>1, <1>2 DEF TypeOK
<1>6. ASSUME NEW c \in Device
      PROVE  /\ topic'[c] \in Seq(1 .. Len(sent')) /\ Len(topic[c]) <= Len(topic'[c])
             /\ \A i \in 1 .. Len(topic[c]) : At(c, i)' = At(c, i)
  <2>1. topic'[c] \in Seq(1 .. Len(sent'))
    BY <1>2, <1>4
  <2>4. Len(topic[c]) \in Nat
    BY DEF TypeOK
  <2>2. CASE c = d
    BY <1>2, <1>3, <1>5, <2>1, <2>2, <2>4 DEF At
  <2>3. CASE c # d
    BY <1>2, <1>5, <2>1, <2>3, <2>4 DEF At
  <2> QED  BY <2>2, <2>3
<1> QED  BY <1>4, <1>6 DEF Settled

------------------------------------------------------------------------------
\* A position is on its way, in a window or in a record, and nowhere twice; no
\* two records have the same time.
Apart ==
    /\ \A r \in Records : r.of \cap Range(win[r.dev]) = {} /\ r.of \cap flight[r.dev] = {}
    /\ \A d \in Device : flight[d] \cap Range(win[d]) = {}

Stamped == \A r, t \in Records : r.ts = t.ts => r = t

CountInv == TypeOK /\ Apart /\ Stamped /\ CountedOnce

\* The empty window holds no position.
LEMMA EmptyRange == \A s : s = <<>> => Range(s) = {}
BY DEF Range

\* The counting invariant holds at the start.
LEMMA CountInit == Init => CountInv
<1> SUFFICES ASSUME Init  PROVE CountInv
  OBVIOUS
<1>1. /\ sent \in Seq([dev : Device, payload : Payloads])
      /\ topic \in [Device -> Seq(1 .. Len(sent))] /\ win \in [Device -> Seq(Nat)]
      /\ flight \in [Device -> SUBSET Nat]
      /\ \A d \in Device : win[d] = <<>> /\ flight[d] = {} /\ Len(topic[d]) = 0
  BY DEF Init
<1>2. /\ offset \in [Device -> Nat] /\ \A d \in Device : offset[d] = 0
      /\ clock \in Nat /\ job = "running" /\ stops \in 0 .. MaxStops /\ submits \in 1 .. MaxSubmits
  BY Bounds DEF Init
<1>3. Records = {}
  BY DEF Init, Records
<1> QED  BY <1>1, <1>2, <1>3, EmptyRange DEF CountInv, TypeOK, Apart, Stamped, CountedOnce

\* The types when messages are published or forwarded.
LEMMA SettledTypes ==
    ASSUME CountInv, Settled, sent' \in Seq([dev : Device, payload : Payloads]),
           topic' \in [Device -> Seq(1 .. Len(sent'))],
           UNCHANGED <<job, offset, flight, win, clock, sink, table, stops, submits>>
    PROVE  CountInv'
<1>1. /\ Records' = Records /\ TypeOK
      /\ \A d \in Device : Len(topic[d]) \in Nat /\ Len(topic'[d]) \in Nat /\ offset[d] \in Nat
  BY DEF Records, CountInv, TypeOK
<1>2. ASSUME NEW d \in Device
      PROVE  /\ offset[d] <= Len(topic'[d])
             /\ Range(win[d]) \subseteq {i \in 1 .. offset[d] : At(d, i)'.kind # "garbled"}
             /\ flight[d] \subseteq 1 .. offset[d]
  <2>1. \A i \in 1 .. offset[d] : i \in 1 .. Len(topic[d])
    BY <1>1 DEF TypeOK
  <2>2. \A i \in 1 .. offset[d] : At(d, i)' = At(d, i)
    BY <2>1 DEF Settled
  <2>3. \A i \in Range(win[d]) : i \in 1 .. offset[d] /\ At(d, i).kind # "garbled"
    BY <1>1 DEF TypeOK
  <2>4. \A i \in Range(win[d]) : At(d, i)'.kind # "garbled"
    BY <2>2, <2>3
  <2>5. offset[d] <= Len(topic'[d])
    BY <1>1 DEF TypeOK, Settled
  <2>6. flight[d] \subseteq 1 .. offset[d]
    BY <1>1 DEF TypeOK
  <2> QED  BY <2>3, <2>4, <2>5, <2>6
<1>3. TypeOK'
  BY <1>1, <1>2 DEF TypeOK, Records
<1> QED  BY <1>1, <1>3 DEF CountInv, Apart, Stamped, CountedOnce

\* The types and counts when no record is new and no window grows.
LEMMA FewerRecords ==
    ASSUME CountInv, Records' \subseteq Records, UNCHANGED <<sent, topic, clock>>,
           job' \in {"running", "stopped"}, stops' \in 0 .. MaxStops, submits' \in 1 .. MaxSubmits,
           offset' \in [Device -> Nat], win' \in [Device -> Seq(Nat)],
           flight' \in [Device -> SUBSET Nat],
           \A d \in Device : /\ offset[d] <= offset'[d] /\ offset'[d] <= Len(topic[d])
                             /\ Range(win'[d]) \subseteq Range(win[d])
                             /\ flight'[d] \subseteq flight[d]
    PROVE  CountInv'
<1>1. TypeOK
  BY DEF CountInv
<1>2. ASSUME NEW d \in Device
      PROVE  1 .. offset[d] \subseteq 1 .. offset'[d]
  BY <1>1 DEF TypeOK
<1>3. \A d \in Device :
        /\ Range(win'[d]) \subseteq {i \in 1 .. offset'[d] : At(d, i)'.kind # "garbled"}
        /\ flight'[d] \subseteq 1 .. offset'[d]
  BY <1>1, <1>2 DEF TypeOK, At
<1>4. \A r \in Records' :
        r.dev \in Device /\ r.ts \in Nat /\ r.ts < clock /\ r.of \subseteq 1 .. offset'[r.dev]
  BY <1>1, <1>2 DEF TypeOK
<1>5. TypeOK'
  BY <1>1, <1>3, <1>4 DEF TypeOK
<1>6. Apart'
  BY <1>4 DEF CountInv, Apart
<1> QED  BY <1>5, <1>6 DEF CountInv, Stamped, CountedOnce

\* Every step of the job, and of who sends to it, keeps the counting invariant.
LEMMA CountStep == CountInv /\ [Next]_vars => CountInv'
<1> SUFFICES ASSUME CountInv, [Next]_vars  PROVE CountInv'
  OBVIOUS
<1>t. TypeOK
  BY DEF CountInv
<1>1. ASSUME NEW d \in Device, NEW p \in Payloads, Publish(d, p)
      PROVE  CountInv'
  BY <1>t, <1>1, PublishSettles, SettledTypes DEF Publish
<1>2. ASSUME NEW m \in DOMAIN sent, Forward(m)
      PROVE  CountInv'
  <2>1. Settled /\ topic' \in [Device -> Seq(1 .. Len(sent))]
    BY <1>t, <1>2, ForwardSettles
  <2>2. UNCHANGED <<sent, job, offset, flight, win, clock, sink, table, stops, submits>>
    BY <1>2 DEF Forward
  <2> QED  BY <1>t, <2>1, <2>2, SettledTypes DEF TypeOK
<1>3. ASSUME NEW d \in Device, Read(d)
      PROVE  CountInv'
  <2>1. PICK o \in Nat : o = offset[d]
    BY <1>t DEF TypeOK
  <2>2. PICK i \in Nat : i = o + 1
    BY <2>1
  <2>3. /\ i <= Len(topic[d]) /\ offset' = [offset EXCEPT ![d] = i]
        /\ flight' = [flight EXCEPT ![d] = flight[d] \cup {i}] /\ Records' = Records
        /\ UNCHANGED <<sent, topic, job, win, clock, sink, table, stops, submits>>
    BY <1>3, <2>1, <2>2 DEF Read, Records
  <2>4. 1 .. i = 1 .. o \cup {i} /\ i \notin 1 .. o
    BY <2>1, <2>2
  <2>5. /\ offset' \in [Device -> Nat] /\ offset'[d] = i
        /\ \A c \in Device \ {d} : offset'[c] = offset[c] /\ flight'[c] = flight[c]
        /\ flight'[d] = flight[d] \cup {i} /\ flight' \in [Device -> SUBSET Nat]
    BY <1>t, <2>2, <2>3 DEF TypeOK
  <2>6. ASSUME NEW c \in Device
        PROVE  /\ offset'[c] <= Len(topic[c]) /\ flight'[c] \subseteq 1 .. offset'[c]
               /\ Range(win[c]) \subseteq {k \in 1 .. offset'[c] : At(c, k).kind # "garbled"}
               /\ flight'[c] \cap Range(win[c]) = {}
    <3>1. /\ offset[c] <= Len(topic[c]) /\ flight[c] \subseteq 1 .. offset[c]
          /\ Range(win[c]) \subseteq {k \in 1 .. offset[c] : At(c, k).kind # "garbled"}
          /\ flight[c] \cap Range(win[c]) = {}
      BY <1>t DEF TypeOK, CountInv, Apart
    <3>2. CASE c = d
      BY <2>1, <2>3, <2>4, <2>5, <3>1, <3>2
    <3>3. CASE c # d
      BY <2>5, <3>1, <3>3
    <3> QED  BY <3>2, <3>3
  <2>7. ASSUME NEW q \in Records
        PROVE  /\ q.dev \in Device /\ q.ts \in Nat /\ q.ts < clock
               /\ q.of \subseteq 1 .. offset'[q.dev]
               /\ q.of \cap Range(win[q.dev]) = {} /\ q.of \cap flight'[q.dev] = {}
    <3>1. /\ q.dev \in Device /\ q.ts \in Nat /\ q.ts < clock
          /\ q.of \subseteq 1 .. offset[q.dev]
          /\ q.of \cap Range(win[q.dev]) = {} /\ q.of \cap flight[q.dev] = {}
      BY <1>t DEF TypeOK, CountInv, Apart
    <3>2. CASE q.dev = d
      BY <2>1, <2>4, <2>5, <3>1, <3>2
    <3>3. CASE q.dev # d
      BY <2>5, <3>1, <3>3
    <3> QED  BY <3>1, <3>2, <3>3
  <2>8. TypeOK'
    BY <1>t, <2>3, <2>5, <2>6, <2>7 DEF TypeOK, At
  <2>9. Apart'
    BY <2>3, <2>6, <2>7 DEF Apart
  <2> QED  BY <2>3, <2>8, <2>9 DEF CountInv, Stamped, CountedOnce
<1>11. ASSUME NEW d \in Device, NEW i \in flight[d], Arrive(d, i)
      PROVE  CountInv'
  <2>1. /\ flight' = [flight EXCEPT ![d] = flight[d] \ {i}] /\ Records' = Records
        /\ win' \in {[win EXCEPT ![d] = Append(win[d], i)], win}
        /\ win' # win => At(d, i).kind # "garbled"
        /\ UNCHANGED <<sent, topic, job, offset, clock, sink, table, stops, submits>>
    BY <1>11 DEF Arrive, Parsed, Records
  <2>2. i \in 1 .. offset[d] /\ i \in Nat /\ win[d] \in Seq(Nat)
    BY <1>t DEF TypeOK
  <2>3. Append(win[d], i) \in Seq(Nat) /\ Range(Append(win[d], i)) = Range(win[d]) \cup {i}
    BY <2>2, RangeOfAppend
  <2>4. /\ flight'[d] = flight[d] \ {i} /\ \A c \in Device \ {d} : flight'[c] = flight[c]
        /\ flight' \in [Device -> SUBSET Nat]
        /\ win' \in [Device -> Seq(Nat)] /\ \A c \in Device \ {d} : win'[c] = win[c]
        /\ \/ Range(win'[d]) = Range(win[d])
           \/ Range(win'[d]) = Range(win[d]) \cup {i} /\ At(d, i).kind # "garbled"
    <3>1. CASE win' = win
      BY <1>t, <2>1, <3>1 DEF TypeOK
    <3>2. CASE win' # win
      BY <1>t, <2>1, <2>3, <3>2 DEF TypeOK
    <3> QED  BY <3>1, <3>2
  <2>5. ASSUME NEW c \in Device
        PROVE  /\ flight'[c] \subseteq 1 .. offset[c] /\ flight'[c] \cap Range(win'[c]) = {}
               /\ Range(win'[c]) \subseteq {k \in 1 .. offset[c] : At(c, k).kind # "garbled"}
    <3>1. /\ flight[c] \subseteq 1 .. offset[c] /\ flight[c] \cap Range(win[c]) = {}
          /\ Range(win[c]) \subseteq {k \in 1 .. offset[c] : At(c, k).kind # "garbled"}
      BY <1>t DEF TypeOK, CountInv, Apart
    <3>2. CASE c = d
      BY <2>2, <2>4, <3>1, <3>2
    <3>3. CASE c # d
      BY <2>4, <3>1, <3>3
    <3> QED  BY <3>2, <3>3
  <2>6. ASSUME NEW q \in Records
        PROVE  q.of \cap Range(win'[q.dev]) = {} /\ q.of \cap flight'[q.dev] = {}
    <3>1. q.dev \in Device /\ q.of \cap Range(win[q.dev]) = {} /\ q.of \cap flight[q.dev] = {}
      BY <1>t DEF TypeOK, CountInv, Apart
    <3>2. CASE q.dev = d
      BY <2>4, <3>1, <3>2
    <3>3. CASE q.dev # d
      BY <2>4, <3>1, <3>3
    <3> QED  BY <3>2, <3>3
  <2>7. TypeOK'
    BY <1>t, <2>1, <2>4, <2>5 DEF TypeOK, At
  <2>8. Apart'
    BY <2>1, <2>5, <2>6 DEF Apart
  <2> QED  BY <2>1, <2>7, <2>8 DEF CountInv, Stamped, CountedOnce
<1>4. ASSUME NEW d \in Device, CloseWindow(d)
      PROVE  CountInv'
  <2> DEFINE rec == buildAggregatedRecord(d, win[d])
  <2>1. rec.dev = d /\ rec.ts = clock /\ rec.of = Range(win[d])
    BY DEF buildAggregatedRecord
  <2> HIDE DEF rec
  <2>2. /\ Records' = Records \cup {rec} /\ clock' = clock + 1 /\ win' = [win EXCEPT ![d] = <<>>]
        /\ UNCHANGED <<sent, topic, job, offset, flight, stops, submits>>
    BY <1>4 DEF CloseWindow, Records, rec
  <2>3. /\ win' \in [Device -> Seq(Nat)] /\ Range(win'[d]) = {}
        /\ \A c \in Device \ {d} : win'[c] = win[c]
    BY <1>t, <2>2, EmptyRange DEF TypeOK
  <2>4. ASSUME NEW r \in Records'
        PROVE  /\ r.dev \in Device /\ r.ts \in Nat /\ r.ts < clock'
               /\ r.of \subseteq 1 .. offset[r.dev] /\ r.of \cap Range(win'[r.dev]) = {}
               /\ r.of \cap flight[r.dev] = {}
    <3>1. CASE r = rec
      <4>1. /\ clock \in Nat /\ Range(win[d]) \subseteq 1 .. offset[d]
            /\ flight[d] \cap Range(win[d]) = {}
        BY <1>t DEF TypeOK, CountInv, Apart
      <4> QED  BY <2>1, <2>2, <2>3, <3>1, <4>1
    <3>2. CASE r \in Records
      <4>1. /\ r.dev \in Device /\ r.ts \in Nat /\ r.ts < clock /\ clock \in Nat
            /\ r.of \subseteq 1 .. offset[r.dev] /\ r.of \cap Range(win[r.dev]) = {}
            /\ r.of \cap flight[r.dev] = {}
        BY <1>t, <3>2 DEF TypeOK, CountInv, Apart
      <4>2. r.ts < clock'
        BY <2>2, <4>1
      <4> QED  BY <2>3, <4>1, <4>2
    <3> QED  BY <2>2, <3>1, <3>2
  <2>9. \A c \in Device : Range(win'[c]) \subseteq Range(win[c])
    BY <2>3
  <2>10. clock' \in Nat
    BY <1>t, <2>2 DEF TypeOK
  <2>11. /\ \A r \in Records' : r.dev \in Device /\ r.ts \in Nat /\ r.ts < clock'
                                          /\ r.of \subseteq 1 .. offset'[r.dev]
         /\ \A c \in Device : /\ offset'[c] <= Len(topic'[c])
                              /\ Range(win'[c]) \subseteq {k \in 1 .. offset'[c] : At(c, k)'.kind # "garbled"}
                              /\ flight'[c] \subseteq 1 .. offset'[c]
    <3>1. \A c \in Device : /\ offset[c] <= Len(topic[c]) /\ flight[c] \subseteq 1 .. offset[c]
                            /\ Range(win[c]) \subseteq {k \in 1 .. offset[c] : At(c, k).kind # "garbled"}
      BY <1>t DEF TypeOK
    <3>2. \A c \in Device : \A k : At(c, k)' = At(c, k)
      BY <2>2 DEF At
    <3> QED  BY <2>2, <2>4, <2>9, <3>1, <3>2
  <2>5. TypeOK'
    BY <1>t, <2>2, <2>3, <2>10, <2>11 DEF TypeOK
  <2>6. ASSUME NEW r \in Records
        PROVE  r.ts # rec.ts /\ (r.dev = rec.dev => r.of \cap rec.of = {})
    <3>1. r.ts \in Nat /\ clock \in Nat /\ r.ts < clock
      BY <1>t DEF TypeOK
    <3>2. r.of \cap Range(win[r.dev]) = {}
      BY DEF CountInv, Apart
    <3> QED  BY <2>1, <3>1, <3>2
  <2>7. Stamped'
    BY <2>2, <2>6 DEF CountInv, Stamped
  <2>8. CountedOnce'
    BY <2>2, <2>6 DEF CountInv, CountedOnce
  <2>12. Apart'
    <3>1. \A c \in Device : flight'[c] \cap Range(win'[c]) = {}
      BY <2>2, <2>9 DEF CountInv, Apart
    <3> QED  BY <2>2, <2>4, <3>1 DEF Apart
  <2> QED  BY <2>5, <2>7, <2>8, <2>12 DEF CountInv
<1>5. ASSUME Stopped, UNCHANGED <<sent, topic, offset, clock, table, submits>>, stops' \in 0 .. MaxStops
      PROVE  CountInv'
  <2>1. /\ win' \in [Device -> Seq(Nat)] /\ flight' \in [Device -> SUBSET Nat]
        /\ \A d \in Device : Range(win'[d]) \subseteq Range(win[d]) /\ flight'[d] \subseteq flight[d]
        /\ Records' \subseteq Records /\ job' = "stopped"
    BY <1>5, EmptyRange DEF Stopped, Records
  <2> QED  BY <1>t, <1>5, <2>1, FewerRecords DEF TypeOK
<1>6. ASSUME NEW d \in Device, WindowThrows(d)
      PROVE  CountInv'
  BY <1>t, <1>5, <1>6 DEF WindowThrows, TypeOK
<1>7. ASSUME Die
      PROVE  CountInv'
  <2>1. stops' \in 0 .. MaxStops
    BY <1>t, <1>7, Bounds DEF Die, TypeOK
  <2> QED  BY <1>5, <1>7, <2>1 DEF Die
<1>8. ASSUME NEW batch \in SUBSET sink, Flush(batch)
      PROVE  CountInv'
  <2>1. Records' \subseteq Records /\ UNCHANGED <<sent, topic, job, offset, flight, win, clock, stops, submits>>
    BY <1>8 DEF Flush, Records
  <2> QED  BY <1>t, <2>1, FewerRecords DEF TypeOK
<1>9. ASSUME Submit
      PROVE  CountInv'
  <2>1. /\ offset' = [d \in Device |-> Len(topic[d])] /\ Records' = Records /\ job' = "running"
        /\ UNCHANGED <<sent, topic, flight, win, clock, stops>>
    BY <1>9 DEF Submit, StartingOffset, Records
  <2>2. \A d \in Device : Len(topic[d]) \in Nat
    BY <1>t DEF TypeOK
  <2>3. submits' \in 1 .. MaxSubmits
    BY <1>t, <1>9, Bounds DEF Submit, TypeOK
  <2>4. /\ offset' \in [Device -> Nat]
        /\ \A d \in Device : offset[d] <= offset'[d] /\ offset'[d] <= Len(topic[d])
    BY <1>t, <2>1, <2>2 DEF TypeOK
  <2> QED  BY <1>t, <2>1, <2>3, <2>4, FewerRecords DEF TypeOK
<1>10. CASE UNCHANGED vars
  <2>1. UNCHANGED <<sent, topic, job, offset, flight, win, clock, sink, table, stops, submits>> /\ Records' = Records
    BY <1>10 DEF vars, Records
  <2>2. \A d \in Device : offset[d] \in Nat
    BY <1>t DEF TypeOK
  <2> QED  BY <1>t, <2>1, <2>2, FewerRecords DEF TypeOK
<1> QED
  BY <1>1, <1>2, <1>3, <1>4, <1>6, <1>7, <1>8, <1>9, <1>10, <1>11 DEF Next

\* The counting invariant holds always: the theorems below are drawn from it.
THEOREM CountInvHolds == Spec => []CountInv
BY CountInit, CountStep, PTL DEF Spec

\* Type correctness of the job.
THEOREM TypeCorrect == Spec => []TypeOK
<1>1. CountInv => TypeOK
  BY DEF CountInv
<1> QED  BY CountInvHolds, <1>1, PTL

\* For any devices, replicas of the bridge and restarts: no position of a topic
\* counts in two records, as a job that is submitted begins at or after the
\* place where the last one was (AggregatorJob.java:91).
THEOREM NothingCountsTwice == Spec => []CountedOnce
<1>1. CountInv => CountedOnce
  BY DEF CountInv
<1> QED  BY CountInvHolds, <1>1, PTL

------------------------------------------------------------------------------
\* A payload of a window is in a message that a device sent.
LEMMA WindowHolds ==
    ASSUME TypeOK, NEW d \in Device, NEW i \in Range(win[d])
    PROVE  /\ topic[d][i] \in DOMAIN sent /\ At(d, i) \in PayloadType
           /\ At(d, i).kind \in {"absent", "reading"}
<1>1. i \in 1 .. offset[d] /\ At(d, i).kind # "garbled"
  BY DEF TypeOK
<1>2. offset[d] \in Nat /\ Len(topic[d]) \in Nat /\ offset[d] <= Len(topic[d])
  BY DEF TypeOK
<1>3. topic[d][i] \in 1 .. Len(sent)
  BY <1>1, <1>2, TopicHolds
<1>4. topic[d][i] \in DOMAIN sent /\ sent[topic[d][i]] \in [dev : Device, payload : Payloads]
  <2> DEFINE S == [dev : Device, payload : Payloads]
  <2>1. sent \in Seq(S)
    BY DEF TypeOK
  <2> HIDE DEF S
  <2>2. topic[d][i] \in DOMAIN sent /\ sent[topic[d][i]] \in S
    BY <1>3, <2>1
  <2> QED  BY <2>2 DEF S
<1>5. At(d, i) \in PayloadType
  BY <1>4, Bounds DEF At
<1>6. At(d, i).kind \in {"absent", "garbled", "reading"}
  BY <1>5 DEF PayloadType
<1> QED  BY <1>1, <1>4, <1>5, <1>6

\* No step stops the job by itself without a cause in a topic.
LEMMA CauseStep == TypeOK /\ StopsForCause /\ [Next]_vars => StopsForCause'
<1> SUFFICES ASSUME TypeOK, StopsForCause, [Next]_vars,
                    stops' = 0 /\ (job' = "stopped" \/ submits' > 1)
             PROVE  \E m \in DOMAIN sent' : Harmful(sent'[m].payload)
  BY DEF StopsForCause
<1> DEFINE Cause == \E m \in DOMAIN sent : Harmful(sent[m].payload)
<1>a. ASSUME UNCHANGED <<stops, submits, sent>>, job' = job  PROVE Cause
  BY <1>a DEF StopsForCause
<1>1. ASSUME NEW d \in Device, NEW p \in Payloads, Publish(d, p)
      PROVE  \E m \in DOMAIN sent' : Harmful(sent'[m].payload)
  <2>1. \A m \in DOMAIN sent : m \in DOMAIN sent' /\ sent'[m] = sent[m]
    BY <1>1, PublishSettles
  <2>2. Cause
    BY <1>1 DEF Publish, StopsForCause
  <2> QED  BY <2>1, <2>2
<1>2. ASSUME NEW m \in DOMAIN sent, Forward(m)  PROVE Cause /\ sent' = sent
  BY <1>2, <1>a DEF Forward
<1>3. ASSUME NEW d \in Device, Read(d)  PROVE Cause /\ sent' = sent
  BY <1>3, <1>a DEF Read
<1>10. ASSUME NEW d \in Device, NEW i \in flight[d], Arrive(d, i)  PROVE Cause /\ sent' = sent
  BY <1>10, <1>a DEF Arrive
<1>4. ASSUME NEW d \in Device, CloseWindow(d)  PROVE Cause /\ sent' = sent
  BY <1>4, <1>a DEF CloseWindow
<1>5. ASSUME NEW d \in Device, WindowThrows(d)  PROVE Cause /\ sent' = sent
  <2>1. sent' = sent /\ win[d] # <<>> /\ Throws(d, win[d])
    BY <1>5 DEF WindowThrows, WindowIsOver
  <2>2. /\ win[d] \in Seq(Nat) /\ Last(win[d]) \in Range(win[d])
        /\ \A j \in DOMAIN win[d] : win[d][j] \in Range(win[d])
    <3>1. win[d] \in Seq(Nat)
      BY DEF TypeOK
    <3>2. Len(win[d]) \in DOMAIN win[d]
      BY <2>1, <3>1
    <3> QED  BY <3>1, <3>2 DEF Last, Range
  <2>3. PICK i \in Range(win[d]) : Harmful(At(d, i))
    <3>1. CASE \E j \in DOMAIN win[d] : /\ At(d, win[d][j]).kind = "reading"
                                       /\ At(d, win[d][j]).flaw \in {"any", "first"}
      BY <2>2, <3>1 DEF Harmful
    <3>2. CASE At(d, Last(win[d])).kind # "reading" \/ At(d, Last(win[d])).flaw = "last"
      <4>1. At(d, Last(win[d])).kind \in {"absent", "reading"}
        BY <2>2, WindowHolds
      <4> QED  BY <2>2, <3>2, <4>1 DEF Harmful
    <3> QED  BY <2>1, <3>1, <3>2 DEF Throws
  <2>4. topic[d][i] \in DOMAIN sent
    BY WindowHolds
  <2> QED  BY <2>1, <2>3, <2>4 DEF At
<1>6. ASSUME Die  PROVE FALSE
  BY <1>6, Bounds DEF Die, TypeOK
<1>7. ASSUME NEW batch \in SUBSET sink, Flush(batch)  PROVE Cause /\ sent' = sent
  BY <1>7, <1>a DEF Flush
<1>8. ASSUME Submit  PROVE Cause /\ sent' = sent
  BY <1>8 DEF Submit, StopsForCause
<1>9. CASE UNCHANGED vars
  BY <1>9, <1>a DEF vars
<1> QED
  BY <1>1, <1>2, <1>3, <1>4, <1>5, <1>6, <1>7, <1>8, <1>9, <1>10 DEF Next

\* For any devices, payloads, windows and restarts: a window stops the job only
\* if a payload was sent that is null, or that a dereference, convertValue or a
\* cast does not take (AggregationHandler.java:153-194, 316); what cannot be
\* parsed never does (AggregatorJob.java:130-145).
THEOREM StopsHaveCause == Spec => []StopsForCause
<1>1. Init => StopsForCause
  BY DEF Init, StopsForCause
<1> QED  BY TypeCorrect, <1>1, CauseStep, PTL DEF Spec

\* What is on its way, d's window, and what its records stand for.
CoveredBy(d, i, rs, w, f) ==
    i \in f[d] \/ i \in Range(w[d]) \/ \E r \in rs : r.dev = d /\ i \in r.of

\* Covered, as a formula over the records and the windows.
LEMMA CoveredIs == \A d \in Device : \A i : i \in Covered(d) <=> CoveredBy(d, i, Records, win, flight)
BY DEF Covered, CoveredBy

\* The same after a step.
LEMMA CoveredIsNext == \A d \in Device : \A i : i \in Covered(d)' <=> CoveredBy(d, i, Records', win', flight')
BY DEF Covered, CoveredBy

\* A job that goes on running keeps what it has covered, and covers what it reads.
LEMMA KeptIsEnough ==
    ASSUME LostOnlyByStop,
           job' = "running" /\ submits' = 1 =>
               /\ job = "running" /\ submits = 1
               /\ \A d \in Device : \A i \in 1 .. offset'[d] :
                    \/ /\ i \in 1 .. offset[d] /\ At(d, i)' = At(d, i)
                       /\ CoveredBy(d, i, Records, win, flight) => CoveredBy(d, i, Records', win', flight')
                    \/ At(d, i)'.kind = "garbled" \/ CoveredBy(d, i, Records', win', flight')
    PROVE  LostOnlyByStop'
<1> SUFFICES ASSUME job' = "running", submits' = 1, NEW d \in Device, NEW i \in 1 .. offset'[d],
                    At(d, i)'.kind # "garbled"
             PROVE  CoveredBy(d, i, Records', win', flight')
  BY CoveredIsNext DEF LostOnlyByStop
<1>1. CASE /\ i \in 1 .. offset[d] /\ At(d, i)' = At(d, i)
           /\ CoveredBy(d, i, Records, win, flight) => CoveredBy(d, i, Records', win', flight')
  BY <1>1, CoveredIs DEF LostOnlyByStop
<1> QED  BY <1>1

\* No step but a stop leaves a position read and covered by nothing.
LEMMA LostStep == CountInv /\ LostOnlyByStop /\ [Next]_vars => LostOnlyByStop'
<1> SUFFICES ASSUME CountInv, LostOnlyByStop, [Next]_vars  PROVE LostOnlyByStop'
  OBVIOUS
<1>t. TypeOK
  BY DEF CountInv
<1>o. \A d \in Device : offset[d] \in Nat /\ Len(topic[d]) \in Nat /\ offset[d] <= Len(topic[d])
  BY <1>t DEF TypeOK
<1>a. ASSUME Settled, UNCHANGED <<job, submits, offset, flight, win>>, Records' = Records
      PROVE  LostOnlyByStop'
  <2>1. \A d \in Device : \A i \in 1 .. offset[d] : At(d, i)' = At(d, i)
    BY <1>o, <1>a DEF Settled
  <2> QED  BY <1>a, <2>1, KeptIsEnough
<1>1. ASSUME NEW d \in Device, NEW p \in Payloads, Publish(d, p)
      PROVE  LostOnlyByStop'
  BY <1>t, <1>1, <1>a, PublishSettles DEF Publish, Records
<1>2. ASSUME NEW m \in DOMAIN sent, Forward(m)
      PROVE  LostOnlyByStop'
  BY <1>t, <1>2, <1>a, ForwardSettles DEF Forward, Records
<1>3. ASSUME NEW d \in Device, Read(d)
      PROVE  LostOnlyByStop'
  <2>0. PICK k \in Nat : k = offset[d] + 1
    <3>1. offset[d] + 1 \in Nat
      BY <1>o
    <3> QED  BY <3>1
  <2>1. /\ offset' = [offset EXCEPT ![d] = k] /\ Records' = Records
        /\ UNCHANGED <<sent, topic, job, win, submits>>
        /\ flight' = [flight EXCEPT ![d] = flight[d] \cup {k}]
    BY <1>3, <2>0 DEF Read, Records
  <2>2. \A i \in 1 .. k : i = k \/ i \in 1 .. offset[d]
    <3>1. PICK o \in Nat : o = offset[d]
      BY <1>o
    <3> QED  BY <2>0, <3>1
  <2>3. k \in flight'[d] /\ \A c \in Device : flight[c] \subseteq flight'[c]
    BY <1>t, <2>1 DEF TypeOK
  <2>6. /\ CoveredBy(d, k, Records', win', flight')
        /\ \A c \in Device : \A i :
            CoveredBy(c, i, Records, win, flight) => CoveredBy(c, i, Records', win', flight')
    BY <2>1, <2>3 DEF CoveredBy
  <2>8. \A c \in Device : \A i : At(c, i)' = At(c, i)
    BY <2>1 DEF At
  <2>9. \A c \in Device : \A i \in 1 .. offset'[c] : i \in 1 .. offset[c] \/ (c = d /\ i = k)
    BY <1>t, <2>1, <2>2 DEF TypeOK
  <2> QED  BY <2>1, <2>6, <2>8, <2>9, KeptIsEnough
<1>10. ASSUME NEW d \in Device, NEW k \in flight[d], Arrive(d, k)
      PROVE  LostOnlyByStop'
  <2>1. /\ Records' = Records /\ flight' = [flight EXCEPT ![d] = flight[d] \ {k}]
        /\ UNCHANGED <<sent, topic, job, submits, offset>>
        /\ win' = IF At(d, k).kind # "garbled" THEN [win EXCEPT ![d] = Append(win[d], k)] ELSE win
    BY <1>10 DEF Arrive, Records, Parsed
  <2>2. Range(Append(win[d], k)) = Range(win[d]) \cup {k}
    <3>1. win[d] \in Seq(Nat) /\ k \in Nat
      BY <1>t DEF TypeOK
    <3> QED  BY <3>1, RangeOfAppend
  <2>3. /\ \A c \in Device : Range(win[c]) \subseteq Range(win'[c])
        /\ At(d, k).kind # "garbled" => k \in Range(win'[d])
        /\ \A c \in Device : \A i \in flight[c] : i \in flight'[c] \/ (c = d /\ i = k)
    BY <1>t, <2>1, <2>2 DEF TypeOK
  <2>4. \A c \in Device : \A i :
            /\ At(c, i)' = At(c, i)
            /\ CoveredBy(c, i, Records, win, flight) =>
                CoveredBy(c, i, Records', win', flight') \/ At(c, i).kind = "garbled"
    BY <2>1, <2>3 DEF CoveredBy, At
  <2>5. \A c \in Device : \A i \in 1 .. offset[c] :
            At(c, i).kind = "garbled" \/ CoveredBy(c, i, Records, win, flight)
                \/ ~(job = "running" /\ submits = 1)
    BY CoveredIs DEF LostOnlyByStop
  <2>6. UNCHANGED <<job, submits, offset>>
    BY <2>1
  <2> QED  BY <2>4, <2>5, <2>6, KeptIsEnough
<1>b. ASSUME UNCHANGED <<sent, topic, job, submits, offset>>,
             \A c \in Device : \A i :
                CoveredBy(c, i, Records, win, flight) => CoveredBy(c, i, Records', win', flight')
      PROVE  LostOnlyByStop'
  <2>1. \A d \in Device : \A i : At(d, i)' = At(d, i)
    BY <1>b DEF At
  <2> QED  BY <1>b, <2>1, KeptIsEnough
<1>4. ASSUME NEW d \in Device, CloseWindow(d)
      PROVE  LostOnlyByStop'
  <2> DEFINE rec == buildAggregatedRecord(d, win[d])
  <2>1. rec.dev = d /\ rec.of = Range(win[d])
    BY DEF buildAggregatedRecord
  <2> HIDE DEF rec
  <2>2. /\ Records' = Records \cup {rec} /\ win' = [win EXCEPT ![d] = <<>>]
        /\ UNCHANGED <<sent, topic, job, offset, flight, submits>>
    BY <1>4 DEF CloseWindow, Records, rec
  <2>3. \A c \in Device \ {d} : win'[c] = win[c]
    BY <1>t, <2>2 DEF TypeOK
  <2>4. ASSUME NEW c \in Device, NEW i, CoveredBy(c, i, Records, win, flight)
        PROVE  CoveredBy(c, i, Records', win', flight')
    <3>1. CASE i \in Range(win[c]) /\ c = d
      BY <2>1, <2>2, <3>1 DEF CoveredBy
    <3>2. CASE i \in Range(win[c]) /\ c # d
      BY <2>3, <3>2 DEF CoveredBy
    <3>3. CASE \E r \in Records : r.dev = c /\ i \in r.of
      BY <2>2, <3>3 DEF CoveredBy
    <3>4. CASE i \in flight[c]
      BY <2>2, <3>4 DEF CoveredBy
    <3> QED  BY <2>4, <3>1, <3>2, <3>3, <3>4 DEF CoveredBy
  <2> QED  BY <2>2, <2>4, <1>b
<1>5. ASSUME NEW d \in Device, WindowThrows(d)
      PROVE  LostOnlyByStop'
  BY <1>5 DEF WindowThrows, Stopped, LostOnlyByStop
<1>6. ASSUME Die
      PROVE  LostOnlyByStop'
  BY <1>6 DEF Die, Stopped, LostOnlyByStop
<1>7. ASSUME NEW batch \in SUBSET sink, Flush(batch)
      PROVE  LostOnlyByStop'
  <2>1. \A r \in batch, t \in table : SameKey(r, t) => r = t
    BY DEF CountInv, Stamped, Records, SameKey
  <2>2. Records' = Records
    BY <1>7, <2>1 DEF Flush, Records
  <2>3. UNCHANGED <<sent, topic, job, submits, offset, flight, win>>
    BY <1>7 DEF Flush
  <2> QED  BY <2>2, <2>3, <1>b
<1>8. ASSUME Submit
      PROVE  LostOnlyByStop'
  BY <1>t, <1>8, Bounds DEF Submit, TypeOK, LostOnlyByStop
<1>9. CASE UNCHANGED vars
  <2>1. UNCHANGED <<sent, topic, job, submits, offset, flight, win>> /\ Records' = Records
    BY <1>9 DEF vars, Records
  <2> QED  BY <2>1, <1>b
<1> QED
  BY <1>1, <1>2, <1>3, <1>4, <1>5, <1>6, <1>7, <1>8, <1>9, <1>10 DEF Next

\* For any devices, payloads and replicas of the bridge: until the first stop,
\* what was read and could be parsed is on its way, in a window or in a record,
\* and no batch overwrites another's record.
THEOREM OnlyAStopLoses == Spec => []LostOnlyByStop
<1>1. Init => LostOnlyByStop
  BY DEF Init, LostOnlyByStop
<1> QED  BY CountInvHolds, <1>1, LostStep, PTL DEF Spec

------------------------------------------------------------------------------
(* A record says what its readings say.  What follows is about a function a  *)
(* from positions to payloads, which the topics never take back.             *)

Reads(a) == {i \in DOMAIN a : a[i].kind = "reading"}

\* Summary s says what the readings of a say.
Tells(s, a) ==
    /\ s.count \in Nat /\ s.count = Cardinality(Reads(a))
    /\ SumsTo([i \in Reads(a) |-> a[i].delta], s.delta)
    /\ SumsTo([i \in Reads(a) |-> a[i].sensor], s.sensors)
    /\ s.is_pirate = \E i \in Reads(a) : a[i].fast
    /\ s.alarm = \E i \in Reads(a) : a[i].alarm
    /\ Reads(a) # {} => \E m \in Reads(a) : s.route = a[m].route

\* The loop's body of processElements, and the equation of its fold over w.
Body(s, p) == IF p.kind = "reading" THEN Accumulate(s, p) ELSE s

IsLoop(g, a, w) ==
    g = [s \in SUBSET DOMAIN w |->
            IF s = {} THEN Empty ELSE Body(g[s \ {Max(s)}], a[w[Max(s)]])]

\* The loop over window w has what the readings of a say.
LoopTells(a, w) == \E g : IsLoop(g, a, w) /\ Tells(g[DOMAIN w], a)

\* Max chooses a place.
LEMMA MaxOfPlaces ==
    ASSUME NEW k \in Nat, NEW s \in SUBSET (1 .. k), s # {}
    PROVE  Max(s) \in s /\ \A x \in s : x <= Max(s)
<1>1. IsFiniteSet(1 .. k)
  BY FS_Interval
<1>2. IsFiniteSet(s)
  BY <1>1, FS_Subset
<1>3. \A x \in s : x \in Nat
  OBVIOUS
<1> QED  BY <1>2, <1>3, MaxIsThere

\* No two functions satisfy the equation of the loop.
LEMMA LoopIsOnly ==
    ASSUME NEW a, NEW w, NEW k \in Nat, DOMAIN w = 1 .. k,
           NEW g, IsLoop(g, a, w), NEW h, IsLoop(h, a, w)
    PROVE  g = h
<1> DEFINE D == 1 .. k
           Turn(f, s) == Body(f[s \ {Max(s)}], a[w[Max(s)]])
<1>1. IsFiniteSet(D)
  BY FS_Interval
<1>2. \A s \in SUBSET D : s # {} => Max(s) \in s
  BY MaxOfPlaces
<1>3. /\ g = [s \in SUBSET D |-> IF s = {} THEN Empty ELSE Turn(g, s)]
      /\ h = [s \in SUBSET D |-> IF s = {} THEN Empty ELSE Turn(h, s)]
  BY DEF IsLoop
<1>4. \A f : \A s, t : t = s \ {Max(s)} => Turn(f, s) = Body(f[t], a[w[Max(s)]])
  OBVIOUS
<1> HIDE DEF D, Turn
<1>5. \A s \in SUBSET D : s = {} => g[s] = Empty /\ h[s] = Empty
  BY <1>3
<1>6. \A s \in SUBSET D : s # {} => g[s] = Turn(g, s) /\ h[s] = Turn(h, s)
  BY <1>3
<1> DEFINE Bad == {s \in SUBSET D : g[s] # h[s]}
<1>7. ASSUME Bad # {}  PROVE FALSE
  <2>1. Bad \in SUBSET SUBSET D
    OBVIOUS
  <2>2. PICK s \in Bad : \A t \in Bad : ~(t \subseteq s /\ t # s)
    <3> HIDE DEF Bad
    <3> QED  BY <1>1, <1>7, <2>1, SmallestSet
  <2>3. s # {}
    BY <1>5, <2>2
  <2> DEFINE t == s \ {Max(s)}
  <2>4. Max(s) \in s /\ t \in SUBSET D
    BY <1>2, <2>2, <2>3
  <2>5. t \notin Bad
    BY <2>2, <2>4
  <2>6. g[t] = h[t]
    BY <2>4, <2>5
  <2>7. Turn(g, s) = Body(g[t], a[w[Max(s)]]) /\ Turn(h, s) = Body(h[t], a[w[Max(s)]])
    BY <1>4
  <2>8. g[s] = Turn(g, s) /\ h[s] = Turn(h, s)
    BY <1>6, <2>2, <2>3
  <2> QED  BY <2>2, <2>6, <2>7, <2>8
<1>8. \A s \in SUBSET D : g[s] = h[s]
  BY <1>7
<1> QED  BY <1>3, <1>8

\* The loop over one position more.
LEMMA OneMoreLoops ==
    ASSUME NEW k \in Nat, NEW w, DOMAIN w = 1 .. k, NEW u, DOMAIN u = 1 .. k + 1,
           \A j \in 1 .. k : u[j] = w[j],
           NEW a, NEW b, \A j \in 1 .. k : b[w[j]] = a[w[j]],
           NEW g, IsLoop(g, a, w)
    PROVE  \E h : IsLoop(h, b, u) /\ h[DOMAIN u] = Body(g[DOMAIN w], b[u[k + 1]])
<1> DEFINE D == 1 .. k
           E == 1 .. k + 1
           n == k + 1
           last == b[u[n]]
           h == [s \in SUBSET E |-> IF n \in s THEN Body(g[s \ {n}], last) ELSE g[s]]
<1>1. /\ n \in E /\ n \notin D /\ D = E \ {n} /\ D \subseteq E
      /\ \A j \in E : j <= n /\ j \in Nat
  OBVIOUS
<1>2. \A s \in SUBSET E : s # {} => Max(s) \in s /\ Max(s) \in Nat /\ \A x \in s : x <= Max(s)
  <2>1. \A s \in SUBSET (1 .. k + 1) : s # {} => Max(s) \in s /\ \A x \in s : x <= Max(s)
    <3>1. \A e \in Nat : \A s \in SUBSET (1 .. e) :
            s # {} => Max(s) \in s /\ \A x \in s : x <= Max(s)
      BY MaxOfPlaces
    <3>2. PICK e \in Nat : e = k + 1
      OBVIOUS
    <3>3. \A s \in SUBSET (1 .. e) : s # {} => Max(s) \in s /\ \A x \in s : x <= Max(s)
      BY <3>1
    <3> QED  BY <3>2, <3>3
  <2> QED  BY <2>1
<1>3. \A s \in SUBSET D : g[s] = IF s = {} THEN Empty ELSE Body(g[s \ {Max(s)}], a[w[Max(s)]])
  BY DEF IsLoop
<1>4. \A j \in D : b[u[j]] = a[w[j]]
  OBVIOUS
<1>5. DOMAIN w = D /\ DOMAIN u = E /\ b[u[n]] = last
  OBVIOUS
<1>a. n \in Nat
  OBVIOUS
<1>b. h = [s \in SUBSET E |-> IF n \in s THEN Body(g[s \ {n}], last) ELSE g[s]]
  OBVIOUS
<1> HIDE DEF D, E, n, last, h
<1>6. ASSUME NEW s \in SUBSET E
      PROVE  h[s] = IF s = {} THEN Empty ELSE Body(h[s \ {Max(s)}], b[u[Max(s)]])
  <2>1. CASE s = {}
    <3>1. h[s] = g[s] /\ s \in SUBSET D
      BY <1>b, <2>1
    <3> QED  BY <1>3, <2>1, <3>1
  <2>2. CASE n \in s
    <3>1. Max(s) = n
      <4>1. Max(s) \in s /\ Max(s) \in Nat /\ n <= Max(s)
        BY <1>2, <2>2
      <4>2. Max(s) <= n
        BY <1>1, <4>1
      <4> QED  BY <1>a, <4>1, <4>2
    <3>2. h[s] = Body(g[s \ {n}], last)
      BY <1>b, <2>2
    <3>3. h[s \ {n}] = g[s \ {n}]
      BY <1>b
    <3> QED  BY <1>5, <2>2, <3>1, <3>2, <3>3
  <2>3. CASE s # {} /\ n \notin s
    <3>1. s \in SUBSET D /\ Max(s) \in s /\ Max(s) \in D
      BY <1>1, <1>2, <2>3
    <3>2. h[s] = g[s] /\ h[s \ {Max(s)}] = g[s \ {Max(s)}]
      BY <1>b, <2>3
    <3>3. g[s] = Body(g[s \ {Max(s)}], a[w[Max(s)]])
      BY <1>3, <2>3, <3>1
    <3> QED  BY <1>4, <2>3, <3>1, <3>2, <3>3
  <2> QED  BY <2>1, <2>2, <2>3
<1>7. h = [s \in SUBSET E |-> IF s = {} THEN Empty ELSE Body(h[s \ {Max(s)}], b[u[Max(s)]])]
  BY <1>6, <1>b
<1>8. IsLoop(h, b, u)
  BY <1>5, <1>7 DEF IsLoop
<1>9. h[E] = Body(g[D], last)
  BY <1>1, <1>b
<1> QED  BY <1>5, <1>8, <1>9 DEF n

\* Before the loop nothing is told, of no position.
LEMMA NothingLoops ==
    ASSUME NEW a, DOMAIN a = {}, NEW w, w = <<>>
    PROVE  LoopTells(a, w)
<1>1. DOMAIN w = {} /\ SUBSET {} = {{}}
  OBVIOUS
<1> DEFINE g == [s \in {{}} |-> Empty]
<1>2. g[{}] = Empty
  OBVIOUS
<1>3. IsLoop(g, a, w)
  BY <1>1 DEF IsLoop
<1>4. Reads(a) = {}
  BY DEF Reads
<1>5. Cardinality({}) = 0
  BY FS_EmptySet
<1>6. SumsTo([i \in Reads(a) |-> a[i].delta], 0) /\ SumsTo([i \in Reads(a) |-> a[i].sensor], 0)
  BY <1>4, NothingSums
<1>7. /\ Empty.count = 0 /\ Empty.delta = 0 /\ Empty.sensors = 0
      /\ Empty.is_pirate = FALSE /\ Empty.alarm = FALSE
  BY DEF Empty
<1>8. Tells(Empty, a)
  <2>1. FALSE = (\E i \in Reads(a) : a[i].fast) /\ FALSE = (\E i \in Reads(a) : a[i].alarm)
    BY <1>4
  <2>2. Empty.count \in Nat /\ Empty.count = Cardinality(Reads(a))
    BY <1>4, <1>5, <1>7
  <2>3. Empty.is_pirate = \E i \in Reads(a) : a[i].fast
    BY <1>7, <2>1, Zenon
  <2>4. Empty.alarm = \E i \in Reads(a) : a[i].alarm
    BY <1>7, <2>1, Zenon
  <2>5. SumsTo([i \in Reads(a) |-> a[i].delta], Empty.delta)
    BY <1>6, <1>7, Zenon
  <2>6. SumsTo([i \in Reads(a) |-> a[i].sensor], Empty.sensors)
    BY <1>6, <1>7, Zenon
  <2> QED  BY <1>4, <2>2, <2>3, <2>4, <2>5, <2>6 DEF Tells
<1> HIDE DEF g
<1> QED  BY <1>1, <1>2, <1>3, <1>8 DEF LoopTells

\* One more reading, added to what is told of the others.
LEMMA TellsOneMore ==
    ASSUME NEW a, NEW b, NEW n \in Nat, n \notin DOMAIN a, DOMAIN b = DOMAIN a \cup {n},
           IsFiniteSet(DOMAIN a), \A i \in DOMAIN a : i \in Nat,
           \A i \in DOMAIN a : b[i] = a[i], \A i \in DOMAIN b : b[i] \in PayloadType,
           NEW s, Tells(s, a)
    PROVE  Tells(Body(s, b[n]), b)
<1> DEFINE p == b[n]
<1>1. p \in PayloadType /\ p.delta \in Nat /\ p.sensor \in Nat /\ p.fast \in BOOLEAN /\ p.alarm \in BOOLEAN
  BY DEF PayloadType
<1>2. Reads(a) \subseteq DOMAIN a /\ n \notin Reads(a) /\ \A i \in Reads(a) : b[i] = a[i]
  BY DEF Reads
<1>3. \A i \in Reads(a) : b[i].delta \in Nat /\ b[i].sensor \in Nat
  BY DEF Reads, PayloadType
<1>4. IsFiniteSet(Reads(a))
  BY <1>2, FS_Subset
<1>5. CASE p.kind # "reading"
  <2>1. Reads(b) = Reads(a)
    BY <1>5 DEF Reads
  <2>2. /\ [i \in Reads(b) |-> b[i].delta] = [i \in Reads(a) |-> a[i].delta]
        /\ [i \in Reads(b) |-> b[i].sensor] = [i \in Reads(a) |-> a[i].sensor]
    BY <1>2, <2>1
  <2>3. Body(s, p) = s
    BY <1>5 DEF Body
  <2> HIDE DEF p
  <2> QED  BY <1>2, <2>1, <2>2, <2>3 DEF Tells, p
<1>6. CASE p.kind = "reading"
  <2> DEFINE t == Accumulate(s, p)
  <2>1. Reads(b) = Reads(a) \cup {n}
    BY <1>6 DEF Reads
  <2>2. /\ t.count = s.count + 1 /\ t.delta = s.delta + p.delta /\ t.sensors = s.sensors + p.sensor
        /\ t.is_pirate = (s.is_pirate \/ p.fast) /\ t.alarm = (s.alarm \/ p.alarm)
        /\ t.route = IF s.count = 0 THEN p.route ELSE s.route
    BY DEF Accumulate
  <2> HIDE DEF t, p
  <2>3. t.count \in Nat /\ t.count = Cardinality(Reads(b))
    <3>1. Cardinality(Reads(a) \cup {n}) = Cardinality(Reads(a)) + 1
      BY <1>2, <1>4, FS_AddElement
    <3> QED  BY <2>1, <2>2, <3>1 DEF Tells
  <2>4. SumsTo([i \in Reads(b) |-> b[i].delta], t.delta)
    <3> DEFINE f == [i \in Reads(a) |-> a[i].delta]
               g == [i \in Reads(b) |-> b[i].delta]
    <3>1. /\ DOMAIN f = Reads(a) /\ DOMAIN g = Reads(a) \cup {n} /\ g[n] = p.delta
          /\ \A i \in DOMAIN f : g[i] = f[i] /\ f[i] \in Nat
      BY <1>2, <1>3, <2>1 DEF p
    <3>2. SumsTo(f, s.delta)
      BY DEF Tells
    <3> HIDE DEF f, g
    <3>3. SumsTo(g, s.delta + g[n])
      BY <1>1, <1>2, <3>1, <3>2, OneMoreSums
    <3> QED  BY <2>2, <3>1, <3>3 DEF g
  <2>5. SumsTo([i \in Reads(b) |-> b[i].sensor], t.sensors)
    <3> DEFINE f == [i \in Reads(a) |-> a[i].sensor]
               g == [i \in Reads(b) |-> b[i].sensor]
    <3>1. /\ DOMAIN f = Reads(a) /\ DOMAIN g = Reads(a) \cup {n} /\ g[n] = p.sensor
          /\ \A i \in DOMAIN f : g[i] = f[i] /\ f[i] \in Nat
      BY <1>2, <1>3, <2>1 DEF p
    <3>2. SumsTo(f, s.sensors)
      BY DEF Tells
    <3> HIDE DEF f, g
    <3>3. SumsTo(g, s.sensors + g[n])
      BY <1>1, <1>2, <3>1, <3>2, OneMoreSums
    <3> QED  BY <2>2, <3>1, <3>3 DEF g
  <2>6. t.is_pirate = \E i \in Reads(b) : b[i].fast
    <3>1. s.is_pirate = \E i \in Reads(a) : a[i].fast
      BY DEF Tells
    <3>2. (\E i \in Reads(b) : b[i].fast) <=> (\E i \in Reads(a) : a[i].fast) \/ p.fast
      BY <1>2, <2>1 DEF p
    <3> QED  BY <2>2, <3>1, <3>2
  <2>7. t.alarm = \E i \in Reads(b) : b[i].alarm
    <3>1. s.alarm = \E i \in Reads(a) : a[i].alarm
      BY DEF Tells
    <3>2. (\E i \in Reads(b) : b[i].alarm) <=> (\E i \in Reads(a) : a[i].alarm) \/ p.alarm
      BY <1>2, <2>1 DEF p
    <3> QED  BY <2>2, <3>1, <3>2
  <2>8. \E m \in Reads(b) : t.route = b[m].route
    <3>1. CASE s.count = 0
      <4>1. Reads(a) = {}
        BY <1>4, <3>1, FS_EmptySet DEF Tells
      <4>2. Reads(b) = {n} /\ t.route = b[n].route
        BY <2>1, <2>2, <3>1, <4>1 DEF p
      <4> QED  BY <4>2
    <3>2. CASE s.count # 0
      <4>1. Reads(a) # {}
        BY <3>2, FS_EmptySet DEF Tells
      <4>2. PICK m \in Reads(a) : s.route = a[m].route
        BY <4>1 DEF Tells
      <4>3. m \in Reads(b) /\ b[m] = a[m]
        BY <1>2, <2>1
      <4>4. t.route = b[m].route
        BY <2>2, <3>2, <4>2, <4>3
      <4> QED  BY <2>1, <4>2, <4>3, <4>4
    <3> QED  BY <3>1, <3>2
  <2>9. Body(s, p) = t
    BY <1>6 DEF Body, t
  <2>10. Tells(t, b)
    BY <2>3, <2>4, <2>5, <2>6, <2>7, <2>8 DEF Tells
  <2> QED  BY <2>9, <2>10 DEF p
<1> QED  BY <1>5, <1>6

\* What Arrive adds to a window is told with it.
LEMMA AppendLoops ==
    ASSUME NEW w \in Seq(Nat), NEW n \in Nat, n \notin Range(w),
           NEW a, DOMAIN a = Range(w), NEW b, DOMAIN b = Range(w) \cup {n},
           \A i \in Range(w) : b[i] = a[i], \A i \in DOMAIN b : b[i] \in PayloadType,
           LoopTells(a, w)
    PROVE  LoopTells(b, Append(w, n))
<1>1. PICK k \in Nat : k = Len(w)
  OBVIOUS
<1> DEFINE u == Append(w, n)
<1>2. DOMAIN w = 1 .. k /\ DOMAIN u = 1 .. k + 1 /\ u[k + 1] = n /\ \A j \in 1 .. k : u[j] = w[j]
  BY <1>1
<1>3. \A j \in 1 .. k : w[j] \in Range(w) /\ b[w[j]] = a[w[j]]
  BY <1>2 DEF Range
<1>4. IsFiniteSet(Range(w)) /\ \A i \in Range(w) : i \in Nat
  <2> DEFINE f == [j \in 1 .. k |-> w[j]]
  <2>1. f \in Surjection(1 .. k, Range(w))
    BY <1>2 DEF Range, Surjection
  <2>2. IsFiniteSet(1 .. k)
    BY FS_Interval
  <2>3. IsFiniteSet(Range(w))
    BY <2>1, <2>2, FS_Surjection
  <2>4. \A i \in Range(w) : i \in Nat
    BY <1>1 DEF Range
  <2> QED  BY <2>3, <2>4
<1> HIDE DEF u
<1>5. PICK g : IsLoop(g, a, w) /\ Tells(g[DOMAIN w], a)
  BY DEF LoopTells
<1>6. PICK h : IsLoop(h, b, u) /\ h[DOMAIN u] = Body(g[DOMAIN w], b[n])
  <2>1. \A j \in 1 .. k : u[j] = w[j]
    BY <1>2
  <2>2. \A j \in 1 .. k : b[w[j]] = a[w[j]]
    BY <1>3
  <2>3. DOMAIN w = 1 .. k /\ DOMAIN u = 1 .. k + 1 /\ IsLoop(g, a, w)
    BY <1>2, <1>5
  <2>4. \E h : IsLoop(h, b, u) /\ h[DOMAIN u] = Body(g[DOMAIN w], b[u[k + 1]])
    BY <2>1, <2>2, <2>3, OneMoreLoops, SMTT(40)
  <2> QED  BY <1>2, <2>4
<1>7. Tells(Body(g[DOMAIN w], b[n]), b)
  BY <1>4, <1>5, TellsOneMore
<1> QED  BY <1>6, <1>7 DEF LoopTells, u

------------------------------------------------------------------------------
\* What is at positions S of d's topic.
View(d, S) == [i \in S |-> At(d, i)]

\* The loop over a window tells what it holds.
WindowInv == \A d \in Device : LoopTells(View(d, Range(win[d])), win[d])

\* The summary in a record.
SummaryOf(r) ==
    [count |-> r.count, route |-> r.route, delta |-> r.delta_sum, sensors |-> r.average[1],
     is_pirate |-> r.is_pirate, alarm |-> r.alarm]

\* A record tells what was read, with status and statistics of one reading.
RecordTells(r, a) ==
    /\ Tells(SummaryOf(r), a)
    /\ r.average = <<r.average[1], r.count>>
    /\ \E m \in Reads(a) : r.status = a[m].status /\ r.stats = a[m].stat

RecordInv == \A r \in Records : RecordTells(r, View(r.dev, r.of))

TellInv == WindowInv /\ RecordInv

\* What is behind a job's offsets stays what it is.
Behind == \A d \in Device : \A i \in 1 .. offset[d] : At(d, i)' = At(d, i)

\* No view of what was read changes.
LEMMA ViewStays ==
    ASSUME Behind, NEW d \in Device, NEW S, S \subseteq 1 .. offset[d]
    PROVE  View(d, S)' = View(d, S)
<1>1. \A i \in S : At(d, i)' = At(d, i)
  BY DEF Behind
<1> QED  BY <1>1 DEF View

\* A window that did not grow is told as before.
LEMMA WindowStays ==
    ASSUME TypeOK, WindowInv, Behind, NEW d \in Device, win'[d] = win[d] \/ win'[d] = <<>>
    PROVE  LoopTells([i \in Range(win'[d]) |-> At(d, i)'], win'[d])
<1>1. CASE win'[d] = win[d]
  <2>1. Range(win[d]) \subseteq 1 .. offset[d]
    BY DEF TypeOK
  <2>2. \A i \in Range(win[d]) : At(d, i)' = At(d, i)
    BY <2>1 DEF Behind
  <2>3. [i \in Range(win'[d]) |-> At(d, i)'] = [i \in Range(win[d]) |-> At(d, i)]
    BY <1>1, <2>2
  <2>4. LoopTells([i \in Range(win[d]) |-> At(d, i)], win[d])
    BY DEF WindowInv, View
  <2> QED  BY <1>1, <2>3, <2>4
<1>2. CASE win'[d] = <<>>
  <2>1. Range(win'[d]) = {}
    BY <1>2, EmptyRange
  <2>2. DOMAIN [i \in Range(win'[d]) |-> At(d, i)'] = {}
    BY <2>1
  <2>3. LoopTells([i \in Range(win'[d]) |-> At(d, i)'], win'[d])
    BY <1>2, <2>2, NothingLoops
  <2> QED  BY <1>2, <2>3
<1> QED  BY <1>1, <1>2

\* So is a record.
LEMMA RecordStays ==
    ASSUME TypeOK, RecordInv, Behind, NEW r \in Records
    PROVE  RecordTells(r, View(r.dev, r.of)')
<1>1. r.dev \in Device /\ r.of \subseteq 1 .. offset[r.dev]
  BY DEF TypeOK
<1>2. View(r.dev, r.of)' = View(r.dev, r.of)
  BY <1>1, ViewStays
<1> QED  BY <1>2 DEF RecordInv

\* Where no window grows and no record is new, all is told as before.
LEMMA TellStays ==
    ASSUME TypeOK, TellInv, Behind, Records' \subseteq Records,
           \A d \in Device : win'[d] = win[d] \/ win'[d] = <<>>
    PROVE  TellInv'
<1>1. WindowInv'
  BY WindowStays DEF TellInv, WindowInv, View
<1>2. RecordInv'
  BY RecordStays DEF TellInv, RecordInv
<1> QED  BY <1>1, <1>2 DEF TellInv

\* At each position of a topic there is a payload.
LEMMA PayloadThere ==
    ASSUME TypeOK, NEW d \in Device, NEW i \in 1 .. Len(topic[d])
    PROVE  At(d, i) \in PayloadType
<1> DEFINE S == [dev : Device, payload : Payloads]
<1>1. topic[d][i] \in 1 .. Len(sent)
  BY TopicHolds
<1>2. sent \in Seq(S)
  BY DEF TypeOK
<1> HIDE DEF S
<1>3. sent[topic[d][i]] \in S
  BY <1>1, <1>2
<1> QED  BY <1>3, Bounds DEF S, At

\* What processElements computes is what the loop's equation has.
LEMMA LoopIsFold ==
    ASSUME NEW d, NEW k \in Nat, NEW w, DOMAIN w = 1 .. k,
           NEW a, \A j \in 1 .. k : a[w[j]] = At(d, w[j]), NEW g, IsLoop(g, a, w)
    PROVE  processElements(d, w) = g[DOMAIN w]
<1> DEFINE D == DOMAIN w
           Places(h) == h = [s \in SUBSET D |->
                IF s = {} THEN Empty
                ELSE IF At(d, w[Max(s)]).kind = "reading"
                     THEN Accumulate(h[s \ {Max(s)}], At(d, w[Max(s)]))
                     ELSE h[s \ {Max(s)}]]
<1>1. \A s \in SUBSET D : s # {} => Max(s) \in 1 .. k
  BY MaxOfPlaces
<1>2. \A s \in SUBSET D : s # {} => a[w[Max(s)]] = At(d, w[Max(s)])
  BY <1>1
<1>3. ASSUME NEW h  PROVE Places(h) <=> IsLoop(h, a, w)
  <2>1. \A s \in SUBSET D :
            (IF s = {} THEN Empty
             ELSE IF At(d, w[Max(s)]).kind = "reading"
                  THEN Accumulate(h[s \ {Max(s)}], At(d, w[Max(s)]))
                  ELSE h[s \ {Max(s)}])
            = (IF s = {} THEN Empty ELSE Body(h[s \ {Max(s)}], a[w[Max(s)]]))
    BY <1>2 DEF Body
  <2> QED  BY <2>1, ZenonT(40) DEF IsLoop
<1>4. \A h : IsLoop(h, a, w) => h = g
  BY LoopIsOnly
<1>5. processElements(d, w) = (CHOOSE h : Places(h))[D]
  BY DEF processElements, FoldLeft, MapThenFoldSet
<1> HIDE DEF Places
<1>6. \A h : Places(h) <=> h = g
  BY <1>3, <1>4
<1>7. (CHOOSE h : Places(h)) = g
  BY <1>6
<1> QED  BY <1>5, <1>7

\* The envelope that Arrive adds to its window is told with the others.
LEMMA ArriveTells ==
    ASSUME TypeOK, Apart, TellInv, NEW d \in Device, NEW n \in flight[d], Arrive(d, n)
    PROVE  TellInv'
<1> DEFINE w == win[d]
<1>1. /\ Behind /\ UNCHANGED <<sent, topic>> /\ Records' = Records
      /\ \A c \in Device : \A i : At(c, i)' = At(c, i)
      /\ win' = [win EXCEPT ![d] = Append(w, n)] \/ win' = win
  BY DEF Arrive, Records, Behind, At
<1>2. /\ w \in Seq(Nat) /\ n \in Nat /\ n \notin Range(w) /\ n \in 1 .. Len(topic[d])
      /\ \A i \in Range(w) : i \in 1 .. Len(topic[d])
  <2>1. /\ w \in Seq(Nat) /\ n \in 1 .. offset[d] /\ Range(w) \subseteq 1 .. offset[d]
        /\ offset[d] \in Nat /\ Len(topic[d]) \in Nat /\ offset[d] <= Len(topic[d])
    <3>1. win[d] \in Seq(Nat) /\ offset[d] \in Nat /\ offset[d] <= Len(topic[d])
      BY DEF TypeOK
    <3>2. flight[d] \subseteq 1 .. offset[d] /\ Range(win[d]) \subseteq 1 .. offset[d]
      BY DEF TypeOK
    <3>3. Len(topic[d]) \in Nat
      BY DEF TypeOK
    <3> QED  BY <3>1, <3>2, <3>3
  <2>2. n \notin Range(w)
    BY DEF Apart
  <2> QED  BY <2>1, <2>2
<1> HIDE DEF w
<1>3. ASSUME NEW c \in Device
      PROVE  LoopTells([i \in Range(win'[c]) |-> At(c, i)'], win'[c])
  <2>1. CASE win'[c] = win[c]
    BY <1>1, <2>1, WindowStays DEF TellInv
  <2>2. CASE win'[c] # win[c]
    <3>1. c = d /\ win'[c] = Append(w, n)
      BY <1>1, <2>2 DEF TypeOK
    <3>2. Range(Append(w, n)) = Range(w) \cup {n}
      BY <1>2, RangeOfAppend
    <3> DEFINE a == View(d, Range(w))
               b == [i \in Range(w) \cup {n} |-> At(d, i)]
    <3>4. DOMAIN a = Range(w) /\ DOMAIN b = Range(w) \cup {n}
      BY DEF View
    <3>5. \A i \in Range(w) : b[i] = a[i]
      BY DEF View
    <3>6. \A i \in DOMAIN b : b[i] \in PayloadType
      BY <1>2, PayloadThere
    <3>7. LoopTells(a, w)
      BY DEF TellInv, WindowInv, w
    <3>8. b = [i \in Range(win'[c]) |-> At(c, i)']
      BY <1>1, <3>1, <3>2
    <3> HIDE DEF a, b
    <3>9. LoopTells(b, Append(w, n))
      BY <1>2, <3>4, <3>5, <3>6, <3>7, AppendLoops
    <3> QED  BY <3>1, <3>8, <3>9
  <2> QED  BY <2>1, <2>2
<1>4. WindowInv'
  BY <1>3 DEF WindowInv, View
<1>5. RecordInv'
  BY <1>1, RecordStays DEF TellInv, RecordInv
<1> QED  BY <1>4, <1>5 DEF TellInv

\* The record of a window that closes tells what the window held.
LEMMA CloseTells ==
    ASSUME TypeOK, TellInv, NEW d \in Device, CloseWindow(d)
    PROVE  TellInv'
<1> DEFINE w == win[d]
           rec == buildAggregatedRecord(d, w)
           s == processElements(d, w)
           a == View(d, Range(w))
<1>1. /\ Behind /\ Records' = Records \cup {rec} /\ win' = [win EXCEPT ![d] = <<>>]
      /\ w # <<>> /\ At(d, Last(w)).kind = "reading"
      /\ \A c : \A S : View(c, S)' = View(c, S)
  BY DEF CloseWindow, WindowIsOver, Throws, Records, Behind, At, View
<1>2. /\ rec.dev = d /\ rec.of = Range(w) /\ rec.count = s.count /\ rec.route = s.route
      /\ rec.delta_sum = s.delta /\ rec.average = <<s.sensors, s.count>>
      /\ rec.is_pirate = s.is_pirate /\ rec.alarm = s.alarm
      /\ rec.status = At(d, Last(w)).status /\ rec.stats = At(d, Last(w)).stat
  BY DEF buildAggregatedRecord
<1> HIDE DEF w, rec, s
<1>3. PICK k \in Nat : k = Len(w) /\ DOMAIN w = 1 .. k /\ k > 0
  <2>1. w \in Seq(Nat)
    BY DEF TypeOK, w
  <2> QED  BY <1>1, <2>1
<1>4. /\ DOMAIN a = Range(w) /\ \A i \in Range(w) : a[i] = At(d, i)
      /\ \A j \in 1 .. k : w[j] \in Range(w)
  BY <1>3 DEF Range, View
<1>5. LoopTells(a, w)
  BY <1>1 DEF TellInv, WindowInv, w
<1> HIDE DEF a
<1>6. PICK g : IsLoop(g, a, w) /\ Tells(g[DOMAIN w], a)
  BY <1>5 DEF LoopTells
<1>7. Tells(s, a)
  <2>1. \A j \in 1 .. k : a[w[j]] = At(d, w[j])
    BY <1>4
  <2>2. s = g[DOMAIN w]
    BY <1>3, <1>6, <2>1, LoopIsFold DEF s
  <2> QED  BY <1>6, <2>2
<1>8. RecordTells(rec, a)
  <2>1. /\ SummaryOf(rec).count = s.count /\ SummaryOf(rec).route = s.route
        /\ SummaryOf(rec).delta = s.delta /\ SummaryOf(rec).sensors = s.sensors
        /\ SummaryOf(rec).is_pirate = s.is_pirate /\ SummaryOf(rec).alarm = s.alarm
    BY <1>2 DEF SummaryOf
  <2>2. Tells(SummaryOf(rec), a)
    BY <1>7, <2>1, Zenon DEF Tells
  <2>3. rec.average = <<rec.average[1], rec.count>>
    BY <1>2
  <2>4. /\ Last(w) \in Reads(a)
        /\ rec.status = a[Last(w)].status /\ rec.stats = a[Last(w)].stat
    <3>1. Last(w) \in Range(w)
      BY <1>3, <1>4 DEF Last
    <3> QED  BY <1>1, <1>2, <1>4, <1>5, <3>1 DEF Reads
  <2> QED  BY <2>2, <2>3, <2>4 DEF RecordTells
<1>9. WindowInv'
  <2>1. \A c \in Device : win'[c] = win[c] \/ win'[c] = <<>>
    BY <1>1 DEF TypeOK
  <2> QED  BY <1>1, <2>1, WindowStays DEF TellInv, WindowInv, View
<1>10. RecordInv'
  <2>1. ASSUME NEW r \in Records'
        PROVE  RecordTells(r, View(r.dev, r.of)')
    <3>1. CASE r \in Records
      BY <1>1, <3>1, RecordStays DEF TellInv
    <3>2. CASE r = rec
      <4>1. View(r.dev, r.of)' = a
        BY <1>1, <1>2, <3>2 DEF a
      <4> QED  BY <1>8, <3>2, <4>1
    <3> QED  BY <1>1, <3>1, <3>2
  <2> QED  BY <2>1 DEF RecordInv
<1> QED  BY <1>9, <1>10 DEF TellInv

\* Every step keeps what windows and records tell.
LEMMA TellStep == CountInv /\ TellInv /\ [Next]_vars => TellInv'
<1> SUFFICES ASSUME TypeOK, Apart, TellInv, [Next]_vars  PROVE TellInv'
  BY DEF CountInv
<1>a. ASSUME UNCHANGED <<sent, topic>>, Records' \subseteq Records,
             \A d \in Device : win'[d] = win[d] \/ win'[d] = <<>>
      PROVE  TellInv'
  <2>1. Behind
    BY <1>a DEF Behind, At
  <2> QED  BY <1>a, <2>1, TellStays
<1>b. ASSUME Settled, Records' = Records, win' = win
      PROVE  TellInv'
  <2>1. \A d \in Device : \A i \in 1 .. offset[d] : i \in 1 .. Len(topic[d])
    BY DEF TypeOK
  <2>2. Behind
    BY <1>b, <2>1 DEF Behind, Settled
  <2> QED  BY <1>b, <2>2, TellStays
<1>1. ASSUME NEW d \in Device, NEW p \in Payloads, Publish(d, p)
      PROVE  TellInv'
  BY <1>1, <1>b, PublishSettles DEF Publish, Records
<1>2. ASSUME NEW m \in DOMAIN sent, Forward(m)
      PROVE  TellInv'
  BY <1>2, <1>b, ForwardSettles DEF Forward, Records
<1>3. ASSUME NEW d \in Device, Read(d)
      PROVE  TellInv'
  BY <1>3, <1>a DEF Read, Records
<1>10. ASSUME NEW d \in Device, NEW i \in flight[d], Arrive(d, i)
      PROVE  TellInv'
  BY <1>10, ArriveTells
<1>4. ASSUME NEW d \in Device, CloseWindow(d)
      PROVE  TellInv'
  BY <1>4, CloseTells
<1>5. ASSUME NEW d \in Device, WindowThrows(d)
      PROVE  TellInv'
  BY <1>5, <1>a DEF WindowThrows, Stopped, Records
<1>6. ASSUME NEW batch \in SUBSET sink, Flush(batch)
      PROVE  TellInv'
  BY <1>6, <1>a DEF Flush, Records
<1>7. CASE Die
  BY <1>7, <1>a DEF Die, Stopped, Records
<1>8. CASE Submit
  BY <1>8, <1>a DEF Submit, Records
<1>9. CASE UNCHANGED vars
  BY <1>9, <1>a DEF vars, Records
<1> QED
  BY <1>1, <1>2, <1>3, <1>4, <1>5, <1>6, <1>7, <1>8, <1>9, <1>10 DEF Next

\* The sum of deltas at positions S of d's topic, as MapThenSumSet states it.
DeltaSum(g, d, S) ==
    g = [s \in SUBSET S |-> IF s = {} THEN 0 ELSE At(d, Some(s)).delta + g[s \ {Some(s)}]]

\* It is the sum.
LEMMA DeltaIsSum ==
    ASSUME NEW d, NEW S, IsFiniteSet(S), NEW sum, SumsTo([i \in S |-> At(d, i).delta], sum)
    PROVE  (CHOOSE g : DeltaSum(g, d, S))[S] = sum
<1> DEFINE f == [i \in S |-> At(d, i).delta]
<1>1. DOMAIN f = S /\ \A i \in S : f[i] = At(d, i).delta
  OBVIOUS
<1>2. PICK total : Totals(total, f) /\ sum = total[S]
  BY DEF SumsTo
<1>3. \A s \in SUBSET S : s # {} => Some(s) \in S
  BY DEF Some
<1> HIDE DEF f
<1>4. ASSUME NEW g  PROVE DeltaSum(g, d, S) <=> IsSum(g, f)
  <2>1. \A s \in SUBSET S :
            (IF s = {} THEN 0 ELSE At(d, Some(s)).delta + g[s \ {Some(s)}])
            = (IF s = {} THEN 0 ELSE f[Some(s)] + g[s \ {Some(s)}])
    BY <1>1, <1>3
  <2> QED  BY <1>1, <2>1 DEF IsSum, DeltaSum
<1>5. \A g : IsSum(g, f) <=> g = total
  BY <1>1, <1>2, TotalsAreSums
<1>6. \A g : DeltaSum(g, d, S) <=> g = total
  BY <1>4, <1>5
<1>7. (CHOOSE g : DeltaSum(g, d, S)) = total
  BY <1>6
<1> QED  BY <1>2, <1>7

\* The same of the sensors.
SensorSum(g, d, S) ==
    g = [s \in SUBSET S |-> IF s = {} THEN 0 ELSE At(d, Some(s)).sensor + g[s \ {Some(s)}]]

\* It is the sum.
LEMMA SensorIsSum ==
    ASSUME NEW d, NEW S, IsFiniteSet(S), NEW sum, SumsTo([i \in S |-> At(d, i).sensor], sum)
    PROVE  (CHOOSE g : SensorSum(g, d, S))[S] = sum
<1> DEFINE f == [i \in S |-> At(d, i).sensor]
<1>1. DOMAIN f = S /\ \A i \in S : f[i] = At(d, i).sensor
  OBVIOUS
<1>2. PICK total : Totals(total, f) /\ sum = total[S]
  BY DEF SumsTo
<1>3. \A s \in SUBSET S : s # {} => Some(s) \in S
  BY DEF Some
<1> HIDE DEF f
<1>4. ASSUME NEW g  PROVE SensorSum(g, d, S) <=> IsSum(g, f)
  <2>1. \A s \in SUBSET S :
            (IF s = {} THEN 0 ELSE At(d, Some(s)).sensor + g[s \ {Some(s)}])
            = (IF s = {} THEN 0 ELSE f[Some(s)] + g[s \ {Some(s)}])
    BY <1>1, <1>3
  <2> QED  BY <1>1, <2>1 DEF IsSum, SensorSum
<1>5. \A g : IsSum(g, f) <=> g = total
  BY <1>1, <1>2, TotalsAreSums
<1>6. \A g : SensorSum(g, d, S) <=> g = total
  BY <1>4, <1>5
<1>7. (CHOOSE g : SensorSum(g, d, S)) = total
  BY <1>6
<1> QED  BY <1>2, <1>7

\* For any windows, devices and restarts, in whatever order envelopes reach
\* their window: a record has the count, the sums and the flags of the readings
\* that it stands for, the route of one of them, and the status and statistics
\* of one of them (AggregationHandler.java:147-204).
THEOREM RecordsTellReadings == Spec => []RecordsMatchReadings
<1>1. Init => TellInv
  <2> SUFFICES ASSUME Init  PROVE TellInv
    OBVIOUS
  <2>1. Records = {} /\ \A d \in Device : win[d] = <<>>
    BY DEF Init, Records
  <2>2. \A d \in Device : LoopTells(View(d, Range(win[d])), win[d])
    BY <2>1, EmptyRange, NothingLoops DEF View
  <2> QED  BY <2>1, <2>2 DEF TellInv, WindowInv, RecordInv
<1>2. TypeOK /\ TellInv => RecordsMatchReadings
  <2> SUFFICES ASSUME TypeOK, TellInv, NEW r \in Records
               PROVE  LET read == {i \in r.of : At(r.dev, i).kind = "reading"} IN
                      /\ r.count = Cardinality(read) /\ r.count > 0
                      /\ r.delta_sum = MapThenSumSet(LAMBDA i : At(r.dev, i).delta, read)
                      /\ r.average = <<MapThenSumSet(LAMBDA i : At(r.dev, i).sensor, read), r.count>>
                      /\ r.is_pirate = \E i \in read : At(r.dev, i).fast
                      /\ r.alarm = \E i \in read : At(r.dev, i).alarm
                      /\ \E i \in read : r.route = At(r.dev, i).route
                      /\ \E i \in read : /\ r.status = At(r.dev, i).status
                                         /\ r.stats = At(r.dev, i).stat
    BY DEF RecordsMatchReadings
  <2> DEFINE d == r.dev
             read == {i \in r.of : At(d, i).kind = "reading"}
             a == View(d, r.of)
             s == SummaryOf(r)
  <2>1. Reads(a) = read /\ \A i \in read : a[i] = At(d, i)
    BY DEF Reads, View
  <2>2. Tells(s, a) /\ r.average = <<r.average[1], r.count>>
        /\ \E m \in Reads(a) : r.status = a[m].status /\ r.stats = a[m].stat
    BY DEF TellInv, RecordInv, RecordTells
  <2>3. /\ s.count = r.count /\ s.route = r.route /\ s.delta = r.delta_sum
        /\ s.sensors = r.average[1] /\ s.is_pirate = r.is_pirate /\ s.alarm = r.alarm
    BY DEF SummaryOf
  <2>4. IsFiniteSet(read) /\ \A i \in read : i \in Nat
    <3>1. PICK k \in Nat : r.of \subseteq 1 .. k
      <4>1. r.dev \in Device /\ r.of \subseteq 1 .. offset[r.dev]
        BY DEF TypeOK
      <4>2. offset[r.dev] \in Nat
        BY <4>1 DEF TypeOK
      <4> QED  BY <4>1, <4>2
    <3>2. IsFiniteSet(1 .. k)
      BY FS_Interval
    <3> QED  BY <3>1, <3>2, FS_Subset
  <2> HIDE DEF read, a, s, d
  <2>5. r.count = Cardinality(read) /\ r.count > 0
    <3>1. r.count = Cardinality(read) /\ r.count \in Nat
      BY <2>1, <2>2, <2>3 DEF Tells
    <3>2. read # {}
      BY <2>1, <2>2
    <3> QED  BY <2>4, <3>1, <3>2, FS_EmptySet
  <2>6. r.delta_sum = MapThenSumSet(LAMBDA i : At(d, i).delta, read)
    <3>1. [i \in Reads(a) |-> a[i].delta] = [i \in read |-> At(d, i).delta]
      BY <2>1
    <3>2. SumsTo([i \in read |-> At(d, i).delta], r.delta_sum)
      BY <2>2, <2>3, <3>1 DEF Tells
    <3>3. MapThenSumSet(LAMBDA i : At(d, i).delta, read) = (CHOOSE g : DeltaSum(g, d, read))[read]
      BY DEF MapThenSumSet, MapThenFoldSet, DeltaSum, Some
    <3> QED  BY <2>4, <3>2, <3>3, DeltaIsSum
  <2>7. r.average[1] = MapThenSumSet(LAMBDA i : At(d, i).sensor, read)
    <3>1. [i \in Reads(a) |-> a[i].sensor] = [i \in read |-> At(d, i).sensor]
      BY <2>1
    <3>2. SumsTo([i \in read |-> At(d, i).sensor], r.average[1])
      BY <2>2, <2>3, <3>1 DEF Tells
    <3>3. MapThenSumSet(LAMBDA i : At(d, i).sensor, read) = (CHOOSE g : SensorSum(g, d, read))[read]
      BY DEF MapThenSumSet, MapThenFoldSet, SensorSum, Some
    <3> QED  BY <2>4, <3>2, <3>3, SensorIsSum
  <2>8. r.average = <<MapThenSumSet(LAMBDA i : At(d, i).sensor, read), r.count>>
    BY <2>2, <2>7
  <2>9. r.is_pirate = \E i \in read : At(d, i).fast
    <3>1. r.is_pirate = \E i \in Reads(a) : a[i].fast
      BY <2>2, <2>3, Zenon DEF Tells
    <3>2. (\E i \in Reads(a) : a[i].fast) <=> \E i \in read : At(d, i).fast
      BY <2>1
    <3> QED  BY <3>1, <3>2
  <2>10. r.alarm = \E i \in read : At(d, i).alarm
    <3>1. r.alarm = \E i \in Reads(a) : a[i].alarm
      BY <2>2, <2>3, Zenon DEF Tells
    <3>2. (\E i \in Reads(a) : a[i].alarm) <=> \E i \in read : At(d, i).alarm
      BY <2>1
    <3> QED  BY <3>1, <3>2
  <2>11. \E i \in read : r.route = At(d, i).route
    <3>1. Reads(a) # {}
      BY <2>2
    <3>2. \E m \in Reads(a) : s.route = a[m].route
      BY <2>2, <3>1 DEF Tells
    <3> QED  BY <2>1, <2>3, <3>2
  <2>12. \E i \in read : r.status = At(d, i).status /\ r.stats = At(d, i).stat
    BY <2>1, <2>2
  <2> QED  BY <2>5, <2>6, <2>8, <2>9, <2>10, <2>11, <2>12 DEF read, d
<1>3. CountInv => TypeOK
  BY DEF CountInv
<1> QED  BY CountInvHolds, <1>1, <1>2, <1>3, TellStep, PTL DEF Spec

===============================================================================
