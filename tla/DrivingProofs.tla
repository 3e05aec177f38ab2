---------------------------- MODULE DrivingProofs ----------------------------
(***************************************************************************)
(* What holds of a device's reports for any streets, speeds, distances,    *)
(* channel capacity and bounds: types, that routes connect, that no honest *)
(* device is flagged as a pirate as long as the router's speeds are at     *)
(* most 333 km/h, that a route's payloads report all of its distance, and  *)
(* that a payload's statistics are of the positions it stands for.         *)
(***************************************************************************)
EXTENDS Driving, SumLemmas, TLAPS

\* What the assumption says of each constant.
LEMMA Bounds == /\ Buffer \in Nat /\ MaxLegs \in Nat /\ MaxRoutes \in Nat
                /\ Distance \subseteq Nat /\ Steps \subseteq Nat \ {0}
                /\ Variation \subseteq 97 .. 103 /\ None \notin Street
                /\ \A b \in BaseSpeed : b \in Nat \ {0}
BY DrivingAssumption DEF None

\* Products of naturals are naturals.
LEMMA ProductIsNat == \A m, n \in Nat : m * n \in Nat
OBVIOUS

\* A base speed after a stop's compensation is a natural.
LEMMA SlowedIsNat ==
    ASSUME comp \in 1 .. 3, NEW b \in BaseSpeed
    PROVE  Slowed(b) \in Nat /\ Slowed(b) <= b
<1>1. b \in Nat
  BY Bounds
<1>2. comp = 1 \/ comp = 2 \/ comp = 3
  OBVIOUS
<1>3. b \div 1 \in Nat /\ b \div 2 \in Nat /\ b \div 3 \in Nat
  BY <1>1
<1>4. b \div 1 <= b /\ b \div 2 <= b /\ b \div 3 <= b
  BY <1>1
<1> QED  BY <1>2, <1>3, <1>4 DEF Slowed

\* So is the speed driven.
LEMMA SpeedIsNat ==
    ASSUME comp \in 1 .. 3, NEW b \in BaseSpeed, NEW v \in Variation
    PROVE  CurrentSpeed(b, v) \in Nat /\ SpeedLimit(b) \in Nat
<1>1. Slowed(b) \in Nat /\ v \in Nat
  BY SlowedIsNat, Bounds
<1>2. Slowed(b) * v \in Nat
  BY <1>1, ProductIsNat
<1>3. Slowed(b) * v * 14 \in Nat /\ Slowed(b) * v * 10 \in Nat /\ Slowed(b) * 1000 \in Nat
  BY <1>1, <1>2
<1> QED  BY <1>3 DEF CurrentSpeed, SpeedLimit, Kmh

\* The status of a leg is one of driving.
LEMMA StatusIsDrive == \A s, l : StatusOf(s, l) \in DriveStatus
BY DEF StatusOf, DriveStatus

\* The bounds of two naturals are naturals.
LEMMA LeastAndMost == \A m, n \in Nat : Min({m, n}) \in Nat /\ Max({m, n}) \in Nat
<1> SUFFICES ASSUME NEW m \in Nat, NEW n \in Nat
             PROVE  Min({m, n}) \in Nat /\ Max({m, n}) \in Nat
  OBVIOUS
<1>1. \E x \in {m, n} : \A y \in {m, n} : x <= y
  <2>1. CASE m <= n
    BY <2>1
  <2>2. CASE n <= m
    BY <2>2
  <2> QED  BY <2>1, <2>2
<1>2. \E x \in {m, n} : \A y \in {m, n} : x >= y
  <2>1. CASE m >= n
    BY <2>1
  <2>2. CASE n >= m
    BY <2>2
  <2> QED  BY <2>1, <2>2
<1>3. Min({m, n}) \in {m, n}
  BY <1>1 DEF Min
<1>4. Max({m, n}) \in {m, n}
  BY <1>2 DEF Max
<1> QED  BY <1>3, <1>4

\* Adding a sample gives statistics of one sample more.
LEMMA AddKeepsType ==
    ASSUME NEW s \in Stat, NEW v \in Nat
    PROVE  Add(s, v) \in Stat /\ Add(s, v).count = s.count + 1
<1>1. s.total \in Nat /\ s.min \in Nat /\ s.max \in Nat /\ s.count \in Nat
  BY DEF Stat
<1>2. Min({s.min, v}) \in Nat /\ Max({s.max, v}) \in Nat
  BY <1>1, LeastAndMost
<1>3. s.total + v \in Nat /\ s.count + 1 \in Nat
  BY <1>1
<1>4. CASE s.count = 0
  BY <1>4 DEF Add, Stat
<1>5. CASE s.count # 0
  BY <1>1, <1>2, <1>3, <1>5 DEF Add, Stat
<1> QED  BY <1>4, <1>5

------------------------------------------------------------------------------
\* Positions are sent on a route only.
OnRoute == routes = 0 => sim = "off" /\ chan = <<>> /\ payload.status = None

Connected ==
    /\ routes > 0 => lastEnd = trip[2] /\ lastEnd # None
    /\ payload.status # None =>
        /\ payload.route = routes => payload.trip = trip
        /\ payload.route = routes - 1 => payload.trip[2] = trip[1]

TypeInv == TypeOK /\ window \in Seq(Nat) /\ OnRoute /\ Connected

\* The types hold at the start.
LEMMA TypeInit == Init => TypeInv
<1> SUFFICES ASSUME Init  PROVE TypeInv
  OBVIOUS
<1>1. chan = <<>> /\ window = <<>> /\ Len(chan) = 0 /\ Len(window) = 0
      /\ chan \in Seq(Position) /\ window \in Seq(Nat)
  BY DEF Init
<1>2. leg \in Position /\ stat \in Stat /\ stat.count = 0
  BY DEF Init, Parked, NewStat, Position, Stat, AnyStatus, DriveStatus
<1>3. payload.status = None
  BY DEF Init
<1> QED  BY <1>1, <1>2, <1>3, Bounds DEF Init, TypeInv, TypeOK, OnRoute, Connected

\* What a step of the goroutine leaves alone.
LEMMA GoroutineKeeps ==
    ASSUME TypeInv, UNCHANGED <<pirate, route, routes, loop>>, routes > 0,
           sim' \in {"off", "between", "stopped", "driving"}, legs' \in 0 .. MaxLegs,
           comp' \in 1 .. 3, leg' \in Position, left' \in Nat, left' > 0 <=> sim' = "driving",
           lastSpeed' \in Nat, owed' \in Nat, chan' \in Seq(Position), Len(chan') <= Buffer
    PROVE  TypeInv'
<1>1. UNCHANGED <<pirate, lastEnd, trip, routes, lastStatus, delta, stat, payload, window, reported>>
  BY DEF route, loop
<1>2. TypeOK'
  BY <1>1 DEF TypeInv, TypeOK
<1>3. routes' # 0
  BY <1>1 DEF TypeInv, TypeOK
<1> QED  BY <1>1, <1>2, <1>3 DEF TypeInv, OnRoute, Connected

\* Sending a position keeps the channel a bounded sequence of positions.
LEMMA SendKeeps ==
    ASSUME TypeInv, NEW p \in Position, Send(p)
    PROVE  chan' \in Seq(Position) /\ Len(chan') <= Buffer
<1>1. chan \in Seq(Position) /\ Len(chan) \in Nat /\ Len(chan) < Buffer /\ Buffer \in Nat
  BY Bounds DEF TypeInv, TypeOK, Send
<1>2. chan' = Append(chan, p)
  BY DEF Send
<1>3. Append(chan, p) \in Seq(Position) /\ Len(Append(chan, p)) = Len(chan) + 1
  BY <1>1
<1> QED  BY <1>1, <1>2, <1>3

\* Every step keeps the types.
LEMMA TypeStep == TypeInv /\ [Next]_vars => TypeInv'
<1> SUFFICES ASSUME TypeInv, [Next]_vars  PROVE TypeInv'
  OBVIOUS
<1>t. TypeOK
  BY DEF TypeInv
<1>r. routes \in Nat /\ (sim # "off" \/ chan # <<>> => routes > 0)
  BY <1>t, Bounds DEF TypeInv, OnRoute, TypeOK
<1>1. CASE NewRoute
  <2>1. PICK way \in Ways, start \in Reply, end \in Reply, path \in Reply :
          LET found == NewDrivingSimulator(start, end, path) IN
          /\ lastEnd' = NextEnd(way, found)
          /\ IF found
             THEN /\ trip' = way
                  /\ routes' = routes + 1
                  /\ sim' \in {"between", "off"}
                  /\ legs' = 0 /\ comp' = 1 /\ leg' = Parked /\ left' = 0 /\ lastSpeed' = 0
                  /\ owed' = 0 /\ reported' = 0
             ELSE UNCHANGED <<trip, driver, reported>>
    BY <1>1 DEF NewRoute
  <2>2. /\ UNCHANGED <<pirate, chan, lastStatus, delta, stat, payload, window>>
        /\ sim = "off" /\ chan = <<>> /\ routes < MaxRoutes
    BY <1>1 DEF NewRoute
  <2> DEFINE found == NewDrivingSimulator(start, end, path)
  <2>3. CASE ~found
    <3>1. UNCHANGED vars
      BY <2>1, <2>2, <2>3 DEF NextEnd, driver, loop, route, vars
    <3> QED  BY <3>1 DEF TypeInv, TypeOK, OnRoute, Connected, vars, driver, loop, route
  <2>4. CASE found
    <3>1. /\ lastEnd' = way[2] /\ trip' = way /\ routes' = routes + 1 /\ sim' \in {"between", "off"}
          /\ legs' = 0 /\ comp' = 1 /\ leg' = Parked /\ left' = 0 /\ lastSpeed' = 0
          /\ owed' = 0 /\ reported' = 0
      BY <2>1, <2>4 DEF NextEnd
    <3>2. /\ way \in (Street \cup {None}) \X (Street \cup {None}) /\ way[2] \in Street
          /\ lastEnd # None => way[1] = lastEnd
      BY <1>t DEF Ways, TypeOK
    <3>3. routes' \in 1 .. MaxRoutes /\ \A k \in 1 .. routes : k \in 1 .. routes'
      BY <1>r, <2>2, <3>1, Bounds
    <3>4. Parked \in Position
      BY DEF Parked, Position, AnyStatus, DriveStatus
    <3>5. MaxLegs \in Nat /\ 0 \in 0 .. MaxLegs
      BY Bounds
    <3>6. TypeOK'
      BY <1>t, <2>2, <3>1, <3>2, <3>3, <3>4, <3>5 DEF TypeOK
    <3>7. routes' # 0 /\ routes' - 1 = routes
      BY <1>r, <3>1
    <3>8. payload.status # None => payload.route \in Nat /\ payload.route <= routes /\ routes > 0
      BY <1>t, <1>r DEF TypeOK
    <3>9. lastEnd' # None
      BY <3>1, <3>2, Bounds
    <3>10. Connected'
      <4>1. payload.status # None /\ payload.route = routes => payload.trip[2] = way[1]
        BY <3>2, <3>8 DEF TypeInv, Connected
      <4>2. payload.status # None => payload.route # routes'
        BY <1>r, <3>1, <3>8
      <4> QED  BY <2>2, <3>1, <3>7, <3>9, <4>1, <4>2 DEF Connected
    <3> QED  BY <2>2, <3>6, <3>7, <3>10 DEF TypeInv, OnRoute
  <2> QED  BY <2>3, <2>4
<1>2. CASE Stop
  <2> DEFINE p == [leg EXCEPT !.status = "stopped", !.speed = 0, !.distance = 0]
  <2>1. p \in Position
    BY <1>t DEF TypeOK, Position, AnyStatus
  <2>2. Send(p) /\ sim = "between" /\ sim' = "stopped" /\ comp' = 3 /\ lastSpeed' = 0
        /\ UNCHANGED <<pirate, route, routes, legs, leg, left, owed, loop>>
    BY <1>2 DEF Stop
  <2> HIDE DEF p
  <2>3. chan' \in Seq(Position) /\ Len(chan') <= Buffer
    BY <2>1, <2>2, SendKeeps
  <2> QED  BY <1>t, <1>r, <2>2, <2>3, GoroutineKeeps DEF TypeOK
<1>3. ASSUME NEW b \in BaseSpeed, NEW v \in Variation, NEW d \in Distance, NEW n \in Steps, Drive(b, v, d, n)
      PROVE  TypeInv'
  <2> DEFINE speed == CurrentSpeed(b, v)
  <2>1. speed \in Nat /\ SpeedLimit(b) \in Nat
    BY <1>t, SpeedIsNat DEF TypeOK
  <2>2. /\ sim \in {"between", "stopped"} /\ legs < MaxLegs /\ sim' = "driving" /\ legs' = legs + 1
        /\ leg' = [status |-> StatusOf(speed, lastSpeed), speed |-> speed,
                   limit |-> SpeedLimit(b), distance |-> d]
        /\ left' = n + 1 /\ comp' = Max({comp - 1, 1}) /\ lastSpeed' = speed
        /\ owed' = owed + (n + 1) * d
        /\ UNCHANGED <<pirate, route, routes, chan, loop>>
    BY <1>3 DEF Drive
  <2> HIDE DEF speed
  <2>3. leg' \in Position
    BY <2>1, <2>2, StatusIsDrive, Bounds DEF Position, AnyStatus
  <2>4. n \in Nat \ {0} /\ d \in Nat /\ legs \in Nat /\ owed \in Nat /\ comp \in 1 .. 3
    BY <1>t, Bounds DEF TypeOK
  <2>5. left' \in Nat /\ left' > 0 /\ legs' \in 0 .. MaxLegs
    BY <2>2, <2>4, Bounds
  <2>6. owed' \in Nat
    BY <2>2, <2>4, ProductIsNat
  <2>7. comp' \in 1 .. 3
    <3>1. comp = 1 \/ comp = 2 \/ comp = 3
      BY <2>4
    <3>2. \A k \in {0, 1, 2} : Max({k, 1}) \in 1 .. 3
      <4>1. ASSUME NEW k \in {0, 1, 2}
            PROVE  \E x \in {k, 1} : \A y \in {k, 1} : x >= y
        BY <4>1
      <4>2. ASSUME NEW k \in {0, 1, 2}
            PROVE  Max({k, 1}) \in {k, 1} /\ Max({k, 1}) >= 1
        BY <4>1 DEF Max
      <4> QED  BY <4>2
    <3>3. comp - 1 \in {0, 1, 2}
      BY <3>1
    <3> QED  BY <2>2, <3>2, <3>3
  <2>8. chan' \in Seq(Position) /\ Len(chan') <= Buffer
    BY <1>t, <2>2 DEF TypeOK
  <2> QED  BY <1>r, <2>1, <2>2, <2>3, <2>5, <2>6, <2>7, <2>8, GoroutineKeeps
<1>4. CASE SendStep
  <2>1. Send(leg) /\ sim = "driving" /\ left' = left - 1
        /\ sim' = (IF left = 1 THEN "between" ELSE "driving")
        /\ UNCHANGED <<pirate, route, routes, legs, comp, leg, lastSpeed, owed, loop>>
    BY <1>4 DEF SendStep
  <2>2. chan' \in Seq(Position) /\ Len(chan') <= Buffer
    BY <1>t, <2>1, SendKeeps DEF TypeOK
  <2>3. left' \in Nat /\ (left' > 0 <=> sim' = "driving")
    <3>1. PICK k \in Nat : k = left /\ k > 0
      BY <1>t, <2>1 DEF TypeOK
    <3> QED  BY <2>1, <3>1
  <2>4. sim' \in {"between", "driving"}
    BY <2>1
  <2> QED  BY <1>t, <1>r, <2>1, <2>2, <2>3, <2>4, GoroutineKeeps DEF TypeOK
<1>5. CASE Arrive
  <2> DEFINE p == [leg EXCEPT !.status = "arrived", !.speed = 0, !.distance = 0]
  <2>1. p \in Position
    BY <1>t DEF TypeOK, Position, AnyStatus
  <2>2. Send(p) /\ sim = "between" /\ sim' = "off"
        /\ UNCHANGED <<pirate, route, routes, legs, comp, leg, left, lastSpeed, owed, loop>>
    BY <1>5 DEF Arrive
  <2> HIDE DEF p
  <2>3. chan' \in Seq(Position) /\ Len(chan') <= Buffer
    BY <2>1, <2>2, SendKeeps
  <2> QED  BY <1>t, <1>r, <2>2, <2>3, GoroutineKeeps DEF TypeOK
<1>6. ASSUME NEW due \in BOOLEAN, Take(due)
      PROVE  TypeInv'
  <2> DEFINE p == Head(chan)  dist == delta + p.distance  s == Add(stat, p.speed)
  <2>1. chan \in Seq(Position) /\ chan # <<>> /\ chan' = Tail(chan) /\ Len(chan) <= Buffer
    BY <1>t, <1>6 DEF TypeOK, Take
  <2>2. p \in Position /\ chan' \in Seq(Position) /\ Len(chan') <= Buffer
    BY <2>1, Bounds
  <2>3. p.speed \in Nat /\ p.distance \in Nat /\ p.status \in AnyStatus /\ p.status # None
    BY <2>2 DEF Position, AnyStatus, DriveStatus, None
  <2>4. s \in Stat /\ s.count = stat.count + 1
    BY <1>t, <2>3, AddKeepsType DEF TypeOK
  <2>5. dist \in Nat /\ reported + dist \in Nat
    <3>1. delta \in Nat /\ reported \in Nat
      BY <1>t DEF TypeOK
    <3> QED  BY <2>3, <3>1
  <2>6. UNCHANGED <<pirate, lastEnd, trip, sim, routes, legs, comp, leg, left, lastSpeed, owed>>
    BY <1>6 DEF Take, route, driver
  <2>7. routes > 0 /\ routes \in 1 .. routes
    BY <1>r, <2>1
  <2>8. CASE Due(p, due)
    <3>1. /\ lastStatus' = p.status
          /\ payload' = [route |-> routes, trip |-> trip, status |-> p.status,
                         speed |-> p.speed, limit |-> p.limit, delta |-> dist,
                         stats |-> s, of |-> Append(window, p.speed)]
          /\ delta' = 0 /\ stat' = Reset(s) /\ window' = <<>> /\ reported' = reported + dist
      BY <1>6, <2>8 DEF Take
    <3> HIDE DEF p, dist, s
    <3>2. /\ payload'.route = routes /\ payload'.trip = trip /\ payload'.status = p.status
          /\ payload'.delta = dist /\ payload'.stats = s
      BY <3>1
    <3>3. stat' \in Stat /\ stat'.count = 0 /\ window' \in Seq(Nat) /\ Len(window') = 0
      BY <3>1 DEF Reset, NewStat, Stat
    <3>4. TypeOK'
      BY <1>t, <2>2, <2>3, <2>4, <2>5, <2>6, <2>7, <3>1, <3>2, <3>3 DEF TypeOK
    <3>5. routes' # routes' - 1 /\ routes' # 0
      BY <1>r, <2>6, <2>7
    <3>6. Connected' /\ OnRoute'
      BY <2>6, <2>7, <3>2, <3>5 DEF TypeInv, Connected, OnRoute
    <3> QED  BY <3>3, <3>4, <3>6 DEF TypeInv
  <2>9. CASE ~Due(p, due)
    <3>1. /\ delta' = dist /\ stat' = s /\ window' = Append(window, p.speed)
          /\ UNCHANGED <<lastStatus, payload, reported>>
      BY <1>6, <2>9 DEF Take
    <3> HIDE DEF p, dist, s
    <3>2. window \in Seq(Nat)
      BY DEF TypeInv
    <3>3. window' \in Seq(Nat) /\ Len(window') = Len(window) + 1
      BY <2>3, <3>1, <3>2
    <3>4. stat' \in Stat /\ stat'.count = Len(window')
      BY <1>t, <2>4, <3>1, <3>3 DEF TypeOK
    <3>5. TypeOK'
      BY <1>t, <2>2, <2>5, <2>6, <3>1, <3>4 DEF TypeOK
    <3>6. Connected' /\ OnRoute'
      BY <1>r, <2>6, <2>7, <3>1 DEF TypeInv, Connected, OnRoute
    <3> QED  BY <3>3, <3>5, <3>6 DEF TypeInv
  <2> QED  BY <2>8, <2>9
<1>7. CASE UNCHANGED vars
  BY <1>7 DEF TypeInv, TypeOK, OnRoute, Connected, vars, driver, loop, route
<1> QED
  BY <1>1, <1>2, <1>3, <1>4, <1>5, <1>6, <1>7 DEF Next

\* The types, and where the routes begin and end, are inductive together.
THEOREM TypeInvHolds == Spec => []TypeInv
BY TypeInit, TypeStep, PTL DEF Spec

\* Type correctness of a device's reports.
THEOREM TypeCorrect == Spec => []TypeOK
<1>1. TypeInv => TypeOK
  BY DEF TypeInv
<1> QED  BY TypeInvHolds, <1>1, PTL

\* What Take sends is of the route that is driven and of the position it took.
LEMMA TakeIsReported ==
    ASSUME TypeInv, NEW due \in BOOLEAN, Take(due)
    PROVE  /\ chan # <<>> /\ routes > 0 /\ UNCHANGED <<pirate, routes, trip>>
           /\ \/ UNCHANGED payload
              \/ /\ payload'.route = routes /\ payload'.trip = trip
                 /\ payload'.status = Head(chan).status /\ payload'.speed = Head(chan).speed
                 /\ payload'.limit = Head(chan).limit
<1>1. chan # <<>> /\ UNCHANGED <<pirate, routes, trip>>
  BY DEF Take, route, driver
<1>2. routes > 0
  BY <1>1, Bounds DEF TypeInv, TypeOK, OnRoute
<1> QED  BY <1>1, <1>2 DEF Take

\* Only Take enqueues a payload.
LEMMA PayloadsAreTaken ==
    ASSUME [Next]_vars  PROVE UNCHANGED payload \/ \E due \in BOOLEAN : Take(due)
BY DEF Next, NewRoute, Stop, Drive, SendStep, Arrive, vars, loop

\* For any streets and look-ups that fail: of two routes that are reported one
\* after the other, the second begins where the first ended (firmware.go:129-136).
THEOREM RoutesAreConnected == Spec => RoutesConnect
<1>1. ASSUME TypeInv, [Next]_vars
      PROVE  [payload.status # None /\ payload'.route = payload.route + 1 =>
                payload'.trip[1] = payload.trip[2]]_payload
  <2>1. SUFFICES ASSUME payload' # payload, payload.status # None, payload'.route = payload.route + 1
                 PROVE  payload'.trip[1] = payload.trip[2]
    OBVIOUS
  <2>2. PICK due \in BOOLEAN : Take(due)
    BY <1>1, <2>1, PayloadsAreTaken
  <2>3. payload'.route = routes /\ payload'.trip = trip
    BY <1>1, <2>1, <2>2, TakeIsReported
  <2>4. payload.route \in Nat /\ routes \in Nat
    BY <1>1, <2>1, Bounds DEF TypeInv, TypeOK
  <2>5. payload.route = routes - 1
    BY <2>1, <2>3, <2>4
  <2> QED  BY <1>1, <2>1, <2>3, <2>5 DEF TypeInv, Connected
<1> QED  BY TypeInvHolds, <1>1, PTL DEF Spec, RoutesConnect

------------------------------------------------------------------------------
\* What FlaggedIsPirate says of a payload, of a position.
Fair(p) ==
    /\ Flagged(p) => pirate
    /\ pirate /\ p.status \in DriveStatus /\ p.limit >= 28 * Kmh => Flagged(p)

FlagInv ==
    /\ \A i \in 1 .. Len(chan) : Fair(chan[i])
    /\ sim = "driving" => Fair(leg)
    /\ payload.status # None => Fair(payload)

\* A position that stands still is not flagged.
LEMMA Standing ==
    ASSUME TypeOK, NEW p, p.speed = 0, p.status \in {"stopped", "arrived"}, p.limit \in Nat
    PROVE  Fair(p)
<1>1. ~(0 > p.limit + 10 * 1000)
  OBVIOUS
<1> QED  BY <1>1 DEF Fair, Flagged, Kmh, DriveStatus

\* A speed within 3% of a limit of at most 333 km/h, and one 1.4 times that.
LEMMA Percent ==
    ASSUME NEW s \in Nat, NEW v \in 97 .. 103
    PROVE  /\ s <= 333 => s * v * 10 <= s * 1000 + 10 * 1000
           /\ s * 1000 >= 28 * 1000 => s * v * 14 > s * 1000 + 10 * 1000
<1>1. CASE v = 97
  BY <1>1
<1>2. CASE v = 98
  BY <1>2
<1>3. CASE v = 99
  BY <1>3
<1>4. CASE v = 100
  BY <1>4
<1>5. CASE v = 101
  BY <1>5
<1>6. CASE v = 102
  BY <1>6
<1>7. CASE v = 103
  BY <1>7
<1> QED  BY <1>1, <1>2, <1>3, <1>4, <1>5, <1>6, <1>7

\* A position driven by an honest device is within the limit's margin; a
\* pirate's is beyond it where the limit is high enough.
LEMMA DrivenIsFair ==
    ASSUME TypeOK, \A b \in BaseSpeed : b <= 333,
           NEW b \in BaseSpeed, NEW v \in Variation, NEW p,
           p.speed = CurrentSpeed(b, v), p.limit = SpeedLimit(b)
    PROVE  Fair(p)
<1>1. Slowed(b) \in Nat /\ Slowed(b) <= 333
  <2>1. b \in Nat /\ b <= 333 /\ Slowed(b) \in Nat /\ Slowed(b) <= b
    BY SlowedIsNat, Bounds DEF TypeOK
  <2> QED  BY <2>1
<1>2. v \in 97 .. 103
  BY Bounds
<1>3. /\ Slowed(b) * v * 10 <= Slowed(b) * 1000 + 10 * 1000
      /\ Slowed(b) * 1000 >= 28 * 1000 => Slowed(b) * v * 14 > Slowed(b) * 1000 + 10 * 1000
  BY <1>1, <1>2, Percent
<1>4. p.limit = Slowed(b) * 1000
  BY DEF SpeedLimit, Kmh
<1>5. Slowed(b) * v \in Nat
  BY <1>1, <1>2, ProductIsNat
<1>6. CASE pirate
  <2>1. p.speed = Slowed(b) * v * 14
    BY <1>6 DEF CurrentSpeed
  <2> QED  BY <1>3, <1>4, <1>6, <2>1 DEF Fair, Flagged, Kmh
<1>7. CASE ~pirate
  <2>1. p.speed = Slowed(b) * v * 10
    BY <1>7 DEF CurrentSpeed
  <2>2. ~(p.speed > p.limit + 10 * 1000)
    <3>1. PICK x \in Nat : x = Slowed(b) * v
      BY <1>5
    <3>2. PICK y \in Nat : y = Slowed(b)
      BY <1>1
    <3>3. x * 10 <= y * 1000 + 10 * 1000
      BY <1>3, <3>1, <3>2
    <3>4. p.speed = x * 10 /\ p.limit = y * 1000
      BY <1>4, <2>1, <3>1, <3>2
    <3> QED  BY <3>3, <3>4
  <2> QED  BY <1>7, <2>2 DEF Fair, Flagged, Kmh
<1> QED  BY <1>6, <1>7

\* Sending a fair position leaves fair ones in the channel.
LEMMA SendIsFair ==
    ASSUME TypeOK, FlagInv, NEW p \in Position, Fair(p), Send(p), UNCHANGED <<pirate, payload>>,
           sim' = "driving" => Fair(leg)'
    PROVE  FlagInv'
<1>1. chan \in Seq(Position) /\ chan' = Append(chan, p)
  BY DEF TypeOK, Send
<1>2. \A i \in 1 .. Len(chan') : chan'[i] = p \/ (i \in 1 .. Len(chan) /\ chan'[i] = chan[i])
  BY <1>1
<1>3. \A q : Fair(q)' <=> Fair(q)
  BY DEF Fair, Flagged
<1>4. \A i \in 1 .. Len(chan') : Fair(chan[i])'
  BY <1>2 DEF FlagInv, Fair, Flagged
<1> QED  BY <1>4 DEF FlagInv, Fair, Flagged

\* Every step keeps all positions on their way, and the last payload, fair.
LEMMA FlagStep ==
    (\A b \in BaseSpeed : b <= 333) /\ TypeInv /\ FlagInv /\ [Next]_vars => FlagInv'
<1> SUFFICES ASSUME \A b \in BaseSpeed : b <= 333, TypeInv, FlagInv, [Next]_vars  PROVE FlagInv'
  OBVIOUS
<1>t. TypeOK
  BY DEF TypeInv
<1>1. CASE NewRoute
  <2>1. UNCHANGED <<pirate, chan, payload>> /\ (sim' = "driving" => sim = "driving" /\ leg' = leg)
    BY <1>1 DEF NewRoute, driver
  <2> QED  BY <2>1 DEF FlagInv, Fair, Flagged
<1>2. CASE Stop
  <2> DEFINE p == [leg EXCEPT !.status = "stopped", !.speed = 0, !.distance = 0]
  <2>1. p \in Position /\ p.speed = 0 /\ p.status = "stopped" /\ p.limit \in Nat
    BY <1>t DEF TypeOK, Position, AnyStatus
  <2>2. Send(p) /\ sim' = "stopped" /\ UNCHANGED <<pirate, payload>>
    BY <1>2 DEF Stop, loop
  <2> HIDE DEF p
  <2>3. Fair(p)
    BY <1>t, <2>1, Standing
  <2> QED  BY <1>t, <2>1, <2>2, <2>3, SendIsFair
<1>3. ASSUME NEW b \in BaseSpeed, NEW v \in Variation, NEW d \in Distance, NEW n \in Steps, Drive(b, v, d, n)
      PROVE  FlagInv'
  <2> DEFINE p == [status |-> StatusOf(CurrentSpeed(b, v), lastSpeed), speed |-> CurrentSpeed(b, v),
                   limit |-> SpeedLimit(b), distance |-> d]
  <2>1. leg' = p /\ UNCHANGED <<pirate, chan, payload>>
    BY <1>3 DEF Drive, loop
  <2>2. p.speed = CurrentSpeed(b, v) /\ p.limit = SpeedLimit(b)
    OBVIOUS
  <2> HIDE DEF p
  <2>3. Fair(p)
    BY <1>t, <2>2, DrivenIsFair
  <2> QED  BY <2>1, <2>3 DEF FlagInv, Fair, Flagged
<1>4. CASE SendStep
  <2>1. Send(leg) /\ sim = "driving" /\ UNCHANGED <<pirate, payload, leg>>
    BY <1>4 DEF SendStep, loop
  <2>2. Fair(leg) /\ leg \in Position
    BY <1>t, <2>1 DEF FlagInv, TypeOK
  <2>3. Fair(leg)'
    BY <2>1, <2>2 DEF Fair, Flagged
  <2> QED  BY <1>t, <2>1, <2>2, <2>3, SendIsFair
<1>5. CASE Arrive
  <2> DEFINE p == [leg EXCEPT !.status = "arrived", !.speed = 0, !.distance = 0]
  <2>1. p \in Position /\ p.speed = 0 /\ p.status = "arrived" /\ p.limit \in Nat
    BY <1>t DEF TypeOK, Position, AnyStatus
  <2>2. Send(p) /\ sim' = "off" /\ UNCHANGED <<pirate, payload>>
    BY <1>5 DEF Arrive, loop
  <2> HIDE DEF p
  <2>3. Fair(p)
    BY <1>t, <2>1, Standing
  <2> QED  BY <1>t, <2>1, <2>2, <2>3, SendIsFair
<1>6. ASSUME NEW due \in BOOLEAN, Take(due)
      PROVE  FlagInv'
  <2>1. /\ chan \in Seq(Position) /\ chan # <<>> /\ chan' = Tail(chan) /\ UNCHANGED <<pirate, sim, leg>>
    BY <1>t, <1>6 DEF TypeOK, Take, driver
  <2>2. \A i \in 1 .. Len(chan') : i + 1 \in 1 .. Len(chan) /\ chan'[i] = chan[i + 1]
    BY <2>1
  <2>3. \A i \in 1 .. Len(chan') : Fair(chan[i])'
    BY <2>1, <2>2 DEF FlagInv, Fair, Flagged
  <2>4. Head(chan) = chan[1] /\ 1 \in 1 .. Len(chan)
    BY <2>1
  <2>5. Fair(Head(chan))
    BY <2>4 DEF FlagInv
  <2>6. payload'.status # None => Fair(payload)'
    <3>1. CASE UNCHANGED payload
      BY <2>1, <3>1 DEF FlagInv, Fair, Flagged
    <3>2. CASE ~UNCHANGED payload
      <4>1. /\ payload'.status = Head(chan).status /\ payload'.speed = Head(chan).speed
            /\ payload'.limit = Head(chan).limit
        BY <1>6, <3>2, TakeIsReported
      <4> QED  BY <2>1, <2>5, <4>1 DEF Fair, Flagged
    <3> QED  BY <3>1, <3>2
  <2> QED  BY <2>1, <2>3, <2>6 DEF FlagInv, Fair, Flagged
<1>7. CASE UNCHANGED vars
  BY <1>7 DEF FlagInv, Fair, Flagged, vars, driver, loop
<1> QED
  BY <1>1, <1>2, <1>3, <1>4, <1>5, <1>6, <1>7 DEF Next

\* For any routes, turns, variations within 3% and look-ups, as long as no
\* segment is faster than 333 km/h: what is flagged is a pirate, and a pirate
\* on the road is flagged unless the limit is below 28 km/h (driving.go:309-323).
THEOREM OnlyPiratesAreFlagged ==
    ASSUME \A b \in BaseSpeed : b <= 333  PROVE Spec => []FlaggedIsPirate
<1>1. Init => FlagInv
  BY DEF Init, FlagInv
<1>2. FlagInv => FlaggedIsPirate
  BY DEF FlagInv, FlaggedIsPirate, Fair
<1>3. TypeInv /\ FlagInv /\ [Next]_vars => FlagInv'
  BY FlagStep
<1> QED  BY TypeInvHolds, <1>1, <1>2, <1>3, PTL DEF Spec

------------------------------------------------------------------------------
(* The route is flushed *)

\* From one total to another by the distances of some positions: f holds the
\* totals between them.
Sums(f, s, from, to) ==
    /\ f \in [0 .. Len(s) -> Nat]
    /\ f[0] = from /\ f[Len(s)] = to
    /\ \A i \in 1 .. Len(s) : f[i] = f[i - 1] + s[i].distance

Adds(s, from, to) == \E f : Sums(f, s, from, to)

\* No positions add nothing.
LEMMA NothingAdds == \A n \in Nat : Adds(<<>>, n, n)
<1> SUFFICES ASSUME NEW n \in Nat  PROVE Adds(<<>>, n, n)
  OBVIOUS
<1>1. Len(<<>>) = 0
  OBVIOUS
<1>2. Sums([i \in 0 .. 0 |-> n], <<>>, n, n)
  BY <1>1 DEF Sums
<1> QED  BY <1>2 DEF Adds

\* With none left, what was added is the total.
LEMMA NothingLeft == \A m, n : Adds(<<>>, m, n) => m = n
BY DEF Adds, Sums

\* A position that is sent adds its distance at the end.
LEMMA AppendAdds ==
    ASSUME NEW s \in Seq(Position), NEW p \in Position, NEW m, NEW n, Adds(s, m, n)
    PROVE  n \in Nat /\ Adds(Append(s, p), m, n + p.distance)
<1>1. PICK f : Sums(f, s, m, n)
  BY DEF Adds
<1>2. PICK k \in Nat : k = Len(s)
  OBVIOUS
<1>3. p.distance \in Nat
  BY DEF Position
<1>4. n \in Nat /\ f \in [0 .. k -> Nat] /\ f[0] = m /\ f[k] = n
      /\ \A i \in 1 .. k : f[i] = f[i - 1] + s[i].distance
  BY <1>1, <1>2 DEF Sums
<1> DEFINE t == Append(s, p)
           g == [i \in 0 .. k + 1 |-> IF i = k + 1 THEN n + p.distance ELSE f[i]]
<1>5. Len(t) = k + 1 /\ t[k + 1] = p /\ \A i \in 1 .. k : t[i] = s[i]
  BY <1>2
<1> HIDE DEF t
<1>6. g \in [0 .. k + 1 -> Nat] /\ g[0] = m /\ g[k + 1] = n + p.distance /\ g[k] = n
  BY <1>2, <1>3, <1>4
<1>7. ASSUME NEW i \in 1 .. k + 1  PROVE g[i] = g[i - 1] + t[i].distance
  <2>1. CASE i = k + 1
    BY <1>2, <1>5, <1>6, <2>1
  <2>2. CASE i # k + 1
    <3>1. i \in 1 .. k /\ i - 1 \in 0 .. k /\ i - 1 # k + 1
      BY <1>2, <2>2
    <3>2. g[i] = f[i] /\ g[i - 1] = f[i - 1]
      BY <1>2, <2>2, <3>1
    <3> QED  BY <1>4, <1>5, <3>1, <3>2
  <2> QED  BY <2>1, <2>2
<1> HIDE DEF g
<1>8. Sums(g, t, m, n + p.distance)
  BY <1>5, <1>6, <1>7 DEF Sums
<1> QED  BY <1>4, <1>8 DEF Adds, t

\* The one that is taken adds its distance at the start.
LEMMA TailAdds ==
    ASSUME NEW s \in Seq(Position), s # <<>>, NEW m, NEW n, Adds(s, m, n)
    PROVE  Adds(Tail(s), m + Head(s).distance, n)
<1>1. PICK f : Sums(f, s, m, n)
  BY DEF Adds
<1>2. PICK k \in Nat : Len(s) = k + 1
  <2>1. Len(s) \in Nat /\ Len(s) # 0
    OBVIOUS
  <2> QED  BY <2>1
<1> DEFINE t == Tail(s)  g == [i \in 0 .. k |-> f[i + 1]]
<1>3. Len(t) = k /\ Head(s) = s[1] /\ \A i \in 1 .. k : t[i] = s[i + 1]
  BY <1>2
<1> HIDE DEF t
<1>4. f \in [0 .. k + 1 -> Nat] /\ f[0] = m /\ f[k + 1] = n
      /\ \A i \in 1 .. k + 1 : f[i] = f[i - 1] + s[i].distance
  BY <1>1, <1>2 DEF Sums
<1>5. g \in [0 .. k -> Nat] /\ g[0] = f[1] /\ g[k] = n
  BY <1>2, <1>4
<1>6. f[1] = m + Head(s).distance
  BY <1>2, <1>3, <1>4
<1>7. ASSUME NEW i \in 1 .. k  PROVE g[i] = g[i - 1] + t[i].distance
  <2>1. i + 1 \in 1 .. k + 1 /\ i - 1 \in 0 .. k /\ i \in 0 .. k /\ (i + 1) - 1 = i /\ (i - 1) + 1 = i
    BY <1>2
  <2>2. f[i + 1] = f[i] + s[i + 1].distance
    BY <1>4, <2>1
  <2>3. g[i] = f[i + 1] /\ g[i - 1] = f[i]
    BY <2>1
  <2> QED  BY <1>3, <2>2, <2>3
<1> HIDE DEF g
<1>8. Sums(g, t, m + Head(s).distance, n)
  BY <1>3, <1>5, <1>6, <1>7 DEF Sums
<1> QED  BY <1>8 DEF Adds, t

\* What was reported, what Loop has added up since, what waits in the channel
\* and what the goroutine is still to send of its leg make up the route.
SumInv ==
    \E sent \in Nat :
        /\ Adds(chan, reported + delta, sent)
        /\ sent + left * leg.distance = owed

\* The arrival is the last position of a route, and differs from the status of
\* the position that Loop takes before it, which is the status last published.
EndInv ==
    /\ leg.status # "arrived"
    /\ \A i \in 1 .. Len(chan) : chan[i].status = "arrived" => sim = "off" /\ i = Len(chan)
    /\ sim = "off" /\ chan # <<>> => chan[Len(chan)].status = "arrived"
    /\ lastStatus = "arrived" =>
        /\ sim = "between" /\ legs > 0 => chan # <<>>
        /\ sim = "off" /\ chan # <<>> => Len(chan) > 1
    /\ sim = "off" /\ chan = <<>> => delta = 0 /\ window = <<>>

\* A position that is sent leaves the sum right, when the leg owes as much less.
LEMMA SendSums ==
    ASSUME TypeInv, SumInv, NEW p \in Position, Send(p), UNCHANGED <<reported, delta, owed>>,
           left' * leg'.distance + p.distance = left * leg.distance,
           left' * leg'.distance \in Nat
    PROVE  SumInv'
<1>1. chan \in Seq(Position) /\ chan' = Append(chan, p) /\ p.distance \in Nat
  BY DEF TypeInv, TypeOK, Send, Position
<1>2. PICK sent \in Nat : Adds(chan, reported + delta, sent) /\ sent + left * leg.distance = owed
  BY DEF SumInv
<1>3. Adds(chan', reported + delta, sent + p.distance)
  BY <1>1, <1>2, AppendAdds
<1>4. PICK x \in Nat : x = left' * leg'.distance
  OBVIOUS
<1>5. (sent + p.distance) + x = owed /\ sent + p.distance \in Nat
  BY <1>1, <1>2, <1>4
<1> QED  BY <1>3, <1>4, <1>5 DEF SumInv

\* Every step keeps the sum.
LEMMA SumStep == TypeInv /\ SumInv /\ EndInv /\ [Next]_vars => SumInv'
<1> SUFFICES ASSUME TypeInv, SumInv, EndInv, [Next]_vars  PROVE SumInv'
  OBVIOUS
<1>t. /\ chan \in Seq(Position) /\ leg \in Position /\ leg.distance \in Nat
      /\ left \in Nat /\ delta \in Nat /\ reported \in Nat /\ owed \in Nat
      /\ sim # "driving" => left = 0
  BY DEF TypeInv, TypeOK, Position
<1>z. \A d \in Nat : 0 * d = 0
  OBVIOUS
<1>1. CASE NewRoute
  <2>1. sim = "off" /\ chan = <<>> /\ UNCHANGED <<chan, delta>>
    BY <1>1 DEF NewRoute
  <2>2. \/ left' = 0 /\ leg' = Parked /\ owed' = 0 /\ reported' = 0
        \/ UNCHANGED <<left, leg, owed, reported>>
    BY <1>1 DEF NewRoute, driver
  <2>3. CASE UNCHANGED <<left, leg, owed, reported>>
    BY <2>1, <2>3 DEF SumInv
  <2>4. CASE left' = 0 /\ leg' = Parked /\ owed' = 0 /\ reported' = 0
    <3>1. delta' = 0 /\ chan' = <<>>
      BY <2>1 DEF EndInv
    <3>2. Adds(chan', 0 + 0, 0)
      BY <3>1, NothingAdds
    <3>3. 0 + left' * leg'.distance = owed'
      BY <2>4, <1>z DEF Parked
    <3> QED  BY <2>4, <3>1, <3>2, <3>3 DEF SumInv
  <2> QED  BY <2>2, <2>3, <2>4
<1>2. CASE Stop
  <2> DEFINE p == [leg EXCEPT !.status = "stopped", !.speed = 0, !.distance = 0]
  <2>1. p \in Position /\ p.distance = 0
    BY <1>t DEF Position, AnyStatus
  <2>2. Send(p) /\ UNCHANGED <<reported, delta, owed, left, leg>> /\ left = 0
    BY <1>2, <1>t DEF Stop, loop
  <2> HIDE DEF p
  <2>3. left' * leg'.distance + p.distance = left * leg.distance /\ left' * leg'.distance \in Nat
    BY <1>t, <1>z, <2>1, <2>2
  <2> QED  BY <2>1, <2>2, <2>3, SendSums
<1>3. ASSUME NEW b \in BaseSpeed, NEW v \in Variation, NEW d \in Distance, NEW n \in Steps, Drive(b, v, d, n)
      PROVE  SumInv'
  <2>1. /\ left' = n + 1 /\ leg'.distance = d /\ owed' = owed + (n + 1) * d
        /\ left = 0 /\ UNCHANGED <<chan, reported, delta>>
    BY <1>3, <1>t DEF Drive, loop
  <2>2. PICK sent \in Nat : Adds(chan, reported + delta, sent) /\ sent + left * leg.distance = owed
    BY DEF SumInv
  <2>3. sent = owed
    BY <1>t, <1>z, <2>1, <2>2
  <2>4. sent + left' * leg'.distance = owed'
    BY <2>1, <2>3
  <2> QED  BY <2>1, <2>2, <2>4 DEF SumInv
<1>4. CASE SendStep
  <2>1. Send(leg) /\ left > 0 /\ left' = left - 1 /\ UNCHANGED <<leg, reported, delta, owed>>
    BY <1>4 DEF SendStep, loop, TypeInv, TypeOK
  <2>2. \A k, d \in Nat : k > 0 => (k - 1) * d \in Nat /\ (k - 1) * d + d = k * d
    OBVIOUS
  <2>3. left' * leg'.distance + leg.distance = left * leg.distance /\ left' * leg'.distance \in Nat
    BY <1>t, <2>1, <2>2
  <2> QED  BY <1>t, <2>1, <2>3, SendSums
<1>5. CASE Arrive
  <2> DEFINE p == [leg EXCEPT !.status = "arrived", !.speed = 0, !.distance = 0]
  <2>1. p \in Position /\ p.distance = 0
    BY <1>t DEF Position, AnyStatus
  <2>2. Send(p) /\ UNCHANGED <<reported, delta, owed, left, leg>> /\ left = 0
    BY <1>5, <1>t DEF Arrive, loop
  <2> HIDE DEF p
  <2>3. left' * leg'.distance + p.distance = left * leg.distance /\ left' * leg'.distance \in Nat
    BY <1>t, <1>z, <2>1, <2>2
  <2> QED  BY <2>1, <2>2, <2>3, SendSums
<1>6. ASSUME NEW due \in BOOLEAN, Take(due)
      PROVE  SumInv'
  <2>1. chan # <<>> /\ chan' = Tail(chan) /\ UNCHANGED <<left, leg, owed>>
    BY <1>6 DEF Take, driver
  <2>2. \/ delta' = 0 /\ reported' = reported + (delta + Head(chan).distance)
        \/ delta' = delta + Head(chan).distance /\ reported' = reported
    BY <1>6 DEF Take
  <2>3. Head(chan) \in Position /\ Head(chan).distance \in Nat
    <3>1. Head(chan) \in Position
      BY <1>t, <2>1
    <3> QED  BY <3>1 DEF Position
  <2>4. reported' + delta' = (reported + delta) + Head(chan).distance
    BY <1>t, <2>2, <2>3
  <2>5. PICK sent \in Nat : Adds(chan, reported + delta, sent) /\ sent + left * leg.distance = owed
    BY DEF SumInv
  <2>6. Adds(chan', reported' + delta', sent)
    BY <1>t, <2>1, <2>4, <2>5, TailAdds
  <2> QED  BY <2>1, <2>5, <2>6 DEF SumInv
<1>7. CASE UNCHANGED vars
  BY <1>7 DEF SumInv, vars, driver, loop
<1> QED  BY <1>1, <1>2, <1>3, <1>4, <1>5, <1>6, <1>7 DEF Next

\* Every step keeps the arrival last, and apart from the status before it.
LEMMA EndStep == TypeInv /\ EndInv /\ [Next]_vars => EndInv'
<1> SUFFICES ASSUME TypeInv, EndInv, [Next]_vars  PROVE EndInv'
  OBVIOUS
<1>t. chan \in Seq(Position) /\ leg \in Position /\ legs \in Nat /\ Len(chan) \in Nat
  BY Bounds DEF TypeInv, TypeOK
<1>a. ASSUME NEW p, Send(p)
      PROVE  /\ Len(chan') = Len(chan) + 1 /\ chan' # <<>> /\ chan'[Len(chan')] = p
             /\ \A i \in 1 .. Len(chan) : chan'[i] = chan[i]
             /\ chan # <<>> => Len(chan') > 1
  <2>1. chan' = Append(chan, p)
    BY <1>a DEF Send
  <2> QED  BY <1>t, <2>1
<1>1. CASE NewRoute
  <2>1. /\ sim = "off" /\ chan = <<>> /\ UNCHANGED <<chan, delta, window, lastStatus>>
        /\ \/ sim' \in {"between", "off"} /\ legs' = 0 /\ leg' = Parked
           \/ UNCHANGED <<sim, legs, leg>>
    BY <1>1 DEF NewRoute, driver
  <2>2. Parked.status # "arrived" /\ Len(<<>>) = 0
    BY DEF Parked
  <2> QED  BY <2>1, <2>2 DEF EndInv
<1>2. CASE Stop
  <2> DEFINE p == [leg EXCEPT !.status = "stopped", !.speed = 0, !.distance = 0]
  <2>1. p.status = "stopped"
    BY <1>t DEF Position
  <2>2. Send(p) /\ sim = "between" /\ sim' = "stopped" /\ UNCHANGED leg
    BY <1>2 DEF Stop
  <2> HIDE DEF p
  <2>3. \A i \in 1 .. Len(chan') : chan'[i].status # "arrived"
    BY <1>a, <1>t, <2>1, <2>2 DEF EndInv
  <2> QED  BY <2>2, <2>3 DEF EndInv
<1>3. ASSUME NEW b \in BaseSpeed, NEW v \in Variation, NEW d \in Distance, NEW n \in Steps, Drive(b, v, d, n)
      PROVE  EndInv'
  <2>1. /\ sim \in {"between", "stopped"} /\ sim' = "driving" /\ UNCHANGED chan
        /\ leg'.status \in DriveStatus
    BY <1>3, StatusIsDrive DEF Drive
  <2> QED  BY <2>1 DEF EndInv, DriveStatus
<1>4. CASE SendStep
  <2>1. Send(leg) /\ sim = "driving" /\ sim' \in {"between", "driving"} /\ UNCHANGED leg
    BY <1>4 DEF SendStep
  <2>2. \A i \in 1 .. Len(chan') : chan'[i].status # "arrived"
    BY <1>a, <1>t, <2>1 DEF EndInv
  <2> QED  BY <1>a, <2>1, <2>2 DEF EndInv
<1>5. CASE Arrive
  <2> DEFINE p == [leg EXCEPT !.status = "arrived", !.speed = 0, !.distance = 0]
  <2>1. p.status = "arrived"
    BY <1>t DEF Position
  <2>2. Send(p) /\ sim = "between" /\ legs > 0 /\ sim' = "off" /\ UNCHANGED <<leg, lastStatus>>
    BY <1>5 DEF Arrive, loop
  <2> HIDE DEF p
  <2>3. \A i \in 1 .. Len(chan') : chan'[i].status = "arrived" => i = Len(chan')
    BY <1>a, <1>t, <2>2 DEF EndInv
  <2> QED  BY <1>a, <2>1, <2>2, <2>3 DEF EndInv
<1>6. ASSUME NEW due \in BOOLEAN, Take(due)
      PROVE  EndInv'
  <2>1. /\ chan # <<>> /\ chan' = Tail(chan) /\ UNCHANGED <<sim, legs, leg>>
        /\ lastStatus' = Head(chan).status
        /\ lastStatus # Head(chan).status => delta' = 0 /\ window' = <<>>
    BY <1>6 DEF Take, driver, Due
  <2>2. PICK k \in Nat : Len(chan) = k + 1
    BY <1>t, <2>1
  <2>3. /\ Len(chan') = k /\ Head(chan) = chan[1] /\ (chan' = <<>> <=> k = 0)
        /\ \A i \in 1 .. k : chan'[i] = chan[i + 1] /\ i + 1 \in 1 .. k + 1
    <3>1. chan' \in Seq(Position) /\ Len(chan') = k
      BY <1>t, <2>1, <2>2
    <3>2. chan' = <<>> <=> k = 0
      BY <3>1
    <3>3. Head(chan) = chan[1] /\ \A i \in 1 .. k : chan'[i] = chan[i + 1]
      BY <1>t, <2>1, <2>2
    <3> QED  BY <2>2, <3>1, <3>2, <3>3
  <2>4. \A i \in 1 .. Len(chan') : chan'[i].status = "arrived" => sim' = "off" /\ i = Len(chan')
    BY <2>1, <2>2, <2>3 DEF EndInv
  <2>5. sim' = "off" /\ chan' # <<>> => chan'[Len(chan')].status = "arrived"
    BY <2>1, <2>2, <2>3 DEF EndInv
  <2>6. lastStatus' = "arrived" => sim = "off" /\ k = 0
    BY <2>1, <2>2, <2>3 DEF EndInv
  <2>7. sim' = "off" /\ chan' = <<>> => delta' = 0 /\ window' = <<>>
    BY <2>1, <2>2, <2>3 DEF EndInv
  <2> QED  BY <2>1, <2>3, <2>4, <2>5, <2>6, <2>7 DEF EndInv
<1>7. CASE UNCHANGED vars
  BY <1>7 DEF EndInv, vars, driver, loop
<1> QED  BY <1>1, <1>2, <1>3, <1>4, <1>5, <1>6, <1>7 DEF Next

\* For any channel, period and legs: the payloads of a route that was driven and
\* drained have reported every position's distance (firmware.go:147-189).
THEOREM RoutesAreFlushed == Spec => []RouteIsFlushed
<1>1. Init => SumInv /\ EndInv
  <2> SUFFICES ASSUME Init  PROVE SumInv /\ EndInv
    OBVIOUS
  <2>1. chan = <<>> /\ left = 0 /\ leg = Parked /\ owed = 0 /\ reported = 0 /\ delta = 0 /\ window = <<>>
        /\ lastStatus = None
    BY DEF Init
  <2>2. Adds(chan, reported + delta, 0)
    BY <2>1, NothingAdds
  <2>3. 0 + left * leg.distance = owed
    BY <2>1 DEF Parked
  <2>4. Len(chan) = 0 /\ leg.status # "arrived" /\ lastStatus # "arrived"
    BY <2>1 DEF Parked, None
  <2> QED  BY <2>1, <2>2, <2>3, <2>4 DEF SumInv, EndInv
<1>2. TypeInv /\ SumInv /\ EndInv => RouteIsFlushed
  <2> SUFFICES ASSUME TypeInv, SumInv, EndInv, sim = "off", chan = <<>>
               PROVE  reported = owed /\ delta = 0 /\ window = <<>>
    BY DEF RouteIsFlushed
  <2>1. delta = 0 /\ window = <<>>
    BY DEF EndInv
  <2>2. left = 0 /\ leg.distance \in Nat /\ reported \in Nat
    BY DEF TypeInv, TypeOK, Position
  <2>3. PICK sent \in Nat : Adds(chan, reported + delta, sent) /\ sent + left * leg.distance = owed
    BY DEF SumInv
  <2>4. sent = reported + delta
    BY <2>3, NothingLeft
  <2>5. left * leg.distance = 0
    BY <2>2
  <2> QED  BY <2>1, <2>2, <2>3, <2>4, <2>5
<1> QED  BY TypeInvHolds, <1>1, <1>2, SumStep, EndStep, PTL DEF Spec

(* The statistics are those of the positions taken *)

\* Of two naturals.
LEMMA LeastOfTwo ==
    ASSUME NEW m \in Nat, NEW n \in Nat
    PROVE  /\ Min({m, n}) \in {m, n} /\ Min({m, n}) <= m /\ Min({m, n}) <= n
           /\ Max({m, n}) \in {m, n} /\ m <= Max({m, n}) /\ n <= Max({m, n})
<1>1. CASE m <= n
  <2>1. Min({m, n}) = m /\ Max({m, n}) = n
    BY <1>1, LeastIsMin, GreatestIsMax
  <2> QED  BY <1>1, <2>1
<1>2. CASE n <= m
  <2>1. Min({m, n}) = n /\ Max({m, n}) = m
    BY <1>2, LeastIsMin, GreatestIsMax
  <2> QED  BY <1>2, <2>1
<1> QED  BY <1>1, <1>2

\* s holds the bounds of w and the sum of all but its first.
Matches(s, w) ==
    /\ s.min \in Range(w) /\ s.max \in Range(w)
    /\ \A v \in Range(w) : s.min <= v /\ v <= s.max
    /\ SumsTo(Tail(w), s.total)

\* What StatVar holds and what the last payload had are of their positions.
StatInv ==
    /\ window \in Seq(Nat)
    /\ window # <<>> => Matches(stat, window)
    /\ payload.status # None =>
        /\ payload.of \in Seq(Nat) /\ payload.of # <<>>
        /\ payload.stats.count = Len(payload.of)
        /\ Matches(payload.stats, payload.of)

\* Add keeps up with the positions (StatVar.Add, utils.go).
LEMMA AddMatches ==
    ASSUME NEW s \in Stat, NEW w \in Seq(Nat), NEW v \in Nat,
           s.count = Len(w), w # <<>> => Matches(s, w)
    PROVE  /\ Append(w, v) \in Seq(Nat) /\ Append(w, v) # <<>>
           /\ Add(s, v).count = Len(Append(w, v))
           /\ Matches(Add(s, v), Append(w, v))
<1> DEFINE u == Append(w, v)
           t == Add(s, v)
<1>1. u \in Seq(Nat) /\ u # <<>> /\ Len(u) = Len(w) + 1 /\ Len(w) \in Nat
  OBVIOUS
<1>2. Range(u) = Range(w) \cup {v}
  BY RangeOfAppend
<1>3. t.count = Len(u)
  BY <1>1 DEF Add, Stat
<1>4. CASE w = <<>>
  <2>1. t = [total |-> 0, min |-> v, max |-> v, count |-> 1]
    BY <1>4 DEF Add
  <2>2. Range(w) = {} /\ Tail(u) = <<>>
    BY <1>4 DEF Range
  <2>3. t.total = 0 /\ t.min = v /\ t.max = v
    BY <2>1
  <2>4. Range(u) = {v}
    BY <1>2, <2>2
  <2>5. SumsTo(<<>>, 0)
    BY NothingSums
  <2> HIDE DEF u, t
  <2>6. t.min \in Range(u) /\ t.max \in Range(u) /\ \A x \in Range(u) : t.min <= x /\ x <= t.max
    BY <2>3, <2>4
  <2>7. SumsTo(Tail(u), t.total)
    BY <2>2, <2>3, <2>5
  <2>8. Matches(t, u)
    BY <2>6, <2>7 DEF Matches
  <2> QED  BY <1>1, <1>3, <2>8 DEF u, t
<1>5. CASE w # <<>>
  <2>1. t = [total |-> s.total + v, count |-> s.count + 1,
             min |-> Min({s.min, v}), max |-> Max({s.max, v})]
    BY <1>1, <1>5 DEF Add, Stat
  <2>2. s.min \in Nat /\ s.max \in Nat /\ Tail(w) \in Seq(Nat) /\ Tail(u) = Append(Tail(w), v)
    <3>1. s.min \in Nat /\ s.max \in Nat
      BY DEF Stat
    <3>2. Tail(w) \in Seq(Nat)
      BY <1>5
    <3>3. Tail(u) = Append(Tail(w), v)
      BY <1>5
    <3> HIDE DEF u
    <3> QED  BY <3>1, <3>2, <3>3
  <2>3. SumsTo(Tail(w), s.total)
    BY <1>5 DEF Matches
  <2>4. SumsTo(Append(Tail(w), v), s.total + v)
    BY <2>2, <2>3, AppendSums
  <2>5. t.total = s.total + v /\ t.min = Min({s.min, v}) /\ t.max = Max({s.max, v})
    BY <2>1
  <2>6. /\ t.min \in {s.min, v} /\ t.min <= s.min /\ t.min <= v
        /\ t.max \in {s.max, v} /\ s.max <= t.max /\ v <= t.max /\ t.min \in Nat /\ t.max \in Nat
    <3>1. /\ Min({s.min, v}) \in {s.min, v} /\ Min({s.min, v}) <= s.min /\ Min({s.min, v}) <= v
          /\ Max({s.max, v}) \in {s.max, v} /\ s.max <= Max({s.max, v}) /\ v <= Max({s.max, v})
      BY <2>2, LeastOfTwo
    <3> HIDE DEF t
    <3> QED  BY <2>2, <2>5, <3>1
  <2>7. /\ s.min \in Range(w) /\ s.max \in Range(w)
        /\ \A x \in Range(w) : s.min <= x /\ x <= s.max /\ x \in Nat
    BY <1>5 DEF Matches, Range
  <2> HIDE DEF u, t
  <2>8. t.min \in Range(u) /\ t.max \in Range(u) /\ \A x \in Range(u) : t.min <= x /\ x <= t.max
    <3>1. t.min \in Range(u) /\ t.max \in Range(u)
      BY <1>2, <2>6, <2>7
    <3>2. ASSUME NEW x \in Range(w)
          PROVE  t.min <= x /\ x <= t.max
      BY <2>2, <2>6, <2>7, <3>2
    <3> QED  BY <1>2, <2>6, <3>1, <3>2
  <2>9. SumsTo(Tail(u), t.total)
    BY <2>2, <2>4, <2>5
  <2>10. Matches(t, u)
    BY <2>8, <2>9 DEF Matches
  <2> QED  BY <1>1, <1>3, <2>10 DEF u, t
<1> QED  BY <1>4, <1>5

\* Only Take adds to the statistics, and it empties them with the window.
LEMMA StatStep == TypeInv /\ StatInv /\ [Next]_vars => StatInv'
<1> SUFFICES ASSUME TypeInv, StatInv, [Next]_vars  PROVE StatInv'
  OBVIOUS
<1>1. CASE UNCHANGED <<stat, payload, window>>
  BY <1>1 DEF StatInv
<1>2. ASSUME NEW due \in BOOLEAN, Take(due)
      PROVE  StatInv'
  <2> DEFINE p == Head(chan)
             s == Add(stat, p.speed)
             w == Append(window, p.speed)
  <2>1. p \in Position /\ p.speed \in Nat
    <3>1. p \in Position
      BY <1>2 DEF Take, TypeInv, TypeOK
    <3> QED  BY <3>1 DEF Position
  <2>2. stat \in Stat /\ stat.count = Len(window) /\ window \in Seq(Nat)
    BY DEF TypeInv, TypeOK, StatInv
  <2> HIDE DEF p
  <2>3. w \in Seq(Nat) /\ w # <<>> /\ s.count = Len(w) /\ Matches(s, w)
    BY <2>1, <2>2, AddMatches DEF StatInv
  <2>4. \/ window' = <<>> /\ payload'.stats = s /\ payload'.of = w
        \/ window' = w /\ stat' = s /\ payload' = payload
    BY <1>2 DEF Take, p
  <2> HIDE DEF s, w
  <2>5. CASE window' = <<>> /\ payload'.stats = s /\ payload'.of = w
    BY <2>3, <2>5 DEF StatInv
  <2>6. CASE window' = w /\ stat' = s /\ payload' = payload
    BY <2>3, <2>6 DEF StatInv
  <2> QED  BY <2>4, <2>5, <2>6
<1> QED  BY <1>1, <1>2 DEF Next, NewRoute, Stop, Drive, SendStep, Arrive, vars, loop

\* For any channel and period the statistics of a payload are of the positions
\* since the one before it: bounds of all, sum of all but the first.
THEOREM StatsAreOfPositions == Spec => []StatsMatchPositions
<1>1. Init => StatInv
  BY DEF Init, StatInv
<1>2. StatInv => StatsMatchPositions
  <2> SUFFICES ASSUME StatInv, payload.status # None
               PROVE  LET s == payload.stats  taken == payload.of IN
                      /\ s.count = Len(taken)
                      /\ s.min = Min(Range(taken)) /\ s.max = Max(Range(taken))
                      /\ s.total = FoldSeq(+, 0, Tail(taken))
    BY DEF StatsMatchPositions
  <2> DEFINE s == payload.stats
             taken == payload.of
  <2>1. taken \in Seq(Nat) /\ taken # <<>> /\ s.count = Len(taken) /\ Matches(s, taken)
    BY DEF StatInv
  <2> HIDE DEF s, taken
  <2>2. Range(taken) \in SUBSET Nat
    BY <2>1 DEF Range
  <2>3. s.min = Min(Range(taken)) /\ s.max = Max(Range(taken))
    BY <2>1, <2>2, LeastIsMin, GreatestIsMax DEF Matches
  <2>4. SumsTo(Tail(taken), s.total)
    BY <2>1 DEF Matches
  <2>5. IsFiniteSet(DOMAIN Tail(taken))
    <3>1. Tail(taken) \in Seq(Nat)
      BY <2>1
    <3>2. DOMAIN Tail(taken) = 1 .. Len(Tail(taken)) /\ Len(Tail(taken)) \in Nat
      BY <3>1
    <3> QED  BY <3>2, FS_Interval
  <2>6. FoldSeq(+, 0, Tail(taken)) = s.total
    BY <2>4, <2>5, FoldSeqIsSum
  <2> QED  BY <2>1, <2>3, <2>4, <2>6 DEF s, taken
<1> QED  BY TypeInvHolds, <1>1, <1>2, StatStep, PTL DEF Spec

===============================================================================
