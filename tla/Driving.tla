------------------------------- MODULE Driving -------------------------------
(***************************************************************************)
(* What a device reports (tracky, driving.go, firmware.go, utils.go): a    *)
(* goroutine drives a route and sends positions through a bounded channel, *)
(* Loop accumulates them and now and then publishes a payload.             *)
(*                                                                         *)
(* Speeds are thousandths of km/h and base speeds multiples of six, so     *)
(* that every quotient here is exact.  Coordinates, times, sensors and     *)
(* consumption (a second StatVar over the same positions) are left out; a  *)
(* route begins and ends at a street.                                      *)
(***************************************************************************)
EXTENDS Integers, Sequences, FiniteSetsExt, SequencesExt

CONSTANTS
    Street,         \* addresses of routes.go
    BaseSpeed,      \* km/h of a segment, the default of 60 included
    Distance,       \* length of a leg between two coordinates
    Variation,      \* percent of the base speed, within 3 of 100
    Steps,          \* positions of a leg after its first
    Buffer,         \* capacity of the channel: 100 in the code
    MaxLegs,        \* bound: legs of a route
    MaxRoutes       \* bound: routes

ASSUME DrivingAssumption ==
    /\ \A b \in BaseSpeed : b \in Nat \ {0} /\ b % 6 = 0
    /\ Distance \subseteq Nat
    /\ "none" \notin Street
    /\ Variation \subseteq 97 .. 103
    /\ Steps \subseteq Nat \ {0}
    /\ {Buffer, MaxLegs, MaxRoutes} \subseteq Nat \ {0}

VARIABLES
    pirate,     \* the PIRATE environment variable
    sim,        \* the goroutine: "off", "between" two legs, "stopped" or "driving"
    lastEnd,    \* of Loop: the end of the last route
    trip,       \* start and end of the route being driven
    routes,     \* routes started
    legs,       \* legs driven of this one
    comp,       \* stopCompensation
    leg,        \* the position that this leg repeats
    left,       \* how often it is still to be sent
    lastSpeed,
    chan,       \* positionChan
    lastStatus, \* of Loop
    delta,      \* deltaDistance
    stat,       \* speedVar
    payload,    \* the last payload enqueued
    window,     \* the speeds taken from the channel since then
    owed,       \* distance of this route's positions
    reported    \* distance of this route's payloads

route == <<lastEnd, trip>>
driver == <<sim, routes, legs, comp, leg, left, lastSpeed, owed>>
loop == <<lastStatus, delta, stat, payload, window, reported>>
vars == <<pirate, route, driver, chan, loop>>

None == "none"
DriveStatus == {"driving", "slowing", "accelerating"}
AnyStatus == DriveStatus \cup {"stopped", "arrived"}

Abs(n) == IF n < 0 THEN -n ELSE n

(* StatVar: avg is kept as the total it is count-th part of *)

NewStat == [total |-> 0, min |-> 0, max |-> 0, count |-> 0]

FromZero(s, v) ==                           \* mutant of Add: no first value
    [total |-> s.total + v, count |-> s.count + 1,
     min |-> Min({s.min, v}), max |-> Max({s.max, v})]

\* The first value sets the bounds and leaves the average at zero; each later
\* one adds (value - avg) / (count + 1) to it.
Add(s, v) ==
    IF s.count = 0
    THEN [total |-> 0, min |-> v, max |-> v, count |-> 1]
    ELSE [total |-> s.total + v, count |-> s.count + 1,
          min |-> Min({s.min, v}), max |-> Max({s.max, v})]

\* Get returns the statistics and clears them.
Reset(s) == NewStat

------------------------------------------------------------------------------
Parked == [status |-> "driving", speed |-> 0, limit |-> 0, distance |-> 0]

Init ==
    /\ pirate \in BOOLEAN
    /\ lastEnd = None /\ trip = <<None, None>>
    /\ sim = "off" /\ routes = 0 /\ legs = 0
    /\ comp = 1 /\ leg = Parked /\ left = 0 /\ lastSpeed = 0
    /\ chan = <<>>
    /\ lastStatus = None
    /\ delta = 0
    /\ stat = NewStat
    /\ payload = [status |-> None]
    /\ window = <<>>
    /\ owed = 0
    /\ reported = 0

(* Loop between two routes *)

\* A route's start and end: from the last one's end, the first from anywhere.
Ways == (IF lastEnd = None THEN Street ELSE {lastEnd}) \X Street

\* What the geocoder or the router replies: nothing in 30 s, an error or what
\* cannot be read, an empty list, or a result.
Reply == {"none", "bad", "empty", "found"}

Geocode(reply) == reply = "found"

\* An error status is not looked at, but its body has no routes.
GetRoute(reply) == reply = "found"

\* Both ends are looked up and the way between them; the first error is the last.
NewDrivingSimulator(start, end, path) == Geocode(start) /\ Geocode(end) /\ GetRoute(path)

BeforeCheck(way, found) == way[2]           \* mutant of NextEnd: set before the error is seen

NextEnd(way, found) == IF found THEN way[2] ELSE lastEnd

\* The channel is drained and Loop has slept.  It tries again while no route
\* is found; a route of one segment sends nothing.  (One of none is an index
\* out of range: Tracky's LoopPanic.)
NewRoute ==
    /\ sim = "off" /\ chan = <<>>
    /\ routes < MaxRoutes
    /\ \E way \in Ways, start, end, path \in Reply :
        LET found == NewDrivingSimulator(start, end, path) IN
        /\ lastEnd' = NextEnd(way, found)
        /\ IF found
           THEN /\ trip' = way
                /\ routes' = routes + 1
                /\ sim' \in {"between", "off"}
                /\ legs' = 0 /\ comp' = 1 /\ leg' = Parked /\ left' = 0 /\ lastSpeed' = 0
                /\ owed' = 0 /\ reported' = 0
           ELSE UNCHANGED <<trip, driver, reported>>
    /\ UNCHANGED <<pirate, chan, lastStatus, delta, stat, payload, window>>

(* The goroutine of SimulateDrive *)

Send(p) ==
    /\ Len(chan) < Buffer
    /\ chan' = Append(chan, p)

\* The first leg of a segment that begins with a turn.
Stop ==
    /\ sim = "between"
    /\ legs < MaxLegs
    /\ Send([leg EXCEPT !.status = "stopped", !.speed = 0, !.distance = 0])
    /\ sim' = "stopped"
    /\ comp' = 3
    /\ lastSpeed' = 0
    /\ UNCHANGED <<pirate, route, routes, legs, leg, left, owed, loop>>

Slowed(base) == base \div comp

Kmh == 1000

\* More than 5% off the speed of the leg before.
StatusOf(speed, last) ==
    IF 20 * Abs(speed - last) <= speed THEN "driving"
    ELSE IF last < speed THEN "accelerating" ELSE "slowing"

RoadLimit(base) == base * Kmh               \* mutant of SpeedLimit

\* The limit reported is the base speed after a stop's compensation.
SpeedLimit(base) == Slowed(base) * Kmh

CurrentSpeed(base, variation) ==
    Slowed(base) * variation * (IF pirate THEN 14 ELSE 10)

\* Between two coordinates: every position carries the whole leg's distance.
Drive(base, variation, distance, steps) ==
    LET speed == CurrentSpeed(base, variation) IN
    /\ sim \in {"between", "stopped"}
    /\ legs < MaxLegs
    /\ sim' = "driving"
    /\ legs' = legs + 1
    /\ leg' = [status |-> StatusOf(speed, lastSpeed), speed |-> speed,
               limit |-> SpeedLimit(base), distance |-> distance]
    /\ left' = steps + 1
    /\ comp' = Max({comp - 1, 1})
    /\ lastSpeed' = speed
    /\ owed' = owed + (steps + 1) * distance
    /\ UNCHANGED <<pirate, route, routes, chan, loop>>

SendStep ==
    /\ sim = "driving"
    /\ Send(leg)
    /\ left' = left - 1
    /\ sim' = IF left = 1 THEN "between" ELSE "driving"
    /\ UNCHANGED <<pirate, route, routes, legs, comp, leg, lastSpeed, owed, loop>>

\* The last position; the channel is closed.  A router's step has at least two
\* coordinates, so a route of two segments has legs.
Arrive ==
    /\ sim = "between" /\ legs > 0
    /\ Send([leg EXCEPT !.status = "arrived", !.speed = 0, !.distance = 0])
    /\ sim' = "off"
    /\ UNCHANGED <<pirate, route, routes, legs, comp, leg, left, lastSpeed, owed, loop>>

------------------------------------------------------------------------------
(* Loop *)

PeriodOnly(p, due) == due                   \* mutant of Due: the status is not compared

\* The period is over, or the status is not the one last published.
Due(p, due) == due \/ lastStatus # p.status

Take(due) ==
    /\ chan # <<>>
    /\ chan' = Tail(chan)
    /\ LET p == Head(chan)
           d == delta + p.distance
           s == Add(stat, p.speed)
       IN IF Due(p, due)
          THEN /\ lastStatus' = p.status
               /\ payload' = [route |-> routes, trip |-> trip, status |-> p.status,
                              speed |-> p.speed, limit |-> p.limit, delta |-> d,
                              stats |-> s, of |-> Append(window, p.speed)]
               /\ delta' = 0
               /\ stat' = Reset(s)
               /\ window' = <<>>
               /\ reported' = reported + d
          ELSE /\ delta' = d
               /\ stat' = s
               /\ window' = Append(window, p.speed)
               /\ UNCHANGED <<lastStatus, payload, reported>>
    /\ UNCHANGED <<pirate, route, driver>>

Next ==
    \/ NewRoute
    \/ Stop
    \/ \E b \in BaseSpeed, v \in Variation, d \in Distance, n \in Steps : Drive(b, v, d, n)
    \/ SendStep
    \/ Arrive
    \/ \E due \in BOOLEAN : Take(due)

Spec == Init /\ [][Next]_vars

\* Goroutines are scheduled; the period may be long.
FairSpec == Spec /\ WF_vars(\E due \in BOOLEAN : Take(due))

------------------------------------------------------------------------------
(* Properties *)

Position == [status : AnyStatus, speed : Nat, limit : Nat, distance : Nat]
Stat == [total : Nat, min : Nat, max : Nat, count : Nat]

TypeOK ==
    /\ pirate \in BOOLEAN
    /\ sim \in {"off", "between", "stopped", "driving"}
    /\ lastEnd \in Street \cup {None} /\ trip \in (Street \cup {None}) \X (Street \cup {None})
    /\ routes \in 0 .. MaxRoutes
    /\ legs \in 0 .. MaxLegs
    /\ comp \in 1 .. 3
    /\ leg \in Position
    /\ left \in Nat /\ (left > 0 <=> sim = "driving")
    /\ {lastSpeed, delta, owed, reported} \subseteq Nat
    /\ chan \in Seq(Position) /\ Len(chan) <= Buffer
    /\ lastStatus \in AnyStatus \cup {None}
    /\ stat \in Stat /\ stat.count = Len(window)
    /\ payload.status = lastStatus
    /\ payload.status # None =>
        payload.delta \in Nat /\ payload.stats \in Stat /\ payload.route \in 1 .. routes

\* When a route has been driven and drained, its payloads have reported every
\* position's distance and nothing waits to be added to the next route's
\* first: the arrival always differs from the status last published.
RouteIsFlushed ==
    sim = "off" /\ chan = <<>> => reported = owed /\ delta = 0 /\ window = <<>>

\* A device does not jump: a route that is reported begins where the one
\* before it ended, whatever look-ups failed in between.
RoutesConnect ==
    [][payload.status # None /\ payload'.route = payload.route + 1 =>
        payload'.trip[1] = payload.trip[2]]_payload

\* The statistics of a payload are of the positions since the one before it:
\* the bounds of all of them, but the average of all but the first, as
\* StatVar.Add starts it from zero.
StatsMatchPositions ==
    payload.status # None =>
        LET s == payload.stats  taken == payload.of IN
        /\ s.count = Len(taken)
        /\ s.min = Min(Range(taken)) /\ s.max = Max(Range(taken))
        /\ s.total = FoldSeq(+, 0, Tail(taken))

\* What the aggregation calls a pirate (AggregationHandler.java:165).
Flagged(p) == p.speed > p.limit + 10 * Kmh

\* No honest device is flagged, and a pirate is in every payload sent on the
\* road unless the limit of its leg is below 28 km/h.
FlaggedIsPirate ==
    payload.status # None =>
        /\ Flagged(payload) => pirate
        /\ pirate /\ payload.status \in DriveStatus /\ payload.limit >= 28 * Kmh =>
            Flagged(payload)

\* Every change of status reaches a payload, however long the period is.
EveryStatusIsReported ==
    \A s \in AnyStatus :
        (\E i \in DOMAIN chan : chan[i].status = s)
            ~> payload.status = s
==============================================================================
