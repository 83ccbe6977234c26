--------------------------------- MODULE Cars ----------------------------------
(* The record 06_speed keeps of every vehicle: the `cars` map of main.rs and    *)
(* Car::observed of obs.rs, which decides when a speeding ticket is issued.     *)
(*                                                                              *)
(* A plate that has not been seen has no entry in the code's map; here it has a *)
(* car with no observations, on which Car::observed does what Car::new does.    *)
(* The observations of a road are a set where the code keeps a vector: the      *)
(* order only decides which of several speeding pairs ends up on the ticket,    *)
(* and that is the choice of `prev` in IssueTicket.                             *)
EXTENDS Obs, Sequences

CONSTANTS
  Plates,        \* the vehicles
  Roads,         \* the roads with cameras
  Posted,        \* the speed limit of each road in mph, the same at each camera
  Observations   \* the places and times at which a camera may see a vehicle

ASSUME PostedAssumption == Posted \in [Roads -> U16]
ASSUME ObservationsAssumption == Observations \subseteq Obs

VARIABLES
  cars,    \* what is kept of each vehicle
  issued,  \* history: the tickets issued, in order
  seen     \* history: every observation reported so far

carVars == <<cars, issued, seen>>

Limit(road) == ScaledLimit(Posted[road])

Car == [observations : [Roads -> SUBSET Observations], ticketed : SUBSET Nat]

Infraction == [plate : Plates, road : Roads, start : Observations,
               end : Observations, speed : U16]

Report == [plate : Plates, road : Roads, obs : Observations]

NewCar == [observations |-> [r \in Roads |-> {}], ticketed |-> {}]

TypeOK ==
  /\ cars \in [Plates -> Car]
  /\ issued \in Seq(Infraction)
  /\ seen \subseteq Report

Init ==
  /\ cars = [p \in Plates |-> NewCar]
  /\ issued = <<>>
  /\ seen = {}

--------------------------------------------------------------------------------
(* Car::observed *)

AlreadyTicketed(plate, obs) == Day(obs) \in cars[plate].ticketed

(* The earlier observations of the road that make the new one an infraction.    *)
Culprits(plate, road, obs) ==
  {prev \in cars[plate].observations[road] :
     /\ Day(prev) \notin cars[plate].ticketed
     /\ SpeedBetween(obs, prev) > Limit(road)}

\* A mutant: the reports are taken to arrive in order of time.
TicketFor_inOrder(plate, road, obs, prev) ==
  [plate |-> plate, road |-> road, start |-> prev, end |-> obs,
   speed |-> SpeedBetween(obs, prev)]

(* The vehicle drove from the earlier place to the later one, whatever order    *)
(* the reports arrived in.                                                      *)
TicketFor(plate, road, obs, prev) ==
  [plate |-> plate, road |-> road,
   start |-> IF obs.timestamp > prev.timestamp THEN prev ELSE obs,
   end   |-> IF obs.timestamp > prev.timestamp THEN obs ELSE prev,
   speed |-> SpeedBetween(obs, prev)]

TicketDays(t) == {Day(t.start), Day(t.end)}

\* A mutant: only the last day of the ticket is marked.
AfterTicket_lastDay(car, t) ==
  LET ticketed == car.ticketed \cup {Day(t.end)} IN
  [observations |-> [r \in Roads |->
                       {o \in car.observations[r] : Day(o) \notin ticketed}],
   ticketed |-> ticketed]

\* A mutant: only the road of the ticket is purged.
AfterTicket_thisRoad(car, t) ==
  LET ticketed == car.ticketed \cup TicketDays(t) IN
  [observations |-> [car.observations EXCEPT ![t.road] =
                       {o \in @ : Day(o) \notin ticketed}],
   ticketed |-> ticketed]

\* A mutant: a ticket empties the list of its road.
AfterTicket_clear(car, t) ==
  [observations |-> [car.observations EXCEPT ![t.road] = {}],
   ticketed |-> car.ticketed \cup TicketDays(t)]

(* The days of the ticket are marked and every observation made on a ticketed   *)
(* day is forgotten, on every road.                                             *)
AfterTicket(car, t) ==
  LET ticketed == car.ticketed \cup TicketDays(t) IN
  [observations |-> [r \in Roads |->
                       {o \in car.observations[r] : Day(o) \notin ticketed}],
   ticketed |-> ticketed]

AfterObs(car, road, obs) ==
  [car EXCEPT !.observations[road] = @ \cup {obs}]

(* history *)
Noted(plate, road, obs) ==
  seen' = seen \cup {[plate |-> plate, road |-> road, obs |-> obs]}

IgnoreObs(plate, road, obs) ==
  /\ AlreadyTicketed(plate, obs)
  /\ Noted(plate, road, obs)
  /\ UNCHANGED <<cars, issued>>

StoreObs(plate, road, obs) ==
  /\ ~ AlreadyTicketed(plate, obs)
  /\ Culprits(plate, road, obs) = {}
  /\ cars' = [cars EXCEPT ![plate] = AfterObs(@, road, obs)]
  /\ Noted(plate, road, obs)
  /\ UNCHANGED issued

IssueTicket(plate, road, obs) ==
  /\ ~ AlreadyTicketed(plate, obs)
  /\ \E prev \in Culprits(plate, road, obs) :
       LET t == TicketFor(plate, road, obs, prev) IN
       /\ cars' = [cars EXCEPT ![plate] = AfterTicket(@, t)]
       /\ issued' = Append(issued, t)
  /\ Noted(plate, road, obs)

Observed(plate, road, obs) ==
  \/ IgnoreObs(plate, road, obs)
  \/ StoreObs(plate, road, obs)
  \/ IssueTicket(plate, road, obs)

Next ==
  \E plate \in Plates, road \in Roads, obs \in Observations :
    Observed(plate, road, obs)

Spec == Init /\ [][Next]_carVars

--------------------------------------------------------------------------------
(* Properties *)

(* Two tickets of one vehicle never share a day, neither their first day nor    *)
(* their last (obs.rs:143-149: a ticket uses up both days of its observations,  *)
(* even when the second report arrives long after and out of order).            *)
OneTicketPerDay ==
  \A i, j \in 1 .. Len(issued) :
    (i # j /\ issued[i].plate = issued[j].plate)
      => TicketDays(issued[i]) \cap TicketDays(issued[j]) = {}

(* A ticket names two observations of that vehicle on that road that really     *)
(* were reported, the earlier first, and a speed above the limit                *)
(* (obs.rs:122-141, with its two symmetric branches).                           *)
TicketsJustified ==
  \A i \in 1 .. Len(issued) :
    LET t == issued[i] IN
    /\ t.start.timestamp < t.end.timestamp
    /\ t.speed = SpeedBetween(t.start, t.end)
    /\ t.speed > Limit(t.road)
    /\ \A o \in {t.start, t.end} :
         [plate |-> t.plate, road |-> t.road, obs |-> o] \in seen

(* Nobody escapes: if any two reports of a vehicle on one road show it          *)
(* speeding, whatever order they came in and whatever came between, then one of *)
(* their days has been ticketed (the search of obs.rs:121-160 is incremental:   *)
(* it looks at each pair once and throws observations away).                    *)
NoSpeederEscapes ==
  \A a, b \in seen :
    ( /\ a.plate = b.plate
      /\ a.road = b.road
      /\ SpeedBetween(a.obs, b.obs) > Limit(a.road) )
    => \E i \in 1 .. Len(issued) :
         /\ issued[i].plate = a.plate
         /\ TicketDays(issued[i]) \cap {Day(a.obs), Day(b.obs)} # {}

(* The purge of obs.rs:154-156 is complete and takes nothing else: what is kept *)
(* of a vehicle is exactly what was reported of it on days without a ticket.    *)
(* So the filter of line 122 never finds anything to leave out.                 *)
KeptIsUnticketed ==
  \A plate \in Plates, road \in Roads :
    cars[plate].observations[road] =
      {o \in Observations :
         /\ [plate |-> plate, road |-> road, obs |-> o] \in seen
         /\ Day(o) \notin cars[plate].ticketed}

(* What makes these inductive: a vehicle's ticketed days are the days of its    *)
(* tickets, and what is kept of it holds no speeding pair.                      *)
TicketedDays ==
  /\ \A i \in 1 .. Len(issued) :
       TicketDays(issued[i]) \subseteq cars[issued[i].plate].ticketed
  /\ \A plate \in Plates : \A d \in cars[plate].ticketed :
       \E i \in 1 .. Len(issued) :
         issued[i].plate = plate /\ d \in TicketDays(issued[i])

KeptIsLegal ==
  \A plate \in Plates, road \in Roads :
    \A a, b \in cars[plate].observations[road] :
      ~ (SpeedBetween(a, b) > Limit(road))

IInv ==
  /\ TypeOK
  /\ KeptIsUnticketed
  /\ KeptIsLegal
  /\ TicketedDays
  /\ OneTicketPerDay
  /\ TicketsJustified
================================================================================
