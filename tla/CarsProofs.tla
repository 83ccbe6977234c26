------------------------------ MODULE CarsProofs -------------------------------
(* What is kept of a vehicle suffices to decide every ticket: the invariants of *)
(* Cars, proved for all plates, roads, limits and observations.                 *)
EXTENDS Cars, SequenceTheorems, TLAPS

(* The numbers of the code, whose values the proofs do not depend on.           *)
LEMMA Numbers ==
  /\ U16Max \in Nat
  /\ SecondsPerDay \in Nat \ {0}
  /\ HundredthsPerMilePerSecond \in Nat
<1>1. U16Max \in Nat
  BY SMT DEF U16Max
<1>2. SecondsPerDay \in Nat \ {0}
  BY SMT DEF SecondsPerDay
<1>3. HundredthsPerMilePerSecond \in Nat
  BY SMT DEF HundredthsPerMilePerSecond
<1> QED
  BY <1>1, <1>2, <1>3

LEMMA ObsFields ==
  ASSUME NEW o \in Obs
  PROVE  o.mile \in Nat /\ o.timestamp \in Nat
<1>1. o.mile \in U16 /\ o.timestamp \in Nat
  BY DEF Obs
<1> QED
  BY <1>1, Numbers DEF U16

LEMMA DistanceType ==
  ASSUME NEW a \in Nat, NEW b \in Nat
  PROVE  /\ Distance(a, b) \in Nat
         /\ Distance(a, b) = Distance(b, a)
         /\ a # b => Distance(a, b) > 0
BY DEF Distance

(* Which of two observations is the newer one makes no difference to the speed  *)
(* between them (the test of obs.rs:174-210 checks two pairs).                  *)
LEMMA SpeedSymmetric ==
  ASSUME NEW o \in Obs, NEW p \in Obs
  PROVE  SpeedBetween(o, p) = SpeedBetween(p, o)
<1>1. /\ Distance(o.mile, p.mile) = Distance(p.mile, o.mile)
      /\ Distance(o.timestamp, p.timestamp) = Distance(p.timestamp, o.timestamp)
  BY ObsFields, DistanceType
<1>2. RawSpeed(o, p) = RawSpeed(p, o)
  BY <1>1, Zenon DEF RawSpeed
<1> QED
  BY <1>2, Zenon DEF SpeedBetween

(* The speed fits the u16 it is returned in (obs.rs:53-61).                     *)
LEMMA SpeedType ==
  ASSUME NEW o \in Obs, NEW p \in Obs
  PROVE  SpeedBetween(o, p) \in U16
<1>1. CASE o.timestamp = p.timestamp \/ RawSpeed(o, p) > U16Max
  BY <1>1, Numbers DEF SpeedBetween, U16
<1>2. CASE o.timestamp # p.timestamp /\ ~ (RawSpeed(o, p) > U16Max)
  <2>1. Distance(o.mile, p.mile) \in Nat
    BY ObsFields, DistanceType
  <2>2. Distance(o.mile, p.mile) * HundredthsPerMilePerSecond \in Nat
    BY <2>1, Numbers
  <2>3. /\ Distance(o.timestamp, p.timestamp) \in Nat
        /\ Distance(o.timestamp, p.timestamp) > 0
    BY <1>2, ObsFields, DistanceType
  <2>4. RawSpeed(o, p) \in Nat
    BY <2>2, <2>3 DEF RawSpeed
  <2> QED
    BY <1>2, <2>4, Numbers DEF SpeedBetween, U16
<1> QED
  BY <1>1, <1>2

(* Two observations of the same second are never an infraction.                 *)
LEMMA NoSpeedAtOnce ==
  ASSUME NEW o \in Obs, NEW p \in Obs, o.timestamp = p.timestamp
  PROVE  SpeedBetween(o, p) = 0
BY DEF SpeedBetween

LEMMA DayType ==
  ASSUME NEW o \in Obs
  PROVE  Day(o) \in Nat
BY ObsFields, Numbers DEF Day

LEMMA LimitType ==
  ASSUME NEW r \in Roads
  PROVE  Limit(r) \in Nat
<1>1. Posted[r] \in Nat
  BY PostedAssumption, Numbers DEF U16
<1>2. Posted[r] * 100 \in Nat
  BY <1>1
<1> QED
  BY <1>2, Numbers DEF Limit, ScaledLimit

--------------------------------------------------------------------------------

(* A ticket that Car::observed writes is of the right type, names the two       *)
(* observations in order of time, and uses up the days of both.                 *)
LEMMA TicketForFacts ==
  ASSUME NEW plate \in Plates, NEW road \in Roads,
         NEW obs \in Observations, NEW prev \in Observations,
         SpeedBetween(obs, prev) > Limit(road),
         NEW t, t = TicketFor(plate, road, obs, prev)
  PROVE  /\ t \in Infraction
         /\ t.plate = plate /\ t.road = road
         /\ {t.start, t.end} = {obs, prev}
         /\ t.start.timestamp < t.end.timestamp
         /\ t.speed = SpeedBetween(t.start, t.end)
         /\ t.speed > Limit(t.road)
         /\ TicketDays(t) = {Day(obs), Day(prev)}
         /\ TicketDays(t) \subseteq Nat
<1>1. obs \in Obs /\ prev \in Obs
  BY ObservationsAssumption
<1>2. obs.timestamp \in Nat /\ prev.timestamp \in Nat
  BY <1>1, ObsFields
<1>3. obs.timestamp # prev.timestamp
  BY <1>1, NoSpeedAtOnce, LimitType
<1>4. SpeedBetween(obs, prev) = SpeedBetween(prev, obs)
  BY <1>1, SpeedSymmetric
<1>5. SpeedBetween(obs, prev) \in U16
  BY <1>1, SpeedType
<1>6. /\ t.plate = plate /\ t.road = road
      /\ t.speed = SpeedBetween(obs, prev)
      /\ \/ /\ t.start = prev /\ t.end = obs
            /\ prev.timestamp < obs.timestamp
         \/ /\ t.start = obs /\ t.end = prev
            /\ obs.timestamp < prev.timestamp
  BY <1>2, <1>3 DEF TicketFor
<1>7. t \in Infraction
  BY <1>5 DEF TicketFor, Infraction
<1>8. TicketDays(t) = {Day(obs), Day(prev)}
  BY <1>6 DEF TicketDays
<1>9. TicketDays(t) \subseteq Nat
  BY <1>1, <1>8, DayType
<1>10. t.speed = SpeedBetween(t.start, t.end)
  BY <1>4, <1>6
<1>11. t.start.timestamp < t.end.timestamp
  BY <1>6
<1> QED
  BY <1>6, <1>7, <1>8, <1>9, <1>10, <1>11

LEMMA TicketsTyped ==
  ASSUME issued \in Seq(Infraction), NEW i \in 1 .. Len(issued)
  PROVE  /\ issued[i] \in Infraction
         /\ issued[i].plate \in Plates
         /\ issued[i].road \in Roads
<1>1. issued[i] \in Infraction
  BY ElementOfSeq
<1> QED
  BY <1>1 DEF Infraction

LEMMA InitIInv == Init => IInv
<1> SUFFICES ASSUME Init PROVE IInv
  OBVIOUS
<1>1. TypeOK
  BY DEF Init, TypeOK, NewCar, Car
<1>2. KeptIsUnticketed /\ KeptIsLegal /\ TicketedDays
  BY DEF Init, NewCar, KeptIsUnticketed, KeptIsLegal, TicketedDays
<1>3. OneTicketPerDay /\ TicketsJustified
  BY DEF Init, OneTicketPerDay, TicketsJustified
<1> QED
  BY <1>1, <1>2, <1>3 DEF IInv

LEMMA IgnoreIInv ==
  ASSUME IInv, NEW plate \in Plates, NEW road \in Roads,
         NEW obs \in Observations, IgnoreObs(plate, road, obs)
  PROVE  IInv'
<1> USE DEF IgnoreObs
<1>1. TypeOK'
  BY DEF IInv, TypeOK, Noted, Report
<1>2. KeptIsUnticketed'
  BY DEF IInv, KeptIsUnticketed, Noted, AlreadyTicketed
<1>3. KeptIsLegal' /\ TicketedDays'
  BY DEF IInv, KeptIsLegal, TicketedDays
<1>4. OneTicketPerDay'
  BY DEF IInv, OneTicketPerDay
<1>5. TicketsJustified'
  BY DEF IInv, TicketsJustified, Noted
<1> QED
  BY <1>1, <1>2, <1>3, <1>4, <1>5 DEF IInv

LEMMA StoreIInv ==
  ASSUME IInv, NEW plate \in Plates, NEW road \in Roads,
         NEW obs \in Observations, StoreObs(plate, road, obs)
  PROVE  IInv'
<1> DEFINE kept(p, r) == cars[p].observations[r]
<1>1. \A p \in Plates :
        /\ cars'[p] \in Car
        /\ cars'[p].ticketed = cars[p].ticketed
        /\ \A r \in Roads :
             cars'[p].observations[r] =
               IF p = plate /\ r = road THEN kept(p, r) \cup {obs} ELSE kept(p, r)
  BY DEF IInv, TypeOK, Car, StoreObs, AfterObs
<1>2. TypeOK'
  BY <1>1 DEF IInv, TypeOK, StoreObs, Noted, Report
<1>3. KeptIsUnticketed'
  <2> SUFFICES ASSUME NEW p \in Plates, NEW r \in Roads
               PROVE  cars'[p].observations[r] =
                        {o \in Observations :
                           /\ [plate |-> p, road |-> r, obs |-> o] \in seen'
                           /\ Day(o) \notin cars'[p].ticketed}
    BY DEF KeptIsUnticketed
  <2> DEFINE rep(o) == [plate |-> p, road |-> r, obs |-> o]
  <2>1. ASSUME NEW o
        PROVE  rep(o) \in seen' <=>
                 rep(o) \in seen \/ (p = plate /\ r = road /\ o = obs)
    BY DEF StoreObs, Noted
  <2>2. kept(p, r) = {o \in Observations :
                        rep(o) \in seen /\ Day(o) \notin cars[p].ticketed}
    BY DEF IInv, KeptIsUnticketed
  <2>3. Day(obs) \notin cars[plate].ticketed
    BY DEF StoreObs, AlreadyTicketed
  <2>4. ASSUME NEW o \in Observations
        PROVE  o \in cars'[p].observations[r] <=>
                 rep(o) \in seen' /\ Day(o) \notin cars'[p].ticketed
    <3>1. o \in kept(p, r) <=> rep(o) \in seen /\ Day(o) \notin cars[p].ticketed
      BY <2>2
    <3>2. rep(o) \in seen' <=>
            rep(o) \in seen \/ (p = plate /\ r = road /\ o = obs)
      BY <2>1
    <3> HIDE DEF rep
    <3>3. CASE p = plate /\ r = road
      BY <1>1, <2>3, <3>1, <3>2, <3>3
    <3>4. CASE ~ (p = plate /\ r = road)
      BY <1>1, <3>1, <3>2, <3>4
    <3> QED
      BY <3>3, <3>4
  <2>5. cars'[p].observations[r] \subseteq Observations
    BY <1>1 DEF Car
  <2> QED
    BY <2>4, <2>5
<1>4. KeptIsLegal'
  <2> SUFFICES ASSUME NEW p \in Plates, NEW r \in Roads,
                      NEW a \in cars'[p].observations[r],
                      NEW b \in cars'[p].observations[r]
               PROVE  ~ (SpeedBetween(a, b) > Limit(r))
    BY DEF KeptIsLegal
  <2>1. CASE a \in kept(p, r) /\ b \in kept(p, r)
    BY <2>1 DEF IInv, KeptIsLegal
  <2>2. \A o \in kept(plate, road) :
          /\ o \in Obs
          /\ ~ (SpeedBetween(obs, o) > Limit(road))
    BY ObservationsAssumption, ZenonT(40)
       DEF IInv, KeptIsUnticketed, StoreObs, Culprits
  <2>3. obs \in Obs /\ SpeedBetween(obs, obs) = 0 /\ Limit(road) \in Nat
    BY ObservationsAssumption, NoSpeedAtOnce, LimitType
  <2>4. ~ (SpeedBetween(obs, obs) > Limit(road))
    BY <2>3
  <2>5. \A o \in kept(plate, road) : ~ (SpeedBetween(o, obs) > Limit(road))
    BY <2>2, <2>3, SpeedSymmetric
  <2>6. CASE p = plate /\ r = road
    <3>1. a \in kept(plate, road) \cup {obs} /\ b \in kept(plate, road) \cup {obs}
      BY <1>1, <2>6
    <3> QED
      BY <2>1, <2>2, <2>4, <2>5, <2>6, <3>1
  <2>7. CASE ~ (p = plate /\ r = road)
    BY <1>1, <2>1, <2>7
  <2> QED
    BY <2>6, <2>7
<1>5. TicketedDays'
  <2>1. \A i \in 1 .. Len(issued) : issued[i].plate \in Plates
    BY TicketsTyped DEF IInv, TypeOK
  <2> QED
    BY <1>1, <2>1 DEF IInv, TicketedDays, StoreObs
<1>6. OneTicketPerDay'
  BY DEF IInv, OneTicketPerDay, StoreObs
<1>7. TicketsJustified'
  BY DEF IInv, TicketsJustified, StoreObs, Noted
<1> QED
  BY <1>2, <1>3, <1>4, <1>5, <1>6, <1>7 DEF IInv

LEMMA IssueIInv ==
  ASSUME IInv, NEW plate \in Plates, NEW road \in Roads,
         NEW obs \in Observations, IssueTicket(plate, road, obs)
  PROVE  IInv'
<1> DEFINE kept(p, r) == cars[p].observations[r]
           n == Len(issued)
<1>1. PICK prev \in Culprits(plate, road, obs) :
        LET t == TicketFor(plate, road, obs, prev) IN
        /\ cars' = [cars EXCEPT ![plate] = AfterTicket(@, t)]
        /\ issued' = Append(issued, t)
  BY DEF IssueTicket
<1> DEFINE t == TicketFor(plate, road, obs, prev)
<1>2. /\ prev \in kept(plate, road)
      /\ prev \in Observations
      /\ SpeedBetween(obs, prev) > Limit(road)
      /\ Day(prev) \notin cars[plate].ticketed
      /\ Day(obs) \notin cars[plate].ticketed
      /\ [plate |-> plate, road |-> road, obs |-> prev] \in seen
  BY DEF Culprits, IInv, KeptIsUnticketed, IssueTicket, AlreadyTicketed
<1>3. /\ t \in Infraction
      /\ t.plate = plate /\ t.road = road
      /\ {t.start, t.end} = {obs, prev}
      /\ t.start.timestamp < t.end.timestamp
      /\ t.speed = SpeedBetween(t.start, t.end)
      /\ t.speed > Limit(t.road)
      /\ TicketDays(t) = {Day(obs), Day(prev)}
      /\ TicketDays(t) \subseteq Nat
  BY <1>2, TicketForFacts
<1>4. cars' = [cars EXCEPT ![plate] = AfterTicket(@, t)] /\ issued' = Append(issued, t)
  BY <1>1
<1> HIDE DEF t
<1>5. /\ issued \in Seq(Infraction) /\ n \in Nat
      /\ issued' \in Seq(Infraction)
      /\ Len(issued') = n + 1
      /\ issued'[n + 1] = t
      /\ \A i \in 1 .. n : issued'[i] = issued[i]
  BY <1>3, <1>4, AppendProperties, LenProperties DEF IInv, TypeOK
<1>6. \A p \in Plates :
        /\ cars'[p] \in Car
        /\ cars'[p].ticketed =
             IF p = plate THEN cars[p].ticketed \cup TicketDays(t)
                          ELSE cars[p].ticketed
        /\ \A r \in Roads :
             cars'[p].observations[r] =
               IF p = plate
               THEN {o \in kept(p, r) :
                       Day(o) \notin cars[p].ticketed \cup TicketDays(t)}
               ELSE kept(p, r)
  <2> SUFFICES ASSUME NEW p \in Plates
               PROVE  /\ cars'[p] \in Car
                      /\ cars'[p].ticketed =
                           IF p = plate THEN cars[p].ticketed \cup TicketDays(t)
                                        ELSE cars[p].ticketed
                      /\ \A r \in Roads :
                           cars'[p].observations[r] =
                             IF p = plate
                             THEN {o \in kept(p, r) :
                                     Day(o) \notin cars[p].ticketed \cup TicketDays(t)}
                             ELSE kept(p, r)
    OBVIOUS
  <2>1. cars[p] \in Car /\ cars'[p] = IF p = plate THEN AfterTicket(cars[p], t)
                                                  ELSE cars[p]
    BY <1>4 DEF IInv, TypeOK
  <2>2. AfterTicket(cars[p], t) \in Car
    BY <1>3, <2>1 DEF Car, AfterTicket
  <2> QED
    BY <2>1, <2>2 DEF AfterTicket
<1>7. cars' \in [Plates -> Car]
  BY <1>4, <1>6 DEF IInv, TypeOK
<1>8. TypeOK'
  BY <1>5, <1>7 DEF IInv, TypeOK, IssueTicket, Noted, Report
<1>9. seen' = seen \cup {[plate |-> plate, road |-> road, obs |-> obs]}
  BY DEF IssueTicket, Noted
<1>10. KeptIsUnticketed'
  <2> SUFFICES ASSUME NEW p \in Plates, NEW r \in Roads
               PROVE  cars'[p].observations[r] =
                        {o \in Observations :
                           /\ [plate |-> p, road |-> r, obs |-> o] \in seen'
                           /\ Day(o) \notin cars'[p].ticketed}
    BY DEF KeptIsUnticketed
  <2> DEFINE rep(o) == [plate |-> p, road |-> r, obs |-> o]
  <2>1. kept(p, r) = {o \in Observations :
                        rep(o) \in seen /\ Day(o) \notin cars[p].ticketed}
    BY DEF IInv, KeptIsUnticketed
  <2>2. ASSUME NEW o \in Observations
        PROVE  o \in cars'[p].observations[r] <=>
                 rep(o) \in seen' /\ Day(o) \notin cars'[p].ticketed
    <3>1. o \in kept(p, r) <=> rep(o) \in seen /\ Day(o) \notin cars[p].ticketed
      BY <2>1
    <3>2. rep(o) \in seen' <=>
            rep(o) \in seen \/ (p = plate /\ r = road /\ o = obs)
      BY <1>9
    <3>3. Day(obs) \in TicketDays(t)
      BY <1>3
    <3> HIDE DEF rep
    <3>4. CASE p = plate
      BY <1>6, <3>1, <3>2, <3>3, <3>4
    <3>5. CASE p # plate
      BY <1>6, <3>1, <3>2, <3>5
    <3> QED
      BY <3>4, <3>5
  <2>3. cars'[p].observations[r] \subseteq Observations
    BY <1>6 DEF Car
  <2> QED
    BY <2>2, <2>3
<1>11. KeptIsLegal'
  BY <1>6, ZenonT(40) DEF IInv, KeptIsLegal
<1>12. TicketedDays'
  <2>1. ASSUME NEW i \in 1 .. Len(issued')
        PROVE  TicketDays(issued'[i]) \subseteq cars'[issued'[i].plate].ticketed
    <3>1. CASE i = n + 1
      BY <1>3, <1>5, <1>6, <3>1
    <3>2. CASE i \in 1 .. n
      <4>1. issued'[i] = issued[i] /\ issued[i].plate \in Plates
        BY <1>5, <3>2, TicketsTyped
      <4>2. TicketDays(issued[i]) \subseteq cars[issued[i].plate].ticketed
        BY <3>2 DEF IInv, TicketedDays
      <4>3. cars[issued[i].plate].ticketed \subseteq cars'[issued[i].plate].ticketed
        BY <1>6, <4>1
      <4> QED
        BY <4>1, <4>2, <4>3
    <3> QED
      BY <1>5, <3>1, <3>2
  <2>2. ASSUME NEW p \in Plates, NEW d \in cars'[p].ticketed
        PROVE  \E i \in 1 .. Len(issued') :
                 issued'[i].plate = p /\ d \in TicketDays(issued'[i])
    <3>1. CASE d \in cars[p].ticketed
      <4>1. PICK i \in 1 .. n : issued[i].plate = p /\ d \in TicketDays(issued[i])
        BY <3>1 DEF IInv, TicketedDays
      <4> QED
        BY <1>5, <4>1
    <3>2. CASE d \notin cars[p].ticketed
      <4>1. p = plate /\ d \in TicketDays(t)
        BY <1>6, <3>2
      <4>2. n + 1 \in 1 .. Len(issued')
        BY <1>5
      <4> QED
        BY <1>3, <1>5, <4>1, <4>2
    <3> QED
      BY <3>1, <3>2
  <2> QED
    BY <2>1, <2>2 DEF TicketedDays
<1>13. OneTicketPerDay'
  <2>1. ASSUME NEW i \in 1 .. n, issued[i].plate = plate
        PROVE  TicketDays(issued[i]) \cap TicketDays(t) = {}
    BY <1>2, <1>3, <2>1 DEF IInv, TicketedDays
  <2> SUFFICES ASSUME NEW i \in 1 .. Len(issued'), NEW j \in 1 .. Len(issued'),
                      i # j, issued'[i].plate = issued'[j].plate
               PROVE  TicketDays(issued'[i]) \cap TicketDays(issued'[j]) = {}
    BY DEF OneTicketPerDay
  <2>2. CASE i \in 1 .. n /\ j \in 1 .. n
    BY <1>5, <2>2 DEF IInv, OneTicketPerDay
  <2>3. CASE i = n + 1 /\ j \in 1 .. n
    BY <1>3, <1>5, <2>1, <2>3
  <2>4. CASE j = n + 1 /\ i \in 1 .. n
    BY <1>3, <1>5, <2>1, <2>4
  <2> QED
    BY <1>5, <2>2, <2>3, <2>4
<1>14. TicketsJustified'
  <2> SUFFICES ASSUME NEW i \in 1 .. Len(issued'), NEW u, u = issued'[i]
               PROVE  /\ u.start.timestamp < u.end.timestamp
                      /\ u.speed = SpeedBetween(u.start, u.end)
                      /\ u.speed > Limit(u.road)
                      /\ \A o \in {u.start, u.end} :
                           [plate |-> u.plate, road |-> u.road, obs |-> o] \in seen'
    BY DEF TicketsJustified
  <2>1. CASE i \in 1 .. n
    BY <1>5, <1>9, <2>1 DEF IInv, TicketsJustified
  <2>2. CASE i = n + 1
    <3>1. \A o \in {obs, prev} :
            [plate |-> plate, road |-> road, obs |-> o] \in seen'
      BY <1>2, <1>9
    <3> QED
      BY <1>3, <1>5, <2>2, <3>1
  <2> QED
    BY <1>5, <2>1, <2>2
<1> QED
  BY <1>8, <1>10, <1>11, <1>12, <1>13, <1>14 DEF IInv

LEMMA StutterIInv ==
  ASSUME IInv, UNCHANGED carVars
  PROVE  IInv'
<1>1. cars' = cars /\ issued' = issued /\ seen' = seen
  BY DEF carVars
<1>2. (TypeOK /\ KeptIsUnticketed /\ KeptIsLegal)'
  BY <1>1 DEF IInv, TypeOK, KeptIsUnticketed, KeptIsLegal
<1>3. (TicketedDays /\ OneTicketPerDay /\ TicketsJustified)'
  BY <1>1 DEF IInv, TicketedDays, OneTicketPerDay, TicketsJustified
<1> QED
  BY <1>2, <1>3 DEF IInv

(* The inductive invariant: what is kept of a vehicle is what was reported of   *)
(* it on unticketed days, and holds no speeding pair.                           *)
THEOREM Invariance == Spec => []IInv
<1>1. Init => IInv
  BY InitIInv
<1>2. IInv /\ [Next]_carVars => IInv'
  <2> SUFFICES ASSUME IInv, [Next]_carVars PROVE IInv'
    OBVIOUS
  <2>1. CASE Next
    BY <2>1, IgnoreIInv, StoreIInv, IssueIInv DEF Next, Observed
  <2> QED
    BY <2>1, StutterIInv
<1> QED
  BY <1>1, <1>2, PTL DEF Spec

(* What is kept, issued and reported stays well-typed, in particular no speed   *)
(* on a ticket exceeds a u16.                                                   *)
THEOREM Typing == Spec => []TypeOK
<1>1. IInv => TypeOK
  BY DEF IInv
<1> QED
  BY <1>1, Invariance, PTL

(* Every ticket is for two reports that were really made, in order of time, and *)
(* above the limit the cameras compare with.                                    *)
THEOREM Justified == Spec => []TicketsJustified
<1>1. IInv => TicketsJustified
  BY DEF IInv
<1> QED
  BY <1>1, Invariance, PTL

(* A vehicle is ticketed at most once for any day.                              *)
THEOREM AtMostOncePerDay == Spec => []OneTicketPerDay
<1>1. IInv => OneTicketPerDay
  BY DEF IInv
<1> QED
  BY <1>1, Invariance, PTL

(* The purge takes exactly the observations of ticketed days.                   *)
THEOREM PurgeIsExact == Spec => []KeptIsUnticketed
<1>1. IInv => KeptIsUnticketed
  BY DEF IInv
<1> QED
  BY <1>1, Invariance, PTL

(* Although the search is incremental and forgetful, every speeding pair of     *)
(* reports leads to a ticket for one of its days, in every order of arrival.    *)
THEOREM Completeness == Spec => []NoSpeederEscapes
<1>1. IInv => NoSpeederEscapes
  <2> SUFFICES ASSUME IInv, NEW a \in seen, NEW b \in seen,
                      a.plate = b.plate, a.road = b.road,
                      SpeedBetween(a.obs, b.obs) > Limit(a.road)
               PROVE  \E i \in 1 .. Len(issued) :
                        /\ issued[i].plate = a.plate
                        /\ TicketDays(issued[i]) \cap {Day(a.obs), Day(b.obs)} # {}
    BY DEF NoSpeederEscapes
  <2>1. a \in Report /\ b \in Report
    BY DEF IInv, TypeOK
  <2>2. /\ a = [plate |-> a.plate, road |-> a.road, obs |-> a.obs]
        /\ b = [plate |-> a.plate, road |-> a.road, obs |-> b.obs]
        /\ a.plate \in Plates /\ a.road \in Roads
        /\ a.obs \in Observations /\ b.obs \in Observations
    BY <2>1 DEF Report
  <2>3. \/ a.obs \notin cars[a.plate].observations[a.road]
        \/ b.obs \notin cars[a.plate].observations[a.road]
    BY <2>2 DEF IInv, KeptIsLegal
  <2>4. Day(a.obs) \in cars[a.plate].ticketed \/ Day(b.obs) \in cars[a.plate].ticketed
    BY <2>2, <2>3 DEF IInv, KeptIsUnticketed
  <2> QED
    BY <2>2, <2>4 DEF IInv, TicketedDays
<1> QED
  BY <1>1, Invariance, PTL
================================================================================
