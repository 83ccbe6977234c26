---------------------------------- MODULE Obs ----------------------------------
(* The arithmetic of 06_speed/src/obs.rs: the day of an observation and the     *)
(* average speed between two of them.  An observation is where (mile) and when  *)
(* (timestamp, in seconds) a camera saw a vehicle.                              *)
EXTENDS Integers

U16Max == 65535
U16 == 0 .. U16Max

Obs == [mile : U16, timestamp : Nat]

SecondsPerDay == 86400

Day(o) == o.timestamp \div SecondsPerDay

Distance(a, b) == IF a > b THEN a - b ELSE b - a

(* Hundredths of miles per hour, truncated once, by the division.  Equal        *)
(* timestamps and speeds too large for a u16 count as standing still.  The code *)
(* divides signed numbers and takes the absolute value of the quotient, which   *)
(* truncates towards zero: the quotient of the absolute values is the same.     *)
HundredthsPerMilePerSecond == 100 * 3600

RawSpeed(o, p) ==
  (Distance(o.mile, p.mile) * HundredthsPerMilePerSecond)
    \div Distance(o.timestamp, p.timestamp)

\* A mutant: the guard against speeds beyond a u16 forgotten.
SpeedBetween_uncapped(o, p) ==
  IF o.timestamp = p.timestamp THEN 0 ELSE RawSpeed(o, p)

SpeedBetween(o, p) ==
  IF o.timestamp = p.timestamp \/ RawSpeed(o, p) > U16Max
  THEN 0
  ELSE RawSpeed(o, p)

(* A camera reports its limit in miles per hour as a u16 and the client task    *)
(* scales it in u16 arithmetic, which wraps in the release build that the       *)
(* Dockerfile makes.                                                            *)
ScaledLimit(mph) == (mph * 100) % (U16Max + 1)
================================================================================
