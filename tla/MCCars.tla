-------------------------------- MODULE MCCars ---------------------------------
(* Two vehicles on two roads.  The observations lie around two midnights, so    *)
(* that infractions happen within a day, across a midnight and over three days. *)
EXTENDS Cars, TLC

CONSTANTS v1, v2

MCPlates == {v1, v2}
MCRoads == {1, 2}
\* 120 mph is too fast on the first road and just legal on the second.
MCPosted == [r \in MCRoads |-> IF r = 1 THEN 60 ELSE 120]

At(m, t) == [mile |-> m, timestamp |-> t]

MCObservations ==
  {At(0, 86100),    \* day 0, five minutes before midnight
   At(30, 86399),   \* day 0, 361 mph after the first
   At(10, 86400),   \* day 1, 120 mph after the first, on the other side of
                    \* midnight, and out of range (72000 mph) after the second
   At(2500, 172800)}\* day 2, about 104 mph after each of these

Symmetry == Permutations(MCPlates)
================================================================================
