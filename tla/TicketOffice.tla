------------------------------ MODULE TicketOffice ------------------------------
(* What 06_speed promises about tickets, without saying how: a ticket is issued *)
(* once; it waits until it is handed to a client that announced its road; that  *)
(* client delivers it at most once.  A ticket gets lost only by the fault of a  *)
(* client that has left, and is never handed to a second one.                   *)
EXTENDS Integers

CONSTANTS Tickets, Desks, Roads

VARIABLES
  duty,       \* the roads each desk has announced
  left,       \* the desks whose connection is over
  waiting,    \* the tickets issued but not handed to anybody
  handed,     \* <<ticket, desk>>: on its way through that desk
  delivered,  \* <<ticket, desk>>: written to that desk's connection
  lost        \* the tickets that will never be delivered

officeVars == <<duty, left, waiting, handed, delivered, lost>>

Fresh(t) ==
  /\ t \notin waiting \cup lost
  /\ \A d \in Desks : <<t, d>> \notin handed \cup delivered

OfficeInit ==
  /\ duty = [d \in Desks |-> {}]
  /\ left = {}
  /\ waiting = {}
  /\ handed = {}
  /\ delivered = {}
  /\ lost = {}

Announce(d) ==
  /\ duty[d] = {}
  /\ d \notin left
  /\ \E roads \in SUBSET Roads : duty' = [duty EXCEPT ![d] = roads]
  /\ UNCHANGED <<left, waiting, handed, delivered, lost>>

Issue(t) ==
  /\ Fresh(t)
  /\ waiting' = waiting \cup {t}
  /\ UNCHANGED <<duty, left, handed, delivered, lost>>

Hand(t, d) ==
  /\ t \in waiting
  /\ t.road \in duty[d]
  /\ waiting' = waiting \ {t}
  /\ handed' = handed \cup {<<t, d>>}
  /\ UNCHANGED <<duty, left, delivered, lost>>

Deliver(t, d) ==
  /\ <<t, d>> \in handed
  /\ d \notin left
  /\ handed' = handed \ {<<t, d>>}
  /\ delivered' = delivered \cup {<<t, d>>}
  /\ UNCHANGED <<duty, left, waiting, lost>>

(* A desk whose connection ends may take with it what it was handed, then or    *)
(* later.                                                                       *)
Leave(d) ==
  /\ left' = left \cup {d}
  /\ \E taken \in SUBSET {h \in handed : h[2] = d} :
       /\ handed' = handed \ taken
       /\ lost' = lost \cup {h[1] : h \in taken}
  /\ UNCHANGED <<duty, waiting, delivered>>

(* What is handed to a desk that has left is lost as well.                      *)
Refuse(t, d) ==
  /\ t \in waiting
  /\ t.road \in duty[d]
  /\ d \in left
  /\ waiting' = waiting \ {t}
  /\ lost' = lost \cup {t}
  /\ UNCHANGED <<duty, left, handed, delivered>>

OfficeNext ==
  \/ \E t \in Tickets : Issue(t)
  \/ \E d \in Desks : Announce(d) \/ Leave(d)
  \/ \E t \in Tickets, d \in Desks : Hand(t, d) \/ Deliver(t, d) \/ Refuse(t, d)

OfficeSpec == OfficeInit /\ [][OfficeNext]_officeVars
================================================================================
