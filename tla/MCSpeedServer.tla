----------------------------- MODULE MCSpeedServer -----------------------------
(* Two cameras on road 1 and up to two dispatchers, for the two runs of the     *)
(* speed server: many dispatchers and one ticket (MCSpeedRegistry.cfg), and one *)
(* dispatcher and two tickets, with room for one in a channel                   *)
(* (MCSpeedTickets.cfg).                                                        *)
EXTENDS SpeedServer

CONSTANT v1

MCPlates == {v1}

At(m, t) == [mile |-> m, timestamp |-> t]

OneTicket == {At(0, 0), At(10, 300)}                         \* day 0, 120 mph
TwoTickets == OneTicket \cup {At(0, 86400), At(10, 86700)}   \* day 1, 120 mph

MCPosted == [r \in Roads |-> 60]

CameraAt(m) == [kind |-> "camera", road |-> 1, mile |-> m]
DispatcherOf(roads) == [kind |-> "dispatcher", roads |-> roads]

MCIdents ==
  [c \in 0 .. MaxClients - 1 |->
     CASE c = 0 -> {CameraAt(0)}
       [] c = 1 -> {CameraAt(10)}
       [] c = 2 -> {DispatcherOf(<<1>>), DispatcherOf(<<1, 1>>)}
       [] OTHER -> {DispatcherOf(<<2, 1>>)}]
================================================================================
