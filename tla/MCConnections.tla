----------------------------- MODULE MCConnections -----------------------------
(* What the tasks of connections do with the bytes and lines they read: one     *)
(* client of 06_speed with every short script, or two connections of 01_primes. *)
(* The two servers share nothing; a behaviour is one of the one or the other.   *)
EXTENDS SpeedClient, PrimeServer

VARIABLE server

mcVars == <<server, clientVars, primeVars>>

Number == <<0, 32>>        \* the bytes of numbers may look like types of messages
Camera == [type |-> "camera", road |-> Number, mile |-> <<128, 1>>, limit |-> <<0, 60>>]
Dispatcher(n) == [type |-> "dispatcher", roads |-> [i \in 1 .. n |-> Number]]
Report(n) == [type |-> "plate", plate |-> [i \in 1 .. n |-> 64], timestamp |-> <<0, 0, 0, 7>>]
Heartbeat(n) == [type |-> "heartbeat", interval |-> <<0, 0, 0, n>>]
Other == [type |-> "other", byte |-> 33]

(* A report of three letters fills the buffer of 9 bytes, a dispatcher of three *)
(* roads is heard with two of them, and one of four roads does not fit.         *)
Letters ==
  {Camera, Dispatcher(1), Dispatcher(3), Dispatcher(4), Report(0), Report(3),
   Heartbeat(0), Heartbeat(5), Other}

MCScripts ==
  {<<>>} \cup [1 .. 1 -> Letters] \cup [1 .. 2 -> Letters]
    \cup {<<a, b, c>> : a \in {Camera, Heartbeat(0), Heartbeat(5)},
                        b \in {Camera, Dispatcher(1), Report(3)},
                        c \in Letters \ {Other}}

(* The texts about these are taken to be too long.                              *)
MCUnspeakable == {Dispatcher(2), Report(3)}

MCLines ==
  {[kind |-> "malformed", n |-> 0], [kind |-> "fraction", n |-> 0]}
    \cup [kind : {"integer"}, n : {1, 5, 9, 35, 53}]

MCInit ==
  /\ server \in {"speed", "primes"}
  /\ ClientInit
  /\ PrimeInit
  /\ server = "primes" => script = <<>>

MCNext ==
  \/ server = "speed" /\ ClientNext /\ UNCHANGED <<server, primeVars>>
  \/ server = "primes" /\ PrimeNext /\ UNCHANGED <<server, clientVars>>

MCSpec == MCInit /\ [][MCNext]_mcVars /\ ClientFairness
================================================================================
