------------------------------ MODULE SpeedSession -----------------------------
(* What a client of 06_speed may rely on, message by message: its messages are  *)
(* handled in order as long as they keep to the protocol, the main task is told *)
(* of them and, once, of the end, and nobody is accused of an error that it did *)
(* not make.                                                                    *)
EXTENDS Integers, SequencesExt

CONSTANTS
  Scripts,       \* the sequences of messages that clients may send
  ArrLen,        \* how many roads of a dispatcher are heard
  TooLong,       \* messages that no client should send
  Unspeakable    \* messages, as understood, that cannot even be complained about

VARIABLES
  script,   \* the messages this client sends
  handled,  \* how many of them have been handled
  state,    \* "open", "left", "accused", "gone", "dead"
  told      \* what the main task has been told

sessionVars == <<script, handled, state, told>>

Identifies(m) == m.type \in {"camera", "dispatcher"}
Zero == <<0, 0, 0, 0>>

(* A client identifies itself once, reports plates only as a camera, and asks   *)
(* for nothing more about heartbeats once it has some.                          *)
Fits(m, before) ==
  CASE Identifies(m) -> \A b \in ToSet(before) : ~ Identifies(b)
    [] m.type = "plate" -> \E b \in ToSet(before) : b.type = "camera"
    [] m.type = "heartbeat" ->
         \A b \in ToSet(before) : b.type = "heartbeat" => b.interval = Zero
    [] m.type = "other" -> FALSE

MayHandle(m) == m \notin TooLong /\ Fits(m, SubSeq(script, 1, handled))

Heard(roads) == SubSeq(roads, 1, IF Len(roads) < ArrLen THEN Len(roads) ELSE ArrLen)

(* All that is known of a message once it is read.                              *)
Understood(m) == IF m.type = "dispatcher" THEN [m EXCEPT !.roads = Heard(@)] ELSE m

TheCamera == CHOOSE b \in ToSet(SubSeq(script, 1, handled)) : b.type = "camera"

(* What the main task is told of a message.                                     *)
Tells(m) ==
  CASE m.type = "camera" -> <<[type |-> "camera"]>>
    [] m.type = "dispatcher" -> <<[type |-> "dispatcher", roads |-> Heard(m.roads)]>>
    [] m.type = "plate" ->
         <<[type |-> "observation", plate |-> m.plate, timestamp |-> m.timestamp,
            road |-> TheCamera.road, mile |-> TheCamera.mile, limit |-> TheCamera.limit]>>
    [] m.type = "heartbeat" -> <<>>

SessionInit ==
  /\ script \in Scripts
  /\ handled = 0
  /\ state = "open"
  /\ told = <<>>

Upcoming == script[handled + 1]

Hear ==
  /\ state = "open"
  /\ handled < Len(script)
  /\ MayHandle(Upcoming)
  /\ handled' = handled + 1
  /\ told' = told \o Tells(Upcoming)
  /\ UNCHANGED <<script, state>>

(* Only a message that may not be handled gets its sender into trouble.         *)
Accuse ==
  /\ state = "open"
  /\ handled < Len(script)
  /\ ~ MayHandle(Upcoming)
  /\ state' \in {"accused"} \cup (IF Understood(Upcoming) \in Unspeakable THEN {"dead"} ELSE {})
  /\ UNCHANGED <<script, handled, told>>

(* The client hangs up or its connection fails.                                 *)
Leave == state = "open" /\ state' = "left" /\ UNCHANGED <<script, handled, told>>

SayGoodbye ==
  /\ state \in {"left", "accused"}
  /\ state' = "gone"
  /\ told' = Append(told, [type |-> "gone"])
  /\ UNCHANGED <<script, handled>>

SessionNext == Hear \/ Accuse \/ Leave \/ SayGoodbye

SessionSpec == SessionInit /\ [][SessionNext]_sessionVars
================================================================================
