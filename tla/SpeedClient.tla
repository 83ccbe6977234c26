------------------------------- MODULE SpeedClient -----------------------------
(* 06_speed: the task of one client, byte by byte: IOPair::read (bio.rs) and    *)
(* the three loops of clients.rs, each a select of the read and the heartbeat.  *)
(* SpeedServer has many such clients, but messages instead of bytes.            *)
EXTENDS SpeedWire

CONSTANTS
  Scripts,      \* the sequences of messages that the peer may send
  Unspeakable,  \* messages whose Debug text makes an error over 255 bytes long
  MaxBeats      \* bound: how many heartbeats are sent

ASSUME ClientAssumption == MaxBeats \in Nat /\ Scripts \subseteq Seq(Message)

VARIABLES
  script,   \* what the peer sends
  taken,    \* how many bytes of it have been read from the socket
  buffer,   \* IOPair::buffer, up to write_idx
  role,     \* the loop the task is in: "unid", "camera", "dispatcher"
  camera,   \* the camera it runs as, if any
  beating,  \* Heartbeat::is_beating
  status,   \* "running", "over" (wrapped_run has returned), "gone", "panicked"
  why,      \* how wrapped_run returned: "", "eof", "io", "protocol"
  told,     \* history: the events sent to the main task
  handled,  \* history: how many messages were accepted
  beats     \* history: how many heartbeats were sent

ioVars == <<script, taken, buffer>>
clientVars == <<script, taken, buffer, role, camera, beating, status, why, told, handled, beats>>

Stream == EncodedAll(script)
Zero == <<0, 0, 0, 0>>
NoCamera == [type |-> "none"]

Return(reason) == status' = "over" /\ why' = reason
Stays == UNCHANGED <<status, why>>

--------------------------------------------------------------------------------
(* IOPair::read.  Whatever part of the stream has arrived and fits is taken.    *)

\* A mutant: the room in the buffer is not looked at.
Fill_overruns ==
  /\ status = "running"
  /\ IsPartial(buffer)
  /\ \E n \in 1 .. BuffSize :
       /\ taken + n <= Len(Stream)
       /\ buffer' = buffer \o SubSeq(Stream, taken + 1, taken + n)
       /\ taken' = taken + n
  /\ UNCHANGED <<script, role, camera, beating, status, why, told, handled, beats>>

\* A mutant: the last byte of the buffer is never used.
Fill_offByOne ==
  /\ status = "running"
  /\ IsPartial(buffer)
  /\ \E n \in 1 .. BuffSize - Len(buffer) - 1 :
       /\ taken + n <= Len(Stream)
       /\ buffer' = buffer \o SubSeq(Stream, taken + 1, taken + n)
       /\ taken' = taken + n
  /\ UNCHANGED <<script, role, camera, beating, status, why, told, handled, beats>>

Fill ==
  /\ status = "running"
  /\ IsPartial(buffer)
  /\ \E n \in 1 .. BuffSize - Len(buffer) :
       /\ taken + n <= Len(Stream)
       /\ buffer' = buffer \o SubSeq(Stream, taken + 1, taken + n)
       /\ taken' = taken + n
  /\ UNCHANGED <<script, role, camera, beating, status, why, told, handled, beats>>

(* There is no room for the rest of the message: the read returns 0 bytes.      *)
Full ==
  /\ status = "running"
  /\ IsPartial(buffer)
  /\ Len(buffer) = BuffSize
  /\ Return("protocol")
  /\ UNCHANGED <<ioVars, role, camera, beating, told, handled, beats>>

\* A mutant: the end of input is noticed before the buffer is looked at.
Eof_hasty ==
  /\ status = "running"
  /\ Len(buffer) < BuffSize
  /\ Return("eof")
  /\ UNCHANGED <<ioVars, role, camera, beating, told, handled, beats>>

(* The peer has hung up, after as many bytes as it liked.                       *)
Eof ==
  /\ status = "running"
  /\ IsPartial(buffer)
  /\ Len(buffer) < BuffSize
  /\ Return("eof")
  /\ UNCHANGED <<ioVars, role, camera, beating, told, handled, beats>>

Illegal ==
  /\ status = "running"
  /\ IsIllegal(buffer)
  /\ Return("protocol")
  /\ UNCHANGED <<ioVars, role, camera, beating, told, handled, beats>>

--------------------------------------------------------------------------------
(* What the loops make of a message.                                            *)

Arrives(type) ==
  /\ status = "running"
  /\ IsWhole(buffer)
  /\ Decoded(buffer).type = type

Accepts(events) ==
  /\ buffer' = Rest(buffer)
  /\ handled' = handled + 1
  /\ told' = told \o events
  /\ Stays
  /\ UNCHANGED <<script, taken, beats>>

IAmCamera ==
  /\ role = "unid"
  /\ Arrives("camera")
  /\ role' = "camera"
  /\ camera' = Decoded(buffer)
  /\ Accepts(<<[type |-> "camera"]>>)
  /\ UNCHANGED beating

IAmDispatcher ==
  /\ role = "unid"
  /\ Arrives("dispatcher")
  /\ role' = "dispatcher"
  /\ Accepts(<<Decoded(buffer)>>)
  /\ UNCHANGED <<camera, beating>>

Plate ==
  /\ role = "camera"
  /\ Arrives("plate")
  /\ Accepts(<<[type |-> "observation", plate |-> Decoded(buffer).plate,
                timestamp |-> Decoded(buffer).timestamp,
                road |-> camera.road, mile |-> camera.mile, limit |-> camera.limit]>>)
  /\ UNCHANGED <<role, camera, beating>>

(* An interval of zero leaves the heart still, and lets the client ask again.   *)
WantHeartbeat ==
  /\ Arrives("heartbeat")
  /\ ~ beating
  /\ beating' = (Decoded(buffer).interval # Zero)
  /\ Accepts(<<>>)
  /\ UNCHANGED <<role, camera>>

Misplaced(type) ==
  CASE type = "camera"     -> role # "unid"
    [] type = "dispatcher" -> role # "unid"
    [] type = "plate"      -> role # "camera"
    [] type = "heartbeat"  -> beating

(* The message is an error here; LPString::from panics if the text is too long. *)
Misuse ==
  /\ \E type \in {"camera", "dispatcher", "plate", "heartbeat"} :
       Arrives(type) /\ Misplaced(type)
  /\ buffer' = Rest(buffer)
  /\ IF Decoded(buffer) \in Unspeakable
     THEN status' = "panicked" /\ UNCHANGED why
     ELSE Return("protocol")
  /\ UNCHANGED <<script, taken, role, camera, beating, told, handled, beats>>

--------------------------------------------------------------------------------
(* The other branch of the loops, and the end.                                  *)

\* The loop of a dispatcher has no branch for the heart.
MayBeat == status = "running" /\ beating /\ role # "dispatcher"

\* A mutant: the heart is forgotten in the loop of a camera as well.
Beat_unidentified ==
  /\ MayBeat
  /\ role = "unid"
  /\ beats < MaxBeats
  /\ beats' = beats + 1
  /\ UNCHANGED <<ioVars, role, camera, beating, status, why, told, handled>>

\* A mutant: the read that the heart interrupts has its bytes in a local buffer.
Beat_loses ==
  /\ MayBeat
  /\ beats < MaxBeats
  /\ beats' = beats + 1
  /\ buffer' = <<>>
  /\ UNCHANGED <<script, taken, role, camera, beating, status, why, told, handled>>

(* The heart beats first and the read is cancelled: its bytes stay in buffer.   *)
Beat ==
  /\ MayBeat
  /\ beats < MaxBeats
  /\ beats' = beats + 1
  /\ UNCHANGED <<ioVars, role, camera, beating, status, why, told, handled>>

(* The connection fails while the task reads, or writes a heartbeat or ticket.  *)
Fail ==
  /\ status = "running"
  /\ IsPartial(buffer) \/ MayBeat \/ role = "dispatcher"
  /\ Return("io")
  /\ UNCHANGED <<ioVars, role, camera, beating, told, handled, beats>>

(* run: the error is written, unless the input has ended, the socket shut down. *)
Finish ==
  /\ status = "over"
  /\ status' = "gone"
  /\ told' = Append(told, [type |-> "gone"])
  /\ UNCHANGED <<ioVars, role, camera, beating, why, handled, beats>>

--------------------------------------------------------------------------------

ClientInit ==
  /\ script \in Scripts
  /\ taken = 0
  /\ buffer = <<>>
  /\ role = "unid"
  /\ camera = NoCamera
  /\ beating = FALSE
  /\ status = "running"
  /\ why = ""
  /\ told = <<>>
  /\ handled = 0
  /\ beats = 0

Reacts == IAmCamera \/ IAmDispatcher \/ Plate \/ WantHeartbeat \/ Misuse \/ Illegal \/ Full

ClientNext == Reacts \/ Fill \/ Eof \/ Beat \/ Fail \/ Finish

(* The bytes that the peer sends arrive, the task is polled, and its timer      *)
(* fires.  Nobody is obliged to hang up.                                        *)
ClientFairness ==
  /\ WF_clientVars(Reacts)
  /\ WF_clientVars(Fill)
  /\ WF_clientVars(Beat)
  /\ WF_clientVars(Finish)

ClientSpec == ClientInit /\ [][ClientNext]_clientVars /\ ClientFairness

--------------------------------------------------------------------------------
(* Properties *)

ClientTypeOK ==
  /\ script \in Scripts
  /\ taken \in 0 .. Len(Stream)
  /\ buffer \in Seq(Byte) /\ Len(buffer) <= BuffSize
  /\ role \in {"unid", "camera", "dispatcher"}
  /\ (role = "camera") = (camera.type = "camera")
  /\ beating \in BOOLEAN
  /\ status \in {"running", "over", "gone", "panicked"}
  /\ why \in {"", "eof", "io", "protocol"}
  /\ handled \in 0 .. Len(script)
  /\ beats \in 0 .. MaxBeats

(* A client that sends what it has to say and hangs up at once is heard to the  *)
(* end: an end of input counts only when no whole message is left in the        *)
(* buffer (bio.rs:281, 311-317), whatever the reads were cut into.             *)
EofLosesNothing ==
  why = "eof" =>
    handled = Cardinality({i \in 1 .. Len(script) :
                             Len(EncodedAll(SubSeq(script, 1, i))) <= taken})

(* A client that keeps to the protocol and stays is heard: however its bytes    *)
(* arrive, they are put together to all its messages (bio.rs:275-333), also     *)
(* when one fills the buffer to the last byte.                                  *)
AllHandled == <>(handled = Len(script) \/ status # "running")

(* The messages that do not fit into the buffer.                                *)
TooLong == {m \in UNION {ToSet(s) : s \in Scripts} : Len(Encoded(m)) > BuffSize}

SessionState ==
  CASE status = "running" -> "open"
    [] status = "over" -> IF why = "protocol" THEN "accused" ELSE "left"
    [] status = "gone" -> "gone"
    [] status = "panicked" -> "dead"

Session == INSTANCE SpeedSession WITH state <- SessionState

(* Byte by byte the task does what SpeedSession says message by message: the    *)
(* cuts that TCP makes and the heartbeats that cancel a read half way           *)
(* (clients.rs:114-154, 164-191) make no difference, observations carry the     *)
(* position of their camera, and nobody is accused of another's error.          *)
ImplementsSession == Session!SessionSpec

(* A client that asked for heartbeats gets one, as long as it is not a          *)
(* dispatcher (clients.rs:151, 188): neither a busy peer nor a change of loop   *)
(* stops the heart.                                                             *)
HeartIsHeard ==
  status = "running" /\ beating /\ role # "dispatcher"
    ~> beats > 0 \/ status # "running" \/ role = "dispatcher"
================================================================================
