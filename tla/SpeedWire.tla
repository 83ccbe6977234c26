------------------------------- MODULE SpeedWire -------------------------------
(* 06_speed: how the messages of clients are read from bytes (bio.rs).          *)
(*                                                                              *)
(* A message is a record; its numbers stay the bytes they are sent as, since    *)
(* only where a message ends depends on them.                                   *)
EXTENDS Integers, SequencesExt

CONSTANTS
  BuffSize,  \* IO_BUFF_SIZE
  ArrLen     \* LPU16ARR_LEN

ASSUME WireAssumption ==
  /\ BuffSize \in Nat \ {0}
  /\ ArrLen \in Nat

PlateByte == 32
HeartbeatByte == 64
CameraByte == 128
DispatcherByte == 129

Byte == 0 .. 255
Word == [1 .. 2 -> Byte]
DoubleWord == [1 .. 4 -> Byte]

(* The messages that a client can send; their texts and lists have a length of  *)
(* one byte.                                                                    *)
Message ==
  [type : {"plate"}, plate : {p \in Seq(Byte) : Len(p) <= 255}, timestamp : DoubleWord]
    \cup [type : {"heartbeat"}, interval : DoubleWord]
    \cup [type : {"camera"}, road : Word, mile : Word, limit : Word]
    \cup [type : {"dispatcher"}, roads : {r \in Seq(Word) : Len(r) <= 255}]
    \cup [type : {"other"},
          byte : Byte \ {PlateByte, HeartbeatByte, CameraByte, DispatcherByte}]

(* What a client sends for a message; "other" stands for an unknown type.       *)
Encoded(m) ==
  CASE m.type = "plate"      -> <<PlateByte, Len(m.plate)>> \o m.plate \o m.timestamp
    [] m.type = "heartbeat"  -> <<HeartbeatByte>> \o m.interval
    [] m.type = "camera"     -> <<CameraByte>> \o m.road \o m.mile \o m.limit
    [] m.type = "dispatcher" -> <<DispatcherByte, Len(m.roads)>> \o FlattenSeq(m.roads)
    [] m.type = "other"      -> <<m.byte>>

EncodedAll(msgs) == FlattenSeq([i \in 1 .. Len(msgs) |-> Encoded(msgs[i])])

--------------------------------------------------------------------------------
(* inner_read *)

(* How many bytes the message needs that the bytes begin with, as far as they   *)
(* tell.                                                                        *)
MessageLength(bytes) ==
  CASE bytes[1] = PlateByte      -> IF Len(bytes) < 2 THEN 2 ELSE 2 + bytes[2] + 4
    [] bytes[1] = HeartbeatByte  -> 5
    [] bytes[1] = CameraByte     -> 7
    [] bytes[1] = DispatcherByte -> IF Len(bytes) < 2 THEN 2 ELSE 2 + 2 * bytes[2]

KnownType(bytes) ==
  /\ bytes # <<>>
  /\ bytes[1] \in {PlateByte, HeartbeatByte, CameraByte, DispatcherByte}

(* Not even the first byte, or not all that follow: Err(UnexpectedEof).         *)
IsPartial(bytes) ==
  \/ bytes = <<>>
  \/ KnownType(bytes) /\ Len(bytes) < MessageLength(bytes)

(* Err(InvalidData)                                                             *)
IsIllegal(bytes) == bytes # <<>> /\ ~ KnownType(bytes)

IsWhole(bytes) == ~ IsPartial(bytes) /\ ~ IsIllegal(bytes)

(* read_lpu16arr stores at most ArrLen roads and reads past the others.         *)
RoadsOf(bytes, n) ==
  [i \in 1 .. IF n < ArrLen THEN n ELSE ArrLen |-> SubSeq(bytes, 2 * i + 1, 2 * i + 2)]

(* The message at the beginning of the bytes, when it is whole.                 *)
Decoded(bytes) ==
  CASE bytes[1] = PlateByte ->
         [type |-> "plate", plate |-> SubSeq(bytes, 3, 2 + bytes[2]),
          timestamp |-> SubSeq(bytes, 3 + bytes[2], 6 + bytes[2])]
    [] bytes[1] = HeartbeatByte ->
         [type |-> "heartbeat", interval |-> SubSeq(bytes, 2, 5)]
    [] bytes[1] = CameraByte ->
         [type |-> "camera", road |-> SubSeq(bytes, 2, 3), mile |-> SubSeq(bytes, 4, 5),
          limit |-> SubSeq(bytes, 6, 7)]
    [] bytes[1] = DispatcherByte ->
         [type |-> "dispatcher", roads |-> RoadsOf(bytes, bytes[2])]

(* The bytes after the message are moved to the front of the buffer.            *)
Rest(bytes) == SubSeq(bytes, MessageLength(bytes) + 1, Len(bytes))
================================================================================
