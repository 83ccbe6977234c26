------------------------------- MODULE LineCodec -------------------------------
(* The payloads of 07_line: how LineReverser::read_data takes the bytes out of  *)
(* a data packet (lrl.rs), how analyze_buffer cuts the byte stream into lines   *)
(* and how Response::data packs a reversed line into packets (types.rs).        *)
(*                                                                              *)
(* A byte is a string: "/" and "\\" are escaped in a payload, "nl" ends a line. *)
EXTENDS Integers, SequencesExt

Escape == "\\"
Newline == "nl"

(* What a peer sends for a sequence of bytes.                                   *)
Escaped(bytes) ==
  FlattenSeq([i \in 1 .. Len(bytes) |->
                IF bytes[i] \in {"/", Escape} THEN <<Escape, bytes[i]>> ELSE <<bytes[i]>>])

--------------------------------------------------------------------------------
(* read_data.  What has been read of a payload: the bytes that are new, the     *)
(* position after the last byte, and whether the payload is still well-formed.  *)

\* A mutant: bytes that are there already are taken again.
Take_again(acc, in_bytes, byte) ==
  [acc EXCEPT !.new = Append(@, byte), !.count = @ + 1]

(* Bytes before in_bytes are only counted.                                      *)
Take(acc, in_bytes, byte) ==
  [acc EXCEPT !.new = IF acc.count < in_bytes THEN @ ELSE Append(@, byte),
              !.count = @ + 1]

\* A mutant: a malformed payload keeps what preceded the error.
TakePair_keep(acc, in_bytes, prev, byte) ==
  CASE ~ acc.ok -> acc
    [] acc.ok /\ byte \notin {"/", Escape} -> Take(acc, in_bytes, byte)
    [] acc.ok /\ byte \in {"/", Escape} /\ prev = Escape -> Take(acc, in_bytes, byte)
    [] OTHER -> acc

(* The loop goes over pairs of adjacent bytes: a "\" is taken only after a "\", *)
(* and a "/" after anything else is an error.                                   *)
TakePair(acc, in_bytes, prev, byte) ==
  CASE ~ acc.ok -> acc
    [] acc.ok /\ byte \notin {"/", Escape} -> Take(acc, in_bytes, byte)
    [] acc.ok /\ byte \in {"/", Escape} /\ prev = Escape -> Take(acc, in_bytes, byte)
    [] acc.ok /\ byte = Escape /\ prev # Escape -> acc
    [] acc.ok /\ byte = "/" /\ prev # Escape -> [acc EXCEPT !.ok = FALSE]

(* The first byte has no predecessor: it is taken unless it is a "\".           *)
Unpacked(in_bytes, start, payload) ==
  LET none == [new |-> <<>>, count |-> start, ok |-> TRUE]
      first == IF payload[1] = Escape THEN none ELSE Take(none, in_bytes, payload[1])
      pairs == [i \in 1 .. Len(payload) - 1 |-> <<payload[i], payload[i + 1]>>] IN
  FoldLeft(LAMBDA acc, w : TakePair(acc, in_bytes, w[1], w[2]), first, pairs)

--------------------------------------------------------------------------------
(* analyze_buffer: the complete lines, reversed, and what is left.              *)

TakeByte(acc, byte) ==
  IF byte = Newline
  THEN [lines |-> Append(acc.lines, Append(Reverse(acc.rest), Newline)), rest |-> <<>>]
  ELSE [acc EXCEPT !.rest = Append(@, byte)]

Cut(buffer) == FoldLeft(TakeByte, [lines |-> <<>>, rest |-> <<>>], buffer)

Reversed(bytes) == FlattenSeq(Cut(bytes).lines)

\* A mutant: the bytes are counted before they are escaped.
PackByte_raw(chunks, byte, room) ==
  IF chunks = <<>> \/ Len(Last(chunks)) >= room
  THEN Append(chunks, <<byte>>)
  ELSE Append(Front(chunks), Append(Last(chunks), byte))

(* Response::data takes bytes while the payload is shorter than the room, so    *)
(* the last one, if it is escaped, may exceed it by one.                        *)
PackByte(chunks, byte, room) ==
  IF chunks = <<>> \/ Len(Escaped(Last(chunks))) >= room
  THEN Append(chunks, <<byte>>)
  ELSE Append(Front(chunks), Append(Last(chunks), byte))

Packed(line, room) ==
  FoldLeft(LAMBDA chunks, byte : PackByte(chunks, byte, room), <<>>, line)

\* A mutant: every packet of a line gets the position of the line.
Positioned_line(chunks, out_bytes) ==
  [i \in 1 .. Len(chunks) |-> [start |-> out_bytes, bytes |-> chunks[i]]]

(* Each packet carries its position in the outgoing stream.                     *)
Positioned(chunks, out_bytes) ==
  [i \in 1 .. Len(chunks) |->
     [start |-> out_bytes + Len(FlattenSeq(SubSeq(chunks, 1, i - 1))),
      bytes |-> chunks[i]]]

DataResponses(lines, out_bytes, room) ==
  FlattenSeq([i \in 1 .. Len(lines) |->
    Positioned(Packed(lines[i], room),
               out_bytes + Len(FlattenSeq(SubSeq(lines, 1, i - 1))))])

EndOf(data) == data.start + Len(data.bytes)
================================================================================
