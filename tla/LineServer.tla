------------------------------- MODULE LineServer -------------------------------
(* 07_line: line reversal over an unreliable datagram protocol.  The main task  *)
(* (main.rs) owns the socket, routes packets to one task per session (lrl.rs)   *)
(* through bounded channels and takes their responses from one unbounded        *)
(* channel.                                                                     *)
(*                                                                              *)
(* The network loses, repeats and reorders packets and a client sends again     *)
(* what is not acknowledged, so any packet that a client may ever send may      *)
(* arrive at any time and any number of times.                                  *)
EXTENDS LineCodec, FiniteSets

CONSTANTS
  Ids,          \* the session ids in use
  Stream,       \* the bytes each client sends, in positions 1 .. Len(Stream)
  Cuts,         \* where a client may begin and end a packet
  Noise,        \* other data packets, as records [count, payload]
  Room,         \* MAX_PACKET_SIZE, less the head of a data packet
  ChanSize,     \* CHAN_SIZE
  MaxSessions,  \* bound: how many sessions are opened
  MaxBacklog    \* bound: nothing is received or retransmitted beyond this queue

Sessions == 1 .. MaxSessions

(* What streams and payloads are made of.                                       *)
Bytes == {Escape, "/"} \cup ToSet(Stream) \cup UNION {ToSet(n.payload) : n \in Noise}

ASSUME LineAssumption ==
  /\ Ids # {}
  /\ Stream \in Seq(Bytes)
  /\ \A n \in Noise : n.count \in Nat /\ n.payload \in Seq(Bytes)
  /\ Cuts \subseteq 0 .. Len(Stream)
  /\ Room \in Nat \ {0}
  /\ ChanSize \in Nat \ {0}
  /\ MaxSessions \in Nat
  /\ MaxBacklog \in Nat

VARIABLES
  clients,    \* main: the session that each id is routed to, 0 if none
  in_hand,    \* main: the packet it waits to send to a session, if any
  opened,     \* how many sessions have been opened
  owner,      \* the id of each session
  alive,      \* the sessions whose task runs
  rx,         \* the channel to each session's task
  lr,         \* the LineReverser of each session
  timers,     \* the retransmission timers of each session
  responses,  \* the channel of responses to the main task
  wire        \* history: the data packets written to each id's client

mainVars == <<clients, in_hand, opened, owner, wire>>
vars == <<mainVars, alive, rx, lr, timers, responses>>

Nothing == <<>>

NewReverser ==
  [buffer |-> <<>>, in_bytes |-> 0, out_bytes |-> 0, current_out |-> {}]

--------------------------------------------------------------------------------
(* What may arrive.                                                             *)

Data(count, payload) == [type |-> "data", count |-> count, payload |-> payload]

Part(from, to) == Data(from, Escaped(SubSeq(Stream, from + 1, to)))

(* A client acknowledges the data packets it got.                               *)
Packets(id) ==
  {[type |-> "connect"], [type |-> "close"]}
    \cup {Part(cut[1], cut[2]) : cut \in {c \in Cuts \X Cuts : c[1] < c[2]}}
    \cup {Data(n.count, n.payload) : n \in Noise}
    \cup {[type |-> "ack", count |-> EndOf(d)] : d \in wire[id]}

--------------------------------------------------------------------------------
(* The main task *)

(* A packet for a session: main waits until the channel has room for it.        *)
RoutePacket(id, pkt) ==
  /\ in_hand = Nothing
  /\ clients[id] # 0
  /\ Len(responses) < MaxBacklog
  /\ in_hand' = <<[to |-> clients[id], pkt |-> pkt]>>
  /\ UNCHANGED <<clients, opened, owner, wire, alive, rx, lr, timers, responses>>

(* A packet of whatever type with an unknown id opens a session; the packet     *)
(* itself is dropped.                                                           *)
OpenSession(id) ==
  /\ in_hand = Nothing
  /\ clients[id] = 0
  /\ opened < MaxSessions
  /\ Len(responses) < MaxBacklog
  /\ opened' = opened + 1
  /\ clients' = [clients EXCEPT ![id] = opened']
  /\ owner' = [owner EXCEPT ![opened'] = id]
  /\ alive' = alive \cup {opened'}
  /\ UNCHANGED <<in_hand, wire, rx, lr, timers, responses>>

\* A mutant: the capacity of the channel is off by one.
SendPacket_offByOne ==
  /\ in_hand # Nothing
  /\ LET k == in_hand[1].to IN
       IF k \in alive
       THEN /\ Len(rx[k]) <= ChanSize
            /\ rx' = [rx EXCEPT ![k] = Append(@, in_hand[1].pkt)]
       ELSE UNCHANGED rx
  /\ in_hand' = Nothing
  /\ UNCHANGED <<clients, opened, owner, wire, alive, lr, timers, responses>>

\* A mutant: a session whose channel is closed is forgotten at once.
SendPacket_forget ==
  /\ in_hand # Nothing
  /\ LET k == in_hand[1].to IN
       IF k \in alive
       THEN /\ Len(rx[k]) < ChanSize
            /\ rx' = [rx EXCEPT ![k] = Append(@, in_hand[1].pkt)]
            /\ UNCHANGED clients
       ELSE /\ clients' = [clients EXCEPT ![owner[k]] = 0]
            /\ UNCHANGED rx
  /\ in_hand' = Nothing
  /\ UNCHANGED <<opened, owner, wire, alive, lr, timers, responses>>

(* The send fails, which is only logged, when the task has returned.            *)
SendPacket ==
  /\ in_hand # Nothing
  /\ LET k == in_hand[1].to IN
       IF k \in alive
       THEN /\ Len(rx[k]) < ChanSize
            /\ rx' = [rx EXCEPT ![k] = Append(@, in_hand[1].pkt)]
       ELSE UNCHANGED rx
  /\ in_hand' = Nothing
  /\ UNCHANGED <<clients, opened, owner, wire, alive, lr, timers, responses>>

(* A response is looked up by id and written to the client; a close also ends   *)
(* the routing.                                                                 *)
Respond ==
  /\ in_hand = Nothing
  /\ responses # <<>>
  /\ LET r == Head(responses) IN
       /\ wire' = IF clients[r.id] # 0 /\ r.type = "data"
                  THEN [wire EXCEPT ![r.id] = @ \cup {r.data}]
                  ELSE wire
       /\ clients' = IF r.type = "close" THEN [clients EXCEPT ![r.id] = 0] ELSE clients
  /\ responses' = Tail(responses)
  /\ UNCHANGED <<in_hand, opened, owner, alive, rx, lr, timers>>

--------------------------------------------------------------------------------
(* A session's task: lrl::run *)

Ack(k, count) == [id |-> owner[k], type |-> "ack", from |-> k, count |-> count]
DataOf(k, data) == [id |-> owner[k], type |-> "data", from |-> k, data |-> data]
Close(k) == [id |-> owner[k], type |-> "close", from |-> k]

(* A close is sent and the task returns: its channel goes with it.              *)
Ends(k) ==
  /\ responses' = Append(responses, Close(k))
  /\ alive' = alive \ {k}
  /\ rx' = [rx EXCEPT ![k] = <<>>]
  /\ lr' = [lr EXCEPT ![k] = NewReverser]
  /\ timers' = [timers EXCEPT ![k] = {}]
  /\ UNCHANGED mainVars

(* The select takes a packet.                                                   *)
Receives(k, type) ==
  /\ k \in alive
  /\ rx[k] # <<>>
  /\ Head(rx[k]).type = type

Taken(k) == rx' = [rx EXCEPT ![k] = Tail(@)]

(* A packet is taken, whatever becomes of it.                                   *)
Takes(k) == k \in alive /\ rx[k] # <<>> /\ Taken(k)

HandleConnect(k) ==
  /\ Receives(k, "connect")
  /\ Taken(k)
  /\ responses' = Append(responses, Ack(k, 0))
  /\ UNCHANGED <<mainVars, alive, lr, timers>>

HandleClose(k) == Receives(k, "close") /\ Ends(k)

(* An acknowledgement of data that were never sent ends the session.            *)
HandleAck(k) ==
  /\ Receives(k, "ack")
  /\ LET count == Head(rx[k]).count
         acked == {d \in lr[k].current_out : EndOf(d) = count} IN
       \/ /\ acked = {}
          /\ count > lr[k].out_bytes
          /\ Ends(k)
       \/ /\ acked # {} \/ count <= lr[k].out_bytes
          /\ lr' = [lr EXCEPT ![k].current_out = @ \ acked]
          /\ Taken(k)
          /\ UNCHANGED <<mainVars, alive, timers, responses>>

(* The outcome of read_data when there is something to read: the bytes are      *)
(* buffered, the position moves, and complete lines are sent and timed.         *)
ReadNew(k, read) ==
  LET cut == Cut(lr[k].buffer \o read.new)
      datas == DataResponses(cut.lines, lr[k].out_bytes, Room) IN
  /\ lr' = [lr EXCEPT ![k] =
              [buffer |-> cut.rest,
               in_bytes |-> read.count,
               out_bytes |-> @.out_bytes + Len(FlattenSeq(cut.lines)),
               current_out |-> @.current_out \cup ToSet(datas)]]
  /\ timers' = [timers EXCEPT ![k] = @ \cup {EndOf(d) : d \in ToSet(datas)}]
  /\ responses' = responses \o <<Ack(k, read.count)>>
                            \o [i \in 1 .. Len(datas) |-> DataOf(k, datas[i])]

\* A mutant: a packet at the position that is expected next counts as a gap.
HandleData_gap(k) ==
  /\ Receives(k, "data")
  /\ LET pkt == Head(rx[k])
         read == Unpacked(lr[k].in_bytes, pkt.count, pkt.payload) IN
       \/ /\ pkt.count >= lr[k].in_bytes
          /\ responses' = Append(responses, Ack(k, lr[k].in_bytes))
          /\ UNCHANGED <<lr, timers>>
       \/ /\ pkt.count < lr[k].in_bytes
          /\ pkt.count + Len(pkt.payload) > lr[k].in_bytes
          /\ read.ok
          /\ ReadNew(k, read)
       \/ /\ pkt.count < lr[k].in_bytes
          /\ pkt.count + Len(pkt.payload) <= lr[k].in_bytes \/ ~ read.ok
          /\ UNCHANGED <<lr, timers, responses>>
  /\ Taken(k)
  /\ UNCHANGED <<mainVars, alive>>

(* A packet behind a gap is answered with the position of the gap.  One that    *)
(* cannot hold anything new, going by the length of its escaped payload, and    *)
(* one with an unescaped "/" are passed over in silence.                        *)
HandleData(k) ==
  /\ Receives(k, "data")
  /\ LET pkt == Head(rx[k])
         read == Unpacked(lr[k].in_bytes, pkt.count, pkt.payload) IN
       \/ /\ pkt.count > lr[k].in_bytes
          /\ responses' = Append(responses, Ack(k, lr[k].in_bytes))
          /\ UNCHANGED <<lr, timers>>
       \/ /\ pkt.count <= lr[k].in_bytes
          /\ pkt.count + Len(pkt.payload) > lr[k].in_bytes
          /\ read.ok
          /\ ReadNew(k, read)
       \/ /\ pkt.count <= lr[k].in_bytes
          /\ pkt.count + Len(pkt.payload) <= lr[k].in_bytes \/ ~ read.ok
          /\ UNCHANGED <<lr, timers, responses>>
  /\ Taken(k)
  /\ UNCHANGED <<mainVars, alive>>

\* A mutant: a packet is retransmitted only once.
Expire_once(k, count) ==
  /\ k \in alive
  /\ count \in timers[k]
  /\ Len(responses) < MaxBacklog
  /\ LET due == {d \in lr[k].current_out : EndOf(d) = count} IN
       /\ responses' = responses \o SetToSeq({DataOf(k, d) : d \in due})
       /\ timers' = [timers EXCEPT ![k] = @ \ {count}]
  /\ UNCHANGED <<mainVars, alive, rx, lr>>

(* A retransmission timer runs out: if its packet is not acknowledged, it is    *)
(* sent and timed again.                                                        *)
Expire(k, count) ==
  /\ k \in alive
  /\ count \in timers[k]
  /\ Len(responses) < MaxBacklog
  /\ LET due == {d \in lr[k].current_out : EndOf(d) = count} IN
       /\ responses' = responses \o SetToSeq({DataOf(k, d) : d \in due})
       /\ timers' = IF due = {} THEN [timers EXCEPT ![k] = @ \ {count}] ELSE timers
  /\ UNCHANGED <<mainVars, alive, rx, lr>>

(* Nothing was received for a long time.                                        *)
TimeOut(k) == k \in alive /\ Ends(k)

--------------------------------------------------------------------------------

Init ==
  /\ clients = [id \in Ids |-> 0]
  /\ in_hand = Nothing
  /\ opened = 0
  /\ owner = [k \in Sessions |-> CHOOSE id \in Ids : TRUE]
  /\ alive = {}
  /\ rx = [k \in Sessions |-> <<>>]
  /\ lr = [k \in Sessions |-> NewReverser]
  /\ timers = [k \in Sessions |-> {}]
  /\ responses = <<>>
  /\ wire = [id \in Ids |-> {}]

Receive(k) == HandleConnect(k) \/ HandleClose(k) \/ HandleAck(k) \/ HandleData(k)

SessionStep(k) ==
  \/ Receive(k)
  \/ \E count \in timers[k] : Expire(k, count)
  \/ TimeOut(k)

Next ==
  \/ \E id \in Ids : OpenSession(id) \/ \E pkt \in Packets(id) : RoutePacket(id, pkt)
  \/ SendPacket
  \/ Respond
  \/ \E k \in Sessions : SessionStep(k)

Spec == Init /\ [][Next]_vars

(* Where the data packets of the answer to the stream end.                      *)
AnswerEnds ==
  {EndOf(d) : d \in ToSet(DataResponses(Cut(Stream).lines, 0, Room))}

(* A part with the byte that comes next arrives for the session.                *)
RouteWanted(id) ==
  /\ clients[id] # 0
  /\ \E from, to \in Cuts :
       /\ from <= lr[clients[id]].in_bytes
       /\ lr[clients[id]].in_bytes < to
       /\ RoutePacket(id, Part(from, to))

(* The tasks run whenever they can and timers run out.  A client that is not    *)
(* answered sends every part of its stream again and again, and the network     *)
(* does not lose for ever what the session waits for.                           *)
Fairness ==
  /\ WF_vars(SendPacket \/ Respond)
  /\ \A k \in Sessions : WF_rx(Takes(k))
  /\ \A k \in Sessions : \A count \in AnswerEnds : SF_vars(Expire(k, count))
  /\ \A id \in Ids : SF_vars(OpenSession(id))
  /\ \A id \in Ids : SF_vars(RouteWanted(id))

FairSpec == Spec /\ Fairness

--------------------------------------------------------------------------------
(* Properties *)

DataPacket == [start : Nat, bytes : Seq(Bytes)]

Packet ==
  [type : {"connect", "close"}]
    \cup [type : {"ack"}, count : Nat]
    \cup [type : {"data"}, count : Nat, payload : Seq(Bytes)]

Response ==
  [id : Ids, type : {"close"}, from : Sessions]
    \cup [id : Ids, type : {"ack"}, from : Sessions, count : Nat]
    \cup [id : Ids, type : {"data"}, from : Sessions, data : DataPacket]

TypeOK ==
  /\ clients \in [Ids -> 0 .. MaxSessions]
  /\ in_hand \in Seq([to : Sessions, pkt : Packet])
  /\ Len(in_hand) <= 1
  /\ opened \in 0 .. MaxSessions
  /\ owner \in [Sessions -> Ids]
  /\ alive \subseteq 1 .. opened
  /\ rx \in [Sessions -> Seq(Packet)]
  /\ \A k \in Sessions : Len(rx[k]) <= ChanSize
  /\ lr \in [Sessions -> [buffer : Seq(Bytes), in_bytes : Nat, out_bytes : Nat,
                          current_out : SUBSET DataPacket]]
  /\ timers \in [Sessions -> SUBSET Nat]
  /\ responses \in Seq(Response)
  /\ wire \in [Ids -> SUBSET DataPacket]

(* The streams that a session reads without losing its place.                   *)
(*                                                                              *)
(* An escaped byte ends in a "\" only if it is one; the byte that follows must  *)
(* not be escaped itself, or the pair of the two is taken too (lrl.rs:370).     *)
NoEscapePairs ==
  \A i \in 1 .. Len(Stream) - 1 : Stream[i] = Escape => Stream[i + 1] \notin {"/", Escape}

(* A part that ends before a cut is over before it by its escaped length, too,  *)
(* by which read_data tells what it has already (lrl.rs:326).                   *)
CutsApart ==
  \A from, to, next \in Cuts :
    from < to /\ to < next => from + Len(Escaped(SubSeq(Stream, from + 1, to))) <= next

(* Packets that are no part of the stream have an unescaped "/" (lrl.rs:346).   *)
NoiseIsMalformed ==
  \A n \in Noise :
    \E i \in 2 .. Len(n.payload) : n.payload[i] = "/" /\ n.payload[i - 1] # Escape

Readable == NoEscapePairs /\ CutsApart /\ NoiseIsMalformed

(* Whatever is lost, repeated, cut differently or malformed, a session has read *)
(* exactly the first in_bytes of its client's stream, answered all its complete *)
(* lines and buffered the rest (read_data and analyze_buffer, lrl.rs:265-406).  *)
(* It holds of a stream that is Readable.                                       *)
InStep ==
  \A k \in alive :
    LET taken == SubSeq(Stream, 1, lr[k].in_bytes) IN
    /\ lr[k].in_bytes <= Len(Stream)
    /\ lr[k].buffer = Cut(taken).rest
    /\ lr[k].out_bytes = Len(Reversed(taken))

(* "Position in the incoming byte stream." (lrl.rs:212): as many bytes have     *)
(* been answered or buffered as in_bytes says.                                  *)
InBytesIsPosition ==
  \A k \in alive : lr[k].in_bytes = lr[k].out_bytes + Len(lr[k].buffer)

(* Everything a client is ever sent under its id, by whichever session and      *)
(* however often, fits into the one right answer at its position.               *)
RepliesFit ==
  \A id \in Ids : \A d \in wire[id] :
    d.bytes # <<>> /\ d.bytes = SubSeq(Reversed(Stream), d.start + 1, EndOf(d))

(* "Messages can be at most 1000 bytes" (posts/protohax_07.md:195), escapes      *)
(* included: what a client is sent exceeds the room of 997 less the head by one *)
(* byte at most, which leaves space for the closing "/" (types.rs:215-234).     *)
PacketsAreShort == \A id \in Ids : \A d \in wire[id] : Len(Escaped(d.bytes)) <= Room + 1

(* Two sessions with one id are never mixed up: at most one runs, and while     *)
(* responses of a session are queued, main still routes its id to it, so none   *)
(* is taken for a later session's and no late close ends a later session.       *)
SessionsApart ==
  /\ \A k, l \in alive : owner[k] = owner[l] => k = l
  /\ \A r \in ToSet(responses) : clients[r.id] = r.from
  /\ \A k \in alive : clients[owner[k]] = k

(* Data that are not acknowledged are sent again and again (lrl.rs:473-479).    *)
Resent ==
  \A k \in Sessions : \A count \in AnswerEnds :
    (\E d \in lr[k].current_out : EndOf(d) = count)
      ~> ( \/ \A d \in lr[k].current_out : EndOf(d) # count
           \/ \E r \in ToSet(responses) : r.type = "data" /\ EndOf(r.data) = count )

(* A client that stays with its session gets the answer to the whole stream.    *)
Answered(id) ==
  \A i \in 1 .. Len(Reversed(Stream)) :
    \E d \in wire[id] : d.start < i /\ i <= EndOf(d)

StreamIsAnswered ==
  \A id \in Ids :
    <>[](clients[id] # 0 /\ clients[id] \in alive) => <>Answered(id)
================================================================================
