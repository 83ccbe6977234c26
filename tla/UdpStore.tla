-------------------------------- MODULE UdpStore --------------------------------
(* 04_udp: a key-value store over UDP.  One task owns the socket, the other the *)
(* store; each sends to the other through a bounded channel and waits while     *)
(* that is full (04_udp/src/main.rs).                                           *)
(*                                                                              *)
(* The bytes of a datagram are a sequence of symbols, of which only "=" and the *)
(* word "version" mean anything.                                                *)
EXTENDS Integers, SequencesExt

CONSTANTS
  Addrs,       \* the clients' addresses
  Bytes,       \* the symbols that datagrams are made of
  Requests,    \* the requests they may send
  Version,     \* VERSION, the answer to a version request
  ChanSize,    \* CHANSIZE
  MaxRequests  \* bound: how many requests are received

ASSUME BytesAssumption == {"=", "version"} \subseteq Bytes
ASSUME RequestsAssumption == Requests \subseteq Seq(Bytes)
ASSUME VersionAssumption == Version \in Seq(Bytes)
ASSUME ChanSizeAssumption == ChanSize \in Nat \ {0}
ASSUME MaxRequestsAssumption == MaxRequests \in Nat

VARIABLES
  toStore,   \* channel: requests to the store task
  toSocket,  \* channel: responses to the socket task
  socketHas, \* the request the socket task is waiting to send, if any
  storeHas,  \* the response the store task is waiting to send, if any
  store,     \* the store: a function on the keys inserted so far
  received,  \* history: the requests read from the socket
  replied    \* history: the responses written to the socket

vars == <<toStore, toSocket, socketHas, storeHas, store, received, replied>>

Nothing == <<>>

Msg == [bytes : Seq(Bytes), addr : Addrs]

--------------------------------------------------------------------------------
(* What the store task makes of a request.  A request with a "=" inserts what   *)
(* follows the first one under what precedes it.                                *)

\* A mutant: the last "=" separates the value.
EqualsAt_last(request) == SelectLastInSeq(request, LAMBDA b : b = "=")

EqualsAt(request) == SelectInSeq(request, LAMBDA b : b = "=")
IsInsert(request) == EqualsAt(request) > 0
KeyOf(request) == SubSeq(request, 1, EqualsAt(request) - 1)
ValueOf(request) == SubSeq(request, EqualsAt(request) + 1, Len(request))

IsVersion(request) == request = <<"version">>

Inserted(kv, request) ==
  IF IsInsert(request) /\ ~ IsVersion(KeyOf(request))
  THEN [k \in DOMAIN kv \cup {KeyOf(request)} |->
          IF k = KeyOf(request) THEN ValueOf(request) ELSE kv[k]]
  ELSE kv

(* The responses to a request: one or none.                                     *)
Responses(kv, msg) ==
  IF IsVersion(msg.bytes)
  THEN <<[bytes |-> Version, addr |-> msg.addr]>>
  ELSE IF ~ IsInsert(msg.bytes) /\ msg.bytes \in DOMAIN kv
       THEN <<[bytes |-> msg.bytes \o <<"=">> \o kv[msg.bytes], addr |-> msg.addr]>>
       ELSE <<>>

--------------------------------------------------------------------------------
(* manage_socket *)

(* A datagram arrives, from anybody and in any order, and waits in hand until   *)
(* the channel has room.                                                        *)
RecvFrom ==
  /\ socketHas = Nothing
  /\ Len(received) < MaxRequests
  /\ \E request \in Requests, addr \in Addrs :
       LET msg == [bytes |-> request, addr |-> addr] IN
       /\ socketHas' = <<msg>>
       /\ received' = Append(received, msg)
  /\ UNCHANGED <<toStore, toSocket, storeHas, store, replied>>

\* A mutant: the capacity of the channel is off by one.
SendToStore_offByOne ==
  /\ socketHas # Nothing
  /\ Len(toStore) <= ChanSize
  /\ toStore' = toStore \o socketHas
  /\ socketHas' = Nothing
  /\ UNCHANGED <<toSocket, storeHas, store, received, replied>>

SendToStore ==
  /\ socketHas # Nothing
  /\ Len(toStore) < ChanSize
  /\ toStore' = toStore \o socketHas
  /\ socketHas' = Nothing
  /\ UNCHANGED <<toSocket, storeHas, store, received, replied>>

(* The other branch of the select: a response is taken and handed to the        *)
(* network.  That send_to fails is only logged; it counts as sent.              *)
SendTo ==
  /\ socketHas = Nothing
  /\ toSocket # <<>>
  /\ replied' = Append(replied, Head(toSocket))
  /\ toSocket' = Tail(toSocket)
  /\ UNCHANGED <<toStore, socketHas, storeHas, store, received>>

(* manage_store *)

\* A mutant: a response is dropped when the channel is full.
HandleRequest_drop ==
  /\ storeHas = Nothing
  /\ toStore # <<>>
  /\ LET msg == Head(toStore) IN
       /\ storeHas' = IF Len(toSocket) < ChanSize THEN Responses(store, msg) ELSE <<>>
       /\ store' = Inserted(store, msg.bytes)
  /\ toStore' = Tail(toStore)
  /\ UNCHANGED <<toSocket, socketHas, received, replied>>

HandleRequest ==
  /\ storeHas = Nothing
  /\ toStore # <<>>
  /\ LET msg == Head(toStore) IN
       /\ storeHas' = Responses(store, msg)
       /\ store' = Inserted(store, msg.bytes)
  /\ toStore' = Tail(toStore)
  /\ UNCHANGED <<toSocket, socketHas, received, replied>>

SendToSocket ==
  /\ storeHas # Nothing
  /\ Len(toSocket) < ChanSize
  /\ toSocket' = toSocket \o storeHas
  /\ storeHas' = Nothing
  /\ UNCHANGED <<toStore, socketHas, store, received, replied>>

--------------------------------------------------------------------------------

Init ==
  /\ toStore = <<>>
  /\ toSocket = <<>>
  /\ socketHas = Nothing
  /\ storeHas = Nothing
  /\ store = [k \in {} |-> <<>>]
  /\ received = <<>>
  /\ replied = <<>>

SocketTask == RecvFrom \/ SendToStore \/ SendTo
StoreTask == HandleRequest \/ SendToSocket

Next == SocketTask \/ StoreTask

Spec == Init /\ [][Next]_vars

(* Both tasks run whenever they can; nobody is obliged to send a request.       *)
Fairness ==
  /\ WF_vars(SendToStore \/ SendTo)
  /\ WF_vars(StoreTask)

FairSpec == Spec /\ Fairness

--------------------------------------------------------------------------------
(* Properties *)

TypeOK ==
  /\ toStore \in Seq(Msg) /\ Len(toStore) <= ChanSize
  /\ toSocket \in Seq(Msg) /\ Len(toSocket) <= ChanSize
  /\ socketHas \in Seq(Msg) /\ Len(socketHas) <= 1
  /\ storeHas \in Seq(Msg) /\ Len(storeHas) <= 1
  /\ \A k \in DOMAIN store : k \in Seq(Bytes) /\ store[k] \in Seq(Bytes)
  /\ received \in Seq(Msg)
  /\ replied \in Seq(Msg)

(* What a store does that answers each request before it reads the next: a      *)
(* retrieval of a key is answered with the value that the last of the earlier   *)
(* insertions gave it, a version request always with the version.               *)
Writes(request, key) ==
  /\ ~ Contains(key, "=")
  /\ IsPrefix(key \o <<"=">>, request)

Value(msgs, key) ==
  LET writes == {i \in 1 .. Len(msgs) : Writes(msgs[i].bytes, key)}
      last == msgs[Max(writes)].bytes IN
  IF writes = {} \/ IsVersion(key) THEN <<>>
  ELSE <<SubSeq(last, Len(key) + 2, Len(last))>>

Answer(msgs, i) ==
  LET request == msgs[i].bytes
      value == Value(SubSeq(msgs, 1, i - 1), request)
      reply(bytes) == <<[bytes |-> bytes, addr |-> msgs[i].addr]>> IN
  CASE IsVersion(request) -> reply(Version)
    [] ~ IsVersion(request) /\ value # <<>> -> reply(request \o <<"=">> \o value[1])
    [] OTHER -> <<>>

Answers(msgs) == FlattenSeq([i \in 1 .. Len(msgs) |-> Answer(msgs, i)])

(* However the two tasks and their channels interleave, the clients see a store *)
(* that works through the requests one by one: each answer is the right one,    *)
(* goes to the right client, once, in the order of the requests.                *)
AnswersInOrder == IsPrefix(replied, Answers(received))

(* Nothing gets lost between the tasks: every request is answered in the end.   *)
AllAnswered == \A n \in 0 .. MaxRequests :
  Len(received) = n ~> (Len(received) > n \/ replied = Answers(received))

(* "Number of messages each channel will hold before making calls to `.send()`  *)
(* wait. Honestly, 1 should be big enough." (04_udp/src/main.rs:22-23): the two *)
(* tasks never wait for each other.                                             *)
SocketWaits == socketHas # Nothing /\ Len(toStore) = ChanSize
StoreWaits == storeHas # Nothing /\ Len(toSocket) = ChanSize

NeverBothWait == ~ (SocketWaits /\ StoreWaits)
================================================================================
