------------------------------- MODULE UdpProofs -------------------------------
(* Theorems about UdpStore: whatever the requests and the size of the channels, *)
(* the clients see a store that works through the requests one by one.          *)
EXTENDS UdpStore, SequenceLemmas

(* How many requests the store task has taken from its channel, and which.      *)
Handled == Len(received) - Len(toStore) - Len(socketHas)
Done == SubSeq(received, 1, Handled)

--------------------------------------------------------------------------------
(* The inductive invariant. *)

(* The requests that the store task has yet to take are the last ones received, *)
(* in the order in which they were received.                                    *)
RequestsInOrder ==
  /\ Handled \in Nat
  /\ \A i \in 1 .. Len(toStore) : toStore[i] = received[Handled + i]
  /\ socketHas # Nothing => socketHas[1] = received[Len(received)]

(* The store holds what the insertions handled so far gave each key.            *)
Holds(kv, msgs) == \A key \in Seq(Bytes) :
  Value(msgs, key) = IF key \in DOMAIN kv THEN <<kv[key]>> ELSE <<>>

StoreIsValue == Holds(store, Done)

(* What is sent and what is on its way to be sent answers the requests handled. *)
ResponsesInOrder == (replied \o toSocket) \o storeHas = Answers(Done)

(* No request has more than one response.                                       *)
AtMostOneEach == Len(replied) + Len(toSocket) + Len(storeHas) <= Handled

UdpIInv == TypeOK /\ RequestsInOrder /\ StoreIsValue /\ ResponsesInOrder /\ AtMostOneEach

(* Both tasks wait for each other only after that many requests, all of them    *)
(* unanswered: one in every place of both channels and one in each hand.        *)
DeadlockTakes ==
  SocketWaits /\ StoreWaits => Len(received) - Len(replied) >= 2 * (ChanSize + 1)

--------------------------------------------------------------------------------
(* Requests, and what the store makes of them. *)

LEMMA EqualsAtFirst ==
  ASSUME NEW request \in Seq(Bytes)
  PROVE  /\ EqualsAt(request) \in 0 .. Len(request)
         /\ EqualsAt(request) = 0 => \A i \in 1 .. Len(request) : request[i] # "="
         /\ EqualsAt(request) > 0 => request[EqualsAt(request)] = "="
         /\ \A i \in 1 .. EqualsAt(request) - 1 : request[i] # "="
<1> DEFINE I == {i \in 1 .. Len(request) : request[i] = "="}
<1>1. EqualsAt(request) = IF I # {} THEN Min(I) ELSE 0
  BY DEF EqualsAt, SelectInSeq
<1>2. Len(request) \in Nat
  OBVIOUS
<1>3. CASE I = {}
  <2>1. EqualsAt(request) = 0
    BY <1>1, <1>3
  <2>2. \A i \in 1 .. Len(request) : request[i] # "="
    BY <1>3
  <2> QED
    BY <1>2, <2>1, <2>2
<1>4. CASE I # {}
  <2>1. I \in SUBSET Nat
    OBVIOUS
  <2> HIDE DEF I
  <2>2. Min(I) \in I /\ \A i \in I : Min(I) <= i
    BY <1>4, <2>1, MinOfNats
  <2>3. PICK e \in I : e = EqualsAt(request)
    BY <1>1, <1>4, <2>2
  <2>4. e \in 1 .. Len(request) /\ request[e] = "="
    BY DEF I
  <2>5. ASSUME NEW i \in 1 .. e - 1 PROVE request[i] # "="
    <3>1. i \in 1 .. Len(request) /\ ~ (e <= i)
      BY <1>2, <2>4
    <3>2. i \notin I
      BY <1>1, <1>4, <2>2, <2>3, <3>1
    <3> QED
      BY <3>1, <3>2 DEF I
  <2> QED
    BY <1>2, <2>3, <2>4, <2>5
<1> QED
  BY <1>3, <1>4

(* The key and the value of an insertion are the bytes about its first "=".     *)
LEMMA InsertParts ==
  ASSUME NEW request \in Seq(Bytes), IsInsert(request)
  PROVE  /\ KeyOf(request) \in Seq(Bytes)
         /\ Len(KeyOf(request)) = EqualsAt(request) - 1
         /\ \A i \in 1 .. EqualsAt(request) - 1 : KeyOf(request)[i] = request[i]
         /\ ValueOf(request) \in Seq(Bytes)
<1> PICK e \in Int : e = EqualsAt(request)
  BY EqualsAtFirst
<1>1. e \in 1 .. Len(request) /\ Len(request) \in Nat
  BY EqualsAtFirst DEF IsInsert
<1>2. \A i \in 1 .. Len(request) : request[i] \in Bytes
  OBVIOUS
<1>3. /\ SubSeq(request, 1, e - 1) \in Seq(Bytes)
      /\ Len(SubSeq(request, 1, e - 1)) = e - 1
      /\ \A i \in 1 .. e - 1 : SubSeq(request, 1, e - 1)[i] = request[i]
  <2>1. \A i \in 1 .. e - 1 : request[i] \in Bytes
    BY <1>1, <1>2
  <2>2. 1 \in Int /\ e - 1 \in Int
    BY <1>1
  <2>3. /\ SubSeq(request, 1, e - 1) \in Seq(Bytes)
        /\ Len(SubSeq(request, 1, e - 1)) = IF 1 <= e - 1 THEN e - 1 - 1 + 1 ELSE 0
        /\ \A i \in 1 .. e - 1 - 1 + 1 : SubSeq(request, 1, e - 1)[i] = request[1 + i - 1]
    BY <2>1, <2>2, SubSeqProperties
  <2>4. (IF 1 <= e - 1 THEN e - 1 - 1 + 1 ELSE 0) = e - 1 /\ e - 1 - 1 + 1 = e - 1
    BY <1>1
  <2>5. \A i \in 1 .. e - 1 : 1 + i - 1 = i
    OBVIOUS
  <2> QED
    BY <2>3, <2>4, <2>5
<1>4. SubSeq(request, e + 1, Len(request)) \in Seq(Bytes)
  <2>1. \A i \in e + 1 .. Len(request) : request[i] \in Bytes
    BY <1>1, <1>2
  <2> QED
    BY <1>1, <2>1, SubSeqProperties
<1> QED
  BY <1>3, <1>4 DEF KeyOf, ValueOf

(* The two ways to say that a request inserts under a key: the code's, which    *)
(* splits at the first "=", and the specification's, which knows the key.       *)
LEMMA WritesIsInsert ==
  ASSUME NEW request \in Seq(Bytes), NEW key \in Seq(Bytes)
  PROVE  Writes(request, key) <=> IsInsert(request) /\ KeyOf(request) = key
<1> DEFINE mark == key \o <<"=">>
<1> PICK m \in Nat : m = Len(key)
  OBVIOUS
<1> PICK n \in Nat : n = Len(request)
  OBVIOUS
<1> PICK e \in Int : e = EqualsAt(request)
  BY EqualsAtFirst
<1>1. /\ e \in 0 .. n
      /\ e = 0 => \A i \in 1 .. n : request[i] # "="
      /\ e > 0 => request[e] = "="
      /\ \A i \in 1 .. e - 1 : request[i] # "="
  BY EqualsAtFirst
<1>2. mark \in Seq(Bytes) /\ Len(mark) = m + 1 /\ mark[m + 1] = "="
  <2>1. PICK b \in Bytes : b = "="
    BY BytesAssumption
  <2>2. /\ key \o <<b>> \in Seq(Bytes)
        /\ Len(key \o <<b>>) = m + 1
        /\ (key \o <<b>>)[m + 1] = b
    OBVIOUS
  <2> QED
    BY <2>1, <2>2
<1>3. \A i \in 1 .. m : mark[i] = key[i]
  OBVIOUS
<1> HIDE DEF mark
<1>4. ASSUME Writes(request, key)
      PROVE  IsInsert(request) /\ KeyOf(request) = key
  <2>1. /\ \A i \in 1 .. m : key[i] # "="
        /\ m + 1 <= n
        /\ SubSeq(mark, 1, m + 1) = SubSeq(request, 1, m + 1)
    BY <1>2, <1>4 DEF Writes, Contains, IsPrefix, mark
  <2>2. \A i \in 1 .. m + 1 : mark[i] = request[i]
    BY <1>2, <2>1
  <2>3. \A i \in 1 .. m : request[i] # "="
    BY <1>3, <2>1, <2>2
  <2>4. m + 1 \in 1 .. m + 1 /\ m + 1 \in 1 .. n
    BY <2>1
  <2>5. request[m + 1] = "="
    BY <1>2, <2>2, <2>4
  <2>6. e # 0
    BY <1>1, <2>4, <2>5
  <2>7. ~ (e \in 1 .. m)
    BY <1>1, <2>3
  <2>8. ~ (m + 1 \in 1 .. e - 1)
    BY <1>1, <2>5
  <2>9. e = m + 1
    BY <1>1, <2>6, <2>7, <2>8
  <2>10. IsInsert(request)
    BY <2>9 DEF IsInsert
  <2>11. /\ KeyOf(request) \in Seq(Bytes)
         /\ Len(KeyOf(request)) = m
         /\ \A i \in 1 .. m : KeyOf(request)[i] = request[i]
    <3>1. EqualsAt(request) - 1 = m
      BY <2>9
    <3> QED
      BY <2>10, <3>1, InsertParts
  <2>12. \A i \in 1 .. m : KeyOf(request)[i] = key[i]
    BY <1>3, <2>2, <2>11
  <2>13. KeyOf(request) = key
    BY <2>11, <2>12
  <2> QED
    BY <2>10, <2>13
<1>5. ASSUME IsInsert(request), KeyOf(request) = key
      PROVE  Writes(request, key)
  <2>1. /\ m = e - 1
        /\ \A i \in 1 .. e - 1 : key[i] = request[i]
    BY <1>5, InsertParts
  <2>2. e = m + 1 /\ m + 1 <= n
    BY <1>1, <2>1
  <2>3. \A i \in 1 .. m : key[i] # "="
    BY <1>1, <2>1, <2>2
  <2>4. request[m + 1] = "="
    BY <1>1, <2>2
  <2>5. \A i \in 1 .. m + 1 : mark[i] = request[i]
    <3>1. \A i \in 1 .. m + 1 : i \in 1 .. m \/ i = m + 1
      OBVIOUS
    <3> QED
      BY <1>2, <1>3, <2>1, <2>2, <2>4, <3>1
  <2>6. SubSeq(mark, 1, m + 1) = SubSeq(request, 1, m + 1)
    BY <1>2, <2>2, <2>5
  <2> QED
    BY <1>2, <2>2, <2>3, <2>6 DEF Writes, Contains, IsPrefix, mark
<1> QED
  BY <1>4, <1>5

--------------------------------------------------------------------------------
(* The value of a key after some requests. *)

WritesTo(msgs, key) == {i \in 1 .. Len(msgs) : Writes(msgs[i].bytes, key)}

LEMMA MsgType ==
  ASSUME NEW msgs \in Seq(Msg), NEW i \in 1 .. Len(msgs)
  PROVE  msgs[i].bytes \in Seq(Bytes) /\ msgs[i].addr \in Addrs
<1>1. msgs[i] \in Msg
  OBVIOUS
<1> QED
  BY <1>1 DEF Msg

(* The last request that writes to a key gives it its value.                    *)
LEMMA LastWriteCounts ==
  ASSUME NEW msgs \in Seq(Msg), NEW key \in Seq(Bytes), ~ IsVersion(key),
         NEW i \in WritesTo(msgs, key), \A j \in WritesTo(msgs, key) : j <= i
  PROVE  Value(msgs, key) = <<ValueOf(msgs[i].bytes)>>
<1> PICK n \in Nat : n = Len(msgs)
  OBVIOUS
<1> DEFINE W == WritesTo(msgs, key)
<1>1. W \in SUBSET (0 .. n) /\ W # {} /\ i \in 1 .. Len(msgs)
  BY DEF WritesTo
<1> HIDE DEF W
<1>2. Max(W) \in W /\ \A y \in W : y <= Max(W)
  BY <1>1, MaxOfNats
<1>3. Max(W) = i
  <2>1. Max(W) <= i /\ i <= Max(W)
    BY <1>2 DEF W
  <2>2. Max(W) \in 0 .. n /\ i \in 1 .. n
    BY <1>1, <1>2
  <2> QED
    BY <2>1, <2>2
<1> PICK last \in Seq(Bytes) : last = msgs[i].bytes
  BY <1>1, MsgType
<1>4. Value(msgs, key) = <<SubSeq(last, Len(key) + 2, Len(last))>>
  <2>1. W = {j \in 1 .. Len(msgs) : Writes(msgs[j].bytes, key)}
    BY DEF W, WritesTo
  <2> QED
    BY <1>1, <1>3, <2>1 DEF Value
<1>5. Writes(last, key)
  BY DEF WritesTo
<1>6. IsInsert(last) /\ KeyOf(last) = key
  BY <1>5, WritesIsInsert
<1>7. EqualsAt(last) \in Int /\ Len(key) = EqualsAt(last) - 1
  BY <1>6, EqualsAtFirst, InsertParts
<1>8. Len(key) + 2 = EqualsAt(last) + 1
  BY <1>7
<1> QED
  BY <1>4, <1>8 DEF ValueOf

LEMMA NoWriteNoValue ==
  ASSUME NEW msgs, NEW key, WritesTo(msgs, key) = {} \/ IsVersion(key)
  PROVE  Value(msgs, key) = <<>>
BY DEF Value, WritesTo

(* Only a key without a "=" that is not the version's ever has a value.         *)
LEMMA ValueType ==
  ASSUME NEW msgs \in Seq(Msg), NEW key \in Seq(Bytes)
  PROVE  \/ Value(msgs, key) = <<>>
         \/ /\ ~ IsVersion(key)
            /\ ~ IsInsert(key)
            /\ \E v \in Seq(Bytes) : Value(msgs, key) = <<v>>
<1> SUFFICES ASSUME WritesTo(msgs, key) # {}, ~ IsVersion(key)
             PROVE  ~ IsInsert(key) /\ \E v \in Seq(Bytes) : Value(msgs, key) = <<v>>
  BY NoWriteNoValue
<1> DEFINE W == WritesTo(msgs, key)
<1> PICK n \in Nat : n = Len(msgs)
  OBVIOUS
<1>1. W \in SUBSET (0 .. n) /\ W # {}
  BY DEF WritesTo
<1> HIDE DEF W
<1>2. PICK i \in W : \A j \in W : j <= i
  BY <1>1, MaxOfNats
<1>3. i \in 1 .. Len(msgs) /\ Writes(msgs[i].bytes, key)
  BY DEF W, WritesTo
<1>4. msgs[i].bytes \in Seq(Bytes)
  BY <1>3, MsgType
<1>5. Value(msgs, key) = <<ValueOf(msgs[i].bytes)>>
  BY <1>2, LastWriteCounts DEF W
<1>6. ValueOf(msgs[i].bytes) \in Seq(Bytes)
  BY <1>3, <1>4, WritesIsInsert, InsertParts
<1>7. ~ IsInsert(key)
  <2>1. \A j \in 1 .. Len(key) : key[j] # "="
    BY <1>3 DEF Writes, Contains
  <2>2. /\ EqualsAt(key) \in 0 .. Len(key)
        /\ EqualsAt(key) > 0 => key[EqualsAt(key)] = "="
    BY EqualsAtFirst
  <2> QED
    BY <2>1, <2>2 DEF IsInsert
<1> QED
  BY <1>5, <1>6, <1>7

(* One request more changes the value of the key that it writes to, if any.     *)
LEMMA ValueAppend ==
  ASSUME NEW msgs \in Seq(Msg), NEW msg \in Msg, NEW key \in Seq(Bytes)
  PROVE  Value(Append(msgs, msg), key) =
           IF Writes(msg.bytes, key) /\ ~ IsVersion(key) THEN <<ValueOf(msg.bytes)>>
           ELSE Value(msgs, key)
<1> DEFINE more == Append(msgs, msg)
<1> PICK n \in Nat : n = Len(msgs)
  OBVIOUS
<1>1. more \in Seq(Msg) /\ Len(more) = n + 1 /\ more[n + 1] = msg
  OBVIOUS
<1>2. \A i \in 1 .. n : more[i] = msgs[i]
  OBVIOUS
<1> HIDE DEF more
<1> DEFINE V == WritesTo(more, key)
           W == WritesTo(msgs, key)
<1>3. \A i \in 1 .. n + 1 : i \in 1 .. n \/ i = n + 1
  OBVIOUS
<1>4. V = IF Writes(msg.bytes, key) THEN W \cup {n + 1} ELSE W
  <2>1. \A i \in 1 .. n : i \in V <=> i \in W
    BY <1>1, <1>2 DEF WritesTo
  <2>2. n + 1 \in V <=> Writes(msg.bytes, key)
    BY <1>1 DEF WritesTo
  <2>3. V \subseteq 1 .. n + 1 /\ W \subseteq 1 .. n
    BY <1>1 DEF WritesTo
  <2>4. n + 1 \notin 1 .. n
    OBVIOUS
  <2> HIDE DEF V, W
  <2>5. /\ \A i \in V : i \in W \/ i = n + 1
        /\ \A i \in W : i \in V /\ i # n + 1
    <3>1. W \subseteq 1 .. n + 1
      BY <2>3
    <3> QED
      BY <1>3, <2>1, <2>3, <2>4, <3>1
  <2>6. CASE Writes(msg.bytes, key)
    BY <2>2, <2>5, <2>6
  <2>7. CASE ~ Writes(msg.bytes, key)
    <3>1. \A i \in V : i # n + 1
      BY <2>2, <2>7, Zenon
    <3>2. V \subseteq W /\ W \subseteq V
      BY <2>5, <3>1
    <3> QED
      BY <2>7, <3>2
  <2> QED
    BY <2>6, <2>7
<1>5. W \in SUBSET (0 .. n) /\ \A j \in W : j <= n + 1
  BY DEF WritesTo
<1> HIDE DEF V, W
<1>6. CASE IsVersion(key)
  BY <1>6, NoWriteNoValue DEF more
<1>7. CASE ~ IsVersion(key) /\ Writes(msg.bytes, key)
  <2>1. n + 1 \in V /\ \A j \in V : j <= n + 1
    BY <1>4, <1>5, <1>7
  <2>2. Value(more, key) = <<ValueOf(more[n + 1].bytes)>>
    BY <1>1, <1>7, <2>1, LastWriteCounts DEF V
  <2> QED
    BY <1>1, <1>7, <2>2 DEF more
<1>8. CASE ~ IsVersion(key) /\ ~ Writes(msg.bytes, key)
  <2>1. V = W
    BY <1>4, <1>8
  <2>2. CASE W = {}
    BY <1>8, <2>1, <2>2, NoWriteNoValue DEF V, W, more
  <2>3. CASE W # {}
    <3>1. PICK i \in W : \A j \in W : j <= i
      BY <1>5, <2>3, MaxOfNats
    <3>2. Value(msgs, key) = <<ValueOf(msgs[i].bytes)>>
      BY <1>8, <3>1, LastWriteCounts DEF W
    <3>3. Value(more, key) = <<ValueOf(more[i].bytes)>>
      BY <1>1, <1>8, <2>1, <3>1, LastWriteCounts DEF V
    <3>4. i \in 1 .. n
      BY DEF W, WritesTo
    <3> QED
      BY <1>2, <1>8, <3>2, <3>3, <3>4 DEF more
  <2> QED
    BY <2>2, <2>3
<1> QED
  BY <1>6, <1>7, <1>8

--------------------------------------------------------------------------------
(* The store and the responses of the code against the specification's. *)

LEMMA InsertKeepsHolding ==
  ASSUME NEW msgs \in Seq(Msg), NEW msg \in Msg, NEW kv, Holds(kv, msgs)
  PROVE  Holds(Inserted(kv, msg.bytes), Append(msgs, msg))
<1> SUFFICES ASSUME NEW key \in Seq(Bytes)
             PROVE  Value(Append(msgs, msg), key)
                      = IF key \in DOMAIN Inserted(kv, msg.bytes)
                        THEN <<Inserted(kv, msg.bytes)[key]>> ELSE <<>>
  BY DEF Holds
<1> PICK request \in Seq(Bytes) : request = msg.bytes
  BY DEF Msg
<1> DEFINE writes == IsInsert(request) /\ ~ IsVersion(KeyOf(request))
<1>1. Writes(request, key) <=> IsInsert(request) /\ KeyOf(request) = key
  BY WritesIsInsert
<1>2. Value(Append(msgs, msg), key) =
        IF Writes(request, key) /\ ~ IsVersion(key) THEN <<ValueOf(request)>>
        ELSE Value(msgs, key)
  BY ValueAppend
<1>3. Value(msgs, key) = IF key \in DOMAIN kv THEN <<kv[key]>> ELSE <<>>
  BY DEF Holds
<1>4. CASE writes
  <2> DEFINE kv2 == Inserted(kv, request)
  <2>1. kv2 = [k \in DOMAIN kv \cup {KeyOf(request)} |->
                 IF k = KeyOf(request) THEN ValueOf(request) ELSE kv[k]]
    BY <1>4 DEF Inserted
  <2> HIDE DEF kv2
  <2>2. CASE key = KeyOf(request)
    <3>1. Value(Append(msgs, msg), key) = <<ValueOf(request)>>
      BY <1>1, <1>2, <1>4, <2>2
    <3>2. key \in DOMAIN kv2 /\ kv2[key] = ValueOf(request)
      BY <2>1, <2>2
    <3> QED
      BY <3>1, <3>2 DEF kv2
  <2>3. CASE key # KeyOf(request)
    <3>1. Value(Append(msgs, msg), key) = Value(msgs, key)
      BY <1>1, <1>2, <2>3
    <3>2. key \in DOMAIN kv2 <=> key \in DOMAIN kv
      BY <2>1, <2>3
    <3>3. key \in DOMAIN kv => kv2[key] = kv[key]
      BY <2>1, <2>3
    <3> QED
      BY <1>3, <3>1, <3>2, <3>3 DEF kv2
  <2> QED
    BY <2>2, <2>3
<1>5. CASE ~ writes
  <2>1. Inserted(kv, request) = kv
    BY <1>5 DEF Inserted
  <2>2. ~ (Writes(request, key) /\ ~ IsVersion(key))
    BY <1>1, <1>5
  <2>3. Value(Append(msgs, msg), key) = Value(msgs, key)
    BY <1>2, <2>2
  <2> QED
    BY <1>3, <2>1, <2>3
<1> QED
  BY <1>4, <1>5

LEMMA ResponsesAnswer ==
  ASSUME NEW msgs \in Seq(Msg), NEW i \in 1 .. Len(msgs),
         NEW kv, Holds(kv, SubSeq(msgs, 1, i - 1)), SubSeq(msgs, 1, i - 1) \in Seq(Msg)
  PROVE  Responses(kv, msgs[i]) = Answer(msgs, i)
<1> PICK request \in Seq(Bytes) : request = msgs[i].bytes
  BY MsgType
<1> DEFINE value == Value(SubSeq(msgs, 1, i - 1), request)
<1>1. value = IF request \in DOMAIN kv THEN <<kv[request]>> ELSE <<>>
  BY DEF Holds
<1>2. value # <<>> => ~ IsInsert(request)
  BY ValueType
<1>3. CASE IsVersion(request)
  BY <1>3 DEF Responses, Answer
<1>4. CASE ~ IsVersion(request) /\ value = <<>>
  <2>1. request \notin DOMAIN kv
    <3>1. <<kv[request]>> # <<>>
      OBVIOUS
    <3> QED
      BY <1>1, <1>4, <3>1
  <2>2. Responses(kv, msgs[i]) = <<>>
    BY <1>4, <2>1 DEF Responses
  <2>3. Answer(msgs, i) = <<>>
    BY <1>4 DEF Answer
  <2> QED
    BY <2>2, <2>3
<1>5. CASE ~ IsVersion(request) /\ value # <<>>
  <2>1. request \in DOMAIN kv /\ value = <<kv[request]>> /\ value[1] = kv[request]
    BY <1>1, <1>5
  <2>2. Responses(kv, msgs[i])
          = <<[bytes |-> request \o <<"=">> \o kv[request], addr |-> msgs[i].addr]>>
    BY <1>2, <1>5, <2>1 DEF Responses
  <2>3. Answer(msgs, i)
          = <<[bytes |-> request \o <<"=">> \o value[1], addr |-> msgs[i].addr]>>
    BY <1>5 DEF Answer
  <2> QED
    BY <2>1, <2>2, <2>3
<1> QED
  BY <1>3, <1>4, <1>5

LEMMA AnswerType ==
  ASSUME NEW msgs \in Seq(Msg), NEW i \in 1 .. Len(msgs)
  PROVE  Answer(msgs, i) \in Seq(Msg) /\ Len(Answer(msgs, i)) <= 1
<1> PICK request \in Seq(Bytes) : request = msgs[i].bytes
  BY MsgType
<1> PICK before \in Seq(Msg) : before = SubSeq(msgs, 1, i - 1)
  <2>1. i - 1 \in 0 .. Len(msgs)
    OBVIOUS
  <2> QED
    BY <2>1, PrefixType
<1>1. ASSUME NEW bytes \in Seq(Bytes)
      PROVE  /\ <<[bytes |-> bytes, addr |-> msgs[i].addr]>> \in Seq(Msg)
             /\ Len(<<[bytes |-> bytes, addr |-> msgs[i].addr]>>) <= 1
  <2>1. [bytes |-> bytes, addr |-> msgs[i].addr] \in Msg
    BY MsgType DEF Msg
  <2> QED
    BY <2>1
<1>2. CASE IsVersion(request)
  BY <1>1, <1>2, VersionAssumption DEF Answer
<1>3. CASE ~ IsVersion(request) /\ Value(before, request) = <<>>
  <2>1. Answer(msgs, i) = <<>>
    BY <1>3 DEF Answer
  <2> QED
    BY <2>1
<1>4. CASE ~ IsVersion(request) /\ Value(before, request) # <<>>
  <2>1. PICK v \in Seq(Bytes) : Value(before, request) = <<v>>
    BY <1>4, ValueType
  <2>2. Answer(msgs, i) = <<[bytes |-> request \o <<"=">> \o v, addr |-> msgs[i].addr]>>
    <3>1. Answer(msgs, i) = <<[bytes |-> request \o <<"=">> \o Value(before, request)[1],
                               addr |-> msgs[i].addr]>>
      BY <1>4 DEF Answer
    <3>2. Value(before, request)[1] = v
      BY <2>1
    <3> QED
      BY <3>1, <3>2
  <2>3. request \o <<"=">> \o v \in Seq(Bytes)
    BY BytesAssumption
  <2> QED
    BY <1>1, <2>2, <2>3
<1> QED
  BY <1>2, <1>3, <1>4

--------------------------------------------------------------------------------
(* The answers to the first requests are the first answers. *)

LEMMA AnswerOfPrefix ==
  ASSUME NEW msgs \in Seq(Msg), NEW n \in 0 .. Len(msgs), NEW i \in 1 .. n
  PROVE  Answer(SubSeq(msgs, 1, n), i) = Answer(msgs, i)
<1> PICK few \in Seq(Msg) : few = SubSeq(msgs, 1, n)
  BY PrefixType
<1>1. few[i] = msgs[i]
  BY PrefixType
<1>2. SubSeq(few, 1, i - 1) = SubSeq(msgs, 1, i - 1)
  <2>1. Len(few) = n /\ \A j \in 1 .. n : few[j] = msgs[j]
    BY PrefixType
  <2>2. i - 1 \in 0 .. n /\ i - 1 \in 0 .. Len(msgs)
    OBVIOUS
  <2>3. /\ SubSeq(few, 1, i - 1) \in Seq(Msg) /\ Len(SubSeq(few, 1, i - 1)) = i - 1
        /\ \A j \in 1 .. i - 1 : SubSeq(few, 1, i - 1)[j] = few[j]
    BY <2>1, <2>2, PrefixType
  <2>4. /\ SubSeq(msgs, 1, i - 1) \in Seq(Msg) /\ Len(SubSeq(msgs, 1, i - 1)) = i - 1
        /\ \A j \in 1 .. i - 1 : SubSeq(msgs, 1, i - 1)[j] = msgs[j]
    BY <2>2, PrefixType
  <2>5. \A j \in 1 .. i - 1 : SubSeq(few, 1, i - 1)[j] = SubSeq(msgs, 1, i - 1)[j]
    BY <2>1, <2>3, <2>4
  <2> QED
    BY <2>3, <2>4, <2>5
<1> QED
  BY <1>1, <1>2 DEF Answer

LEMMA AnswersExtend ==
  ASSUME NEW msgs \in Seq(Msg), NEW n \in 0 .. Len(msgs), n # Len(msgs)
  PROVE  Answers(SubSeq(msgs, 1, n + 1))
           = Answers(SubSeq(msgs, 1, n)) \o Answer(msgs, n + 1)
<1> DEFINE few == [i \in 1 .. n |-> Answer(msgs, i)]
<1>1. n + 1 \in 0 .. Len(msgs) /\ n + 1 \in 1 .. Len(msgs) /\ n \in Nat
  OBVIOUS
<1>2. /\ Len(SubSeq(msgs, 1, n)) = n
      /\ Len(SubSeq(msgs, 1, n + 1)) = n + 1
  BY <1>1, PrefixType
<1>3. Answers(SubSeq(msgs, 1, n)) = FlattenSeq(few)
  <2>1. \A i \in 1 .. n : Answer(SubSeq(msgs, 1, n), i) = Answer(msgs, i)
    BY AnswerOfPrefix
  <2>2. [i \in 1 .. n |-> Answer(SubSeq(msgs, 1, n), i)] = few
    BY <2>1
  <2> QED
    BY <1>2, <2>2 DEF Answers
<1>4. Answers(SubSeq(msgs, 1, n + 1)) = FlattenSeq([i \in 1 .. n + 1 |-> Answer(msgs, i)])
  <2>1. \A i \in 1 .. n + 1 : Answer(SubSeq(msgs, 1, n + 1), i) = Answer(msgs, i)
    BY <1>1, AnswerOfPrefix
  <2>2. [i \in 1 .. n + 1 |-> Answer(SubSeq(msgs, 1, n + 1), i)]
        = [i \in 1 .. n + 1 |-> Answer(msgs, i)]
    BY <2>1
  <2> QED
    BY <1>2, <2>2 DEF Answers
<1>5. few \in Seq(Seq(Msg)) /\ Len(few) = n /\ Answer(msgs, n + 1) \in Seq(Msg)
  <2>1. \A i \in 1 .. n : Answer(msgs, i) \in Seq(Msg)
    BY <1>1, AnswerType
  <2>2. Answer(msgs, n + 1) \in Seq(Msg)
    BY <1>1, AnswerType
  <2> QED
    BY <1>1, <2>1, <2>2
<1>6. [i \in 1 .. n + 1 |-> Answer(msgs, i)] = Append(few, Answer(msgs, n + 1))
  <2>1. \A i \in 1 .. n : few[i] = Answer(msgs, i)
    OBVIOUS
  <2> HIDE DEF few
  <2> DEFINE more == Append(few, Answer(msgs, n + 1))
  <2>2. more = [i \in 1 .. n + 1 |-> IF i <= n THEN few[i] ELSE Answer(msgs, n + 1)]
    BY <1>1, <1>5
  <2> HIDE DEF more
  <2>3. \A i \in 1 .. n + 1 :
          (IF i <= n THEN few[i] ELSE Answer(msgs, n + 1)) = Answer(msgs, i)
    <3>1. \A i \in 1 .. n + 1 : (i <= n => i \in 1 .. n) /\ (~ (i <= n) => i = n + 1)
      BY <1>1
    <3> QED
      BY <2>1, <3>1
  <2>4. more = [i \in 1 .. n + 1 |-> Answer(msgs, i)]
    BY <2>2, <2>3
  <2> QED
    BY <2>4 DEF more
<1> HIDE DEF few
<1>7. FlattenSeq(Append(few, Answer(msgs, n + 1))) = FlattenSeq(few) \o Answer(msgs, n + 1)
  BY <1>5, FlattenAppend
<1> QED
  BY <1>3, <1>4, <1>6, <1>7

LEMMA AnswersType ==
  ASSUME NEW msgs \in Seq(Msg)
  PROVE  Answers(msgs) \in Seq(Msg)
<1> DEFINE all == [i \in 1 .. Len(msgs) |-> Answer(msgs, i)]
<1>1. \A i \in 1 .. Len(msgs) : Answer(msgs, i) \in Seq(Msg)
  BY AnswerType
<1>2. all \in Seq(Seq(Msg))
  BY <1>1
<1> HIDE DEF all
<1> QED
  BY <1>2, FlattenType DEF all, Answers

LEMMA AnswersBegin ==
  ASSUME NEW msgs \in Seq(Msg), NEW n \in 0 .. Len(msgs)
  PROVE  \E rest \in Seq(Msg) : Answers(msgs) = Answers(SubSeq(msgs, 1, n)) \o rest
<1> DEFINE Prefix(m) ==
             \E rest \in Seq(Msg) : Answers(msgs) = Answers(SubSeq(msgs, 1, m)) \o rest
           Bad == {d \in 0 .. Len(msgs) : ~ Prefix(Len(msgs) - d)}
<1>1. Bad = {}
  <2> SUFFICES ASSUME Bad # {} PROVE FALSE
    OBVIOUS
  <2>1. Bad \in SUBSET Nat
    OBVIOUS
  <2>2. PICK d \in Bad : \A k \in Bad : d <= k
    <3> HIDE DEF Bad
    <3> QED
      BY <2>1, LeastNat
  <2> DEFINE m == Len(msgs) - d
  <2>3. d \in 0 .. Len(msgs) /\ m \in 0 .. Len(msgs) /\ ~ Prefix(m)
    <3>1. d \in 0 .. Len(msgs) /\ ~ Prefix(Len(msgs) - d)
      BY <2>2
    <3> HIDE DEF Prefix, Bad
    <3> QED
      BY <3>1
  <2>4. CASE d = 0
    <3>1. SubSeq(msgs, 1, m) = msgs
      BY <2>4, SubSeqFull
    <3>2. Answers(msgs) = Answers(SubSeq(msgs, 1, m)) \o <<>>
      <4>1. Answers(msgs) \o <<>> = Answers(msgs)
        BY AnswersType, ConcatEmptySeq
      <4> QED
        BY <3>1, <4>1
    <3>3. <<>> \in Seq(Msg)
      OBVIOUS
    <3> QED
      BY <2>3, <3>2, <3>3
  <2>5. CASE d # 0
    <3>1. d - 1 \in 0 .. Len(msgs) /\ ~ (d <= d - 1) /\ Len(msgs) - (d - 1) = m + 1
      BY <2>3, <2>5
    <3>2. d - 1 \notin Bad
      <4> HIDE DEF Bad
      <4> QED
        BY <2>2, <3>1
    <3>3. Prefix(m + 1)
      BY <3>1, <3>2
    <3> HIDE DEF Bad
    <3>4. PICK rest \in Seq(Msg) :
            Answers(msgs) = Answers(SubSeq(msgs, 1, m + 1)) \o rest
      BY <3>3
    <3>5. m # Len(msgs) /\ m + 1 \in 1 .. Len(msgs)
      BY <2>3, <2>5
    <3> HIDE DEF m
    <3>6. Answers(SubSeq(msgs, 1, m + 1))
            = Answers(SubSeq(msgs, 1, m)) \o Answer(msgs, m + 1)
      BY <2>3, <3>5, AnswersExtend
    <3>7. /\ Answers(SubSeq(msgs, 1, m)) \in Seq(Msg)
          /\ Answer(msgs, m + 1) \in Seq(Msg)
      BY <2>3, <3>5, AnswersType, AnswerType, PrefixType
    <3>8. Answers(msgs) = Answers(SubSeq(msgs, 1, m)) \o (Answer(msgs, m + 1) \o rest)
      <4>1. (Answers(SubSeq(msgs, 1, m)) \o Answer(msgs, m + 1)) \o rest
              = Answers(SubSeq(msgs, 1, m)) \o (Answer(msgs, m + 1) \o rest)
        BY <3>7, ConcatAssociative, SMTT(40)
      <4> QED
        BY <3>4, <3>6, <4>1
    <3>9. Answer(msgs, m + 1) \o rest \in Seq(Msg)
      BY <3>7
    <3> QED
      BY <2>3, <3>8, <3>9
  <2> QED
    BY <2>4, <2>5
<1>2. Len(msgs) - n \in 0 .. Len(msgs) /\ Len(msgs) - (Len(msgs) - n) = n
  OBVIOUS
<1>3. Prefix(n)
  BY <1>1, <1>2
<1> QED
  BY <1>3

--------------------------------------------------------------------------------
(* The invariance of UdpIInv. *)

LEMMA DoneType ==
  ASSUME TypeOK, RequestsInOrder
  PROVE  /\ Handled \in 0 .. Len(received)
         /\ Done \in Seq(Msg) /\ Len(Done) = Handled
         /\ \A i \in 1 .. Handled : Done[i] = received[i]
         /\ Len(received) = Handled + Len(toStore) + Len(socketHas)
<1>1. /\ Len(received) \in Nat /\ Len(toStore) \in Nat /\ Len(socketHas) \in Nat
      /\ received \in Seq(Msg)
  BY DEF TypeOK
<1>2. Handled \in Nat
  BY DEF RequestsInOrder
<1>3. Handled \in 0 .. Len(received) /\ Len(received) = Handled + Len(toStore) + Len(socketHas)
  BY <1>1, <1>2 DEF Handled
<1> HIDE DEF Handled
<1> QED
  BY <1>1, <1>3, PrefixType DEF Done

LEMMA InitUdpIInv == Init => UdpIInv
<1> SUFFICES ASSUME Init PROVE UdpIInv
  OBVIOUS
<1>1. TypeOK
  BY ChanSizeAssumption DEF Init, TypeOK, Nothing
<1>2. RequestsInOrder
  BY DEF Init, RequestsInOrder, Handled, Nothing
<1>3. Handled = 0 /\ Done = <<>>
  <2>1. Handled = 0
    <3>1. Len(received) = 0 /\ Len(toStore) = 0 /\ Len(socketHas) = 0
      BY DEF Init, Nothing
    <3> QED
      BY <3>1 DEF Handled
  <2> QED
    BY <2>1 DEF Init, Done
<1>4. StoreIsValue
  <2>1. ASSUME NEW key \in Seq(Bytes) PROVE Value(<<>>, key) = <<>>
    <3>1. WritesTo(<<>>, key) = {}
      BY DEF WritesTo
    <3> QED
      BY <3>1, NoWriteNoValue
  <2>2. \A key : key \notin DOMAIN store
    BY DEF Init
  <2> QED
    BY <1>3, <2>1, <2>2 DEF StoreIsValue, Holds
<1>5. ResponsesInOrder
  <2>1. Answers(<<>>) = <<>>
    <3>1. [i \in 1 .. Len(<<>>) |-> Answer(<<>>, i)] = <<>>
      OBVIOUS
    <3> QED
      BY <3>1, FlattenEmpty DEF Answers
  <2> QED
    BY <1>3, <2>1 DEF Init, ResponsesInOrder, Nothing
<1>6. AtMostOneEach
  BY <1>3 DEF Init, AtMostOneEach, Nothing
<1> QED
  BY <1>1, <1>2, <1>4, <1>5, <1>6 DEF UdpIInv

(* While no request is handled, the store, the answers and the requests handled *)
(* stay as they are.                                                            *)
LEMMA NothingHandled ==
  ASSUME UdpIInv, UNCHANGED store, Handled' = Handled, Done' = Done,
         Len(replied') + Len(toSocket') + Len(storeHas')
           = Len(replied) + Len(toSocket) + Len(storeHas),
         (replied' \o toSocket') \o storeHas' = (replied \o toSocket) \o storeHas
  PROVE  StoreIsValue' /\ ResponsesInOrder' /\ AtMostOneEach'
<1> USE DEF UdpIInv
<1>1. StoreIsValue'
  BY DEF StoreIsValue, Holds
<1>2. ResponsesInOrder'
  BY DEF ResponsesInOrder
<1>3. AtMostOneEach'
  BY DEF AtMostOneEach
<1> QED
  BY <1>1, <1>2, <1>3

LEMMA RecvFromKeeps == UdpIInv /\ RecvFrom => UdpIInv'
<1> SUFFICES ASSUME UdpIInv, RecvFrom PROVE UdpIInv'
  OBVIOUS
<1> USE DEF UdpIInv
<1>1. PICK msg \in Msg : socketHas' = <<msg>> /\ received' = Append(received, msg)
  BY RequestsAssumption DEF RecvFrom, Msg
<1>2. /\ socketHas = <<>>
      /\ UNCHANGED <<toStore, toSocket, storeHas, store, replied>>
  BY DEF RecvFrom, Nothing
<1>3. received \in Seq(Msg) /\ toStore \in Seq(Msg)
  BY DEF TypeOK
<1>4. TypeOK'
  BY <1>1, <1>2 DEF TypeOK
<1> PICK n \in Nat : n = Len(received)
  BY <1>3
<1> PICK m \in Nat : m = Len(toStore)
  BY <1>3
<1>5. Handled = n - m /\ Handled' = n - m
  BY <1>1, <1>2, <1>3 DEF Handled
<1>6. n - m \in 0 .. n
  BY <1>5, DoneType
<1>7. \A i \in 1 .. n : received'[i] = received[i]
  BY <1>1, <1>3
<1>8. Done' = Done
  <2>1. received' \in Seq(Msg) /\ Len(received') = n + 1
    BY <1>1, <1>3
  <2>2. SubSeq(received', 1, n - m) = SubSeq(received, 1, n - m)
    BY <1>3, <1>6, <1>7, <2>1
  <2> QED
    BY <1>5, <2>2 DEF Done
<1>9. RequestsInOrder'
  <2>1. \A i \in 1 .. m : (n - m) + i \in 1 .. n
    BY <1>6
  <2>2. \A i \in 1 .. m : toStore[i] = received[(n - m) + i]
    BY <1>5 DEF RequestsInOrder
  <2>3. socketHas'[1] = received'[Len(received')]
    BY <1>1, <1>3
  <2> QED
    BY <1>2, <1>5, <1>6, <1>7, <2>1, <2>2, <2>3 DEF RequestsInOrder
<1>10. StoreIsValue' /\ ResponsesInOrder' /\ AtMostOneEach'
  BY <1>2, <1>5, <1>8, NothingHandled
<1> QED
  BY <1>4, <1>9, <1>10

LEMMA SendToStoreKeeps == UdpIInv /\ SendToStore => UdpIInv'
<1> SUFFICES ASSUME UdpIInv, SendToStore PROVE UdpIInv'
  OBVIOUS
<1> USE DEF UdpIInv
<1>1. /\ socketHas # <<>> /\ Len(toStore) < ChanSize
      /\ toStore' = toStore \o socketHas /\ socketHas' = <<>>
      /\ UNCHANGED <<toSocket, storeHas, store, received, replied>>
  BY DEF SendToStore, Nothing
<1>2. received \in Seq(Msg) /\ toStore \in Seq(Msg) /\ socketHas \in Seq(Msg)
  BY DEF TypeOK
<1> PICK m \in Nat : m = Len(toStore)
  BY <1>2
<1>3. Len(socketHas) = 1
  <2>1. PICK k \in Nat : k = Len(socketHas)
    BY <1>2
  <2>2. k # 0 /\ k <= 1
    BY <1>1, <1>2, <2>1 DEF TypeOK
  <2> QED
    BY <2>1, <2>2
<1>4. /\ toStore' \in Seq(Msg) /\ Len(toStore') = m + 1
      /\ \A i \in 1 .. m : toStore'[i] = toStore[i]
      /\ toStore'[m + 1] = socketHas[1]
  <2>1. toStore \o socketHas = Append(toStore, socketHas[1]) /\ socketHas[1] \in Msg
    BY <1>2, <1>3, ConcatOne
  <2>2. /\ Append(toStore, socketHas[1]) \in Seq(Msg)
        /\ Len(Append(toStore, socketHas[1])) = Len(toStore) + 1
        /\ \A i \in 1 .. Len(toStore) : Append(toStore, socketHas[1])[i] = toStore[i]
        /\ Append(toStore, socketHas[1])[Len(toStore) + 1] = socketHas[1]
    BY <1>2, <2>1, AppendProperties
  <2> QED
    BY <1>1, <2>1, <2>2
<1>5. TypeOK'
  <2>1. m + 1 <= ChanSize
    BY <1>1, ChanSizeAssumption
  <2> QED
    BY <1>1, <1>4, <2>1 DEF TypeOK
<1> PICK n \in Nat : n = Len(received)
  BY <1>2
<1>6. Handled = n - m - 1 /\ Handled' = n - m - 1
  BY <1>1, <1>3, <1>4 DEF Handled
<1>7. Done' = Done
  BY <1>1, <1>6 DEF Done
<1>8. RequestsInOrder'
  <2>1. \A i \in 1 .. m : toStore[i] = received[(n - m - 1) + i]
    BY <1>6 DEF RequestsInOrder
  <2>2. socketHas[1] = received[n]
    BY <1>1 DEF RequestsInOrder, Nothing
  <2>3. (n - m - 1) + (m + 1) = n /\ n - m - 1 \in Nat
    BY <1>6 DEF RequestsInOrder
  <2>4. \A i \in 1 .. m + 1 : i \in 1 .. m \/ i = m + 1
    OBVIOUS
  <2>5. \A i \in 1 .. m + 1 : toStore'[i] = received[(n - m - 1) + i]
    BY <1>4, <2>1, <2>2, <2>3, <2>4
  <2> QED
    BY <1>1, <1>4, <1>6, <2>3, <2>5 DEF RequestsInOrder, Nothing
<1>9. StoreIsValue' /\ ResponsesInOrder' /\ AtMostOneEach'
  BY <1>1, <1>6, <1>7, NothingHandled
<1> QED
  BY <1>5, <1>8, <1>9

LEMMA SendToKeeps == UdpIInv /\ SendTo => UdpIInv'
<1> SUFFICES ASSUME UdpIInv, SendTo PROVE UdpIInv'
  OBVIOUS
<1> USE DEF UdpIInv
<1>1. /\ toSocket # <<>>
      /\ replied' = Append(replied, Head(toSocket)) /\ toSocket' = Tail(toSocket)
      /\ UNCHANGED <<toStore, socketHas, storeHas, store, received>>
  BY DEF SendTo
<1>2. replied \in Seq(Msg) /\ toSocket \in Seq(Msg) /\ storeHas \in Seq(Msg)
  BY DEF TypeOK
<1>3. /\ Head(toSocket) \in Msg /\ Tail(toSocket) \in Seq(Msg)
      /\ Len(Tail(toSocket)) = Len(toSocket) - 1
      /\ toSocket = <<Head(toSocket)>> \o Tail(toSocket)
  BY <1>1, <1>2
<1>4. TypeOK'
  <2>1. Len(toSocket) - 1 <= ChanSize
    BY <1>2, ChanSizeAssumption DEF TypeOK
  <2> QED
    BY <1>1, <1>2, <1>3, <2>1 DEF TypeOK
<1>5. replied' \o toSocket' = replied \o toSocket
  BY <1>1, <1>2, <1>3
<1>6. Handled' = Handled /\ Done' = Done
  BY <1>1 DEF Handled, Done
<1>7. RequestsInOrder'
  BY <1>1, <1>6 DEF RequestsInOrder
<1>8. Len(replied') + Len(toSocket') + Len(storeHas')
        = Len(replied) + Len(toSocket) + Len(storeHas)
  BY <1>1, <1>2, <1>3
<1>9. StoreIsValue' /\ ResponsesInOrder' /\ AtMostOneEach'
  BY <1>1, <1>5, <1>6, <1>8, NothingHandled
<1> QED
  BY <1>4, <1>7, <1>9

LEMMA SendToSocketKeeps == UdpIInv /\ SendToSocket => UdpIInv'
<1> SUFFICES ASSUME UdpIInv, SendToSocket PROVE UdpIInv'
  OBVIOUS
<1> USE DEF UdpIInv
<1>1. /\ storeHas # <<>> /\ Len(toSocket) < ChanSize
      /\ toSocket' = toSocket \o storeHas /\ storeHas' = <<>>
      /\ UNCHANGED <<toStore, socketHas, store, received, replied>>
  BY DEF SendToSocket, Nothing
<1>2. replied \in Seq(Msg) /\ toSocket \in Seq(Msg) /\ storeHas \in Seq(Msg)
  BY DEF TypeOK
<1>3. Len(storeHas) \in Nat /\ Len(storeHas) <= 1 /\ Len(toSocket) \in Nat
  BY <1>2 DEF TypeOK
<1>4. toSocket' \in Seq(Msg) /\ Len(toSocket') = Len(toSocket) + Len(storeHas)
  BY <1>1, <1>2
<1>5. TypeOK'
  <2>1. Len(toSocket) + Len(storeHas) <= ChanSize
    BY <1>1, <1>3, ChanSizeAssumption
  <2> QED
    BY <1>1, <1>4, <2>1 DEF TypeOK
<1>6. (replied' \o toSocket') \o storeHas' = (replied \o toSocket) \o storeHas
  <2>1. replied \o (toSocket \o storeHas) = (replied \o toSocket) \o storeHas
    BY <1>2, ConcatAssociative
  <2>2. (replied \o toSocket') \o <<>> = replied \o toSocket'
    BY <1>2, <1>4
  <2> QED
    BY <1>1, <2>1, <2>2
<1>7. Handled' = Handled /\ Done' = Done
  BY <1>1 DEF Handled, Done
<1>8. RequestsInOrder'
  BY <1>1, <1>7 DEF RequestsInOrder
<1>9. Len(replied') + Len(toSocket') + Len(storeHas')
        = Len(replied) + Len(toSocket) + Len(storeHas)
  BY <1>1, <1>2, <1>3, <1>4
<1>10. StoreIsValue' /\ ResponsesInOrder' /\ AtMostOneEach'
  BY <1>1, <1>6, <1>7, <1>9, NothingHandled
<1> QED
  BY <1>5, <1>8, <1>10

LEMMA HandleRequestKeeps == UdpIInv /\ HandleRequest => UdpIInv'
<1> SUFFICES ASSUME UdpIInv, HandleRequest PROVE UdpIInv'
  OBVIOUS
<1> USE DEF UdpIInv
<1>1. /\ storeHas = <<>> /\ toStore # <<>> /\ toStore' = Tail(toStore)
      /\ UNCHANGED <<toSocket, socketHas, received, replied>>
  BY DEF HandleRequest, Nothing
<1>2. /\ received \in Seq(Msg) /\ toStore \in Seq(Msg) /\ socketHas \in Seq(Msg)
      /\ replied \in Seq(Msg) /\ toSocket \in Seq(Msg)
  BY DEF TypeOK
<1> PICK n \in Nat : n = Len(received)
  BY <1>2
<1> PICK h \in Nat : h = Handled
  BY DEF RequestsInOrder
<1> PICK m \in Nat : m + 1 = Len(toStore)
  <2>1. Len(toStore) \in Nat \ {0}
    BY <1>1, <1>2
  <2>2. Len(toStore) - 1 \in Nat /\ (Len(toStore) - 1) + 1 = Len(toStore)
    BY <2>1
  <2> QED
    BY <2>2
<1>3. n = h + (m + 1) + Len(socketHas) /\ Len(socketHas) \in Nat
  <2>1. Len(received) = Handled + Len(toStore) + Len(socketHas)
    BY DoneType
  <2>2. PICK k \in Nat : k = Len(socketHas)
    BY <1>2
  <2>3. n = h + (m + 1) + k
    BY <2>1, <2>2
  <2> QED
    BY <2>2, <2>3
<1>4. h + 1 \in 1 .. n /\ h \in 0 .. n /\ h # n
  BY <1>3
<1>5. /\ toStore' \in Seq(Msg) /\ Len(toStore') = m
      /\ \A i \in 1 .. m : toStore'[i] = toStore[i + 1]
  BY <1>1, <1>2
(* The request that is handled is the next one received.                        *)
<1>6. Handled' = h + 1
  BY <1>1, <1>3, <1>5 DEF Handled
<1> PICK msg \in Msg : msg = Head(toStore)
  BY <1>1, <1>2
<1>7. msg = received[h + 1]
  <2>1. Head(toStore) = toStore[1] /\ 1 \in 1 .. Len(toStore)
    BY <1>1, <1>2
  <2> QED
    BY <2>1 DEF RequestsInOrder
<1>8. /\ Done \in Seq(Msg) /\ Len(Done) = h /\ Done = SubSeq(received, 1, h)
      /\ \A i \in 1 .. h : Done[i] = received[i]
  BY DoneType DEF Done
<1>9. Done' = SubSeq(received, 1, h + 1)
  BY <1>1, <1>6 DEF Done
<1>10. Done' = Append(Done, msg)
  <2>1. h + 1 \in 0 .. Len(received)
    BY <1>4
  <2>2. /\ Done' \in Seq(Msg) /\ Len(Done') = h + 1
        /\ \A i \in 1 .. h + 1 : Done'[i] = received[i]
    BY <1>2, <1>9, <2>1, PrefixType
  <2>3. /\ Append(Done, msg) \in Seq(Msg) /\ Len(Append(Done, msg)) = h + 1
        /\ \A i \in 1 .. h : Append(Done, msg)[i] = Done[i]
        /\ Append(Done, msg)[h + 1] = msg
    BY <1>8, AppendProperties
  <2>4. \A i \in 1 .. h + 1 : i \in 1 .. h \/ i = h + 1
    OBVIOUS
  <2>5. \A i \in 1 .. h + 1 : Done'[i] = Append(Done, msg)[i]
    BY <1>7, <1>8, <2>2, <2>3, <2>4
  <2> QED
    BY <2>2, <2>3, <2>5
<1>11. storeHas' = Answer(received, h + 1) /\ store' = Inserted(store, msg.bytes)
  <2>1. storeHas' = Responses(store, msg) /\ store' = Inserted(store, msg.bytes)
    BY DEF HandleRequest
  <2>2. Holds(store, SubSeq(received, 1, (h + 1) - 1))
    <3>1. (h + 1) - 1 = h
      OBVIOUS
    <3> QED
      BY <1>8, <3>1 DEF StoreIsValue
  <2>3. SubSeq(received, 1, (h + 1) - 1) \in Seq(Msg)
    <3>1. (h + 1) - 1 = h
      OBVIOUS
    <3> QED
      BY <1>8, <3>1
  <2>4. Responses(store, received[h + 1]) = Answer(received, h + 1)
    BY <1>2, <1>4, <2>2, <2>3, ResponsesAnswer
  <2> QED
    BY <1>7, <2>1, <2>4
<1>12. storeHas' \in Seq(Msg) /\ Len(storeHas') <= 1
  BY <1>2, <1>4, <1>11, AnswerType
<1>13. TypeOK'
  <2>1. m <= ChanSize
    BY ChanSizeAssumption DEF TypeOK
  <2>2. \A k \in DOMAIN store' : k \in Seq(Bytes) /\ store'[k] \in Seq(Bytes)
    <3> PICK request \in Seq(Bytes) : request = msg.bytes
      BY DEF Msg
    <3> DEFINE writes == IsInsert(request) /\ ~ IsVersion(KeyOf(request))
    <3>1. \A k \in DOMAIN store : k \in Seq(Bytes) /\ store[k] \in Seq(Bytes)
      BY DEF TypeOK
    <3>2. CASE writes
      <4>1. KeyOf(request) \in Seq(Bytes) /\ ValueOf(request) \in Seq(Bytes)
        BY <3>2, InsertParts
      <4>2. store' = [k \in DOMAIN store \cup {KeyOf(request)} |->
                        IF k = KeyOf(request) THEN ValueOf(request) ELSE store[k]]
        BY <1>11, <3>2 DEF Inserted
      <4> QED
        BY <3>1, <4>1, <4>2
    <3>3. CASE ~ writes
      BY <1>11, <3>1, <3>3 DEF Inserted
    <3> QED
      BY <3>2, <3>3
  <2> QED
    BY <1>1, <1>5, <1>12, <2>1, <2>2 DEF TypeOK
<1>14. RequestsInOrder'
  <2>1. \A i \in 1 .. m + 1 : toStore[i] = received[h + i]
    BY DEF RequestsInOrder
  <2>2. \A i \in 1 .. m : i + 1 \in 1 .. m + 1 /\ h + (i + 1) = (h + 1) + i
    OBVIOUS
  <2>3. \A i \in 1 .. m : toStore'[i] = received[(h + 1) + i]
    BY <1>5, <2>1, <2>2
  <2>4. socketHas # <<>> => socketHas[1] = received[Len(received)]
    BY DEF RequestsInOrder, Nothing
  <2> QED
    BY <1>1, <1>5, <1>6, <2>3, <2>4 DEF RequestsInOrder, Nothing
<1>15. StoreIsValue'
  <2>1. Holds(store, Done)
    BY DEF StoreIsValue
  <2>2. Holds(Inserted(store, msg.bytes), Append(Done, msg))
    BY <1>8, <2>1, InsertKeepsHolding
  <2>3. Holds(store', Done')
    BY <1>10, <1>11, <2>2
  <2> QED
    BY <2>3 DEF StoreIsValue, Holds
<1>16. ResponsesInOrder'
  <2>1. replied \o toSocket = Answers(Done)
    <3>1. (replied \o toSocket) \o <<>> = replied \o toSocket
      BY <1>2
    <3> QED
      BY <1>1, <3>1 DEF ResponsesInOrder
  <2>2. Answers(SubSeq(received, 1, h + 1))
          = Answers(SubSeq(received, 1, h)) \o Answer(received, h + 1)
    BY <1>2, <1>4, AnswersExtend
  <2>3. (replied' \o toSocket') \o storeHas' = Answers(Done')
    BY <1>1, <1>8, <1>9, <1>11, <2>1, <2>2
  <2> QED
    BY <2>3 DEF ResponsesInOrder
<1>17. AtMostOneEach'
  <2>1. PICK a \in Nat, b \in Nat : a = Len(replied) /\ b = Len(toSocket)
    BY <1>2
  <2>2. PICK c \in Nat : c = Len(storeHas')
    BY <1>12
  <2>3. a + b <= h
    <3>1. Len(storeHas) = 0
      BY <1>1
    <3> QED
      BY <2>1, <3>1 DEF AtMostOneEach
  <2>4. a + b + c <= h + 1
    BY <1>12, <2>2, <2>3
  <2> QED
    BY <1>1, <1>6, <2>1, <2>2, <2>4 DEF AtMostOneEach
<1> QED
  BY <1>13, <1>14, <1>15, <1>16, <1>17

LEMMA StutterUdpIInv == UdpIInv /\ UNCHANGED vars => UdpIInv'
<1> SUFFICES ASSUME UdpIInv, UNCHANGED vars PROVE UdpIInv'
  OBVIOUS
<1> USE DEF UdpIInv, vars
<1>1. TypeOK'
  BY DEF TypeOK
<1>2. Handled' = Handled /\ Done' = Done
  BY DEF Handled, Done
<1>3. RequestsInOrder'
  BY <1>2 DEF RequestsInOrder
<1>4. StoreIsValue' /\ ResponsesInOrder' /\ AtMostOneEach'
  BY <1>2, NothingHandled
<1> QED
  BY <1>1, <1>3, <1>4

LEMMA StepUdpIInv == UdpIInv /\ [Next]_vars => UdpIInv'
BY RecvFromKeeps, SendToStoreKeeps, SendToKeeps, HandleRequestKeeps, SendToSocketKeeps,
   StutterUdpIInv DEF Next, SocketTask, StoreTask

--------------------------------------------------------------------------------
(* The theorems. *)

(* The inductive invariant holds in every state.                                *)
THEOREM UdpInvariance == Spec => []UdpIInv
<1>1. Init => UdpIInv
  BY InitUdpIInv
<1>2. UdpIInv /\ [Next]_vars => UdpIInv'
  BY StepUdpIInv
<1> QED
  BY <1>1, <1>2, PTL DEF Spec

(* Every request and response is well formed, no channel holds more than its    *)
(* size, and neither task has more than one message in hand.                    *)
THEOREM UdpTyping == Spec => []TypeOK
<1>1. UdpIInv => TypeOK
  BY DEF UdpIInv
<1> QED
  BY <1>1, UdpInvariance, PTL

(* The clients cannot tell the two tasks and their channels from a store that   *)
(* answers each request before it reads the next.                               *)
THEOREM StoreAnswersInOrder == Spec => []AnswersInOrder
<1>1. UdpIInv => AnswersInOrder
  <2> SUFFICES ASSUME UdpIInv PROVE AnswersInOrder
    OBVIOUS
  <2> USE DEF UdpIInv
  <2>1. /\ received \in Seq(Msg) /\ replied \in Seq(Msg)
        /\ toSocket \in Seq(Msg) /\ storeHas \in Seq(Msg)
    BY DEF TypeOK
  <2>2. PICK rest \in Seq(Msg) : Answers(received) = Answers(Done) \o rest
    BY <2>1, AnswersBegin, DoneType DEF Done
  <2>3. IsPrefix(replied, ((replied \o toSocket) \o storeHas) \o rest)
    <3>1. rest \in Seq(Msg)
      OBVIOUS
    <3> QED
      BY <2>1, <3>1, PrefixOfThree
  <2> QED
    BY <2>2, <2>3 DEF AnswersInOrder, ResponsesInOrder
<1> QED
  BY <1>1, UdpInvariance, PTL

(* The deadlock of the two tasks that the code's comment rules out needs twice  *)
(* the size of a channel and two more requests, none of them answered: a larger *)
(* channel makes it rarer, and no size rules it out.                            *)
THEOREM DeadlockNeedsRequests == Spec => []DeadlockTakes
<1>1. UdpIInv => DeadlockTakes
  <2> SUFFICES ASSUME UdpIInv, SocketWaits, StoreWaits
               PROVE  Len(received) - Len(replied) >= 2 * (ChanSize + 1)
    BY DEF DeadlockTakes
  <2> USE DEF UdpIInv
  <2>1. /\ Len(replied) \in Nat /\ Len(received) \in Nat
        /\ Len(socketHas) \in Nat \ {0} /\ Len(storeHas) \in Nat \ {0}
    BY DEF TypeOK, SocketWaits, StoreWaits, Nothing
  <2>2. Len(toStore) = ChanSize /\ Len(toSocket) = ChanSize
    BY DEF SocketWaits, StoreWaits
  <2>3. /\ Handled \in Int
        /\ Len(received) = Handled + Len(toStore) + Len(socketHas)
        /\ Len(replied) + Len(toSocket) + Len(storeHas) <= Handled
    BY DoneType DEF AtMostOneEach
  <2> QED
    BY <2>1, <2>2, <2>3, ChanSizeAssumption
<1> QED
  BY <1>1, UdpInvariance, PTL
================================================================================
