--------------------------- MODULE SpeedClientProofs ---------------------------
(* Proofs about one client of 06_speed: however its bytes arrive, its task does *)
(* what SpeedSession says message by message.                                   *)
EXTENDS SpeedClient, SequenceLemmas, FiniteSetTheorems

--------------------------------------------------------------------------------
(* The inductive invariant. *)

(* Where the first n messages of a script end in the stream.                    *)
End(s, n) == Len(EncodedAll(SubSeq(s, 1, n)))

Before == ToSet(SubSeq(script, 1, handled))

(* As long as the loop runs, the buffer begins with the first message that is   *)
(* not handled yet.                                                             *)
Aligned ==
  status = "running" =>
    /\ why = ""
    /\ taken = End(script, handled) + Len(buffer)
    /\ At(Stream, End(script, handled), buffer)

(* The loop that the task is in, its camera and its heart are what the messages *)
(* handled so far have made of them.                                            *)
Remembers ==
  /\ role = "unid" => \A b \in Before : b.type \notin {"camera", "dispatcher"}
  /\ role = "camera" => \A b \in Before : b.type = "camera" <=> b = camera
  /\ role = "camera" => camera \in Before
  /\ role = "dispatcher" => \E b \in Before : b.type = "dispatcher"
  /\ role = "dispatcher" => \A b \in Before : b.type # "camera"
  /\ beating => \E b \in Before : b.type = "heartbeat" /\ b.interval # Zero
  /\ ~ beating => \A b \in Before : b.type = "heartbeat" => b.interval = Zero

ClientIInv == ClientTypeOK /\ Aligned /\ Remembers /\ EofLosesNothing

--------------------------------------------------------------------------------
(* What the bytes of a message are. *)

(* The two bytes of a number are a sequence.                                    *)
LEMMA WordType ==
  ASSUME NEW w \in Word
  PROVE  w \in Seq(Byte) /\ Len(w) = 2
BY PairType DEF Word

(* And so are four.                                                             *)
LEMMA DoubleWordType ==
  ASSUME NEW w \in DoubleWord
  PROVE  w \in Seq(Byte) /\ Len(w) = 4
<1> DEFINE t == [i \in 1 .. 4 |-> w[i]]
<1>1. t \in Seq(Byte) /\ Len(t) = 4
  BY DEF DoubleWord
<1>2. w = t
  BY DEF DoubleWord
<1> QED
  BY <1>1, <1>2

(* What has a length of one byte.                                               *)
LEMMA ShortType ==
  ASSUME NEW S, NEW s \in {t \in Seq(S) : Len(t) <= 255}
  PROVE  s \in Seq(S) /\ Len(s) \in 0 .. 255
<1>1. s \in Seq(S) /\ Len(s) <= 255
  BY Zenon
<1>2. Len(s) \in Nat
  BY <1>1, LenProperties, Zenon
<1>3. \A n \in Nat : n <= 255 => n \in 0 .. 255
  OBVIOUS
<1> QED
  BY <1>1, <1>2, <1>3, Zenon

(* The fields of a message.                                                     *)
LEMMA MessageParts ==
  ASSUME NEW m \in Message
  PROVE  /\ m.type \in {"plate", "heartbeat", "camera", "dispatcher", "other"}
         /\ m.type = "plate" =>
              /\ m.plate \in Seq(Byte) /\ Len(m.plate) \in 0 .. 255 /\ m.timestamp \in DoubleWord
              /\ m = [type |-> "plate", plate |-> m.plate, timestamp |-> m.timestamp]
         /\ m.type = "heartbeat" =>
              m.interval \in DoubleWord /\ m = [type |-> "heartbeat", interval |-> m.interval]
         /\ m.type = "camera" =>
              /\ m.road \in Word /\ m.mile \in Word /\ m.limit \in Word
              /\ m = [type |-> "camera", road |-> m.road, mile |-> m.mile, limit |-> m.limit]
         /\ m.type = "dispatcher" =>
              /\ m.roads \in Seq(Word) /\ Len(m.roads) \in 0 .. 255
              /\ m = [type |-> "dispatcher", roads |-> m.roads]
         /\ m.type = "other" =>
              m.byte \in Byte \ {PlateByte, HeartbeatByte, CameraByte, DispatcherByte}
<1>1. CASE m \in [type : {"plate"}, plate : {p \in Seq(Byte) : Len(p) <= 255},
                   timestamp : DoubleWord]
  <2>1. /\ m.plate \in {p \in Seq(Byte) : Len(p) <= 255} /\ m.timestamp \in DoubleWord
        /\ m = [type |-> "plate", plate |-> m.plate, timestamp |-> m.timestamp]
    BY <1>1
  <2>2. m.plate \in Seq(Byte) /\ Len(m.plate) \in 0 .. 255
    BY <2>1, ShortType, Zenon
  <2>3. m.type = "plate"
    BY <1>1
  <2> QED
    BY <2>1, <2>2, <2>3
<1>2. CASE m \in [type : {"heartbeat"}, interval : DoubleWord]
  BY <1>2
<1>3. CASE m \in [type : {"camera"}, road : Word, mile : Word, limit : Word]
  BY <1>3
<1>4. CASE m \in [type : {"dispatcher"}, roads : {r \in Seq(Word) : Len(r) <= 255}]
  <2>1. /\ m.roads \in {r \in Seq(Word) : Len(r) <= 255}
        /\ m = [type |-> "dispatcher", roads |-> m.roads]
    BY <1>4
  <2>2. m.roads \in Seq(Word) /\ Len(m.roads) \in 0 .. 255
    BY <2>1, ShortType, Zenon
  <2>3. m.type = "dispatcher"
    BY <1>4
  <2> QED
    BY <2>2, <2>3, <2>1
<1>5. CASE m \in [type : {"other"},
                   byte : Byte \ {PlateByte, HeartbeatByte, CameraByte, DispatcherByte}]
  BY <1>5
<1> QED
  BY <1>1, <1>2, <1>3, <1>4, <1>5 DEF Message

(* What a message with a list begins with: its type, and how long the list is.  *)
LEMMA TwoBytes ==
  ASSUME NEW a \in Byte, NEW b \in Byte
  PROVE  <<a, b>> \in Seq(Byte) /\ Len(<<a, b>>) = 2 /\ <<a, b>>[1] = a /\ <<a, b>>[2] = b
OBVIOUS

(* The bytes of each message: how many, the type, and where its fields are.     *)
LEMMA PlateBytes ==
  ASSUME NEW m \in Message, m.type = "plate"
  PROVE  /\ Encoded(m) \in Seq(Byte) /\ Len(Encoded(m)) = Len(m.plate) + 6
         /\ Encoded(m)[1] = PlateByte /\ Encoded(m)[2] = Len(m.plate)
         /\ At(Encoded(m), 2, m.plate)
         /\ At(Encoded(m), 2 + Len(m.plate), m.timestamp)
<1> PICK n \in Nat : n = Len(m.plate)
  <2>1. Len(m.plate) \in 0 .. 255
    BY MessageParts, Zenon
  <2>2. Len(m.plate) \in Nat
    BY <2>1
  <2> QED
    BY <2>2, Zenon
<1> PICK e : e = Encoded(m)
  OBVIOUS
<1>1. m.plate \in Seq(Byte) /\ n \in 0 .. 255 /\ m.timestamp \in DoubleWord
  BY MessageParts
<1>2. m.timestamp \in Seq(Byte) /\ Len(m.timestamp) = 4
  BY <1>1, DoubleWordType
<1> DEFINE head == <<PlateByte, n>>
<1>3. head \in Seq(Byte) /\ Len(head) = 2 /\ head[1] = PlateByte /\ head[2] = n
  <2>1. PlateByte \in Byte
    BY DEF PlateByte, Byte
  <2>2. n \in Byte
    BY <1>1, Zenon DEF Byte
  <2> QED
    BY <2>1, <2>2, TwoBytes, Zenon
<1> HIDE DEF head
<1> PICK hp : hp = head \o m.plate
  OBVIOUS
<1>4. e = hp \o m.timestamp
  BY DEF Encoded, head
<1>5. /\ hp \in Seq(Byte) /\ Len(hp) = 2 + n
      /\ \A i \in 1 .. 2 : hp[i] = head[i]
      /\ \A i \in 1 .. n : hp[2 + i] = m.plate[i]
  <2>1. hp \in Seq(Byte) /\ Joined(hp, head, m.plate)
    BY <1>1, <1>3, ConcatJoins, Zenon
  <2> QED
    BY <1>3, <2>1, Zenon DEF Joined
<1>6. /\ e \in Seq(Byte) /\ Len(e) = (2 + n) + 4
      /\ \A i \in 1 .. 2 + n : e[i] = hp[i]
      /\ \A i \in 1 .. 4 : e[(2 + n) + i] = m.timestamp[i]
  <2>1. e \in Seq(Byte) /\ Joined(e, hp, m.timestamp)
    BY <1>2, <1>4, <1>5, ConcatJoins, ZenonT(40)
  <2> QED
    BY <1>2, <1>5, <2>1, Zenon DEF Joined
<1>7. /\ 1 \in 1 .. 2 /\ 2 \in 1 .. 2 /\ 1 \in 1 .. 2 + n /\ 2 \in 1 .. 2 + n
      /\ (2 + n) + 4 = n + 6 /\ \A i \in 1 .. n : 2 + i \in 1 .. 2 + n
      /\ 2 + n <= (2 + n) + 4 /\ (2 + n) + 4 <= (2 + n) + 4
  OBVIOUS
<1>8. e[1] = PlateByte /\ e[2] = n /\ \A i \in 1 .. n : e[2 + i] = m.plate[i]
  BY <1>3, <1>5, <1>6, <1>7, Zenon
<1>9. At(e, 2, m.plate) /\ At(e, 2 + n, m.timestamp)
  BY <1>2, <1>6, <1>7, <1>8, Zenon DEF At
<1> QED
  BY <1>6, <1>7, <1>8, <1>9, Zenon

LEMMA HeartbeatBytes ==
  ASSUME NEW m \in Message, m.type = "heartbeat"
  PROVE  /\ Encoded(m) \in Seq(Byte) /\ Len(Encoded(m)) = 5
         /\ Encoded(m)[1] = HeartbeatByte /\ At(Encoded(m), 1, m.interval)
<1> PICK e : e = Encoded(m)
  OBVIOUS
<1>1. m.interval \in Seq(Byte) /\ Len(m.interval) = 4
  BY MessageParts, DoubleWordType
<1> DEFINE head == <<HeartbeatByte>>
<1>2. head \in Seq(Byte) /\ Len(head) = 1 /\ head[1] = HeartbeatByte
  BY DEF HeartbeatByte, Byte
<1> HIDE DEF head
<1>3. e = head \o m.interval
  BY DEF Encoded, head
<1>4. /\ e \in Seq(Byte) /\ Len(e) = 1 + 4
      /\ \A i \in 1 .. 1 : e[i] = head[i]
      /\ \A i \in 1 .. 4 : e[1 + i] = m.interval[i]
  <2>1. e \in Seq(Byte) /\ Joined(e, head, m.interval)
    BY <1>1, <1>2, <1>3, ConcatJoins, Zenon
  <2> QED
    BY <1>1, <1>2, <2>1, Zenon DEF Joined
<1>5. 1 \in 1 .. 1 /\ 1 + 4 = 5 /\ 5 <= 5
  OBVIOUS
<1> QED
  BY <1>1, <1>2, <1>4, <1>5, Zenon DEF At

LEMMA CameraBytes ==
  ASSUME NEW m \in Message, m.type = "camera"
  PROVE  /\ Encoded(m) \in Seq(Byte) /\ Len(Encoded(m)) = 7 /\ Encoded(m)[1] = CameraByte
         /\ At(Encoded(m), 1, m.road) /\ At(Encoded(m), 3, m.mile) /\ At(Encoded(m), 5, m.limit)
<1> PICK e : e = Encoded(m)
  OBVIOUS
<1>1. /\ m.road \in Seq(Byte) /\ Len(m.road) = 2
      /\ m.mile \in Seq(Byte) /\ Len(m.mile) = 2
      /\ m.limit \in Seq(Byte) /\ Len(m.limit) = 2
  BY MessageParts, WordType
<1> DEFINE head == <<CameraByte>>
<1>2. head \in Seq(Byte) /\ Len(head) = 1 /\ head[1] = CameraByte
  BY DEF CameraByte, Byte
<1> HIDE DEF head
<1> PICK r : r = head \o m.road
  OBVIOUS
<1> PICK s : s = r \o m.mile
  OBVIOUS
<1>3. e = s \o m.limit
  BY DEF Encoded, head
<1>4. /\ 3 <= 7 /\ 5 <= 7 /\ 7 <= 7
      /\ 1 + 2 = 3 /\ 3 + 2 = 5 /\ 5 + 2 = 7
      /\ 1 \in 1 .. 1 /\ 1 \in 1 .. 3 /\ 1 \in 1 .. 5
      /\ \A i \in 1 .. 2 : 1 + i \in 1 .. 3 /\ 1 + i \in 1 .. 5 /\ 3 + i \in 1 .. 5
  OBVIOUS
<1>5. /\ r \in Seq(Byte) /\ Len(r) = 3
      /\ \A i \in 1 .. 1 : r[i] = head[i]
      /\ \A i \in 1 .. 2 : r[1 + i] = m.road[i]
  <2>1. r \in Seq(Byte) /\ Joined(r, head, m.road)
    BY <1>1, <1>2, ConcatJoins, Zenon
  <2> QED
    BY <1>1, <1>2, <1>4, <2>1, Zenon DEF Joined
<1>6. /\ s \in Seq(Byte) /\ Len(s) = 5
      /\ \A i \in 1 .. 3 : s[i] = r[i]
      /\ \A i \in 1 .. 2 : s[3 + i] = m.mile[i]
  <2>1. s \in Seq(Byte) /\ Joined(s, r, m.mile)
    BY <1>1, <1>5, ConcatJoins, Zenon
  <2> QED
    BY <1>1, <1>4, <1>5, <2>1, Zenon DEF Joined
<1>7. /\ e \in Seq(Byte) /\ Len(e) = 7
      /\ \A i \in 1 .. 5 : e[i] = s[i]
      /\ \A i \in 1 .. 2 : e[5 + i] = m.limit[i]
  <2>1. e \in Seq(Byte) /\ Joined(e, s, m.limit)
    BY <1>1, <1>3, <1>6, ConcatJoins, ZenonT(40)
  <2> QED
    BY <1>1, <1>4, <1>6, <2>1, ZenonT(40) DEF Joined
<1>8. \A i \in 1 .. 2 : e[1 + i] = m.road[i] /\ e[3 + i] = m.mile[i] /\ e[5 + i] = m.limit[i]
  BY <1>4, <1>5, <1>6, <1>7, ZenonT(40)
<1>9. e[1] = CameraByte
  BY <1>2, <1>4, <1>5, <1>6, <1>7, Zenon
<1> QED
  BY <1>1, <1>4, <1>7, <1>8, <1>9, Zenon DEF At

LEMMA DispatcherBytes ==
  ASSUME NEW m \in Message, m.type = "dispatcher"
  PROVE  /\ Encoded(m) \in Seq(Byte) /\ Len(Encoded(m)) = 2 + 2 * Len(m.roads)
         /\ Encoded(m)[1] = DispatcherByte /\ Encoded(m)[2] = Len(m.roads)
         /\ \A i \in 1 .. Len(m.roads) : At(Encoded(m), 2 * i, m.roads[i])
<1> PICK n \in Nat : n = Len(m.roads)
  <2>1. Len(m.roads) \in 0 .. 255
    BY MessageParts, Zenon
  <2>2. Len(m.roads) \in Nat
    BY <2>1
  <2> QED
    BY <2>2, Zenon
<1> PICK e : e = Encoded(m)
  OBVIOUS
<1>1. m.roads \in Seq(Word) /\ n \in 0 .. 255
  BY MessageParts
<1> PICK f : f = FlattenSeq(m.roads)
  OBVIOUS
<1>2. f \in Seq(Byte) /\ Len(f) = 2 * n
      /\ \A i \in 1 .. n : f[2 * i - 1] = m.roads[i][1] /\ f[2 * i] = m.roads[i][2]
  <2>1. m.roads \in Seq([1 .. 2 -> Byte])
    BY <1>1 DEF Word
  <2>2. FlattenSeq(m.roads) \in Seq(Byte) /\ IsPairs(FlattenSeq(m.roads), m.roads, Len(m.roads))
    BY <2>1, FlattenPairs, Zenon
  <2> QED
    BY <2>2, Zenon DEF IsPairs
<1> DEFINE head == <<DispatcherByte, n>>
<1>3. head \in Seq(Byte) /\ Len(head) = 2 /\ head[1] = DispatcherByte /\ head[2] = n
  <2>1. DispatcherByte \in Byte
    BY DEF DispatcherByte, Byte
  <2>2. n \in Byte
    BY <1>1, Zenon DEF Byte
  <2> QED
    BY <2>1, <2>2, TwoBytes, Zenon
<1> HIDE DEF head
<1>4. e = head \o f
  BY DEF Encoded, head
<1>5. /\ 1 \in 1 .. 2 /\ 2 \in 1 .. 2
      /\ \A i \in 1 .. n : /\ 2 * i - 1 \in 1 .. 2 * n /\ 2 + (2 * i - 1) = 2 * i + 1
                           /\ 2 * i \in 1 .. 2 * n /\ 2 + 2 * i = 2 * i + 2
  OBVIOUS
<1>6. /\ e \in Seq(Byte) /\ Len(e) = 2 + 2 * n
      /\ \A i \in 1 .. 2 : e[i] = head[i]
      /\ \A i \in 1 .. 2 * n : e[2 + i] = f[i]
  <2>1. e \in Seq(Byte) /\ Joined(e, head, f)
    BY <1>2, <1>3, <1>4, ConcatJoins, Zenon
  <2> QED
    BY <1>2, <1>3, <2>1, Zenon DEF Joined
<1>7. \A i \in 1 .. n : e[2 * i + 1] = m.roads[i][1] /\ e[2 * i + 2] = m.roads[i][2]
  <2> TAKE i \in 1 .. n
  <2> PICK x \in 1 .. 2 * n : x = 2 * i - 1 /\ 2 + x = 2 * i + 1
    BY <1>5
  <2> PICK y \in 1 .. 2 * n : y = 2 * i /\ 2 + y = 2 * i + 2
    BY <1>5
  <2>1. e[2 + x] = f[x] /\ e[2 + y] = f[y]
    BY <1>6
  <2>2. f[x] = m.roads[i][1] /\ f[y] = m.roads[i][2]
    BY <1>2
  <2> QED
    BY <2>1, <2>2
<1>8. \A i \in 1 .. n : At(e, 2 * i, m.roads[i])
  <2> TAKE i \in 1 .. n
  <2>1. Len(m.roads[i]) = 2
    <3>1. m.roads[i] \in Word
      BY <1>1, ElementOfSeq
    <3> QED
      BY <3>1, WordType, Zenon
  <2>2. 2 * i + 2 <= 2 + 2 * n /\ \A j \in 1 .. 2 : j = 1 \/ j = 2
    OBVIOUS
  <2> QED
    BY <1>6, <1>7, <2>1, <2>2, Zenon DEF At
<1> QED
  BY <1>3, <1>5, <1>6, <1>8, Zenon

LEMMA OtherBytes ==
  ASSUME NEW m \in Message, m.type = "other"
  PROVE  /\ Encoded(m) \in Seq(Byte) /\ Len(Encoded(m)) = 1
         /\ Encoded(m)[1] \notin {PlateByte, HeartbeatByte, CameraByte, DispatcherByte}
<1>1. m.byte \in Byte \ {PlateByte, HeartbeatByte, CameraByte, DispatcherByte}
  BY MessageParts
<1>2. Encoded(m) = <<m.byte>>
  BY DEF Encoded
<1> QED
  BY <1>1, <1>2

(* Every message has at least one byte.                                         *)
LEMMA EncodedType ==
  ASSUME NEW m \in Message
  PROVE  Encoded(m) \in Seq(Byte) /\ Len(Encoded(m)) \in Nat \ {0}
<1>1. CASE m.type = "plate"
  <2>1. \A n \in Nat : n + 6 \in Nat \ {0}
    OBVIOUS
  <2>2. Len(m.plate) \in Nat
    <3>1. Len(m.plate) \in 0 .. 255
      BY <1>1, MessageParts, Zenon
    <3> QED
      BY <3>1
  <2> QED
    BY <1>1, <2>1, <2>2, PlateBytes, Zenon
<1>2. CASE m.type = "heartbeat"
  <2>1. 5 \in Nat \ {0}
    OBVIOUS
  <2> QED
    BY <1>2, <2>1, HeartbeatBytes, Zenon
<1>3. CASE m.type = "camera"
  <2>1. 7 \in Nat \ {0}
    OBVIOUS
  <2> QED
    BY <1>3, <2>1, CameraBytes, Zenon
<1>4. CASE m.type = "dispatcher"
  <2>1. \A n \in Nat : 2 + 2 * n \in Nat \ {0}
    OBVIOUS
  <2>2. Len(m.roads) \in Nat
    <3>1. Len(m.roads) \in 0 .. 255
      BY <1>4, MessageParts, Zenon
    <3> QED
      BY <3>1
  <2> QED
    BY <1>4, <2>1, <2>2, DispatcherBytes, Zenon
<1>5. CASE m.type = "other"
  <2>1. 1 \in Nat \ {0}
    OBVIOUS
  <2> QED
    BY <1>5, <2>1, OtherBytes, Zenon
<1> QED
  BY <1>1, <1>2, <1>3, <1>4, <1>5, MessageParts

--------------------------------------------------------------------------------
(* What inner_read makes of bytes that begin with a message, or with as much of *)
(* it as has arrived.                                                           *)

(* The bytes b and those of e are the same as far as both go.                   *)
Agrees(b, e) == \A i \in 1 .. Len(e) : i <= Len(b) => b[i] = e[i]

(* Of the bytes b inner_read makes message m, as soon as they are enough.       *)
Reads(b, m) ==
  /\ KnownType(b)
  /\ Len(b) < Len(Encoded(m)) => Len(b) < MessageLength(b)
  /\ Len(Encoded(m)) <= Len(b) =>
       MessageLength(b) = Len(Encoded(m)) /\ Decoded(b) = Session!Understood(m)

(* When all of a message is there, its fields are where they are sent.          *)
LEMMA AgreesAt ==
  ASSUME NEW S, NEW b \in Seq(S), NEW e \in Seq(S), NEW t \in Seq(S), NEW k \in Nat,
         Agrees(b, e), At(e, k, t), Len(e) <= Len(b)
  PROVE  At(b, k, t)
<1> PICK l \in Nat : l = Len(t)
  OBVIOUS
<1> PICK le \in Nat : le = Len(e)
  OBVIOUS
<1> PICK lb \in Nat : lb = Len(b)
  OBVIOUS
<1>1. k + l <= le /\ le <= lb /\ \A i \in 1 .. l : e[k + i] = t[i]
  BY DEF At
<1>2. k + l <= lb /\ \A i \in 1 .. l : k + i \in 1 .. le /\ k + i <= lb
  BY <1>1
<1>3. \A i \in 1 .. l : b[k + i] = t[i]
  BY <1>1, <1>2, Zenon DEF Agrees
<1> QED
  BY <1>2, <1>3, Zenon DEF At

(* Each message is read as what it is, once all its bytes are there.            *)
LEMMA ReadsPlate ==
  ASSUME NEW m \in Message, m.type = "plate", NEW b \in Seq(Byte), b # <<>>,
         Agrees(b, Encoded(m))
  PROVE  Reads(b, m)
<1> PICK n \in Nat : n = Len(m.plate)
  <2>1. Len(m.plate) \in 0 .. 255
    BY MessageParts, Zenon
  <2>2. Len(m.plate) \in Nat
    BY <2>1
  <2> QED
    BY <2>2, Zenon
<1> PICK e : e = Encoded(m)
  OBVIOUS
<1> PICK k \in Nat : k = Len(b) /\ 1 <= k
  BY EmptySeq
<1>1. /\ e \in Seq(Byte) /\ Len(e) = n + 6 /\ e[1] = PlateByte /\ e[2] = n
      /\ At(e, 2, m.plate) /\ At(e, 2 + n, m.timestamp)
  BY PlateBytes, Zenon
<1>2. /\ m.plate \in Seq(Byte) /\ m.timestamp \in Seq(Byte) /\ Len(m.timestamp) = 4
      /\ m = [type |-> "plate", plate |-> m.plate, timestamp |-> m.timestamp]
  BY MessageParts, DoubleWordType
<1>3. 1 \in 1 .. n + 6 /\ 2 \in 1 .. n + 6
  OBVIOUS
<1>4. b[1] = PlateByte /\ (2 <= k => b[2] = n)
  BY <1>1, <1>3, Zenon DEF Agrees
<1>5. KnownType(b)
  BY <1>4 DEF KnownType
<1>6. MessageLength(b) = IF k < 2 THEN 2 ELSE 2 + b[2] + 4
  BY <1>4 DEF MessageLength, PlateByte, HeartbeatByte, CameraByte, DispatcherByte
<1>7. k < n + 6 => k < MessageLength(b)
  <2>1. CASE k < 2
    BY <1>6, <2>1
  <2>2. CASE 2 <= k
    BY <1>4, <1>6, <2>2
  <2> QED
    BY <2>1, <2>2
<1>8. ASSUME n + 6 <= k
      PROVE  MessageLength(b) = n + 6 /\ Decoded(b) = Session!Understood(m)
  <2>1. ~ (k < 2) /\ 2 <= k
    BY <1>8
  <2>2. MessageLength(b) = n + 6
    BY <1>4, <1>6, <2>1
  <2>3. 2 + 1 = 3 /\ (2 + n) + 1 = 3 + n /\ (2 + n) + 4 = 6 + n /\ 2 \in Nat /\ 2 + n \in Nat
    OBVIOUS
  <2>4. At(b, 2, m.plate) /\ At(b, 2 + n, m.timestamp)
    BY <1>1, <1>2, <1>8, <2>3, AgreesAt, Zenon
  <2>5. SubSeq(b, 3, 2 + n) = m.plate /\ SubSeq(b, 3 + n, 6 + n) = m.timestamp
    <3>1. SubSeq(b, 2 + 1, 2 + Len(m.plate)) = m.plate
      BY <1>2, <2>3, <2>4, SubSeqIs, Zenon
    <3>2. SubSeq(b, (2 + n) + 1, (2 + n) + Len(m.timestamp)) = m.timestamp
      BY <1>2, <2>3, <2>4, SubSeqIs, Zenon
    <3> QED
      BY <1>2, <2>3, <3>1, <3>2, Zenon
  <2>6. Decoded(b) = [type |-> "plate", plate |-> SubSeq(b, 3, 2 + b[2]),
                      timestamp |-> SubSeq(b, 3 + b[2], 6 + b[2])]
    BY <1>4 DEF Decoded, PlateByte, HeartbeatByte, CameraByte, DispatcherByte
  <2>7. Session!Understood(m) = m
    BY DEF Session!Understood
  <2> QED
    BY <1>2, <1>4, <2>1, <2>2, <2>5, <2>6, <2>7, Zenon
<1> QED
  BY <1>1, <1>5, <1>7, <1>8, Zenon DEF Reads

LEMMA ReadsHeartbeat ==
  ASSUME NEW m \in Message, m.type = "heartbeat", NEW b \in Seq(Byte), b # <<>>,
         Agrees(b, Encoded(m))
  PROVE  Reads(b, m)
<1> PICK e : e = Encoded(m)
  OBVIOUS
<1> PICK k \in Nat : k = Len(b) /\ 1 <= k
  BY EmptySeq
<1>1. e \in Seq(Byte) /\ Len(e) = 5 /\ e[1] = HeartbeatByte /\ At(e, 1, m.interval)
  BY HeartbeatBytes, Zenon
<1>2. /\ m.interval \in Seq(Byte) /\ Len(m.interval) = 4
      /\ m = [type |-> "heartbeat", interval |-> m.interval]
  BY MessageParts, DoubleWordType
<1>3. 1 \in 1 .. 5
  OBVIOUS
<1>4. b[1] = HeartbeatByte
  BY <1>1, <1>3, Zenon DEF Agrees
<1>5. KnownType(b)
  BY <1>4 DEF KnownType
<1>6. MessageLength(b) = 5
  BY <1>4 DEF MessageLength, PlateByte, HeartbeatByte, CameraByte, DispatcherByte
<1>7. ASSUME 5 <= k PROVE Decoded(b) = Session!Understood(m)
  <2>1. 1 + 1 = 2 /\ 1 + 4 = 5 /\ 1 \in Nat
    OBVIOUS
  <2>2. At(b, 1, m.interval)
    BY <1>1, <1>2, <1>7, <2>1, AgreesAt, Zenon
  <2>3. SubSeq(b, 2, 5) = m.interval
    <3>1. SubSeq(b, 1 + 1, 1 + Len(m.interval)) = m.interval
      BY <1>2, <2>1, <2>2, SubSeqIs, Zenon
    <3> QED
      BY <1>2, <2>1, <3>1, Zenon
  <2>4. Decoded(b) = [type |-> "heartbeat", interval |-> SubSeq(b, 2, 5)]
    BY <1>4 DEF Decoded, PlateByte, HeartbeatByte, CameraByte, DispatcherByte
  <2>5. Session!Understood(m) = m
    BY DEF Session!Understood
  <2> QED
    BY <1>2, <2>3, <2>4, <2>5, Zenon
<1> QED
  BY <1>1, <1>5, <1>6, <1>7, Zenon DEF Reads

LEMMA ReadsCamera ==
  ASSUME NEW m \in Message, m.type = "camera", NEW b \in Seq(Byte), b # <<>>,
         Agrees(b, Encoded(m))
  PROVE  Reads(b, m)
<1> PICK e : e = Encoded(m)
  OBVIOUS
<1> PICK k \in Nat : k = Len(b) /\ 1 <= k
  BY EmptySeq
<1>1. /\ e \in Seq(Byte) /\ Len(e) = 7 /\ e[1] = CameraByte
      /\ At(e, 1, m.road) /\ At(e, 3, m.mile) /\ At(e, 5, m.limit)
  BY CameraBytes, Zenon
<1>2. /\ m.road \in Seq(Byte) /\ Len(m.road) = 2
      /\ m.mile \in Seq(Byte) /\ Len(m.mile) = 2
      /\ m.limit \in Seq(Byte) /\ Len(m.limit) = 2
      /\ m = [type |-> "camera", road |-> m.road, mile |-> m.mile, limit |-> m.limit]
  BY MessageParts, WordType
<1>3. 1 \in 1 .. 7
  OBVIOUS
<1>4. b[1] = CameraByte
  BY <1>1, <1>3, Zenon DEF Agrees
<1>5. KnownType(b)
  BY <1>4 DEF KnownType
<1>6. MessageLength(b) = 7
  BY <1>4 DEF MessageLength, PlateByte, HeartbeatByte, CameraByte, DispatcherByte
<1>7. ASSUME 7 <= k PROVE Decoded(b) = Session!Understood(m)
  <2>1. /\ 1 + 1 = 2 /\ 1 + 2 = 3 /\ 3 + 1 = 4 /\ 3 + 2 = 5 /\ 5 + 1 = 6 /\ 5 + 2 = 7
        /\ 1 \in Nat /\ 3 \in Nat /\ 5 \in Nat
    OBVIOUS
  <2>2. At(b, 1, m.road) /\ At(b, 3, m.mile) /\ At(b, 5, m.limit)
    BY <1>1, <1>2, <1>7, <2>1, AgreesAt, Zenon
  <2>3. /\ SubSeq(b, 1 + 1, 1 + Len(m.road)) = m.road
        /\ SubSeq(b, 3 + 1, 3 + Len(m.mile)) = m.mile
        /\ SubSeq(b, 5 + 1, 5 + Len(m.limit)) = m.limit
    BY <1>2, <2>1, <2>2, SubSeqIs, ZenonT(40)
  <2>4. SubSeq(b, 2, 3) = m.road /\ SubSeq(b, 4, 5) = m.mile /\ SubSeq(b, 6, 7) = m.limit
    BY <1>2, <2>1, <2>3, Zenon
  <2>5. Decoded(b) = [type |-> "camera", road |-> SubSeq(b, 2, 3), mile |-> SubSeq(b, 4, 5),
                      limit |-> SubSeq(b, 6, 7)]
    BY <1>4 DEF Decoded, PlateByte, HeartbeatByte, CameraByte, DispatcherByte
  <2>6. Session!Understood(m) = m
    BY DEF Session!Understood
  <2> QED
    BY <1>2, <2>4, <2>5, <2>6, Zenon
<1> QED
  BY <1>1, <1>5, <1>6, <1>7, Zenon DEF Reads

LEMMA ReadsDispatcher ==
  ASSUME NEW m \in Message, m.type = "dispatcher", NEW b \in Seq(Byte), b # <<>>,
         Agrees(b, Encoded(m))
  PROVE  Reads(b, m)
<1>0. m.roads \in Seq(Word)
  BY MessageParts, Zenon
<1> PICK n \in Nat : n = Len(m.roads)
  BY <1>0, LenProperties
<1> PICK e : e = Encoded(m)
  OBVIOUS
<1> PICK k \in Nat : k = Len(b) /\ 1 <= k
  BY EmptySeq
<1>1. /\ e \in Seq(Byte) /\ Len(e) = 2 + 2 * n /\ e[1] = DispatcherByte /\ e[2] = n
      /\ \A i \in 1 .. n : At(e, 2 * i, m.roads[i])
  BY DispatcherBytes, Zenon
<1>2. m.roads \in Seq(Word) /\ m = [type |-> "dispatcher", roads |-> m.roads]
  BY MessageParts
<1>3. 1 \in 1 .. 2 + 2 * n /\ 2 \in 1 .. 2 + 2 * n
  OBVIOUS
<1>4. b[1] = DispatcherByte /\ (2 <= k => b[2] = n)
  BY <1>1, <1>3, Zenon DEF Agrees
<1>5. KnownType(b)
  BY <1>4 DEF KnownType
<1>6. MessageLength(b) = IF k < 2 THEN 2 ELSE 2 + 2 * b[2]
  BY <1>4 DEF MessageLength, PlateByte, HeartbeatByte, CameraByte, DispatcherByte
<1>7. k < 2 + 2 * n => k < MessageLength(b)
  <2>1. CASE k < 2
    BY <1>6, <2>1
  <2>2. CASE 2 <= k
    BY <1>4, <1>6, <2>2
  <2> QED
    BY <2>1, <2>2
<1>8. ASSUME 2 + 2 * n <= k
      PROVE  MessageLength(b) = 2 + 2 * n /\ Decoded(b) = Session!Understood(m)
  <2>1. ~ (k < 2) /\ 2 <= k
    BY <1>8
  <2>2. MessageLength(b) = 2 + 2 * n
    BY <1>4, <1>6, <2>1
  <2> PICK l \in Nat : l = (IF n < ArrLen THEN n ELSE ArrLen)
    BY WireAssumption
  <2>3. l <= n /\ \A i \in 1 .. l : i \in 1 .. n /\ 2 * i \in Nat
    BY WireAssumption
  <2>4. ASSUME NEW i \in 1 .. l
        PROVE  SubSeq(b, 2 * i + 1, 2 * i + 2) = m.roads[i]
    <3>1. i \in 1 .. n /\ 2 * i \in Nat
      BY <2>3
    <3>2. m.roads[i] \in Seq(Byte) /\ Len(m.roads[i]) = 2
      BY <1>2, <3>1, ElementOfSeq, WordType
    <3>3. At(b, 2 * i, m.roads[i])
      BY <1>1, <1>8, <3>1, <3>2, AgreesAt, Zenon
    <3>4. SubSeq(b, 2 * i + 1, 2 * i + Len(m.roads[i])) = m.roads[i]
      BY <3>1, <3>2, <3>3, SubSeqIs, Zenon
    <3> QED
      BY <3>2, <3>4, Zenon
  <2>5. RoadsOf(b, n) = [i \in 1 .. l |-> m.roads[i]]
    BY <2>4 DEF RoadsOf
  <2>6. Session!Heard(m.roads) = SubSeq(m.roads, 1, l)
    BY DEF Session!Heard
  <2>7. /\ SubSeq(m.roads, 1, l) \in Seq(Word) /\ Len(SubSeq(m.roads, 1, l)) = l
        /\ \A i \in 1 .. l : SubSeq(m.roads, 1, l)[i] = m.roads[i]
    BY <1>2, <2>3, PrefixType
  <2>8. RoadsOf(b, n) = Session!Heard(m.roads)
    <3> PICK h \in Seq(Word) : h = SubSeq(m.roads, 1, l)
      BY <2>7
    <3>1. h \in [1 .. l -> Word] /\ \A i \in 1 .. l : h[i] = m.roads[i]
      BY <2>7, LenProperties, Zenon
    <3>2. h = [i \in 1 .. l |-> m.roads[i]]
      BY <3>1
    <3> QED
      BY <2>5, <2>6, <3>2, Zenon
  <2>9. Decoded(b) = [type |-> "dispatcher", roads |-> RoadsOf(b, b[2])]
    BY <1>4 DEF Decoded, PlateByte, HeartbeatByte, CameraByte, DispatcherByte
  <2>10. Session!Understood(m) = [type |-> "dispatcher", roads |-> Session!Heard(m.roads)]
    <3>1. Session!Understood(m) = [m EXCEPT !.roads = Session!Heard(m.roads)]
      BY DEF Session!Understood
    <3> QED
      BY <1>2, <3>1
  <2> QED
    BY <1>4, <2>1, <2>2, <2>8, <2>9, <2>10, Zenon
<1> QED
  BY <1>1, <1>5, <1>7, <1>8, Zenon DEF Reads

(* Bytes that begin with a message are partial as long as some of its bytes are *)
(* missing, whole once they are there and understood as that message.           *)
LEMMA ReadsMessage ==
  ASSUME NEW m \in Message, NEW b \in Seq(Byte), b # <<>>, Agrees(b, Encoded(m))
  PROVE  /\ IsIllegal(b) <=> m.type = "other"
         /\ m.type # "other" => Reads(b, m)
<1>1. CASE m.type = "other"
  <2>1. Len(Encoded(m)) = 1
        /\ Encoded(m)[1] \notin {PlateByte, HeartbeatByte, CameraByte, DispatcherByte}
    BY <1>1, OtherBytes, Zenon
  <2>2. 1 \in 1 .. 1 /\ 1 <= Len(b)
    BY EmptySeq
  <2>3. b[1] = Encoded(m)[1]
    BY <2>1, <2>2, Zenon DEF Agrees
  <2> QED
    BY <1>1, <2>1, <2>3, Zenon DEF IsIllegal, KnownType
<1>2. CASE m.type # "other"
  <2>1. Reads(b, m)
    BY <1>2, MessageParts, ReadsPlate, ReadsHeartbeat, ReadsCamera, ReadsDispatcher, Zenon
  <2> QED
    BY <1>2, <2>1 DEF Reads, IsIllegal
<1> QED
  BY <1>1, <1>2

--------------------------------------------------------------------------------
(* Where the messages are in the stream. *)

(* A prefix of the messages is a prefix of what is flattened to the stream.     *)
LEMMA EncodedIs ==
  ASSUME NEW s \in Seq(Message)
  PROVE  \E t \in Seq(Seq(Byte)) :
           /\ Len(t) = Len(s)
           /\ EncodedAll(s) = FlattenSeq(t)
           /\ \A i \in 1 .. Len(s) : t[i] = Encoded(s[i])
           /\ \A n \in 0 .. Len(s) : EncodedAll(SubSeq(s, 1, n)) = FlattenSeq(SubSeq(t, 1, n))
<1> PICK l \in Nat : l = Len(s)
  BY LenProperties
<1> DEFINE t == [i \in 1 .. l |-> Encoded(s[i])]
<1>1. \A i \in 1 .. l : Encoded(s[i]) \in Seq(Byte)
  BY ElementOfSeq, EncodedType, Zenon
<1>2. t \in Seq(Seq(Byte)) /\ Len(t) = l
  <2>1. t \in [1 .. l -> Seq(Byte)]
    BY <1>1, Zenon
  <2> HIDE DEF t
  <2> QED
    BY <2>1, FunctionIsSeq, Zenon
<1>3. \A i \in 1 .. l : t[i] = Encoded(s[i])
  BY Zenon
<1>4. EncodedAll(s) = FlattenSeq(t)
  BY Zenon DEF EncodedAll
<1> HIDE DEF t
<1>5. ASSUME NEW n \in 0 .. l
      PROVE  EncodedAll(SubSeq(s, 1, n)) = FlattenSeq(SubSeq(t, 1, n))
  <2> PICK p : p = SubSeq(s, 1, n)
    OBVIOUS
  <2> PICK q : q = SubSeq(t, 1, n)
    OBVIOUS
  <2>1. Len(p) = n /\ \A i \in 1 .. n : p[i] = s[i]
    BY PrefixType, Zenon
  <2>2. q \in Seq(Seq(Byte)) /\ Len(q) = n /\ \A i \in 1 .. n : q[i] = t[i]
    BY <1>2, PrefixType, ZenonT(40)
  <2>3. q \in [1 .. n -> Seq(Byte)]
    BY <2>2, LenProperties, Zenon
  <2>4. \A i \in 1 .. n : i \in 1 .. l
    OBVIOUS
  <2>5. \A i \in 1 .. n : q[i] = Encoded(p[i])
    BY <1>3, <2>1, <2>2, <2>4, Zenon
  <2>6. q = [i \in 1 .. n |-> Encoded(p[i])]
    BY <2>3, <2>5
  <2>7. EncodedAll(p) = FlattenSeq(q)
    BY <2>1, <2>6, Zenon DEF EncodedAll
  <2> QED
    BY <2>7, Zenon
<1> QED
  BY <1>2, <1>3, <1>4, <1>5, Zenon

(* The stream is the messages, one after the other.                             *)
LEMMA StreamIs ==
  ASSUME NEW s \in Seq(Message)
  PROVE  /\ EncodedAll(s) \in Seq(Byte)
         /\ End(s, 0) = 0
         /\ End(s, Len(s)) = Len(EncodedAll(s))
         /\ \A n \in 0 .. Len(s) : End(s, n) \in 0 .. Len(EncodedAll(s))
         /\ \A n \in 1 .. Len(s) : /\ End(s, n) = End(s, n - 1) + Len(Encoded(s[n]))
                                   /\ At(EncodedAll(s), End(s, n - 1), Encoded(s[n]))
<1> PICK l \in Nat : l = Len(s)
  BY LenProperties
<1> PICK t \in Seq(Seq(Byte)) :
           /\ Len(t) = l
           /\ EncodedAll(s) = FlattenSeq(t)
           /\ \A i \in 1 .. l : t[i] = Encoded(s[i])
           /\ \A n \in 0 .. l : EncodedAll(SubSeq(s, 1, n)) = FlattenSeq(SubSeq(t, 1, n))
  BY EncodedIs, Zenon
<1> PICK st \in Seq(Byte) : st = EncodedAll(s)
  BY FlattenType, Zenon
<1>1. \A n \in 0 .. l : /\ EncodedAll(SubSeq(s, 1, n)) \in Seq(Byte)
                        /\ Begins(st, EncodedAll(SubSeq(s, 1, n)))
  BY FlattenPrefix, Zenon
<1>2. ASSUME NEW n \in 0 .. l PROVE End(s, n) \in 0 .. Len(st)
  <2>1. /\ EncodedAll(SubSeq(s, 1, n)) \in Seq(Byte)
        /\ Len(EncodedAll(SubSeq(s, 1, n))) <= Len(st)
    BY <1>1, Zenon DEF Begins
  <2> QED
    BY <2>1, LenProperties DEF End
<1>3. End(s, 0) = 0
  <2>1. SubSeq(s, 1, 0) = <<>>
    BY SubSeqEmpty
  <2>2. EncodedAll(<<>>) = <<>>
    <3>1. [i \in 1 .. Len(<<>>) |-> Encoded(<<>>[i])] = <<>>
      OBVIOUS
    <3> QED
      BY <3>1, FlattenEmpty, Zenon DEF EncodedAll
  <2>3. Len(<<>>) = 0
    OBVIOUS
  <2> QED
    BY <2>1, <2>2, <2>3, Zenon DEF End
<1>4. End(s, l) = Len(st)
  <2>1. SubSeq(s, 1, l) = s
    BY SubSeqFull
  <2> QED
    BY <2>1, Zenon DEF End
<1>5. ASSUME NEW n \in 1 .. l
      PROVE  /\ End(s, n) = End(s, n - 1) + Len(Encoded(s[n]))
             /\ At(st, End(s, n - 1), Encoded(s[n]))
  <2> PICK p \in 0 .. l : p = n - 1
    OBVIOUS
  <2>0. n \in 0 .. l
    OBVIOUS
  <2> PICK f : f = EncodedAll(SubSeq(s, 1, p))
    OBVIOUS
  <2> PICK g : g = EncodedAll(SubSeq(s, 1, n))
    OBVIOUS
  <2> PICK e : e = Encoded(s[n])
    OBVIOUS
  <2>1. f \in Seq(Byte) /\ g \in Seq(Byte) /\ Begins(st, g)
    BY <1>1, <2>0, Zenon
  <2>2. e \in Seq(Byte)
    BY ElementOfSeq, EncodedType, Zenon
  <2>3. g = f \o e
    <3>1. FlattenSeq(SubSeq(t, 1, n)) = FlattenSeq(SubSeq(t, 1, n - 1)) \o t[n]
      BY FlattenStep, Zenon
    <3> QED
      BY <2>0, <3>1, Zenon
  <2>4. Joined(g, f, e)
    BY <2>1, <2>2, <2>3, ConcatJoins, Zenon
  <2>5. End(s, n) = Len(g) /\ End(s, p) = Len(f)
    BY Zenon DEF End
  <2>6. Len(f) \in Nat /\ Len(g) \in Nat /\ Len(e) \in Nat /\ Len(st) \in Nat
    BY <2>1, <2>2, LenProperties, Zenon
  <2>7. Len(g) = Len(f) + Len(e) /\ Len(g) <= Len(st)
    BY <2>1, <2>4, Zenon DEF Joined, Begins
  <2>8. \A i \in 1 .. Len(e) : Len(f) + i \in 1 .. Len(g)
    BY <2>6, <2>7
  <2>9. \A i \in 1 .. Len(e) : st[Len(f) + i] = e[i]
    BY <2>1, <2>4, <2>8, Zenon DEF Joined, Begins
  <2> QED
    BY <2>5, <2>7, <2>9, Zenon DEF At
<1> QED
  BY <1>2, <1>3, <1>4, <1>5, Zenon

(* More messages end no earlier.                                                *)
LEMMA EndGrows ==
  ASSUME NEW s \in Seq(Message), NEW n \in 0 .. Len(s), NEW m \in n .. Len(s)
  PROVE  End(s, n) <= End(s, m)
<1> PICK l \in Nat : l = Len(s)
  BY LenProperties
<1> DEFINE P == {j \in 0 .. m - n : End(s, n) <= End(s, n + j)}
<1>1. \A i \in 0 .. l : End(s, i) \in Nat
  <2>1. \A i \in 0 .. l : End(s, i) \in 0 .. Len(EncodedAll(s))
    BY StreamIs, Zenon
  <2> QED
    BY <2>1
<1>2. \A i \in 1 .. l : End(s, i) = End(s, i - 1) + Len(Encoded(s[i]))
  BY StreamIs, Zenon
<1>3. \A i \in 1 .. l : Len(Encoded(s[i])) \in Nat
  <2>1. \A i \in 1 .. l : Len(Encoded(s[i])) \in Nat \ {0}
    BY ElementOfSeq, EncodedType, Zenon
  <2> QED
    BY <2>1, Zenon
<1>4. 0 \in P
  BY <1>1
<1>5. ASSUME NEW j \in 1 .. m - n, j - 1 \in P PROVE j \in P
  <2>1. n + j \in 1 .. l /\ n + (j - 1) = (n + j) - 1 /\ n \in 0 .. l /\ (n + j) - 1 \in 0 .. l
    OBVIOUS
  <2>2. End(s, n) <= End(s, (n + j) - 1)
    BY <1>5, <2>1
  <2> PICK a \in Nat : a = End(s, n)
    BY <1>1, <2>1
  <2> PICK b \in Nat : b = End(s, (n + j) - 1)
    BY <1>1, <2>1
  <2> PICK e \in Nat : e = Len(Encoded(s[n + j]))
    BY <1>3, <2>1
  <2>3. End(s, n) <= End(s, n + j)
    <3>1. End(s, n + j) = b + e
      BY <1>2, <2>1, Zenon
    <3>2. a <= b
      BY <2>2, Zenon
    <3> QED
      BY <3>1, <3>2
  <2> QED
    BY <2>3
<1>6. m - n \in Nat /\ m - n \in 0 .. m - n /\ n + (m - n) = m
  OBVIOUS
<1>7. \A j \in 0 .. m - n : j \in P
  <2> HIDE DEF P
  <2> QED
    BY <1>4, <1>5, <1>6, UpTo
<1> QED
  BY <1>6, <1>7

--------------------------------------------------------------------------------
(* What the buffer is. *)

(* What the type invariant says of the script.                                  *)
LEMMA ScriptType ==
  ASSUME ClientTypeOK
  PROVE  script \in Seq(Message) /\ Len(script) \in Nat /\ handled \in 0 .. Len(script)
<1>1. script \in Scripts /\ handled \in 0 .. Len(script)
  BY DEF ClientTypeOK
<1>2. script \in Seq(Message)
  BY <1>1, ClientAssumption
<1> QED
  BY <1>1, <1>2, LenProperties

(* The buffer holds as much of the next message as has arrived, and more.       *)
LEMMA NextInBuffer ==
  ASSUME ClientTypeOK, Aligned, status = "running"
  PROVE  /\ handled = Len(script) => buffer = <<>>
         /\ handled < Len(script) => /\ handled + 1 \in 1 .. Len(script)
                                     /\ script[handled + 1] \in Message
                                     /\ Agrees(buffer, Encoded(script[handled + 1]))
<1> PICK l \in Nat : l = Len(script)
  BY ScriptType
<1>1. script \in Seq(Message) /\ handled \in 0 .. l
  BY ScriptType
<1> PICK st \in Seq(Byte) : st = Stream
  BY <1>1, StreamIs, Zenon DEF Stream
<1>2. /\ End(script, l) = Len(st)
      /\ \A n \in 0 .. l : End(script, n) \in 0 .. Len(st)
      /\ \A n \in 1 .. l : At(st, End(script, n - 1), Encoded(script[n]))
  BY <1>1, StreamIs, Zenon DEF Stream
<1> PICK h \in Nat : h = End(script, handled)
  BY <1>1, <1>2
<1> PICK k \in Nat : k = Len(buffer)
  BY LenProperties DEF ClientTypeOK
<1>3. buffer \in Seq(Byte) /\ taken \in 0 .. Len(st) /\ taken = h + k
  BY DEF ClientTypeOK, Aligned
<1>4. \A i \in 1 .. k : st[h + i] = buffer[i]
  <2>1. At(st, h, buffer)
    BY Zenon DEF Aligned
  <2> QED
    BY <2>1, Zenon DEF At
<1>5. ASSUME handled = l PROVE buffer = <<>>
  <2>1. h = Len(st)
    BY <1>2, <1>5
  <2>2. k = 0
    BY <1>3, <2>1
  <2> QED
    BY <1>3, <2>2, EmptySeq, Zenon
<1>6. ASSUME handled < l
      PROVE  /\ handled + 1 \in 1 .. l
             /\ script[handled + 1] \in Message
             /\ Agrees(buffer, Encoded(script[handled + 1]))
  <2>1. handled + 1 \in 1 .. l /\ (handled + 1) - 1 = handled
    BY <1>1, <1>6
  <2>2. script[handled + 1] \in Message
    BY <1>1, <2>1, ElementOfSeq, Zenon
  <2> PICK e : e = Encoded(script[handled + 1])
    OBVIOUS
  <2>3. \A i \in 1 .. Len(e) : st[h + i] = e[i]
    BY <1>2, <2>1, Zenon DEF At
  <2>4. Len(e) \in Nat
    BY <2>2, EncodedType, LenProperties, Zenon
  <2>5. \A i \in 1 .. Len(e) : i <= k => i \in 1 .. k
    BY <2>4
  <2>6. Agrees(buffer, e)
    BY <1>4, <2>3, <2>5, Zenon DEF Agrees
  <2> QED
    BY <2>1, <2>2, <2>6
<1> QED
  BY <1>5, <1>6, Zenon

(* The next message is whole, or not, just as the buffer is.                    *)
LEMMA NextIsRead ==
  ASSUME ClientTypeOK, Aligned, status = "running"
  PROVE  /\ ~ IsPartial(buffer) => handled < Len(script)
         /\ IsIllegal(buffer) => script[handled + 1].type = "other"
         /\ IsPartial(buffer) /\ handled < Len(script) =>
              Len(buffer) < Len(Encoded(script[handled + 1]))
         /\ IsWhole(buffer) =>
              /\ Len(Encoded(script[handled + 1])) <= Len(buffer)
              /\ MessageLength(buffer) = Len(Encoded(script[handled + 1]))
              /\ Decoded(buffer) = Session!Understood(script[handled + 1])
<1> PICK m : m = script[handled + 1]
  OBVIOUS
<1>1. buffer \in Seq(Byte) /\ Len(buffer) \in Nat
  BY LenProperties DEF ClientTypeOK
<1>2. ASSUME handled < Len(script)
      PROVE  m \in Message /\ Agrees(buffer, Encoded(m)) /\ Len(Encoded(m)) \in Nat \ {0}
  BY <1>2, NextInBuffer, EncodedType, Zenon
<1>3. ~ (handled < Len(script)) => buffer = <<>>
  <2>1. ~ (handled < Len(script)) => handled = Len(script)
    BY ScriptType
  <2> QED
    BY <2>1, NextInBuffer, Zenon
<1>4. ASSUME handled < Len(script), buffer # <<>>
      PROVE  (IsIllegal(buffer) <=> m.type = "other") /\ (m.type # "other" => Reads(buffer, m))
  BY <1>1, <1>2, <1>4, ReadsMessage, Zenon
<1>5. ~ IsPartial(buffer) => buffer # <<>> /\ handled < Len(script)
  BY <1>3, Zenon DEF IsPartial
<1>6. IsIllegal(buffer) => m.type = "other"
  BY <1>3, <1>4, Zenon DEF IsIllegal
<1>7. ASSUME IsPartial(buffer), handled < Len(script)
      PROVE  Len(buffer) < Len(Encoded(m))
  <2>1. CASE buffer = <<>>
    <3>1. Len(buffer) = 0
      BY <2>1
    <3> QED
      BY <1>2, <1>7, <3>1
  <2>2. CASE buffer # <<>>
    <3>1. KnownType(buffer) /\ Len(buffer) < MessageLength(buffer)
      BY <1>7, <2>2, Zenon DEF IsPartial
    <3>2. Reads(buffer, m)
      BY <1>4, <1>7, <2>2, <3>1, Zenon DEF IsIllegal
    <3>3. Len(Encoded(m)) <= Len(buffer) => MessageLength(buffer) = Len(Encoded(m))
      BY <3>2, Zenon DEF Reads
    <3> PICK k \in Nat : k = Len(buffer)
      BY <1>1
    <3> PICK e \in Nat : e = Len(Encoded(m))
      BY <1>2, <1>7
    <3>4. \A x, y \in Nat : ~ (x <= y) => y < x
      OBVIOUS
    <3>5. e <= k => k < e
      BY <3>1, <3>3, Zenon
    <3> QED
      BY <3>4, <3>5, Zenon
  <2> QED
    BY <2>1, <2>2
<1>8. ASSUME IsWhole(buffer)
      PROVE  /\ Len(Encoded(m)) <= Len(buffer)
             /\ MessageLength(buffer) = Len(Encoded(m))
             /\ Decoded(buffer) = Session!Understood(m)
  <2>1. handled < Len(script) /\ buffer # <<>> /\ ~ IsIllegal(buffer) /\ ~ IsPartial(buffer)
    BY <1>5, <1>8, Zenon DEF IsWhole
  <2>2. Reads(buffer, m)
    BY <1>4, <2>1, Zenon
  <2>3. ~ (Len(buffer) < MessageLength(buffer))
    BY <2>1, <2>2, Zenon DEF Reads, IsPartial
  <2>4. ~ (Len(buffer) < Len(Encoded(m)))
    BY <2>2, <2>3, Zenon DEF Reads
  <2>5. Len(Encoded(m)) <= Len(buffer)
    BY <1>1, <1>2, <2>1, <2>4
  <2> QED
    BY <2>2, <2>5, Zenon DEF Reads
<1> QED
  BY <1>5, <1>6, <1>7, <1>8, Zenon

(* What is left in the buffer is what the stream has after the message.         *)
LEMMA RestIs ==
  ASSUME NEW b \in Seq(Byte), NEW n \in 0 .. Len(b), MessageLength(b) = n
  PROVE  /\ Rest(b) \in Seq(Byte) /\ Len(Rest(b)) = Len(b) - n
         /\ \A i \in 1 .. Len(b) - n : Rest(b)[i] = b[n + i]
<1> PICK k \in Nat : k = Len(b)
  BY LenProperties
<1>1. Rest(b) = SubSeq(b, n + 1, k)
  BY DEF Rest
<1>2. n + 1 \in Int /\ k \in Int /\ \A i \in n + 1 .. k : b[i] \in Byte
  BY ElementOfSeq
<1>3. /\ SubSeq(b, n + 1, k) \in Seq(Byte)
      /\ Len(SubSeq(b, n + 1, k)) = IF n + 1 <= k THEN k - (n + 1) + 1 ELSE 0
      /\ \A i \in 1 .. k - (n + 1) + 1 : SubSeq(b, n + 1, k)[i] = b[(n + 1) + i - 1]
  BY <1>2, SubSeqProperties
<1>4. (IF n + 1 <= k THEN k - (n + 1) + 1 ELSE 0) = k - n /\ k - (n + 1) + 1 = k - n
  OBVIOUS
<1>5. \A i \in 1 .. k - n : (n + 1) + i - 1 = n + i
  OBVIOUS
<1> QED
  BY <1>1, <1>3, <1>4, <1>5, ZenonT(40)

(* What is left still follows in the stream, behind the message.                *)
LEMMA RestFollows ==
  ASSUME NEW st \in Seq(Byte), NEW h \in Nat, NEW b \in Seq(Byte), NEW n \in 0 .. Len(b),
         MessageLength(b) = n, At(st, h, b)
  PROVE  h + Len(b) = (h + n) + Len(Rest(b)) /\ At(st, h + n, Rest(b))
<1>1. /\ Len(b) \in Nat /\ Len(st) \in Nat /\ h + Len(b) <= Len(st)
      /\ \A i \in 1 .. Len(b) : st[h + i] = b[i]
  BY LenProperties, Zenon DEF At
<1>2. /\ Len(Rest(b)) = Len(b) - n
      /\ \A i \in 1 .. Len(b) - n : Rest(b)[i] = b[n + i]
  BY RestIs, Zenon
<1>3. \A k \in Nat : n \in 0 .. k =>
        /\ h + k = (h + n) + (k - n)
        /\ \A i \in 1 .. k - n : n + i \in 1 .. k /\ h + (n + i) = (h + n) + i
  OBVIOUS
<1>4. \A i \in 1 .. Len(b) - n : st[(h + n) + i] = Rest(b)[i]
  <2> TAKE i \in 1 .. Len(b) - n
  <2>1. n + i \in 1 .. Len(b) /\ h + (n + i) = (h + n) + i
    BY <1>1, <1>3, Zenon
  <2>2. st[h + (n + i)] = b[n + i]
    BY <1>1, <2>1, Zenon
  <2>3. Rest(b)[i] = b[n + i]
    BY <1>2, Zenon
  <2> QED
    BY <2>1, <2>2, <2>3
<1>5. h + Len(b) = (h + n) + (Len(b) - n)
  BY <1>1, <1>3, Zenon
<1> QED
  BY <1>1, <1>2, <1>4, <1>5, Zenon DEF At

(* And so does a buffer that the next bytes of the stream are added to.         *)
Follows(st, h, b, len) == b \in Seq(Byte) /\ Len(b) = len /\ At(st, h, b)

LEMMA MoreFollows ==
  ASSUME NEW st \in Seq(Byte), NEW h \in Nat, NEW b \in Seq(Byte), NEW n \in Nat,
         (h + Len(b)) + n <= Len(st), At(st, h, b)
  PROVE  Follows(st, h, b \o SubSeq(st, (h + Len(b)) + 1, (h + Len(b)) + n), Len(b) + n)
<1> PICK x : x = h + Len(b)
  OBVIOUS
<1> PICK c : c = b \o SubSeq(st, x + 1, x + n)
  OBVIOUS
<1>1. /\ Len(b) \in Nat /\ Len(st) \in Nat
      /\ \A i \in 1 .. Len(b) : st[h + i] = b[i]
  BY LenProperties, Zenon DEF At
<1>2. x \in Nat
  BY <1>1
<1> PICK new : new = SubSeq(st, x + 1, x + n)
  OBVIOUS
<1>3. new \in Seq(Byte) /\ IsMiddle(new, st, x, n)
  BY <1>2, MiddleIs, Zenon
<1>4. c \in Seq(Byte) /\ Joined(c, b, new)
  BY <1>3, ConcatJoins, Zenon
<1>5. /\ Len(new) = n /\ Len(c) = Len(b) + n
      /\ \A i \in 1 .. n : new[i] = st[x + i]
      /\ \A i \in 1 .. Len(b) : c[i] = b[i]
      /\ \A i \in 1 .. n : c[Len(b) + i] = new[i]
  BY <1>3, <1>4, Zenon DEF IsMiddle, Joined
<1>6. \A k \in Nat :
        /\ (h + k) + n = h + (k + n)
        /\ \A i \in 1 .. k + n : i \in 1 .. k \/ (i - k \in 1 .. n /\ i = k + (i - k))
        /\ \A j \in 1 .. n : (h + k) + j = h + (k + j)
  OBVIOUS
<1>7. ASSUME NEW i \in 1 .. Len(b) + n PROVE st[h + i] = c[i]
  <2>1. CASE i \in 1 .. Len(b)
    BY <1>1, <1>5, <2>1, Zenon
  <2>2. CASE i \notin 1 .. Len(b)
    <3>1. i - Len(b) \in 1 .. n /\ i = Len(b) + (i - Len(b))
      BY <1>1, <1>6, <2>2, Zenon
    <3> PICK j \in 1 .. n : j = i - Len(b)
      BY <3>1
    <3>2. i = Len(b) + j /\ (h + Len(b)) + j = h + (Len(b) + j)
      BY <1>1, <1>6, <3>1, Zenon
    <3>3. c[Len(b) + j] = new[j] /\ new[j] = st[x + j]
      BY <1>5, Zenon
    <3> QED
      BY <3>2, <3>3
  <2> QED
    BY <2>1, <2>2
<1>8. h + (Len(b) + n) <= Len(st)
  BY <1>1, <1>6, Zenon
<1> QED
  BY <1>4, <1>5, <1>7, <1>8, Zenon DEF At, Follows

(* What one message more adds to the messages before.                           *)
LEMMA OneMoreBefore ==
  ASSUME NEW S, NEW s \in Seq(S), NEW n \in 0 .. Len(s), n + 1 <= Len(s)
  PROVE  ToSet(SubSeq(s, 1, n + 1)) = ToSet(SubSeq(s, 1, n)) \cup {s[n + 1]}
<1> PICK p : p = SubSeq(s, 1, n)
  OBVIOUS
<1> PICK q : q = SubSeq(s, 1, n + 1)
  OBVIOUS
<1>1. p \in Seq(S) /\ Len(p) = n /\ \A i \in 1 .. n : p[i] = s[i]
  BY PrefixType, Zenon
<1>2. q \in Seq(S) /\ Len(q) = n + 1 /\ \A i \in 1 .. n + 1 : q[i] = s[i]
  <2>1. n + 1 \in 0 .. Len(s)
    BY LenProperties
  <2> QED
    BY <2>1, PrefixType, Zenon
<1>3. DOMAIN p = 1 .. n /\ DOMAIN q = 1 .. n + 1
  BY <1>1, <1>2, LenProperties, Zenon
<1>4. /\ n + 1 \in 1 .. n + 1
      /\ \A i \in 1 .. n : i \in 1 .. n + 1
      /\ \A i \in 1 .. n + 1 : i \in 1 .. n \/ i = n + 1
  OBVIOUS
<1>5. ToSet(p) = {s[i] : i \in 1 .. n} /\ ToSet(q) = {s[i] : i \in 1 .. n + 1}
  BY <1>1, <1>2, <1>3, Zenon DEF ToSet
<1>6. {s[i] : i \in 1 .. n + 1} = {s[i] : i \in 1 .. n} \cup {s[n + 1]}
  BY <1>4, Zenon
<1> QED
  BY <1>5, <1>6, Zenon

(* What is left in the buffer has its type.                                     *)
LEMMA RestType ==
  ASSUME ClientTypeOK, Aligned, status = "running", IsWhole(buffer)
  PROVE  Rest(buffer) \in Seq(Byte) /\ Len(Rest(buffer)) <= BuffSize
<1>1. handled < Len(script) /\ MessageLength(buffer) <= Len(buffer)
      /\ MessageLength(buffer) = Len(Encoded(script[handled + 1]))
  BY NextIsRead, Zenon DEF IsWhole
<1>2. Len(Encoded(script[handled + 1])) \in Nat
  <2>1. Len(Encoded(script[handled + 1])) \in Nat \ {0}
    BY <1>1, NextInBuffer, EncodedType, Zenon
  <2> QED
    BY <2>1, Zenon
<1> PICK n \in Nat : n = MessageLength(buffer)
  BY <1>1, <1>2, Zenon
<1> PICK k \in Nat : k = Len(buffer)
  BY LenProperties DEF ClientTypeOK
<1>3. n <= k
  BY <1>1, Zenon
<1>4. buffer \in Seq(Byte) /\ k <= BuffSize
  BY Zenon DEF ClientTypeOK
<1>5. n \in 0 .. k /\ BuffSize \in Nat
  BY <1>3, WireAssumption
<1>6. buffer \in Seq(Byte) /\ k <= BuffSize /\ n \in 0 .. k /\ BuffSize \in Nat
  BY <1>4, <1>5
<1>7. Rest(buffer) \in Seq(Byte) /\ Len(Rest(buffer)) = k - n
  BY <1>6, RestIs, Zenon
<1>8. k - n <= BuffSize
  BY <1>4, <1>5
<1> QED
  BY <1>7, <1>8, Zenon

(* What every loop does with a message that it accepts keeps the buffer at the  *)
(* beginning of the next one.                                                   *)
LEMMA AcceptKeeps ==
  ASSUME ClientTypeOK, Aligned, status = "running", IsWhole(buffer),
         NEW events, Accepts(events)
  PROVE  /\ handled < Len(script) /\ handled' \in 0 .. Len(script)
         /\ Aligned'
         /\ Before' = Before \cup {script[handled + 1]}
<1> PICK l \in Nat : l = Len(script)
  BY ScriptType
<1> PICK m : m = script[handled + 1]
  OBVIOUS
<1>1. script \in Seq(Message) /\ handled \in 0 .. l
  BY ScriptType
<1>2. /\ handled < l /\ Len(Encoded(m)) <= Len(buffer)
      /\ MessageLength(buffer) = Len(Encoded(m))
  BY NextIsRead, Zenon DEF IsWhole
<1>3. /\ buffer' = Rest(buffer) /\ handled' = handled + 1 /\ script' = script
      /\ taken' = taken /\ status' = status /\ why' = why
  BY DEF Accepts, Stays
<1>4. handled + 1 \in 1 .. l /\ (handled + 1) - 1 = handled /\ handled + 1 \in 0 .. l
      /\ handled + 1 <= l
  BY <1>1, <1>2
<1>5. Before' = Before \cup {m}
  BY <1>1, <1>3, <1>4, OneMoreBefore, Zenon DEF Before
<1> PICK st : st = Stream
  OBVIOUS
<1>6. /\ End(script, handled) \in 0 .. Len(st)
      /\ End(script, handled + 1) = End(script, handled) + Len(Encoded(m))
      /\ st \in Seq(Byte)
  BY <1>1, <1>4, StreamIs, Zenon DEF Stream
<1>7. Len(Encoded(m)) \in Nat
  <2>1. Len(Encoded(m)) \in Nat \ {0}
    BY <1>2, NextInBuffer, EncodedType, Zenon
  <2> QED
    BY <2>1, Zenon
<1>8. /\ buffer \in Seq(Byte) /\ why = "" /\ taken = End(script, handled) + Len(buffer)
      /\ At(st, End(script, handled), buffer)
  BY Zenon DEF ClientTypeOK, Aligned
<1>9. End(script, handled) \in Nat /\ Len(Encoded(m)) \in 0 .. Len(buffer)
  <2>1. /\ \A x, y : x \in 0 .. y => x \in Nat
        /\ \A x, y \in Nat : x <= y => x \in 0 .. y
    OBVIOUS
  <2>2. Len(buffer) \in Nat
    BY <1>8, LenProperties, Zenon
  <2> QED
    BY <1>2, <1>6, <1>7, <2>1, <2>2, Zenon
<1>10. /\ taken = (End(script, handled) + Len(Encoded(m))) + Len(Rest(buffer))
       /\ At(st, End(script, handled) + Len(Encoded(m)), Rest(buffer))
  BY <1>2, <1>6, <1>8, <1>9, RestFollows, Zenon
<1>11. Stream' = st /\ End(script', handled') = End(script, handled) + Len(Encoded(m))
  BY <1>3, <1>6, Zenon DEF Stream
<1>12. Aligned'
  BY <1>3, <1>8, <1>10, <1>11, Zenon DEF Aligned
<1> QED
  BY <1>2, <1>3, <1>4, <1>5, <1>12, Zenon

(* How a message is understood; only a dispatcher loses something.              *)
LEMMA UnderstoodIs ==
  ASSUME NEW m \in Message
  PROVE  /\ Session!Understood(m).type = m.type
         /\ m.type # "dispatcher" => Session!Understood(m) = m
         /\ m.type = "dispatcher" =>
              Session!Understood(m) = [type |-> "dispatcher", roads |-> Session!Heard(m.roads)]
<1>1. CASE m.type = "dispatcher"
  <2>1. Session!Understood(m) = [m EXCEPT !.roads = Session!Heard(m.roads)]
    BY <1>1 DEF Session!Understood
  <2>2. m = [type |-> "dispatcher", roads |-> m.roads]
    BY <1>1, MessageParts, Zenon
  <2>3. Session!Understood(m) = [type |-> "dispatcher", roads |-> Session!Heard(m.roads)]
    BY <2>1, <2>2
  <2> QED
    BY <1>1, <2>3
<1>2. CASE m.type # "dispatcher"
  BY <1>2 DEF Session!Understood
<1> QED
  BY <1>1, <1>2

(* What arrives is the next message, which fits into the buffer.                *)
LEMMA ArrivesIsNext ==
  ASSUME ClientTypeOK, Aligned, NEW type, Arrives(type)
  PROVE  /\ handled < Len(script)
         /\ script[handled + 1] \in Message
         /\ script[handled + 1].type = type
         /\ script[handled + 1] \notin TooLong
         /\ Decoded(buffer) = Session!Understood(script[handled + 1])
<1> PICK m : m = script[handled + 1]
  OBVIOUS
<1>1. status = "running" /\ IsWhole(buffer) /\ Decoded(buffer).type = type
  BY DEF Arrives
<1>2. /\ handled < Len(script) /\ Len(Encoded(m)) <= Len(buffer)
      /\ Decoded(buffer) = Session!Understood(m)
  BY <1>1, NextIsRead, Zenon DEF IsWhole
<1>3. m \in Message
  BY <1>1, <1>2, NextInBuffer, Zenon
<1>4. m.type = type
  BY <1>1, <1>2, <1>3, UnderstoodIs, Zenon
<1>5. m \notin TooLong
  <2>1. Len(Encoded(m)) \in Nat \ {0} /\ Len(buffer) \in Nat /\ Len(buffer) <= BuffSize
    BY <1>3, EncodedType, LenProperties, Zenon DEF ClientTypeOK
  <2>2. ~ (Len(Encoded(m)) > BuffSize)
    BY <1>2, <2>1, WireAssumption
  <2> QED
    BY <2>2, Zenon DEF TooLong
<1> QED
  BY <1>2, <1>3, <1>4, <1>5, Zenon

--------------------------------------------------------------------------------
(* The steps keep the invariant. *)

(* A step that changes nothing.                                                 *)
LEMMA StutterClient ==
  ASSUME ClientIInv, UNCHANGED clientVars
  PROVE  ClientIInv'
<1>1. Stream' = Stream /\ Before' = Before
  BY DEF clientVars, Stream, Before
<1>2. ClientTypeOK'
  BY <1>1, Zenon DEF ClientIInv, ClientTypeOK, clientVars
<1>3. Aligned'
  BY <1>1, Zenon DEF ClientIInv, Aligned, clientVars
<1>4. Remembers'
  BY <1>1, Zenon DEF ClientIInv, Remembers, clientVars
<1>5. EofLosesNothing'
  BY Zenon DEF ClientIInv, EofLosesNothing, clientVars
<1> QED
  BY <1>2, <1>3, <1>4, <1>5 DEF ClientIInv

(* The first state.                                                             *)
LEMMA ClientInitHolds ==
  ASSUME ClientInit
  PROVE  ClientIInv
<1>1. script \in Scripts /\ script \in Seq(Message)
  BY ClientAssumption DEF ClientInit
<1>2. Len(Stream) \in Nat /\ Len(script) \in Nat /\ End(script, 0) = 0
  BY <1>1, StreamIs, LenProperties, Zenon DEF Stream
<1>3. Len(buffer) = 0 /\ buffer \in Seq(Byte)
  <2>1. buffer = <<>>
    BY Zenon DEF ClientInit
  <2> QED
    BY <2>1
<1>4. Before = {}
  <2>1. SubSeq(script, 1, 0) = <<>>
    BY SubSeqEmpty
  <2>2. ToSet(<<>>) = {}
    BY DEF ToSet
  <2> QED
    BY <2>1, <2>2, Zenon DEF Before, ClientInit
<1>5. ClientTypeOK
  <2>1. 0 <= BuffSize /\ 0 \in 0 .. MaxBeats /\ 0 \in 0 .. Len(Stream) /\ 0 \in 0 .. Len(script)
    BY <1>2, WireAssumption, ClientAssumption
  <2>2. (role = "camera") = (camera.type = "camera")
    BY DEF ClientInit, NoCamera
  <2> QED
    BY <1>1, <1>3, <2>1, <2>2, Zenon DEF ClientInit, ClientTypeOK
<1>6. Aligned
  <2>1. \A i \in 1 .. 0 : FALSE
    OBVIOUS
  <2>2. 0 + 0 = 0
    OBVIOUS
  <2>3. taken = End(script, handled) + Len(buffer)
    BY <1>2, <1>3, <2>2, Zenon DEF ClientInit
  <2>4. At(Stream, 0, buffer)
    <3>1. 0 + 0 <= Len(Stream)
      BY <1>2
    <3> QED
      BY <1>3, <2>1, <3>1, Zenon DEF At
  <2> QED
    BY <1>2, <2>3, <2>4, Zenon DEF ClientInit, Aligned
<1>7. Remembers
  BY <1>4 DEF ClientInit, Remembers
<1>8. EofLosesNothing
  BY DEF ClientInit, EofLosesNothing
<1> QED
  BY <1>5, <1>6, <1>7, <1>8 DEF ClientIInv

(* What is left to show of a step that accepts a message: that the task         *)
(* remembers it.                                                                *)
LEMMA AcceptInv ==
  ASSUME ClientIInv, NEW type, Arrives(type), NEW events, Accepts(events),
         role' \in {"unid", "camera", "dispatcher"}, beating' \in BOOLEAN,
         (role' = "camera") = (camera'.type = "camera")
  PROVE  ClientTypeOK' /\ Aligned' /\ EofLosesNothing'
<1>1. ClientTypeOK /\ Aligned /\ status = "running" /\ IsWhole(buffer)
  BY DEF ClientIInv, Arrives
<1>2. Rest(buffer) \in Seq(Byte) /\ Len(Rest(buffer)) <= BuffSize
  BY <1>1, RestType, Zenon
<1>3. handled' \in 0 .. Len(script) /\ Aligned'
  BY <1>1, AcceptKeeps, Zenon
<1>4. /\ buffer' = Rest(buffer) /\ script' = script /\ taken' = taken /\ beats' = beats
      /\ status' = status /\ why' = why
  BY DEF Accepts, Stays
<1>5. Stream' = Stream
  BY <1>4 DEF Stream
<1>6. ClientTypeOK'
  BY <1>1, <1>2, <1>3, <1>4, <1>5, Zenon DEF ClientTypeOK
<1>7. EofLosesNothing'
  BY <1>1, <1>4 DEF Aligned, EofLosesNothing
<1> QED
  BY <1>3, <1>6, <1>7

(* The steps that accept a message, one by one.                                 *)
LEMMA CameraInv ==
  ASSUME ClientIInv, IAmCamera
  PROVE  ClientIInv'
<1> PICK m : m = script[handled + 1]
  OBVIOUS
<1>1. role = "unid" /\ Arrives("camera") /\ role' = "camera" /\ camera' = Decoded(buffer)
      /\ Accepts(<<[type |-> "camera"]>>) /\ beating' = beating
  BY DEF IAmCamera
<1>2. handled < Len(script) /\ m.type = "camera" /\ camera' = m
  <2>1. /\ handled < Len(script) /\ m \in Message /\ m.type = "camera"
        /\ camera' = Session!Understood(m)
    BY <1>1, ArrivesIsNext, Zenon DEF ClientIInv
  <2>2. "camera" # "dispatcher"
    OBVIOUS
  <2> QED
    BY <2>1, <2>2, UnderstoodIs, Zenon
<1>3. Before' = Before \cup {m}
  BY <1>1, AcceptKeeps, Zenon DEF ClientIInv, Arrives
<1>4. ClientTypeOK' /\ Aligned' /\ EofLosesNothing'
  <2>1. role' \in {"unid", "camera", "dispatcher"} /\ beating' \in BOOLEAN
        /\ (role' = "camera") = (camera'.type = "camera")
    BY <1>1, <1>2 DEF ClientIInv, ClientTypeOK
  <2> QED
    BY <1>1, <2>1, AcceptInv, Zenon
<1>5. Remembers'
  BY <1>1, <1>2, <1>3 DEF ClientIInv, Remembers
<1> QED
  BY <1>4, <1>5 DEF ClientIInv

LEMMA DispatcherInv ==
  ASSUME ClientIInv, IAmDispatcher
  PROVE  ClientIInv'
<1> PICK m : m = script[handled + 1]
  OBVIOUS
<1>1. role = "unid" /\ Arrives("dispatcher") /\ role' = "dispatcher" /\ camera' = camera
      /\ Accepts(<<Decoded(buffer)>>) /\ beating' = beating
  BY DEF IAmDispatcher
<1>2. handled < Len(script) /\ m.type = "dispatcher"
  BY <1>1, ArrivesIsNext, Zenon DEF ClientIInv
<1>3. Before' = Before \cup {m}
  BY <1>1, AcceptKeeps, Zenon DEF ClientIInv, Arrives
<1>4. ClientTypeOK' /\ Aligned' /\ EofLosesNothing'
  <2>1. role' \in {"unid", "camera", "dispatcher"} /\ beating' \in BOOLEAN
        /\ (role' = "camera") = (camera'.type = "camera")
    BY <1>1, <1>2 DEF ClientIInv, ClientTypeOK
  <2> QED
    BY <1>1, <2>1, AcceptInv, Zenon
<1>5. Remembers'
  BY <1>1, <1>2, <1>3 DEF ClientIInv, Remembers
<1> QED
  BY <1>4, <1>5 DEF ClientIInv

LEMMA PlateInv ==
  ASSUME ClientIInv, Plate
  PROVE  ClientIInv'
<1> PICK m : m = script[handled + 1]
  OBVIOUS
<1> PICK events : Accepts(events)
  BY DEF Plate
<1>1. role = "camera" /\ Arrives("plate") /\ role' = role /\ camera' = camera /\ beating' = beating
  BY DEF Plate
<1>2. handled < Len(script) /\ m.type = "plate"
  BY <1>1, ArrivesIsNext, Zenon DEF ClientIInv
<1>3. Before' = Before \cup {m}
  BY <1>1, AcceptKeeps, Zenon DEF ClientIInv, Arrives
<1>4. ClientTypeOK' /\ Aligned' /\ EofLosesNothing'
  <2>1. role' \in {"unid", "camera", "dispatcher"} /\ beating' \in BOOLEAN
        /\ (role' = "camera") = (camera'.type = "camera")
    BY <1>1, <1>2 DEF ClientIInv, ClientTypeOK
  <2> QED
    BY <1>1, <2>1, AcceptInv, Zenon
<1>5. Remembers'
  <2>1. camera.type = "camera"
    BY <1>1 DEF ClientIInv, ClientTypeOK
  <2> QED
    BY <1>1, <1>2, <1>3, <2>1 DEF ClientIInv, Remembers
<1> QED
  BY <1>4, <1>5 DEF ClientIInv

LEMMA HeartbeatInv ==
  ASSUME ClientIInv, WantHeartbeat
  PROVE  ClientIInv'
<1> PICK m : m = script[handled + 1]
  OBVIOUS
<1>1. Arrives("heartbeat") /\ ~ beating /\ beating' = (Decoded(buffer).interval # Zero)
      /\ Accepts(<<>>) /\ role' = role /\ camera' = camera
  BY DEF WantHeartbeat
<1>2. handled < Len(script) /\ m.type = "heartbeat" /\ beating' = (m.interval # Zero)
  <2>1. /\ handled < Len(script) /\ m \in Message /\ m.type = "heartbeat"
        /\ Decoded(buffer) = Session!Understood(m)
    BY <1>1, ArrivesIsNext, Zenon DEF ClientIInv
  <2>2. "heartbeat" # "dispatcher"
    OBVIOUS
  <2>3. Decoded(buffer) = m
    BY <2>1, <2>2, UnderstoodIs, Zenon
  <2> QED
    BY <1>1, <2>1, <2>3
<1>3. Before' = Before \cup {m}
  BY <1>1, AcceptKeeps, Zenon DEF ClientIInv, Arrives
<1>4. ClientTypeOK' /\ Aligned' /\ EofLosesNothing'
  <2>1. role' \in {"unid", "camera", "dispatcher"} /\ beating' \in BOOLEAN
        /\ (role' = "camera") = (camera'.type = "camera")
    BY <1>1, <1>2 DEF ClientIInv, ClientTypeOK
  <2> QED
    BY <1>1, <2>1, AcceptInv, Zenon
<1>5. Remembers'
  <2>1. role = "camera" => camera.type = "camera"
    BY DEF ClientIInv, ClientTypeOK
  <2>2. /\ role' = "unid" => \A b \in Before' : b.type \notin {"camera", "dispatcher"}
        /\ role' = "camera" => \A b \in Before' : b.type = "camera" <=> b = camera'
        /\ role' = "camera" => camera' \in Before'
        /\ role' = "dispatcher" => \E b \in Before' : b.type = "dispatcher"
        /\ role' = "dispatcher" => \A b \in Before' : b.type # "camera"
    BY <1>1, <1>2, <1>3, <2>1 DEF ClientIInv, Remembers
  <2>3. /\ beating' => \E b \in Before' : b.type = "heartbeat" /\ b.interval # Zero
        /\ ~ beating' => \A b \in Before' : b.type = "heartbeat" => b.interval = Zero
    BY <1>1, <1>2, <1>3, Zenon DEF ClientIInv, Remembers
  <2> QED
    BY <2>2, <2>3 DEF Remembers
<1> QED
  BY <1>4, <1>5 DEF ClientIInv

(* The bytes that arrive next are those that the stream has after the buffer.   *)
LEMMA FillInv ==
  ASSUME ClientIInv, Fill
  PROVE  ClientIInv'
<1>1. PICK n : /\ n \in 1 .. BuffSize - Len(buffer)
               /\ taken + n <= Len(Stream)
               /\ buffer' = buffer \o SubSeq(Stream, taken + 1, taken + n)
               /\ taken' = taken + n
  BY Zenon DEF Fill
<1>2. status = "running" /\ why = "" /\ ClientTypeOK /\ Aligned /\ Remembers
  BY DEF ClientIInv, Fill, Aligned
<1>3. /\ script' = script /\ role' = role /\ camera' = camera /\ beating' = beating
      /\ status' = status /\ why' = why /\ handled' = handled /\ beats' = beats
  BY DEF Fill
<1>4. script \in Seq(Message) /\ handled \in 0 .. Len(script)
  BY <1>2, ScriptType, Zenon
<1>5. Stream \in Seq(Byte) /\ Len(Stream) \in Nat /\ End(script, handled) \in 0 .. Len(Stream)
  BY <1>4, StreamIs, LenProperties, Zenon DEF Stream
<1>6. /\ buffer \in Seq(Byte) /\ Len(buffer) \in Nat
      /\ taken = End(script, handled) + Len(buffer)
      /\ At(Stream, End(script, handled), buffer)
  BY <1>2, LenProperties, Zenon DEF ClientTypeOK, Aligned
<1>7. End(script, handled) \in Nat /\ n \in Nat /\ Len(buffer) + n <= BuffSize
  <2>1. /\ \A x, y : x \in 0 .. y => x \in Nat
        /\ \A x, y \in Nat : n \in 1 .. y - x => n \in Nat /\ x + n <= y
    OBVIOUS
  <2>2. BuffSize \in Nat
    BY WireAssumption, Zenon
  <2> QED
    BY <1>1, <1>5, <1>6, <2>1, <2>2, Zenon
<1>8. /\ buffer' \in Seq(Byte) /\ Len(buffer') = Len(buffer) + n
      /\ taken' = End(script, handled) + Len(buffer')
      /\ At(Stream, End(script, handled), buffer')
  <2>1. (End(script, handled) + Len(buffer)) + n <= Len(Stream)
    BY <1>1, <1>6, Zenon
  <2>2. Follows(Stream, End(script, handled),
                buffer \o SubSeq(Stream, (End(script, handled) + Len(buffer)) + 1,
                                         (End(script, handled) + Len(buffer)) + n),
                Len(buffer) + n)
    BY <1>5, <1>6, <1>7, <2>1, MoreFollows, Zenon
  <2>3. Follows(Stream, End(script, handled), buffer', Len(buffer) + n)
    BY <1>1, <1>6, <2>2, Zenon
  <2>4. \A x, y \in Nat : (x + y) + n = x + (y + n)
    BY <1>7
  <2>5. taken' = End(script, handled) + (Len(buffer) + n)
    BY <1>1, <1>6, <1>7, <2>4, Zenon
  <2> QED
    BY <2>3, <2>5, Zenon DEF Follows
<1>9. Stream' = Stream /\ Before' = Before
  BY <1>3 DEF Stream, Before
<1>10. taken' \in 0 .. Len(Stream)
  <2>1. \A x, y \in Nat : x + n <= y => x + n \in 0 .. y
    BY <1>7
  <2>2. taken \in Nat
    BY <1>6, <1>7
  <2> QED
    BY <1>1, <1>5, <2>1, <2>2, Zenon
<1>11. ClientTypeOK'
  BY <1>2, <1>3, <1>7, <1>8, <1>9, <1>10, Zenon DEF ClientTypeOK
<1>12. Aligned'
  BY <1>2, <1>3, <1>8, <1>9, Zenon DEF Aligned
<1>13. Remembers'
  BY <1>2, <1>3, <1>9, Zenon DEF Remembers
<1>14. EofLosesNothing'
  BY <1>2, <1>3 DEF EofLosesNothing
<1> QED
  BY <1>11, <1>12, <1>13, <1>14 DEF ClientIInv

(* When a partial message is all that is left in the buffer, the messages       *)
(* handled are all that have been read to their end.                            *)
LEMMA AllReadAreHandled ==
  ASSUME ClientTypeOK, Aligned, status = "running", IsPartial(buffer)
  PROVE  handled = Cardinality({i \in 1 .. Len(script) :
                                  Len(EncodedAll(SubSeq(script, 1, i))) <= taken})
<1> PICK l \in Nat : l = Len(script)
  BY ScriptType
<1>1. script \in Seq(Message) /\ handled \in 0 .. l
  BY ScriptType
<1> PICK k \in Nat : k = Len(buffer)
  BY LenProperties DEF ClientTypeOK
<1>2. \A i \in 0 .. l : End(script, i) \in Nat
  <2>1. \A i \in 0 .. l : End(script, i) \in 0 .. Len(EncodedAll(script))
    BY <1>1, StreamIs, Zenon
  <2>2. \A i \in 0 .. l : End(script, i) \in 0 .. Len(EncodedAll(script)) => End(script, i) \in Nat
    OBVIOUS
  <2> QED
    BY <2>1, <2>2, Zenon
<1> PICK h \in Nat : h = End(script, handled)
  BY <1>1, <1>2, Zenon
<1>3. taken = h + k
  BY DEF Aligned
<1>4. ASSUME NEW i \in 1 .. l, i <= handled PROVE End(script, i) <= taken
  <2>1. i \in 0 .. l /\ handled \in i .. l
    BY <1>1, <1>4
  <2>2. End(script, i) <= h
    BY <1>1, <2>1, EndGrows, Zenon
  <2>3. End(script, i) \in Nat
    BY <1>2, <2>1, Zenon
  <2> QED
    BY <1>3, <2>2, <2>3
<1>5. ASSUME NEW i \in 1 .. l, ~ (i <= handled) PROVE ~ (End(script, i) <= taken)
  <2>1. i \in 0 .. l /\ handled < l /\ handled + 1 \in 1 .. l /\ (handled + 1) - 1 = handled
        /\ handled + 1 \in 0 .. l /\ i \in handled + 1 .. l
    BY <1>1, <1>5
  <2> PICK e \in Nat : e = Len(Encoded(script[handled + 1]))
    <3>1. script[handled + 1] \in Message
      BY <2>1, NextInBuffer, Zenon
    <3>2. Len(Encoded(script[handled + 1])) \in Nat \ {0}
      BY <3>1, EncodedType, Zenon
    <3> QED
      BY <3>2, Zenon
  <2>2. k < e
    BY <2>1, NextIsRead, Zenon
  <2>3. End(script, handled + 1) = h + e
    BY <1>1, <2>1, StreamIs, Zenon
  <2>4. End(script, handled + 1) <= End(script, i)
    BY <1>1, <2>1, EndGrows, Zenon
  <2> PICK x \in Nat : x = End(script, i)
    BY <1>2, <2>1, Zenon
  <2>5. h + e <= x
    BY <2>3, <2>4, Zenon
  <2> QED
    BY <1>3, <2>2, <2>5
<1>6. {i \in 1 .. l : Len(EncodedAll(SubSeq(script, 1, i))) <= taken}
      = {i \in 1 .. l : i <= handled}
  BY <1>4, <1>5, Zenon DEF End
<1>7. {i \in 1 .. l : i <= handled} = 1 .. handled
  BY <1>1
<1>8. Cardinality(1 .. handled) = handled
  <2>1. Cardinality(1 .. handled) = IF 1 > handled THEN 0 ELSE handled - 1 + 1
    BY <1>1, FS_Interval
  <2> QED
    BY <1>1, <2>1
<1> QED
  BY <1>6, <1>7, <1>8, Zenon

(* A step that ends the loop, or comes after it.                                *)
LEMMA EndInv ==
  ASSUME ClientIInv, UNCHANGED <<script, taken, role, camera, beating, handled, beats>>,
         buffer' \in Seq(Byte), Len(buffer') <= BuffSize,
         status' \in {"over", "gone", "panicked"}, why' \in {"", "eof", "io", "protocol"},
         EofLosesNothing'
  PROVE  ClientIInv'
<1>1. Stream' = Stream /\ Before' = Before
  BY DEF Stream, Before
<1>2. ClientTypeOK'
  BY <1>1, Zenon DEF ClientIInv, ClientTypeOK
<1>3. Aligned'
  BY DEF Aligned
<1>4. Remembers'
  BY <1>1, Zenon DEF ClientIInv, Remembers
<1> QED
  BY <1>2, <1>3, <1>4 DEF ClientIInv

(* The ways in which wrapped_run returns and changes nothing else.              *)
LEMMA ReturnInv ==
  ASSUME ClientIInv, status = "running", NEW reason \in {"eof", "io", "protocol"}, Return(reason),
         UNCHANGED <<ioVars, role, camera, beating, told, handled, beats>>,
         reason = "eof" => IsPartial(buffer)
  PROVE  ClientIInv'
<1>1. UNCHANGED <<script, taken, buffer, role, camera, beating, handled, beats>>
  BY DEF ioVars
<1>2. status' = "over" /\ why' = reason
  BY DEF Return
<1>3. buffer' \in Seq(Byte) /\ Len(buffer') <= BuffSize
  BY <1>1, Zenon DEF ClientIInv, ClientTypeOK
<1>4. EofLosesNothing'
  <2>1. reason = "eof" =>
          handled = Cardinality({i \in 1 .. Len(script) :
                                   Len(EncodedAll(SubSeq(script, 1, i))) <= taken})
    BY AllReadAreHandled, Zenon DEF ClientIInv
  <2> QED
    BY <1>1, <1>2, <2>1, Zenon DEF EofLosesNothing
<1>5. status' \in {"over", "gone", "panicked"} /\ why' \in {"", "eof", "io", "protocol"}
  BY <1>2
<1> QED
  BY <1>1, <1>3, <1>4, <1>5, EndInv, Zenon

(* A message in the wrong place is taken from the buffer all the same.          *)
LEMMA MisuseInv ==
  ASSUME ClientIInv, Misuse
  PROVE  ClientIInv'
<1>1. /\ status = "running" /\ IsWhole(buffer) /\ buffer' = Rest(buffer) /\ why = ""
      /\ UNCHANGED <<script, taken, role, camera, beating, handled, beats>>
  BY DEF Misuse, Arrives, ClientIInv, Aligned
<1>2. status' \in {"over", "panicked"} /\ why' \in {"", "protocol"}
  BY <1>1 DEF Misuse, Return
<1>3. buffer' \in Seq(Byte) /\ Len(buffer') <= BuffSize
  BY <1>1, RestType, Zenon DEF ClientIInv
<1>4. EofLosesNothing'
  BY <1>2 DEF EofLosesNothing
<1>5. status' \in {"over", "gone", "panicked"} /\ why' \in {"", "eof", "io", "protocol"}
  BY <1>2
<1> QED
  BY <1>1, <1>3, <1>4, <1>5, EndInv, Zenon

(* A heartbeat interrupts a read and changes nothing of it.                     *)
LEMMA BeatInv ==
  ASSUME ClientIInv, Beat
  PROVE  ClientIInv'
<1>1. /\ UNCHANGED <<script, taken, buffer, role, camera, beating, status, why, handled>>
      /\ beats < MaxBeats /\ beats' = beats + 1
  BY DEF Beat, ioVars
<1>2. Stream' = Stream /\ Before' = Before
  BY <1>1 DEF Stream, Before
<1>3. beats' \in 0 .. MaxBeats
  <2>1. beats \in 0 .. MaxBeats
    BY DEF ClientIInv, ClientTypeOK
  <2> QED
    BY <1>1, <2>1, ClientAssumption
<1>4. ClientTypeOK'
  BY <1>1, <1>2, <1>3, Zenon DEF ClientIInv, ClientTypeOK
<1>5. Aligned'
  BY <1>1, <1>2, Zenon DEF ClientIInv, Aligned
<1>6. Remembers'
  BY <1>1, <1>2, Zenon DEF ClientIInv, Remembers
<1>7. EofLosesNothing'
  BY <1>1, Zenon DEF ClientIInv, EofLosesNothing
<1> QED
  BY <1>4, <1>5, <1>6, <1>7 DEF ClientIInv

(* The end changes nothing that is remembered.                                  *)
LEMMA FinishInv ==
  ASSUME ClientIInv, Finish
  PROVE  ClientIInv'
<1>1. /\ UNCHANGED <<script, taken, buffer, role, camera, beating, why, handled, beats>>
      /\ status' = "gone"
  BY DEF Finish, ioVars
<1>2. buffer' \in Seq(Byte) /\ Len(buffer') <= BuffSize /\ why' \in {"", "eof", "io", "protocol"}
  BY <1>1, Zenon DEF ClientIInv, ClientTypeOK
<1>3. EofLosesNothing'
  BY <1>1, Zenon DEF ClientIInv, EofLosesNothing
<1>4. status' \in {"over", "gone", "panicked"}
  BY <1>1
<1> QED
  BY <1>1, <1>2, <1>3, <1>4, EndInv, Zenon

(* Every step keeps the invariant.                                              *)
LEMMA ClientStep ==
  ASSUME ClientIInv, [ClientNext]_clientVars
  PROVE  ClientIInv'
<1>1. CASE IAmCamera
  BY <1>1, CameraInv
<1>2. CASE IAmDispatcher
  BY <1>2, DispatcherInv
<1>3. CASE Plate
  BY <1>3, PlateInv
<1>4. CASE WantHeartbeat
  BY <1>4, HeartbeatInv
<1>5. CASE Misuse
  BY <1>5, MisuseInv
<1>6. CASE Illegal
  <2>1. status = "running" /\ Return("protocol")
        /\ UNCHANGED <<ioVars, role, camera, beating, told, handled, beats>>
    BY <1>6 DEF Illegal
  <2>2. "protocol" \in {"eof", "io", "protocol"} /\ "protocol" # "eof"
    OBVIOUS
  <2> QED
    BY <2>1, <2>2, ReturnInv, Zenon
<1>7. CASE Full
  <2>1. status = "running" /\ Return("protocol")
        /\ UNCHANGED <<ioVars, role, camera, beating, told, handled, beats>>
    BY <1>7 DEF Full
  <2>2. "protocol" \in {"eof", "io", "protocol"} /\ "protocol" # "eof"
    OBVIOUS
  <2> QED
    BY <2>1, <2>2, ReturnInv, Zenon
<1>8. CASE Fill
  BY <1>8, FillInv
<1>9. CASE Eof
  <2>1. status = "running" /\ Return("eof") /\ IsPartial(buffer)
        /\ UNCHANGED <<ioVars, role, camera, beating, told, handled, beats>>
    BY <1>9 DEF Eof
  <2>2. "eof" \in {"eof", "io", "protocol"}
    OBVIOUS
  <2> QED
    BY <2>1, <2>2, ReturnInv, Zenon
<1>10. CASE Beat
  BY <1>10, BeatInv
<1>11. CASE Fail
  <2>1. status = "running" /\ Return("io")
        /\ UNCHANGED <<ioVars, role, camera, beating, told, handled, beats>>
    BY <1>11 DEF Fail
  <2>2. "io" \in {"eof", "io", "protocol"} /\ "io" # "eof"
    OBVIOUS
  <2> QED
    BY <2>1, <2>2, ReturnInv, Zenon
<1>12. CASE Finish
  BY <1>12, FinishInv
<1>13. CASE UNCHANGED clientVars
  BY <1>13, StutterClient
<1> QED
  BY <1>1, <1>2, <1>3, <1>4, <1>5, <1>6, <1>7, <1>8, <1>9, <1>10, <1>11, <1>12, <1>13, Zenon
     DEF ClientNext, Reacts

--------------------------------------------------------------------------------

(* The inductive invariant holds in every state of a client's task.             *)
THEOREM ClientInvariance == ClientSpec => []ClientIInv
<1>1. ClientInit => ClientIInv
  BY ClientInitHolds
<1>2. ClientIInv /\ [ClientNext]_clientVars => ClientIInv'
  BY ClientStep
<1> QED
  BY <1>1, <1>2, PTL DEF ClientSpec

(* Every variable of a client's task has its type; in particular the buffer of  *)
(* IOPair never holds more than it has room for (bio.rs:281-309), and the task  *)
(* is in the loop of a camera just when it has one.                             *)
THEOREM ClientTyping == ClientSpec => []ClientTypeOK
<1>1. ClientIInv => ClientTypeOK
  BY DEF ClientIInv
<1> QED
  BY <1>1, ClientInvariance, PTL

(* When a client has hung up, every message that it sent to the end and that    *)
(* was read has been handled (bio.rs:281, 311-317), for every script and        *)
(* however the reads were cut.                                                  *)
THEOREM NothingIsLost == ClientSpec => []EofLosesNothing
<1>1. ClientIInv => EofLosesNothing
  BY DEF ClientIInv
<1> QED
  BY <1>1, ClientInvariance, PTL

--------------------------------------------------------------------------------
(* The refinement: what a step does for the session. *)

(* What the session asks of a message of each type.                             *)
LEMMA FitsIs ==
  ASSUME NEW m, NEW before
  PROVE  /\ m.type \in {"camera", "dispatcher"} =>
              (Session!Fits(m, before) <=>
                 \A b \in ToSet(before) : b.type \notin {"camera", "dispatcher"})
         /\ m.type = "plate" =>
              (Session!Fits(m, before) <=> \E b \in ToSet(before) : b.type = "camera")
         /\ m.type = "heartbeat" =>
              (Session!Fits(m, before) <=>
                 \A b \in ToSet(before) : b.type = "heartbeat" => b.interval = Zero)
         /\ m.type = "other" => ~ Session!Fits(m, before)
<1>1. ASSUME m.type \in {"camera", "dispatcher"}
      PROVE  Session!Fits(m, before) <=>
               \A b \in ToSet(before) : b.type \notin {"camera", "dispatcher"}
  <2>1. Session!Identifies(m) /\ m.type # "plate" /\ m.type # "heartbeat" /\ m.type # "other"
    BY <1>1 DEF Session!Identifies
  <2>2. Session!Fits(m, before) = \A b \in ToSet(before) : ~ Session!Identifies(b)
    BY <2>1, Zenon DEF Session!Fits, Session!ToSet, ToSet
  <2> QED
    BY <2>2, Zenon DEF Session!Identifies
<1>2. ASSUME m.type = "plate"
      PROVE  Session!Fits(m, before) <=> \E b \in ToSet(before) : b.type = "camera"
  <2>1. ~ Session!Identifies(m) /\ m.type # "heartbeat" /\ m.type # "other"
    BY <1>2 DEF Session!Identifies
  <2>2. Session!Fits(m, before) = \E b \in ToSet(before) : b.type = "camera"
    BY <1>2, <2>1, Zenon DEF Session!Fits, Session!ToSet, ToSet
  <2> QED
    BY <2>2, Zenon
<1>3. ASSUME m.type = "heartbeat"
      PROVE  Session!Fits(m, before) <=>
               \A b \in ToSet(before) : b.type = "heartbeat" => b.interval = Zero
  <2>1. ~ Session!Identifies(m) /\ m.type # "plate" /\ m.type # "other"
    BY <1>3 DEF Session!Identifies
  <2>2. Session!Zero = Zero
    BY DEF Session!Zero, Zero
  <2>3. Session!Fits(m, before) =
          \A b \in ToSet(before) : b.type = "heartbeat" => b.interval = Session!Zero
    BY <1>3, <2>1, Zenon DEF Session!Fits, Session!ToSet, ToSet
  <2> QED
    BY <2>2, <2>3, Zenon
<1>4. CASE m.type = "other"
  BY <1>4 DEF Session!Fits, Session!Identifies
<1> QED
  BY <1>1, <1>2, <1>3, <1>4, Zenon

(* A message that a loop accepts is heard by the session.                       *)
LEMMA HearMaps ==
  ASSUME ClientIInv, NEW type, Arrives(type), NEW events, Accepts(events),
         Session!Fits(script[handled + 1], SubSeq(script, 1, handled)),
         events = Session!Tells(script[handled + 1])
  PROVE  Session!Hear
<1> PICK m : m = script[handled + 1]
  OBVIOUS
<1>1. status = "running" /\ handled < Len(script) /\ m \notin TooLong
  BY ArrivesIsNext, Zenon DEF ClientIInv, Arrives
<1>2. /\ handled' = handled + 1 /\ told' = told \o events /\ script' = script
      /\ status' = status /\ why' = why
  BY DEF Accepts, Stays
<1>3. SessionState = "open" /\ SessionState' = SessionState
  <2>1. SessionState' = SessionState
    BY <1>2, Zenon DEF SessionState
  <2>2. SessionState = "open"
    BY <1>1 DEF SessionState
  <2> QED
    BY <2>1, <2>2
<1>4. Session!Upcoming = m
  BY DEF Session!Upcoming
<1>5. Session!MayHandle(m)
  BY <1>1, Zenon DEF Session!MayHandle
<1> QED
  BY <1>1, <1>2, <1>3, <1>4, <1>5, Zenon DEF Session!Hear

(* An error of the protocol is one that the session does not forgive either.    *)
LEMMA AccuseMaps ==
  ASSUME ClientIInv, status = "running", handled < Len(script),
         ~ Session!MayHandle(script[handled + 1]),
         UNCHANGED <<script, handled, told>>,
         \/ Return("protocol")
         \/ status' = "panicked" /\ Session!Understood(script[handled + 1]) \in Unspeakable
  PROVE  Session!Accuse
<1> PICK m : m = script[handled + 1]
  OBVIOUS
<1>1. SessionState = "open"
  BY DEF SessionState
<1>2. Session!Upcoming = m
  BY DEF Session!Upcoming
<1>3. SessionState' \in
        {"accused"} \cup (IF Session!Understood(m) \in Unspeakable THEN {"dead"} ELSE {})
  <2>1. CASE Return("protocol")
    BY <2>1 DEF Return, SessionState
  <2>2. CASE status' = "panicked" /\ Session!Understood(m) \in Unspeakable
    BY <2>2 DEF SessionState
  <2> QED
    BY <2>1, <2>2, Zenon
<1> QED
  BY <1>1, <1>2, <1>3, Zenon DEF Session!Accuse

(* An end of input or an error of the connection is a departure.                *)
LEMMA LeaveMaps ==
  ASSUME status = "running", NEW reason \in {"eof", "io"}, Return(reason),
         UNCHANGED <<script, handled, told>>
  PROVE  Session!Leave
<1>1. SessionState = "open" /\ SessionState' = "left"
  BY DEF SessionState, Return
<1> QED
  BY <1>1, Zenon DEF Session!Leave

(* The messages that are accepted, one by one.                                  *)
LEMMA CameraMaps ==
  ASSUME ClientIInv, IAmCamera
  PROVE  Session!Hear
<1> PICK m : m = script[handled + 1]
  OBVIOUS
<1>1. Arrives("camera") /\ Accepts(<<[type |-> "camera"]>>) /\ role = "unid"
  BY DEF IAmCamera
<1>2. m.type = "camera"
  BY <1>1, ArrivesIsNext, Zenon DEF ClientIInv
<1>3. Session!Fits(m, SubSeq(script, 1, handled))
  <2>1. \A b \in ToSet(SubSeq(script, 1, handled)) : b.type \notin {"camera", "dispatcher"}
    BY <1>1 DEF ClientIInv, Remembers, Before
  <2> QED
    BY <1>2, <2>1, FitsIs
<1>4. Session!Tells(m) = <<[type |-> "camera"]>>
  BY <1>2 DEF Session!Tells
<1> QED
  BY <1>1, <1>3, <1>4, HearMaps, Zenon

LEMMA DispatcherMaps ==
  ASSUME ClientIInv, IAmDispatcher
  PROVE  Session!Hear
<1> PICK m : m = script[handled + 1]
  OBVIOUS
<1>1. Arrives("dispatcher") /\ Accepts(<<Decoded(buffer)>>) /\ role = "unid"
  BY DEF IAmDispatcher
<1>2. m \in Message /\ m.type = "dispatcher" /\ Decoded(buffer) = Session!Understood(m)
  BY <1>1, ArrivesIsNext, Zenon DEF ClientIInv
<1>3. Session!Fits(m, SubSeq(script, 1, handled))
  <2>1. \A b \in ToSet(SubSeq(script, 1, handled)) : b.type \notin {"camera", "dispatcher"}
    BY <1>1 DEF ClientIInv, Remembers, Before
  <2> QED
    BY <1>2, <2>1, FitsIs
<1>4. Session!Tells(m) = <<Decoded(buffer)>>
  <2>1. Decoded(buffer) = [type |-> "dispatcher", roads |-> Session!Heard(m.roads)]
    BY <1>2, UnderstoodIs, Zenon
  <2>2. Session!Tells(m) = <<[type |-> "dispatcher", roads |-> Session!Heard(m.roads)]>>
    BY <1>2 DEF Session!Tells
  <2> QED
    BY <2>1, <2>2
<1> QED
  BY <1>1, <1>3, <1>4, HearMaps, Zenon

LEMMA PlateMaps ==
  ASSUME ClientIInv, Plate
  PROVE  Session!Hear
<1> PICK m : m = script[handled + 1]
  OBVIOUS
<1> DEFINE seen == [type |-> "observation", plate |-> Decoded(buffer).plate,
                    timestamp |-> Decoded(buffer).timestamp,
                    road |-> camera.road, mile |-> camera.mile, limit |-> camera.limit]
<1>1. Arrives("plate") /\ Accepts(<<seen>>) /\ role = "camera"
  BY DEF Plate
<1>2. m.type = "plate" /\ Decoded(buffer) = m
  <2>1. m \in Message /\ m.type = "plate" /\ Decoded(buffer) = Session!Understood(m)
    BY <1>1, ArrivesIsNext, Zenon DEF ClientIInv
  <2>2. "plate" # "dispatcher"
    OBVIOUS
  <2> QED
    BY <2>1, <2>2, UnderstoodIs, Zenon
<1>3. /\ camera \in Before /\ camera.type = "camera"
      /\ \A b \in Before : b.type = "camera" => b = camera
  BY <1>1 DEF ClientIInv, ClientTypeOK, Remembers
<1>4. Session!Fits(m, SubSeq(script, 1, handled))
  <2>1. \E b \in ToSet(SubSeq(script, 1, handled)) : b.type = "camera"
    BY <1>3, Zenon DEF Before
  <2> QED
    BY <1>2, <2>1, FitsIs
<1>5. Session!TheCamera = camera
  <2> PICK T : T = Before
    OBVIOUS
  <2> DEFINE c == CHOOSE b : b \in T /\ b.type = "camera"
  <2>1. \E b : b \in T /\ b.type = "camera"
    BY <1>3, Zenon
  <2>2. c \in T /\ c.type = "camera"
    BY <2>1, Zenon
  <2>3. Session!TheCamera = CHOOSE b \in T : b.type = "camera"
    BY Zenon DEF Session!TheCamera, Before, Session!ToSet, ToSet
  <2>4. (CHOOSE b \in T : b.type = "camera") = c
    OBVIOUS
  <2> HIDE DEF c
  <2> QED
    BY <1>3, <2>2, <2>3, <2>4, Zenon
<1>6. Session!Tells(m) = <<seen>>
  <2>1. Session!Tells(m) =
          <<[type |-> "observation", plate |-> m.plate, timestamp |-> m.timestamp,
             road |-> Session!TheCamera.road, mile |-> Session!TheCamera.mile,
             limit |-> Session!TheCamera.limit]>>
    BY <1>2 DEF Session!Tells
  <2> QED
    BY <1>2, <1>5, <2>1, Zenon
<1> HIDE DEF seen
<1> QED
  BY <1>1, <1>4, <1>6, HearMaps, Zenon

LEMMA HeartbeatMaps ==
  ASSUME ClientIInv, WantHeartbeat
  PROVE  Session!Hear
<1> PICK m : m = script[handled + 1]
  OBVIOUS
<1>1. Arrives("heartbeat") /\ Accepts(<<>>) /\ ~ beating
  BY DEF WantHeartbeat
<1>2. m.type = "heartbeat"
  BY <1>1, ArrivesIsNext, Zenon DEF ClientIInv
<1>3. Session!Fits(m, SubSeq(script, 1, handled))
  <2>1. \A b \in ToSet(SubSeq(script, 1, handled)) : b.type = "heartbeat" => b.interval = Zero
    BY <1>1, Zenon DEF ClientIInv, Remembers, Before
  <2> QED
    BY <1>2, <2>1, FitsIs
<1>4. Session!Tells(m) = <<>>
  BY <1>2 DEF Session!Tells
<1> QED
  BY <1>1, <1>3, <1>4, HearMaps, Zenon

(* The errors of the protocol, one by one.                                      *)
LEMMA MisuseMaps ==
  ASSUME ClientIInv, Misuse
  PROVE  Session!Accuse
<1> PICK m : m = script[handled + 1]
  OBVIOUS
<1>1. PICK type \in {"camera", "dispatcher", "plate", "heartbeat"} :
             Arrives(type) /\ Misplaced(type)
  BY Zenon DEF Misuse
<1>2. /\ handled < Len(script) /\ m.type = type /\ Decoded(buffer) = Session!Understood(m)
      /\ status = "running"
  BY <1>1, ArrivesIsNext, Zenon DEF ClientIInv, Arrives
<1>3. role \in {"unid", "camera", "dispatcher"} /\ (role = "camera" => camera.type = "camera")
      /\ Remembers
  BY DEF ClientIInv, ClientTypeOK
<1> PICK before : before = SubSeq(script, 1, handled)
  OBVIOUS
<1>4. Before = ToSet(before)
  BY Zenon DEF Before
<1>5. ~ Session!Fits(m, before)
  <2>1. CASE type \in {"camera", "dispatcher"}
    <3>1. role # "unid"
      BY <1>1, <2>1 DEF Misplaced
    <3>2. ~ \A b \in Before : b.type \notin {"camera", "dispatcher"}
      BY <1>3, <3>1 DEF Remembers
    <3> QED
      BY <1>2, <1>4, <2>1, <3>2, FitsIs
  <2>2. CASE type = "plate"
    <3>1. role # "camera"
      BY <1>1, <2>2 DEF Misplaced
    <3>2. ~ \E b \in Before : b.type = "camera"
      BY <1>3, <3>1 DEF Remembers
    <3> QED
      BY <1>2, <1>4, <2>2, <3>2, FitsIs
  <2>3. CASE type = "heartbeat"
    <3>1. beating
      BY <1>1, <2>3 DEF Misplaced
    <3>2. \E b \in Before : b.type = "heartbeat" /\ b.interval # Zero
      BY <1>3, <3>1, Zenon DEF Remembers
    <3> QED
      BY <1>2, <1>4, <2>3, <3>2, FitsIs
  <2> QED
    BY <2>1, <2>2, <2>3
<1>6. ~ Session!MayHandle(m)
  BY <1>5, Zenon DEF Session!MayHandle
<1>7. \/ Return("protocol")
      \/ status' = "panicked" /\ Session!Understood(m) \in Unspeakable
  BY <1>2, Zenon DEF Misuse
<1>8. UNCHANGED <<script, handled, told>>
  BY DEF Misuse
<1> QED
  BY <1>2, <1>6, <1>7, <1>8, AccuseMaps, Zenon

LEMMA IllegalMaps ==
  ASSUME ClientIInv, Illegal
  PROVE  Session!Accuse
<1> PICK m : m = script[handled + 1]
  OBVIOUS
<1>1. /\ status = "running" /\ IsIllegal(buffer) /\ Return("protocol")
      /\ UNCHANGED <<script, handled, told>>
  BY DEF Illegal, ioVars
<1>2. handled < Len(script) /\ m.type = "other"
  <2>1. ~ IsPartial(buffer)
    BY <1>1, Zenon DEF IsIllegal, IsPartial
  <2> QED
    BY <1>1, <2>1, NextIsRead, Zenon DEF ClientIInv
<1>3. ~ Session!MayHandle(m)
  BY <1>2, FitsIs, Zenon DEF Session!MayHandle
<1> QED
  BY <1>1, <1>2, <1>3, AccuseMaps, Zenon

LEMMA FullMaps ==
  ASSUME ClientIInv, Full
  PROVE  Session!Accuse
<1> PICK m : m = script[handled + 1]
  OBVIOUS
<1>1. /\ status = "running" /\ IsPartial(buffer) /\ Len(buffer) = BuffSize /\ Return("protocol")
      /\ UNCHANGED <<script, handled, told>>
  BY DEF Full, ioVars
<1>2. script \in Seq(Message) /\ Len(script) \in Nat /\ handled \in 0 .. Len(script)
  BY ScriptType, Zenon DEF ClientIInv
<1>3. handled < Len(script)
  <2>1. buffer # <<>>
    <3>1. Len(<<>>) = 0 /\ BuffSize # 0
      BY WireAssumption
    <3> QED
      BY <1>1, <3>1, Zenon
  <2>2. handled # Len(script)
    BY <1>1, <2>1, NextInBuffer, Zenon DEF ClientIInv
  <2> QED
    BY <1>2, <2>2
<1>4. m \in Message /\ Len(buffer) < Len(Encoded(m)) /\ handled + 1 \in 1 .. Len(script)
  BY <1>1, <1>3, NextInBuffer, NextIsRead, Zenon DEF ClientIInv
<1>5. m \in TooLong
  <2>1. Len(Encoded(m)) > BuffSize
    <3>1. \A x, y \in Nat : x < y => y > x
      OBVIOUS
    <3>2. BuffSize \in Nat /\ Len(Encoded(m)) \in Nat
      <4>1. Len(Encoded(m)) \in Nat \ {0}
        BY <1>4, EncodedType, Zenon
      <4> QED
        BY <4>1, WireAssumption, Zenon
    <3> QED
      BY <1>1, <1>4, <3>1, <3>2, Zenon
  <2>2. m \in ToSet(script)
    <3>1. DOMAIN script = 1 .. Len(script)
      BY <1>2, LenProperties, Zenon
    <3> QED
      BY <1>4, <3>1, Zenon DEF ToSet
  <2>3. script \in Scripts
    BY DEF ClientIInv, ClientTypeOK
  <2>4. m \in UNION {ToSet(s) : s \in Scripts}
    BY <2>2, <2>3, Zenon
  <2> QED
    BY <2>1, <2>4, Zenon DEF TooLong
<1>6. ~ Session!MayHandle(m)
  BY <1>5, Zenon DEF Session!MayHandle
<1> QED
  BY <1>1, <1>3, <1>6, AccuseMaps, Zenon

(* The main task is told of the end once.                                       *)
LEMMA FinishMaps ==
  ASSUME ClientIInv, Finish
  PROVE  Session!SayGoodbye
<1>1. /\ status = "over" /\ status' = "gone" /\ told' = Append(told, [type |-> "gone"])
      /\ UNCHANGED <<script, handled>>
  BY DEF Finish, ioVars
<1>2. SessionState \in {"left", "accused"} /\ SessionState' = "gone"
  BY <1>1 DEF SessionState
<1> QED
  BY <1>1, <1>2, Zenon DEF Session!SayGoodbye

(* Every step of the task is one of the session, or none.                       *)
LEMMA StepMaps ==
  ASSUME ClientIInv, [ClientNext]_clientVars
  PROVE  [Session!SessionNext]_(Session!sessionVars)
<1>1. CASE IAmCamera
  BY <1>1, CameraMaps DEF Session!SessionNext
<1>2. CASE IAmDispatcher
  BY <1>2, DispatcherMaps DEF Session!SessionNext
<1>3. CASE Plate
  BY <1>3, PlateMaps DEF Session!SessionNext
<1>4. CASE WantHeartbeat
  BY <1>4, HeartbeatMaps DEF Session!SessionNext
<1>5. CASE Misuse
  BY <1>5, MisuseMaps DEF Session!SessionNext
<1>6. CASE Illegal
  BY <1>6, IllegalMaps DEF Session!SessionNext
<1>7. CASE Full
  BY <1>7, FullMaps DEF Session!SessionNext
<1>8. CASE Eof \/ Fail
  <2>1. PICK reason \in {"eof", "io"} : Return(reason)
    BY <1>8 DEF Eof, Fail
  <2>2. status = "running" /\ UNCHANGED <<script, handled, told>>
    BY <1>8 DEF Eof, Fail, ioVars
  <2>3. Session!Leave
    BY <2>1, <2>2, LeaveMaps, Zenon
  <2> QED
    BY <2>3 DEF Session!SessionNext
<1>9. CASE Finish
  BY <1>9, FinishMaps DEF Session!SessionNext
<1>10. CASE Fill \/ Beat \/ UNCHANGED clientVars
  <2>1. UNCHANGED <<script, handled, status, why, told>>
    BY <1>10, Zenon DEF Fill, Beat, ioVars, clientVars
  <2>2. SessionState' = SessionState
    BY <2>1, Zenon DEF SessionState
  <2> QED
    BY <2>1, <2>2, Zenon DEF Session!sessionVars
<1> QED
  BY <1>1, <1>2, <1>3, <1>4, <1>5, <1>6, <1>7, <1>8, <1>9, <1>10, Zenon DEF ClientNext, Reacts

(* Byte by byte the task does what SpeedSession says message by message         *)
(* (bio.rs:275-333, clients.rs:96-200): for every size of the buffer, every     *)
(* script and every way in which TCP cuts it and heartbeats cancel the reads.   *)
THEOREM ClientIsSession == ClientSpec => ImplementsSession
<1>1. ClientInit => Session!SessionInit
  BY DEF ClientInit, Session!SessionInit, SessionState
<1>2. ClientIInv /\ [ClientNext]_clientVars => [Session!SessionNext]_(Session!sessionVars)
  BY StepMaps
<1> QED
  BY <1>1, <1>2, ClientInvariance, PTL DEF ClientSpec, ImplementsSession, Session!SessionSpec
================================================================================
