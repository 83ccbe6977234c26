------------------------------- MODULE LineProofs ------------------------------
(* Theorems about LineServer: however packets are lost, repeated and reordered, *)
(* and however sessions come and go, two of them are never mixed up, nothing    *)
(* longer than a message is sent, and each session reads exactly the stream of  *)
(* its client and sends only its right answer.                                  *)
EXTENDS LineServer, SequenceLemmas, FiniteSetTheorems

--------------------------------------------------------------------------------
(* What the codec makes of bytes is made of bytes.                              *)

Cutting == [lines : Seq(Seq(Bytes)), rest : Seq(Bytes)]

(* One byte more: a line may become whole.                                      *)
LEMMA TakeByteType ==
  ASSUME NEW acc \in Cutting, NEW byte \in Bytes
  PROVE  TakeByte(acc, byte) \in Cutting
<1>1. acc.lines \in Seq(Seq(Bytes)) /\ acc.rest \in Seq(Bytes)
  BY DEF Cutting
<1>2. CASE byte = Newline
  <2>1. Reverse(acc.rest) \in Seq(Bytes)
    BY <1>1 DEF Reverse
  <2>2. Append(Reverse(acc.rest), Newline) \in Seq(Bytes)
    BY <1>2, <2>1, AppendProperties
  <2>3. Append(acc.lines, Append(Reverse(acc.rest), Newline)) \in Seq(Seq(Bytes))
    BY <1>1, <2>2, AppendProperties
  <2> QED
    BY <1>2, <2>3 DEF TakeByte, Cutting
<1>3. CASE byte # Newline
  <2>1. Append(acc.rest, byte) \in Seq(Bytes)
    BY <1>1
  <2> QED
    BY <1>3, <2>1 DEF TakeByte, Cutting
<1> QED
  BY <1>2, <1>3

(* How Cut goes through the bytes, one after the other.                         *)
LEMMA CutRuns ==
  ASSUME NEW bytes \in Seq(Bytes)
  PROVE  \E run \in [0 .. Len(bytes) -> Cutting] :
           /\ run[0] = [lines |-> <<>>, rest |-> <<>>]
           /\ \A i \in 1 .. Len(bytes) : run[i] = TakeByte(run[i - 1], bytes[i])
           /\ Cut(bytes) = run[Len(bytes)]
<1> DEFINE base == [lines |-> <<>>, rest |-> <<>>]
           Follows(h) == h = [s \in SUBSET (DOMAIN bytes) |->
             IF s = {} THEN base
             ELSE TakeByte(h[s \ {Max(s)}], bytes[Max(s)])]
           iter == CHOOSE h : Follows(h)
<1> PICK n \in Nat : n = Len(bytes) /\ DOMAIN bytes = 1 .. n
  OBVIOUS
<1>1. Cut(bytes) = iter[DOMAIN bytes]
  BY DEF Cut, FoldLeft, MapThenFoldSet
<1> HIDE DEF iter
<1>2. base \in Cutting
  BY DEF Cutting
<1>3. \A acc \in Cutting, i \in 1 .. n : TakeByte(acc, bytes[i]) \in Cutting
  <2>1. \A i \in 1 .. n : bytes[i] \in Bytes
    OBVIOUS
  <2> QED
    BY <2>1, TakeByteType
<1> HIDE DEF base
<1>4. \E h : Follows(h)
  <2> DEFINE step == [acc \in Cutting |-> [i \in 1 .. n |-> TakeByte(acc, bytes[i])]]
  <2>1. step \in [Cutting -> [1 .. n -> Cutting]]
    BY <1>3
  <2>2. \A acc \in Cutting, i \in 1 .. n : step[acc][i] = TakeByte(acc, bytes[i])
    OBVIOUS
  <2> HIDE DEF step
  <2>3. PICK g \in [SUBSET (1 .. n) -> Cutting] : Folds(g, n, base, step)
    BY <1>2, <2>1, FoldExists
  <2>4. ASSUME NEW s \in SUBSET (1 .. n)
        PROVE  g[s] = IF s = {} THEN base
                      ELSE TakeByte(g[s \ {Max(s)}], bytes[Max(s)])
    <3>1. s # {} => Max(s) \in 1 .. n
      <4>1. s \in SUBSET (0 .. n)
        OBVIOUS
      <4> QED
        BY <4>1, MaxOfNats
    <3>2. g[s \ {Max(s)}] \in Cutting
      OBVIOUS
    <3>3. g[s] = IF s = {} THEN base ELSE step[g[s \ {Max(s)}]][Max(s)]
      BY <2>3 DEF Folds
    <3> QED
      BY <2>2, <3>1, <3>2, <3>3
  <2> QED
    BY <2>4
<1>5. Follows(iter)
  BY <1>4 DEF iter
<1> DEFINE run == [i \in 0 .. n |-> iter[1 .. i]]
<1>6. run[0] = base
  <2>1. 1 .. 0 = {} /\ 1 .. 0 \in SUBSET (1 .. n)
    OBVIOUS
  <2> QED
    BY <1>5, <2>1
<1>7. ASSUME NEW i \in 1 .. n PROVE run[i] = TakeByte(run[i - 1], bytes[i])
  <2>1. 1 .. i \in SUBSET (1 .. n) /\ i \in Nat \ {0} /\ i - 1 \in 0 .. n /\ i \in 0 .. n
    OBVIOUS
  <2>2. iter[1 .. i] = TakeByte(iter[1 .. i - 1], bytes[i])
    BY <1>5, <2>1, MaxOfRange, ZenonT(40)
  <2> QED
    BY <2>1, <2>2
<1>8. Cut(bytes) = run[n]
  BY <1>1
<1>9. run = [i \in 0 .. n |-> run[i]]
  OBVIOUS
<1> HIDE DEF run, Follows
<1>10. \A i \in 0 .. n : run[i] \in Cutting
  <2> DEFINE P == {i \in 0 .. n : run[i] \in Cutting}
  <2>1. 0 \in P
    BY <1>2, <1>6
  <2>2. ASSUME NEW i \in 1 .. n, i - 1 \in P PROVE i \in P
    BY <1>3, <1>7, <2>2
  <2> HIDE DEF P
  <2>3. \A i \in 0 .. n : i \in P
    BY <2>1, <2>2, UpTo
  <2> QED
    BY <2>3 DEF P
<1>11. run \in [0 .. n -> Cutting]
  BY <1>9, <1>10
<1> QED
  BY <1>6, <1>7, <1>8, <1>11 DEF base

(* Cut makes lines and a rest out of bytes.                                     *)
LEMMA CutType ==
  ASSUME NEW bytes \in Seq(Bytes)
  PROVE  Cut(bytes) \in Cutting
<1>1. PICK run \in [0 .. Len(bytes) -> Cutting] : Cut(bytes) = run[Len(bytes)]
  BY CutRuns
<1>2. Len(bytes) \in 0 .. Len(bytes)
  OBVIOUS
<1> QED
  BY <1>1, <1>2

(* One byte more of a line: a packet may become full.                           *)
LEMMA PackByteType ==
  ASSUME NEW chunks \in Seq(Seq(Bytes)), NEW byte \in Bytes, NEW room
  PROVE  PackByte(chunks, byte, room) \in Seq(Seq(Bytes))
<1>1. <<byte>> \in Seq(Bytes)
  OBVIOUS
<1>2. Append(chunks, <<byte>>) \in Seq(Seq(Bytes))
  BY <1>1, AppendProperties
<1>3. ASSUME chunks # <<>>
      PROVE  Append(Front(chunks), Append(Last(chunks), byte)) \in Seq(Seq(Bytes))
  <2>1. Len(chunks) \in 1 .. Len(chunks) /\ Len(chunks) - 1 \in 0 .. Len(chunks)
    BY <1>3
  <2>2. Last(chunks) \in Seq(Bytes)
    BY <2>1 DEF Last
  <2>3. Append(Last(chunks), byte) \in Seq(Bytes)
    BY <2>2, AppendProperties
  <2>4. Front(chunks) \in Seq(Seq(Bytes))
    BY <2>1, PrefixType DEF Front
  <2> QED
    BY <2>3, <2>4, AppendProperties
<1> QED
  BY <1>2, <1>3 DEF PackByte

(* The run of Packed over the bytes of a line.                                  *)
PacksOver(run, line, room) ==
  /\ run[0] = <<>>
  /\ \A i \in 1 .. Len(line) : run[i] = PackByte(run[i - 1], line[i], room)

(* How Packed goes through the bytes of a line.                                 *)
LEMMA PackedRuns ==
  ASSUME NEW line \in Seq(Bytes), NEW room
  PROVE  \E run \in [0 .. Len(line) -> Seq(Seq(Bytes))] :
           PacksOver(run, line, room) /\ Packed(line, room) = run[Len(line)]
<1> DEFINE base == <<>>
           Follows(h) == h = [s \in SUBSET (DOMAIN line) |->
             IF s = {} THEN base
             ELSE PackByte(h[s \ {Max(s)}], line[Max(s)], room)]
           iter == CHOOSE h : Follows(h)
<1> PICK n \in Nat : n = Len(line) /\ DOMAIN line = 1 .. n
  OBVIOUS
<1>1. Packed(line, room) = iter[DOMAIN line]
  BY DEF Packed, FoldLeft, MapThenFoldSet
<1> HIDE DEF iter
<1>2. base \in Seq(Seq(Bytes))
  OBVIOUS
<1>3. \A acc \in Seq(Seq(Bytes)), i \in 1 .. n : PackByte(acc, line[i], room) \in Seq(Seq(Bytes))
  <2>1. \A i \in 1 .. n : line[i] \in Bytes
    OBVIOUS
  <2> QED
    BY <2>1, PackByteType
<1> HIDE DEF base
<1>4. \E h : Follows(h)
  <2> DEFINE step == [acc \in Seq(Seq(Bytes)) |-> [i \in 1 .. n |-> PackByte(acc, line[i], room)]]
  <2>1. step \in [Seq(Seq(Bytes)) -> [1 .. n -> Seq(Seq(Bytes))]]
    BY <1>3
  <2>2. \A acc \in Seq(Seq(Bytes)), i \in 1 .. n : step[acc][i] = PackByte(acc, line[i], room)
    OBVIOUS
  <2> HIDE DEF step
  <2>3. PICK g \in [SUBSET (1 .. n) -> Seq(Seq(Bytes))] : Folds(g, n, base, step)
    BY <1>2, <2>1, FoldExists
  <2>4. ASSUME NEW s \in SUBSET (1 .. n)
        PROVE  g[s] = IF s = {} THEN base
                      ELSE PackByte(g[s \ {Max(s)}], line[Max(s)], room)
    <3>1. s # {} => Max(s) \in 1 .. n
      <4>1. s \in SUBSET (0 .. n)
        OBVIOUS
      <4> QED
        BY <4>1, MaxOfNats
    <3>2. g[s \ {Max(s)}] \in Seq(Seq(Bytes))
      OBVIOUS
    <3>3. g[s] = IF s = {} THEN base ELSE step[g[s \ {Max(s)}]][Max(s)]
      BY <2>3 DEF Folds
    <3> QED
      BY <2>2, <3>1, <3>2, <3>3
  <2> QED
    BY <2>4
<1>5. Follows(iter)
  BY <1>4 DEF iter
<1> DEFINE run == [i \in 0 .. n |-> iter[1 .. i]]
<1>6. run[0] = base
  <2>1. 1 .. 0 = {} /\ 1 .. 0 \in SUBSET (1 .. n)
    OBVIOUS
  <2> QED
    BY <1>5, <2>1
<1>7. ASSUME NEW i \in 1 .. n PROVE run[i] = PackByte(run[i - 1], line[i], room)
  <2>1. 1 .. i \in SUBSET (1 .. n) /\ i \in Nat \ {0} /\ i - 1 \in 0 .. n /\ i \in 0 .. n
    OBVIOUS
  <2>2. iter[1 .. i] = PackByte(iter[1 .. i - 1], line[i], room)
    BY <1>5, <2>1, MaxOfRange, ZenonT(40)
  <2> QED
    BY <2>1, <2>2
<1>8. Packed(line, room) = run[n]
  BY <1>1
<1>9. run = [i \in 0 .. n |-> run[i]]
  OBVIOUS
<1> HIDE DEF run, Follows
<1>10. \A i \in 0 .. n : run[i] \in Seq(Seq(Bytes))
  <2> DEFINE P == {i \in 0 .. n : run[i] \in Seq(Seq(Bytes))}
  <2>1. 0 \in P
    BY <1>2, <1>6
  <2>2. ASSUME NEW i \in 1 .. n, i - 1 \in P PROVE i \in P
    BY <1>3, <1>7, <2>2
  <2> HIDE DEF P
  <2>3. \A i \in 0 .. n : i \in P
    BY <2>1, <2>2, UpTo
  <2> QED
    BY <2>3 DEF P
<1>11. run \in [0 .. n -> Seq(Seq(Bytes))]
  BY <1>9, <1>10
<1> QED
  BY <1>6, <1>7, <1>8, <1>11 DEF base, PacksOver

(* What is packed of a line is payloads.                                        *)
LEMMA PackedType ==
  ASSUME NEW line \in Seq(Bytes), NEW room
  PROVE  Packed(line, room) \in Seq(Seq(Bytes))
<1>1. PICK run \in [0 .. Len(line) -> Seq(Seq(Bytes))] : Packed(line, room) = run[Len(line)]
  BY PackedRuns
<1>2. Len(line) \in 0 .. Len(line)
  OBVIOUS
<1> QED
  BY <1>1, <1>2

Reading == [new : Seq(Bytes), count : Nat, ok : BOOLEAN]

(* One byte more of a payload, and then one pair of adjacent ones.              *)
LEMMA TakeType ==
  ASSUME NEW acc \in Reading, NEW in_bytes \in Nat, NEW byte \in Bytes
  PROVE  Take(acc, in_bytes, byte) \in Reading
<1>1. Append(acc.new, byte) \in Seq(Bytes) /\ acc.count + 1 \in Nat
  BY DEF Reading
<1> QED
  BY <1>1 DEF Take, Reading

LEMMA TakePairType ==
  ASSUME NEW acc \in Reading, NEW in_bytes \in Nat, NEW w \in Bytes \X Bytes
  PROVE  TakePair(acc, in_bytes, w[1], w[2]) \in Reading
<1>1. Take(acc, in_bytes, w[2]) \in Reading
  BY TakeType
<1>2. [acc EXCEPT !.ok = FALSE] \in Reading
  BY DEF Reading
<1> QED
  BY <1>1, <1>2 DEF TakePair

ReadPairs(pairs, first, in_bytes) ==
  FoldLeft(LAMBDA acc, w : TakePair(acc, in_bytes, w[1], w[2]), first, pairs)

(* The run of Unpacked over pairs of adjacent bytes, from what is read first.   *)
RunsOver(run, pairs, first, in_bytes) ==
  /\ run[0] = first
  /\ \A i \in 1 .. Len(pairs) : run[i] = TakePair(run[i - 1], in_bytes, pairs[i][1], pairs[i][2])

(* How Unpacked goes through the pairs of adjacent bytes of a payload.          *)
LEMMA UnpackedRuns ==
  ASSUME NEW pairs \in Seq(Bytes \X Bytes), NEW first \in Reading, NEW in_bytes \in Nat
  PROVE  \E run \in [0 .. Len(pairs) -> Reading] :
           /\ RunsOver(run, pairs, first, in_bytes)
           /\ ReadPairs(pairs, first, in_bytes) = run[Len(pairs)]
<1> DEFINE base == first
           Follows(h) == h = [s \in SUBSET (DOMAIN pairs) |->
             IF s = {} THEN base
             ELSE TakePair(h[s \ {Max(s)}], in_bytes, pairs[Max(s)][1], pairs[Max(s)][2])]
           iter == CHOOSE h : Follows(h)
<1> PICK n \in Nat : n = Len(pairs) /\ DOMAIN pairs = 1 .. n
  OBVIOUS
<1>1. ReadPairs(pairs, first, in_bytes) = iter[DOMAIN pairs]
  BY DEF ReadPairs, FoldLeft, MapThenFoldSet
<1> HIDE DEF iter
<1>2. base \in Reading
  OBVIOUS
<1>3. \A acc \in Reading, i \in 1 .. n : TakePair(acc, in_bytes, pairs[i][1], pairs[i][2]) \in Reading
  <2>1. \A i \in 1 .. n : pairs[i] \in Bytes \X Bytes
    OBVIOUS
  <2> QED
    BY <2>1, TakePairType
<1> HIDE DEF base
<1>4. \E h : Follows(h)
  <2> DEFINE step == [acc \in Reading |-> [i \in 1 .. n |-> TakePair(acc, in_bytes, pairs[i][1], pairs[i][2])]]
  <2>1. step \in [Reading -> [1 .. n -> Reading]]
    BY <1>3
  <2>2. \A acc \in Reading, i \in 1 .. n : step[acc][i] = TakePair(acc, in_bytes, pairs[i][1], pairs[i][2])
    OBVIOUS
  <2> HIDE DEF step
  <2>3. PICK g \in [SUBSET (1 .. n) -> Reading] : Folds(g, n, base, step)
    BY <1>2, <2>1, FoldExists
  <2>4. ASSUME NEW s \in SUBSET (1 .. n)
        PROVE  g[s] = IF s = {} THEN base
                      ELSE TakePair(g[s \ {Max(s)}], in_bytes, pairs[Max(s)][1], pairs[Max(s)][2])
    <3>1. s # {} => Max(s) \in 1 .. n
      <4>1. s \in SUBSET (0 .. n)
        OBVIOUS
      <4> QED
        BY <4>1, MaxOfNats
    <3>2. g[s \ {Max(s)}] \in Reading
      OBVIOUS
    <3>3. g[s] = IF s = {} THEN base ELSE step[g[s \ {Max(s)}]][Max(s)]
      BY <2>3 DEF Folds
    <3> QED
      BY <2>2, <3>1, <3>2, <3>3
  <2> QED
    BY <2>4
<1>5. Follows(iter)
  BY <1>4 DEF iter
<1> DEFINE run == [i \in 0 .. n |-> iter[1 .. i]]
<1>6. run[0] = base
  <2>1. 1 .. 0 = {} /\ 1 .. 0 \in SUBSET (1 .. n)
    OBVIOUS
  <2> QED
    BY <1>5, <2>1
<1>7. ASSUME NEW i \in 1 .. n PROVE run[i] = TakePair(run[i - 1], in_bytes, pairs[i][1], pairs[i][2])
  <2>1. 1 .. i \in SUBSET (1 .. n) /\ i \in Nat \ {0} /\ i - 1 \in 0 .. n /\ i \in 0 .. n
    OBVIOUS
  <2>2. iter[1 .. i] = TakePair(iter[1 .. i - 1], in_bytes, pairs[i][1], pairs[i][2])
    BY <1>5, <2>1, MaxOfRange, ZenonT(40)
  <2> QED
    BY <2>1, <2>2
<1>8. ReadPairs(pairs, first, in_bytes) = run[n]
  BY <1>1
<1>9. run = [i \in 0 .. n |-> run[i]]
  OBVIOUS
<1> HIDE DEF run, Follows
<1>10. \A i \in 0 .. n : run[i] \in Reading
  <2> DEFINE P == {i \in 0 .. n : run[i] \in Reading}
  <2>1. 0 \in P
    BY <1>2, <1>6
  <2>2. ASSUME NEW i \in 1 .. n, i - 1 \in P PROVE i \in P
    BY <1>3, <1>7, <2>2
  <2> HIDE DEF P
  <2>3. \A i \in 0 .. n : i \in P
    BY <2>1, <2>2, UpTo
  <2> QED
    BY <2>3 DEF P
<1>11. run \in [0 .. n -> Reading]
  BY <1>9, <1>10
<1> QED
  BY <1>6, <1>7, <1>8, <1>11 DEF base, RunsOver

(* Unescaping a payload makes bytes out of bytes.                               *)
LEMMA UnpackedType ==
  ASSUME NEW in_bytes \in Nat, NEW start \in Nat, NEW payload \in Seq(Bytes), payload # <<>>
  PROVE  Unpacked(in_bytes, start, payload) \in Reading
<1> DEFINE none == [new |-> <<>>, count |-> start, ok |-> TRUE]
           first == IF payload[1] = Escape THEN none ELSE Take(none, in_bytes, payload[1])
           pairs == [i \in 1 .. Len(payload) - 1 |-> <<payload[i], payload[i + 1]>>]
<1>1. payload[1] \in Bytes
  OBVIOUS
<1>2. none \in Reading
  BY DEF Reading
<1>3. first \in Reading
  BY <1>1, <1>2, TakeType
<1>4. pairs \in Seq(Bytes \X Bytes)
  <2>1. Len(payload) - 1 \in Nat
    OBVIOUS
  <2>2. \A i \in 1 .. Len(payload) - 1 : <<payload[i], payload[i + 1]>> \in Bytes \X Bytes
    <3>1. \A i \in 1 .. Len(payload) - 1 : i \in 1 .. Len(payload) /\ i + 1 \in 1 .. Len(payload)
      BY <2>1
    <3> QED
      BY <3>1
  <2> QED
    BY <2>1, <2>2
<1>5. Unpacked(in_bytes, start, payload)
        = ReadPairs(pairs, first, in_bytes)
  BY DEF Unpacked, ReadPairs
<1> HIDE DEF first, pairs
<1>6. PICK run \in [0 .. Len(pairs) -> Reading] :
        ReadPairs(pairs, first, in_bytes)
          = run[Len(pairs)]
  BY <1>3, <1>4, UnpackedRuns
<1>7. Len(pairs) \in 0 .. Len(pairs)
  BY <1>4
<1> QED
  BY <1>5, <1>6, <1>7

(* The data packets of some lines.                                              *)
LEMMA PositionedType ==
  ASSUME NEW chunks \in Seq(Seq(Bytes)), NEW out_bytes \in Nat
  PROVE  Positioned(chunks, out_bytes) \in Seq(DataPacket)
<1>1. ASSUME NEW i \in 1 .. Len(chunks)
      PROVE  [start |-> out_bytes + Len(FlattenSeq(SubSeq(chunks, 1, i - 1))),
              bytes |-> chunks[i]] \in DataPacket
  <2>1. i - 1 \in 0 .. Len(chunks)
    OBVIOUS
  <2>2. SubSeq(chunks, 1, i - 1) \in Seq(Seq(Bytes))
    BY <2>1, PrefixType
  <2>3. FlattenSeq(SubSeq(chunks, 1, i - 1)) \in Seq(Bytes)
    BY <2>2, FlattenType
  <2>4. chunks[i] \in Seq(Bytes)
    OBVIOUS
  <2>5. Len(FlattenSeq(SubSeq(chunks, 1, i - 1))) \in Nat
    BY <2>3
  <2> QED
    BY <2>4, <2>5 DEF DataPacket
<1>2. Len(chunks) \in Nat
  OBVIOUS
<1> QED
  BY <1>1, <1>2 DEF Positioned

(* What is sent of some lines is data packets.                                  *)
LEMMA DataResponsesType ==
  ASSUME NEW lines \in Seq(Seq(Bytes)), NEW out_bytes \in Nat, NEW room
  PROVE  DataResponses(lines, out_bytes, room) \in Seq(DataPacket)
<1> DEFINE Of(i) == Positioned(Packed(lines[i], room),
                               out_bytes + Len(FlattenSeq(SubSeq(lines, 1, i - 1))))
<1>1. ASSUME NEW i \in 1 .. Len(lines) PROVE Of(i) \in Seq(DataPacket)
  <2>1. i - 1 \in 0 .. Len(lines)
    OBVIOUS
  <2>2. SubSeq(lines, 1, i - 1) \in Seq(Seq(Bytes))
    BY <2>1, PrefixType
  <2>3. FlattenSeq(SubSeq(lines, 1, i - 1)) \in Seq(Bytes)
    BY <2>2, FlattenType
  <2>4. lines[i] \in Seq(Bytes)
    OBVIOUS
  <2>5. Packed(lines[i], room) \in Seq(Seq(Bytes))
    BY <2>4, PackedType
  <2>6. out_bytes + Len(FlattenSeq(SubSeq(lines, 1, i - 1))) \in Nat
    BY <2>3
  <2> QED
    BY <2>5, <2>6, PositionedType
<1>2. DataResponses(lines, out_bytes, room) = FlattenSeq([i \in 1 .. Len(lines) |-> Of(i)])
  BY DEF DataResponses
<1> HIDE DEF Of
<1>3. [i \in 1 .. Len(lines) |-> Of(i)] \in Seq(Seq(DataPacket))
  <2>1. Len(lines) \in Nat
    OBVIOUS
  <2> QED
    BY <1>1, <2>1
<1> QED
  BY <1>2, <1>3, FlattenType

(* Escaping makes bytes out of bytes.                                           *)
LEMMA EscapedType ==
  ASSUME NEW bytes \in Seq(Bytes)
  PROVE  Escaped(bytes) \in Seq(Bytes)
<1> DEFINE Of(i) == IF bytes[i] \in {"/", Escape} THEN <<Escape, bytes[i]>> ELSE <<bytes[i]>>
<1>1. ASSUME NEW i \in 1 .. Len(bytes) PROVE Of(i) \in Seq(Bytes)
  <2>1. bytes[i] \in Bytes /\ Escape \in Bytes
    BY DEF Bytes
  <2> QED
    BY <2>1
<1>2. Escaped(bytes) = FlattenSeq([i \in 1 .. Len(bytes) |-> Of(i)])
  BY DEF Escaped
<1> HIDE DEF Of
<1>3. [i \in 1 .. Len(bytes) |-> Of(i)] \in Seq(Seq(Bytes))
  <2>1. Len(bytes) \in Nat
    OBVIOUS
  <2> QED
    BY <1>1, <2>1
<1> QED
  BY <1>2, <1>3, FlattenType

--------------------------------------------------------------------------------
(* What Cut and Packed make of a sequence with one byte more, and so of every   *)
(* sequence.                                                                    *)

(* One byte more is taken by what was cut before.                               *)
LEMMA CutEmpty == Cut(<<>>) = [lines |-> <<>>, rest |-> <<>>]
<1>1. <<>> \in Seq(Bytes) /\ Len(<<>>) = 0
  OBVIOUS
<1>2. PICK run \in [0 .. Len(<<>>) -> Cutting] :
        /\ run[0] = [lines |-> <<>>, rest |-> <<>>]
        /\ Cut(<<>>) = run[Len(<<>>)]
  BY <1>1, CutRuns
<1> QED
  BY <1>1, <1>2

LEMMA CutAppend ==
  ASSUME NEW bytes \in Seq(Bytes), NEW byte \in Bytes
  PROVE  Cut(Append(bytes, byte)) = TakeByte(Cut(bytes), byte)
<1> DEFINE more == Append(bytes, byte)
<1> PICK n \in Nat : n = Len(bytes)
  OBVIOUS
<1>1. /\ more \in Seq(Bytes) /\ Len(more) = n + 1 /\ more[n + 1] = byte
      /\ \A i \in 1 .. n : more[i] = bytes[i]
  OBVIOUS
<1> HIDE DEF more
<1>2. PICK f \in [0 .. n + 1 -> Cutting] :
        /\ f[0] = [lines |-> <<>>, rest |-> <<>>]
        /\ \A i \in 1 .. n + 1 : f[i] = TakeByte(f[i - 1], more[i])
        /\ Cut(more) = f[n + 1]
  BY <1>1, CutRuns
<1>3. PICK g \in [0 .. n -> Cutting] :
        /\ g[0] = [lines |-> <<>>, rest |-> <<>>]
        /\ \A i \in 1 .. n : g[i] = TakeByte(g[i - 1], bytes[i])
        /\ Cut(bytes) = g[n]
  BY CutRuns
<1> DEFINE P == {i \in 0 .. n : f[i] = g[i]}
<1>4. 0 \in P
  BY <1>2, <1>3
<1>5. ASSUME NEW i \in 1 .. n, i - 1 \in P PROVE i \in P
  <2>1. i \in 1 .. n + 1 /\ i \in 0 .. n /\ f[i - 1] = g[i - 1]
    BY <1>5
  <2>2. f[i] = TakeByte(f[i - 1], more[i]) /\ g[i] = TakeByte(g[i - 1], bytes[i])
    BY <1>2, <1>3, <2>1
  <2> QED
    BY <1>1, <2>1, <2>2
<1> HIDE DEF P
<1>6. n \in P
  <2>1. \A i \in 0 .. n : i \in P
    BY <1>4, <1>5, UpTo
  <2> QED
    BY <2>1
<1>7. f[n] = Cut(bytes) /\ n + 1 \in 1 .. n + 1 /\ (n + 1) - 1 = n
  BY <1>3, <1>6 DEF P
<1>8. f[n + 1] = TakeByte(f[(n + 1) - 1], more[n + 1])
  BY <1>2, <1>7
<1> QED
  BY <1>1, <1>2, <1>7, <1>8 DEF more

(* What a byte makes of lines and a rest.                                       *)
LEMMA TakeByteIs ==
  ASSUME NEW lines, NEW rest, NEW byte
  PROVE  TakeByte([lines |-> lines, rest |-> rest], byte)
           = IF byte = Newline
             THEN [lines |-> Append(lines, Append(Reverse(rest), Newline)), rest |-> <<>>]
             ELSE [lines |-> lines, rest |-> Append(rest, byte)]
<1> DEFINE acc == [lines |-> lines, rest |-> rest]
<1>1. acc.lines = lines /\ acc.rest = rest
  OBVIOUS
<1>2. \A r : [acc EXCEPT !.rest = r] = [lines |-> lines, rest |-> r]
  OBVIOUS
<1> HIDE DEF acc
<1>3. TakeByte(acc, byte)
        = IF byte = Newline
          THEN [lines |-> Append(lines, Append(Reverse(rest), Newline)), rest |-> <<>>]
          ELSE [lines |-> lines, rest |-> Append(rest, byte)]
  BY <1>1, <1>2, Zenon DEF TakeByte
<1> QED
  BY <1>3 DEF acc

(* The rest of what was cut has no line.                                        *)
LEMMA CutAgain ==
  ASSUME NEW bytes \in Seq(Bytes)
  PROVE  Cut(Cut(bytes).rest) = [lines |-> <<>>, rest |-> Cut(bytes).rest]
<1> DEFINE Whole(rest) == Cut(rest) = [lines |-> <<>>, rest |-> rest]
           P == {s \in Seq(Bytes) : Whole(Cut(s).rest)}
<1>1. Whole(<<>>)
  BY CutEmpty
<1>2. <<>> \in P
  <2>1. Cut(<<>>).rest = <<>>
    BY CutEmpty
  <2>2. <<>> \in Seq(Bytes)
    OBVIOUS
  <2> HIDE DEF Whole
  <2> QED
    BY <1>1, <2>1, <2>2
<1>3. ASSUME NEW s \in Seq(Bytes), NEW b \in Bytes, s \in P PROVE Append(s, b) \in P
  <2>1. Cut(s) \in Cutting
    BY CutType
  <2> PICK rest \in Seq(Bytes) : rest = Cut(s).rest
    BY <2>1 DEF Cutting
  <2>2. Whole(rest)
    BY <1>3
  <2>3. Cut(Append(s, b)) = TakeByte(Cut(s), b)
    BY CutAppend
  <2>4. Whole(Cut(Append(s, b)).rest)
    <3>1. CASE b = Newline
      <4>1. Cut(Append(s, b)).rest = <<>>
        BY <2>3, <3>1 DEF TakeByte
      <4> HIDE DEF Whole
      <4> QED
        BY <1>1, <4>1
    <3>2. CASE b # Newline
      <4>1. Cut(Append(s, b)).rest = Append(rest, b)
        BY <2>1, <2>3, <3>2 DEF TakeByte, Cutting
      <4>2. Cut(Append(rest, b)) = TakeByte(Cut(rest), b)
        BY CutAppend
      <4>3. Cut(Append(rest, b)) = [lines |-> <<>>, rest |-> Append(rest, b)]
        BY <2>2, <3>2, <4>2, TakeByteIs
      <4>4. Whole(Append(rest, b))
        BY <4>3
      <4> HIDE DEF Whole
      <4> QED
        BY <4>1, <4>4
    <3> QED
      BY <3>1, <3>2
  <2>5. Append(s, b) \in Seq(Bytes)
    OBVIOUS
  <2> HIDE DEF Whole
  <2> QED
    BY <2>4, <2>5
<1> HIDE DEF P
<1>4. bytes \in P
  BY <1>2, <1>3, SeqInduction
<1> QED
  BY <1>4 DEF P

(* What is cut of more bytes, after the lines of those before.                  *)
After(before, next) == [lines |-> before.lines \o next.lines, rest |-> next.rest]

LEMMA TakeByteAfter ==
  ASSUME NEW before \in Cutting, NEW next \in Cutting, NEW byte \in Bytes
  PROVE  TakeByte(After(before, next), byte) = After(before, TakeByte(next, byte))
<1> PICK lines \in Seq(Seq(Bytes)) : lines = before.lines
  BY DEF Cutting
<1> PICK more \in Seq(Seq(Bytes)), rest \in Seq(Bytes) : next = [lines |-> more, rest |-> rest]
  BY DEF Cutting
<1>1. \A l, r : After(before, [lines |-> l, rest |-> r]) = [lines |-> lines \o l, rest |-> r]
  BY DEF After
<1>2. CASE byte = Newline
  <2> PICK line : line = Append(Reverse(rest), Newline)
    OBVIOUS
  <2>1. line \in Seq(Bytes)
    <3>1. Reverse(rest) \in Seq(Bytes)
      BY DEF Reverse
    <3> QED
      BY <1>2, <3>1, AppendProperties
  <2>2. ASSUME NEW l
        PROVE  TakeByte([lines |-> l, rest |-> rest], byte) = [lines |-> Append(l, line), rest |-> <<>>]
    <3>1. TakeByte([lines |-> l, rest |-> rest], byte)
            = IF byte = Newline
              THEN [lines |-> Append(l, Append(Reverse(rest), Newline)), rest |-> <<>>]
              ELSE [lines |-> l, rest |-> Append(rest, byte)]
      BY TakeByteIs, Zenon
    <3> QED
      BY <1>2, <3>1, Zenon
  <2>3. lines \o Append(more, line) = Append(lines \o more, line)
    <3> PICK Line : Line = Seq(Bytes)
      OBVIOUS
    <3>1. lines \in Seq(Line) /\ more \in Seq(Line) /\ line \in Line
      BY <2>1, Zenon
    <3>2. ASSUME NEW s \in Seq(Line), NEW t \in Seq(Line), NEW x \in Line
          PROVE  s \o Append(t, x) = Append(s \o t, x)
      OBVIOUS
    <3> QED
      BY <3>1, <3>2, Zenon
  <2>4. \A l : After(before, TakeByte([lines |-> l, rest |-> rest], byte))
                 = [lines |-> lines \o Append(l, line), rest |-> <<>>]
    BY <1>1, <2>2
  <2>5. TakeByte(After(before, next), byte) = [lines |-> Append(lines \o more, line), rest |-> <<>>]
    BY <1>1, <2>2
  <2> QED
    BY <2>3, <2>4, <2>5
<1>3. CASE byte # Newline
  <2>1. \A l : TakeByte([lines |-> l, rest |-> rest], byte) = [lines |-> l, rest |-> Append(rest, byte)]
    BY <1>3, TakeByteIs, Zenon
  <2>2. /\ TakeByte(After(before, next), byte) = [lines |-> lines \o more, rest |-> Append(rest, byte)]
        /\ TakeByte(next, byte) = [lines |-> more, rest |-> Append(rest, byte)]
    BY <1>1, <2>1
  <2> QED
    BY <1>1, <2>2
<1> QED
  BY <1>2, <1>3

(* Bytes may be cut part by part if each is put behind the rest of those before.*)
LEMMA CutConcat ==
  ASSUME NEW bytes \in Seq(Bytes), NEW new \in Seq(Bytes)
  PROVE  Cut(bytes \o new) = After(Cut(bytes), Cut(Cut(bytes).rest \o new))
<1> PICK a : a = Cut(bytes)
  OBVIOUS
<1>1. a \in Cutting
  BY CutType
<1> PICK rest \in Seq(Bytes) : rest = a.rest
  BY <1>1 DEF Cutting
<1> DEFINE Same(t) == Cut(bytes \o t) = After(a, Cut(rest \o t))
           P == {t \in Seq(Bytes) : Same(t)}
<1>2. <<>> \in P
  <2>1. bytes \o <<>> = bytes /\ rest \o <<>> = rest /\ <<>> \in Seq(Bytes)
    OBVIOUS
  <2>2. Cut(rest) = [lines |-> <<>>, rest |-> rest]
    BY CutAgain
  <2>3. After(a, [lines |-> <<>>, rest |-> rest]) = a
    <3>1. a = [lines |-> a.lines, rest |-> a.rest] /\ a.lines \in Seq(Seq(Bytes))
      BY <1>1 DEF Cutting
    <3>2. a.lines \o <<>> = a.lines
      BY <3>1
    <3> QED
      BY <3>1, <3>2 DEF After
  <2> QED
    BY <2>1, <2>2, <2>3
<1>3. ASSUME NEW t \in Seq(Bytes), NEW b \in Bytes, t \in P PROVE Append(t, b) \in P
  <2>1. /\ bytes \o Append(t, b) = Append(bytes \o t, b)
        /\ rest \o Append(t, b) = Append(rest \o t, b)
        /\ bytes \o t \in Seq(Bytes) /\ rest \o t \in Seq(Bytes)
        /\ Append(t, b) \in Seq(Bytes)
    <3>1. \A u \in Seq(Bytes) : u \o Append(t, b) = Append(u \o t, b)
      BY ConcatAppend
    <3>2. \A u \in Seq(Bytes) : u \o t \in Seq(Bytes)
      OBVIOUS
    <3> QED
      BY <3>1, <3>2, AppendProperties
  <2>2. /\ Cut(bytes \o Append(t, b)) = TakeByte(Cut(bytes \o t), b)
        /\ Cut(rest \o Append(t, b)) = TakeByte(Cut(rest \o t), b)
    BY <2>1, CutAppend
  <2>3. Cut(bytes \o t) = After(a, Cut(rest \o t))
    BY <1>3
  <2>4. Cut(rest \o t) \in Cutting
    BY <2>1, CutType
  <2>5. TakeByte(After(a, Cut(rest \o t)), b) = After(a, TakeByte(Cut(rest \o t), b))
    BY <1>1, <2>4, TakeByteAfter
  <2>6. Same(Append(t, b))
    BY <2>2, <2>3, <2>5
  <2> HIDE DEF Same
  <2> QED
    BY <2>1, <2>6
<1> HIDE DEF P
<1>4. new \in P
  BY <1>2, <1>3, SeqInduction
<1> QED
  BY <1>4 DEF P

(* The lines of more bytes follow the lines of those before in the answer.      *)
LEMMA ReversedConcat ==
  ASSUME NEW bytes \in Seq(Bytes), NEW new \in Seq(Bytes)
  PROVE  /\ Cut(bytes \o new).rest = Cut(Cut(bytes).rest \o new).rest
         /\ Reversed(bytes \o new)
              = Reversed(bytes) \o FlattenSeq(Cut(Cut(bytes).rest \o new).lines)
<1> PICK a \in Cutting : a = Cut(bytes)
  BY CutType
<1>1. a.lines \in Seq(Seq(Bytes)) /\ a.rest \in Seq(Bytes)
  BY DEF Cutting
<1>2. a.rest \o new \in Seq(Bytes)
  BY <1>1
<1> PICK b \in Cutting : b = Cut(a.rest \o new)
  BY <1>2, CutType
<1>3. b.lines \in Seq(Seq(Bytes))
  BY DEF Cutting
<1>4. Cut(bytes \o new) = After(a, b)
  BY CutConcat
<1>5. FlattenSeq(a.lines \o b.lines) = FlattenSeq(a.lines) \o FlattenSeq(b.lines)
  BY <1>1, <1>3, FlattenConcat
<1> QED
  BY <1>4, <1>5 DEF After, Reversed

(* The answer to bytes is bytes.                                                *)
LEMMA ReversedType ==
  ASSUME NEW bytes \in Seq(Bytes)
  PROVE  Reversed(bytes) \in Seq(Bytes)
<1>1. Cut(bytes).lines \in Seq(Seq(Bytes))
  BY CutType DEF Cutting
<1> QED
  BY <1>1, FlattenType DEF Reversed

(* No byte is lost: what is not in the answer is in the rest.                   *)
LEMMA CutKeepsAll ==
  ASSUME NEW bytes \in Seq(Bytes)
  PROVE  Len(Reversed(bytes)) + Len(Cut(bytes).rest) = Len(bytes)
<1> DEFINE P == {s \in Seq(Bytes) : Len(Reversed(s)) + Len(Cut(s).rest) = Len(s)}
<1>1. <<>> \in P
  <2>1. Cut(<<>>).lines = <<>> /\ Cut(<<>>).rest = <<>> /\ Reversed(<<>>) = <<>>
    BY CutEmpty, FlattenEmpty DEF Reversed
  <2> QED
    BY <2>1
<1>2. ASSUME NEW s \in Seq(Bytes), NEW b \in Bytes, s \in P PROVE Append(s, b) \in P
  <2> PICK lines \in Seq(Seq(Bytes)), rest \in Seq(Bytes) :
        Cut(s) = [lines |-> lines, rest |-> rest]
    BY CutType DEF Cutting
  <2> PICK out \in Seq(Bytes) : out = FlattenSeq(lines)
    BY FlattenType
  <2>1. Reversed(s) = out /\ Cut(s).rest = rest
    BY DEF Reversed
  <2>2. Len(out) + Len(rest) = Len(s) /\ Len(Append(s, b)) = Len(s) + 1 /\ Append(s, b) \in Seq(Bytes)
    BY <1>2, <2>1
  <2> PICK line : line = Append(Reverse(rest), Newline)
    OBVIOUS
  <2>3. Cut(Append(s, b)) = IF b = Newline THEN [lines |-> Append(lines, line), rest |-> <<>>]
                                           ELSE [lines |-> lines, rest |-> Append(rest, b)]
    <3>1. Cut(Append(s, b)) = TakeByte([lines |-> lines, rest |-> rest], b)
      BY CutAppend
    <3> QED
      BY <3>1, TakeByteIs, Zenon
  <2>4. CASE b = Newline
    <3>1. line \in Seq(Bytes) /\ Len(line) = Len(rest) + 1
      <4>1. Reverse(rest) \in Seq(Bytes) /\ Len(Reverse(rest)) = Len(rest)
        BY DEF Reverse
      <4> QED
        BY <2>4, <4>1, AppendProperties
    <3>2. FlattenSeq(Append(lines, line)) = out \o line
      BY <3>1, FlattenAppend
    <3>3. Len(out \o line) = Len(out) + (Len(rest) + 1)
      <4>1. Len(out \o line) = Len(out) + Len(line)
        BY <3>1, ConcatProperties
      <4> QED
        BY <3>1, <4>1, Zenon
    <3>4. Reversed(Append(s, b)) = out \o line /\ Cut(Append(s, b)).rest = <<>>
      <4>1. Cut(Append(s, b)) = [lines |-> Append(lines, line), rest |-> <<>>]
        BY <2>3, <2>4, Zenon
      <4>2. Cut(Append(s, b)).lines = Append(lines, line) /\ Cut(Append(s, b)).rest = <<>>
        BY <4>1
      <4> QED
        BY <3>2, <4>2, Zenon DEF Reversed
    <3>5. Len(<<>>) = 0
      OBVIOUS
    <3> QED
      BY <2>2, <3>3, <3>4, <3>5
  <2>5. CASE b # Newline
    <3>1. Reversed(Append(s, b)) = out /\ Cut(Append(s, b)).rest = Append(rest, b)
      BY <2>3, <2>5 DEF Reversed
    <3>2. Len(Append(rest, b)) = Len(rest) + 1
      OBVIOUS
    <3> QED
      BY <2>2, <3>1, <3>2
  <2> QED
    BY <2>4, <2>5
<1> HIDE DEF P
<1>3. bytes \in P
  BY <1>1, <1>2, SeqInduction
<1> QED
  BY <1>3 DEF P

(* One byte more of a line is packed behind what was packed before.             *)
LEMMA PackedAppend ==
  ASSUME NEW line \in Seq(Bytes), NEW byte \in Bytes, NEW room
  PROVE  Packed(Append(line, byte), room) = PackByte(Packed(line, room), byte, room)
<1> DEFINE more == Append(line, byte)
<1> PICK n \in Nat : n = Len(line)
  OBVIOUS
<1>1. /\ more \in Seq(Bytes) /\ Len(more) = n + 1 /\ more[n + 1] = byte
      /\ \A i \in 1 .. n : more[i] = line[i]
  OBVIOUS
<1> HIDE DEF more
<1>2. PICK f \in [0 .. Len(more) -> Seq(Seq(Bytes))] :
        PacksOver(f, more, room) /\ Packed(more, room) = f[Len(more)]
  BY <1>1, PackedRuns
<1>3. PICK g \in [0 .. Len(line) -> Seq(Seq(Bytes))] :
        PacksOver(g, line, room) /\ Packed(line, room) = g[Len(line)]
  BY PackedRuns
<1>9. /\ f[0] = <<>> /\ g[0] = <<>>
      /\ \A i \in 1 .. n + 1 : f[i] = PackByte(f[i - 1], more[i], room)
      /\ \A i \in 1 .. n : g[i] = PackByte(g[i - 1], line[i], room)
  BY <1>1, <1>2, <1>3 DEF PacksOver
<1> DEFINE P == {i \in 0 .. n : f[i] = g[i]}
<1>4. 0 \in P
  BY <1>9
<1>5. ASSUME NEW i \in 1 .. n, i - 1 \in P PROVE i \in P
  <2>1. i \in 1 .. n + 1 /\ i \in 0 .. n /\ f[i - 1] = g[i - 1]
    BY <1>5
  <2>2. f[i] = PackByte(f[i - 1], more[i], room) /\ g[i] = PackByte(g[i - 1], line[i], room)
    BY <1>9, <2>1
  <2> QED
    BY <1>1, <2>1, <2>2
<1> HIDE DEF P
<1>6. n \in P
  <2>1. \A i \in 0 .. n : i \in P
    BY <1>4, <1>5, UpTo
  <2> QED
    BY <2>1
<1>7. f[n] = Packed(line, room) /\ n + 1 \in 1 .. n + 1 /\ (n + 1) - 1 = n
  BY <1>3, <1>6 DEF P
<1>8. f[n + 1] = PackByte(f[(n + 1) - 1], more[n + 1], room)
  BY <1>7, <1>9
<1> QED
  BY <1>1, <1>2, <1>7, <1>8 DEF more

(* Every packet carries something.                                              *)
Filled(chunks) == \A i \in 1 .. Len(chunks) : chunks[i] # <<>>

LEMMA PackByteAdds ==
  ASSUME NEW chunks \in Seq(Seq(Bytes)), Filled(chunks), NEW byte \in Bytes, NEW room
  PROVE  /\ FlattenSeq(PackByte(chunks, byte, room)) = Append(FlattenSeq(chunks), byte)
         /\ Filled(PackByte(chunks, byte, room))
<1> PICK n \in Nat : n = Len(chunks)
  OBVIOUS
<1>1. FlattenSeq(chunks) \in Seq(Bytes)
  BY FlattenType
<1>2. ASSUME PackByte(chunks, byte, room) = Append(chunks, <<byte>>)
      PROVE  /\ FlattenSeq(PackByte(chunks, byte, room)) = Append(FlattenSeq(chunks), byte)
             /\ Filled(PackByte(chunks, byte, room))
  <2> DEFINE last == <<byte>>
             all == Append(chunks, last)
  <2>1. last \in Seq(Bytes) /\ last # <<>>
    OBVIOUS
  <2>2. FlattenSeq(chunks) \o last = Append(FlattenSeq(chunks), byte)
    BY <1>1
  <2> HIDE DEF last
  <2>3. FlattenSeq(all) = FlattenSeq(chunks) \o last
    BY <2>1, FlattenAppend
  <2>4. Filled(all)
    <3>1. /\ Len(all) = n + 1 /\ all[n + 1] = last
          /\ \A i \in 1 .. n : all[i] = chunks[i]
      BY <2>1
    <3> QED
      BY <2>1, <3>1 DEF Filled
  <2> QED
    BY <1>2, <2>2, <2>3, <2>4 DEF last
<1>3. ASSUME chunks # <<>>,
             PackByte(chunks, byte, room) = Append(Front(chunks), Append(Last(chunks), byte))
      PROVE  /\ FlattenSeq(PackByte(chunks, byte, room)) = Append(FlattenSeq(chunks), byte)
             /\ Filled(PackByte(chunks, byte, room))
  <2>1. n \in 1 .. Len(chunks) /\ n - 1 \in 0 .. Len(chunks)
    BY <1>3
  <2> DEFINE front == SubSeq(chunks, 1, n - 1)
             last == Append(chunks[n], byte)
             all == Append(front, last)
  <2>2. /\ front \in Seq(Seq(Bytes)) /\ Len(front) = n - 1
        /\ \A i \in 1 .. n - 1 : front[i] = chunks[i]
    BY <2>1, PrefixType
  <2>3. chunks[n] \in Seq(Bytes)
    BY <2>1
  <2>4. last \in Seq(Bytes) /\ last # <<>>
    BY <2>3
  <2>5. FlattenSeq(front) \in Seq(Bytes) /\ FlattenSeq(chunks) = FlattenSeq(front) \o chunks[n]
    <3>1. SubSeq(chunks, 1, n) = chunks
      BY SubSeqFull
    <3> QED
      BY <2>1, <3>1, FlattenStep
  <2>6. PackByte(chunks, byte, room) = all
    BY <1>3 DEF Front, Last
  <2> HIDE DEF front
  <2>7. FlattenSeq(front) \o last = Append(FlattenSeq(chunks), byte)
    BY <2>3, <2>5, ConcatAppend, SMTT(40)
  <2> HIDE DEF last
  <2>8. FlattenSeq(all) = FlattenSeq(front) \o last
    BY <2>2, <2>4, FlattenAppend
  <2>9. Filled(all)
    <3>1. /\ Len(all) = n /\ all[n] = last
          /\ \A i \in 1 .. n - 1 : all[i] = chunks[i]
      <4>1. (n - 1) + 1 = n
        OBVIOUS
      <4> QED
        BY <2>2, <2>4, <4>1, AppendProperties
    <3>2. \A i \in 1 .. n : i = n \/ i \in 1 .. n - 1
      OBVIOUS
    <3> QED
      BY <2>1, <2>4, <3>1, <3>2 DEF Filled
  <2> QED
    BY <2>6, <2>7, <2>8, <2>9
<1> QED
  BY <1>2, <1>3 DEF PackByte

(* What is packed of a line is the line.                                        *)
LEMMA PackedIsLine ==
  ASSUME NEW line \in Seq(Bytes), NEW room
  PROVE  FlattenSeq(Packed(line, room)) = line /\ Filled(Packed(line, room))
<1> DEFINE Whole(s) == FlattenSeq(Packed(s, room)) = s /\ Filled(Packed(s, room))
           P == {s \in Seq(Bytes) : Whole(s)}
<1>1. <<>> \in P
  <2>1. <<>> \in Seq(Bytes) /\ Len(<<>>) = 0
    OBVIOUS
  <2>2. Packed(<<>>, room) = <<>>
    <3>1. PICK run \in [0 .. Len(<<>>) -> Seq(Seq(Bytes))] :
            PacksOver(run, <<>>, room) /\ Packed(<<>>, room) = run[Len(<<>>)]
      BY <2>1, PackedRuns
    <3> QED
      BY <2>1, <3>1 DEF PacksOver
  <2>3. Filled(<<>>)
    BY <2>1 DEF Filled
  <2> QED
    BY <2>1, <2>2, <2>3, FlattenEmpty
<1>2. ASSUME NEW s \in Seq(Bytes), NEW b \in Bytes, s \in P PROVE Append(s, b) \in P
  <2>1. Packed(s, room) \in Seq(Seq(Bytes)) /\ Append(s, b) \in Seq(Bytes)
    BY PackedType
  <2>2. FlattenSeq(Packed(s, room)) = s /\ Filled(Packed(s, room))
    BY <1>2
  <2>3. /\ FlattenSeq(PackByte(Packed(s, room), b, room)) = Append(s, b)
        /\ Filled(PackByte(Packed(s, room), b, room))
    BY <2>1, <2>2, PackByteAdds
  <2>4. Whole(Append(s, b))
    BY <2>3, PackedAppend
  <2> HIDE DEF Whole
  <2> QED
    BY <2>1, <2>4
<1> HIDE DEF P
<1>3. line \in P
  BY <1>1, <1>2, SeqInduction
<1> QED
  BY <1>3 DEF P

(* Each data packet for some lines is packed of one of them, and found in them  *)
(* behind as many bytes as its position is behind where they begin.             *)
LEMMA PositionedAt ==
  ASSUME NEW chunks \in Seq(Seq(Bytes)), Filled(chunks), NEW out_bytes \in Nat,
         NEW d \in ToSet(Positioned(chunks, out_bytes))
  PROVE  /\ d.bytes # <<>> /\ d.bytes \in ToSet(chunks)
         /\ \E k \in Nat : d.start = out_bytes + k /\ At(FlattenSeq(chunks), k, d.bytes)
<1> DEFINE before(i) == Len(FlattenSeq(SubSeq(chunks, 1, i - 1)))
<1>1. PICK i \in 1 .. Len(chunks) : d = [start |-> out_bytes + before(i), bytes |-> chunks[i]]
  BY DEF Positioned, ToSet
<1>2. before(i) \in Nat /\ At(FlattenSeq(chunks), before(i), chunks[i])
  BY FlattenAt
<1> HIDE DEF before
<1>3. chunks[i] # <<>> /\ chunks[i] \in ToSet(chunks)
  BY DEF Filled, ToSet
<1> QED
  BY <1>1, <1>2, <1>3

LEMMA DataResponsesAt ==
  ASSUME NEW lines \in Seq(Seq(Bytes)), NEW out_bytes \in Nat, NEW room,
         NEW d \in ToSet(DataResponses(lines, out_bytes, room))
  PROVE  /\ d \in DataPacket /\ d.bytes # <<>>
         /\ \E i \in 1 .. Len(lines) : d.bytes \in ToSet(Packed(lines[i], room))
         /\ \E k \in Nat : d.start = out_bytes + k /\ At(FlattenSeq(lines), k, d.bytes)
<1> DEFINE before(i) == Len(FlattenSeq(SubSeq(lines, 1, i - 1)))
           Of(i) == Positioned(Packed(lines[i], room), out_bytes + before(i))
           all == [i \in 1 .. Len(lines) |-> Of(i)]
<1>1. \A i \in 1 .. Len(lines) :
        /\ lines[i] \in Seq(Bytes)
        /\ before(i) \in Nat /\ At(FlattenSeq(lines), before(i), lines[i])
  <2> TAKE i \in 1 .. Len(lines)
  <2>1. lines[i] \in Seq(Bytes)
    OBVIOUS
  <2> QED
    BY <2>1, FlattenAt
<1>2. DataResponses(lines, out_bytes, room) = FlattenSeq(all)
  BY DEF DataResponses
<1> HIDE DEF before
<1>3. \A i \in 1 .. Len(lines) : Of(i) \in Seq(DataPacket)
  <2> TAKE i \in 1 .. Len(lines)
  <2>1. Packed(lines[i], room) \in Seq(Seq(Bytes)) /\ out_bytes + before(i) \in Nat
    BY <1>1, PackedType
  <2> QED
    BY <2>1, PositionedType
<1> HIDE DEF Of
<1>4. /\ all \in Seq(Seq(DataPacket)) /\ Len(all) = Len(lines)
      /\ \A i \in 1 .. Len(lines) : all[i] = Of(i)
  <2>1. Len(lines) \in Nat
    OBVIOUS
  <2> QED
    BY <1>3, <2>1
<1> HIDE DEF all
<1>5. PICK i \in 1 .. Len(lines) : d \in ToSet(Of(i))
  BY <1>2, <1>4, FlattenElement
<1>6. d \in DataPacket
  BY <1>3, <1>5 DEF ToSet
<1> DEFINE chunks == Packed(lines[i], room)
<1>7. /\ chunks \in Seq(Seq(Bytes)) /\ FlattenSeq(chunks) = lines[i] /\ Filled(chunks)
      /\ out_bytes + before(i) \in Nat
  BY <1>1, PackedType, PackedIsLine
<1>8. d \in ToSet(Positioned(chunks, out_bytes + before(i)))
  BY <1>5 DEF Of
<1> HIDE DEF chunks
<1>9. /\ d.bytes # <<>> /\ d.bytes \in ToSet(chunks)
      /\ \E k \in Nat : d.start = (out_bytes + before(i)) + k /\ At(FlattenSeq(chunks), k, d.bytes)
  BY <1>7, <1>8, PositionedAt
<1>10. PICK k \in Nat : d.start = (out_bytes + before(i)) + k /\ At(lines[i], k, d.bytes)
  BY <1>7, <1>9
<1>11. d.bytes \in Seq(Bytes) /\ FlattenSeq(lines) \in Seq(Bytes)
  BY <1>6, FlattenType DEF DataPacket
<1>12. At(FlattenSeq(lines), before(i) + k, d.bytes)
  BY <1>1, <1>10, <1>11, AtWithin
<1>13. before(i) + k \in Nat /\ d.start = out_bytes + (before(i) + k)
  BY <1>1, <1>10
<1>14. d.bytes \in ToSet(Packed(lines[i], room))
  BY <1>9, Zenon DEF chunks
<1> QED
  BY <1>6, <1>9, <1>12, <1>13, <1>14

--------------------------------------------------------------------------------
(* What is read of a payload that was escaped.                                  *)

(* What a byte becomes in a payload.                                            *)
EscapeOf(byte) == IF byte \in {"/", Escape} THEN <<Escape, byte>> ELSE <<byte>>

LEMMA EscapedEmpty == Escaped(<<>>) = <<>>
<1>1. [i \in 1 .. Len(<<>>) |-> IF <<>>[i] \in {"/", Escape} THEN <<Escape, <<>>[i]>> ELSE <<<<>>[i]>>]
        = <<>>
  OBVIOUS
<1> QED
  BY <1>1, FlattenEmpty DEF Escaped

LEMMA EscapedAppend ==
  ASSUME NEW bytes \in Seq(Bytes), NEW byte \in Bytes
  PROVE  Escaped(Append(bytes, byte)) = Escaped(bytes) \o EscapeOf(byte)
<1> PICK n \in Nat : n = Len(bytes)
  OBVIOUS
<1> DEFINE more == Append(bytes, byte)
           all == [i \in 1 .. n |-> EscapeOf(bytes[i])]
           longer == [i \in 1 .. n + 1 |-> EscapeOf(more[i])]
<1>1. /\ Len(more) = n + 1 /\ more[n + 1] = byte
      /\ \A i \in 1 .. n : more[i] = bytes[i] /\ bytes[i] \in Bytes
  OBVIOUS
<1>2. Escaped(bytes) = FlattenSeq(all) /\ Escaped(more) = FlattenSeq(longer)
  BY <1>1 DEF Escaped, EscapeOf
<1> HIDE DEF more
<1>3. \A b \in Bytes : EscapeOf(b) \in Seq(Bytes)
  <2>1. Escape \in Bytes
    BY DEF Bytes
  <2> QED
    BY <2>1 DEF EscapeOf
<1>4. all \in Seq(Seq(Bytes)) /\ Len(all) = n
  BY <1>1, <1>3
<1>5. Append(all, EscapeOf(byte)) = longer
  <2>1. EscapeOf(byte) \in Seq(Bytes)
    BY <1>3
  <2>2. longer \in Seq(Seq(Bytes)) /\ Len(longer) = n + 1
    <3>1. \A i \in 1 .. n + 1 : more[i] \in Bytes
      <4>1. \A i \in 1 .. n + 1 : i \in 1 .. n \/ i = n + 1
        OBVIOUS
      <4> QED
        BY <1>1, <4>1
    <3> QED
      BY <1>3, <3>1
  <2>3. /\ Append(all, EscapeOf(byte)) \in Seq(Seq(Bytes))
        /\ Len(Append(all, EscapeOf(byte))) = n + 1
        /\ Append(all, EscapeOf(byte))[n + 1] = EscapeOf(byte)
        /\ \A i \in 1 .. n : Append(all, EscapeOf(byte))[i] = all[i]
    BY <1>4, <2>1, AppendProperties
  <2>4. \A i \in 1 .. n + 1 : Append(all, EscapeOf(byte))[i] = longer[i]
    <3>1. \A i \in 1 .. n : all[i] = longer[i]
      BY <1>1
    <3>2. longer[n + 1] = EscapeOf(byte)
      BY <1>1
    <3>3. \A i \in 1 .. n + 1 : i \in 1 .. n \/ i = n + 1
      OBVIOUS
    <3> HIDE DEF all, longer
    <3> QED
      BY <2>3, <3>1, <3>2, <3>3
  <2> HIDE DEF all, longer
  <2> QED
    BY <2>2, <2>3, <2>4, SeqEqual
<1>6. EscapeOf(byte) \in Seq(Bytes)
  BY <1>3
<1> HIDE DEF all, longer
<1>7. FlattenSeq(Append(all, EscapeOf(byte))) = FlattenSeq(all) \o EscapeOf(byte)
  BY <1>4, <1>6, FlattenAppend
<1> QED
  BY <1>2, <1>5, <1>7 DEF more

(* An escaped byte is two bytes at most, and so a packet that is begun or goes  *)
(* on while it is shorter than the room exceeds it by one at most.              *)
LEMMA EscapeAdds ==
  ASSUME NEW bytes \in Seq(Bytes), NEW byte \in Bytes
  PROVE  /\ Len(Escaped(bytes)) \in Nat
         /\ Len(Escaped(Append(bytes, byte))) <= Len(Escaped(bytes)) + 2
<1>1. EscapeOf(byte) \in Seq(Bytes) /\ Len(EscapeOf(byte)) <= 2
  <2>1. Escape \in Bytes
    BY DEF Bytes
  <2> QED
    BY <2>1 DEF EscapeOf
<1>2. Escaped(bytes) \in Seq(Bytes)
  BY EscapedType
<1>3. Len(Escaped(bytes) \o EscapeOf(byte)) = Len(Escaped(bytes)) + Len(EscapeOf(byte))
  BY <1>1, <1>2, ConcatProperties
<1>4. Len(Escaped(bytes)) \in Nat /\ Len(EscapeOf(byte)) \in Nat
  BY <1>1, <1>2, LenProperties
<1> HIDE DEF EscapeOf
<1> QED
  BY <1>1, <1>3, <1>4, EscapedAppend

Short(bytes, room) == Len(Escaped(bytes)) <= room + 1

AllShort(chunks, room) == \A i \in 1 .. Len(chunks) : Short(chunks[i], room)

LEMMA PackByteShort ==
  ASSUME NEW room \in Nat \ {0}, NEW chunks \in Seq(Seq(Bytes)), AllShort(chunks, room),
         NEW byte \in Bytes
  PROVE  AllShort(PackByte(chunks, byte, room), room)
<1> PICK n \in Nat : n = Len(chunks)
  OBVIOUS
<1>1. CASE PackByte(chunks, byte, room) = Append(chunks, <<byte>>)
  <2> DEFINE all == Append(chunks, <<byte>>)
  <2>1. Short(<<byte>>, room)
    <3>1. <<>> \in Seq(Bytes) /\ <<byte>> = Append(<<>>, byte) /\ Len(<<>>) = 0
      OBVIOUS
    <3>2. Len(Escaped(<<byte>>)) <= 2
      <4>1. Len(Escaped(Append(<<>>, byte))) <= Len(Escaped(<<>>)) + 2
        BY <3>1, EscapeAdds, Zenon
      <4>2. Len(Escaped(<<>>)) = 0
        BY <3>1, EscapedEmpty
      <4>3. Escaped(Append(<<>>, byte)) = Escaped(<<byte>>)
        BY <3>1
      <4> QED
        BY <4>1, <4>2, <4>3
    <3>3. \A m : m <= 2 /\ m \in Nat => m <= room + 1
      OBVIOUS
    <3>4. Len(Escaped(<<byte>>)) \in Nat
      <4>1. <<byte>> \in Seq(Bytes)
        OBVIOUS
      <4> QED
        BY <4>1, EscapedType, LenProperties
    <3> QED
      BY <3>2, <3>3, <3>4 DEF Short
  <2>2. /\ Len(all) = n + 1 /\ all[n + 1] = <<byte>>
        /\ \A i \in 1 .. n : all[i] = chunks[i]
    OBVIOUS
  <2>3. \A i \in 1 .. n + 1 : i \in 1 .. n \/ i = n + 1
    OBVIOUS
  <2> HIDE DEF all
  <2>4. AllShort(all, room)
    BY <2>1, <2>2, <2>3 DEF AllShort
  <2> QED
    BY <1>1, <2>4 DEF all
<1>2. CASE /\ chunks # <<>> /\ ~ (Len(Escaped(Last(chunks))) >= room)
           /\ PackByte(chunks, byte, room) = Append(Front(chunks), Append(Last(chunks), byte))
  <2>1. n \in 1 .. Len(chunks) /\ n - 1 \in 0 .. Len(chunks)
    BY <1>2
  <2> DEFINE front == SubSeq(chunks, 1, n - 1)
             last == Append(chunks[n], byte)
             all == Append(front, last)
  <2>2. /\ front \in Seq(Seq(Bytes)) /\ Len(front) = n - 1
        /\ \A i \in 1 .. n - 1 : front[i] = chunks[i]
    BY <2>1, PrefixType
  <2>3. chunks[n] \in Seq(Bytes) /\ last \in Seq(Bytes)
    BY <2>1
  <2>4. Front(chunks) = front /\ Last(chunks) = chunks[n]
    BY DEF Front, Last
  <2>5. Short(last, room)
    <3>1. /\ Len(Escaped(chunks[n])) \in Nat
          /\ Len(Escaped(last)) <= Len(Escaped(chunks[n])) + 2
      BY <2>3, EscapeAdds
    <3>2. ~ (Len(Escaped(chunks[n])) >= room)
      BY <1>2, <2>4
    <3>3. Len(Escaped(last)) \in Nat
      BY <2>3, EscapeAdds
    <3> HIDE DEF last
    <3> QED
      BY <3>1, <3>2, <3>3 DEF Short
  <2> HIDE DEF front, last
  <2>6. /\ Len(all) = n /\ all[n] = last
        /\ \A i \in 1 .. n - 1 : all[i] = front[i]
    <3>1. (n - 1) + 1 = n
      OBVIOUS
    <3>2. last \in Seq(Bytes)
      BY <2>3
    <3>3. /\ Len(all) = (n - 1) + 1 /\ all[(n - 1) + 1] = last
          /\ \A i \in 1 .. n - 1 : all[i] = front[i]
      BY <2>2, <3>2, AppendProperties
    <3> QED
      BY <3>1, <3>3
  <2>7. \A i \in 1 .. n : i \in 1 .. n - 1 \/ i = n
    OBVIOUS
  <2> HIDE DEF all
  <2>8. \A i \in 1 .. n - 1 : i \in 1 .. n
    OBVIOUS
  <2>9. AllShort(all, room)
    BY <2>2, <2>5, <2>6, <2>7, <2>8 DEF AllShort
  <2> QED
    BY <1>2, <2>4, <2>9 DEF all, last
<1> QED
  BY <1>1, <1>2 DEF PackByte

LEMMA PackedShort ==
  ASSUME NEW room \in Nat \ {0}, NEW line \in Seq(Bytes)
  PROVE  AllShort(Packed(line, room), room)
<1> DEFINE P == {s \in Seq(Bytes) : AllShort(Packed(s, room), room)}
<1>1. <<>> \in P
  <2>1. <<>> \in Seq(Bytes) /\ Len(<<>>) = 0
    OBVIOUS
  <2>2. Packed(<<>>, room) = <<>>
    <3>1. PICK run \in [0 .. Len(<<>>) -> Seq(Seq(Bytes))] :
            PacksOver(run, <<>>, room) /\ Packed(<<>>, room) = run[Len(<<>>)]
      BY <2>1, PackedRuns
    <3> QED
      BY <2>1, <3>1 DEF PacksOver
  <2> QED
    BY <2>1, <2>2 DEF AllShort
<1>2. ASSUME NEW s \in Seq(Bytes), NEW b \in Bytes, s \in P PROVE Append(s, b) \in P
  <2>1. Packed(s, room) \in Seq(Seq(Bytes)) /\ AllShort(Packed(s, room), room)
    BY <1>2, PackedType
  <2>2. AllShort(PackByte(Packed(s, room), b, room), room)
    BY <2>1, PackByteShort
  <2>3. AllShort(Packed(Append(s, b), room), room)
    BY <2>2, PackedAppend
  <2>4. Append(s, b) \in Seq(Bytes)
    OBVIOUS
  <2> QED
    BY <2>3, <2>4
<1> HIDE DEF P
<1>3. line \in P
  BY <1>1, <1>2, SeqInduction
<1> QED
  BY <1>3 DEF P

(* What is sent for some lines is short.                                        *)
LEMMA DataResponsesShort ==
  ASSUME NEW room \in Nat \ {0}, NEW lines \in Seq(Seq(Bytes)), NEW out_bytes \in Nat,
         NEW d \in ToSet(DataResponses(lines, out_bytes, room))
  PROVE  d \in DataPacket /\ Short(d.bytes, room)
<1>1. d \in DataPacket /\ \E i \in 1 .. Len(lines) : d.bytes \in ToSet(Packed(lines[i], room))
  BY DataResponsesAt
<1>2. PICK i \in 1 .. Len(lines) : d.bytes \in ToSet(Packed(lines[i], room))
  BY <1>1
<1>3. lines[i] \in Seq(Bytes)
  OBVIOUS
<1>4. AllShort(Packed(lines[i], room), room)
  BY <1>3, PackedShort
<1> PICK chunks : chunks = Packed(lines[i], room)
  OBVIOUS
<1>5. chunks \in Seq(Seq(Bytes)) /\ AllShort(chunks, room) /\ d.bytes \in ToSet(chunks)
  BY <1>2, <1>3, <1>4, PackedType
<1>6. PICK j \in 1 .. Len(chunks) : d.bytes = chunks[j]
  <2>1. \E j \in DOMAIN chunks : d.bytes = chunks[j]
    BY <1>5, Zenon DEF ToSet
  <2>2. DOMAIN chunks = 1 .. Len(chunks)
    BY <1>5
  <2> QED
    BY <2>1, <2>2
<1> QED
  BY <1>1, <1>5, <1>6 DEF AllShort

(* One more pair of adjacent bytes is taken by what was read before.            *)
LEMMA ReadPairsAppend ==
  ASSUME NEW pairs \in Seq(Bytes \X Bytes), NEW w \in Bytes \X Bytes,
         NEW first \in Reading, NEW in_bytes \in Nat
  PROVE  ReadPairs(Append(pairs, w), first, in_bytes)
           = TakePair(ReadPairs(pairs, first, in_bytes), in_bytes, w[1], w[2])
<1> DEFINE more == Append(pairs, w)
<1> PICK n \in Nat : n = Len(pairs)
  OBVIOUS
<1>1. /\ more \in Seq(Bytes \X Bytes) /\ Len(more) = n + 1 /\ more[n + 1] = w
      /\ \A i \in 1 .. n : more[i] = pairs[i]
  OBVIOUS
<1> HIDE DEF more
<1>2. PICK f \in [0 .. Len(more) -> Reading] :
        RunsOver(f, more, first, in_bytes) /\ ReadPairs(more, first, in_bytes) = f[Len(more)]
  BY <1>1, UnpackedRuns
<1>3. PICK g \in [0 .. Len(pairs) -> Reading] :
        RunsOver(g, pairs, first, in_bytes) /\ ReadPairs(pairs, first, in_bytes) = g[Len(pairs)]
  BY UnpackedRuns
<1>9. /\ f[0] = first /\ g[0] = first
      /\ \A i \in 1 .. n + 1 : f[i] = TakePair(f[i - 1], in_bytes, more[i][1], more[i][2])
      /\ \A i \in 1 .. n : g[i] = TakePair(g[i - 1], in_bytes, pairs[i][1], pairs[i][2])
  BY <1>1, <1>2, <1>3 DEF RunsOver
<1> DEFINE P == {i \in 0 .. n : f[i] = g[i]}
<1>4. 0 \in P
  BY <1>9
<1>5. ASSUME NEW i \in 1 .. n, i - 1 \in P PROVE i \in P
  <2>1. i \in 1 .. n + 1 /\ i \in 0 .. n /\ f[i - 1] = g[i - 1]
    BY <1>5
  <2>2. /\ f[i] = TakePair(f[i - 1], in_bytes, more[i][1], more[i][2])
        /\ g[i] = TakePair(g[i - 1], in_bytes, pairs[i][1], pairs[i][2])
    BY <1>9, <2>1
  <2> QED
    BY <1>1, <2>1, <2>2
<1> HIDE DEF P
<1>6. n \in P
  <2>1. \A i \in 0 .. n : i \in P
    BY <1>4, <1>5, UpTo
  <2> QED
    BY <2>1
<1>7. f[n] = ReadPairs(pairs, first, in_bytes) /\ n + 1 \in 1 .. n + 1 /\ (n + 1) - 1 = n
  BY <1>3, <1>6 DEF P
<1>8. f[n + 1] = TakePair(f[(n + 1) - 1], in_bytes, more[n + 1][1], more[n + 1][2])
  BY <1>7, <1>9
<1> QED
  BY <1>1, <1>2, <1>7, <1>8 DEF more

(* What is read of the first byte of a payload.                                 *)
FirstRead(in_bytes, start, byte) ==
  IF byte = Escape THEN [new |-> <<>>, count |-> start, ok |-> TRUE]
  ELSE Take([new |-> <<>>, count |-> start, ok |-> TRUE], in_bytes, byte)

LEMMA UnpackedOne ==
  ASSUME NEW in_bytes \in Nat, NEW start \in Nat, NEW byte \in Bytes
  PROVE  Unpacked(in_bytes, start, <<byte>>) = FirstRead(in_bytes, start, byte)
<1> DEFINE pairs == [i \in 1 .. Len(<<byte>>) - 1 |-> <<<<byte>>[i], <<byte>>[i + 1]>>]
           first == FirstRead(in_bytes, start, byte)
<1>1. first \in Reading
  <2>1. [new |-> <<>>, count |-> start, ok |-> TRUE] \in Reading
    BY DEF Reading
  <2> QED
    BY <2>1, TakeType DEF FirstRead
<1>2. pairs = <<>>
  OBVIOUS
<1>3. Unpacked(in_bytes, start, <<byte>>) = ReadPairs(pairs, first, in_bytes)
  <2>1. <<byte>>[1] = byte
    OBVIOUS
  <2> QED
    BY <2>1 DEF Unpacked, ReadPairs, FirstRead
<1> HIDE DEF pairs, first
<1>4. <<>> \in Seq(Bytes \X Bytes) /\ Len(<<>>) = 0
  OBVIOUS
<1>5. PICK run \in [0 .. Len(<<>>) -> Reading] :
        RunsOver(run, <<>>, first, in_bytes) /\ ReadPairs(<<>>, first, in_bytes) = run[Len(<<>>)]
  BY <1>1, <1>4, UnpackedRuns
<1> QED
  BY <1>2, <1>3, <1>4, <1>5 DEF first, RunsOver

(* One more byte is taken together with the one before it.                      *)
LEMMA UnpackedAppend ==
  ASSUME NEW in_bytes \in Nat, NEW start \in Nat,
         NEW payload \in Seq(Bytes), payload # <<>>, NEW byte \in Bytes
  PROVE  Unpacked(in_bytes, start, Append(payload, byte))
           = TakePair(Unpacked(in_bytes, start, payload), in_bytes, Last(payload), byte)
<1> PICK n \in Nat : n = Len(payload) /\ n # 0
  OBVIOUS
<1> DEFINE more == Append(payload, byte)
           first == FirstRead(in_bytes, start, payload[1])
           pairs == [i \in 1 .. n - 1 |-> <<payload[i], payload[i + 1]>>]
           longer == [i \in 1 .. n |-> <<more[i], more[i + 1]>>]
           w == <<payload[n], byte>>
<1>1. /\ more \in Seq(Bytes) /\ Len(more) = n + 1 /\ more[n + 1] = byte
      /\ \A i \in 1 .. n : more[i] = payload[i] /\ payload[i] \in Bytes
  OBVIOUS
<1>2. 1 \in 1 .. n /\ n \in 1 .. n /\ Len(more) - 1 = n /\ more[1] = payload[1]
  BY <1>1
<1>3. /\ Unpacked(in_bytes, start, payload) = ReadPairs(pairs, first, in_bytes)
      /\ Unpacked(in_bytes, start, more) = ReadPairs(longer, first, in_bytes)
  <2> HIDE DEF more
  <2>1. Unpacked(in_bytes, start, payload) = ReadPairs(pairs, first, in_bytes)
    BY DEF Unpacked, ReadPairs, FirstRead
  <2>2. Unpacked(in_bytes, start, more) = ReadPairs(longer, first, in_bytes)
    BY <1>2 DEF Unpacked, ReadPairs, FirstRead
  <2> QED
    BY <2>1, <2>2
<1> HIDE DEF more
<1>4. first \in Reading
  <2>1. [new |-> <<>>, count |-> start, ok |-> TRUE] \in Reading /\ payload[1] \in Bytes
    BY <1>1, <1>2 DEF Reading
  <2> QED
    BY <2>1, TakeType DEF FirstRead
<1>5. pairs \in Seq(Bytes \X Bytes) /\ Len(pairs) = n - 1
  <2>1. \A i \in 1 .. n - 1 : i \in 1 .. n /\ i + 1 \in 1 .. n
    OBVIOUS
  <2>2. \A i \in 1 .. n - 1 : <<payload[i], payload[i + 1]>> \in Bytes \X Bytes
    BY <1>1, <2>1
  <2>3. n - 1 \in Nat
    OBVIOUS
  <2> QED
    BY <2>2, <2>3
<1>6. w \in Bytes \X Bytes /\ w[1] = payload[n] /\ w[2] = byte
  BY <1>1, <1>2
<1>7. longer = Append(pairs, w)
  <2>1. /\ longer \in Seq(Bytes \X Bytes) /\ Len(longer) = n
        /\ \A i \in 1 .. n : longer[i] = <<more[i], more[i + 1]>>
    <3>1. \A i \in 1 .. n : i \in 1 .. n + 1 /\ i + 1 \in 1 .. n + 1
      OBVIOUS
    <3>2. \A i \in 1 .. n : <<more[i], more[i + 1]>> \in Bytes \X Bytes
      BY <1>1, <3>1
    <3> QED
      BY <3>2
  <2>2. /\ Append(pairs, w) \in Seq(Bytes \X Bytes) /\ Len(Append(pairs, w)) = n
        /\ Append(pairs, w)[n] = w
        /\ \A i \in 1 .. n - 1 : Append(pairs, w)[i] = pairs[i]
    <3> HIDE DEF pairs, w
    <3>1. Len(pairs) + 1 = n
      BY <1>5
    <3> QED
      BY <1>5, <1>6, <3>1, AppendProperties
  <2>3. \A i \in 1 .. n - 1 : longer[i] = pairs[i]
    <3>1. \A i \in 1 .. n - 1 : i \in 1 .. n /\ i + 1 \in 1 .. n
      OBVIOUS
    <3> QED
      BY <1>1, <3>1
  <2>4. longer[n] = w
    BY <1>1, <1>2, <2>1
  <2>5. \A i \in 1 .. n : i \in 1 .. n - 1 \/ i = n
    OBVIOUS
  <2> HIDE DEF longer, pairs, w
  <2>6. \A i \in 1 .. n : longer[i] = Append(pairs, w)[i]
    BY <2>2, <2>3, <2>4, <2>5
  <2> QED
    BY <2>1, <2>2, <2>6, SeqEqual
<1> HIDE DEF first, pairs, longer, w
<1>8. ReadPairs(Append(pairs, w), first, in_bytes)
        = TakePair(ReadPairs(pairs, first, in_bytes), in_bytes, w[1], w[2])
  BY <1>4, <1>5, <1>6, ReadPairsAppend
<1>9. Last(payload) = payload[n]
  BY DEF Last
<1> QED
  BY <1>3, <1>6, <1>7, <1>8, <1>9 DEF more

(* No escaped byte follows a "\" in s.                                          *)
NoPairs(s) == \A i \in 1 .. Len(s) - 1 : s[i] = Escape => s[i + 1] \notin {"/", Escape}

(* What is right to have read of a payload for s: all but its first m bytes.    *)
ReadOf(s, start, m) ==
  [new |-> SubSeq(s, m + 1, Len(s)), count |-> start + Len(s), ok |-> TRUE]

LEMMA ReadOfIs ==
  ASSUME NEW s, NEW start, NEW m
  PROVE  /\ ReadOf(s, start, m).new = SubSeq(s, m + 1, Len(s))
         /\ ReadOf(s, start, m).count = start + Len(s)
BY DEF ReadOf

(* What a byte makes of what has been read.                                     *)
LEMMA TakeIs ==
  ASSUME NEW acc \in Reading, NEW in_bytes \in Nat, NEW byte \in Bytes
  PROVE  Take(acc, in_bytes, byte)
           = [new |-> IF acc.count < in_bytes THEN acc.new ELSE Append(acc.new, byte),
              count |-> acc.count + 1, ok |-> acc.ok]
<1> PICK new \in Seq(Bytes), count \in Nat, ok \in BOOLEAN :
      acc = [new |-> new, count |-> count, ok |-> ok]
  BY DEF Reading
<1> PICK add : add = IF count < in_bytes THEN new ELSE Append(new, byte)
  OBVIOUS
<1>1. Take(acc, in_bytes, byte) = [acc EXCEPT !.new = add, !.count = count + 1]
  BY DEF Take
<1> QED
  BY <1>1

(* One more byte is counted, and taken if it is new.                            *)
LEMMA TakeOne ==
  ASSUME NEW in_bytes \in Nat, NEW start \in Nat, start <= in_bytes,
         NEW s \in Seq(Bytes), NEW byte \in Bytes
  PROVE  Take(ReadOf(s, start, in_bytes - start), in_bytes, byte)
           = ReadOf(Append(s, byte), start, in_bytes - start)
<1> DEFINE more == Append(s, byte)
<1> PICK n \in Nat : n = Len(s)
  OBVIOUS
<1> PICK m \in Nat : m = in_bytes - start
  OBVIOUS
<1>1. more \in Seq(Bytes) /\ Len(more) = n + 1 /\ s = SubSeq(more, 1, n) /\ more[n + 1] = byte
  OBVIOUS
<1>5. \A l \in Nat : \A i \in 1 .. l + 1 : i \in 1 .. l \/ i = l + 1
  OBVIOUS
<1>2. Take(ReadOf(s, start, m), in_bytes, byte)
        = [new |-> IF n < m THEN SubSeq(s, m + 1, n) ELSE Append(SubSeq(s, m + 1, n), byte),
           count |-> (start + n) + 1, ok |-> TRUE]
  <2> DEFINE acc == ReadOf(s, start, m)
  <2>1. n < m <=> start + n < in_bytes
    OBVIOUS
  <2>2. acc \in Reading /\ acc.new = SubSeq(s, m + 1, n) /\ acc.count = start + n /\ acc.ok = TRUE
    <3>1. SubSeq(s, m + 1, n) \in Seq(Bytes) /\ start + n \in Nat
      OBVIOUS
    <3> QED
      BY <3>1 DEF ReadOf, Reading
  <2>3. Take(acc, in_bytes, byte)
          = [new |-> IF acc.count < in_bytes THEN acc.new ELSE Append(acc.new, byte),
             count |-> acc.count + 1, ok |-> acc.ok]
    BY <2>2, TakeIs
  <2> HIDE DEF acc
  <2> QED
    BY <2>1, <2>2, <2>3 DEF acc
<1>3. SubSeq(more, m + 1, n + 1)
        = IF n < m THEN SubSeq(s, m + 1, n) ELSE Append(SubSeq(s, m + 1, n), byte)
  <2>1. CASE n < m
    <3>1. SubSeq(more, m + 1, n + 1) = <<>> /\ SubSeq(s, m + 1, n) = <<>>
      BY <2>1, SubSeqEmpty
    <3> QED
      BY <2>1, <3>1
  <2>2. CASE ~ (n < m)
    <3>1. n - m \in Nat /\ m + (n - m) = n /\ (n - m) + 1 \in Nat /\ m + ((n - m) + 1) = n + 1
      BY <2>2
    <3> PICK l \in Nat : l = n - m
      BY <3>1
    <3>2. SubSeq(s, m + 1, n) \in Seq(Bytes) /\ IsMiddle(SubSeq(s, m + 1, n), s, m, l)
      BY <3>1, MiddleIs
    <3>3. /\ SubSeq(more, m + 1, n + 1) \in Seq(Bytes)
          /\ IsMiddle(SubSeq(more, m + 1, n + 1), more, m, l + 1)
      <4> PICK j \in Nat : j = l + 1
        BY <3>1
      <4>1. m + j = n + 1 /\ m + j <= Len(more)
        BY <1>1, <3>1
      <4>2. SubSeq(more, m + 1, m + j) \in Seq(Bytes) /\ IsMiddle(SubSeq(more, m + 1, m + j), more, m, j)
        BY <1>1, <4>1, MiddleIs, Zenon
      <4> QED
        BY <4>1, <4>2, Zenon
    <3>4. \A i \in 1 .. n : more[i] = s[i]
      OBVIOUS
    <3> PICK old : old = SubSeq(s, m + 1, n)
      OBVIOUS
    <3> PICK new : new = SubSeq(more, m + 1, n + 1)
      OBVIOUS
    <3> HIDE DEF more
    <3>5. old \in Seq(Bytes) /\ Len(old) = l /\ \A i \in 1 .. l : old[i] = s[m + i]
      BY <3>2 DEF IsMiddle
    <3>6. new \in Seq(Bytes) /\ Len(new) = l + 1 /\ \A i \in 1 .. l + 1 : new[i] = more[m + i]
      BY <3>3 DEF IsMiddle
    <3>7. /\ Append(old, byte) \in Seq(Bytes) /\ Len(Append(old, byte)) = l + 1
          /\ \A i \in 1 .. l : Append(old, byte)[i] = old[i]
          /\ Append(old, byte)[l + 1] = byte
      BY <3>5, AppendProperties
    <3>8. \A i \in 1 .. l : m + i \in 1 .. n /\ i \in 1 .. l + 1
      BY <3>1
    <3>9. ASSUME NEW i \in 1 .. l PROVE new[i] = Append(old, byte)[i]
      <4>1. new[i] = more[m + i] /\ old[i] = s[m + i] /\ Append(old, byte)[i] = old[i]
        BY <3>5, <3>6, <3>7, <3>8, Zenon
      <4>2. more[m + i] = s[m + i]
        BY <3>4, <3>8, Zenon
      <4> QED
        BY <4>1, <4>2, Zenon
    <3>10. new[l + 1] = byte
      <4>1. l + 1 \in 1 .. l + 1 /\ m + (l + 1) = n + 1
        BY <3>1
      <4> QED
        BY <1>1, <3>6, <4>1
    <3>11. new = Append(old, byte)
      <4>1. \A i \in 1 .. l + 1 : new[i] = Append(old, byte)[i]
        BY <1>5, <3>7, <3>9, <3>10
      <4> QED
        BY <3>6, <3>7, <4>1, SeqEqual, ZenonT(40)
    <3> QED
      BY <2>2, <3>11
  <2> QED
    BY <2>1, <2>2
<1>4. (start + n) + 1 = start + (n + 1)
  OBVIOUS
<1> QED
  BY <1>1, <1>2, <1>3, <1>4 DEF ReadOf

(* A byte that is escaped or not is taken as what it was, unless it was escaped *)
(* and follows a "\".                                                           *)
LEMMA TakeEscaped ==
  ASSUME NEW in_bytes \in Nat, NEW start \in Nat, start <= in_bytes,
         NEW s \in Seq(Bytes), s # <<>>, NEW byte \in Bytes,
         byte \in {"/", Escape} => Last(s) # Escape,
         NEW payload \in Seq(Bytes), payload # <<>>, Last(payload) = Last(s),
         Unpacked(in_bytes, start, payload) = ReadOf(s, start, in_bytes - start)
  PROVE  LET more == payload \o EscapeOf(byte) IN
         /\ more \in Seq(Bytes) /\ more # <<>> /\ Last(more) = byte
         /\ Unpacked(in_bytes, start, more) = ReadOf(Append(s, byte), start, in_bytes - start)
<1> DEFINE read == ReadOf(s, start, in_bytes - start)
<1>1. read.ok = TRUE
  BY DEF ReadOf
<1>2. Take(read, in_bytes, byte) = ReadOf(Append(s, byte), start, in_bytes - start)
  BY TakeOne
<1>3. Unpacked(in_bytes, start, payload) = read
  OBVIOUS
<1> HIDE DEF read
<1>4. \A p \in Seq(Bytes) : \A b \in Bytes :
        Append(p, b) \in Seq(Bytes) /\ Append(p, b) # <<>> /\ Last(Append(p, b)) = b
  BY DEF Last
<1>5. CASE byte \notin {"/", Escape}
  <2>1. payload \o EscapeOf(byte) = Append(payload, byte)
    BY <1>5 DEF EscapeOf
  <2>2. Unpacked(in_bytes, start, Append(payload, byte)) = TakePair(read, in_bytes, Last(payload), byte)
    BY <1>3, UnpackedAppend
  <2>3. TakePair(read, in_bytes, Last(payload), byte) = Take(read, in_bytes, byte)
    BY <1>1, <1>5 DEF TakePair
  <2> QED
    BY <1>2, <1>4, <2>1, <2>2, <2>3
<1>6. CASE byte \in {"/", Escape}
  <2>1. Escape \in Bytes
    BY DEF Bytes
  <2> DEFINE escaped == Append(payload, Escape)
  <2>2. payload \o EscapeOf(byte) = Append(escaped, byte)
    BY <1>6, <2>1 DEF EscapeOf
  <2>3. Unpacked(in_bytes, start, escaped) = TakePair(read, in_bytes, Last(payload), Escape)
    BY <1>3, <2>1, UnpackedAppend
  <2>4. TakePair(read, in_bytes, Last(payload), Escape) = read
    <3>1. Last(payload) # Escape
      BY <1>6
    <3>2. Escape \in {"/", Escape} /\ Escape # "/"
      BY DEF Escape
    <3> QED
      BY <1>1, <3>1, <3>2 DEF TakePair
  <2>5. escaped \in Seq(Bytes) /\ escaped # <<>> /\ Last(escaped) = Escape
    BY <1>4, <2>1
  <2> HIDE DEF escaped
  <2>6. Unpacked(in_bytes, start, Append(escaped, byte)) = TakePair(read, in_bytes, Escape, byte)
    BY <2>3, <2>4, <2>5, UnpackedAppend
  <2>7. TakePair(read, in_bytes, Escape, byte) = Take(read, in_bytes, byte)
    BY <1>1, <1>6 DEF TakePair
  <2> QED
    BY <1>2, <1>4, <2>2, <2>5, <2>6, <2>7
<1> QED
  BY <1>5, <1>6

(* A first byte is taken as what it was.                                        *)
LEMMA TakeFirst ==
  ASSUME NEW in_bytes \in Nat, NEW start \in Nat, start <= in_bytes, NEW byte \in Bytes
  PROVE  LET payload == EscapeOf(byte) IN
         /\ payload \in Seq(Bytes) /\ payload # <<>> /\ Last(payload) = byte
         /\ Unpacked(in_bytes, start, payload) = ReadOf(<<byte>>, start, in_bytes - start)
<1> DEFINE none == [new |-> <<>>, count |-> start, ok |-> TRUE]
<1>1. none = ReadOf(<<>>, start, in_bytes - start)
  <2>1. SubSeq(<<>>, (in_bytes - start) + 1, 0) = <<>>
    BY SubSeqEmpty
  <2>2. Len(<<>>) = 0 /\ start + 0 = start
    OBVIOUS
  <2> QED
    BY <2>1, <2>2, Zenon DEF ReadOf, none
<1>2. Take(none, in_bytes, byte) = ReadOf(<<byte>>, start, in_bytes - start)
  <2>1. <<>> \in Seq(Bytes) /\ Append(<<>>, byte) = <<byte>>
    OBVIOUS
  <2>2. Take(ReadOf(<<>>, start, in_bytes - start), in_bytes, byte)
          = ReadOf(Append(<<>>, byte), start, in_bytes - start)
    BY <2>1, TakeOne
  <2> QED
    BY <1>1, <2>1, <2>2
<1>3. none.ok = TRUE
  OBVIOUS
<1> HIDE DEF none
<1>4. \A b \in Bytes : <<b>> \in Seq(Bytes) /\ <<b>> # <<>> /\ Last(<<b>>) = b
  BY DEF Last
<1>5. CASE byte \notin {"/", Escape}
  <2>1. EscapeOf(byte) = <<byte>>
    BY <1>5 DEF EscapeOf
  <2>2. Unpacked(in_bytes, start, <<byte>>) = Take(none, in_bytes, byte)
    BY <1>5, UnpackedOne DEF FirstRead, none
  <2> QED
    BY <1>2, <1>4, <2>1, <2>2
<1>6. CASE byte \in {"/", Escape}
  <2>1. Escape \in Bytes
    BY DEF Bytes
  <2>2. EscapeOf(byte) = Append(<<Escape>>, byte)
    BY <1>6, <2>1 DEF EscapeOf
  <2>3. Unpacked(in_bytes, start, <<Escape>>) = none
    BY <2>1, UnpackedOne DEF FirstRead, none
  <2>4. Unpacked(in_bytes, start, Append(<<Escape>>, byte)) = TakePair(none, in_bytes, Escape, byte)
    <3> PICK p : p = <<Escape>>
      OBVIOUS
    <3>1. p \in Seq(Bytes) /\ p # <<>> /\ Last(p) = Escape
      BY <1>4, <2>1
    <3>2. Unpacked(in_bytes, start, Append(p, byte))
            = TakePair(Unpacked(in_bytes, start, p), in_bytes, Last(p), byte)
      BY <3>1, UnpackedAppend, Zenon
    <3> QED
      BY <2>3, <3>1, <3>2, Zenon
  <2>5. TakePair(none, in_bytes, Escape, byte) = Take(none, in_bytes, byte)
    BY <1>3, <1>6 DEF TakePair
  <2>6. /\ Append(<<Escape>>, byte) \in Seq(Bytes) /\ Append(<<Escape>>, byte) # <<>>
        /\ Last(Append(<<Escape>>, byte)) = byte
    BY <2>1 DEF Last
  <2> QED
    BY <1>2, <2>2, <2>4, <2>5, <2>6
<1> QED
  BY <1>5, <1>6

(* A payload for bytes without escape pairs is read as these bytes, of which    *)
(* those before in_bytes are only counted.                                      *)
LEMMA UnpackedEscaped ==
  ASSUME NEW in_bytes \in Nat, NEW start \in Nat, start <= in_bytes,
         NEW bytes \in Seq(Bytes), bytes # <<>>, NoPairs(bytes)
  PROVE  /\ Escaped(bytes) \in Seq(Bytes) /\ Escaped(bytes) # <<>>
         /\ Unpacked(in_bytes, start, Escaped(bytes)) = ReadOf(bytes, start, in_bytes - start)
<1> DEFINE Good(s) ==
             /\ Escaped(s) \in Seq(Bytes) /\ Escaped(s) # <<>> /\ Last(Escaped(s)) = Last(s)
             /\ Unpacked(in_bytes, start, Escaped(s)) = ReadOf(s, start, in_bytes - start)
           P == {s \in Seq(Bytes) : s # <<>> /\ NoPairs(s) => Good(s)}
<1>1. <<>> \in P
  <2>1. <<>> \in Seq(Bytes)
    OBVIOUS
  <2> HIDE DEF Good
  <2> QED
    BY <2>1
<1>2. ASSUME NEW s \in Seq(Bytes), NEW b \in Bytes, s \in P PROVE Append(s, b) \in P
  <2>1. Append(s, b) \in Seq(Bytes) /\ Last(Append(s, b)) = b
    BY DEF Last
  <2>2. Escaped(Append(s, b)) = Escaped(s) \o EscapeOf(b)
    BY EscapedAppend
  <2>3. ASSUME NoPairs(Append(s, b)) PROVE Good(Append(s, b))
    <3>1. CASE s = <<>>
      <4>1. EscapeOf(b) \in Seq(Bytes) /\ Append(s, b) = <<b>>
        <5>1. Append(<<>>, b) = <<b>>
          OBVIOUS
        <5>2. EscapeOf(b) \in Seq(Bytes)
          BY TakeFirst, Zenon
        <5> QED
          BY <3>1, <5>1, <5>2
      <4>2. Escaped(Append(s, b)) = EscapeOf(b)
        BY <2>2, <3>1, <4>1, EscapedEmpty
      <4> QED
        BY <2>1, <4>1, <4>2, TakeFirst
    <3>2. CASE s # <<>>
      <4> PICK n \in Nat : n = Len(s) /\ n # 0
        BY <3>2
      <4> DEFINE more == Append(s, b)
      <4>1. Len(more) = n + 1 /\ more[n + 1] = b /\ \A i \in 1 .. n : more[i] = s[i]
        OBVIOUS
      <4>2. NoPairs(more)
        BY <2>3
      <4> HIDE DEF more
      <4>3. \A i \in 1 .. n - 1 : i \in 1 .. n /\ i + 1 \in 1 .. n /\ i \in 1 .. (n + 1) - 1
        OBVIOUS
      <4>4. NoPairs(s)
        BY <4>1, <4>2, <4>3 DEF NoPairs
      <4>5. b \in {"/", Escape} => Last(s) # Escape
        <5>1. n \in 1 .. (n + 1) - 1 /\ n \in 1 .. n
          OBVIOUS
        <5>2. more[n] = Escape => more[n + 1] \notin {"/", Escape}
          BY <4>1, <4>2, <5>1 DEF NoPairs
        <5> QED
          BY <4>1, <5>1, <5>2 DEF Last
      <4>6. Good(s)
        BY <1>2, <3>2, <4>4
      <4>7. LET all == Escaped(s) \o EscapeOf(b) IN
            /\ all \in Seq(Bytes) /\ all # <<>> /\ Last(all) = b
            /\ Unpacked(in_bytes, start, all) = ReadOf(Append(s, b), start, in_bytes - start)
        BY <3>2, <4>5, <4>6, TakeEscaped
      <4> QED
        BY <2>1, <2>2, <4>7
    <3> QED
      BY <3>1, <3>2
  <2> HIDE DEF Good
  <2> QED
    BY <2>1, <2>3
<1> HIDE DEF P
<1>3. bytes \in P
  BY <1>1, <1>2, SeqInduction
<1> QED
  BY <1>3 DEF P

(* A payload with an unescaped "/" is passed over.                              *)
LEMMA UnpackedMalformed ==
  ASSUME NEW in_bytes \in Nat, NEW start \in Nat, NEW payload \in Seq(Bytes),
         NEW j \in 2 .. Len(payload), payload[j] = "/", payload[j - 1] # Escape
  PROVE  ~ Unpacked(in_bytes, start, payload).ok
<1> DEFINE Bad(p) == \E i \in 2 .. Len(p) : p[i] = "/" /\ p[i - 1] # Escape
           P == {p \in Seq(Bytes) : Bad(p) => ~ Unpacked(in_bytes, start, p).ok}
<1>1. <<>> \in P
  <2>1. <<>> \in Seq(Bytes) /\ ~ Bad(<<>>)
    OBVIOUS
  <2> QED
    BY <2>1
<1>2. ASSUME NEW p \in Seq(Bytes), NEW b \in Bytes, p \in P PROVE Append(p, b) \in P
  <2> DEFINE more == Append(p, b)
  <2> PICK n \in Nat : n = Len(p)
    OBVIOUS
  <2>1. /\ more \in Seq(Bytes) /\ Len(more) = n + 1 /\ more[n + 1] = b
        /\ \A i \in 1 .. n : more[i] = p[i]
    OBVIOUS
  <2>2. ASSUME Bad(more) PROVE ~ Unpacked(in_bytes, start, more).ok
    <3> HIDE DEF more
    <3>1. PICK i \in 2 .. n + 1 : more[i] = "/" /\ more[i - 1] # Escape
      BY <2>1, <2>2
    <3>2. p # <<>> /\ n \in 1 .. n
      BY <3>1
    <3>3. Unpacked(in_bytes, start, p) \in Reading
      BY <3>2, UnpackedType
    <3> PICK read \in Reading : read = Unpacked(in_bytes, start, p)
      BY <3>3
    <3>4. Unpacked(in_bytes, start, more) = TakePair(read, in_bytes, Last(p), b)
      BY <3>2, UnpackedAppend DEF more
    <3>5. read.ok \in BOOLEAN
      BY DEF Reading
    <3>6. CASE i = n + 1
      <4>1. b = "/" /\ Last(p) # Escape
        <5>1. (n + 1) - 1 = n
          OBVIOUS
        <5> QED
          BY <2>1, <3>1, <3>2, <3>6, <5>1 DEF Last
      <4>2. "/" # Escape
        BY DEF Escape
      <4> QED
        BY <3>4, <3>5, <4>1, <4>2 DEF TakePair, Reading
    <3>7. CASE i # n + 1
      <4>1. i \in 2 .. n /\ i \in 1 .. n /\ i - 1 \in 1 .. n
        BY <3>7
      <4>2. Bad(p)
        BY <2>1, <3>1, <4>1
      <4>3. ~ read.ok
        BY <1>2, <4>2
      <4>4. TakePair(read, in_bytes, Last(p), b) = read
        BY <4>3 DEF TakePair
      <4> QED
        BY <3>4, <4>3, <4>4
    <3> QED
      BY <3>6, <3>7
  <2> HIDE DEF Bad
  <2> QED
    BY <2>1, <2>2
<1>3. payload \in P
  <2> HIDE DEF P
  <2> QED
    BY <1>1, <1>2, SeqInduction
<1>4. Bad(payload)
  OBVIOUS
<1> QED
  BY <1>3, <1>4

--------------------------------------------------------------------------------
(* The inductive invariant. *)

(* An id is routed to a session of its own, and to the one that runs, if any.   *)
Routes ==
  /\ \A id \in Ids : clients[id] # 0 => clients[id] \in 1 .. opened /\ owner[clients[id]] = id
  /\ \A k \in alive : clients[owner[k]] = k

(* While a response is queued, its id is routed to the session that sent it; a  *)
(* close is the last that a session sends.                                      *)
Queue ==
  \A i \in 1 .. Len(responses) :
    /\ clients[responses[i].id] = responses[i].from
    /\ responses[i].type = "close" =>
         /\ responses[i].from \notin alive
         /\ \A j \in i + 1 .. Len(responses) : responses[j].id # responses[i].id

(* What is not acknowledged can be listed to be sent again.                     *)
FewUnacknowledged == \A k \in Sessions : IsFiniteSet(lr[k].current_out)

LineIInv == TypeOK /\ Routes /\ Queue /\ FewUnacknowledged

--------------------------------------------------------------------------------
(* What arrives and what is sent has the right type. *)

(* Some order of a finite set is a sequence of its elements.                    *)
LEMMA SetToSeqType ==
  ASSUME NEW S, NEW T \in SUBSET S, IsFiniteSet(T)
  PROVE  /\ SetToSeq(T) \in Seq(S)
         /\ \A i \in 1 .. Len(SetToSeq(T)) : SetToSeq(T)[i] \in T
<1> PICK n \in Nat : n = Cardinality(T)
  BY FS_CardinalityType
<1>1. \E f \in [1 .. n -> T] : IsInjective(f)
  <2>1. PICK f \in Bijection(1 .. n, T) : TRUE
    BY FS_CardinalityType DEF ExistsBijection
  <2>2. f \in [1 .. n -> T] /\ IsInjective(f)
    BY <2>1 DEF Bijection, Injection, IsInjective
  <2> QED
    BY <2>2
<1>2. SetToSeq(T) \in [1 .. n -> T]
  BY <1>1 DEF SetToSeq
<1>3. Len(SetToSeq(T)) = n /\ SetToSeq(T) \in Seq(T)
  BY <1>2
<1> QED
  BY <1>2, <1>3

(* A sequence that is not empty begins with an element of its type.             *)
LEMMA HeadType ==
  ASSUME NEW S, NEW s \in Seq(S), s # <<>>
  PROVE  s[1] \in S /\ Head(s) \in S
OBVIOUS

(* Whatever a client may send has the type of a packet.                         *)
LEMMA PacketType ==
  ASSUME TypeOK, NEW id \in Ids, NEW pkt \in Packets(id)
  PROVE  pkt \in Packet
<1>1. CASE pkt \in {[type |-> "connect"], [type |-> "close"]}
  BY <1>1 DEF Packet
<1>2. CASE pkt \in {Part(cut[1], cut[2]) : cut \in {c \in Cuts \X Cuts : c[1] < c[2]}}
  <2>1. PICK from \in Cuts, to \in Cuts : from < to /\ pkt = Part(from, to)
    BY <1>2
  <2>2. from \in 0 .. Len(Stream) /\ to \in 0 .. Len(Stream) /\ Stream \in Seq(Bytes)
    BY LineAssumption
  <2>3. SubSeq(Stream, from + 1, to) \in Seq(Bytes)
    BY <2>2
  <2>4. Escaped(SubSeq(Stream, from + 1, to)) \in Seq(Bytes)
    BY <2>3, EscapedType
  <2>5. from \in Nat
    BY <2>2
  <2> QED
    BY <2>1, <2>4, <2>5 DEF Part, Data, Packet
<1>3. CASE pkt \in {Data(n.count, n.payload) : n \in Noise}
  BY <1>3, LineAssumption DEF Data, Packet
<1>4. CASE pkt \in {[type |-> "ack", count |-> EndOf(d)] : d \in wire[id]}
  <2>1. PICK d \in wire[id] : pkt = [type |-> "ack", count |-> EndOf(d)]
    BY <1>4
  <2>2. d \in DataPacket
    BY DEF TypeOK
  <2>3. EndOf(d) \in Nat
    BY <2>2 DEF DataPacket, EndOf
  <2> QED
    BY <2>1, <2>3 DEF Packet
<1> QED
  BY <1>1, <1>2, <1>3, <1>4 DEF Packets

(* The three responses of a session.                                            *)
LEMMA ResponseTypes ==
  ASSUME TypeOK, NEW k \in Sessions
  PROVE  /\ owner[k] \in Ids
         /\ \A count \in Nat : Ack(k, count) \in Response
         /\ \A data \in DataPacket : DataOf(k, data) \in Response
         /\ Close(k) \in Response
<1>1. owner[k] \in Ids
  BY DEF TypeOK
<1> QED
  BY <1>1 DEF Ack, DataOf, Close, Response

(* A response that a session sends while it runs, but no close.                 *)
Speaks(k, r) == r.id = owner[k] /\ r.from = k /\ r.type # "close"

--------------------------------------------------------------------------------
(* What several actions have in common. *)

(* Session k runs, and sends more responses but no close.                       *)
LEMMA RunningSessionSends ==
  ASSUME LineIInv, NEW k \in alive, NEW more \in Seq(Response),
         \A i \in 1 .. Len(more) : Speaks(k, more[i]),
         responses' = responses \o more, UNCHANGED <<clients, opened, owner, alive>>
  PROVE  responses' \in Seq(Response) /\ Queue' /\ Routes'
<1> USE DEF LineIInv
<1> PICK n \in Nat : n = Len(responses)
  BY DEF TypeOK
<1> PICK m \in Nat : m = Len(more)
  OBVIOUS
<1>1. responses \in Seq(Response)
  BY DEF TypeOK
<1>2. /\ responses' \in Seq(Response) /\ Len(responses') = n + m
      /\ \A i \in 1 .. n + m : responses'[i] = IF i <= n THEN responses[i] ELSE more[i - n]
  BY <1>1, ConcatProperties
<1>3. \A i \in 1 .. n : responses'[i] = responses[i]
  BY <1>2
<1>4. \A i \in 1 .. n + m : i \in 1 .. n \/ (i \notin 1 .. n /\ Speaks(k, responses'[i]))
  <2>1. \A i \in 1 .. n + m : i \in 1 .. n \/ (~ (i <= n) /\ i - n \in 1 .. m)
    OBVIOUS
  <2> QED
    BY <1>2, <2>1
<1>5. clients[owner[k]] = k
  BY DEF Routes
<1>6. ASSUME NEW i \in 1 .. n, responses[i].type = "close"
      PROVE  responses[i].id # owner[k]
  BY <1>5, <1>6, ZenonT(40) DEF Queue
<1>7. Queue'
  <2>1. ASSUME NEW i \in 1 .. n + m
        PROVE  clients[responses'[i].id] = responses'[i].from
    BY <1>3, <1>4, <1>5 DEF Queue, Speaks
  <2>2. ASSUME NEW i \in 1 .. n + m, responses'[i].type = "close"
        PROVE  /\ responses'[i].from \notin alive
               /\ \A j \in i + 1 .. n + m : responses'[j].id # responses'[i].id
    <3>1. i \in 1 .. n /\ responses[i].type = "close" /\ responses'[i] = responses[i]
      BY <1>3, <1>4, <2>2 DEF Speaks
    <3>2. /\ responses[i].from \notin alive
          /\ \A j \in i + 1 .. n : responses[j].id # responses[i].id
      BY <3>1 DEF Queue
    <3>3. ASSUME NEW j \in i + 1 .. n + m PROVE responses'[j].id # responses[i].id
      <4>1. j \in 1 .. n + m
        OBVIOUS
      <4>2. CASE j \in 1 .. n
        BY <1>3, <3>2, <4>2
      <4>3. CASE j \notin 1 .. n
        BY <1>4, <1>6, <3>1, <4>1, <4>3 DEF Speaks
      <4> QED
        BY <4>2, <4>3
    <3> QED
      BY <3>1, <3>2, <3>3
  <2> QED
    BY <1>2, <2>1, <2>2 DEF Queue
<1> QED
  BY <1>2, <1>7 DEF Routes

(* The task of session k returns.                                               *)
LEMMA SessionEnds ==
  ASSUME LineIInv, NEW k \in alive, Ends(k)
  PROVE  LineIInv'
<1> USE DEF LineIInv
<1> PICK n \in Nat : n = Len(responses)
  BY DEF TypeOK
<1>1. k \in Sessions /\ k \in 1 .. opened
  BY LineAssumption DEF TypeOK, Sessions
<1>2. /\ responses' = Append(responses, Close(k)) /\ alive' = alive \ {k}
      /\ rx' = [rx EXCEPT ![k] = <<>>]
      /\ lr' = [lr EXCEPT ![k] = NewReverser]
      /\ timers' = [timers EXCEPT ![k] = {}]
      /\ UNCHANGED <<clients, in_hand, opened, owner, wire>>
  BY DEF Ends, mainVars
<1>3. /\ responses' \in Seq(Response) /\ Len(responses') = n + 1
      /\ \A i \in 1 .. n : responses'[i] = responses[i]
      /\ responses'[n + 1] = Close(k)
  <2>1. responses \in Seq(Response) /\ Close(k) \in Response
    BY <1>1, ResponseTypes DEF TypeOK
  <2> QED
    BY <1>2, <2>1, AppendProperties
<1>4. \A i \in 1 .. n + 1 : i \in 1 .. n \/ i = n + 1
  OBVIOUS
<1>5. clients[owner[k]] = k
  BY DEF Routes
<1>6. TypeOK'
  <2>1. NewReverser \in [buffer : Seq(Bytes), in_bytes : Nat, out_bytes : Nat,
                         current_out : SUBSET DataPacket]
    BY DEF NewReverser
  <2>2. rx' \in [Sessions -> Seq(Packet)] /\ \A l \in Sessions : Len(rx'[l]) <= ChanSize
    <3>1. \A l \in Sessions : rx'[l] = rx[l] \/ rx'[l] = <<>>
      BY <1>2 DEF TypeOK
    <3>2. <<>> \in Seq(Packet) /\ Len(<<>>) <= ChanSize
      BY LineAssumption
    <3>3. rx' \in [Sessions -> Seq(Packet)]
      BY <1>2, <3>2 DEF TypeOK
    <3> QED
      BY <3>1, <3>2, <3>3 DEF TypeOK
  <2>3. lr' \in [Sessions -> [buffer : Seq(Bytes), in_bytes : Nat, out_bytes : Nat,
                              current_out : SUBSET DataPacket]]
    BY <1>2, <2>1 DEF TypeOK
  <2>4. timers' \in [Sessions -> SUBSET Nat]
    BY <1>2 DEF TypeOK
  <2> QED
    BY <1>2, <1>3, <2>2, <2>3, <2>4 DEF TypeOK
<1>7. Routes'
  BY <1>2 DEF Routes
<1>8. Queue'
  <2>1. ASSUME NEW i \in 1 .. n + 1
        PROVE  clients[responses'[i].id] = responses'[i].from
    BY <1>3, <1>4, <1>5 DEF Queue, Close
  <2>2. ASSUME NEW i \in 1 .. n + 1, responses'[i].type = "close"
        PROVE  /\ responses'[i].from \notin alive'
               /\ \A j \in i + 1 .. n + 1 : responses'[j].id # responses'[i].id
    <3>1. CASE i = n + 1
      <4>1. i + 1 .. n + 1 = {}
        BY <3>1
      <4> QED
        BY <1>2, <1>3, <3>1, <4>1 DEF Close
    <3>2. CASE i \in 1 .. n
      <4>1. /\ responses[i].from \notin alive
            /\ \A j \in i + 1 .. n : responses[j].id # responses[i].id
        BY <1>3, <2>2, <3>2 DEF Queue
      <4>2. responses[i].id # owner[k]
        BY <1>5, <3>2, <4>1 DEF Queue
      <4>3. \A j \in i + 1 .. n + 1 : (j \in i + 1 .. n /\ j \in 1 .. n) \/ j = n + 1
        BY <3>2
      <4> QED
        BY <1>2, <1>3, <3>2, <4>1, <4>2, <4>3 DEF Close
    <3> QED
      BY <1>4, <3>1, <3>2
  <2> QED
    BY <1>2, <1>3, <2>1, <2>2 DEF Queue
<1>9. FewUnacknowledged'
  <2>1. IsFiniteSet({})
    BY FS_EmptySet
  <2>2. \A l \in Sessions : lr'[l].current_out = {} \/ lr'[l] = lr[l]
    BY <1>2 DEF TypeOK, NewReverser
  <2> QED
    BY <2>1, <2>2 DEF FewUnacknowledged
<1> QED
  BY <1>6, <1>7, <1>8, <1>9

--------------------------------------------------------------------------------
(* The main task keeps the invariant. *)

(* The main task: a packet for a session that there is, a new session, the      *)
(* packet that waited for room, and a response.                                 *)
LEMMA RoutePacketKeeps ==
  ASSUME LineIInv, NEW id \in Ids, NEW pkt \in Packets(id), RoutePacket(id, pkt)
  PROVE  LineIInv'
<1> USE DEF LineIInv
<1>1. /\ clients[id] # 0 /\ in_hand' = <<[to |-> clients[id], pkt |-> pkt]>>
      /\ UNCHANGED <<clients, opened, owner, wire, alive, rx, lr, timers, responses>>
  BY DEF RoutePacket
<1>2. clients[id] \in Sessions /\ pkt \in Packet
  <2>1. clients[id] \in 0 .. MaxSessions /\ clients[id] # 0
    BY <1>1 DEF TypeOK
  <2>2. pkt \in Packet
    BY PacketType
  <2> QED
    BY <2>1, <2>2, LineAssumption DEF Sessions
<1>3. TypeOK'
  BY <1>1, <1>2 DEF TypeOK
<1> QED
  BY <1>1, <1>3 DEF Routes, Queue, FewUnacknowledged

LEMMA OpenSessionKeeps ==
  ASSUME LineIInv, NEW id \in Ids, OpenSession(id)
  PROVE  LineIInv'
<1> USE DEF LineIInv
<1> PICK n \in Nat : n = opened + 1
  BY LineAssumption DEF TypeOK
<1>1. /\ clients[id] = 0 /\ opened < MaxSessions
      /\ opened' = n /\ clients' = [clients EXCEPT ![id] = n]
      /\ owner' = [owner EXCEPT ![n] = id] /\ alive' = alive \cup {n}
      /\ UNCHANGED <<in_hand, wire, rx, lr, timers, responses>>
  BY DEF OpenSession
<1>2. /\ opened \in Nat /\ n \in Sessions /\ n \in 0 .. MaxSessions /\ n \in 1 .. n
      /\ n \notin 1 .. opened /\ n # 0
  BY <1>1, LineAssumption DEF TypeOK, Sessions
<1>3. \A k \in 1 .. opened : k \in Sessions /\ k \in 1 .. n /\ k # n
  BY <1>2, LineAssumption DEF TypeOK, Sessions
<1>4. TypeOK'
  <2>1. clients' \in [Ids -> 0 .. MaxSessions] /\ owner' \in [Sessions -> Ids]
    BY <1>1, <1>2 DEF TypeOK
  <2>2. alive' \subseteq 1 .. n
    BY <1>1, <1>2, <1>3 DEF TypeOK
  <2> QED
    BY <1>1, <1>2, <2>1, <2>2 DEF TypeOK
<1>5. Routes'
  <2>1. ASSUME NEW other \in Ids, clients'[other] # 0
        PROVE  clients'[other] \in 1 .. n /\ owner'[clients'[other]] = other
    <3>1. CASE other = id
      BY <1>1, <1>2, <3>1 DEF TypeOK
    <3>2. CASE other # id
      BY <1>1, <1>3, <2>1, <3>2 DEF TypeOK, Routes
    <3> QED
      BY <3>1, <3>2
  <2>2. ASSUME NEW k \in alive' PROVE clients'[owner'[k]] = k
    <3>1. CASE k = n
      BY <1>1, <1>2, <3>1 DEF TypeOK
    <3>2. CASE k # n
      <4>1. k \in alive /\ k \in 1 .. opened /\ k \in Sessions /\ clients[owner[k]] = k
        BY <1>1, <1>3, <3>2 DEF TypeOK, Routes
      <4>2. owner[k] \in Ids /\ owner[k] # id
        BY <1>1, <4>1 DEF TypeOK
      <4> QED
        BY <1>1, <3>2, <4>1, <4>2 DEF TypeOK
    <3> QED
      BY <3>1, <3>2
  <2> QED
    BY <1>1, <2>1, <2>2 DEF Routes
<1>6. Queue'
  <2>1. ASSUME NEW i \in 1 .. Len(responses)
        PROVE  /\ responses[i].id \in Ids /\ responses[i].id # id
               /\ responses[i].from \in 1 .. opened
    <3>1. responses[i].id \in Ids /\ responses[i].from \in Sessions
      BY SMTT(40) DEF TypeOK, Response
    <3>2. clients[responses[i].id] = responses[i].from /\ responses[i].from # 0
      BY <3>1 DEF Queue, Sessions
    <3> QED
      BY <1>1, <3>1, <3>2 DEF Routes
  <2>2. ASSUME NEW i \in 1 .. Len(responses)
        PROVE  /\ clients'[responses[i].id] = clients[responses[i].id]
               /\ responses[i].from \in alive' => responses[i].from \in alive
    BY <1>1, <1>2, <2>1 DEF TypeOK
  <2> QED
    BY <1>1, <2>2 DEF Queue
<1> QED
  BY <1>1, <1>4, <1>5, <1>6 DEF FewUnacknowledged

LEMMA SendPacketKeeps ==
  ASSUME LineIInv, SendPacket
  PROVE  LineIInv'
<1> USE DEF LineIInv
<1> DEFINE k == in_hand[1].to
           pkt == in_hand[1].pkt
<1>1. /\ in_hand # <<>> /\ in_hand' = <<>>
      /\ IF k \in alive THEN Len(rx[k]) < ChanSize /\ rx' = [rx EXCEPT ![k] = Append(@, pkt)]
                        ELSE UNCHANGED rx
      /\ UNCHANGED <<clients, opened, owner, wire, alive, lr, timers, responses>>
  BY DEF SendPacket, Nothing
<1>2. k \in Sessions /\ pkt \in Packet
  <2>1. in_hand[1] \in [to : Sessions, pkt : Packet]
    <3>1. in_hand \in Seq([to : Sessions, pkt : Packet])
      BY DEF TypeOK
    <3> QED
      BY <1>1, <3>1, HeadType
  <2> QED
    BY <2>1
<1> HIDE DEF k, pkt
<1>3. rx' \in [Sessions -> Seq(Packet)] /\ \A l \in Sessions : Len(rx'[l]) <= ChanSize
  <2>1. CASE k \notin alive
    BY <1>1, <2>1 DEF TypeOK
  <2>2. CASE k \in alive
    <3>1. rx[k] \in Seq(Packet)
      BY <1>2 DEF TypeOK
    <3>2. Append(rx[k], pkt) \in Seq(Packet) /\ Len(Append(rx[k], pkt)) = Len(rx[k]) + 1
      BY <1>2, <3>1, AppendProperties
    <3>3. Len(Append(rx[k], pkt)) <= ChanSize
      BY <1>1, <2>2, <3>1, <3>2, LineAssumption
    <3>4. rx' = [rx EXCEPT ![k] = Append(rx[k], pkt)]
      BY <1>1, <2>2
    <3>5. rx' \in [Sessions -> Seq(Packet)]
      BY <3>2, <3>4 DEF TypeOK
    <3>6. \A l \in Sessions : rx'[l] = rx[l] \/ rx'[l] = Append(rx[k], pkt)
      BY <3>4 DEF TypeOK
    <3> QED
      BY <3>3, <3>5, <3>6 DEF TypeOK
  <2> QED
    BY <2>1, <2>2
<1>4. TypeOK'
  BY <1>1, <1>3, SMTT(40) DEF TypeOK
<1> QED
  BY <1>1, <1>4 DEF Routes, Queue, FewUnacknowledged

LEMMA RespondKeeps ==
  ASSUME LineIInv, Respond
  PROVE  LineIInv'
<1> USE DEF LineIInv
<1> DEFINE r == Head(responses)
<1> PICK n \in Nat : n = Len(responses)
  BY DEF TypeOK
<1>1. /\ responses # <<>> /\ responses' = Tail(responses)
      /\ wire' = IF clients[r.id] # 0 /\ r.type = "data"
                 THEN [wire EXCEPT ![r.id] = @ \cup {r.data}]
                 ELSE wire
      /\ clients' = IF r.type = "close" THEN [clients EXCEPT ![r.id] = 0] ELSE clients
      /\ UNCHANGED <<in_hand, opened, owner, alive, rx, lr, timers>>
  BY DEF Respond
<1>2. /\ responses' \in Seq(Response) /\ Len(responses') = n - 1 /\ n # 0
      /\ \A i \in 1 .. n - 1 : responses'[i] = responses[i + 1]
      /\ r = responses[1] /\ r \in Response
  BY <1>1 DEF TypeOK
<1>3. 1 \in 1 .. n /\ \A i \in 1 .. n - 1 : i + 1 \in 1 .. n /\ i + 1 \in 1 + 1 .. n
  BY <1>2
<1>4. r.id \in Ids /\ (r.type = "data" => r.data \in DataPacket)
  BY <1>2 DEF Response
<1>5. clients[r.id] = r.from
  BY <1>2, <1>3 DEF Queue
<1>6. r.type = "close" =>
        r.from \notin alive /\ \A i \in 1 .. n - 1 : responses'[i].id # r.id
  <2>1. r.type = "close" =>
          r.from \notin alive /\ \A j \in 1 + 1 .. n : responses[j].id # r.id
    BY <1>2, <1>3 DEF Queue
  <2> QED
    BY <1>2, <1>3, <2>1
<1> HIDE DEF r
<1>7. TypeOK'
  <2>1. clients' \in [Ids -> 0 .. MaxSessions]
    BY <1>1, <1>4, LineAssumption DEF TypeOK
  <2>2. wire' \in [Ids -> SUBSET DataPacket]
    BY <1>1, <1>4 DEF TypeOK
  <2> QED
    BY <1>1, <1>2, <2>1, <2>2 DEF TypeOK
<1>8. Routes'
  <2>1. CASE r.type # "close"
    BY <1>1, <2>1 DEF Routes
  <2>2. CASE r.type = "close"
    <3>1. \A id \in Ids : clients'[id] = IF id = r.id THEN 0 ELSE clients[id]
      BY <1>1, <1>4, <2>2 DEF TypeOK
    <3>2. ASSUME NEW k \in alive PROVE owner[k] \in Ids /\ owner[k] # r.id
      <4>1. k \in Sessions /\ clients[owner[k]] = k
        BY LineAssumption DEF TypeOK, Routes, Sessions
      <4> QED
        BY <1>5, <1>6, <2>2, <4>1 DEF TypeOK
    <3> QED
      BY <1>1, <3>1, <3>2 DEF Routes
  <2> QED
    BY <2>1, <2>2
<1>9. Queue'
  <2>1. ASSUME NEW i \in 1 .. n - 1
        PROVE  clients'[responses'[i].id] = responses'[i].from
    <3>1. responses'[i].id \in Ids
      BY <1>2 DEF Response
    <3>2. clients'[responses'[i].id] = clients[responses'[i].id]
      BY <1>1, <1>4, <1>6, <3>1 DEF TypeOK
    <3> QED
      BY <1>2, <1>3, <3>2 DEF Queue
  <2>2. ASSUME NEW i \in 1 .. n - 1, responses'[i].type = "close"
        PROVE  /\ responses'[i].from \notin alive
               /\ \A j \in i + 1 .. n - 1 : responses'[j].id # responses'[i].id
    <3>1. /\ responses[i + 1].from \notin alive
          /\ \A j \in (i + 1) + 1 .. n : responses[j].id # responses[i + 1].id
      BY <1>2, <1>3, <2>2 DEF Queue
    <3>2. \A j \in i + 1 .. n - 1 : j \in 1 .. n - 1 /\ j + 1 \in (i + 1) + 1 .. n
      OBVIOUS
    <3> QED
      BY <1>2, <3>1, <3>2
  <2> QED
    BY <1>1, <1>2, <2>1, <2>2 DEF Queue
<1> QED
  BY <1>1, <1>7, <1>8, <1>9 DEF FewUnacknowledged

--------------------------------------------------------------------------------
(* The task of a session keeps the invariant. *)

(* A packet that is taken is the first of the channel.                          *)
LEMMA TakenPacket ==
  ASSUME TypeOK, NEW k, NEW type, Receives(k, type), Taken(k)
  PROVE  /\ k \in Sessions /\ k \in alive
         /\ Head(rx[k]) \in Packet /\ Head(rx[k]).type = type
         /\ rx' \in [Sessions -> Seq(Packet)]
         /\ \A l \in Sessions : Len(rx'[l]) <= ChanSize
<1>1. k \in alive /\ k \in Sessions
  BY LineAssumption DEF Receives, TypeOK, Sessions
<1> PICK n \in Nat : n = Len(rx[k])
  BY <1>1 DEF TypeOK
<1>2. rx[k] \in Seq(Packet) /\ rx[k] # <<>> /\ n <= ChanSize
  BY <1>1 DEF TypeOK, Receives
<1>3. Head(rx[k]) \in Packet /\ Tail(rx[k]) \in Seq(Packet) /\ Len(Tail(rx[k])) = n - 1
  BY <1>2
<1>4. rx' = [rx EXCEPT ![k] = Tail(rx[k])]
  BY DEF Taken
<1>5. \A l \in Sessions : rx'[l] = rx[l] \/ rx'[l] = Tail(rx[k])
  BY <1>4 DEF TypeOK
<1>6. rx' \in [Sessions -> Seq(Packet)]
  BY <1>3, <1>4 DEF TypeOK
<1>7. n - 1 <= ChanSize
  BY <1>2, LineAssumption
<1>8. \A l \in Sessions : Len(rx'[l]) <= ChanSize
  BY <1>3, <1>5, <1>7 DEF TypeOK
<1> QED
  BY <1>1, <1>3, <1>6, <1>8 DEF Receives

(* What each kind of packet makes a session do.                                 *)
LEMMA HandleConnectKeeps ==
  ASSUME LineIInv, NEW k, HandleConnect(k)
  PROVE  LineIInv'
<1> USE DEF LineIInv
<1>1. /\ Receives(k, "connect") /\ Taken(k)
      /\ responses' = Append(responses, Ack(k, 0))
      /\ UNCHANGED <<clients, in_hand, opened, owner, wire, alive, lr, timers>>
  BY DEF HandleConnect, mainVars
<1>2. /\ k \in Sessions /\ k \in alive
      /\ rx' \in [Sessions -> Seq(Packet)] /\ \A l \in Sessions : Len(rx'[l]) <= ChanSize
  BY <1>1, TakenPacket
<1>3. Ack(k, 0) \in Response /\ Speaks(k, Ack(k, 0))
  BY <1>2, ResponseTypes DEF Ack, Speaks
<1> DEFINE more == <<Ack(k, 0)>>
<1>4. more \in Seq(Response) /\ \A i \in 1 .. Len(more) : Speaks(k, more[i])
  BY <1>3
<1>5. responses' = responses \o more
  BY <1>1, <1>3 DEF TypeOK
<1> HIDE DEF more
<1>6. responses' \in Seq(Response) /\ Queue' /\ Routes'
  BY <1>1, <1>2, <1>4, <1>5, RunningSessionSends
<1>7. TypeOK'
  BY <1>1, <1>2, <1>6 DEF TypeOK
<1> QED
  BY <1>1, <1>6, <1>7 DEF FewUnacknowledged

LEMMA HandleAckKeeps ==
  ASSUME LineIInv, NEW k, HandleAck(k)
  PROVE  LineIInv'
<1> USE DEF LineIInv
<1> DEFINE count == Head(rx[k]).count
           acked == {d \in lr[k].current_out : EndOf(d) = count}
<1>1. Receives(k, "ack") /\ k \in alive
  BY DEF HandleAck, Receives
<1>2. CASE Ends(k)
  BY <1>1, <1>2, SessionEnds
<1>3. CASE /\ lr' = [lr EXCEPT ![k].current_out = @ \ acked]
           /\ Taken(k)
           /\ UNCHANGED <<mainVars, alive, timers, responses>>
  <2>1. /\ k \in Sessions
        /\ rx' \in [Sessions -> Seq(Packet)] /\ \A l \in Sessions : Len(rx'[l]) <= ChanSize
    BY <1>1, <1>3, TakenPacket
  <2>2. UNCHANGED <<clients, in_hand, opened, owner, wire, alive, timers, responses>>
    BY <1>3 DEF mainVars
  <2> HIDE DEF acked
  <2>3. lr' \in [Sessions -> [buffer : Seq(Bytes), in_bytes : Nat, out_bytes : Nat,
                              current_out : SUBSET DataPacket]]
    BY <1>3, <2>1 DEF TypeOK
  <2>4. TypeOK'
    BY <2>1, <2>2, <2>3 DEF TypeOK
  <2>5. FewUnacknowledged'
    <3>1. IsFiniteSet(lr[k].current_out \ acked)
      BY <2>1, FS_Difference DEF FewUnacknowledged
    <3>2. \A l \in Sessions : \/ lr'[l].current_out = lr[l].current_out
                              \/ lr'[l].current_out = lr[k].current_out \ acked
      BY <1>3, <2>1 DEF TypeOK
    <3> QED
      BY <3>1, <3>2 DEF FewUnacknowledged
  <2> QED
    BY <2>2, <2>4, <2>5 DEF Routes, Queue
<1> QED
  BY <1>2, <1>3 DEF HandleAck

(* What a session sends after it has read something new.                        *)
LEMMA ReadNewKeeps ==
  ASSUME LineIInv, NEW k \in alive, NEW read \in Reading, ReadNew(k, read), Taken(k),
         UNCHANGED <<mainVars, alive>>,
         rx' \in [Sessions -> Seq(Packet)], \A l \in Sessions : Len(rx'[l]) <= ChanSize
  PROVE  LineIInv'
<1> USE DEF LineIInv
<1> DEFINE cut == Cut(lr[k].buffer \o read.new)
           datas == DataResponses(cut.lines, lr[k].out_bytes, Room)
           sent == [i \in 1 .. Len(datas) |-> DataOf(k, datas[i])]
           more == <<Ack(k, read.count)>> \o sent
<1>1. k \in Sessions /\ lr[k].buffer \in Seq(Bytes) /\ lr[k].out_bytes \in Nat
      /\ lr[k].current_out \in SUBSET DataPacket
  <2>1. opened \in 0 .. MaxSessions /\ k \in 1 .. opened
    BY DEF TypeOK
  <2>2. k \in Sessions
    BY <2>1, LineAssumption DEF Sessions
  <2>3. lr[k] \in [buffer : Seq(Bytes), in_bytes : Nat, out_bytes : Nat,
                    current_out : SUBSET DataPacket]
    BY <2>2 DEF TypeOK
  <2> QED
    BY <2>2, <2>3
<1>2. read.new \in Seq(Bytes) /\ read.count \in Nat
  BY DEF Reading
<1>3. cut \in Cutting
  <2>1. lr[k].buffer \o read.new \in Seq(Bytes)
    BY <1>1, <1>2
  <2> QED
    BY <2>1, CutType
<1>4. cut.lines \in Seq(Seq(Bytes)) /\ cut.rest \in Seq(Bytes)
  BY <1>3 DEF Cutting
<1>5. /\ lr' = [lr EXCEPT ![k] =
                  [buffer |-> cut.rest,
                   in_bytes |-> read.count,
                   out_bytes |-> lr[k].out_bytes + Len(FlattenSeq(cut.lines)),
                   current_out |-> lr[k].current_out \cup ToSet(datas)]]
      /\ timers' = [timers EXCEPT ![k] = @ \cup {EndOf(d) : d \in ToSet(datas)}]
      /\ responses' = (responses \o <<Ack(k, read.count)>>) \o sent
  BY DEF ReadNew
<1> HIDE DEF cut
<1>6. datas \in Seq(DataPacket)
  BY <1>1, <1>4, DataResponsesType
<1> HIDE DEF datas
<1>7. /\ ToSet(datas) \in SUBSET DataPacket /\ IsFiniteSet(ToSet(datas))
      /\ {EndOf(d) : d \in ToSet(datas)} \in SUBSET Nat
  <2>1. ToSet(datas) \in SUBSET DataPacket
    BY <1>6 DEF ToSet
  <2>2. IsFiniteSet(ToSet(datas))
    <3>1. IsFiniteSet(1 .. Len(datas))
      BY <1>6, FS_Interval
    <3>2. DOMAIN datas = 1 .. Len(datas)
      BY <1>6
    <3> DEFINE f == [i \in 1 .. Len(datas) |-> datas[i]]
    <3>3. f \in Surjection(1 .. Len(datas), ToSet(datas))
      BY <3>2 DEF ToSet, Surjection
    <3> HIDE DEF f
    <3> QED
      BY <3>1, <3>3, FS_Surjection
  <2>3. \A d \in DataPacket : EndOf(d) \in Nat
    BY DEF DataPacket, EndOf
  <2> QED
    BY <2>1, <2>2, <2>3
<1>8. more \in Seq(Response) /\ \A i \in 1 .. Len(more) : Speaks(k, more[i])
  <2>1. Ack(k, read.count) \in Response /\ Speaks(k, Ack(k, read.count))
    BY <1>1, <1>2, ResponseTypes DEF Ack, Speaks
  <2>2. \A i \in 1 .. Len(datas) :
          DataOf(k, datas[i]) \in Response /\ Speaks(k, DataOf(k, datas[i]))
    BY <1>1, <1>6, ResponseTypes DEF DataOf, Speaks
  <2>3. /\ sent \in Seq(Response) /\ Len(sent) = Len(datas)
        /\ \A i \in 1 .. Len(datas) : Speaks(k, sent[i])
    BY <1>6, <2>2
  <2> HIDE DEF sent
  <2> PICK n \in Nat : n = Len(datas)
    BY <1>6
  <2> DEFINE ack == <<Ack(k, read.count)>>
  <2>4. ack \in Seq(Response) /\ Len(ack) = 1 /\ Speaks(k, ack[1])
    BY <2>1
  <2> HIDE DEF ack
  <2>5. /\ more \in Seq(Response) /\ Len(more) = 1 + n
        /\ \A i \in 1 .. 1 + n : more[i] = IF i <= 1 THEN ack[i] ELSE sent[i - 1]
    BY <2>3, <2>4, ConcatProperties DEF ack
  <2>6. \A i \in 1 .. 1 + n : i = 1 \/ (~ (i <= 1) /\ i - 1 \in 1 .. n)
    OBVIOUS
  <2> QED
    BY <2>3, <2>4, <2>5, <2>6
<1>9. responses' = responses \o more
  <2>1. <<Ack(k, read.count)>> \in Seq(Response)
    BY <1>1, <1>2, ResponseTypes
  <2>2. sent \in Seq(Response)
    BY <1>1, <1>6, ResponseTypes
  <2>3. responses \in Seq(Response)
    BY DEF TypeOK
  <2> QED
    BY <1>5, <2>1, <2>2, <2>3, ConcatAssociative
<1> HIDE DEF more, sent
<1>10. UNCHANGED <<clients, in_hand, opened, owner, wire>>
  BY DEF mainVars
<1>11. responses' \in Seq(Response) /\ Queue' /\ Routes'
  BY <1>8, <1>9, <1>10, RunningSessionSends
<1>12. lr' \in [Sessions -> [buffer : Seq(Bytes), in_bytes : Nat, out_bytes : Nat,
                             current_out : SUBSET DataPacket]]
  <2>1. FlattenSeq(cut.lines) \in Seq(Bytes)
    BY <1>4, FlattenType
  <2>2. lr[k].out_bytes + Len(FlattenSeq(cut.lines)) \in Nat
    BY <1>1, <2>1
  <2>3. lr[k].current_out \cup ToSet(datas) \in SUBSET DataPacket
    BY <1>1, <1>7
  <2> QED
    BY <1>2, <1>4, <1>5, <2>2, <2>3 DEF TypeOK
<1>13. timers' \in [Sessions -> SUBSET Nat]
  BY <1>1, <1>5, <1>7 DEF TypeOK
<1>14. TypeOK'
  BY <1>10, <1>11, <1>12, <1>13 DEF TypeOK
<1>15. FewUnacknowledged'
  <2>1. IsFiniteSet(lr[k].current_out \cup ToSet(datas))
    BY <1>1, <1>7, FS_Union DEF FewUnacknowledged
  <2>2. \A l \in Sessions : \/ lr'[l].current_out = lr[l].current_out
                            \/ lr'[l].current_out = lr[k].current_out \cup ToSet(datas)
    BY <1>1, <1>5 DEF TypeOK
  <2> QED
    BY <2>1, <2>2 DEF FewUnacknowledged
<1> QED
  BY <1>11, <1>14, <1>15

LEMMA HandleDataKeeps ==
  ASSUME LineIInv, NEW k, HandleData(k)
  PROVE  LineIInv'
<1> USE DEF LineIInv
<1> DEFINE pkt == Head(rx[k])
           read == Unpacked(lr[k].in_bytes, pkt.count, pkt.payload)
<1>1. Receives(k, "data") /\ Taken(k) /\ UNCHANGED <<mainVars, alive>>
  BY DEF HandleData
<1>2. /\ k \in Sessions /\ k \in alive
      /\ pkt \in Packet /\ pkt.type = "data"
      /\ rx' \in [Sessions -> Seq(Packet)] /\ \A l \in Sessions : Len(rx'[l]) <= ChanSize
  BY <1>1, TakenPacket
<1>3. UNCHANGED <<clients, in_hand, opened, owner, wire, alive>>
  BY <1>1 DEF mainVars
<1>4. pkt.count \in Nat /\ pkt.payload \in Seq(Bytes) /\ lr[k].in_bytes \in Nat
  BY <1>2 DEF Packet, TypeOK
<1> HIDE DEF pkt
<1>5. CASE /\ responses' = Append(responses, Ack(k, lr[k].in_bytes))
           /\ UNCHANGED <<lr, timers>>
  <2> DEFINE more == <<Ack(k, lr[k].in_bytes)>>
  <2>1. /\ Ack(k, lr[k].in_bytes) \in Response
        /\ Speaks(k, Ack(k, lr[k].in_bytes))
    BY <1>2, <1>4, ResponseTypes DEF Ack, Speaks
  <2>2. more \in Seq(Response) /\ \A i \in 1 .. Len(more) : Speaks(k, more[i])
    BY <2>1
  <2>3. responses' = responses \o more
    BY <1>5, <2>1 DEF TypeOK
  <2> HIDE DEF more
  <2>4. responses' \in Seq(Response) /\ Queue' /\ Routes'
    BY <1>2, <1>3, <2>2, <2>3, RunningSessionSends
  <2>5. TypeOK'
    BY <1>2, <1>3, <1>5, <2>4 DEF TypeOK
  <2> QED
    BY <1>5, <2>4, <2>5 DEF FewUnacknowledged
<1>6. CASE ReadNew(k, read) /\ pkt.count + Len(pkt.payload) > lr[k].in_bytes
           /\ pkt.count <= lr[k].in_bytes
  <2>1. pkt.payload # <<>>
    <3>1. pkt.payload = <<>> => Len(pkt.payload) = 0
      OBVIOUS
    <3> QED
      BY <1>4, <1>6, <3>1
  <2>2. read \in Reading
    BY <1>4, <2>1, UnpackedType
  <2> HIDE DEF read
  <2> QED
    BY <1>1, <1>2, <1>6, <2>2, ReadNewKeeps
<1>7. CASE UNCHANGED <<lr, timers, responses>>
  <2>1. TypeOK'
    BY <1>2, <1>3, <1>7 DEF TypeOK
  <2> QED
    BY <1>3, <1>7, <2>1 DEF Routes, Queue, FewUnacknowledged
<1> QED
  BY <1>5, <1>6, <1>7 DEF HandleData, pkt

(* The timers: data is sent again, or the session has waited for too long.      *)
LEMMA ExpireKeeps ==
  ASSUME LineIInv, NEW k \in Sessions, NEW count \in timers[k], Expire(k, count)
  PROVE  LineIInv'
<1> USE DEF LineIInv
<1> DEFINE due == {d \in lr[k].current_out : EndOf(d) = count}
           again == {DataOf(k, d) : d \in due}
           more == SetToSeq(again)
<1>1. /\ k \in alive
      /\ responses' = responses \o more
      /\ timers' = IF due = {} THEN [timers EXCEPT ![k] = @ \ {count}] ELSE timers
      /\ UNCHANGED <<clients, in_hand, opened, owner, wire, alive, rx, lr>>
  BY DEF Expire, mainVars
<1>2. due \in SUBSET DataPacket /\ IsFiniteSet(due)
  <2>1. due \subseteq lr[k].current_out /\ IsFiniteSet(lr[k].current_out)
    BY DEF FewUnacknowledged
  <2>2. lr[k].current_out \subseteq DataPacket
    BY DEF TypeOK
  <2> HIDE DEF due
  <2> QED
    BY <2>1, <2>2, FS_Subset
<1> HIDE DEF due
<1>3. again \in SUBSET Response /\ IsFiniteSet(again) /\ \A r \in again : Speaks(k, r)
  <2>1. \A d \in due : DataOf(k, d) \in Response /\ Speaks(k, DataOf(k, d))
    BY <1>2, ResponseTypes DEF DataOf, Speaks
  <2>2. IsFiniteSet(again)
    <3> DEFINE f == [d \in due |-> DataOf(k, d)]
    <3>1. f \in Surjection(due, again)
      BY DEF Surjection
    <3> QED
      BY <1>2, <3>1, FS_Surjection
  <2> QED
    BY <2>1, <2>2
<1> HIDE DEF again
<1>4. more \in Seq(Response) /\ \A i \in 1 .. Len(more) : Speaks(k, more[i])
  BY <1>3, SetToSeqType
<1> HIDE DEF more
<1>5. responses' \in Seq(Response) /\ Queue' /\ Routes'
  BY <1>1, <1>4, RunningSessionSends
<1>6. timers' \in [Sessions -> SUBSET Nat]
  BY <1>1 DEF TypeOK
<1>7. TypeOK'
  BY <1>1, <1>5, <1>6 DEF TypeOK
<1> QED
  BY <1>1, <1>5, <1>7 DEF FewUnacknowledged

--------------------------------------------------------------------------------
(* The invariant holds in every state. *)

(* The first state.                                                             *)
LEMMA InitLineIInv == Init => LineIInv
<1> SUFFICES ASSUME Init PROVE LineIInv
  OBVIOUS
<1>1. /\ clients = [id \in Ids |-> 0] /\ in_hand = <<>> /\ opened = 0 /\ alive = {}
      /\ owner = [k \in Sessions |-> CHOOSE id \in Ids : TRUE]
      /\ rx = [k \in Sessions |-> <<>>] /\ lr = [k \in Sessions |-> NewReverser]
      /\ timers = [k \in Sessions |-> {}] /\ responses = <<>>
      /\ wire = [id \in Ids |-> {}]
  BY DEF Init, Nothing
<1>2. TypeOK
  <2>1. owner \in [Sessions -> Ids]
    <3>1. PICK id \in Ids : TRUE
      BY LineAssumption
    <3>2. (CHOOSE i \in Ids : TRUE) \in Ids
      BY <3>1
    <3> QED
      BY <1>1, <3>2
  <2>2. MaxSessions \in Nat /\ ChanSize \in Nat
    BY LineAssumption
  <2>3. /\ clients \in [Ids -> 0 .. MaxSessions] /\ opened \in 0 .. MaxSessions
        /\ alive \subseteq 1 .. opened
    BY <1>1, <2>2
  <2>4. in_hand \in Seq([to : Sessions, pkt : Packet]) /\ Len(in_hand) <= 1
    BY <1>1
  <2>5. rx \in [Sessions -> Seq(Packet)] /\ \A k \in Sessions : Len(rx[k]) <= ChanSize
    BY <1>1, <2>2
  <2>6. lr \in [Sessions -> [buffer : Seq(Bytes), in_bytes : Nat, out_bytes : Nat,
                             current_out : SUBSET DataPacket]]
    <3>1. NewReverser \in [buffer : Seq(Bytes), in_bytes : Nat, out_bytes : Nat,
                           current_out : SUBSET DataPacket]
      BY DEF NewReverser
    <3> QED
      BY <1>1, <3>1
  <2>7. /\ timers \in [Sessions -> SUBSET Nat] /\ responses \in Seq(Response)
        /\ wire \in [Ids -> SUBSET DataPacket]
    BY <1>1
  <2> QED
    BY <2>1, <2>3, <2>4, <2>5, <2>6, <2>7 DEF TypeOK
<1>3. Routes
  BY <1>1 DEF Routes
<1>4. Queue
  <2>1. Len(responses) = 0
    BY <1>1
  <2> QED
    BY <2>1 DEF Queue
<1>5. FewUnacknowledged
  <2>1. IsFiniteSet({})
    BY FS_EmptySet
  <2> QED
    BY <1>1, <2>1 DEF FewUnacknowledged, NewReverser
<1> QED
  BY <1>2, <1>3, <1>4, <1>5 DEF LineIInv

(* Every step keeps the invariant.                                              *)
LEMMA StepLineIInv == LineIInv /\ [Next]_vars => LineIInv'
<1> SUFFICES ASSUME LineIInv, [Next]_vars PROVE LineIInv'
  OBVIOUS
<1>1. ASSUME NEW id \in Ids, OpenSession(id) PROVE LineIInv'
  BY <1>1, OpenSessionKeeps
<1>2. ASSUME NEW id \in Ids, NEW pkt \in Packets(id), RoutePacket(id, pkt) PROVE LineIInv'
  BY <1>2, RoutePacketKeeps
<1>3. CASE SendPacket
  BY <1>3, SendPacketKeeps
<1>4. CASE Respond
  BY <1>4, RespondKeeps
<1>5. ASSUME NEW k \in Sessions, SessionStep(k) PROVE LineIInv'
  <2>1. CASE HandleConnect(k)
    BY <2>1, HandleConnectKeeps
  <2>2. CASE HandleClose(k)
    BY <2>2, SessionEnds DEF HandleClose, Receives
  <2>3. CASE HandleAck(k)
    BY <2>3, HandleAckKeeps
  <2>4. CASE HandleData(k)
    BY <2>4, HandleDataKeeps
  <2>5. ASSUME NEW count \in timers[k], Expire(k, count) PROVE LineIInv'
    BY <2>5, ExpireKeeps
  <2>6. CASE TimeOut(k)
    BY <2>6, SessionEnds DEF TimeOut
  <2> QED
    BY <1>5, <2>1, <2>2, <2>3, <2>4, <2>5, <2>6 DEF SessionStep, Receive
<1>6. CASE UNCHANGED vars
  <2>1. UNCHANGED <<clients, in_hand, opened, owner, wire, alive, rx, lr, timers, responses>>
    BY <1>6 DEF vars, mainVars
  <2> QED
    BY <2>1 DEF LineIInv, TypeOK, Routes, Queue, FewUnacknowledged
<1> QED
  BY <1>1, <1>2, <1>3, <1>4, <1>5, <1>6 DEF Next

(* What the sessions and the main task keep in every run, whatever the network  *)
(* does with the packets: main.rs's loop and lrl::run.                          *)
THEOREM LineInvariance == Spec => []LineIInv
<1>1. Init => LineIInv
  BY InitLineIInv
<1>2. LineIInv /\ [Next]_vars => LineIInv'
  BY StepLineIInv
<1> QED
  BY <1>1, <1>2, PTL DEF Spec

(* The state always has its type: in particular the channel of a session never  *)
(* holds more than CHAN_SIZE packets, and whatever arrives, what is sent are    *)
(* responses with natural positions (lrl.rs:214-231, main.rs:57-124).           *)
THEOREM LineTyping == Spec => []TypeOK
<1>1. LineIInv => TypeOK
  BY DEF LineIInv
<1> QED
  BY <1>1, LineInvariance, PTL

(* Two sessions of one client are never mixed up, however many were opened one  *)
(* after the other: no response is taken for a later session's and no late      *)
(* close ends the routing of a later session (main.rs:83-118).                  *)
THEOREM SessionsStayApart == Spec => []SessionsApart
<1>1. LineIInv => SessionsApart
  <2> SUFFICES ASSUME LineIInv PROVE SessionsApart
    OBVIOUS
  <2>1. \A k, l \in alive : owner[k] = owner[l] => k = l
    BY DEF LineIInv, Routes
  <2>2. \A r \in ToSet(responses) : clients[r.id] = r.from
    <3>1. DOMAIN responses = 1 .. Len(responses)
      BY DEF LineIInv, TypeOK
    <3> QED
      BY <3>1 DEF LineIInv, Queue, ToSet
  <2>3. \A k \in alive : clients[owner[k]] = k
    BY DEF LineIInv, Routes
  <2> QED
    BY <2>1, <2>2, <2>3 DEF SessionsApart
<1> QED
  BY <1>1, LineInvariance, PTL

--------------------------------------------------------------------------------
(* Where what is sent comes from. *)

(* All the data packets among some responses are in D.                          *)
Carry(answers, D) ==
  \A i \in 1 .. Len(answers) : answers[i].type = "data" => answers[i].data \in D

(* No other data packet is kept to be sent again, queued or sent.               *)
AnswersFrom(D) ==
  /\ \A k \in Sessions : lr[k].current_out \subseteq D
  /\ Carry(responses, D)
  /\ \A id \in Ids : wire[id] \subseteq D

(* Session k has a data packet to take that it reads something new of.          *)
Reads(k, read) ==
  LET pkt == Head(rx[k]) IN
  /\ Receives(k, "data")
  /\ pkt.count <= lr[k].in_bytes
  /\ pkt.count + Len(pkt.payload) > lr[k].in_bytes
  /\ read = Unpacked(lr[k].in_bytes, pkt.count, pkt.payload)
  /\ read.ok

(* The data packets that it sends then.                                         *)
SentFor(k, read) ==
  ToSet(DataResponses(Cut(lr[k].buffer \o read.new).lines, lr[k].out_bytes, Room))

(* Responses from D, and more of them.                                          *)
LEMMA CarryConcat ==
  ASSUME NEW answers \in Seq(Response), NEW more \in Seq(Response), NEW D,
         Carry(answers, D), Carry(more, D)
  PROVE  Carry(answers \o more, D)
<1> PICK n \in Nat, m \in Nat : n = Len(answers) /\ m = Len(more)
  OBVIOUS
<1>1. /\ Len(answers \o more) = n + m
      /\ \A i \in 1 .. n + m : (answers \o more)[i] = IF i <= n THEN answers[i] ELSE more[i - n]
  BY ConcatProperties
<1>2. \A i \in 1 .. n + m : (i \in 1 .. n /\ i <= n) \/ (~ (i <= n) /\ i - n \in 1 .. m)
  <2> TAKE i \in 1 .. n + m
  <2>1. CASE i <= n
    BY <2>1
  <2>2. CASE ~ (i <= n)
    BY <2>2
  <2> QED
    BY <2>1, <2>2
<1> QED
  BY <1>1, <1>2 DEF Carry

LEMMA CarryOther ==
  ASSUME NEW answers \in Seq(Response), NEW D, Carry(answers, D), NEW r, r.type # "data"
  PROVE  Carry(Append(answers, r), D)
<1> PICK n \in Nat : n = Len(answers)
  OBVIOUS
<1>1. /\ Len(Append(answers, r)) = n + 1 /\ Append(answers, r)[n + 1] = r
      /\ \A i \in 1 .. n : Append(answers, r)[i] = answers[i]
  OBVIOUS
<1>2. \A i \in 1 .. n + 1 : i \in 1 .. n \/ i = n + 1
  OBVIOUS
<1> QED
  BY <1>1, <1>2 DEF Carry

(* The state of a session has its fields.                                       *)
LEMMA ReverserType ==
  ASSUME TypeOK, NEW k \in Sessions
  PROVE  /\ lr[k].buffer \in Seq(Bytes) /\ lr[k].in_bytes \in Nat /\ lr[k].out_bytes \in Nat
         /\ lr[k].current_out \in SUBSET DataPacket
<1>1. lr[k] \in [buffer : Seq(Bytes), in_bytes : Nat, out_bytes : Nat,
                 current_out : SUBSET DataPacket]
  BY DEF TypeOK
<1> QED
  BY <1>1

(* Session k goes on, and keeps and queues data packets from D only.            *)
Sends(k, D) == lr'[k].current_out \subseteq D /\ Carry(responses', D)

(* A data packet is read as far as it is new, or leaves the session as it is.   *)
LEMMA HandleDataReads ==
  ASSUME LineIInv, NEW k \in Sessions, HandleData(k)
  PROVE  \/ \E read \in Reading : Reads(k, read) /\ ReadNew(k, read)
         \/ /\ lr' = lr
            /\ responses' = responses \/ \E n : responses' = Append(responses, Ack(k, n))
<1> DEFINE pkt == Head(rx[k])
           read == Unpacked(lr[k].in_bytes, pkt.count, pkt.payload)
<1>1. Receives(k, "data") /\ Taken(k)
  BY DEF HandleData
<1>2. pkt \in Packet /\ pkt.type = "data"
  BY <1>1, TakenPacket DEF LineIInv
<1>3. pkt.count \in Nat /\ pkt.payload \in Seq(Bytes) /\ lr[k].in_bytes \in Nat
  BY <1>2, ReverserType DEF Packet, LineIInv
<1>4. CASE /\ pkt.count <= lr[k].in_bytes
           /\ pkt.count + Len(pkt.payload) > lr[k].in_bytes
           /\ read.ok
           /\ ReadNew(k, read)
  <2> HIDE DEF pkt
  <2>1. pkt.payload # <<>>
    <3>1. pkt.payload = <<>> => Len(pkt.payload) = 0
      OBVIOUS
    <3> QED
      BY <1>3, <1>4, <3>1
  <2>2. read \in Reading
    BY <1>3, <2>1, UnpackedType
  <2>3. Reads(k, read)
    BY <1>1, <1>4, Zenon DEF Reads, pkt
  <2> HIDE DEF read
  <2> QED
    BY <1>4, <2>2, <2>3
<1>5. CASE responses' = Append(responses, Ack(k, lr[k].in_bytes)) /\ UNCHANGED <<lr, timers>>
  BY <1>5
<1>6. CASE UNCHANGED <<lr, timers, responses>>
  BY <1>6
<1> QED
  BY <1>4, <1>5, <1>6 DEF HandleData

(* What a session sends after it has read something new.                        *)
LEMMA ReadNewSends ==
  ASSUME LineIInv, NEW k \in Sessions, NEW read \in Reading, ReadNew(k, read),
         NEW D, AnswersFrom(D), SentFor(k, read) \subseteq D
  PROVE  Sends(k, D)
<1> PICK cut : cut = Cut(lr[k].buffer \o read.new)
  OBVIOUS
<1> PICK datas : datas = DataResponses(cut.lines, lr[k].out_bytes, Room)
  OBVIOUS
<1> PICK ack, sent : /\ ack = Ack(k, read.count)
                     /\ sent = [j \in 1 .. Len(datas) |-> DataOf(k, datas[j])]
  OBVIOUS
<1>1. ToSet(datas) \subseteq D
  BY DEF SentFor
<1>2. datas \in Seq(DataPacket)
  <2>1. lr[k].buffer \o read.new \in Seq(Bytes) /\ lr[k].out_bytes \in Nat
    BY ReverserType, ConcatProperties DEF LineIInv, Reading
  <2>2. cut.lines \in Seq(Seq(Bytes))
    BY <2>1, CutType DEF Cutting
  <2> QED
    BY <2>1, <2>2, DataResponsesType
<1> PICK n \in Nat : n = Len(datas)
  BY <1>2
<1>3. lr'[k].current_out = lr[k].current_out \cup ToSet(datas)
  BY DEF ReadNew, LineIInv, TypeOK
<1>4. responses' = (responses \o <<ack>>) \o sent
  BY DEF ReadNew
<1>5. responses \in Seq(Response) /\ Carry(responses, D)
  BY DEF LineIInv, TypeOK, AnswersFrom
<1>6. ack \in Response /\ ack.type # "data"
  <2>1. read.count \in Nat
    BY DEF Reading
  <2> QED
    BY <2>1, ResponseTypes DEF LineIInv, Ack
<1>7. /\ sent \in Seq(Response) /\ Len(sent) = n
      /\ \A j \in 1 .. n : sent[j] = DataOf(k, datas[j])
  BY <1>2, ResponseTypes DEF LineIInv
<1>8. Carry(sent, D)
  <2>1. \A j \in 1 .. n : datas[j] \in ToSet(datas)
    BY <1>2, SMTT(40) DEF ToSet
  <2> QED
    BY <1>1, <1>7, <2>1 DEF Carry, DataOf
<1>9. responses \o <<ack>> \in Seq(Response) /\ responses \o <<ack>> = Append(responses, ack)
  BY <1>5, <1>6
<1>10. Carry(responses \o <<ack>>, D)
  BY <1>5, <1>6, <1>9, CarryOther
<1>11. Carry(responses', D)
  BY <1>4, <1>7, <1>8, <1>9, <1>10, CarryConcat
<1> QED
  BY <1>1, <1>3, <1>11 DEF Sends, AnswersFrom

(* A session's step sends from D if what is read of data packets does.          *)
LEMMA SessionSends ==
  ASSUME LineIInv, NEW k \in Sessions, SessionStep(k), NEW D, AnswersFrom(D),
         \A read \in Reading : Reads(k, read) => SentFor(k, read) \subseteq D
  PROVE  Sends(k, D)
<1>1. responses \in Seq(Response) /\ Carry(responses, D) /\ lr[k].current_out \subseteq D
  BY DEF LineIInv, TypeOK, AnswersFrom
<1>2. ASSUME NEW n, lr' = lr, responses' = Append(responses, Ack(k, n)) PROVE Sends(k, D)
  <2>1. Ack(k, n).type # "data"
    BY DEF Ack
  <2> QED
    BY <1>1, <1>2, <2>1, CarryOther DEF Sends
<1>3. CASE HandleConnect(k)
  BY <1>2, <1>3 DEF HandleConnect
<1>4. ASSUME Ends(k) PROVE Sends(k, D)
  <2>1. lr' = [lr EXCEPT ![k] = NewReverser] /\ responses' = Append(responses, Close(k))
    BY <1>4 DEF Ends
  <2>2. lr'[k].current_out = {}
    BY <2>1 DEF LineIInv, TypeOK, NewReverser
  <2>3. Close(k).type # "data"
    BY DEF Close
  <2> QED
    BY <1>1, <2>1, <2>2, <2>3, CarryOther DEF Sends
<1>5. CASE HandleClose(k) \/ TimeOut(k)
  BY <1>4, <1>5 DEF HandleClose, TimeOut
<1>6. CASE HandleAck(k)
  <2>1. ASSUME NEW acked, lr' = [lr EXCEPT ![k].current_out = @ \ acked], responses' = responses
        PROVE  Sends(k, D)
    <3>1. lr'[k].current_out = lr[k].current_out \ acked
      BY <2>1 DEF LineIInv, TypeOK
    <3> QED
      BY <1>1, <2>1, <3>1 DEF Sends
  <2>2. CASE \E acked : lr' = [lr EXCEPT ![k].current_out = @ \ acked] /\ responses' = responses
    BY <2>1, <2>2
  <2> QED
    BY <1>4, <1>6, <2>2 DEF HandleAck
<1>7. CASE HandleData(k)
  <2>1. ASSUME NEW read \in Reading, Reads(k, read), ReadNew(k, read) PROVE Sends(k, D)
    BY <2>1, ReadNewSends
  <2>2. CASE lr' = lr /\ responses' = responses
    BY <1>1, <2>2 DEF Sends
  <2> QED
    BY <1>2, <1>7, <2>1, <2>2, HandleDataReads
<1>8. ASSUME NEW count \in timers[k], Expire(k, count) PROVE Sends(k, D)
  <2> PICK due : due = {d \in lr[k].current_out : EndOf(d) = count}
    OBVIOUS
  <2> DEFINE again == {DataOf(k, d) : d \in due}
  <2>1. lr' = lr /\ responses' = responses \o SetToSeq(again)
    BY <1>8 DEF Expire
  <2>2. again \in SUBSET Response /\ IsFiniteSet(again)
    <3>1. due \in SUBSET DataPacket /\ IsFiniteSet(due)
      <4>1. due \subseteq lr[k].current_out /\ IsFiniteSet(lr[k].current_out)
        BY DEF LineIInv, FewUnacknowledged
      <4> QED
        BY <4>1, ReverserType, FS_Subset DEF LineIInv
    <3>2. IsFiniteSet(again)
      <4> DEFINE f == [d \in due |-> DataOf(k, d)]
      <4>1. f \in Surjection(due, again)
        BY DEF Surjection
      <4> QED
        BY <3>1, <4>1, FS_Surjection
    <3> QED
      BY <3>1, <3>2, ResponseTypes DEF LineIInv
  <2>3. \A r \in again : r.type = "data" => r.data \in D
    BY <1>1 DEF DataOf
  <2> HIDE DEF again
  <2>4. SetToSeq(again) \in Seq(Response) /\ Carry(SetToSeq(again), D)
    BY <2>2, <2>3, SetToSeqType DEF Carry
  <2>5. Carry(responses', D)
    BY <1>1, <2>1, <2>4, CarryConcat
  <2> QED
    BY <1>1, <2>1, <2>5 DEF Sends
<1> QED
  BY <1>3, <1>5, <1>6, <1>7, <1>8 DEF SessionStep, Receive

(* It takes a packet, ends the session or leaves its channel.                   *)
LEMMA SessionTakes ==
  ASSUME NEW k \in Sessions, SessionStep(k)
  PROVE  /\ UNCHANGED <<in_hand, wire>>
         /\ \/ rx' = rx
            \/ rx[k] # <<>> /\ rx' = [rx EXCEPT ![k] = Tail(rx[k])]
            \/ rx' = [rx EXCEPT ![k] = <<>>]
<1>1. CASE HandleConnect(k)
  BY <1>1 DEF HandleConnect, Receives, Taken, mainVars
<1>2. ASSUME Ends(k)
      PROVE  UNCHANGED <<in_hand, wire>> /\ rx' = [rx EXCEPT ![k] = <<>>]
  BY <1>2 DEF Ends, mainVars
<1>3. CASE HandleClose(k) \/ TimeOut(k)
  BY <1>2, <1>3 DEF HandleClose, TimeOut
<1>4. CASE HandleAck(k)
  BY <1>2, <1>4 DEF HandleAck, Receives, Taken, mainVars
<1>5. CASE HandleData(k)
  BY <1>5 DEF HandleData, Receives, Taken, mainVars
<1>6. ASSUME NEW count \in timers[k], Expire(k, count)
      PROVE  UNCHANGED <<in_hand, wire, rx>>
  BY <1>6 DEF Expire, mainVars
<1> QED
  BY <1>1, <1>3, <1>4, <1>5, <1>6 DEF SessionStep, Receive

(* It leaves the other sessions alone.                                          *)
LEMMA OthersStay ==
  ASSUME LineIInv, NEW k \in Sessions, SessionStep(k), NEW l \in Sessions \ {k}
  PROVE  lr'[l] = lr[l]
<1>1. CASE lr' = lr
  BY <1>1
<1>2. ASSUME NEW next, lr' = [lr EXCEPT ![k] = next] PROVE lr'[l] = lr[l]
  BY <1>2 DEF LineIInv, TypeOK
<1>3. CASE HandleConnect(k)
  BY <1>1, <1>3 DEF HandleConnect
<1>4. CASE Ends(k)
  BY <1>2, <1>4 DEF Ends
<1>5. CASE HandleClose(k) \/ TimeOut(k)
  BY <1>4, <1>5 DEF HandleClose, TimeOut
<1>6. CASE HandleAck(k)
  BY <1>2, <1>4, <1>6 DEF HandleAck
<1>7. CASE HandleData(k)
  BY <1>1, <1>2, <1>7, HandleDataReads DEF ReadNew
<1>8. ASSUME NEW count \in timers[k], Expire(k, count) PROVE lr' = lr
  BY <1>8 DEF Expire
<1> QED
  BY <1>1, <1>3, <1>5, <1>6, <1>7, <1>8 DEF SessionStep, Receive

(* A response is written to the client as it was queued.                        *)
LEMMA RespondSends ==
  ASSUME LineIInv, NEW D, AnswersFrom(D), Respond
  PROVE  Carry(responses', D) /\ \A id \in Ids : wire'[id] \subseteq D
<1> PICK n \in Nat : n = Len(responses)
  BY DEF LineIInv, TypeOK
<1> PICK r : r = Head(responses)
  OBVIOUS
<1>1. /\ responses # <<>> /\ responses' = Tail(responses)
      /\ wire' = IF clients[r.id] # 0 /\ r.type = "data"
                 THEN [wire EXCEPT ![r.id] = @ \cup {r.data}]
                 ELSE wire
  BY DEF Respond
<1>2. /\ responses \in Seq(Response) /\ Len(responses') = n - 1 /\ n # 0
      /\ \A i \in 1 .. n - 1 : responses'[i] = responses[i + 1]
      /\ r = responses[1]
  BY <1>1 DEF LineIInv, TypeOK
<1>3. 1 \in 1 .. n /\ \A i \in 1 .. n - 1 : i + 1 \in 1 .. n
  BY <1>2
<1>4. (r.type = "data" => r.data \in D) /\ Carry(responses', D)
  BY <1>2, <1>3 DEF AnswersFrom, Carry
<1>5. ASSUME NEW id \in Ids PROVE wire'[id] \subseteq D
  <2>1. wire'[id] = wire[id] \/ (r.type = "data" /\ wire'[id] = wire[id] \cup {r.data})
    BY <1>1 DEF LineIInv, TypeOK
  <2> QED
    BY <1>4, <2>1 DEF AnswersFrom
<1> QED
  BY <1>4, <1>5

(* So do all steps.                                                             *)
LEMMA StepAnswers ==
  ASSUME LineIInv, [Next]_vars, NEW D, AnswersFrom(D),
         \A k \in Sessions : \A read \in Reading : Reads(k, read) => SentFor(k, read) \subseteq D
  PROVE  AnswersFrom(D)'
<1>1. ASSUME UNCHANGED <<lr, responses, wire>> PROVE AnswersFrom(D)'
  BY <1>1 DEF AnswersFrom
<1>2. ASSUME NEW id \in Ids, OpenSession(id) \/ \E pkt \in Packets(id) : RoutePacket(id, pkt)
      PROVE  AnswersFrom(D)'
  BY <1>1, <1>2 DEF OpenSession, RoutePacket
<1>3. CASE SendPacket
  BY <1>1, <1>3 DEF SendPacket
<1>4. CASE Respond
  <2>1. lr' = lr
    BY <1>4 DEF Respond
  <2> QED
    BY <1>4, <2>1, RespondSends DEF AnswersFrom
<1>5. ASSUME NEW k \in Sessions, SessionStep(k) PROVE AnswersFrom(D)'
  <2>1. lr'[k].current_out \subseteq D /\ Carry(responses', D)
    BY <1>5, SessionSends DEF Sends
  <2>2. \A l \in Sessions \ {k} : lr'[l] = lr[l]
    BY <1>5, OthersStay
  <2>3. wire' = wire
    BY <1>5, SessionTakes
  <2> QED
    BY <2>1, <2>2, <2>3 DEF AnswersFrom
<1>6. CASE UNCHANGED vars
  BY <1>1, <1>6 DEF vars, mainVars
<1> QED
  BY <1>2, <1>3, <1>4, <1>5, <1>6 DEF Next

LEMMA InitAnswers ==
  ASSUME Init, NEW D
  PROVE  AnswersFrom(D)
<1>1. /\ lr = [k \in Sessions |-> NewReverser] /\ responses = <<>>
      /\ wire = [id \in Ids |-> {}]
  BY DEF Init
<1>2. 1 .. Len(<<>>) = {} /\ NewReverser.current_out = {}
  BY DEF NewReverser
<1> QED
  BY <1>1, <1>2 DEF AnswersFrom, Carry

--------------------------------------------------------------------------------
(* Packets are short. *)

ShortPackets == {d \in DataPacket : Short(d.bytes, Room)}

ShortIInv == LineIInv /\ AnswersFrom(ShortPackets)

LEMMA StepShortIInv == ShortIInv /\ [Next]_vars => ShortIInv'
<1> SUFFICES ASSUME ShortIInv, [Next]_vars PROVE ShortIInv'
  OBVIOUS
<1> PICK D : D = ShortPackets
  OBVIOUS
<1>1. LineIInv /\ AnswersFrom(D)
  BY DEF ShortIInv
<1>2. ASSUME NEW k \in Sessions, NEW read \in Reading PROVE SentFor(k, read) \subseteq D
  <2> PICK lines : lines = Cut(lr[k].buffer \o read.new).lines
    OBVIOUS
  <2>1. lr[k].buffer \o read.new \in Seq(Bytes) /\ lr[k].out_bytes \in Nat
    BY <1>1, ReverserType, ConcatProperties DEF LineIInv, Reading
  <2>2. lines \in Seq(Seq(Bytes))
    BY <2>1, CutType DEF Cutting
  <2>3. Room \in Nat \ {0}
    BY LineAssumption
  <2>4. \A d \in ToSet(DataResponses(lines, lr[k].out_bytes, Room)) :
          d \in DataPacket /\ Short(d.bytes, Room)
    BY <2>1, <2>2, <2>3, DataResponsesShort
  <2> QED
    BY <2>4 DEF SentFor, ShortPackets
<1>3. LineIInv'
  BY <1>1, StepLineIInv
<1>4. AnswersFrom(D)'
  BY <1>1, <1>2, StepAnswers
<1> QED
  BY <1>3, <1>4 DEF ShortIInv

(* Whatever arrives, in step with its client or not, a session never sends a    *)
(* data packet that is longer than a message may be: a packet is filled while   *)
(* it is shorter than MAX_PACKET_SIZE, escapes included (types.rs:215-234).     *)
THEOREM PacketsStayShort == Spec => []PacketsAreShort
<1>1. Init => ShortIInv
  BY InitLineIInv, InitAnswers DEF ShortIInv
<1>2. ShortIInv => PacketsAreShort
  BY DEF ShortIInv, AnswersFrom, ShortPackets, Short, PacketsAreShort
<1> QED
  BY <1>1, <1>2, StepShortIInv, PTL DEF Spec

--------------------------------------------------------------------------------
(* Staying in step. *)

(* A data packet that a client may send: a part of the stream, or noise.        *)
Sendable(pkt) ==
  pkt.type = "data" =>
    \/ \E from, to \in Cuts : from < to /\ pkt = Part(from, to)
    \/ \E n \in Noise : pkt = Data(n.count, n.payload)

AllSendable(pkts) == \A i \in 1 .. Len(pkts) : Sendable(pkts[i])

(* Nothing else is on its way to a session.                                     *)
Arriving ==
  /\ \A i \in 1 .. Len(in_hand) : Sendable(in_hand[i].pkt)
  /\ \A k \in Sessions : AllSendable(rx[k])

(* A session has read up to a cut and made of what it read what there is to     *)
(* make of it.                                                                  *)
InPlace(reverser) ==
  LET taken == SubSeq(Stream, 1, reverser.in_bytes) IN
  /\ reverser.in_bytes \in Cuts \cup {0}
  /\ reverser.buffer = Cut(taken).rest
  /\ reverser.out_bytes = Len(Reversed(taken))

(* Data packets that are found in the answer where they say.                    *)
Fitting(d) == d.bytes # <<>> /\ At(Reversed(Stream), d.start, d.bytes)

FittingPackets == {d \in DataPacket : Fitting(d)}

ReadIInv ==
  /\ LineIInv
  /\ Arriving
  /\ \A k \in Sessions : InPlace(lr[k])
  /\ AnswersFrom(FittingPackets)

(* A part of the stream between two cuts.                                       *)
LEMMA PartIs ==
  ASSUME NEW from \in Cuts, NEW to \in Cuts, from < to
  PROVE  /\ from \in Nat /\ to \in Nat /\ to <= Len(Stream)
         /\ SubSeq(Stream, from + 1, to) \in Seq(Bytes)
         /\ IsMiddle(SubSeq(Stream, from + 1, to), Stream, from, to - from)
         /\ SubSeq(Stream, from + 1, to) # <<>>
<1>1. Stream \in Seq(Bytes) /\ from \in 0 .. Len(Stream) /\ to \in 0 .. Len(Stream)
  BY LineAssumption
<1> PICK n \in Nat : n = to - from
  BY <1>1
<1>2. from \in Nat /\ to \in Nat /\ to <= Len(Stream) /\ from + n = to /\ n # 0
  BY <1>1
<1>3. /\ SubSeq(Stream, from + 1, from + n) \in Seq(Bytes)
      /\ IsMiddle(SubSeq(Stream, from + 1, from + n), Stream, from, n)
  BY <1>1, <1>2, MiddleIs
<1>4. \A s : IsMiddle(s, Stream, from, n) => s # <<>>
  <2>1. Len(<<>>) = 0
    OBVIOUS
  <2> QED
    BY <1>2, <2>1 DEF IsMiddle
<1>5. to - from = n
  OBVIOUS
<1> QED
  BY <1>2, <1>3, <1>4, <1>5, Zenon

(* What a payload makes a session read that has got as far as a cut: all that   *)
(* it had not yet of a part, and nothing of noise.                              *)
LEMMA WhatIsRead ==
  ASSUME Readable, NEW in_bytes \in Cuts \cup {0}, NEW pkt, Sendable(pkt), pkt.type = "data",
         pkt.count <= in_bytes, pkt.count + Len(pkt.payload) > in_bytes,
         Unpacked(in_bytes, pkt.count, pkt.payload).ok
  PROVE  \E to \in Cuts :
           /\ in_bytes <= to
           /\ Unpacked(in_bytes, pkt.count, pkt.payload).new = SubSeq(Stream, in_bytes + 1, to)
           /\ Unpacked(in_bytes, pkt.count, pkt.payload).count = to
<1>1. in_bytes \in Nat /\ in_bytes <= Len(Stream) /\ Stream \in Seq(Bytes)
  BY LineAssumption
<1>2. ASSUME NEW n \in Noise, pkt = Data(n.count, n.payload) PROVE FALSE
  <2>1. pkt.count \in Nat /\ pkt.payload \in Seq(Bytes) /\ pkt.payload = n.payload
    BY <1>2, LineAssumption DEF Data
  <2>2. PICK j \in 2 .. Len(pkt.payload) : pkt.payload[j] = "/" /\ pkt.payload[j - 1] # Escape
    BY <2>1 DEF Readable, NoiseIsMalformed
  <2> QED
    BY <1>1, <2>1, <2>2, UnpackedMalformed
<1>3. ASSUME NEW from \in Cuts, NEW to \in Cuts, from < to, pkt = Part(from, to)
      PROVE  /\ in_bytes <= to
             /\ Unpacked(in_bytes, pkt.count, pkt.payload).new = SubSeq(Stream, in_bytes + 1, to)
             /\ Unpacked(in_bytes, pkt.count, pkt.payload).count = to
  <2> PICK bytes : bytes = SubSeq(Stream, from + 1, to)
    OBVIOUS
  <2> PICK n : n = to - from
    OBVIOUS
  <2>1. pkt.count = from /\ pkt.payload = Escaped(bytes)
    BY <1>3 DEF Part, Data
  <2>2. /\ from \in Nat /\ to \in Nat /\ to <= Len(Stream)
        /\ bytes \in Seq(Bytes) /\ IsMiddle(bytes, Stream, from, n) /\ bytes # <<>>
    BY <1>3, PartIs, Zenon
  <2>3. n \in Nat /\ from + n = to /\ Len(bytes) = n /\ \A i \in 1 .. n : bytes[i] = Stream[from + i]
    BY <1>3, <2>2 DEF IsMiddle
  <2>4. NoPairs(bytes)
    <3>1. \A i \in 1 .. n - 1 :
            /\ i \in 1 .. n /\ i + 1 \in 1 .. n
            /\ from + i \in 1 .. Len(Stream) - 1 /\ from + (i + 1) = (from + i) + 1
      BY <1>1, <2>2, <2>3
    <3>2. \A i \in 1 .. n - 1 : bytes[i] = Stream[from + i] /\ bytes[i + 1] = Stream[(from + i) + 1]
      BY <2>3, <3>1
    <3>3. \A i \in 1 .. Len(Stream) - 1 : Stream[i] = Escape => Stream[i + 1] \notin {"/", Escape}
      BY DEF Readable, NoEscapePairs
    <3>4. ASSUME NEW i \in 1 .. n - 1, bytes[i] = Escape PROVE bytes[i + 1] \notin {"/", Escape}
      <4>1. from + i \in 1 .. Len(Stream) - 1 /\ bytes[i] = Stream[from + i]
        BY <3>1, <3>2
      <4>2. bytes[i + 1] = Stream[(from + i) + 1]
        BY <3>2
      <4>3. Stream[from + i] = Escape
        BY <3>4, <4>1, Zenon
      <4>4. Stream[(from + i) + 1] \notin {"/", Escape}
        BY <3>3, <4>1, <4>3, Zenon
      <4> QED
        BY <4>2, <4>4, Zenon
    <3> QED
      BY <2>3, <3>4 DEF NoPairs
  <2>5. in_bytes <= to
    <3>1. CASE in_bytes = 0
      BY <2>2, <3>1
    <3>2. CASE in_bytes \in Cuts /\ to < in_bytes
      <4>1. from + Len(Escaped(bytes)) <= in_bytes
        BY <1>3, <3>2 DEF Readable, CutsApart
      <4>2. Escaped(bytes) \in Seq(Bytes)
        BY <2>2, EscapedType
      <4> QED
        BY <1>1, <2>1, <2>2, <4>1, <4>2
    <3> QED
      BY <1>1, <2>2, <3>1, <3>2
  <2>6. Unpacked(in_bytes, from, Escaped(bytes)) = ReadOf(bytes, from, in_bytes - from)
    BY <1>1, <2>1, <2>2, <2>4, UnpackedEscaped
  <2>7. SubSeq(bytes, (in_bytes - from) + 1, n) = SubSeq(Stream, in_bytes + 1, to)
    <3> PICK m \in Nat : m = in_bytes - from
      BY <1>1, <2>1, <2>2
    <3> PICK l \in Nat : l = to - in_bytes
      BY <1>1, <2>2, <2>5
    <3>1. m + l = n /\ in_bytes + l = to /\ from + m = in_bytes
      BY <1>1, <2>2, <2>3
    <3> PICK s, t : s = SubSeq(bytes, m + 1, n) /\ t = SubSeq(Stream, in_bytes + 1, to)
      OBVIOUS
    <3>2. s \in Seq(Bytes) /\ IsMiddle(s, bytes, m, l)
      <4>1. m + l <= Len(bytes)
        <5>1. m + l <= n
          BY <2>3, <3>1
        <5> QED
          BY <2>3, <5>1, Zenon
      <4>2. SubSeq(bytes, m + 1, m + l) \in Seq(Bytes) /\ IsMiddle(SubSeq(bytes, m + 1, m + l), bytes, m, l)
        BY <2>2, <4>1, MiddleIs, Zenon
      <4> QED
        BY <3>1, <4>2, Zenon
    <3>3. t \in Seq(Bytes) /\ IsMiddle(t, Stream, in_bytes, l)
      <4>1. /\ SubSeq(Stream, in_bytes + 1, in_bytes + l) \in Seq(Bytes)
            /\ IsMiddle(SubSeq(Stream, in_bytes + 1, in_bytes + l), Stream, in_bytes, l)
        BY <1>1, <2>2, <3>1, MiddleIs
      <4> QED
        BY <3>1, <4>1, Zenon
    <3>4. \A i \in 1 .. l : m + i \in 1 .. n /\ from + (m + i) = in_bytes + i
      BY <1>1, <2>2, <3>1
    <3>5. \A i \in 1 .. l : s[i] = t[i]
      BY <2>3, <3>2, <3>3, <3>4, ZenonT(40) DEF IsMiddle
    <3>6. s = t
      <4>1. Len(s) = l /\ Len(t) = l
        BY <3>2, <3>3 DEF IsMiddle
      <4> QED
        BY <3>2, <3>3, <3>5, <4>1, SeqEqual
    <3> QED
      BY <3>6
  <2>8. /\ Unpacked(in_bytes, pkt.count, pkt.payload).new = SubSeq(bytes, (in_bytes - from) + 1, n)
        /\ Unpacked(in_bytes, pkt.count, pkt.payload).count = from + n
    <3> PICK m : m = in_bytes - from
      OBVIOUS
    <3>1. /\ ReadOf(bytes, from, m).new = SubSeq(bytes, m + 1, Len(bytes))
          /\ ReadOf(bytes, from, m).count = from + Len(bytes)
      BY ReadOfIs, Zenon
    <3>2. Len(bytes) = n
      BY <2>3
    <3> QED
      BY <2>1, <2>6, <3>1, <3>2, Zenon
  <2> QED
    BY <2>3, <2>5, <2>7, <2>8
<1> QED
  BY <1>2, <1>3 DEF Sendable

(* What a session is sent before and after a cut of the stream.                 *)
LEMMA TakenAre ==
  ASSUME NEW i \in 0 .. Len(Stream), NEW to \in i .. Len(Stream)
  PROVE  /\ SubSeq(Stream, 1, i) \in Seq(Bytes) /\ SubSeq(Stream, i + 1, to) \in Seq(Bytes)
         /\ SubSeq(Stream, 1, to) = SubSeq(Stream, 1, i) \o SubSeq(Stream, i + 1, to)
<1>1. Stream \in Seq(Bytes) /\ Len(Stream) \in Nat
  BY LineAssumption
<1>2. 1 \in 1 .. Len(Stream) + 1 /\ i \in 1 - 1 .. Len(Stream)
  BY <1>1
<1>3. SubSeq(Stream, 1, i) \in Seq(Bytes) /\ SubSeq(Stream, i + 1, to) \in Seq(Bytes)
  BY <1>1
<1> QED
  BY <1>1, <1>2, <1>3, ConcatAdjacentSubSeq

(* After it has read something new, a session is in place again, and what it    *)
(* sends fits.                                                                  *)
LEMMA ReadsOn ==
  ASSUME NEW reverser, InPlace(reverser), NEW to \in Cuts, reverser.in_bytes <= to
  PROVE  LET cut == Cut(reverser.buffer \o SubSeq(Stream, reverser.in_bytes + 1, to)) IN
         /\ reverser.buffer \in Seq(Bytes) /\ reverser.out_bytes \in Nat /\ cut \in Cutting
         /\ cut.rest = Cut(SubSeq(Stream, 1, to)).rest
         /\ reverser.out_bytes + Len(FlattenSeq(cut.lines)) = Len(Reversed(SubSeq(Stream, 1, to)))
         /\ \A d \in ToSet(DataResponses(cut.lines, reverser.out_bytes, Room)) : d \in FittingPackets
<1> PICK i : i = reverser.in_bytes
  OBVIOUS
<1> PICK len : len = Len(Stream)
  OBVIOUS
<1>1. Stream \in Seq(Bytes) /\ len \in Nat /\ i \in 0 .. len /\ to \in i .. len /\ to \in 0 .. len /\ len \in to .. len
  BY LineAssumption DEF InPlace
<1> PICK taken, new, later : /\ taken = SubSeq(Stream, 1, i)
                             /\ new = SubSeq(Stream, i + 1, to)
                             /\ later = SubSeq(Stream, to + 1, len)
  OBVIOUS
<1>2. taken \in Seq(Bytes) /\ new \in Seq(Bytes) /\ SubSeq(Stream, 1, to) = taken \o new
  BY <1>1, TakenAre
<1>3. later \in Seq(Bytes) /\ Stream = (taken \o new) \o later /\ taken \o new \in Seq(Bytes)
  <2>1. SubSeq(Stream, 1, len) = Stream
    BY <1>1, SubSeqFull
  <2>2. later \in Seq(Bytes) /\ SubSeq(Stream, 1, len) = SubSeq(Stream, 1, to) \o later
    BY <1>1, TakenAre
  <2>3. taken \o new \in Seq(Bytes)
    BY <1>2, ConcatProperties
  <2> QED
    BY <1>2, <2>1, <2>2, <2>3, Zenon
<1>4. reverser.buffer = Cut(taken).rest /\ reverser.out_bytes = Len(Reversed(taken))
  BY DEF InPlace
<1>5. Cut(taken).rest \in Seq(Bytes)
  BY <1>2, CutType DEF Cutting
<1> PICK cut : cut = Cut(Cut(taken).rest \o new)
  OBVIOUS
<1>6. cut \in Cutting
  BY <1>2, <1>5, CutType, ConcatProperties
<1> PICK out : out = FlattenSeq(cut.lines)
  OBVIOUS
<1>7. cut.lines \in Seq(Seq(Bytes)) /\ out \in Seq(Bytes)
  BY <1>6, FlattenType DEF Cutting
<1> PICK before, all : before = Reversed(taken) /\ all = Reversed(Stream)
  OBVIOUS
<1>8. before \in Seq(Bytes) /\ all \in Seq(Bytes)
  BY <1>1, <1>2, ReversedType
<1>9. Cut(taken \o new).rest = cut.rest /\ Reversed(taken \o new) = before \o out
  BY <1>2, ReversedConcat
<1>10. Len(before) \in Nat /\ Len(before \o out) = Len(before) + Len(out) /\ before \o out \in Seq(Bytes)
  BY <1>7, <1>8, ConcatProperties
<1>11. At(all, Len(before), out)
  <2>1. PICK rest \in Seq(Bytes) : all = (before \o out) \o rest
    <3>1. all = Reversed(taken \o new) \o FlattenSeq(Cut(Cut(taken \o new).rest \o later).lines)
      <4>1. Reversed((taken \o new) \o later)
              = Reversed(taken \o new) \o FlattenSeq(Cut(Cut(taken \o new).rest \o later).lines)
        BY <1>3, ReversedConcat, Zenon
      <4> QED
        BY <1>3, <4>1, Zenon
    <3>2. Cut(taken \o new).rest \in Seq(Bytes)
      BY <1>3, CutType DEF Cutting
    <3>3. Cut(Cut(taken \o new).rest \o later) \in Cutting
      BY <1>3, <3>2, CutType, ConcatProperties
    <3>4. FlattenSeq(Cut(Cut(taken \o new).rest \o later).lines) \in Seq(Bytes)
      BY <3>3, FlattenType DEF Cutting
    <3> QED
      BY <1>9, <3>1, <3>4
  <2>2. At(before \o out, Len(before), out)
    BY <1>7, <1>8, AtEnd
  <2>3. At((before \o out) \o rest, Len(before), out)
    BY <1>7, <1>10, <2>2, AtLeft
  <2> QED
    BY <2>1, <2>3
<1>12. ASSUME NEW d \in ToSet(DataResponses(cut.lines, Len(before), Room)) PROVE d \in FittingPackets
  <2>1. /\ d \in DataPacket /\ d.bytes # <<>>
        /\ \E j \in Nat : d.start = Len(before) + j /\ At(FlattenSeq(cut.lines), j, d.bytes)
    <3> PICK lines : lines = cut.lines
      OBVIOUS
    <3>1. d \in ToSet(DataResponses(lines, Len(before), Room))
      OBVIOUS
    <3>2. lines \in Seq(Seq(Bytes)) /\ Len(before) \in Nat
      BY <1>7, <1>10
    <3> QED
      BY <3>1, <3>2, DataResponsesAt
  <2>2. PICK j \in Nat : d.start = Len(before) + j /\ At(out, j, d.bytes)
    BY <2>1
  <2>3. d.bytes \in Seq(Bytes)
    BY <2>1 DEF DataPacket
  <2>4. At(all, Len(before) + j, d.bytes)
    BY <1>7, <1>8, <1>10, <1>11, <2>2, <2>3, AtWithin
  <2> QED
    BY <2>1, <2>2, <2>4 DEF Fitting, FittingPackets
<1> QED
  BY <1>2, <1>4, <1>5, <1>6, <1>9, <1>10, <1>12

(* What may be sent stays so on its way.                                        *)
LEMMA SendableTail ==
  ASSUME NEW pkts \in Seq(Packet), AllSendable(pkts), pkts # <<>>
  PROVE  Sendable(Head(pkts)) /\ AllSendable(Tail(pkts))
<1> PICK n \in Nat : n = Len(pkts)
  OBVIOUS
<1>1. n # 0 /\ Head(pkts) = pkts[1] /\ 1 \in 1 .. n
  OBVIOUS
<1>2. Len(Tail(pkts)) = n - 1 /\ \A i \in 1 .. n - 1 : Tail(pkts)[i] = pkts[i + 1]
  OBVIOUS
<1>3. \A i \in 1 .. n - 1 : i + 1 \in 1 .. n
  OBVIOUS
<1> QED
  BY <1>1, <1>2, <1>3 DEF AllSendable

LEMMA SendableAppend ==
  ASSUME NEW pkts \in Seq(Packet), AllSendable(pkts), NEW pkt \in Packet, Sendable(pkt)
  PROVE  AllSendable(Append(pkts, pkt))
<1> PICK n \in Nat : n = Len(pkts)
  OBVIOUS
<1>1. /\ Len(Append(pkts, pkt)) = n + 1 /\ Append(pkts, pkt)[n + 1] = pkt
      /\ \A i \in 1 .. n : Append(pkts, pkt)[i] = pkts[i]
  BY AppendProperties
<1>2. \A i \in 1 .. n + 1 : i \in 1 .. n \/ i = n + 1
  OBVIOUS
<1> QED
  BY <1>1, <1>2 DEF AllSendable

LEMMA PacketsSendable ==
  ASSUME NEW id \in Ids, NEW pkt \in Packets(id)
  PROVE  Sendable(pkt)
<1>1. CASE pkt \in {[type |-> "connect"], [type |-> "close"]}
  BY <1>1 DEF Sendable
<1>2. CASE pkt \in {Part(cut[1], cut[2]) : cut \in {c \in Cuts \X Cuts : c[1] < c[2]}}
  BY <1>2 DEF Sendable
<1>3. CASE pkt \in {Data(n.count, n.payload) : n \in Noise}
  BY <1>3 DEF Sendable
<1>4. CASE pkt \in {[type |-> "ack", count |-> EndOf(d)] : d \in wire[id]}
  BY <1>4 DEF Sendable
<1> QED
  BY <1>1, <1>2, <1>3, <1>4 DEF Packets

(* Only what may be sent arrives.                                               *)
LEMMA StepArriving ==
  ASSUME LineIInv, Arriving, [Next]_vars
  PROVE  Arriving'
<1> USE DEF LineIInv
<1>1. ASSUME UNCHANGED <<in_hand, rx>> PROVE Arriving'
  BY <1>1 DEF Arriving
<1>2. ASSUME NEW id \in Ids, NEW pkt \in Packets(id), RoutePacket(id, pkt) PROVE Arriving'
  <2>1. in_hand' = <<[to |-> clients[id], pkt |-> pkt]>> /\ rx' = rx
    BY <1>2 DEF RoutePacket
  <2>2. Sendable(pkt)
    BY PacketsSendable
  <2>3. Len(in_hand') = 1 /\ in_hand'[1].pkt = pkt
    BY <2>1
  <2>4. \A i \in 1 .. 1 : i = 1
    OBVIOUS
  <2> QED
    BY <2>1, <2>2, <2>3, <2>4 DEF Arriving
<1>3. CASE SendPacket
  <2> PICK k, pkt : k = in_hand[1].to /\ pkt = in_hand[1].pkt
    OBVIOUS
  <2>1. /\ in_hand # <<>> /\ in_hand' = <<>>
        /\ IF k \in alive THEN rx' = [rx EXCEPT ![k] = Append(rx[k], pkt)] ELSE rx' = rx
    BY <1>3 DEF SendPacket, Nothing
  <2>2. in_hand \in Seq([to : Sessions, pkt : Packet]) /\ rx \in [Sessions -> Seq(Packet)]
    BY DEF TypeOK
  <2>3. 1 \in 1 .. Len(in_hand) /\ k \in Sessions /\ pkt \in Packet
    <3>1. in_hand[1] \in [to : Sessions, pkt : Packet]
      BY <2>1, <2>2, HeadType
    <3> QED
      BY <2>1, <2>2, <3>1
  <2>4. AllSendable(Append(rx[k], pkt))
    BY <2>2, <2>3, SendableAppend DEF Arriving
  <2>5. \A l \in Sessions : rx'[l] = rx[l] \/ rx'[l] = Append(rx[k], pkt)
    BY <2>1, <2>2
  <2>6. \A l \in Sessions : AllSendable(rx'[l])
    BY <2>4, <2>5 DEF Arriving
  <2>7. 1 .. Len(in_hand') = {}
    BY <2>1
  <2> QED
    BY <2>6, <2>7 DEF Arriving
<1>4. ASSUME NEW k \in Sessions, SessionStep(k) PROVE Arriving'
  <2>1. rx \in [Sessions -> Seq(Packet)]
    BY DEF TypeOK
  <2>2. in_hand' = in_hand /\ \/ rx' = rx
                              \/ rx[k] # <<>> /\ rx' = [rx EXCEPT ![k] = Tail(rx[k])]
                              \/ rx' = [rx EXCEPT ![k] = <<>>]
    BY <1>4, SessionTakes
  <2>3. ASSUME rx[k] # <<>> PROVE AllSendable(Tail(rx[k]))
    BY <2>1, <2>3, SendableTail DEF Arriving
  <2>4. AllSendable(<<>>)
    BY DEF AllSendable
  <2>5. \A l \in Sessions : \/ rx'[l] = rx[l]
                            \/ rx[k] # <<>> /\ rx'[l] = Tail(rx[k])
                            \/ rx'[l] = <<>>
    BY <2>1, <2>2
  <2>6. \A l \in Sessions : AllSendable(rx'[l])
    BY <2>3, <2>4, <2>5 DEF Arriving
  <2> QED
    BY <2>2, <2>6 DEF Arriving
<1>5. ASSUME NEW id \in Ids, OpenSession(id) PROVE Arriving'
  BY <1>1, <1>5 DEF OpenSession
<1>6. CASE Respond
  BY <1>1, <1>6 DEF Respond
<1>7. CASE UNCHANGED vars
  BY <1>1, <1>7 DEF vars, mainVars
<1> QED
  BY <1>2, <1>3, <1>4, <1>5, <1>6, <1>7 DEF Next

(* A session that has just been opened is in place.                             *)
LEMMA NewIsInPlace == InPlace(NewReverser)
<1>1. NewReverser.in_bytes = 0 /\ NewReverser.out_bytes = 0 /\ NewReverser.buffer = <<>>
  BY DEF NewReverser
<1>2. SubSeq(Stream, 1, 0) = <<>>
  BY LineAssumption
<1>3. Cut(<<>>).rest = <<>> /\ Cut(<<>>).lines = <<>>
  BY CutEmpty
<1>4. Reversed(<<>>) = <<>> /\ Len(<<>>) = 0
  BY <1>3, FlattenEmpty DEF Reversed
<1> QED
  BY <1>1, <1>2, <1>3, <1>4 DEF InPlace

(* Part of the stream that session k reads: from where it is to a cut.          *)
NextRead(k, read) ==
  /\ read.count \in Cuts /\ lr[k].in_bytes <= read.count
  /\ read.new = SubSeq(Stream, lr[k].in_bytes + 1, read.count)

LEMMA ReadsAreNext ==
  ASSUME Readable, LineIInv, Arriving, NEW k \in Sessions, InPlace(lr[k]),
         NEW read \in Reading, Reads(k, read)
  PROVE  NextRead(k, read)
<1> PICK pkt : pkt = Head(rx[k])
  OBVIOUS
<1>1. /\ rx[k] # <<>> /\ pkt.type = "data"
      /\ pkt.count <= lr[k].in_bytes
      /\ pkt.count + Len(pkt.payload) > lr[k].in_bytes
      /\ read = Unpacked(lr[k].in_bytes, pkt.count, pkt.payload)
      /\ read.ok
  BY DEF Reads, Receives
<1>2. Sendable(pkt)
  <2>1. rx[k] \in Seq(Packet) /\ AllSendable(rx[k])
    BY DEF LineIInv, TypeOK, Arriving
  <2> QED
    BY <1>1, <2>1, SendableTail
<1>3. lr[k].in_bytes \in Cuts \cup {0}
  BY DEF InPlace
<1>4. PICK to \in Cuts : /\ lr[k].in_bytes <= to
                         /\ read.new = SubSeq(Stream, lr[k].in_bytes + 1, to)
                         /\ read.count = to
  BY <1>1, <1>2, <1>3, WhatIsRead
<1> QED
  BY <1>4, Zenon DEF NextRead

(* What a session makes of what it reads: it is in place again.                 *)
LEMMA ReadNewInPlace ==
  ASSUME LineIInv, NEW k \in Sessions, InPlace(lr[k]), NEW read, NextRead(k, read),
         ReadNew(k, read)
  PROVE  InPlace(lr'[k])
<1> PICK i, to : i = lr[k].in_bytes /\ to = read.count
  OBVIOUS
<1>1. to \in Cuts /\ i <= to /\ read.new = SubSeq(Stream, i + 1, to)
  BY DEF NextRead
<1> PICK cut : cut = Cut(lr[k].buffer \o read.new)
  OBVIOUS
<1> PICK out : out = lr[k].out_bytes + Len(FlattenSeq(cut.lines))
  OBVIOUS
<1>2. /\ cut.rest = Cut(SubSeq(Stream, 1, to)).rest
      /\ out = Len(Reversed(SubSeq(Stream, 1, to)))
  BY <1>1, ReadsOn, SMTT(40)
<1>3. /\ lr'[k].buffer = cut.rest /\ lr'[k].in_bytes = to /\ lr'[k].out_bytes = out
  BY DEF ReadNew, LineIInv, TypeOK
<1> QED
  BY <1>1, <1>2, <1>3, Zenon DEF InPlace

(* A session's step leaves its session in place.                                *)
LEMMA SessionStaysInPlace ==
  ASSUME Readable, LineIInv, Arriving, NEW k \in Sessions, InPlace(lr[k]), SessionStep(k)
  PROVE  InPlace(lr'[k])
<1>1. CASE lr' = lr
  BY <1>1
<1>2. CASE HandleConnect(k)
  BY <1>1, <1>2 DEF HandleConnect
<1>3. CASE Ends(k)
  <2>1. lr'[k] = NewReverser
    BY <1>3 DEF Ends, LineIInv, TypeOK
  <2> QED
    BY <2>1, NewIsInPlace
<1>4. CASE HandleClose(k) \/ TimeOut(k)
  BY <1>3, <1>4 DEF HandleClose, TimeOut
<1>5. CASE HandleAck(k)
  <2>1. ASSUME NEW acked, lr' = [lr EXCEPT ![k].current_out = @ \ acked]
        PROVE  InPlace(lr'[k])
    <3>1. /\ lr'[k].in_bytes = lr[k].in_bytes /\ lr'[k].out_bytes = lr[k].out_bytes
          /\ lr'[k].buffer = lr[k].buffer
      BY <2>1 DEF LineIInv, TypeOK
    <3> QED
      BY <3>1, Zenon DEF InPlace
  <2> QED
    BY <1>3, <1>5, <2>1 DEF HandleAck
<1>6. CASE HandleData(k)
  <2>1. ASSUME NEW read \in Reading, Reads(k, read), ReadNew(k, read) PROVE InPlace(lr'[k])
    BY <2>1, ReadsAreNext, ReadNewInPlace
  <2> QED
    BY <1>1, <1>6, <2>1, HandleDataReads
<1>7. ASSUME NEW count \in timers[k], Expire(k, count) PROVE lr' = lr
  BY <1>7 DEF Expire
<1> QED
  BY <1>1, <1>2, <1>4, <1>5, <1>6, <1>7 DEF SessionStep, Receive

(* The first state, and every step.                                             *)
LEMMA InitReadIInv == Init => ReadIInv
<1> SUFFICES ASSUME Init PROVE ReadIInv
  OBVIOUS
<1>1. /\ in_hand = <<>> /\ rx = [k \in Sessions |-> <<>>]
      /\ lr = [k \in Sessions |-> NewReverser] /\ responses = <<>>
      /\ wire = [id \in Ids |-> {}]
  BY DEF Init, Nothing
<1>2. 1 .. Len(<<>>) = {}
  OBVIOUS
<1>3. Arriving
  BY <1>1, <1>2 DEF Arriving, AllSendable
<1>4. \A k \in Sessions : InPlace(lr[k])
  BY <1>1, NewIsInPlace
<1> QED
  BY <1>3, <1>4, InitLineIInv, InitAnswers DEF ReadIInv

LEMMA StepReadIInv ==
  ASSUME Readable, ReadIInv, [Next]_vars
  PROVE  ReadIInv'
<1> PICK D : D = FittingPackets
  OBVIOUS
<1>1. LineIInv /\ Arriving /\ AnswersFrom(D) /\ \A k \in Sessions : InPlace(lr[k])
  BY DEF ReadIInv
<1>2. LineIInv' /\ Arriving'
  BY <1>1, StepLineIInv, StepArriving
<1>3. ASSUME NEW k \in Sessions, NEW read \in Reading, Reads(k, read)
      PROVE  SentFor(k, read) \subseteq D
  <2> PICK cut : cut = Cut(lr[k].buffer \o read.new)
    OBVIOUS
  <2>1. NextRead(k, read)
    BY <1>1, <1>3, ReadsAreNext
  <2>2. \A d \in ToSet(DataResponses(cut.lines, lr[k].out_bytes, Room)) : d \in D
    BY <1>1, <2>1, ReadsOn, SMTT(40) DEF NextRead
  <2> QED
    BY <2>2 DEF SentFor
<1>4. AnswersFrom(D)'
  BY <1>1, <1>3, StepAnswers
<1>5. ASSUME NEW k \in Sessions PROVE InPlace(lr'[k])
  <2>1. ASSUME lr' = lr PROVE InPlace(lr'[k])
    BY <1>1, <2>1
  <2>2. ASSUME NEW id \in Ids, OpenSession(id) \/ \E pkt \in Packets(id) : RoutePacket(id, pkt)
        PROVE  lr' = lr
    BY <2>2 DEF OpenSession, RoutePacket
  <2>3. CASE SendPacket \/ Respond
    BY <2>1, <2>3 DEF SendPacket, Respond
  <2>4. ASSUME NEW l \in Sessions, SessionStep(l) PROVE InPlace(lr'[k])
    <3>1. CASE l = k
      BY <1>1, <2>4, <3>1, SessionStaysInPlace
    <3>2. CASE l # k
      <4>1. lr'[k] = lr[k]
        BY <1>1, <2>4, <3>2, OthersStay
      <4> QED
        BY <1>1, <4>1
    <3> QED
      BY <3>1, <3>2
  <2>5. CASE UNCHANGED vars
    BY <2>1, <2>5 DEF vars
  <2> QED
    BY <2>1, <2>2, <2>3, <2>4, <2>5 DEF Next
<1> QED
  BY <1>2, <1>4, <1>5 DEF ReadIInv

(* With a client whose stream is readable, a session keeps in step whatever is  *)
(* lost, repeated, reordered, cut differently or malformed on the way: what it  *)
(* is sent are parts of the stream and malformed packets, it stops reading only *)
(* where a packet may begin, and what it keeps, queues or sends is in the       *)
(* answer where it says (read_data and analyze_buffer, lrl.rs:265-406).         *)
THEOREM LineReadInvariance ==
  ASSUME Readable
  PROVE  Spec => []ReadIInv
<1>1. Init => ReadIInv
  BY InitReadIInv
<1>2. ReadIInv /\ [Next]_vars => ReadIInv'
  BY StepReadIInv
<1> QED
  BY <1>1, <1>2, PTL DEF Spec

(* So a running session has read exactly the first in_bytes of the stream,      *)
(* answered all the complete lines of them and buffered the rest                *)
(* (lrl.rs:265-406).                                                            *)
THEOREM SessionsStayInStep ==
  ASSUME Readable
  PROVE  Spec => []InStep
<1>1. ReadIInv => InStep
  <2> SUFFICES ASSUME ReadIInv, NEW k \in alive
               PROVE  LET taken == SubSeq(Stream, 1, lr[k].in_bytes) IN
                      /\ lr[k].in_bytes <= Len(Stream)
                      /\ lr[k].buffer = Cut(taken).rest
                      /\ lr[k].out_bytes = Len(Reversed(taken))
    BY DEF InStep
  <2>1. k \in Sessions
    BY LineAssumption DEF ReadIInv, LineIInv, TypeOK, Sessions
  <2>2. InPlace(lr[k])
    BY <2>1 DEF ReadIInv
  <2>3. lr[k].in_bytes <= Len(Stream)
    <3>1. \A n \in Cuts \cup {0} : n <= Len(Stream)
      BY LineAssumption
    <3> QED
      BY <2>2, <3>1 DEF InPlace
  <2> QED
    BY <2>2, <2>3 DEF InPlace
<1> QED
  BY <1>1, LineReadInvariance, PTL

(* In particular "Position in the incoming byte stream." (lrl.rs:212) is true   *)
(* for such streams, and only a stream that is not readable moves in_bytes      *)
(* away from what was answered and buffered.                                    *)
THEOREM InBytesStaysPosition ==
  ASSUME Readable
  PROVE  Spec => []InBytesIsPosition
<1>1. LineIInv /\ InStep => InBytesIsPosition
  <2> SUFFICES ASSUME LineIInv, InStep, NEW k \in alive
               PROVE  lr[k].in_bytes = lr[k].out_bytes + Len(lr[k].buffer)
    BY DEF InBytesIsPosition
  <2> PICK n : n = lr[k].in_bytes
    OBVIOUS
  <2> PICK taken : taken = SubSeq(Stream, 1, n)
    OBVIOUS
  <2>1. k \in Sessions
    BY LineAssumption DEF LineIInv, TypeOK, Sessions
  <2>2. n \in Nat /\ n <= Len(Stream)
    BY <2>1, ReverserType DEF LineIInv, InStep
  <2>3. taken \in Seq(Bytes) /\ Len(taken) = n
    BY <2>2, LineAssumption
  <2>4. lr[k].buffer = Cut(taken).rest /\ lr[k].out_bytes = Len(Reversed(taken))
    BY DEF InStep
  <2> QED
    BY <2>3, <2>4, CutKeepsAll, Zenon
<1> QED
  BY <1>1, LineInvariance, SessionsStayInStep, PTL

(* And whatever a client is sent, by whichever of its sessions and however      *)
(* often, fits into the one right answer to its stream, at the position that it *)
(* carries: no reply is ever wrong, misplaced or empty (lrl.rs:376-406,         *)
(* types.rs:155-192).                                                           *)
THEOREM RepliesAlwaysFit ==
  ASSUME Readable
  PROVE  Spec => []RepliesFit
<1>1. ReadIInv => RepliesFit
  <2> SUFFICES ASSUME ReadIInv, NEW id \in Ids, NEW d \in wire[id]
               PROVE  d.bytes # <<>> /\ d.bytes = SubSeq(Reversed(Stream), d.start + 1, EndOf(d))
    BY DEF RepliesFit
  <2>1. d.start \in Nat /\ d.bytes \in Seq(Bytes)
    BY DEF ReadIInv, LineIInv, TypeOK, DataPacket
  <2>2. d.bytes # <<>> /\ At(Reversed(Stream), d.start, d.bytes)
    BY DEF ReadIInv, AnswersFrom, FittingPackets, Fitting
  <2>3. Reversed(Stream) \in Seq(Bytes)
    BY ReversedType, LineAssumption
  <2> QED
    BY <2>1, <2>2, <2>3, SubSeqIs DEF EndOf
<1> QED
  BY <1>1, LineReadInvariance, PTL
================================================================================
