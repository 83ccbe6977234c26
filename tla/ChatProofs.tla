------------------------------- MODULE ChatProofs -------------------------------
(* What the clients of 03_chat see of each other, proved for any number of      *)
(* clients and lines and any capacity of the channels.                          *)
EXTENDS ChatRoom, SequenceTheorems, TLAPS

--------------------------------------------------------------------------------
(* What makes the invariants inductive.                                         *)

Joined(c) == membership[c] # Nothing

(* What a client's task waits to send goes with where the task is, and the task *)
(* has been joined before it says or does anything else.                        *)
Phases ==
  \A c \in Clients :
    /\ status[c] \in {"none", "naming"} => ~ Joined(c)
    /\ status[c] = "member" => Joined(c)
    /\ status[c] = "leaving" => outbox[c] # Nothing
    /\ outbox[c] # Nothing =>
         LET e == outbox[c][1] IN
         /\ e.id = c
         /\ e.type = "join" => status[c] = "joining" /\ ~ Joined(c)
         /\ e.type = "text" => status[c] = "member"
         /\ e.type = "leave" => status[c] = "leaving"

(* A client's events are queued in order: a join alone, then texts while the    *)
(* Room knows the client, and nothing after the leave.                          *)
QueueInOrder ==
  \A i \in 1 .. Len(events) :
    LET c == events[i].id IN
    /\ events[i].type = "join" =>
         /\ status[c] = "joining" /\ ~ Joined(c) /\ outbox[c] = Nothing
         /\ \A j \in 1 .. Len(events) : j # i => events[j].id # c
    /\ events[i].type = "text" => c \in room
    /\ events[i].type = "leave" =>
         /\ status[c] = "gone"
         /\ \A j \in i + 1 .. Len(events) : events[j].id # c

(* The Room knows a client from its join on and until the client is gone.       *)
RoomFollows ==
  \A c \in Clients :
    Joined(c) /\ status[c] \in {"joining", "member", "leaving"} => c \in room

(* The log tells who has joined and who has left since.                         *)
InLog(c) == \E i \in 1 .. Len(log) : log[i].id = c
LeftInLog(c) == \E i \in 1 .. Len(log) : log[i].id = c /\ log[i].type = "leave"

LogTells ==
  \A c \in Clients :
    /\ Joined(c) <=> InLog(c)
    /\ c \in room <=> Joined(c) /\ ~ LeftInLog(c)

(* Whatever has been typed of a line is in line_buff until run returns.         *)
Whole ==
  /\ \A c \in Clients :
       typed[c] => part[c] # "none" \/ status[c] \in {"leaving", "gone"}
  /\ \A c \in Clients : outbox[c] # Nothing => outbox[c][1].whole
  /\ \A i \in 1 .. Len(events) : events[i].whole
  /\ \A i \in 1 .. Len(log) : log[i].whole

(* What a client has been told of another is right, or there is news of the     *)
(* other that it has not read.  This holds of the list of members from the      *)
(* moment it is made, although the client's subscription is older: whatever the *)
(* list says of somebody in older news is said again by the last of them.       *)
NewsOf(c, d) ==
  \E i \in next[c] .. Len(log) : log[i].id = d /\ log[i].type # "text"

Right(c, seen) ==
  /\ c \notin seen
  /\ \A d \in Clients : d # c => NewsOf(c, d) \/ (d \in seen <=> d \in room)

Knows ==
  \A c \in Clients :
    /\ next[c] <= Len(log) + 1
    /\ status[c] = "joining" /\ Joined(c) => Right(c, membership[c][1])
    /\ status[c] = "member" /\ ~ lagged[c] => Right(c, view[c])

ChatIInv ==
  /\ TypeOK
  /\ Phases /\ QueueInOrder /\ RoomFollows
  /\ LogTells /\ Visits
  /\ Whole
  /\ Knows

--------------------------------------------------------------------------------
(* Waiting events and the queue.                                                *)

LEMMA Waiting ==
  ASSUME TypeOK, NEW c \in Clients, outbox[c] # Nothing
  PROVE  /\ outbox[c] \in Seq(EventType) /\ Len(outbox[c]) = 1
         /\ outbox[c][1] \in EventType
         /\ outbox[c] = <<outbox[c][1]>>
<1>1. outbox[c] \in Seq(EventType) /\ Len(outbox[c]) <= 1
  BY DEF TypeOK
<1>2. Len(outbox[c]) = 1
  <2>1. PICK n \in Nat \ {0} : n = Len(outbox[c])
    BY <1>1, EmptySeq DEF Nothing
  <2>2. n <= 1
    BY <1>1, <2>1
  <2>3. n = 1
    BY <2>2
  <2> QED
    BY <2>1, <2>3
<1>3. outbox[c][1] \in EventType
  BY <1>1, <1>2, ElementOfSeq
<1>4. outbox[c] = <<outbox[c][1]>>
  BY <1>1, <1>2
<1> QED
  BY <1>1, <1>2, <1>3, <1>4

LEMMA Sent ==
  ASSUME TypeOK, NEW c \in Clients, SendEvent(c)
  PROVE  /\ outbox[c][1] \in EventType
         /\ outbox' = [outbox EXCEPT ![c] = Nothing]
         /\ outbox'[c] = Nothing
         /\ \A d \in Clients : d # c => outbox'[d] = outbox[d]
         /\ status'[c] = IF status[c] = "leaving" THEN "gone" ELSE status[c]
         /\ \A d \in Clients : d # c => status'[d] = status[d]
         /\ events' \in Seq(EventType)
         /\ Len(events) \in Nat
         /\ Len(events') = Len(events) + 1
         /\ Len(events') <= EventCap
         /\ \A i \in 1 .. Len(events) : events'[i] = events[i]
         /\ events'[Len(events) + 1] = outbox[c][1]
         /\ \A i \in 1 .. Len(events') : i \in 1 .. Len(events) \/ i = Len(events) + 1
<1>1. /\ outbox[c] \in Seq(EventType) /\ Len(outbox[c]) = 1
      /\ outbox[c][1] \in EventType
  BY Waiting DEF SendEvent
<1>2. events \in Seq(EventType) /\ Len(events) \in Nat /\ Len(events) < EventCap
  BY LenProperties DEF TypeOK, SendEvent
<1>3. events' = events \o outbox[c]
  BY DEF SendEvent
<1>4. /\ events' \in Seq(EventType)
      /\ Len(events') = Len(events) + 1
      /\ \A i \in 1 .. Len(events) + 1 :
           events'[i] = IF i <= Len(events) THEN events[i] ELSE outbox[c][i - Len(events)]
  BY <1>1, <1>2, <1>3, ConcatProperties, SMTT(40)
<1>5. /\ Len(events') <= EventCap
      /\ \A i \in 1 .. Len(events) : events'[i] = events[i]
      /\ \A i \in 1 .. Len(events') : i \in 1 .. Len(events) \/ i = Len(events) + 1
  BY <1>2, <1>4, ChatAssumption
<1>6. events'[Len(events) + 1] = outbox[c][1]
  BY <1>2, <1>4
<1>7. /\ outbox' = [outbox EXCEPT ![c] = Nothing]
      /\ status' = [status EXCEPT ![c] = IF @ = "leaving" THEN "gone" ELSE @]
      /\ outbox \in [Clients -> Seq(EventType)]
      /\ status \in [Clients -> {"none", "naming", "joining", "member", "leaving", "gone"}]
  BY DEF SendEvent, TypeOK
<1> QED
  BY <1>1, <1>2, <1>4, <1>5, <1>6, <1>7

(* The Room takes the first event.                                              *)
LEMMA Received ==
  ASSUME TypeOK, NEW type, RoomReceives(type)
  PROVE  /\ Head(events) \in EventType
         /\ Head(events) = events[1] /\ events[1].type = type
         /\ Len(events) \in Nat \ {0} /\ 1 \in 1 .. Len(events)
         /\ events' \in Seq(EventType)
         /\ Len(events') = Len(events) - 1
         /\ Len(events') <= EventCap
         /\ \A i \in 1 .. Len(events') :
              i + 1 \in 2 .. Len(events) /\ events'[i] = events[i + 1]
<1>1. events \in Seq(EventType) /\ events # <<>> /\ Len(events) <= EventCap
  BY DEF TypeOK, RoomReceives
<1>2. events' = Tail(events) /\ Head(events).type = type
  BY DEF RoomReceives
<1>3. /\ Head(events) \in EventType
      /\ Head(events) = events[1]
      /\ Len(events) \in Nat \ {0}
      /\ events' \in Seq(EventType)
      /\ Len(events') = Len(events) - 1
      /\ \A i \in 1 .. Len(events') : events'[i] = events[i + 1]
  BY <1>1, <1>2, HeadTailProperties, EmptySeq
<1>4. Len(events') <= EventCap
  BY <1>1, <1>3, ChatAssumption
<1> QED
  BY <1>2, <1>3, <1>4

LEMMA Logged ==
  ASSUME TypeOK, NEW msg \in EventType, Broadcast(msg)
  PROVE  /\ log' \in Seq(EventType)
         /\ Len(log) \in Nat
         /\ Len(log') = Len(log) + 1
         /\ \A i \in 1 .. Len(log) : log'[i] = log[i]
         /\ log'[Len(log) + 1] = msg
         /\ \A i \in 1 .. Len(log') : i \in 1 .. Len(log) \/ i = Len(log) + 1
<1>1. log \in Seq(EventType) /\ Len(log) \in Nat
  BY LenProperties DEF TypeOK
<1>2. /\ log' \in Seq(EventType)
      /\ Len(log') = Len(log) + 1
      /\ \A i \in 1 .. Len(log) : log'[i] = log[i]
      /\ log'[Len(log) + 1] = msg
  BY <1>1, AppendProperties DEF Broadcast
<1> QED
  BY <1>1, <1>2

LEMMA Fields ==
  ASSUME NEW e \in EventType
  PROVE  e.type \in {"join", "text", "leave"} /\ e.id \in Clients /\ e.whole \in BOOLEAN
BY DEF EventType

LEMMA EventAt ==
  ASSUME TypeOK, NEW i \in 1 .. Len(events)
  PROVE  events[i].type \in {"join", "text", "leave"} /\ events[i].id \in Clients
<1>1. events[i] \in EventType
  BY ElementOfSeq DEF TypeOK
<1> QED
  BY <1>1, Fields

--------------------------------------------------------------------------------
(* Types.                                                                       *)

LEMMA TypeStep == TypeOK /\ [Next]_vars => TypeOK'
<1> SUFFICES ASSUME TypeOK, [Next]_vars PROVE TypeOK'
  OBVIOUS
<1> USE DEF TypeOK
<1>1. Len(log) \in Nat /\ Len(<<>>) = 0
  BY LenProperties, EmptySeq
<1>2. ASSUME NEW c \in Clients, NEW e \in EventType
      PROVE  /\ [outbox EXCEPT ![c] = <<e>>] \in [Clients -> Seq(EventType)]
             /\ \A d \in Clients : Len([outbox EXCEPT ![c] = <<e>>][d]) <= 1
  BY <1>2
<1>3. ASSUME NEW c \in Clients
      PROVE  Event("join", c) \in EventType /\ Event("leave", c) \in EventType
             /\ Line(c) \in EventType
  BY <1>3 DEF EventType, Event, Line
<1>4. ASSUME NEW c \in Clients, ClientStep(c) PROVE TypeOK'
  <2> USE DEF clientVars, lineVars, roomVars
  <2>1. CASE Accept(c)
    BY <1>1, <2>1 DEF Accept
  <2>2. CASE Name(c)
    BY <1>1, <1>2, <1>3, <2>2 DEF Name
  <2>3. CASE SendEvent(c)
    <3>1. \A d \in Clients : outbox'[d] = outbox[d] \/ outbox'[d] = <<>>
      BY <2>3, Sent DEF Nothing
    <3>2. /\ outbox' \in [Clients -> Seq(EventType)]
          /\ \A d \in Clients : Len(outbox'[d]) <= 1
      BY <1>1, <2>3, <3>1 DEF SendEvent, Nothing
    <3> QED
      BY <2>3, <3>2, Sent DEF SendEvent
  <2>4. CASE WriteMembership(c)
    <3>1. membership[c][1] \in SUBSET Clients
      BY <2>4, EmptySeq, ElementOfSeq DEF WriteMembership, Nothing
    <3> QED
      BY <2>4, <3>1 DEF WriteMembership
  <2>5. CASE Type(c)
    BY <2>5 DEF Type
  <2>6. CASE Say(c) \/ SayLast(c)
    <3>1. said' \in 0 .. MaxTexts
      BY <2>6, ChatAssumption DEF Say, SayLast
    <3>2. /\ outbox' \in [Clients -> Seq(EventType)]
          /\ \A d \in Clients : Len(outbox'[d]) <= 1
      <4>1. PICK e \in EventType : outbox' = [outbox EXCEPT ![c] = <<e>>]
        BY <1>3, <2>6 DEF Say, SayLast
      <4> QED
        BY <1>2, <4>1
    <3> QED
      BY <2>6, <3>1, <3>2 DEF Say, SayLast
  <2>7. CASE Show(c)
    <3>1. part' \in [Clients -> {"none", "new", "old", "end"}]
      BY <2>7 DEF Show, Interrupted
    <3>2. /\ next' = [next EXCEPT ![c] = @ + 1]
          /\ next' \in [Clients -> Nat \ {0}]
      BY <2>7 DEF Show
    <3>3. next[c] \in 1 .. Len(log)
      <4>1. next[c] <= Len(log) /\ next[c] \in Nat \ {0}
        BY <1>1, <2>7, ChatAssumption DEF Show, Oldest
      <4> QED
        BY <1>1, <4>1
    <3>4. log[next[c]].id \in Clients
      BY <3>3, ElementOfSeq, Fields
    <3>5. view' \in [Clients -> SUBSET Clients]
      BY <2>7, <3>4 DEF Show, Told
    <3> QED
      BY <2>7, <3>1, <3>2, <3>5 DEF Show
  <2>8. CASE Lag(c)
    <3>1. part' \in [Clients -> {"none", "new", "old", "end"}]
      BY <2>8 DEF Lag, Interrupted
    <3>2. Oldest \in Nat \ {0}
      BY <1>1, ChatAssumption DEF Oldest
    <3> QED
      BY <2>8, <3>1, <3>2 DEF Lag
  <2>9. CASE Quit(c) \/ EndOfInput(c)
    <3>1. typed' \in [Clients -> BOOLEAN] /\ Returns(c)
      BY <2>9 DEF Quit, EndOfInput
    <3> QED
      BY <1>2, <1>3, <3>1 DEF Returns
  <2> QED
    BY <1>4, <2>1, <2>2, <2>3, <2>4, <2>5, <2>6, <2>7, <2>8, <2>9 DEF ClientStep
<1>5. CASE RoomStep
  <2>1. PICK type, msg :
          RoomReceives(type) /\ msg = Head(events) /\ UNCHANGED clientVars
    BY <1>5 DEF RoomStep, RoomText, RoomJoin, RoomLeave
  <2>2. msg \in EventType /\ msg.id \in Clients
    BY <2>1, Received, Fields
  <2>3. log' \in Seq(EventType)
    BY <1>5, <2>1, <2>2, Logged DEF RoomStep, RoomText, RoomJoin, RoomLeave
  <2>4. /\ events' \in Seq(EventType) /\ Len(events') <= EventCap
    BY <2>1, Received
  <2>5. /\ room' \subseteq Clients
        /\ membership' \in [Clients -> Seq(SUBSET Clients)]
        /\ \A d \in Clients : Len(membership'[d]) <= 1
    <3>1. CASE RoomText
      BY <3>1 DEF RoomText
    <3>2. CASE RoomJoin
      BY <1>1, <2>1, <2>2, <3>2 DEF RoomJoin
    <3>3. CASE RoomLeave
      BY <3>3 DEF RoomLeave
    <3> QED
      BY <1>5, <3>1, <3>2, <3>3 DEF RoomStep
  <2> QED
    BY <2>1, <2>3, <2>4, <2>5 DEF clientVars, lineVars
<1>6. CASE UNCHANGED vars
  BY <1>6 DEF vars, clientVars, lineVars, roomVars
<1> QED
  BY <1>4, <1>5, <1>6 DEF Next

--------------------------------------------------------------------------------
(* The order of a client's events.                                              *)

LEMMA QueuedOf ==
  ASSUME ChatIInv, NEW i \in 1 .. Len(events), NEW c, c = events[i].id
  PROVE  /\ c \in Clients
         /\ events[i].type \in {"join", "text", "leave"}
         /\ events[i].type = "join" =>
              status[c] = "joining" /\ ~ Joined(c) /\ outbox[c] = Nothing
         /\ events[i].type = "text" => c \in room /\ Joined(c)
         /\ events[i].type = "leave" => status[c] = "gone"
BY EventAt DEF ChatIInv, QueueInOrder, LogTells

(* Steps of a client's task that send nothing.                                  *)
LEMMA OwnOrder ==
  ASSUME ChatIInv, NEW c \in Clients, UNCHANGED <<events, room, membership>>,
         \A d \in Clients : d # c => status'[d] = status[d] /\ outbox'[d] = outbox[d],
         \A i \in 1 .. Len(events) : events[i].id = c => events[i].type = "text",
         status'[c] \in {"none", "naming"} => ~ Joined(c),
         status'[c] \in {"joining", "member", "leaving"} =>
           status[c] \in {"joining", "member", "leaving"} \/ ~ Joined(c),
         status'[c] = "member" => Joined(c),
         status'[c] = "leaving" => outbox'[c] # Nothing,
         outbox'[c] # Nothing =>
           \E e \in EventType :
             /\ outbox'[c] = <<e>> /\ e.id = c
             /\ e.type = "join" => status'[c] = "joining" /\ ~ Joined(c)
             /\ e.type = "text" => status'[c] = "member"
             /\ e.type = "leave" => status'[c] = "leaving"
  PROVE  Phases' /\ QueueInOrder' /\ RoomFollows'
<1>1. \A d : Joined(d)' <=> Joined(d)
  BY DEF Joined
<1>2. Phases'
  BY <1>1 DEF ChatIInv, Phases
<1>3. RoomFollows'
  BY <1>1 DEF ChatIInv, RoomFollows
<1>4. QueueInOrder'
  BY <1>1, EventAt DEF ChatIInv, QueueInOrder
<1> QED
  BY <1>2, <1>3, <1>4

LEMMA SendOrder ==
  ASSUME ChatIInv, NEW c \in Clients, SendEvent(c)
  PROVE  Phases' /\ QueueInOrder' /\ RoomFollows'
<1> DEFINE e == outbox[c][1]
<1>1. TypeOK
  BY DEF ChatIInv
<1>2. UNCHANGED <<room, membership>> /\ outbox[c] # Nothing
  BY DEF SendEvent, roomVars
<1>3. /\ outbox'[c] = Nothing
      /\ \A d \in Clients : d # c => outbox'[d] = outbox[d] /\ status'[d] = status[d]
      /\ status'[c] = IF status[c] = "leaving" THEN "gone" ELSE status[c]
  BY <1>1, Sent
<1>4. /\ Len(events) \in Nat
      /\ Len(events') = Len(events) + 1
      /\ \A i \in 1 .. Len(events) : events'[i] = events[i]
      /\ events'[Len(events) + 1] = e
      /\ \A i \in 1 .. Len(events') : i \in 1 .. Len(events) \/ i = Len(events) + 1
  BY <1>1, Sent
<1>5. /\ e.id = c
      /\ e.type = "join" => status[c] = "joining" /\ ~ Joined(c)
      /\ e.type = "text" => status[c] = "member"
      /\ e.type = "leave" => status[c] = "leaving"
      /\ e.type \in {"join", "text", "leave"}
  BY <1>1, <1>2, Sent, Fields DEF ChatIInv, Phases
<1>6. status[c] = "member" => c \in room /\ Joined(c)
  BY DEF ChatIInv, Phases, RoomFollows
<1> HIDE DEF e
<1>7. \A d : Joined(d)' <=> Joined(d)
  BY <1>2 DEF Joined
<1>8. Phases'
  BY <1>3, <1>7 DEF ChatIInv, Phases
<1>9. RoomFollows'
  BY <1>2, <1>3, <1>7 DEF ChatIInv, RoomFollows
<1>10. \A i \in 1 .. Len(events) :
         events[i].id = c => events[i].type = "text" /\ e.type # "join"
  BY <1>2, <1>5, QueuedOf
<1>11. QueueInOrder'
  <2> SUFFICES ASSUME NEW i \in 1 .. Len(events'), NEW d, d = events'[i].id
               PROVE  /\ events'[i].type = "join" =>
                           /\ status'[d] = "joining" /\ ~ Joined(d)' /\ outbox'[d] = Nothing
                           /\ \A j \in 1 .. Len(events') : j # i => events'[j].id # d
                      /\ events'[i].type = "text" => d \in room'
                      /\ events'[i].type = "leave" =>
                           /\ status'[d] = "gone"
                           /\ \A j \in i + 1 .. Len(events') : events'[j].id # d
    BY DEF QueueInOrder
  <2>1. CASE i \in 1 .. Len(events) /\ d = c
    <3>1. events'[i] = events[i] /\ events[i].type = "text" /\ c \in room
      BY <1>4, <1>10, <2>1, QueuedOf
    <3> QED
      BY <1>2, <2>1, <3>1
  <2>2. CASE i \in 1 .. Len(events) /\ d # c
    <3>1. events'[i] = events[i] /\ d \in Clients
      BY <1>4, <2>2, QueuedOf
    <3>2. status'[d] = status[d] /\ outbox'[d] = outbox[d]
      BY <1>3, <2>2, <3>1
    <3>3. /\ events[i].type = "join" =>
               /\ status[d] = "joining" /\ ~ Joined(d) /\ outbox[d] = Nothing
               /\ \A j \in 1 .. Len(events) : j # i => events[j].id # d
          /\ events[i].type = "text" => d \in room
          /\ events[i].type = "leave" =>
               /\ status[d] = "gone"
               /\ \A j \in i + 1 .. Len(events) : events[j].id # d
      BY <2>2, <3>1 DEF ChatIInv, QueueInOrder
    <3>4. \A j \in 1 .. Len(events') :
            \/ j \in 1 .. Len(events) /\ events'[j] = events[j]
            \/ j = Len(events) + 1 /\ events'[j].id # d
      BY <1>4, <1>5, <2>2
    <3>5. \A j \in i + 1 .. Len(events') :
            \/ j \in i + 1 .. Len(events) /\ events'[j] = events[j]
            \/ j = Len(events) + 1 /\ events'[j].id # d
      <4>1. \A j \in i + 1 .. Len(events') : j \in 1 .. Len(events')
        BY <2>2
      <4> QED
        BY <1>4, <2>2, <3>4, <4>1
    <3> QED
      BY <1>2, <1>7, <3>1, <3>2, <3>3, <3>4, <3>5
  <2>3. CASE i = Len(events) + 1
    <3>1. events'[i] = e /\ d = c
      BY <1>4, <1>5, <2>3
    <3>2. e.type = "join" => \A j \in 1 .. Len(events') : j # i => events'[j].id # d
      BY <1>4, <1>10, <2>3, <3>1
    <3>3. \A j \in i + 1 .. Len(events') : FALSE
      BY <1>4, <2>3
    <3> QED
      BY <1>2, <1>3, <1>5, <1>6, <1>7, <3>1, <3>2, <3>3
  <2> QED
    BY <1>4, <2>1, <2>2, <2>3
<1> QED
  BY <1>8, <1>9, <1>11

LEMMA ClientOrder ==
  ASSUME ChatIInv, NEW c \in Clients, ClientStep(c), ~ SendEvent(c)
  PROVE  Phases' /\ QueueInOrder' /\ RoomFollows'
<1>1. /\ outbox \in [Clients -> Seq(EventType)]
      /\ status \in [Clients -> {"none", "naming", "joining", "member", "leaving", "gone"}]
      /\ TypeOK
  BY DEF ChatIInv, TypeOK
<1>2. UNCHANGED <<events, room, membership>>
  BY DEF ClientStep, Accept, Name, WriteMembership, Type, Say, SayLast, Show, Lag, Quit,
         EndOfInput, Returns, roomVars
<1>3. \A d \in Clients : d # c => status'[d] = status[d] /\ outbox'[d] = outbox[d]
  BY <1>1 DEF ClientStep, Accept, Name, WriteMembership, Type, Say, SayLast, Show,
              Lag, Quit, EndOfInput, Returns
<1>4. /\ status[c] \in {"none", "naming"} => ~ Joined(c)
      /\ status[c] = "member" => Joined(c)
      /\ status[c] = "leaving" => outbox[c] # Nothing
      /\ outbox[c] # Nothing =>
           \E e \in EventType :
             /\ outbox[c] = <<e>> /\ e.id = c
             /\ e.type \in {"join", "text", "leave"}
             /\ e.type = "join" => status[c] = "joining" /\ ~ Joined(c)
             /\ e.type = "text" => status[c] = "member"
             /\ e.type = "leave" => status[c] = "leaving"
  BY <1>1, Waiting, Fields DEF ChatIInv, Phases
<1>5. \A i \in 1 .. Len(events) :
        events[i].id = c /\ events[i].type # "text" =>
          \/ status[c] = "joining" /\ ~ Joined(c) /\ outbox[c] = Nothing
          \/ status[c] = "gone"
  BY QueuedOf
<1>6. \A i \in 1 .. Len(events) :
        events[i].id = c /\ events[i].type = "text" => Joined(c)
  BY QueuedOf
<1>7. Event("join", c) \in EventType /\ Event("leave", c) \in EventType
      /\ Line(c) \in EventType
      /\ Event("join", c).type = "join" /\ Event("leave", c).type = "leave"
      /\ Event("join", c).id = c /\ Event("leave", c).id = c
      /\ Line(c).type = "text" /\ Line(c).id = c
  BY <1>1 DEF EventType, Event, Line, TypeOK
<1>8. CASE Accept(c)
  BY <1>1, <1>2, <1>3, <1>4, <1>5, <1>6, <1>8, OwnOrder DEF Accept
<1>9. CASE Name(c)
  <2>1. status'[c] = "joining" /\ outbox'[c] = <<Event("join", c)>> /\ status[c] = "naming"
    BY <1>1, <1>9 DEF Name
  <2> QED
    BY <1>2, <1>3, <1>4, <1>5, <1>6, <1>7, <2>1, OwnOrder
<1>10. CASE WriteMembership(c)
  <2>1. /\ status[c] = "joining" /\ Joined(c)
        /\ status'[c] = "member" /\ outbox'[c] = outbox[c]
    BY <1>1, <1>10 DEF WriteMembership, Joined
  <2>2. outbox[c] = Nothing
    BY <1>4, <2>1
  <2> QED
    BY <1>2, <1>3, <1>5, <1>6, <2>1, <2>2, OwnOrder
<1>11. CASE Type(c) \/ Show(c) \/ Lag(c)
  <2>1. status[c] = "member" /\ status'[c] = "member" /\ outbox'[c] = outbox[c]
        /\ outbox[c] = Nothing
    BY <1>11 DEF Type, Show, Lag
  <2> QED
    BY <1>2, <1>3, <1>4, <1>5, <1>6, <2>1, OwnOrder
<1>12. CASE Say(c) \/ SayLast(c)
  <2>1. status[c] = "member" /\ status'[c] = "member" /\ outbox'[c] = <<Line(c)>>
    BY <1>1, <1>12 DEF Say, SayLast
  <2> QED
    BY <1>2, <1>3, <1>4, <1>5, <1>6, <1>7, <2>1, OwnOrder
<1>13. CASE Quit(c) \/ EndOfInput(c)
  <2>1. /\ \/ status[c] = "naming"
           \/ status[c] = "joining" /\ Joined(c)
           \/ status[c] = "member"
        /\ status'[c] = "leaving" /\ outbox'[c] = <<Event("leave", c)>>
    BY <1>1, <1>13 DEF Quit, EndOfInput, Returns, Joined
  <2>2. outbox'[c] # Nothing
    BY <2>1 DEF Nothing
  <2> QED
    BY <1>2, <1>3, <1>4, <1>5, <1>6, <1>7, <2>1, <2>2, OwnOrder
<1> QED
  BY <1>8, <1>9, <1>10, <1>11, <1>12, <1>13 DEF ClientStep

(* The Room takes an event: what is left of its author's stays in order.        *)
LEMMA RoomOrder ==
  ASSUME ChatIInv, RoomStep
  PROVE  Phases' /\ QueueInOrder' /\ RoomFollows'
<1>0. PICK c : c = Head(events).id
  OBVIOUS
<1> DEFINE Moves(type) ==
      /\ RoomReceives(type) /\ UNCHANGED clientVars
      /\ type = "text" => UNCHANGED <<room, membership>>
      /\ type = "join" => room' = room \cup {c}
                          /\ membership' = [membership EXCEPT ![c] = <<room>>]
      /\ type = "leave" => room' = room \ {c} /\ UNCHANGED membership
<1>1. PICK type \in {"join", "text", "leave"} : Moves(type)
  <2>1. CASE RoomText
    BY <2>1 DEF RoomText
  <2>2. CASE RoomJoin
    BY <1>0, <2>2 DEF RoomJoin
  <2>3. CASE RoomLeave
    BY <1>0, <2>3 DEF RoomLeave
  <2> QED
    BY <2>1, <2>2, <2>3 DEF RoomStep
<1>2. TypeOK /\ UNCHANGED <<status, outbox>>
  BY <1>1 DEF ChatIInv, clientVars
<1>3. /\ c = events[1].id /\ events[1].type = type /\ 1 \in 1 .. Len(events)
      /\ Len(events) \in Nat \ {0}
      /\ Len(events') = Len(events) - 1
      /\ \A i \in 1 .. Len(events') :
           i + 1 \in 2 .. Len(events) /\ events'[i] = events[i + 1]
  BY <1>0, <1>1, <1>2, Received
<1>4. c \in Clients
  BY <1>3, QueuedOf
<1>5. /\ type = "join" => ~ Joined(c) /\ outbox[c] = Nothing /\ status[c] = "joining"
      /\ type = "leave" => status[c] = "gone"
      /\ type # "text" => \A j \in 2 .. Len(events) : events[j].id # c
  <2>1. \A j \in 2 .. Len(events) : j \in 1 .. Len(events) /\ j # 1 /\ j \in 1 + 1 .. Len(events)
    OBVIOUS
  <2> QED
    BY <1>3, <2>1 DEF ChatIInv, QueueInOrder
<1>6. /\ \A d \in Clients : d # c => (Joined(d)' <=> Joined(d))
      /\ type # "join" => (Joined(c)' <=> Joined(c))
  BY <1>1, <1>2, <1>4 DEF Joined, TypeOK
<1>7. Phases'
  BY <1>2, <1>4, <1>5, <1>6 DEF ChatIInv, Phases
<1>8. RoomFollows'
  BY <1>1, <1>2, <1>4, <1>5, <1>6 DEF ChatIInv, RoomFollows
<1>9. QueueInOrder'
  <2> SUFFICES ASSUME NEW i \in 1 .. Len(events'), NEW d, d = events'[i].id
               PROVE  /\ events'[i].type = "join" =>
                           /\ status'[d] = "joining" /\ ~ Joined(d)' /\ outbox'[d] = Nothing
                           /\ \A j \in 1 .. Len(events') : j # i => events'[j].id # d
                      /\ events'[i].type = "text" => d \in room'
                      /\ events'[i].type = "leave" =>
                           /\ status'[d] = "gone"
                           /\ \A j \in i + 1 .. Len(events') : events'[j].id # d
    BY DEF QueueInOrder
  <2>1. /\ i + 1 \in 1 .. Len(events) /\ i + 1 \in 2 .. Len(events)
        /\ events'[i] = events[i + 1]
    BY <1>3
  <2>2. /\ events[i + 1].type = "join" =>
             /\ status[d] = "joining" /\ ~ Joined(d) /\ outbox[d] = Nothing
             /\ \A j \in 1 .. Len(events) : j # i + 1 => events[j].id # d
        /\ events[i + 1].type = "text" => d \in room
        /\ events[i + 1].type = "leave" =>
             /\ status[d] = "gone"
             /\ \A j \in (i + 1) + 1 .. Len(events) : events[j].id # d
    BY <2>1 DEF ChatIInv, QueueInOrder
  <2>3. d \in Clients /\ (type # "text" => d # c)
    BY <1>5, <2>1, QueuedOf
  <2>4. \A j \in 1 .. Len(events') :
          /\ j + 1 \in 1 .. Len(events) /\ events'[j] = events[j + 1]
          /\ j # i => j + 1 # i + 1
    BY <1>3
  <2>5. \A j \in i + 1 .. Len(events') :
          j + 1 \in (i + 1) + 1 .. Len(events) /\ events'[j] = events[j + 1]
    <3>1. \A j \in i + 1 .. Len(events') : j \in 1 .. Len(events')
      OBVIOUS
    <3> QED
      BY <1>3, <3>1
  <2>6. d \in room => d \in room'
    BY <1>1, <2>3
  <2>7. events'[i].type = "join" => ~ Joined(d)'
    BY <1>3, <1>6, <2>1, <2>2, <2>3
  <2> QED
    BY <1>2, <2>1, <2>2, <2>4, <2>5, <2>6, <2>7
<1> QED
  BY <1>7, <1>8, <1>9

--------------------------------------------------------------------------------
(* The log.                                                                     *)

LEMMA LogStays ==
  ASSUME log' = log
  PROVE  /\ \A c : (InLog(c)' <=> InLog(c)) /\ (LeftInLog(c)' <=> LeftInLog(c))
         /\ Visits => Visits'
BY DEF InLog, LeftInLog, Visits

LEMMA LogAppend ==
  ASSUME TypeOK, NEW msg \in EventType, Broadcast(msg), NEW c
  PROVE  /\ InLog(c)' <=> InLog(c) \/ msg.id = c
         /\ LeftInLog(c)' <=> LeftInLog(c) \/ (msg.id = c /\ msg.type = "leave")
<1>1. /\ Len(log) \in Nat
      /\ Len(log') = Len(log) + 1
      /\ \A i \in 1 .. Len(log) : log'[i] = log[i]
      /\ log'[Len(log) + 1] = msg
      /\ \A i \in 1 .. Len(log') : i \in 1 .. Len(log) \/ i = Len(log) + 1
  BY Logged
<1>2. 1 .. Len(log) \subseteq 1 .. Len(log') /\ Len(log) + 1 \in 1 .. Len(log')
  BY <1>1
<1>3. InLog(c)' <=> InLog(c) \/ msg.id = c
  BY <1>1, <1>2 DEF InLog
<1>4. LeftInLog(c)' <=> LeftInLog(c) \/ (msg.id = c /\ msg.type = "leave")
  BY <1>1, <1>2 DEF LeftInLog
<1> QED
  BY <1>3, <1>4

LEMMA VisitsAppend ==
  ASSUME TypeOK, Visits, NEW msg \in EventType, Broadcast(msg),
         msg.type = "join" <=> ~ InLog(msg.id), ~ LeftInLog(msg.id)
  PROVE  Visits'
<1>1. /\ Len(log) \in Nat
      /\ Len(log') = Len(log) + 1
      /\ \A i \in 1 .. Len(log) : log'[i] = log[i]
      /\ log'[Len(log) + 1] = msg
      /\ \A i \in 1 .. Len(log') : i \in 1 .. Len(log) \/ i = Len(log) + 1
  BY Logged
<1> SUFFICES ASSUME NEW i \in 1 .. Len(log')
             PROVE  /\ log'[i].type = "join" <=>
                         \A j \in 1 .. i - 1 : log'[j].id # log'[i].id
                    /\ log'[i].type = "leave" =>
                         \A j \in i + 1 .. Len(log') : log'[j].id # log'[i].id
  BY DEF Visits
<1>2. CASE i \in 1 .. Len(log)
  <2>1. \A j \in 1 .. i - 1 : log'[j] = log[j]
    BY <1>1, <1>2
  <2>2. \A j \in i + 1 .. Len(log') :
          \/ j \in i + 1 .. Len(log) /\ log'[j] = log[j]
          \/ log'[j] = msg
    <3>1. \A j \in i + 1 .. Len(log') : j \in 1 .. Len(log')
      BY <1>2
    <3> QED
      BY <1>1, <1>2, <3>1
  <2>3. log[i].type = "leave" => msg.id # log[i].id
    BY <1>2 DEF LeftInLog
  <2> QED
    BY <1>1, <1>2, <2>1, <2>2, <2>3, ZenonT(40) DEF Visits
<1>3. CASE i = Len(log) + 1
  <2>1. /\ log'[i] = msg
        /\ \A j \in 1 .. i - 1 : j \in 1 .. Len(log) /\ log'[j] = log[j]
        /\ 1 .. i - 1 = 1 .. Len(log)
    BY <1>1, <1>3
  <2>2. \A j \in i + 1 .. Len(log') : FALSE
    BY <1>1, <1>3
  <2> QED
    BY <2>1, <2>2 DEF InLog
<1> QED
  BY <1>1, <1>2, <1>3

(* What the Room does with the event it takes, and what it knows of its author. *)
LEMMA RoomCases ==
  ASSUME ChatIInv, RoomStep, NEW msg, msg = Head(events), NEW c, c = msg.id
  PROVE  /\ msg \in EventType /\ c \in Clients /\ msg = events[1] /\ 1 \in 1 .. Len(events)
         /\ UNCHANGED clientVars
         /\ \/ /\ msg.type = "text" /\ Broadcast(msg)
               /\ c \in room /\ UNCHANGED <<room, membership>>
            \/ /\ msg.type = "join" /\ Broadcast(msg)
               /\ ~ Joined(c) /\ c \notin room
               /\ room' = room \cup {c}
               /\ membership' = [membership EXCEPT ![c] = <<room>>]
            \/ /\ msg.type = "leave" /\ c \in room /\ Broadcast(msg)
               /\ room' = room \ {c} /\ UNCHANGED membership
            \/ /\ msg.type = "leave" /\ c \notin room
               /\ UNCHANGED <<log, room, membership>>
<1>1. TypeOK
  BY DEF ChatIInv
<1>2. CASE RoomText
  <2>1. RoomReceives("text")
    BY <1>2 DEF RoomText
  <2>2. msg \in EventType /\ msg = events[1] /\ 1 \in 1 .. Len(events) /\ msg.type = "text"
    BY <1>1, <2>1, Received
  <2> QED
    BY <1>2, <2>2, Fields DEF RoomText
<1>3. CASE RoomJoin
  <2>1. RoomReceives("join")
    BY <1>3 DEF RoomJoin
  <2>2. msg \in EventType /\ msg = events[1] /\ 1 \in 1 .. Len(events) /\ msg.type = "join"
    BY <1>1, <2>1, Received
  <2>3. c \in Clients /\ ~ Joined(c)
    BY <2>2, QueuedOf
  <2>4. c \notin room
    BY <2>3 DEF ChatIInv, LogTells
  <2> QED
    BY <1>3, <2>2, <2>3, <2>4 DEF RoomJoin
<1>4. CASE RoomLeave
  <2>1. RoomReceives("leave")
    BY <1>4 DEF RoomLeave
  <2>2. msg \in EventType /\ msg = events[1] /\ 1 \in 1 .. Len(events) /\ msg.type = "leave"
    BY <1>1, <2>1, Received
  <2>3. CASE c \in room
    BY <1>4, <2>2, <2>3, Fields DEF RoomLeave
  <2>4. CASE c \notin room
    BY <1>4, <2>2, <2>4, Fields DEF RoomLeave
  <2> QED
    BY <2>3, <2>4
<1> QED
  BY <1>2, <1>3, <1>4 DEF RoomStep

LEMMA RoomLog ==
  ASSUME ChatIInv, RoomStep
  PROVE  LogTells' /\ Visits'
<1>1. PICK msg, c : msg = Head(events) /\ c = msg.id
  OBVIOUS
<1>2. /\ TypeOK /\ LogTells /\ Visits /\ msg \in EventType /\ c \in Clients
      /\ membership \in [Clients -> Seq(SUBSET Clients)]
  BY <1>1, RoomCases DEF ChatIInv, TypeOK
<1>3. LeftInLog(c) => InLog(c)
  BY DEF LeftInLog, InLog
<1>4. CASE msg.type = "text" /\ Broadcast(msg) /\ c \in room /\ UNCHANGED <<room, membership>>
  <2>1. InLog(c) /\ ~ LeftInLog(c)
    BY <1>2, <1>4 DEF LogTells
  <2>2. Visits'
    BY <1>1, <1>2, <1>4, <2>1, VisitsAppend
  <2>3. \A d \in Clients : (InLog(d)' <=> InLog(d)) /\ (LeftInLog(d)' <=> LeftInLog(d))
    BY <1>1, <1>2, <1>4, <2>1, LogAppend
  <2> QED
    BY <1>2, <1>4, <2>2, <2>3 DEF LogTells, Joined
<1>5. CASE /\ msg.type = "join" /\ Broadcast(msg)
           /\ ~ Joined(c) /\ c \notin room
           /\ room' = room \cup {c}
           /\ membership' = [membership EXCEPT ![c] = <<room>>]
  <2>1. ~ InLog(c) /\ ~ LeftInLog(c)
    BY <1>2, <1>3, <1>5 DEF LogTells
  <2>2. Visits'
    BY <1>1, <1>2, <1>5, <2>1, VisitsAppend
  <2>3. \A d \in Clients : /\ InLog(d)' <=> InLog(d) \/ d = c
                           /\ LeftInLog(d)' <=> LeftInLog(d)
    BY <1>1, <1>2, <1>5, LogAppend
  <2>4. \A d \in Clients : Joined(d)' <=> Joined(d) \/ d = c
    BY <1>2, <1>5 DEF Joined, Nothing
  <2> QED
    BY <1>2, <1>5, <2>1, <2>2, <2>3, <2>4 DEF LogTells
<1>6. CASE /\ msg.type = "leave" /\ c \in room /\ Broadcast(msg)
           /\ room' = room \ {c} /\ UNCHANGED membership
  <2>1. InLog(c) /\ ~ LeftInLog(c)
    BY <1>2, <1>6 DEF LogTells
  <2>2. Visits'
    BY <1>1, <1>2, <1>6, <2>1, VisitsAppend
  <2>3. \A d \in Clients : /\ InLog(d)' <=> InLog(d)
                           /\ LeftInLog(d)' <=> LeftInLog(d) \/ d = c
    BY <1>1, <1>2, <1>6, <2>1, LogAppend
  <2> QED
    BY <1>2, <1>6, <2>2, <2>3 DEF LogTells, Joined
<1>7. CASE UNCHANGED <<log, room, membership>>
  BY <1>2, <1>7, LogStays DEF LogTells, Joined
<1> QED
  BY <1>1, <1>4, <1>5, <1>6, <1>7, RoomCases

--------------------------------------------------------------------------------
(* Lines.                                                                       *)

LEMMA WholeStep ==
  ASSUME ChatIInv, [Next]_vars
  PROVE  Whole'
<1>1. /\ TypeOK /\ Whole
      /\ outbox \in [Clients -> Seq(EventType)]
      /\ part \in [Clients -> {"none", "new", "old", "end"}]
      /\ typed \in [Clients -> BOOLEAN]
      /\ status \in [Clients -> {"none", "naming", "joining", "member", "leaving", "gone"}]
  BY DEF ChatIInv, TypeOK
<1>2. ASSUME NEW c \in Clients, ClientStep(c), ~ SendEvent(c) PROVE Whole'
  <2>1. log' = log /\ events' = events
    BY <1>2 DEF ClientStep, Accept, Name, WriteMembership, Type, Say, SayLast, Show,
                Lag, Quit, EndOfInput, Returns, roomVars
  <2>2. /\ \A d \in Clients : d # c => /\ outbox'[d] = outbox[d]
                                       /\ part'[d] = part[d] /\ typed'[d] = typed[d]
                                       /\ status'[d] = status[d]
    BY <1>1, <1>2 DEF ClientStep, Accept, Name, WriteMembership, Type, Say, SayLast,
                      Show, Lag, Quit, EndOfInput, Returns, Interrupted, lineVars
  <2>3. typed'[c] => part'[c] # "none" \/ status'[c] \in {"leaving", "gone"}
    <3>1. CASE Quit(c) \/ EndOfInput(c)
      BY <1>1, <3>1 DEF Quit, EndOfInput, Returns
    <3>2. CASE Accept(c) \/ Name(c) \/ WriteMembership(c)
      BY <1>1, <3>2 DEF Accept, Name, WriteMembership, lineVars, Whole
    <3>3. CASE Type(c) \/ Say(c) \/ SayLast(c)
      BY <1>1, <3>3 DEF Type, Say, SayLast
    <3>4. CASE Show(c) \/ Lag(c)
      BY <1>1, <3>4 DEF Show, Lag, Interrupted, Whole
    <3> QED
      BY <1>2, <3>1, <3>2, <3>3, <3>4 DEF ClientStep
  <2>4. outbox'[c] # Nothing => outbox'[c][1].whole
    <3>1. /\ Event("join", c).whole /\ Event("leave", c).whole
          /\ status[c] = "member" => Line(c).whole
      BY <1>1 DEF Event, Line, Whole
    <3>2. \/ outbox'[c] = outbox[c]
          \/ \E e \in {Event("join", c), Event("leave", c)} : outbox'[c] = <<e>>
          \/ status[c] = "member" /\ outbox'[c] = <<Line(c)>>
      BY <1>1, <1>2 DEF ClientStep, Accept, Name, WriteMembership, Type, Say, SayLast,
                        Show, Lag, Quit, EndOfInput, Returns
    <3> QED
      BY <1>1, <3>1, <3>2 DEF Whole
  <2> QED
    BY <1>1, <2>1, <2>2, <2>3, <2>4 DEF Whole
<1>3. ASSUME NEW c \in Clients, SendEvent(c) PROVE Whole'
  <2>1. outbox[c] # Nothing /\ UNCHANGED <<log, part, typed>>
    BY <1>3 DEF SendEvent, roomVars, lineVars
  <2>3. \A d \in Clients :
          status[d] \in {"leaving", "gone"} => status'[d] \in {"leaving", "gone"}
    BY <1>1, <1>3 DEF SendEvent
  <2>2. /\ outbox'[c] = Nothing
        /\ \A d \in Clients : d # c => outbox'[d] = outbox[d]
        /\ \A i \in 1 .. Len(events) : events'[i] = events[i]
        /\ events'[Len(events) + 1] = outbox[c][1]
        /\ \A i \in 1 .. Len(events') : i \in 1 .. Len(events) \/ i = Len(events) + 1
    BY <1>1, <1>3, Sent
  <2> QED
    BY <1>1, <2>1, <2>2, <2>3 DEF Whole
<1>4. CASE RoomStep
  <2>1. PICK msg, c : msg = Head(events) /\ c = msg.id
    OBVIOUS
  <2>2. /\ msg \in EventType /\ msg = events[1] /\ 1 \in 1 .. Len(events)
        /\ UNCHANGED <<status, outbox, part, typed>>
        /\ Broadcast(msg) \/ log' = log
    BY <1>4, <2>1, RoomCases DEF clientVars, lineVars
  <2>3. \A i \in 1 .. Len(events') : i + 1 \in 1 .. Len(events) /\ events'[i] = events[i + 1]
    <3>1. PICK type : RoomReceives(type)
      BY <1>4 DEF RoomStep, RoomText, RoomJoin, RoomLeave
    <3> QED
      BY <1>1, <3>1, Received
  <2>4. \A i \in 1 .. Len(log') : log'[i].whole
    <3>1. msg.whole
      BY <1>1, <2>2 DEF Whole
    <3>2. CASE Broadcast(msg)
      BY <1>1, <2>2, <3>1, <3>2, Logged DEF Whole
    <3>3. CASE log' = log
      BY <1>1, <3>3 DEF Whole
    <3> QED
      BY <2>2, <3>2, <3>3
  <2> QED
    BY <1>1, <2>2, <2>3, <2>4 DEF Whole
<1>5. CASE UNCHANGED vars
  BY <1>1, <1>5 DEF Whole, vars, clientVars, lineVars, roomVars
<1> QED
  BY <1>2, <1>3, <1>4, <1>5 DEF Next

--------------------------------------------------------------------------------
(* What a client has been told.                                                 *)

(* A message is shown: what it says of its author is right, or the author has   *)
(* been in the news since.                                                      *)
LEMMA ShownRight ==
  ASSUME ChatIInv, NEW c \in Clients, next[c] \in 1 .. Len(log),
         NEW seen \in SUBSET Clients, Right(c, seen),
         NEW told, told = Told(seen, c, log[next[c]]),
         log' = log, room' = room, next'[c] = next[c] + 1
  PROVE  Right(c, told)'
<1>1. PICK m, n : n = next[c] /\ m = log[n]
  OBVIOUS
<1>2. /\ n \in 1 .. Len(log) /\ Len(log) \in Nat
      /\ m \in EventType
      /\ m.id \in Clients /\ m.type \in {"join", "text", "leave"}
  BY <1>1, ElementOfSeq, LenProperties, Fields DEF ChatIInv, TypeOK
<1>3. told = Told(seen, c, m)
  BY <1>1
<1>4. c \notin told
  BY <1>3 DEF Right, Told
<1>5. ASSUME NEW d \in Clients, d # c
      PROVE  NewsOf(c, d)' \/ (d \in told <=> d \in room)
  <2>1. NewsOf(c, d)' <=> \E i \in n + 1 .. Len(log) : log[i].id = d /\ log[i].type # "text"
    BY <1>1 DEF NewsOf
  <2>2. NewsOf(c, d) <=> NewsOf(c, d)' \/ (m.id = d /\ m.type # "text")
    <3>1. \A i \in n .. Len(log) : i = n \/ i \in n + 1 .. Len(log)
      BY <1>2
    <3>2. n \in n .. Len(log) /\ n + 1 .. Len(log) \subseteq n .. Len(log)
      BY <1>2
    <3> QED
      BY <1>1, <2>1, <3>1, <3>2 DEF NewsOf
  <2>3. CASE m.id = d /\ m.type = "join"
    <3> SUFFICES ASSUME ~ NewsOf(c, d)' PROVE d \in told /\ d \in room
      OBVIOUS
    <3>1. d \in told
      BY <1>3, <1>5, <2>3 DEF Told
    <3>2. Joined(d)
      BY <1>1, <1>2, <2>3 DEF ChatIInv, LogTells, InLog
    <3>3. ASSUME NEW i \in 1 .. Len(log), log[i].id = d, log[i].type = "leave"
          PROVE  FALSE
      <4>1. i \notin n + 1 .. Len(log)
        BY <2>1, <3>3
      <4>2. i < n \/ i = n
        BY <1>2, <4>1
      <4>3. i < n => n \in i + 1 .. Len(log)
        BY <1>2
      <4> QED
        BY <1>1, <2>3, <3>3, <4>2, <4>3 DEF ChatIInv, Visits
    <3>4. ~ LeftInLog(d)
      BY <3>3 DEF LeftInLog
    <3> QED
      BY <3>1, <3>2, <3>4 DEF ChatIInv, LogTells
  <2>4. CASE m.id = d /\ m.type = "leave"
    <3>1. LeftInLog(d)
      BY <1>1, <1>2, <2>4 DEF LeftInLog
    <3>2. d \notin told
      BY <1>3, <1>5, <2>4 DEF Told
    <3> QED
      BY <3>1, <3>2 DEF ChatIInv, LogTells
  <2>5. CASE ~ (m.id = d /\ m.type # "text")
    <3>1. d \in told <=> d \in seen
      BY <1>3, <2>5 DEF Told
    <3> QED
      BY <1>5, <2>2, <2>5, <3>1 DEF Right
  <2> QED
    BY <1>2, <2>3, <2>4, <2>5
<1> QED
  BY <1>4, <1>5 DEF Right

LEMMA RightStays ==
  ASSUME NEW c, NEW seen, log' = log, room' = room, next'[c] = next[c], Right(c, seen)
  PROVE  Right(c, seen)'
BY DEF Right, NewsOf, Clients

LEMMA ClientKnows ==
  ASSUME ChatIInv, NEW c \in Clients, ClientStep(c)
  PROVE  Knows'
<1>1. /\ TypeOK /\ Knows
      /\ status \in [Clients -> {"none", "naming", "joining", "member", "leaving", "gone"}]
      /\ next \in [Clients -> Nat \ {0}]
      /\ view \in [Clients -> SUBSET Clients]
      /\ lagged \in [Clients -> BOOLEAN]
      /\ Len(log) \in Nat
  BY LenProperties DEF ChatIInv, TypeOK
<1>2. UNCHANGED <<log, room, membership>>
  BY DEF ClientStep, Accept, Name, SendEvent, WriteMembership, Type, Say, SayLast, Show,
         Lag, Quit, EndOfInput, Returns, roomVars
<1>3. \A d \in Clients : d # c =>
        /\ status'[d] = status[d] /\ next'[d] = next[d]
        /\ view'[d] = view[d] /\ lagged'[d] = lagged[d]
  BY <1>1 DEF ClientStep, Accept, Name, SendEvent, WriteMembership, Type, Say, SayLast,
              Show, Lag, Quit, EndOfInput, Returns
<1>4. /\ next[c] <= Len(log) + 1
      /\ status[c] = "joining" /\ Joined(c) => Right(c, membership[c][1])
      /\ status[c] = "member" /\ ~ lagged[c] => Right(c, view[c])
  BY DEF ChatIInv, Knows
<1>5. /\ next'[c] <= Len(log) + 1
      /\ status'[c] = "joining" /\ Joined(c) => Right(c, membership[c][1])'
      /\ status'[c] = "member" /\ ~ lagged'[c] => Right(c, view[c])'
  <2>1. CASE Accept(c)
    BY <1>1, <2>1 DEF Accept
  <2>2. CASE Name(c)
    BY <1>1, <2>2 DEF Name, ChatIInv, Phases
  <2>3. CASE SendEvent(c) \/ Type(c) \/ Say(c) \/ SayLast(c)
    <3>1. /\ next'[c] = next[c] /\ view' = view /\ lagged' = lagged
          /\ status'[c] \in {"joining", "member"} => status'[c] = status[c]
      BY <1>1, <2>3 DEF SendEvent, Type, Say, SayLast
    <3> QED
      BY <1>2, <1>4, <3>1, RightStays
  <2>4. CASE WriteMembership(c)
    <3>1. /\ next'[c] = next[c] /\ status[c] = "joining" /\ Joined(c)
          /\ status'[c] = "member"
          /\ view'[c] = membership[c][1]
      BY <1>1, <2>4 DEF WriteMembership, Joined
    <3> QED
      BY <1>2, <1>4, <3>1, RightStays
  <2>5. CASE Show(c)
    <3>1. /\ next[c] <= Len(log)
          /\ next'[c] = next[c] + 1
          /\ status'[c] = "member" /\ status[c] = "member"
          /\ lagged'[c] = lagged[c]
          /\ view'[c] = Told(view[c], c, log[next[c]])
      BY <1>1, <2>5, ChatAssumption DEF Show, Oldest
    <3>2. next[c] \in 1 .. Len(log) /\ next'[c] <= Len(log) + 1
      BY <1>1, <3>1
    <3>3. PICK told : told = Told(view[c], c, log[next[c]])
      OBVIOUS
    <3>4. ~ lagged[c] => Right(c, told)'
      BY <1>1, <1>2, <1>4, <3>1, <3>2, <3>3, ShownRight
    <3> QED
      BY <3>1, <3>2, <3>3, <3>4
  <2>6. CASE Lag(c)
    <3>1. next'[c] = Oldest /\ lagged'[c] = TRUE /\ status'[c] = "member"
      BY <1>1, <2>6 DEF Lag
    <3>2. Oldest <= Len(log) + 1
      BY <1>1, ChatAssumption DEF Oldest
    <3> QED
      BY <3>1, <3>2
  <2>7. CASE Quit(c) \/ EndOfInput(c)
    BY <1>1, <1>4, <2>7 DEF Quit, EndOfInput, Returns
  <2> QED
    BY <2>1, <2>2, <2>3, <2>4, <2>5, <2>6, <2>7 DEF ClientStep
<1>6. ASSUME NEW d \in Clients
      PROVE  /\ next'[d] <= Len(log') + 1
             /\ status'[d] = "joining" /\ Joined(d)' => Right(d, membership[d][1])'
             /\ status'[d] = "member" /\ ~ lagged'[d] => Right(d, view[d])'
  <2>1. Joined(d)' <=> Joined(d)
    BY <1>2 DEF Joined
  <2>2. CASE d = c
    BY <1>2, <1>5, <2>1, <2>2
  <2>3. CASE d # c
    BY <1>1, <1>2, <1>3, <2>1, <2>3, RightStays DEF Knows
  <2> QED
    BY <2>2, <2>3
<1> QED
  BY <1>6 DEF Knows

(* A message is broadcast.                                                      *)
LEMMA NewsAppend ==
  ASSUME TypeOK, NEW msg \in EventType, Broadcast(msg), NEW c \in Clients, NEW d,
         next' = next, next[c] <= Len(log) + 1
  PROVE  NewsOf(c, d)' <=> NewsOf(c, d) \/ (msg.id = d /\ msg.type # "text")
<1>1. /\ Len(log) \in Nat
      /\ Len(log') = Len(log) + 1
      /\ \A i \in 1 .. Len(log) : log'[i] = log[i]
      /\ log'[Len(log) + 1] = msg
      /\ next[c] \in Nat \ {0}
  BY Logged DEF TypeOK
<1>2. \A i \in next[c] .. Len(log') :
        i = Len(log) + 1 \/ (i \in next[c] .. Len(log) /\ log'[i] = log[i])
  BY <1>1
<1>3. /\ Len(log) + 1 \in next[c] .. Len(log')
      /\ \A i \in next[c] .. Len(log) : i \in next[c] .. Len(log') /\ log'[i] = log[i]
  BY <1>1
<1> QED
  BY <1>1, <1>2, <1>3 DEF NewsOf

LEMMA RoomKnows ==
  ASSUME ChatIInv, RoomStep
  PROVE  Knows'
<1>1. PICK msg, c : msg = Head(events) /\ c = msg.id
  OBVIOUS
<1>2. /\ TypeOK /\ Knows /\ LogTells /\ msg \in EventType /\ c \in Clients
      /\ UNCHANGED <<status, next, view, lagged>>
      /\ membership \in [Clients -> Seq(SUBSET Clients)]
      /\ Len(log) \in Nat
  BY <1>1, RoomCases, LenProperties DEF ChatIInv, TypeOK, clientVars
<1>3. CASE UNCHANGED <<log, room, membership>>
  BY <1>2, <1>3, RightStays DEF Knows, Joined
<1>4. CASE /\ Broadcast(msg)
           /\ \A d \in Clients : d # c \/ msg.type = "text" => (d \in room' <=> d \in room)
           /\ membership' = membership
              \/ (/\ membership' = [membership EXCEPT ![c] = <<room>>]
                  /\ c \notin room)
  <2>1. Len(log') = Len(log) + 1
    BY <1>2, <1>4, Logged
  <2>2. ASSUME NEW d \in Clients, NEW seen, Right(d, seen)
        PROVE  Right(d, seen)'
    <3>1. \A e \in Clients :
            NewsOf(d, e)' <=> NewsOf(d, e) \/ (c = e /\ msg.type # "text")
      BY <1>1, <1>2, <1>4, NewsAppend DEF Knows
    <3> QED
      BY <1>4, <2>2, <3>1 DEF Right
  <2>3. \A d \in Clients : d # c =>
          (Joined(d)' <=> Joined(d)) /\ membership'[d] = membership[d]
    BY <1>2, <1>4 DEF Joined
  <2>4. c \notin room => Right(c, room)
    BY DEF Right
  <2>5. status'[c] = "joining" /\ Joined(c)' => Right(c, membership[c][1])'
    <3>1. CASE membership' = membership
      BY <1>2, <2>2, <3>1 DEF Knows, Joined
    <3>2. CASE membership' = [membership EXCEPT ![c] = <<room>>] /\ c \notin room
      <4>1. membership'[c][1] = room
        BY <1>2, <3>2
      <4>2. PICK seen : seen = room
        OBVIOUS
      <4>3. Right(c, seen)'
        BY <1>2, <2>2, <2>4, <3>2, <4>2
      <4> QED
        BY <4>1, <4>2, <4>3
    <3> QED
      BY <1>4, <3>1, <3>2
  <2>6. ASSUME NEW d \in Clients
        PROVE  /\ next'[d] <= Len(log') + 1
               /\ status'[d] = "joining" /\ Joined(d)' => Right(d, membership[d][1])'
               /\ status'[d] = "member" /\ ~ lagged'[d] => Right(d, view[d])'
    <3>1. next'[d] <= Len(log') + 1
      BY <1>2, <2>1 DEF Knows, TypeOK
    <3>2. status'[d] = "joining" /\ Joined(d)' => Right(d, membership[d][1])'
      BY <1>2, <2>2, <2>3, <2>5 DEF Knows
    <3>3. status'[d] = "member" /\ ~ lagged'[d] => Right(d, view[d])'
      BY <1>2, <2>2 DEF Knows
    <3> QED
      BY <3>1, <3>2, <3>3
  <2> QED
    BY <2>6 DEF Knows
<1> QED
  BY <1>1, <1>3, <1>4, RoomCases

--------------------------------------------------------------------------------

LEMMA InitChat == Init => ChatIInv
<1> SUFFICES ASSUME Init PROVE ChatIInv
  OBVIOUS
<1>1. TypeOK
  <2>1. /\ <<>> \in Seq(EventType) /\ <<>> \in Seq(SUBSET Clients) /\ Len(<<>>) = 0
    BY EmptySeq
  <2>2. 0 \in 0 .. MaxTexts /\ 0 <= EventCap
    BY ChatAssumption
  <2> QED
    BY <2>1, <2>2 DEF Init, TypeOK, Nothing
<1>2. Phases /\ QueueInOrder /\ RoomFollows
  BY DEF Init, Phases, QueueInOrder, RoomFollows, Joined
<1>3. LogTells /\ Visits
  BY DEF Init, LogTells, Visits, Joined, InLog, LeftInLog
<1>4. Whole
  BY DEF Init, Whole
<1>5. Knows
  BY DEF Init, Knows
<1> QED
  BY <1>1, <1>2, <1>3, <1>4, <1>5 DEF ChatIInv

(* The inductive invariant: each client's events reach the Room in the order of *)
(* its life, and the log and the lists tell the clients the same as the Room    *)
(* knows.                                                                       *)
THEOREM ChatInvariance == Spec => []ChatIInv
<1>1. ChatIInv /\ [Next]_vars => ChatIInv'
  <2> SUFFICES ASSUME ChatIInv, [Next]_vars PROVE ChatIInv'
    OBVIOUS
  <2>1. TypeOK'
    BY TypeStep DEF ChatIInv
  <2>2. Whole'
    BY WholeStep
  <2>3. CASE RoomStep
    BY <2>1, <2>2, <2>3, RoomOrder, RoomLog, RoomKnows DEF ChatIInv
  <2>4. ASSUME NEW c \in Clients, ClientStep(c)
        PROVE  ChatIInv'
    <3>1. Phases' /\ QueueInOrder' /\ RoomFollows'
      BY <2>4, SendOrder, ClientOrder
    <3>2. UNCHANGED <<log, room, membership>>
      BY <2>4 DEF ClientStep, Accept, Name, SendEvent, WriteMembership, Type, Say,
                  SayLast, Show, Lag, Quit, EndOfInput, Returns, roomVars
    <3>3. LogTells' /\ Visits'
      BY <3>2, LogStays DEF ChatIInv, LogTells, Joined
    <3> QED
      BY <2>1, <2>2, <2>4, <3>1, <3>3, ClientKnows DEF ChatIInv
  <2>5. CASE UNCHANGED vars
    <3>1. UNCHANGED <<status, outbox, events, room, membership, log, next, view, lagged>>
      BY <2>5 DEF vars, clientVars, roomVars
    <3>2. Phases' /\ QueueInOrder' /\ RoomFollows'
      BY <3>1 DEF ChatIInv, Phases, QueueInOrder, RoomFollows, Joined
    <3>3. LogTells' /\ Visits'
      BY <3>1, LogStays DEF ChatIInv, LogTells, Joined
    <3>4. Knows'
      BY <3>1, RightStays DEF ChatIInv, Knows, Joined
    <3> QED
      BY <2>1, <2>2, <3>2, <3>3, <3>4 DEF ChatIInv
  <2> QED
    BY <2>3, <2>4, <2>5 DEF Next
<1> QED
  BY <1>1, InitChat, PTL DEF Spec

(* Every variable keeps its type; no more than EVENT_CAPACITY events are ever   *)
(* queued.                                                                      *)
THEOREM ChatTyping == Spec => []TypeOK
<1>1. ChatIInv => TypeOK
  BY DEF ChatIInv
<1> QED
  BY <1>1, ChatInvariance, PTL

(* The author of a line is in the Room's map when the Room gets to the line, so *)
(* the unwrap of room.rs:69 does not panic.                                     *)
THEOREM AuthorsAreKnown == Spec => []AuthorKnown
<1>1. ChatIInv => AuthorKnown
  <2> SUFFICES ASSUME ChatIInv, events # <<>>, Head(events).type = "text"
               PROVE  Head(events).id \in room
    BY DEF AuthorKnown
  <2>1. 1 \in 1 .. Len(events) /\ Head(events) = events[1]
    BY EmptySeq, HeadTailProperties DEF ChatIInv, TypeOK
  <2> QED
    BY <2>1, QueuedOf
<1> QED
  BY <1>1, ChatInvariance, PTL

(* What is broadcast of a client is one visit: a join, then lines, then a       *)
(* leaving, and nothing before or after.                                        *)
THEOREM VisitsAreWhole == Spec => []Visits
<1>1. ChatIInv => Visits
  BY DEF ChatIInv
<1> QED
  BY <1>1, ChatInvariance, PTL

(* A client that has read everything and has missed nothing has been told       *)
(* exactly who is there, although its subscription is older than the list of    *)
(* members it was sent.                                                         *)
THEOREM ReadersKnowRoom == Spec => []CaughtUpKnowsRoom
<1>1. ChatIInv => CaughtUpKnowsRoom
  <2> SUFFICES ASSUME ChatIInv, NEW c \in Clients, status[c] = "member", ~ lagged[c],
                      next[c] = Len(log) + 1
               PROVE  view[c] = room \ {c}
    BY DEF CaughtUpKnowsRoom
  <2>1. view[c] \subseteq Clients /\ room \subseteq Clients /\ Len(log) \in Nat
    BY LenProperties DEF ChatIInv, TypeOK
  <2>2. Right(c, view[c])
    BY DEF ChatIInv, Knows
  <2>3. \A d : ~ NewsOf(c, d)
    BY <2>1 DEF NewsOf
  <2> QED
    BY <2>1, <2>2, <2>3 DEF Right
<1> QED
  BY <1>1, ChatInvariance, PTL

(* No line reaches the room without a part that its author typed, however often *)
(* the reading of it was cancelled.                                             *)
THEOREM NoPartIsLost == Spec => []LinesAreWhole
<1>1. ChatIInv => LinesAreWhole
  <2> SUFFICES ASSUME ChatIInv PROVE LinesAreWhole
    OBVIOUS
  <2>1. DOMAIN log = 1 .. Len(log) /\ DOMAIN events = 1 .. Len(events)
    BY LenProperties DEF ChatIInv, TypeOK
  <2> QED
    BY <2>1 DEF ChatIInv, Whole, LinesAreWhole, ToSet
<1> QED
  BY <1>1, ChatInvariance, PTL
================================================================================
