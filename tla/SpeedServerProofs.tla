--------------------------- MODULE SpeedServerProofs ----------------------------
(* What the main task of 06_speed knows of its clients is right: the invariants *)
(* of SpeedServer, proved for any number of clients, any identifications and    *)
(* any capacity of the channels.  The second half is about where the tickets    *)
(* are: the server implements TicketOffice.                                     *)
EXTENDS SpeedServer, CarsProofs, FiniteSetTheorems, FunctionTheorems

--------------------------------------------------------------------------------
(* What makes the invariants inductive.                                         *)

MainTypeOK ==
  main \in {Idle}
             \cup [doing : {"disposing"}, ticket : Infraction, to : Clients]
             \cup [doing : {"registering"}, id : Clients, todo : Seq(Roads),
                   backlog : Seq(Infraction)]

(* Ids are given out in order.                                                  *)
IdsInOrder == \A c \in Clients : status[c] = "none" <=> c >= client_n

(* A client is identified exactly when its task runs as what it announced.      *)
IdentifiedInTime ==
  \A c \in Clients :
    /\ status[c] \in {"none", "unid"} => ident[c] = NoIdent
    /\ status[c] = "running" => ident[c] # NoIdent

(* A client tells the main task at most two things, each of them once and in    *)
(* this order: what it is, and that it is gone.                                 *)
OwnEvents == {"camera", "dispatcher", "gone"}

EventsOnce ==
  \A i \in 1 .. Len(events) :
    events[i].type \in OwnEvents =>
      LET c == events[i].id IN
      /\ IF events[i].type = "gone" THEN status[c] = "gone"
                                    ELSE ident[c].kind = events[i].type
      /\ \A j \in 1 .. i - 1 :
           (events[j].type \in OwnEvents /\ events[j].id = c)
             => events[j].type # "gone" /\ events[i].type = "gone"

GoneIsLast ==
  \A c \in Clients :
    status[c] = "gone" /\ (Queued("camera", c) \/ Queued("dispatcher", c))
      => Queued("gone", c)

Registering(c) == main.doing = "registering" /\ main.id = c

(* The dispatchers are the clients whose announcement has been handled and      *)
(* whose Gone has not.                                                          *)
DispatchersAreKnown ==
  /\ dispatchers =
       {c \in Clients :
          /\ IsDispatcher(c)
          /\ ~ Queued("dispatcher", c)
          /\ status[c] = "gone" => Queued("gone", c)
          /\ ~ Registering(c)}
  /\ main.doing = "registering" =>
       /\ IsDispatcher(main.id)
       /\ ~ Queued("dispatcher", main.id)
       /\ status[main.id] = "gone" => Queued("gone", main.id)

(* A dispatcher is listed for each of its roads, and while it is registered for *)
(* those that the loop has passed.                                              *)
CoverageSoFar ==
  \A r \in Roads, c \in Clients :
    coverage[r][c] =
      IF c \in dispatchers THEN Occurrences(r, ident[c].roads)
      ELSE IF Registering(c)
           THEN Occurrences(r, ident[c].roads) - Occurrences(r, main.todo)
           ELSE 0

(* A ticket waits in the store only for want of anybody on its road.            *)
StoredUncovered ==
  \A r \in Roads :
    tickets[r] # <<>> => \A c \in Clients : coverage[r][c] = 0

Registry ==
  /\ IdsInOrder
  /\ IdentifiedInTime
  /\ EventsOnce
  /\ GoneIsLast
  /\ UnidentifiedIsUnheard
  /\ DispatchersAreKnown
  /\ CoverageSoFar
  /\ StoredUncovered

ServerIInv == IInv /\ ServerTypeOK /\ MainTypeOK /\ Registry

--------------------------------------------------------------------------------
(* Occurrences, the number of times a road is in an array.                      *)

LEMMA OccurrencesType ==
  ASSUME NEW roads \in Seq(Roads), NEW r
  PROVE  /\ IsFiniteSet({i \in 1 .. Len(roads) : roads[i] = r})
         /\ Occurrences(r, roads) \in Nat
         /\ Occurrences(r, roads) = 0 <=> r \notin ToSet(roads)
<1> DEFINE places == {i \in 1 .. Len(roads) : roads[i] = r}
<1>1. IsFiniteSet(1 .. Len(roads))
  BY FS_Interval, LenProperties
<1>2. IsFiniteSet(places)
  BY <1>1, FS_Subset
<1>3. Cardinality(places) \in Nat
  BY <1>2, FS_CardinalityType
<1>4. Cardinality(places) = 0 <=> places = {}
  BY <1>2, FS_EmptySet
<1>5. places = {} <=> r \notin ToSet(roads)
  BY LenProperties DEF ToSet
<1> QED
  BY <1>2, <1>3, <1>4, <1>5 DEF Occurrences

LEMMA OccurrencesTail ==
  ASSUME NEW roads \in Seq(Roads), roads # <<>>, NEW r
  PROVE  Occurrences(r, roads) =
           Occurrences(r, Tail(roads)) + (IF Head(roads) = r THEN 1 ELSE 0)
<1> DEFINE places(s) == {i \in 1 .. Len(s) : s[i] = r}
           later == {i \in places(roads) : i > 1}
           back == [i \in later |-> i - 1]
<1>1. /\ Len(roads) \in Nat \ {0}
      /\ Tail(roads) \in Seq(Roads)
      /\ Len(Tail(roads)) = Len(roads) - 1
      /\ \A i \in 1 .. Len(Tail(roads)) : Tail(roads)[i] = roads[i + 1]
      /\ Head(roads) = roads[1]
  BY HeadTailProperties, EmptySeq
<1>2. /\ IsFiniteSet(places(roads)) /\ IsFiniteSet(places(Tail(roads)))
  BY <1>1, OccurrencesType
<1>3. back \in Bijection(later, places(Tail(roads)))
  <2>1. back \in [later -> places(Tail(roads))]
    BY <1>1
  <2>2. \A i, j \in later : back[i] = back[j] => i = j
    OBVIOUS
  <2>3. \A j \in places(Tail(roads)) : j + 1 \in later /\ back[j + 1] = j
    BY <1>1
  <2> HIDE DEF back, later
  <2>4. \A j \in places(Tail(roads)) : \E i \in later : back[i] = j
    BY <2>3
  <2>5. back \in Injection(later, places(Tail(roads)))
    BY <2>1, <2>2, Fun_IsInj
  <2>6. back \in Surjection(later, places(Tail(roads)))
    BY <2>1, <2>4, Fun_IsSurj
  <2> QED
    BY <2>5, <2>6 DEF Bijection
<1>4. IsFiniteSet(later) /\ later \subseteq places(roads)
  BY <1>2, FS_Subset
<1>5. Cardinality(later) = Cardinality(places(Tail(roads)))
  <2> HIDE DEF later, places, back
  <2>1. ExistsBijection(later, places(Tail(roads)))
    BY <1>3 DEF ExistsBijection
  <2> QED
    BY <1>4, <2>1, FS_Bijection
<1>6. /\ Occurrences(r, roads) = Cardinality(places(roads))
      /\ Occurrences(r, Tail(roads)) = Cardinality(places(Tail(roads)))
  BY DEF Occurrences
<1>7. Occurrences(r, Tail(roads)) \in Nat
  BY <1>1, OccurrencesType
<1>8. CASE Head(roads) = r
  <2>1. \A i \in 1 .. Len(roads) : i = 1 \/ i > 1
    BY <1>1
  <2>2. 1 \in places(roads) /\ 1 \notin later
    BY <1>1, <1>8
  <2>3. places(roads) = later \cup {1}
    BY <2>1, <2>2
  <2> HIDE DEF later, places
  <2>4. Cardinality(places(roads)) = Cardinality(later) + 1
    BY <1>4, <2>2, <2>3, FS_AddElement
  <2> QED
    BY <1>5, <1>6, <1>8, <2>4
<1>9. CASE Head(roads) # r
  <2>1. places(roads) = later
    BY <1>1, <1>9
  <2> HIDE DEF later, places
  <2> QED
    BY <1>5, <1>6, <1>7, <1>9, <2>1
<1> QED
  BY <1>8, <1>9

--------------------------------------------------------------------------------
(* The queue of events.                                                         *)

LEMMA IdentFields ==
  ASSUME ServerTypeOK, NEW c \in Clients
  PROVE  /\ ident[c].kind \in {"none", "camera", "dispatcher"}
         /\ ident[c].kind = "none" <=> ident[c] = NoIdent
         /\ ident[c].kind = "camera" => ident[c].road \in Roads
         /\ IsDispatcher(c) => ident[c].roads \in Seq(Roads)
<1>1. ident[c] \in CameraIdents \cup DispatcherIdents \cup {NoIdent}
  BY DEF ServerTypeOK
<1> QED
  BY <1>1 DEF CameraIdents, DispatcherIdents, NoIdent, IsDispatcher

LEMMA EventFields ==
  ASSUME NEW e \in Event
  PROVE  /\ e.type \in OwnEvents \cup {"observation"}
         /\ e.type \in OwnEvents => e.id \in Clients
         /\ e.type = "observation" => e.report \in Report
BY DEF Event, OwnEvents

LEMMA HeadEvent ==
  ASSUME ServerTypeOK, events # <<>>
  PROVE  /\ Head(events) \in Event
         /\ Head(events) = events[1]
         /\ Len(events) \in Nat \ {0}
         /\ Tail(events) \in Seq(Event)
         /\ Len(Tail(events)) = Len(events) - 1
         /\ \A i \in 1 .. Len(Tail(events)) : Tail(events)[i] = events[i + 1]
<1>1. events \in Seq(Event)
  BY DEF ServerTypeOK
<1> QED
  BY <1>1, HeadTailProperties, EmptySeq

LEMMA QueuedAt ==
  ASSUME ServerTypeOK, NEW type, NEW c
  PROVE  Queued(type, c) <=>
           \E i \in 1 .. Len(events) : events[i].type = type /\ events[i].id = c
<1>1. DOMAIN events = 1 .. Len(events)
  BY LenProperties DEF ServerTypeOK
<1> QED
  BY <1>1 DEF Queued, ToSet

LEMMA QueuedFits ==
  ASSUME ServerTypeOK, EventsOnce, NEW c \in Clients
  PROVE  /\ Queued("gone", c) => status[c] = "gone"
         /\ Queued("camera", c) => ident[c].kind = "camera"
         /\ Queued("dispatcher", c) => ident[c].kind = "dispatcher"
BY QueuedAt DEF EventsOnce, OwnEvents

LEMMA QueuedAppend ==
  ASSUME ServerTypeOK, NEW e \in Event, events' = Append(events, e),
         NEW type, NEW c
  PROVE  Queued(type, c)' <=> Queued(type, c) \/ (e.type = type /\ e.id = c)
<1>1. /\ events' \in Seq(Event)
      /\ Len(events) \in Nat
      /\ Len(events') = Len(events) + 1
      /\ \A i \in 1 .. Len(events) : events'[i] = events[i]
      /\ events'[Len(events) + 1] = e
  BY AppendProperties, LenProperties DEF ServerTypeOK
<1>2. DOMAIN events' = 1 .. Len(events')
  BY <1>1, LenProperties
<1>3. Queued(type, c)' <=>
        \E i \in 1 .. Len(events') : events'[i].type = type /\ events'[i].id = c
  BY <1>2 DEF Queued, ToSet
<1> QED
  BY <1>1, <1>3, QueuedAt

(* What is queued of a client when the first event is taken.                    *)
LEMMA QueuedTail ==
  ASSUME ServerTypeOK, EventsOnce, events # <<>>, events' = Tail(events),
         NEW type \in OwnEvents, NEW c \in Clients,
         NEW e, e = Head(events)
  PROVE  IF e.type \in OwnEvents /\ e.id = c
         THEN /\ Queued(type, c)' <=>
                   Queued(type, c) /\ type = "gone" /\ e.type # "gone"
              /\ Queued(e.type, c)
         ELSE Queued(type, c)' <=> Queued(type, c)
<1>1. /\ events' \in Seq(Event)
      /\ e = events[1]
      /\ Len(events) \in Nat \ {0}
      /\ Len(events') = Len(events) - 1
      /\ \A i \in 1 .. Len(events') : events'[i] = events[i + 1]
  BY HeadEvent
<1>2. DOMAIN events' = 1 .. Len(events')
  BY <1>1, LenProperties
<1>3. Queued(type, c)' <=>
        \E i \in 1 .. Len(events') : events'[i].type = type /\ events'[i].id = c
  BY <1>2 DEF Queued, ToSet
<1>4. Queued(type, c)' <=>
        \E i \in 2 .. Len(events) : events[i].type = type /\ events[i].id = c
  <2>1. ASSUME NEW i \in 1 .. Len(events'), events'[i].type = type, events'[i].id = c
        PROVE  \E j \in 2 .. Len(events) : events[j].type = type /\ events[j].id = c
    <3>1. i + 1 \in 2 .. Len(events)
      BY <1>1
    <3> QED
      BY <1>1, <2>1, <3>1
  <2>2. ASSUME NEW i \in 2 .. Len(events), events[i].type = type, events[i].id = c
        PROVE  \E j \in 1 .. Len(events') : events'[j].type = type /\ events'[j].id = c
    <3>1. i - 1 \in 1 .. Len(events') /\ (i - 1) + 1 = i
      BY <1>1
    <3> QED
      BY <1>1, <2>2, <3>1
  <2> QED
    BY <1>3, <2>1, <2>2
<1>5. Queued(type, c) <=>
        \/ e.type = type /\ e.id = c
        \/ \E i \in 2 .. Len(events) : events[i].type = type /\ events[i].id = c
  <2>1. \A i \in 1 .. Len(events) : i = 1 \/ i \in 2 .. Len(events)
    BY <1>1
  <2> QED
    BY <1>1, <2>1, QueuedAt
<1>6. CASE e.type \in OwnEvents /\ e.id = c
  <2>1. ASSUME NEW i \in 2 .. Len(events), events[i].type = type, events[i].id = c
        PROVE  type = "gone" /\ e.type # "gone"
    <3>1. 1 \in 1 .. i - 1 /\ i \in 1 .. Len(events)
      BY <1>1
    <3> QED
      BY <1>1, <1>6, <2>1, <3>1 DEF EventsOnce
  <2>2. Queued(e.type, c)
    BY <1>1, <1>6, QueuedAt
  <2> QED
    BY <1>4, <1>5, <1>6, <2>1, <2>2
<1>7. CASE ~ (e.type \in OwnEvents /\ e.id = c)
  BY <1>4, <1>5, <1>7
<1> QED
  BY <1>6, <1>7

LEMMA EventsOnceTail ==
  ASSUME ServerTypeOK, EventsOnce, events # <<>>, events' = Tail(events),
         status' = status, ident' = ident
  PROVE  EventsOnce'
<1>1. /\ Len(events) \in Nat \ {0}
      /\ Len(events') = Len(events) - 1
      /\ \A i \in 1 .. Len(events') : events'[i] = events[i + 1]
  BY HeadEvent
<1> SUFFICES ASSUME NEW i \in 1 .. Len(events'), events'[i].type \in OwnEvents,
                    NEW c, c = events'[i].id
             PROVE  /\ IF events'[i].type = "gone"
                       THEN status[c] = "gone"
                       ELSE ident[c].kind = events'[i].type
                    /\ \A j \in 1 .. i - 1 :
                         (events'[j].type \in OwnEvents /\ events'[j].id = c)
                           => events'[j].type # "gone" /\ events'[i].type = "gone"
  BY DEF EventsOnce
<1>2. i + 1 \in 1 .. Len(events) /\ events'[i] = events[i + 1]
  BY <1>1
<1>3. \A j \in 1 .. i - 1 : j + 1 \in 1 .. (i + 1) - 1 /\ events'[j] = events[j + 1]
  BY <1>1
<1> QED
  BY <1>2, <1>3 DEF EventsOnce

LEMMA EventsOnceAppend ==
  ASSUME ServerTypeOK, EventsOnce,
         NEW e \in Event, events' = Append(events, e),
         \A c \in Clients :
           /\ status[c] = "gone" => status'[c] = "gone"
           /\ ident[c] # NoIdent => ident'[c] = ident[c],
         e.type \in OwnEvents =>
           /\ IF e.type = "gone" THEN status'[e.id] = "gone"
                                 ELSE ident'[e.id].kind = e.type
           /\ \A type \in OwnEvents :
                Queued(type, e.id) => type # "gone" /\ e.type = "gone"
  PROVE  EventsOnce'
<1>1. /\ events \in Seq(Event)
      /\ Len(events) \in Nat
      /\ Len(events') = Len(events) + 1
      /\ \A i \in 1 .. Len(events) : events'[i] = events[i]
      /\ events'[Len(events) + 1] = e
  BY AppendProperties, LenProperties DEF ServerTypeOK
<1> SUFFICES ASSUME NEW i \in 1 .. Len(events'), events'[i].type \in OwnEvents,
                    NEW c, c = events'[i].id
             PROVE  /\ IF events'[i].type = "gone"
                       THEN status'[c] = "gone"
                       ELSE ident'[c].kind = events'[i].type
                    /\ \A j \in 1 .. i - 1 :
                         (events'[j].type \in OwnEvents /\ events'[j].id = c)
                           => events'[j].type # "gone" /\ events'[i].type = "gone"
  BY DEF EventsOnce
<1>2. CASE i \in 1 .. Len(events)
  <2>1. events'[i] = events[i] /\ \A j \in 1 .. i - 1 : events'[j] = events[j]
    BY <1>1, <1>2
  <2>2. events[i] \in Event
    BY <1>1, <1>2, ElementOfSeq
  <2>3. c \in Clients
    BY <2>1, <2>2, EventFields
  <2>4. /\ IF events[i].type = "gone" THEN status[c] = "gone"
                                      ELSE ident[c].kind = events[i].type
        /\ \A j \in 1 .. i - 1 :
             (events[j].type \in OwnEvents /\ events[j].id = c)
               => events[j].type # "gone" /\ events[i].type = "gone"
    BY <1>2, <2>1 DEF EventsOnce
  <2>5. events[i].type # "gone" => ident'[c] = ident[c]
    BY <2>1, <2>3, <2>4, IdentFields DEF OwnEvents
  <2> QED
    BY <2>1, <2>3, <2>4, <2>5
<1>3. CASE i = Len(events) + 1
  <2>1. \A j \in 1 .. i - 1 : j \in 1 .. Len(events) /\ events'[j] = events[j]
    BY <1>1, <1>3
  <2>2. \A j \in 1 .. Len(events) :
          events[j].id = c => Queued(events[j].type, c)
    BY QueuedAt
  <2> QED
    BY <1>1, <1>3, <2>1, <2>2
<1> QED
  BY <1>1, <1>2, <1>3

--------------------------------------------------------------------------------
(* The steps that leave the registry alone: they neither touch a client's       *)
(* status or announcement nor what the main task knows of it, and add or take   *)
(* no event but observations.                                                   *)

LEMMA RegistryFrame ==
  ASSUME ServerTypeOK, Registry,
         UNCHANGED <<client_n, status, ident, unid_clients, dispatchers, coverage>>,
         EventsOnce',
         \A type \in OwnEvents, c \in Clients :
           Queued(type, c)' <=> Queued(type, c),
         main'.doing = "registering" <=> main.doing = "registering",
         main.doing = "registering" => main'.id = main.id /\ main'.todo = main.todo,
         main.doing = "registering" => main.id \in Clients,
         \A r \in Roads :
           tickets'[r] # <<>> =>
             tickets[r] # <<>> \/ \A c \in Clients : coverage[r][c] = 0
  PROVE  Registry'
<1>1. "gone" \in OwnEvents /\ "camera" \in OwnEvents /\ "dispatcher" \in OwnEvents
  BY DEF OwnEvents
<1>2. \A c \in Clients :
        /\ Queued("gone", c)' <=> Queued("gone", c)
        /\ Queued("camera", c)' <=> Queued("camera", c)
        /\ Queued("dispatcher", c)' <=> Queued("dispatcher", c)
  BY <1>1
<1>3. \A c \in Clients : Registering(c)' <=> Registering(c)
  BY DEF Registering
<1>4. \A c \in Clients : IsDispatcher(c)' <=> IsDispatcher(c)
  BY DEF IsDispatcher
<1>5. IdsInOrder' /\ IdentifiedInTime'
  BY DEF Registry, IdsInOrder, IdentifiedInTime
<1>6. GoneIsLast' /\ UnidentifiedIsUnheard'
  BY <1>2 DEF Registry, GoneIsLast, UnidentifiedIsUnheard
<1>7. DispatchersAreKnown'
  BY <1>2, <1>3, <1>4 DEF Registry, DispatchersAreKnown
<1>8. CoverageSoFar'
  BY <1>3 DEF Registry, CoverageSoFar, Registering
<1>9. StoredUncovered'
  BY DEF Registry, StoredUncovered
<1> QED
  BY <1>5, <1>6, <1>7, <1>8, <1>9 DEF Registry

LEMMA MainCases ==
  ASSUME MainTypeOK
  PROVE  /\ main.doing \in {"idle", "disposing", "registering"}
         /\ main.doing = "disposing" => main.ticket \in Infraction /\ main.to \in Clients
         /\ main.doing = "registering" =>
              /\ main \in [doing : {"registering"}, id : Clients, todo : Seq(Roads),
                           backlog : Seq(Infraction)]
              /\ main.id \in Clients
              /\ main.todo \in Seq(Roads)
              /\ main.backlog \in Seq(Infraction)
BY DEF MainTypeOK, Idle

LEMMA SendType ==
  ASSUME ServerTypeOK, NEW t \in Infraction, NEW c \in Clients, Send(t, c)
  PROVE  /\ chan' \in [Clients -> Seq(Infraction)]
         /\ \A d \in Clients : Len(chan'[d]) <= ChanSize
<1>1. chan \in [Clients -> Seq(Infraction)] /\ \A d \in Clients : Len(chan[d]) <= ChanSize
  BY DEF ServerTypeOK
<1>2. CASE chan' = chan
  BY <1>1, <1>2
<1>3. CASE Len(chan[c]) < ChanSize /\ chan' = [chan EXCEPT ![c] = Append(@, t)]
  <2>1. chan[c] \in Seq(Infraction)
    BY <1>1
  <2>2. /\ Append(chan[c], t) \in Seq(Infraction)
        /\ Len(Append(chan[c], t)) = Len(chan[c]) + 1
        /\ Len(chan[c]) \in Nat
    BY <2>1, AppendProperties, LenProperties
  <2>3. Len(Append(chan[c], t)) <= ChanSize
    BY <1>3, <2>2, ServerAssumption
  <2> QED
    BY <1>1, <1>3, <2>2, <2>3
<1> QED
  BY <1>2, <1>3 DEF Send

LEMMA PlateIInv ==
  ASSUME ServerIInv, NEW c \in Clients, NEW plate \in Plates, NEW obs \in Observations,
         Plate(c, plate, obs)
  PROVE  ServerIInv'
<1> DEFINE e == [type |-> "observation",
                 report |-> [plate |-> plate, road |-> ident[c].road, obs |-> obs]]
<1>1. /\ events' = Append(events, e)
      /\ UNCHANGED <<carVars, clientVars, mainVars, chan, history>>
      /\ ident[c].kind = "camera"
  BY DEF Plate, Emit
<1>2. e \in Event
  <2>1. ident[c].road \in Roads
    BY <1>1, IdentFields DEF ServerIInv
  <2> QED
    BY <2>1 DEF Event, Report
<1>3. e.type \notin OwnEvents /\ \A type \in OwnEvents : e.type # type
  BY DEF OwnEvents
<1> HIDE DEF e
<1>4. IInv'
  BY <1>1, StutterIInv DEF ServerIInv
<1>5. ServerTypeOK' /\ MainTypeOK'
  <2>1. events' \in Seq(Event)
    BY <1>1, <1>2, AppendProperties DEF ServerIInv, ServerTypeOK
  <2>2. TypeOK'
    BY <1>4 DEF IInv
  <2> QED
    BY <1>1, <2>1, <2>2 DEF ServerIInv, ServerTypeOK, MainTypeOK, clientVars, mainVars
<1>6. EventsOnce'
  BY <1>1, <1>2, <1>3, EventsOnceAppend DEF ServerIInv, Registry, clientVars
<1>7. Registry'
  BY <1>1, <1>2, <1>3, <1>6, QueuedAppend, RegistryFrame, MainCases
     DEF ServerIInv, clientVars, mainVars
<1> QED
  BY <1>4, <1>5, <1>7 DEF ServerIInv

(* Steps of a dispatcher's task with its tickets.                               *)
LEMMA TicketStepIInv ==
  ASSUME ServerIInv, NEW c \in Clients, TakeTicket(c) \/ WriteTicket(c)
  PROVE  ServerIInv'
<1>1. UNCHANGED <<carVars, client_n, status, ident, events, mainVars>>
  BY DEF TakeTicket, WriteTicket
<1>2. /\ hand \in [Clients -> Infraction \cup {NoTicket}]
      /\ chan \in [Clients -> Seq(Infraction)]
      /\ \A d \in Clients : Len(chan[d]) <= ChanSize
  BY DEF ServerIInv, ServerTypeOK
<1>3. /\ hand' \in [Clients -> Infraction \cup {NoTicket}]
      /\ chan' \in [Clients -> Seq(Infraction)]
      /\ \A d \in Clients : Len(chan'[d]) <= ChanSize
  <2>1. CASE TakeTicket(c)
    <3>1. chan[c] \in Seq(Infraction) /\ chan[c] # <<>>
      BY <1>2, <2>1 DEF TakeTicket
    <3>2. /\ Head(chan[c]) \in Infraction
          /\ Tail(chan[c]) \in Seq(Infraction)
          /\ Len(Tail(chan[c])) = Len(chan[c]) - 1
          /\ Len(chan[c]) \in Nat
      BY <3>1, HeadTailProperties, LenProperties
    <3>3. Len(Tail(chan[c])) <= ChanSize
      BY <1>2, <3>2, ServerAssumption
    <3> QED
      BY <1>2, <2>1, <3>2, <3>3 DEF TakeTicket
  <2>2. CASE WriteTicket(c)
    BY <1>2, <2>2 DEF WriteTicket
  <2> QED
    BY <2>1, <2>2
<1>4. IInv'
  BY <1>1, StutterIInv DEF ServerIInv
<1>5. ServerTypeOK' /\ MainTypeOK'
  <2>1. TypeOK'
    BY <1>4 DEF IInv
  <2> QED
    BY <1>1, <1>3, <2>1 DEF ServerIInv, ServerTypeOK, MainTypeOK, mainVars
<1>6. EventsOnce'
  BY <1>1 DEF ServerIInv, Registry, EventsOnce
<1>7. \A type \in OwnEvents, d \in Clients : Queued(type, d)' <=> Queued(type, d)
  BY <1>1 DEF Queued
<1>8. Registry'
  BY <1>1, <1>6, <1>7, RegistryFrame, MainCases DEF ServerIInv, mainVars
<1> QED
  BY <1>4, <1>5, <1>8 DEF ServerIInv

(* The main task sends a ticket and goes on.                                    *)
LEMMA SendStepIInv ==
  ASSUME ServerIInv, SendTicket \/ SendBacklog
  PROVE  ServerIInv'
<1>1. UNCHANGED <<carVars, clientVars, events, unid_clients, dispatchers, coverage,
                  tickets, delivered, dropped>>
  BY DEF SendTicket, SendBacklog
<1>2. /\ chan' \in [Clients -> Seq(Infraction)]
      /\ \A d \in Clients : Len(chan'[d]) <= ChanSize
  <2>1. CASE SendTicket
    BY <2>1, SendType, MainCases DEF ServerIInv, SendTicket
  <2>2. CASE SendBacklog
    <3>1. Head(main.backlog) \in Infraction /\ main.id \in Clients
      BY <2>2, MainCases, HeadTailProperties DEF ServerIInv, SendBacklog
    <3> QED
      BY <2>2, <3>1, SendType DEF ServerIInv, SendBacklog
  <2> QED
    BY <2>1, <2>2
<1>3. /\ MainTypeOK'
      /\ main'.doing = "registering" <=> main.doing = "registering"
      /\ main.doing = "registering" => main'.id = main.id /\ main'.todo = main.todo
  <2>1. CASE SendTicket
    BY <2>1 DEF SendTicket, MainTypeOK, Idle
  <2>2. CASE SendBacklog
    <3>1. /\ main \in [doing : {"registering"}, id : Clients, todo : Seq(Roads),
                       backlog : Seq(Infraction)]
          /\ Tail(main.backlog) \in Seq(Infraction)
          /\ main' = [main EXCEPT !.backlog = Tail(main.backlog)]
          /\ main.doing = "registering"
      BY <2>2, MainCases, HeadTailProperties DEF ServerIInv, SendBacklog
    <3> QED
      BY <3>1 DEF MainTypeOK
  <2> QED
    BY <2>1, <2>2
<1>4. IInv'
  BY <1>1, StutterIInv DEF ServerIInv
<1>5. ServerTypeOK'
  <2>1. TypeOK'
    BY <1>4 DEF IInv
  <2> QED
    BY <1>1, <1>2, <2>1 DEF ServerIInv, ServerTypeOK, clientVars
<1>6. EventsOnce'
  BY <1>1 DEF ServerIInv, Registry, EventsOnce, clientVars
<1>7. \A type \in OwnEvents, d \in Clients : Queued(type, d)' <=> Queued(type, d)
  BY <1>1 DEF Queued
<1>8. Registry'
  BY <1>1, <1>3, <1>6, <1>7, RegistryFrame, MainCases DEF ServerIInv, clientVars
<1> QED
  BY <1>3, <1>4, <1>5, <1>8 DEF ServerIInv

(* An observation is taken from the queue: what Cars makes of it.               *)
LEMMA ObservationStep ==
  ASSUME ServerIInv, NextEvent("observation")
  PROVE  /\ Head(events).report \in Report
         /\ Head(events).report.plate \in Plates
         /\ Head(events).report.road \in Roads
         /\ Head(events).report.obs \in Observations
         /\ Head(events).type \notin OwnEvents
         /\ events # <<>> /\ events' = Tail(events) /\ events' \in Seq(Event)
         /\ main.doing = "idle"
<1>1. Head(events) \in Event /\ Tail(events) \in Seq(Event)
  BY HeadEvent DEF ServerIInv, NextEvent
<1>2. Head(events).report \in Report
  BY <1>1, EventFields DEF NextEvent
<1> QED
  BY <1>1, <1>2 DEF NextEvent, OwnEvents, Report

LEMMA ObservationIInv ==
  ASSUME ServerIInv, RecordObservation \/ TicketObservation
  PROVE  ServerIInv'
<1> DEFINE rep == Head(events).report
<1>1. /\ rep.plate \in Plates /\ rep.road \in Roads /\ rep.obs \in Observations
      /\ Head(events).type \notin OwnEvents
      /\ events # <<>> /\ events' = Tail(events) /\ events' \in Seq(Event)
      /\ main.doing = "idle"
  BY ObservationStep DEF RecordObservation, TicketObservation
<1>2. UNCHANGED <<clientVars, unid_clients, dispatchers, coverage, chan, history>>
  BY DEF RecordObservation, TicketObservation, mainVars
<1>3. \/ IgnoreObs(rep.plate, rep.road, rep.obs)
      \/ StoreObs(rep.plate, rep.road, rep.obs)
      \/ IssueTicket(rep.plate, rep.road, rep.obs)
  BY DEF RecordObservation, TicketObservation
<1>4. IInv'
  <2> HIDE DEF rep
  <2> QED
    BY <1>1, <1>3, IgnoreIInv, StoreIInv, IssueIInv DEF ServerIInv
<1>5. TypeOK'
  BY <1>4 DEF IInv
<1>6. /\ MainTypeOK'
      /\ main'.doing # "registering"
      /\ tickets' \in [Roads -> Seq(Infraction)]
      /\ \A r \in Roads :
           tickets'[r] # <<>> =>
             tickets[r] # <<>> \/ \A c \in Clients : coverage[r][c] = 0
  <2>1. tickets \in [Roads -> Seq(Infraction)] /\ MainTypeOK
    BY DEF ServerIInv, ServerTypeOK
  <2>2. CASE main' = main /\ tickets' = tickets
    BY <1>1, <2>1, <2>2 DEF MainTypeOK
  <2>3. CASE TicketObservation
    <3> DEFINE t == issued'[Len(issued')]
    <3>1. t \in Infraction /\ t.road \in Roads
      <4>1. issued \in Seq(Infraction) /\ issued' \in Seq(Infraction)
        BY <1>5 DEF ServerIInv, IInv, TypeOK
      <4>2. issued' # <<>>
        <5>1. PICK u : issued' = Append(issued, u)
          BY <2>3 DEF TicketObservation, IssueTicket
        <5> QED
          BY <4>1, <5>1
      <4>3. Len(issued') \in 1 .. Len(issued')
        BY <4>1, <4>2, EmptySeq
      <4>4. t \in Infraction
        BY <4>1, <4>3, ElementOfSeq
      <4> QED
        BY <4>4 DEF Infraction
    <3>2. \/ /\ Available(t.road) = {}
             /\ tickets' = [tickets EXCEPT ![t.road] = Append(@, t)]
             /\ main' = main
          \/ \E d \in Available(t.road) :
               /\ main' = [doing |-> "disposing", ticket |-> t, to |-> d]
               /\ tickets' = tickets
      BY <2>3 DEF TicketObservation
    <3> HIDE DEF t
    <3>3. CASE /\ Available(t.road) = {}
               /\ tickets' = [tickets EXCEPT ![t.road] = Append(@, t)]
               /\ main' = main
      <4>1. Append(tickets[t.road], t) \in Seq(Infraction)
        BY <2>1, <3>1, AppendProperties
      <4>2. \A c \in Clients : coverage[t.road][c] = 0
        <5> SUFFICES ASSUME NEW c \in Clients PROVE coverage[t.road][c] = 0
          OBVIOUS
        <5>1. coverage[t.road][c] \in Nat
          BY <3>1 DEF ServerIInv, ServerTypeOK
        <5>2. CASE c \in dispatchers
          BY <3>3, <5>1, <5>2 DEF Available
        <5>3. CASE c \notin dispatchers
          BY <1>1, <3>1, <5>3 DEF ServerIInv, Registry, CoverageSoFar, Registering
        <5> QED
          BY <5>2, <5>3
      <4> QED
        BY <1>1, <2>1, <3>1, <3>3, <4>1, <4>2 DEF MainTypeOK
    <3>4. CASE \E d \in Available(t.road) :
                 /\ main' = [doing |-> "disposing", ticket |-> t, to |-> d]
                 /\ tickets' = tickets
      <4>1. Available(t.road) \subseteq Clients
        BY DEF Available, ServerIInv, ServerTypeOK
      <4> QED
        BY <2>1, <3>1, <3>4, <4>1 DEF MainTypeOK
    <3> QED
      BY <3>2, <3>3, <3>4
  <2> QED
    BY <2>2, <2>3 DEF RecordObservation, mainVars
<1>7. ServerTypeOK'
  BY <1>1, <1>2, <1>5, <1>6 DEF ServerIInv, ServerTypeOK, clientVars
<1>8. EventsOnce'
  BY <1>1, <1>2, EventsOnceTail DEF ServerIInv, Registry, clientVars
<1>9. \A type \in OwnEvents, c \in Clients : Queued(type, c)' <=> Queued(type, c)
  BY <1>1, QueuedTail DEF ServerIInv, Registry
<1>10. Registry'
  BY <1>1, <1>2, <1>6, <1>8, <1>9, RegistryFrame DEF ServerIInv, clientVars
<1> QED
  BY <1>4, <1>6, <1>7, <1>10 DEF ServerIInv

--------------------------------------------------------------------------------
(* The steps of a client's life.                                                *)

LEMMA AcceptIInv ==
  ASSUME ServerIInv, Accept
  PROVE  ServerIInv'
<1>1. /\ client_n \in Clients /\ client_n \in Nat /\ client_n + 1 \in 0 .. MaxClients
      /\ status[client_n] = "none" /\ ident[client_n] = NoIdent
  BY ServerAssumption
     DEF Accept, Clients, ServerIInv, ServerTypeOK, Registry, IdsInOrder, IdentifiedInTime
<1>2. /\ unid_clients' = unid_clients \cup {client_n}
      /\ status' = [status EXCEPT ![client_n] = "unid"]
      /\ client_n' = client_n + 1
      /\ UNCHANGED <<carVars, ident, hand, events, dispatchers, coverage, tickets,
                     main, chan, history>>
  BY DEF Accept
<1>3. /\ status'[client_n] = "unid"
      /\ \A c \in Clients : c # client_n => status'[c] = status[c]
      /\ \A c \in Clients : status'[c] = "gone" <=> status[c] = "gone"
  BY <1>1, <1>2 DEF ServerIInv, ServerTypeOK
<1>4. IInv'
  BY <1>2, StutterIInv DEF ServerIInv
<1>5. ServerTypeOK' /\ MainTypeOK'
  <2>1. TypeOK'
    BY <1>4 DEF IInv
  <2> QED
    BY <1>1, <1>2, <2>1 DEF ServerIInv, ServerTypeOK, MainTypeOK
<1>6. \A type, c : Queued(type, c)' <=> Queued(type, c)
  BY <1>2 DEF Queued
<1>7. /\ ~ Queued("camera", client_n)
      /\ ~ Queued("dispatcher", client_n)
      /\ ~ Queued("gone", client_n)
  BY <1>1, QueuedFits DEF ServerIInv, Registry, NoIdent
<1>8. IdsInOrder'
  BY <1>1, <1>2, <1>3 DEF ServerIInv, Registry, IdsInOrder, Clients
<1>9. IdentifiedInTime'
  BY <1>1, <1>2, <1>3 DEF ServerIInv, Registry, IdentifiedInTime
<1>10. EventsOnce'
  <2>1. \A i \in 1 .. Len(events) : events[i].type \in OwnEvents => events[i].id \in Clients
    BY ElementOfSeq, EventFields DEF ServerIInv, ServerTypeOK
  <2> QED
    BY <1>2, <1>3, <2>1 DEF ServerIInv, Registry, EventsOnce
<1>11. GoneIsLast' /\ UnidentifiedIsUnheard'
  BY <1>1, <1>2, <1>3, <1>6
     DEF ServerIInv, Registry, GoneIsLast, UnidentifiedIsUnheard
<1>12. DispatchersAreKnown'
  BY <1>2, <1>3, <1>6, MainCases
     DEF ServerIInv, Registry, DispatchersAreKnown, IsDispatcher, Registering
<1>13. CoverageSoFar' /\ StoredUncovered'
  BY <1>2 DEF ServerIInv, Registry, CoverageSoFar, StoredUncovered, Registering
<1> QED
  BY <1>4, <1>5, <1>8, <1>9, <1>10, <1>11, <1>12, <1>13 DEF ServerIInv, Registry

LEMMA IdentifyIInv ==
  ASSUME ServerIInv, NEW c \in Clients, Identify(c)
  PROVE  ServerIInv'
<1>1. PICK i \in Idents[c] :
        /\ ident' = [ident EXCEPT ![c] = i]
        /\ events' = Append(events, [type |-> i.kind, id |-> c])
  BY DEF Identify, Emit
<1> DEFINE e == [type |-> i.kind, id |-> c]
<1>2. /\ status[c] = "unid" /\ ident[c] = NoIdent
      /\ status' = [status EXCEPT ![c] = "running"]
      /\ UNCHANGED <<carVars, client_n, hand, mainVars, chan, history>>
  BY DEF Identify, ServerIInv, Registry, IdentifiedInTime
<1>3. /\ i \in CameraIdents \cup DispatcherIdents
      /\ i.kind \in {"camera", "dispatcher"}
      /\ i # NoIdent
      /\ ident'[c] = i
      /\ e \in Event
  <2>1. i \in CameraIdents \cup DispatcherIdents
    BY ServerAssumption
  <2>2. i.kind \in {"camera", "dispatcher"}
    BY <2>1 DEF CameraIdents, DispatcherIdents
  <2> QED
    BY <1>1, <2>1, <2>2 DEF NoIdent, Event, ServerIInv, ServerTypeOK
<1>4. /\ e.type = i.kind /\ e.id = c
      /\ events' = Append(events, e)
  BY <1>1
<1> HIDE DEF e
<1>5. /\ status'[c] = "running"
      /\ \A d \in Clients : d # c => status'[d] = status[d] /\ ident'[d] = ident[d]
      /\ \A d \in Clients : status'[d] = "gone" <=> status[d] = "gone"
      /\ \A d \in Clients : status'[d] = "none" <=> status[d] = "none"
  BY <1>1, <1>2 DEF ServerIInv, ServerTypeOK
<1>6. IInv'
  BY <1>2, StutterIInv DEF ServerIInv
<1>7. ServerTypeOK' /\ MainTypeOK'
  <2>1. TypeOK'
    BY <1>6 DEF IInv
  <2>2. events' \in Seq(Event)
    BY <1>3, <1>4, AppendProperties DEF ServerIInv, ServerTypeOK
  <2> QED
    BY <1>1, <1>2, <1>3, <2>1, <2>2 DEF ServerIInv, ServerTypeOK, MainTypeOK, mainVars
<1>8. \A type, d : Queued(type, d)' <=> Queued(type, d) \/ (type = i.kind /\ d = c)
  BY <1>3, <1>4, QueuedAppend DEF ServerIInv
<1>9. ~ Queued("camera", c) /\ ~ Queued("dispatcher", c) /\ ~ Queued("gone", c)
  BY <1>2, QueuedFits DEF ServerIInv, Registry, NoIdent
<1>10. IdsInOrder' /\ IdentifiedInTime'
  BY <1>2, <1>3, <1>5 DEF ServerIInv, Registry, IdsInOrder, IdentifiedInTime
<1>11. EventsOnce'
  <2>1. \A d \in Clients : ident[d] # NoIdent => ident'[d] = ident[d]
    BY <1>2, <1>5
  <2> QED
    BY <1>3, <1>4, <1>5, <1>9, <2>1, EventsOnceAppend DEF ServerIInv, Registry, OwnEvents
<1>12. GoneIsLast' /\ UnidentifiedIsUnheard'
  BY <1>2, <1>3, <1>5, <1>8
     DEF ServerIInv, Registry, GoneIsLast, UnidentifiedIsUnheard, mainVars
<1>13. ~ IsDispatcher(c) /\ c \notin dispatchers /\ ~ Registering(c)
  BY <1>2 DEF ServerIInv, Registry, DispatchersAreKnown, Registering, IsDispatcher, NoIdent
<1>14. DispatchersAreKnown'
  <2>1. \A d \in Clients : Registering(d)' <=> Registering(d)
    BY <1>2 DEF Registering, mainVars
  <2>2. \A d \in Clients : d # c => (IsDispatcher(d)' <=> IsDispatcher(d))
    BY <1>5 DEF IsDispatcher
  <2>3. \A d \in Clients :
          IsDispatcher(d)' /\ ~ Queued("dispatcher", d)'
            <=> IsDispatcher(d) /\ ~ Queued("dispatcher", d)
    BY <1>3, <1>8, <1>13, <2>2 DEF IsDispatcher
  <2>4. main.doing = "registering" => main.id # c /\ main.id \in Clients
    BY <1>13, MainCases DEF Registering, ServerIInv
  <2> QED
    BY <1>2, <1>3, <1>5, <1>8, <2>1, <2>3, <2>4
       DEF ServerIInv, Registry, DispatchersAreKnown, mainVars
<1>15. CoverageSoFar' /\ StoredUncovered'
  BY <1>2, <1>5, <1>13
     DEF ServerIInv, Registry, CoverageSoFar, StoredUncovered, Registering, mainVars
<1> QED
  BY <1>6, <1>7, <1>10, <1>11, <1>12, <1>14, <1>15 DEF ServerIInv, Registry

(* A task ends: orderly, which the main task is told of, or in a panic, which   *)
(* it is not.                                                                   *)
LEMMA EndingIInv ==
  ASSUME ServerIInv, NEW c \in Clients, End(c) \/ Finish(c) \/ Panic(c)
  PROVE  ServerIInv'
<1> DEFINE e == [type |-> "gone", id |-> c]
<1>1. /\ UNCHANGED <<carVars, client_n, ident, mainVars>>
      /\ \/ /\ status[c] \in {"unid", "running"}
            /\ status' = [status EXCEPT ![c] = "over"]
            /\ hand' = [hand EXCEPT ![c] = NoTicket]
            /\ UNCHANGED <<events, chan>>
         \/ /\ status[c] = "over"
            /\ status' = [status EXCEPT ![c] = "gone"]
            /\ events' = Append(events, e)
            /\ chan' = [chan EXCEPT ![c] = <<>>]
            /\ UNCHANGED hand
         \/ /\ status[c] \in {"unid", "running"}
            /\ status' = [status EXCEPT ![c] = "panicked"]
            /\ chan' = [chan EXCEPT ![c] = <<>>]
            /\ UNCHANGED <<events, hand>>
  BY DEF End, Finish, Panic, Emit
<1>2. e \in Event /\ e.type = "gone" /\ e.id = c
  BY DEF Event
<1> HIDE DEF e
<1>3. /\ \A d \in Clients : d # c => status'[d] = status[d]
      /\ status'[c] \in {"over", "gone", "panicked"}
      /\ \A d \in Clients : status[d] = "gone" => status'[d] = "gone"
      /\ \A d \in Clients : status'[d] = "none" <=> status[d] = "none"
      /\ status[c] \in {"unid", "running", "over"}
  BY <1>1 DEF ServerIInv, ServerTypeOK
<1>4. \/ events' = events /\ status'[c] # "gone"
      \/ events' = Append(events, e) /\ status'[c] = "gone" /\ status[c] = "over"
  BY <1>1 DEF ServerIInv, ServerTypeOK
<1>5. IInv'
  BY <1>1, StutterIInv DEF ServerIInv
<1>6. ServerTypeOK' /\ MainTypeOK'
  <2>1. TypeOK'
    BY <1>5 DEF IInv
  <2>2. events' \in Seq(Event)
    <3>1. events \in Seq(Event)
      BY DEF ServerIInv, ServerTypeOK
    <3>2. Append(events, e) \in Seq(Event)
      BY <1>2, <3>1, AppendProperties
    <3> QED
      BY <1>4, <3>1, <3>2
  <2>3. status' \in [Clients -> {"none", "unid", "running", "over", "gone", "panicked"}]
    BY <1>1 DEF ServerIInv, ServerTypeOK
  <2>4. hand' \in [Clients -> Infraction \cup {NoTicket}]
    BY <1>1 DEF ServerIInv, ServerTypeOK
  <2>5. /\ chan' \in [Clients -> Seq(Infraction)]
        /\ \A d \in Clients : Len(chan'[d]) <= ChanSize
    <3>1. <<>> \in Seq(Infraction) /\ Len(<<>>) = 0 /\ 0 <= ChanSize
      BY ServerAssumption
    <3> QED
      BY <1>1, <3>1 DEF ServerIInv, ServerTypeOK
  <2> QED
    BY <1>1, <2>1, <2>2, <2>3, <2>4, <2>5
       DEF ServerIInv, ServerTypeOK, MainTypeOK, mainVars
<1>7. \A type, d :
        Queued(type, d)' <=>
          Queued(type, d) \/ (status'[c] = "gone" /\ type = "gone" /\ d = c)
  <2>1. CASE events' = events /\ status'[c] # "gone"
    BY <2>1 DEF Queued
  <2>2. CASE events' = Append(events, e) /\ status'[c] = "gone"
    BY <1>2, <2>2, QueuedAppend DEF ServerIInv
  <2> QED
    BY <1>4, <2>1, <2>2
<1>8. ~ Queued("gone", c)
  BY <1>3, QueuedFits DEF ServerIInv, Registry
<1>9. IdsInOrder' /\ IdentifiedInTime'
  BY <1>1, <1>3 DEF ServerIInv, Registry, IdsInOrder, IdentifiedInTime
<1>10. EventsOnce'
  <2>1. CASE events' = events
    <3>1. \A i \in 1 .. Len(events) :
            events[i].type \in OwnEvents => events[i].id \in Clients
      BY ElementOfSeq, EventFields DEF ServerIInv, ServerTypeOK
    <3> QED
      BY <1>1, <1>3, <2>1, <3>1 DEF ServerIInv, Registry, EventsOnce
  <2>2. CASE events' = Append(events, e) /\ status'[c] = "gone"
    BY <1>1, <1>2, <1>3, <1>8, <2>2, EventsOnceAppend DEF ServerIInv, Registry
  <2> QED
    BY <1>4, <2>1, <2>2
<1>11. GoneIsLast' /\ UnidentifiedIsUnheard'
  <2>1. status[c] = "running" => ident[c] # NoIdent
    BY DEF ServerIInv, Registry, IdentifiedInTime
  <2> QED
    BY <1>1, <1>3, <1>7, <2>1
       DEF ServerIInv, Registry, GoneIsLast, UnidentifiedIsUnheard, mainVars
<1>12. DispatchersAreKnown'
  <2>1. \A d \in Clients : Registering(d)' <=> Registering(d)
    BY <1>1 DEF Registering, mainVars
  <2>2. \A d \in Clients :
          /\ IsDispatcher(d)' <=> IsDispatcher(d)
          /\ Queued("dispatcher", d)' <=> Queued("dispatcher", d)
          /\ (status'[d] = "gone" => Queued("gone", d)')
               <=> (status[d] = "gone" => Queued("gone", d))
    BY <1>1, <1>3, <1>7 DEF IsDispatcher
  <2>3. main.doing = "registering" => main.id \in Clients
    BY MainCases DEF ServerIInv
  <2> QED
    BY <1>1, <2>1, <2>2, <2>3 DEF ServerIInv, Registry, DispatchersAreKnown, mainVars
<1>13. CoverageSoFar' /\ StoredUncovered'
  BY <1>1 DEF ServerIInv, Registry, CoverageSoFar, StoredUncovered, Registering, mainVars
<1> QED
  BY <1>5, <1>6, <1>9, <1>10, <1>11, <1>12, <1>13 DEF ServerIInv, Registry

--------------------------------------------------------------------------------
(* The steps of the main task that change what it knows.                        *)

(* An event of a client's own is taken from the queue.                          *)
LEMMA OwnEventStep ==
  ASSUME ServerIInv, NEW type \in OwnEvents, NextEvent(type), UNCHANGED clientVars,
         NEW c, c = Head(events).id
  PROVE  /\ c \in Clients
         /\ main.doing = "idle"
         /\ events' \in Seq(Event)
         /\ EventsOnce'
         /\ Queued(type, c)
         /\ ~ Queued("camera", c)' /\ ~ Queued("dispatcher", c)'
         /\ Queued("gone", c)' <=> Queued("gone", c) /\ type # "gone"
         /\ \A d \in Clients : d # c =>
              /\ Queued("camera", d)' <=> Queued("camera", d)
              /\ Queued("dispatcher", d)' <=> Queued("dispatcher", d)
              /\ Queued("gone", d)' <=> Queued("gone", d)
<1>1. /\ events # <<>> /\ events' = Tail(events) /\ Head(events).type = type
      /\ main.doing = "idle"
  BY DEF NextEvent
<1>2. Head(events) \in Event /\ Tail(events) \in Seq(Event)
  BY <1>1, HeadEvent DEF ServerIInv
<1>3. c \in Clients
  BY <1>1, <1>2, EventFields
<1>4. EventsOnce'
  BY <1>1, EventsOnceTail DEF ServerIInv, Registry, clientVars
<1>5. "camera" \in OwnEvents /\ "dispatcher" \in OwnEvents /\ "gone" \in OwnEvents
  BY DEF OwnEvents
<1>6. /\ Queued(type, c)
      /\ \A t \in OwnEvents :
           Queued(t, c)' <=> Queued(t, c) /\ t = "gone" /\ type # "gone"
      /\ \A t \in OwnEvents, d \in Clients :
           d # c => (Queued(t, d)' <=> Queued(t, d))
  BY <1>1, <1>3, QueuedTail DEF ServerIInv, Registry
<1> QED
  BY <1>1, <1>2, <1>3, <1>4, <1>5, <1>6

LEMMA HandleCameraIInv ==
  ASSUME ServerIInv, HandleCamera
  PROVE  ServerIInv'
<1> PICK c : c = Head(events).id
  OBVIOUS
<1>1. /\ NextEvent("camera")
      /\ unid_clients' = unid_clients \ {c}
      /\ UNCHANGED <<carVars, clientVars, dispatchers, coverage, tickets, main, chan,
                     history>>
  BY DEF HandleCamera
<1>2. c = Head(events).id /\ "camera" \in OwnEvents
  BY DEF OwnEvents
<1>3. /\ c \in Clients
      /\ main.doing = "idle"
      /\ events' \in Seq(Event)
      /\ EventsOnce'
      /\ Queued("camera", c)
      /\ ~ Queued("camera", c)' /\ ~ Queued("dispatcher", c)'
      /\ Queued("gone", c)' <=> Queued("gone", c)
      /\ \A d \in Clients : d # c =>
           /\ Queued("camera", d)' <=> Queued("camera", d)
           /\ Queued("dispatcher", d)' <=> Queued("dispatcher", d)
           /\ Queued("gone", d)' <=> Queued("gone", d)
  BY <1>1, <1>2, OwnEventStep
<1>4. ident[c].kind = "camera" /\ ident[c] # NoIdent
  BY <1>3, QueuedFits DEF ServerIInv, Registry, NoIdent
<1>5. IInv'
  BY <1>1, StutterIInv DEF ServerIInv
<1>6. ServerTypeOK' /\ MainTypeOK'
  <2>1. TypeOK'
    BY <1>5 DEF IInv
  <2> QED
    BY <1>1, <1>3, <2>1 DEF ServerIInv, ServerTypeOK, MainTypeOK, clientVars
<1>7. IdsInOrder' /\ IdentifiedInTime'
  BY <1>1 DEF ServerIInv, Registry, IdsInOrder, IdentifiedInTime, clientVars
<1>8. GoneIsLast' /\ UnidentifiedIsUnheard'
  BY <1>1, <1>2, <1>3, <1>4
     DEF ServerIInv, Registry, GoneIsLast, UnidentifiedIsUnheard, clientVars
<1>9. DispatchersAreKnown'
  <2>1. \A d \in Clients : Registering(d)' <=> Registering(d)
    BY <1>1 DEF Registering
  <2>2. \A d \in Clients : IsDispatcher(d)' <=> IsDispatcher(d)
    BY <1>1 DEF IsDispatcher, clientVars
  <2>3. ~ IsDispatcher(c)
    BY <1>4 DEF IsDispatcher
  <2>4. main.doing = "registering" => main.id \in Clients
    BY MainCases DEF ServerIInv
  <2> QED
    BY <1>1, <1>2, <1>3, <2>1, <2>2, <2>3, <2>4
       DEF ServerIInv, Registry, DispatchersAreKnown, clientVars
<1>10. CoverageSoFar' /\ StoredUncovered'
  BY <1>1 DEF ServerIInv, Registry, CoverageSoFar, StoredUncovered, Registering, clientVars
<1> QED
  BY <1>3, <1>5, <1>6, <1>7, <1>8, <1>9, <1>10 DEF ServerIInv, Registry

LEMMA HandleDispatcherIInv ==
  ASSUME ServerIInv, HandleDispatcher
  PROVE  ServerIInv'
<1> PICK c : c = Head(events).id
  OBVIOUS
<1>1. /\ NextEvent("dispatcher")
      /\ IF c \in unid_clients
         THEN /\ unid_clients' = unid_clients \ {c}
              /\ main' = [doing |-> "registering", id |-> c,
                          todo |-> ident[c].roads, backlog |-> <<>>]
         ELSE UNCHANGED <<unid_clients, main>>
      /\ UNCHANGED <<carVars, clientVars, dispatchers, coverage, tickets, chan, history>>
  BY DEF HandleDispatcher
<1>2. c = Head(events).id /\ "dispatcher" \in OwnEvents
  BY DEF OwnEvents
<1>3. /\ c \in Clients
      /\ main.doing = "idle"
      /\ events' \in Seq(Event)
      /\ EventsOnce'
      /\ Queued("dispatcher", c)
      /\ ~ Queued("camera", c)' /\ ~ Queued("dispatcher", c)'
      /\ Queued("gone", c)' <=> Queued("gone", c)
      /\ \A d \in Clients : d # c =>
           /\ Queued("camera", d)' <=> Queued("camera", d)
           /\ Queued("dispatcher", d)' <=> Queued("dispatcher", d)
           /\ Queued("gone", d)' <=> Queued("gone", d)
  BY <1>1, <1>2, OwnEventStep
<1>4. IsDispatcher(c) /\ ident[c] # NoIdent /\ ident[c].roads \in Seq(Roads)
  BY <1>3, QueuedFits, IdentFields DEF ServerIInv, Registry, NoIdent, IsDispatcher
(* So the identification is never one that was not waited for.                  *)
<1>5. c \in unid_clients
  BY <1>3 DEF ServerIInv, Registry, UnidentifiedIsUnheard
<1>6. /\ unid_clients' = unid_clients \ {c}
      /\ main' = [doing |-> "registering", id |-> c,
                  todo |-> ident[c].roads, backlog |-> <<>>]
  BY <1>1, <1>5
<1>7. status[c] = "gone" => Queued("gone", c)
  BY <1>3 DEF ServerIInv, Registry, GoneIsLast
<1>8. IInv'
  BY <1>1, StutterIInv DEF ServerIInv
<1>9. ServerTypeOK' /\ MainTypeOK'
  <2>1. TypeOK'
    BY <1>8 DEF IInv
  <2>2. MainTypeOK'
    BY <1>3, <1>4, <1>6 DEF MainTypeOK
  <2> QED
    BY <1>1, <1>3, <1>6, <2>1, <2>2 DEF ServerIInv, ServerTypeOK, clientVars
<1>10. IdsInOrder' /\ IdentifiedInTime'
  BY <1>1 DEF ServerIInv, Registry, IdsInOrder, IdentifiedInTime, clientVars
<1>11. GoneIsLast' /\ UnidentifiedIsUnheard'
  BY <1>1, <1>2, <1>3, <1>4, <1>6
     DEF ServerIInv, Registry, GoneIsLast, UnidentifiedIsUnheard, clientVars
<1>12. \A d \in Clients : Registering(d)' <=> d = c
  BY <1>6 DEF Registering
<1>13. DispatchersAreKnown'
  <2>1. \A d \in Clients : IsDispatcher(d)' <=> IsDispatcher(d)
    BY <1>1 DEF IsDispatcher, clientVars
  <2>2. main'.id = c /\ main'.doing = "registering"
    BY <1>6
  <2>3. \A d \in Clients : ~ Registering(d)
    BY <1>3 DEF Registering
  <2> QED
    BY <1>1, <1>2, <1>3, <1>4, <1>7, <1>12, <2>1, <2>2, <2>3
       DEF ServerIInv, Registry, DispatchersAreKnown, clientVars
<1>14. CoverageSoFar'
  <2>1. c \notin dispatchers /\ dispatchers' = dispatchers
    BY <1>1, <1>3 DEF ServerIInv, Registry, DispatchersAreKnown
  <2>2. \A r \in Roads : coverage[r][c] = 0
    BY <1>3, <2>1 DEF ServerIInv, Registry, CoverageSoFar, Registering
  <2>3. /\ main'.todo = ident[c].roads
        /\ \A r \in Roads : Occurrences(r, ident[c].roads) \in Nat
    BY <1>4, <1>6, OccurrencesType
  <2> QED
    BY <1>1, <1>3, <1>12, <2>1, <2>2, <2>3
       DEF ServerIInv, Registry, CoverageSoFar, Registering, clientVars
<1>15. StoredUncovered'
  BY <1>1 DEF ServerIInv, Registry, StoredUncovered
<1> QED
  BY <1>3, <1>8, <1>9, <1>10, <1>11, <1>13, <1>14, <1>15 DEF ServerIInv, Registry

LEMMA HandleGoneIInv ==
  ASSUME ServerIInv, HandleGone
  PROVE  ServerIInv'
<1> PICK c : c = Head(events).id
  OBVIOUS
<1>1. /\ NextEvent("gone")
      /\ IF c \in dispatchers
         THEN /\ dispatchers' = dispatchers \ {c}
              /\ coverage' = RemoveRoads(c)
              /\ UNCHANGED unid_clients
         ELSE /\ unid_clients' = unid_clients \ {c}
              /\ UNCHANGED <<dispatchers, coverage>>
      /\ UNCHANGED <<carVars, clientVars, tickets, main, chan, history>>
  BY DEF HandleGone
<1>2. c = Head(events).id /\ "gone" \in OwnEvents
  BY DEF OwnEvents
<1>3. /\ c \in Clients
      /\ main.doing = "idle"
      /\ events' \in Seq(Event)
      /\ EventsOnce'
      /\ Queued("gone", c)
      /\ ~ Queued("camera", c)' /\ ~ Queued("dispatcher", c)' /\ ~ Queued("gone", c)'
      /\ \A d \in Clients : d # c =>
           /\ Queued("camera", d)' <=> Queued("camera", d)
           /\ Queued("dispatcher", d)' <=> Queued("dispatcher", d)
           /\ Queued("gone", d)' <=> Queued("gone", d)
  BY <1>1, <1>2, OwnEventStep
<1>4. status[c] = "gone"
  BY <1>3, QueuedFits DEF ServerIInv, Registry
(* The client's announcement, if it made one, has been handled before.          *)
<1>5. ~ Queued("camera", c) /\ ~ Queued("dispatcher", c)
  <2>1. events # <<>> /\ events' = Tail(events) /\ Head(events).type = "gone"
    BY <1>1 DEF NextEvent
  <2>2. \A t \in OwnEvents : t # "gone" => ~ Queued(t, c)
    <3> SUFFICES ASSUME NEW t \in OwnEvents, t # "gone", Queued(t, c)
                 PROVE  FALSE
      OBVIOUS
    <3>1. PICK i \in 1 .. Len(events) : events[i].type = t /\ events[i].id = c
      BY QueuedAt DEF ServerIInv
    <3>2. Head(events) = events[1] /\ Len(events) \in Nat \ {0}
      BY <2>1, HeadEvent DEF ServerIInv
    <3>3. i # 1 /\ 1 \in 1 .. i - 1
      BY <2>1, <3>1, <3>2
    <3> QED
      BY <1>2, <2>1, <3>1, <3>2, <3>3 DEF ServerIInv, Registry, EventsOnce
  <2> QED
    BY <2>2 DEF OwnEvents
<1>6. \A r \in Roads, d \in Clients :
        /\ coverage'[r][d] \in Nat
        /\ coverage'[r][d] = IF d = c THEN 0 ELSE coverage[r][d]
  <2>1. \A r \in Roads, d \in Clients : coverage[r][d] \in Nat
    BY DEF ServerIInv, ServerTypeOK
  <2>2. CASE c \in dispatchers
    <3> SUFFICES ASSUME NEW r \in Roads, NEW d \in Clients
                 PROVE  /\ coverage'[r][d] \in Nat
                        /\ coverage'[r][d] = IF d = c THEN 0 ELSE coverage[r][d]
      OBVIOUS
    <3> DEFINE n == Occurrences(r, ident[c].roads)
    <3>1. coverage[r][c] = n /\ n \in Nat
      BY <1>3, <2>1, <2>2 DEF ServerIInv, Registry, CoverageSoFar
    <3>2. coverage'[r] = [coverage[r] EXCEPT ![c] = IF @ > n THEN @ - n ELSE 0]
      BY <1>1, <2>2 DEF RemoveRoads
    <3> HIDE DEF n
    <3>3. coverage'[r] = [coverage[r] EXCEPT ![c] = 0]
      BY <3>1, <3>2
    <3>4. coverage[r] \in [Clients -> Nat]
      BY DEF ServerIInv, ServerTypeOK
    <3> QED
      BY <1>3, <3>3, <3>4
  <2>3. CASE c \notin dispatchers
    <3>1. \A r \in Roads : coverage[r][c] = 0
      BY <1>3, <2>3 DEF ServerIInv, Registry, CoverageSoFar, Registering
    <3> QED
      BY <1>1, <2>1, <2>3, <3>1
  <2> QED
    BY <2>2, <2>3
<1>7. coverage' \in [Roads -> [Clients -> Nat]]
  <2>1. coverage \in [Roads -> [Clients -> Nat]]
    BY DEF ServerIInv, ServerTypeOK
  <2>2. CASE coverage' = RemoveRoads(c)
    <3>1. coverage' = [r \in Roads |-> coverage'[r]]
      BY <2>2 DEF RemoveRoads
    <3>2. \A r \in Roads : coverage'[r] = [d \in Clients |-> coverage'[r][d]]
      BY <2>1, <2>2 DEF RemoveRoads
    <3> QED
      BY <1>6, <3>1, <3>2
  <2> QED
    BY <1>1, <2>1, <2>2
<1>8. IInv'
  BY <1>1, StutterIInv DEF ServerIInv
<1>9. ServerTypeOK' /\ MainTypeOK'
  <2>1. TypeOK'
    BY <1>8 DEF IInv
  <2> QED
    BY <1>1, <1>3, <1>7, <2>1 DEF ServerIInv, ServerTypeOK, MainTypeOK, clientVars
<1>10. IdsInOrder' /\ IdentifiedInTime'
  BY <1>1 DEF ServerIInv, Registry, IdsInOrder, IdentifiedInTime, clientVars
<1>11. GoneIsLast'
  BY <1>1, <1>3 DEF ServerIInv, Registry, GoneIsLast, clientVars
<1>12. c \in dispatchers <=> IsDispatcher(c)
  BY <1>3, <1>5 DEF ServerIInv, Registry, DispatchersAreKnown, Registering
<1>13. UnidentifiedIsUnheard'
  <2>1. c \in dispatchers => c \notin unid_clients
    BY <1>4, <1>5, <1>12
       DEF ServerIInv, Registry, UnidentifiedIsUnheard, IsDispatcher, NoIdent
  <2>2. unid_clients' = unid_clients \ {c}
    BY <1>1, <2>1
  <2> QED
    BY <1>1, <1>3, <1>4, <2>2 DEF ServerIInv, Registry, UnidentifiedIsUnheard, clientVars
<1>14. DispatchersAreKnown'
  <2>1. \A d \in Clients : IsDispatcher(d)' <=> IsDispatcher(d)
    BY <1>1 DEF IsDispatcher, clientVars
  <2>2. \A d \in Clients : Registering(d)' <=> Registering(d)
    BY <1>1 DEF Registering
  <2>3. dispatchers' = dispatchers \ {c}
    BY <1>1
  <2> QED
    BY <1>1, <1>3, <1>4, <2>1, <2>2, <2>3
       DEF ServerIInv, Registry, DispatchersAreKnown, clientVars
<1>15. CoverageSoFar'
  <2>1. dispatchers' = dispatchers \ {c} /\ ident' = ident /\ main' = main
    BY <1>1 DEF clientVars
  <2> QED
    BY <1>3, <1>6, <2>1 DEF ServerIInv, Registry, CoverageSoFar, Registering
<1>16. StoredUncovered'
  BY <1>1, <1>6 DEF ServerIInv, Registry, StoredUncovered
<1> QED
  BY <1>3, <1>8, <1>9, <1>10, <1>11, <1>13, <1>14, <1>15, <1>16 DEF ServerIInv, Registry

LEMMA RegisterRoadIInv ==
  ASSUME ServerIInv, RegisterRoad
  PROVE  ServerIInv'
<1> PICK road, id : road = Head(main.todo) /\ id = main.id
  OBVIOUS
<1>1. /\ main.doing = "registering" /\ main.todo # <<>>
      /\ coverage' = [coverage EXCEPT ![road][id] = @ + 1]
      /\ main' = [main EXCEPT !.todo = Tail(@), !.backlog = tickets[road]]
      /\ tickets' = [tickets EXCEPT ![road] = <<>>]
      /\ UNCHANGED <<carVars, clientVars, events, unid_clients, dispatchers, chan,
                     history>>
  BY DEF RegisterRoad
<1>2. /\ main \in [doing : {"registering"}, id : Clients, todo : Seq(Roads),
                   backlog : Seq(Infraction)]
      /\ id \in Clients
      /\ main.todo \in Seq(Roads)
      /\ road \in Roads
      /\ Tail(main.todo) \in Seq(Roads)
      /\ coverage \in [Roads -> [Clients -> Nat]]
      /\ tickets \in [Roads -> Seq(Infraction)]
  BY <1>1, MainCases, HeadTailProperties DEF ServerIInv, ServerTypeOK
<1>3. /\ main' \in [doing : {"registering"}, id : Clients, todo : Seq(Roads),
                    backlog : Seq(Infraction)]
      /\ main'.doing = "registering"
      /\ main'.id = id
      /\ main'.todo = Tail(main.todo)
  BY <1>1, <1>2
<1>4. /\ coverage' \in [Roads -> [Clients -> Nat]]
      /\ \A r \in Roads, c \in Clients :
           /\ coverage[r][c] \in Nat
           /\ coverage'[r][c] = IF r = road /\ c = id THEN coverage[r][c] + 1
                                                     ELSE coverage[r][c]
  BY <1>1, <1>2, SMTT(40)
<1>5. /\ tickets' \in [Roads -> Seq(Infraction)]
      /\ tickets'[road] = <<>>
      /\ \A r \in Roads : r # road => tickets'[r] = tickets[r]
  BY <1>1, <1>2
<1>6. IInv'
  BY <1>1, StutterIInv DEF ServerIInv
<1>7. ServerTypeOK' /\ MainTypeOK'
  <2>1. TypeOK'
    BY <1>6 DEF IInv
  <2>2. MainTypeOK'
    BY <1>3 DEF MainTypeOK
  <2> QED
    BY <1>1, <1>4, <1>5, <2>1, <2>2 DEF ServerIInv, ServerTypeOK, clientVars
<1>8. \A type, c : Queued(type, c)' <=> Queued(type, c)
  BY <1>1 DEF Queued
<1>9. IdsInOrder' /\ IdentifiedInTime' /\ EventsOnce'
  BY <1>1 DEF ServerIInv, Registry, IdsInOrder, IdentifiedInTime, EventsOnce, clientVars
<1>10. GoneIsLast' /\ UnidentifiedIsUnheard'
  BY <1>1, <1>8 DEF ServerIInv, Registry, GoneIsLast, UnidentifiedIsUnheard, clientVars
<1>11. \A c \in Clients : Registering(c)' <=> Registering(c)
  BY <1>1, <1>3 DEF Registering
<1>12. DispatchersAreKnown'
  BY <1>1, <1>3, <1>8, <1>11
     DEF ServerIInv, Registry, DispatchersAreKnown, IsDispatcher, clientVars
<1>13. CoverageSoFar'
  <2>1. /\ id \notin dispatchers
        /\ IsDispatcher(id)
        /\ ident[id].roads \in Seq(Roads)
    BY <1>1, <1>2, IdentFields
       DEF ServerIInv, Registry, DispatchersAreKnown, Registering
  <2>2. \A r \in Roads :
          /\ Occurrences(r, ident[id].roads) \in Nat
          /\ Occurrences(r, main.todo) \in Nat
          /\ Occurrences(r, Tail(main.todo)) \in Nat
          /\ Occurrences(r, main.todo) =
               Occurrences(r, Tail(main.todo)) + (IF r = road THEN 1 ELSE 0)
    BY <1>1, <1>2, <2>1, OccurrencesType, OccurrencesTail
  <2> SUFFICES ASSUME NEW r \in Roads, NEW c \in Clients
               PROVE  coverage'[r][c] =
                        IF c \in dispatchers' THEN Occurrences(r, ident'[c].roads)
                        ELSE IF Registering(c)'
                             THEN Occurrences(r, ident'[c].roads)
                                    - Occurrences(r, main'.todo)
                             ELSE 0
    BY DEF CoverageSoFar
  <2>3. ident' = ident /\ dispatchers' = dispatchers
    BY <1>1 DEF clientVars
  <2>4. CASE c = id
    <3>1. coverage[r][id] = Occurrences(r, ident[id].roads) - Occurrences(r, main.todo)
      BY <1>1, <1>2, <2>1 DEF ServerIInv, Registry, CoverageSoFar, Registering
    <3>2. Registering(id)'
      BY <1>3 DEF Registering
    <3>3. coverage'[r][id] = Occurrences(r, ident[id].roads)
                               - Occurrences(r, Tail(main.todo))
      <4> DEFINE all == Occurrences(r, ident[id].roads)
                 todo == Occurrences(r, main.todo)
                 rest == Occurrences(r, Tail(main.todo))
      <4>1. all \in Nat /\ rest \in Nat /\ todo = rest + (IF r = road THEN 1 ELSE 0)
        BY <2>2
      <4>2. /\ coverage[r][id] = all - todo
            /\ coverage'[r][id] = IF r = road THEN coverage[r][id] + 1
                                              ELSE coverage[r][id]
        BY <1>2, <1>4, <3>1
      <4> HIDE DEF all, todo, rest
      <4>3. coverage'[r][id] = all - rest
        BY <4>1, <4>2
      <4> QED
        BY <4>3 DEF all, rest
    <3> QED
      BY <1>3, <2>1, <2>3, <2>4, <3>2, <3>3
  <2>5. CASE c # id
    <3>1. coverage'[r][c] = coverage[r][c]
      BY <1>2, <1>4, <2>5
    <3>2. ~ Registering(c)
      BY <2>5 DEF Registering
    <3> QED
      BY <1>11, <2>3, <3>1, <3>2 DEF ServerIInv, Registry, CoverageSoFar
  <2> QED
    BY <2>4, <2>5
<1>14. StoredUncovered'
  <2> SUFFICES ASSUME NEW r \in Roads, tickets'[r] # <<>>, NEW c \in Clients
               PROVE  coverage'[r][c] = 0
    BY DEF StoredUncovered
  <2>1. r # road /\ tickets[r] # <<>>
    BY <1>5
  <2>2. coverage[r][c] = 0
    BY <2>1 DEF ServerIInv, Registry, StoredUncovered
  <2> QED
    BY <1>4, <2>1, <2>2
<1> QED
  BY <1>6, <1>7, <1>9, <1>10, <1>12, <1>13, <1>14 DEF ServerIInv, Registry

LEMMA EndRegisteringIInv ==
  ASSUME ServerIInv, EndRegistering
  PROVE  ServerIInv'
<1> PICK id : id = main.id
  OBVIOUS
<1>1. /\ main.doing = "registering" /\ main.todo = <<>>
      /\ dispatchers' = dispatchers \cup {id}
      /\ main' = Idle
      /\ UNCHANGED <<carVars, clientVars, events, unid_clients, coverage, tickets,
                     chan, history>>
  BY DEF EndRegistering
<1>2. id \in Clients
  BY <1>1, MainCases DEF ServerIInv
<1>3. IInv'
  BY <1>1, StutterIInv DEF ServerIInv
<1>4. ServerTypeOK' /\ MainTypeOK'
  <2>1. TypeOK'
    BY <1>3 DEF IInv
  <2> QED
    BY <1>1, <1>2, <2>1 DEF ServerIInv, ServerTypeOK, MainTypeOK, clientVars
<1>5. \A type, c : Queued(type, c)' <=> Queued(type, c)
  BY <1>1 DEF Queued
<1>6. IdsInOrder' /\ IdentifiedInTime' /\ EventsOnce'
  BY <1>1 DEF ServerIInv, Registry, IdsInOrder, IdentifiedInTime, EventsOnce, clientVars
<1>7. GoneIsLast' /\ UnidentifiedIsUnheard'
  BY <1>1, <1>5 DEF ServerIInv, Registry, GoneIsLast, UnidentifiedIsUnheard, clientVars
<1>8. main'.doing # "registering" /\ \A c \in Clients : Registering(c) <=> c = id
  BY <1>1 DEF Idle, Registering
<1>9. DispatchersAreKnown'
  <2>1. \A c \in Clients : ~ Registering(c)'
    BY <1>8 DEF Registering
  <2>2. \A c \in Clients : IsDispatcher(c)' <=> IsDispatcher(c)
    BY <1>1 DEF IsDispatcher, clientVars
  <2> QED
    BY <1>1, <1>2, <1>5, <1>8, <2>1, <2>2
       DEF ServerIInv, Registry, DispatchersAreKnown, clientVars
<1>10. CoverageSoFar'
  <2>1. ident[id].roads \in Seq(Roads) /\ id \notin dispatchers
    BY <1>1, <1>2, <1>8, IdentFields DEF ServerIInv, Registry, DispatchersAreKnown
  <2>2. \A r \in Roads :
          /\ Occurrences(r, ident[id].roads) \in Nat
          /\ Occurrences(r, main.todo) = 0
    <3>1. main.todo \in Seq(Roads)
      BY <1>1, MainCases DEF ServerIInv
    <3>2. \A r : r \notin ToSet(main.todo)
      BY <1>1 DEF ToSet
    <3> QED
      BY <2>1, <3>1, <3>2, OccurrencesType
  <2>3. \A r \in Roads : coverage[r][id] = Occurrences(r, ident[id].roads)
    BY <1>2, <1>8, <2>1, <2>2 DEF ServerIInv, Registry, CoverageSoFar
  <2>4. /\ ident' = ident /\ coverage' = coverage
        /\ \A c \in Clients : ~ Registering(c)'
    BY <1>1, <1>8 DEF clientVars, Registering
  <2> QED
    BY <1>1, <1>8, <2>3, <2>4 DEF ServerIInv, Registry, CoverageSoFar
<1>11. StoredUncovered'
  BY <1>1 DEF ServerIInv, Registry, StoredUncovered
<1> QED
  BY <1>3, <1>4, <1>6, <1>7, <1>9, <1>10, <1>11 DEF ServerIInv, Registry

--------------------------------------------------------------------------------

LEMMA InitServerIInv == ServerInit => ServerIInv
<1> SUFFICES ASSUME ServerInit PROVE ServerIInv
  OBVIOUS
<1>1. IInv
  BY InitIInv DEF ServerInit
<1>2. ServerTypeOK
  <2>1. TypeOK
    BY <1>1 DEF IInv
  <2>2. <<>> \in Seq(Event) /\ <<>> \in Seq(Infraction) /\ Len(<<>>) = 0
    BY EmptySeq
  <2>3. 0 \in 0 .. MaxClients /\ 0 <= ChanSize
    BY ServerAssumption
  <2> QED
    BY <2>1, <2>2, <2>3 DEF ServerInit, ServerTypeOK
<1>3. MainTypeOK
  BY DEF ServerInit, MainTypeOK
<1>4. \A type, c : ~ Queued(type, c)
  BY DEF ServerInit, Queued, ToSet
<1>5. IdsInOrder /\ IdentifiedInTime
  BY ServerAssumption DEF ServerInit, IdsInOrder, IdentifiedInTime, Clients
<1>6. EventsOnce /\ GoneIsLast
  BY <1>4 DEF ServerInit, EventsOnce, GoneIsLast
<1>7. UnidentifiedIsUnheard
  BY <1>4 DEF ServerInit, UnidentifiedIsUnheard
<1>8. DispatchersAreKnown /\ CoverageSoFar /\ StoredUncovered
  BY DEF ServerInit, DispatchersAreKnown, CoverageSoFar, StoredUncovered,
         IsDispatcher, NoIdent, Idle, Registering
<1> QED
  BY <1>1, <1>2, <1>3, <1>5, <1>6, <1>7, <1>8 DEF ServerIInv, Registry

LEMMA StutterServerIInv ==
  ASSUME ServerIInv, UNCHANGED serverVars
  PROVE  ServerIInv'
<1>1. /\ UNCHANGED <<carVars, client_n, status, ident, hand, events, unid_clients>>
      /\ UNCHANGED <<dispatchers, coverage, tickets, main, chan>>
  BY DEF serverVars, clientVars, mainVars
<1>2. IInv'
  BY <1>1, StutterIInv DEF ServerIInv
<1>3. ServerTypeOK' /\ MainTypeOK'
  <2>1. TypeOK'
    BY <1>2 DEF IInv
  <2> QED
    BY <1>1, <2>1 DEF ServerIInv, ServerTypeOK, MainTypeOK
<1>4. EventsOnce'
  BY <1>1 DEF ServerIInv, Registry, EventsOnce
<1>5. \A type \in OwnEvents, c \in Clients : Queued(type, c)' <=> Queued(type, c)
  BY <1>1 DEF Queued
<1>6. Registry'
  BY <1>1, <1>4, <1>5, RegistryFrame, MainCases DEF ServerIInv
<1> QED
  BY <1>2, <1>3, <1>6 DEF ServerIInv

LEMMA StepServerIInv == ServerIInv /\ [ServerNext]_serverVars => ServerIInv'
<1> SUFFICES ASSUME ServerIInv, [ServerNext]_serverVars PROVE ServerIInv'
  OBVIOUS
<1>1. CASE Accept
  BY <1>1, AcceptIInv
<1>2. CASE MainStep
  BY <1>2, ObservationIInv, HandleGoneIInv, HandleCameraIInv, HandleDispatcherIInv,
     SendStepIInv, RegisterRoadIInv, EndRegisteringIInv DEF MainStep, HandleEvent
<1>3. ASSUME NEW c \in Clients, ClientStep(c) PROVE ServerIInv'
  BY <1>3, IdentifyIInv, PlateIInv, TicketStepIInv, EndingIInv DEF ClientStep
<1>4. CASE UNCHANGED serverVars
  BY <1>4, StutterServerIInv
<1> QED
  BY <1>1, <1>2, <1>3, <1>4 DEF ServerNext

(* The inductive invariant: what the main task knows of its clients follows     *)
(* their announcements and their ends in the order of the queue.                *)
THEOREM ServerInvariance == ServerSpec => []ServerIInv
BY InitServerIInv, StepServerIInv, PTL DEF ServerSpec

(* Every variable of the server keeps its type; in particular no channel to a   *)
(* client holds more than its capacity.                                         *)
THEOREM ServerTyping == ServerSpec => []ServerTypeOK
<1>1. ServerIInv => ServerTypeOK
  BY DEF ServerIInv
<1> QED
  BY <1>1, ServerInvariance, PTL

(* The main task waits to hear from exactly the clients it has not heard from,  *)
(* so the branches for an unknown id (main.rs:188-192, 219-223) are dead code.  *)
THEOREM UnidentifiedExact == ServerSpec => []UnidentifiedIsUnheard
<1>1. ServerIInv => UnidentifiedIsUnheard
  BY DEF ServerIInv, Registry
<1> QED
  BY <1>1, ServerInvariance, PTL

(* A dispatcher is listed for each road as often as it announced it, whatever   *)
(* repetitions its array holds, and nobody else is listed at all.               *)
THEOREM CoverageExact == ServerSpec => []CoverageMatches
<1>1. ServerIInv => CoverageMatches
  BY DEF ServerIInv, Registry, CoverageSoFar, CoverageMatches, Registering
<1> QED
  BY <1>1, ServerInvariance, PTL

(* A ticket waits in the store only while nobody is registered for its road.    *)
THEOREM NoTicketWaits == ServerSpec => []NoneWaitsWhileServed
<1>1. ServerIInv => NoneWaitsWhileServed
  <2> SUFFICES ASSUME ServerIInv, main.doing # "registering",
                      NEW r \in Roads, tickets[r] # <<>>, NEW c \in dispatchers
               PROVE  r \notin ToSet(ident[c].roads)
    BY DEF NoneWaitsWhileServed
  <2>1. c \in Clients /\ IsDispatcher(c)
    BY DEF ServerIInv, Registry, DispatchersAreKnown
  <2>2. coverage[r][c] = Occurrences(r, ident[c].roads) /\ coverage[r][c] = 0
    BY <2>1 DEF ServerIInv, Registry, CoverageSoFar, StoredUncovered
  <2> QED
    BY <2>1, <2>2, IdentFields, OccurrencesType DEF ServerIInv
<1> QED
  BY <1>1, ServerInvariance, PTL

(* The server keeps the record of the vehicles as Cars says, whatever the tasks *)
(* around it do: what CarsProofs proves of Spec holds in the server as well.    *)
THEOREM ServerKeepsCars == ServerSpec => Spec
<1>1. ServerInit => Init
  BY DEF ServerInit
<1>2. ServerIInv /\ [ServerNext]_serverVars => [Next]_carVars
  <2> SUFFICES ASSUME ServerIInv, [ServerNext]_serverVars PROVE [Next]_carVars
    OBVIOUS
  <2>1. CASE RecordObservation \/ TicketObservation
    BY <2>1, ObservationStep DEF RecordObservation, TicketObservation, Next, Observed
  <2>2. CASE UNCHANGED carVars
    BY <2>2
  <2>3. ASSUME NEW c \in Clients, ClientStep(c) PROVE UNCHANGED carVars
    BY <2>3 DEF ClientStep, Identify, Plate, TakeTicket, WriteTicket, End, Finish, Panic
  <2>4. CASE Accept
    BY <2>4 DEF Accept
  <2>5. CASE MainStep
    BY <2>1, <2>2, <2>5 DEF MainStep, HandleEvent, HandleGone, HandleCamera,
       HandleDispatcher, SendTicket, RegisterRoad, SendBacklog, EndRegistering
  <2> QED
    BY <2>2, <2>3, <2>4, <2>5 DEF ServerNext, serverVars
<1> QED
  BY <1>1, <1>2, ServerInvariance, PTL DEF ServerSpec, Spec

--------------------------------------------------------------------------------
(* What makes the refinement hold.                                              *)

(* No ticket comes from anywhere but the record of the vehicles.                *)
TicketsAreIssued ==
  /\ ToSet(issued) \subseteq AllTickets
  /\ Waiting \subseteq ToSet(issued)
  /\ \A c \in Clients : Held(c) \subseteq ToSet(issued)
  /\ \A h \in delivered : h[1] \in ToSet(issued)
  /\ dropped \cup refused \subseteq ToSet(issued)

Distinct(s) == \A i, j \in 1 .. Len(s) : s[i] = s[j] => i = j

(* The main task has a ticket in one place, and that is the right one.          *)
MainHasOnce ==
  /\ \A r \in Roads :
       /\ Distinct(tickets[r])
       /\ \A t \in ToSet(tickets[r]) : t.road = r
  /\ main.doing = "registering" => Distinct(main.backlog)
  /\ Stored \cap InMain = {}

(* What the main task is about to send goes to a dispatcher of its road.        *)
RightDesk ==
  /\ main.doing = "disposing" => main.ticket.road \in Duty[main.to]
  /\ main.doing = "registering" =>
       /\ ToSet(main.todo) \subseteq Duty[main.id]
       /\ \A t \in ToSet(main.backlog) : t.road \in Duty[main.id]

(* A client's task has a ticket in one place, one that no longer waits, and is  *)
(* writing only while it runs.                                                  *)
DesksHaveOnce ==
  \A c \in Clients :
    /\ Distinct(chan[c])
    /\ hand[c] \notin ToSet(chan[c])
    /\ hand[c] # NoTicket => status[c] = "running"
    /\ Held(c) \cap Waiting = {}

OnePlace == TicketsAreIssued /\ MainHasOnce /\ RightDesk /\ DesksHaveOnce

TicketIInv == ServerIInv /\ OnePlace

--------------------------------------------------------------------------------
(* Sequences without repetitions.                                               *)

LEMMA EmptyDistinct == Distinct(<<>>) /\ ToSet(<<>>) = {}
BY DEF Distinct, ToSet

LEMMA DistinctAppend ==
  ASSUME NEW S, NEW s \in Seq(S), Distinct(s), NEW t \in S, t \notin ToSet(s)
  PROVE  /\ Distinct(Append(s, t))
         /\ ToSet(Append(s, t)) = ToSet(s) \cup {t}
<1>1. /\ Append(s, t) \in Seq(S)
      /\ Len(s) \in Nat
      /\ Len(Append(s, t)) = Len(s) + 1
      /\ \A i \in 1 .. Len(s) : Append(s, t)[i] = s[i]
      /\ Append(s, t)[Len(s) + 1] = t
      /\ DOMAIN s = 1 .. Len(s)
      /\ DOMAIN Append(s, t) = 1 .. Len(Append(s, t))
  BY AppendProperties, LenProperties
<1>2. \A i \in 1 .. Len(s) : s[i] \in ToSet(s)
  BY <1>1 DEF ToSet
<1>3. \A i \in 1 .. Len(Append(s, t)) : i \in 1 .. Len(s) \/ i = Len(s) + 1
  BY <1>1
<1>4. Len(s) + 1 \in 1 .. Len(Append(s, t)) /\ 1 .. Len(s) \subseteq 1 .. Len(Append(s, t))
  BY <1>1
<1>5. Distinct(Append(s, t))
  BY <1>1, <1>2, <1>3 DEF Distinct
<1>6. ToSet(Append(s, t)) = ToSet(s) \cup {t}
  BY <1>1, <1>3, <1>4 DEF ToSet
<1> QED
  BY <1>5, <1>6

LEMMA DistinctTail ==
  ASSUME NEW S, NEW s \in Seq(S), Distinct(s), s # <<>>
  PROVE  /\ Distinct(Tail(s))
         /\ Head(s) \in ToSet(s)
         /\ Head(s) \in S
         /\ Tail(s) \in Seq(S)
         /\ ToSet(Tail(s)) = ToSet(s) \ {Head(s)}
<1>1. /\ Len(s) \in Nat \ {0}
      /\ Head(s) = s[1]
      /\ Head(s) \in S
      /\ Tail(s) \in Seq(S)
      /\ Len(Tail(s)) = Len(s) - 1
      /\ \A i \in 1 .. Len(Tail(s)) : Tail(s)[i] = s[i + 1]
      /\ DOMAIN s = 1 .. Len(s)
      /\ DOMAIN Tail(s) = 1 .. Len(Tail(s))
  BY HeadTailProperties, EmptySeq, LenProperties
<1>2. Distinct(Tail(s))
  <2> SUFFICES ASSUME NEW i \in 1 .. Len(Tail(s)), NEW j \in 1 .. Len(Tail(s)),
                      Tail(s)[i] = Tail(s)[j]
               PROVE  i = j
    BY DEF Distinct
  <2>1. i + 1 \in 1 .. Len(s) /\ j + 1 \in 1 .. Len(s)
    BY <1>1
  <2>2. i + 1 = j + 1
    BY <1>1, <2>1 DEF Distinct
  <2> QED
    BY <2>2
<1>3. 1 \in 1 .. Len(s)
  BY <1>1
<1>4. \A x \in ToSet(Tail(s)) : x \in ToSet(s) /\ x # Head(s)
  <2> SUFFICES ASSUME NEW i \in 1 .. Len(Tail(s))
               PROVE  Tail(s)[i] \in ToSet(s) /\ Tail(s)[i] # Head(s)
    BY <1>1 DEF ToSet
  <2>1. i + 1 \in 1 .. Len(s) /\ i + 1 # 1
    BY <1>1
  <2> QED
    BY <1>1, <1>3, <2>1 DEF ToSet, Distinct
<1>5. \A x \in ToSet(s) : x # Head(s) => x \in ToSet(Tail(s))
  <2> SUFFICES ASSUME NEW i \in 1 .. Len(s), s[i] # Head(s)
               PROVE  s[i] \in ToSet(Tail(s))
    BY <1>1 DEF ToSet
  <2>1. i - 1 \in 1 .. Len(Tail(s)) /\ (i - 1) + 1 = i
    BY <1>1
  <2> QED
    BY <1>1, <2>1 DEF ToSet
<1> QED
  BY <1>1, <1>2, <1>3, <1>4, <1>5 DEF ToSet

LEMMA ToSetType ==
  ASSUME NEW S, NEW s \in Seq(S)
  PROVE  ToSet(s) \subseteq S
BY LenProperties, ElementOfSeq DEF ToSet

--------------------------------------------------------------------------------
(* What the desks have been handed, as pairs.                                   *)

LEMMA HandedSame ==
  ASSUME \A c \in Clients : Held(c)' = Held(c)
  PROVE  Handed' = Handed
BY DEF Handed, Clients

LEMMA HandedMore ==
  ASSUME NEW c \in Clients, NEW t, Held(c)' = Held(c) \cup {t},
         \A d \in Clients : d # c => Held(d)' = Held(d)
  PROVE  Handed' = Handed \cup {<<t, c>>}
<1>1. ASSUME NEW d \in Clients
      PROVE  Held(d)' \X {d} = (Held(d) \X {d}) \cup (IF d = c THEN {<<t, c>>} ELSE {})
  BY <1>1
<1> QED
  BY <1>1 DEF Handed, Clients

LEMMA HandedLess ==
  ASSUME NEW c \in Clients, NEW gone, Held(c)' = Held(c) \ gone,
         \A d \in Clients : d # c => Held(d)' = Held(d)
  PROVE  Handed' = Handed \ (gone \X {c})
<1>1. ASSUME NEW d \in Clients
      PROVE  Held(d)' \X {d} = (Held(d) \X {d}) \ (gone \X {c})
  BY <1>1
<1> QED
  BY <1>1 DEF Handed, Clients

--------------------------------------------------------------------------------
(* The parts of the invariant that a step leaves alone.                         *)

LEMMA NoTicketIsNone ==
  ASSUME NEW t \in Infraction
  PROVE  t # NoTicket
<1>1. "road" \in DOMAIN t
  BY DEF Infraction
<1>2. "road" \notin DOMAIN NoTicket
  BY DEF NoTicket
<1> QED
  BY <1>1, <1>2

LEMMA DesksStay ==
  ASSUME hand' = hand, chan' = chan
  PROVE  Handed' = Handed /\ \A c \in Clients : Held(c)' = Held(c)
<1>1. \A c \in Clients : Held(c)' = Held(c)
  BY DEF Held
<1> QED
  BY <1>1, HandedSame

LEMMA MainStays ==
  ASSUME tickets' = tickets, main' = main
  PROVE  /\ Waiting' = Waiting
         /\ Stored' = Stored
         /\ InMain' = InMain
         /\ MainHasOnce => MainHasOnce'
<1>1. Stored' = Stored /\ InMain' = InMain
  BY DEF Stored, InMain
<1> QED
  BY <1>1 DEF Waiting, MainHasOnce

LEMMA DutyStays ==
  ASSUME ident' = ident
  PROVE  Duty' = Duty
BY DEF Duty, IsDispatcher, Clients

LEMMA LeftStays ==
  ASSUME status' = status
  PROVE  Left' = Left
BY DEF Left, Clients

(* What the main task does without moving a ticket.                             *)
LEMMA QuietStep ==
  ASSUME TicketIInv,
         UNCHANGED <<issued, ident, hand, chan, tickets, history>>,
         InMain' = InMain, Left' = Left,
         \A c \in Clients : status[c] = "running" => status'[c] = "running",
         main'.doing = "registering" => Distinct(main'.backlog),
         RightDesk'
  PROVE  OnePlace' /\ UNCHANGED Office!officeVars
<1>1. Handed' = Handed /\ \A c \in Clients : Held(c)' = Held(c)
  BY DesksStay
<1>2. Duty' = Duty
  BY DutyStays
<1>3. Stored' = Stored /\ Waiting' = Waiting
  BY DEF Stored, Waiting
<1>4. delivered' = delivered /\ dropped' = dropped /\ refused' = refused
  BY DEF history
<1>5. TicketsAreIssued'
  BY <1>1, <1>3, <1>4 DEF TicketIInv, OnePlace, TicketsAreIssued
<1>6. MainHasOnce'
  BY <1>3 DEF TicketIInv, OnePlace, MainHasOnce
<1>7. DesksHaveOnce'
  BY <1>1, <1>3 DEF TicketIInv, OnePlace, DesksHaveOnce
<1>8. UNCHANGED Office!officeVars
  BY <1>1, <1>2, <1>3, <1>4 DEF Office!officeVars
<1> QED
  BY <1>5, <1>6, <1>7, <1>8 DEF OnePlace

(* The steps of a client's task that touch none but its own tickets.            *)
LEMMA DeskStep ==
  ASSUME TicketIInv, NEW c \in Clients,
         UNCHANGED <<issued, mainVars, ident>>,
         \A d \in Clients : d # c => chan'[d] = chan[d] /\ hand'[d] = hand[d],
         \A d \in Clients : d # c => status'[d] = status[d],
         Held(c)' \subseteq Held(c),
         Distinct(chan'[c]), hand'[c] \notin ToSet(chan'[c]),
         hand'[c] # NoTicket => status'[c] = "running",
         \A h \in delivered' : h \in delivered \/ h[1] \in Held(c),
         dropped' \cup refused' \subseteq dropped \cup refused \cup Held(c)
  PROVE  /\ OnePlace'
         /\ UNCHANGED <<Waiting, Duty>>
         /\ \A d \in Clients : d # c => Held(d)' = Held(d)
<1>1. Waiting' = Waiting /\ MainHasOnce'
  BY MainStays DEF TicketIInv, OnePlace, mainVars
<1>2. Duty' = Duty
  BY DutyStays
<1>3. \A d \in Clients : d # c => Held(d)' = Held(d)
  BY DEF Held
<1>4. TicketsAreIssued'
  BY <1>1, <1>3 DEF TicketIInv, OnePlace, TicketsAreIssued
<1>5. RightDesk'
  BY <1>2 DEF TicketIInv, OnePlace, RightDesk, mainVars
<1>6. DesksHaveOnce'
  BY <1>1, <1>3 DEF TicketIInv, OnePlace, DesksHaveOnce
<1> QED
  BY <1>1, <1>2, <1>3, <1>4, <1>5, <1>6 DEF OnePlace

--------------------------------------------------------------------------------
(* The steps of the server, one by one: each keeps the invariant and is a step  *)
(* of the office, or none at all.                                               *)

LEMMA AcceptOffice ==
  ASSUME TicketIInv, Accept
  PROVE  OnePlace' /\ UNCHANGED Office!officeVars
<1>1. /\ client_n < MaxClients /\ client_n \in Nat
      /\ status' = [status EXCEPT ![client_n] = "unid"]
      /\ UNCHANGED <<issued, ident, hand, chan, tickets, main, history>>
      /\ main.doing = "idle"
  BY DEF Accept, carVars, TicketIInv, ServerIInv, ServerTypeOK
<1>2. client_n \in Clients /\ status[client_n] = "none"
  BY <1>1, ServerAssumption
     DEF Clients, TicketIInv, ServerIInv, Registry, IdsInOrder
<1>3. \A c \in Clients :
        /\ status[c] = "running" => status'[c] = "running"
        /\ status'[c] \in {"over", "gone", "panicked"} <=>
             status[c] \in {"over", "gone", "panicked"}
  BY <1>1, <1>2 DEF TicketIInv, ServerIInv, ServerTypeOK
<1>4. Left' = Left
  BY <1>3 DEF Left, Clients
<1>5. InMain' = InMain
  BY <1>1 DEF InMain
<1>6. RightDesk'
  BY <1>1 DEF RightDesk
<1> QED
  BY <1>1, <1>3, <1>4, <1>5, <1>6, QuietStep

(* Everything main does with an event but to issue a ticket.                    *)
LEMMA EventOffice ==
  ASSUME TicketIInv,
         RecordObservation \/ HandleGone \/ HandleCamera \/ HandleDispatcher
  PROVE  OnePlace' /\ UNCHANGED Office!officeVars
<1>1. UNCHANGED <<issued, status, ident, hand, chan, tickets, history>>
  BY DEF RecordObservation, IgnoreObs, StoreObs, HandleGone, HandleCamera,
         HandleDispatcher, carVars, clientVars, mainVars
<1>2. main.doing = "idle"
  BY DEF RecordObservation, HandleGone, HandleCamera, HandleDispatcher, NextEvent
<1>3. \/ main' = main
      \/ /\ main'.doing = "registering" /\ main'.backlog = <<>>
         /\ IsDispatcher(main'.id) /\ main'.id \in Clients
         /\ main'.todo = ident[main'.id].roads
  <2>1. CASE HandleDispatcher
    <3>1. PICK c : c = Head(events).id
      OBVIOUS
    <3>2. /\ NextEvent("dispatcher") /\ UNCHANGED clientVars
          /\ \/ main' = main
             \/ main' = [doing |-> "registering", id |-> c,
                         todo |-> ident[c].roads, backlog |-> <<>>]
      BY <2>1, <3>1 DEF HandleDispatcher
    <3>3. c \in Clients /\ Queued("dispatcher", c)
      BY <3>1, <3>2, OwnEventStep DEF TicketIInv, OwnEvents
    <3>4. IsDispatcher(c)
      BY <3>3, QueuedFits DEF TicketIInv, ServerIInv, Registry, IsDispatcher
    <3> QED
      BY <3>2, <3>3, <3>4
  <2> QED
    BY <2>1 DEF RecordObservation, HandleGone, HandleCamera, mainVars
<1>4. InMain' = InMain /\ (main'.doing = "registering" => Distinct(main'.backlog))
  BY <1>2, <1>3, EmptyDistinct DEF InMain
<1>5. Left' = Left /\ Duty' = Duty
  BY <1>1, LeftStays, DutyStays
<1>6. RightDesk'
  <2>1. CASE main' = main
    BY <1>2, <2>1 DEF RightDesk
  <2>2. CASE main' # main
    <3>1. Duty[main'.id] = ToSet(main'.todo)
      BY <1>3, <2>2 DEF Duty
    <3> QED
      BY <1>3, <1>5, <2>2, <3>1, EmptyDistinct DEF RightDesk
  <2> QED
    BY <2>1, <2>2
<1> QED
  BY <1>1, <1>4, <1>5, <1>6, QuietStep

LEMMA EndRegisteringOffice ==
  ASSUME TicketIInv, EndRegistering
  PROVE  OnePlace' /\ UNCHANGED Office!officeVars
<1>1. /\ UNCHANGED <<issued, status, ident, hand, chan, tickets, history>>
      /\ main.doing = "registering" /\ main.backlog = <<>>
      /\ main'.doing = "idle"
  BY DEF EndRegistering, carVars, clientVars, Idle
<1>2. InMain' = InMain
  BY <1>1, EmptyDistinct DEF InMain
<1>3. RightDesk'
  BY <1>1 DEF RightDesk
<1> QED
  BY <1>1, <1>2, <1>3, LeftStays, QuietStep

LEMMA PlateOffice ==
  ASSUME TicketIInv,
         UNCHANGED <<carVars, clientVars, mainVars, chan, history>>
  PROVE  OnePlace' /\ UNCHANGED Office!officeVars
<1>1. /\ UNCHANGED <<issued, status, ident, hand, chan, tickets, main, history>>
  BY DEF carVars, clientVars, mainVars
<1>2. InMain' = InMain /\ Left' = Left /\ Duty' = Duty
  BY <1>1, LeftStays, DutyStays DEF InMain
<1>3. RightDesk'
  BY <1>1, <1>2 DEF TicketIInv, OnePlace, RightDesk
<1>4. main'.doing = "registering" => Distinct(main'.backlog)
  BY <1>1 DEF TicketIInv, OnePlace, MainHasOnce
<1> QED
  BY <1>1, <1>2, <1>3, <1>4, QuietStep

LEMMA IdentifyOffice ==
  ASSUME TicketIInv, NEW c \in Clients, Identify(c)
  PROVE  OnePlace' /\ Office!Announce(c)
<1>1. /\ UNCHANGED <<issued, hand, chan, tickets, main, history>>
      /\ status[c] = "unid"
      /\ status' = [status EXCEPT ![c] = "running"]
  BY DEF Identify, carVars, mainVars
<1>2. PICK i \in Idents[c] : ident' = [ident EXCEPT ![c] = i]
  BY DEF Identify
<1>3. ident[c] = NoIdent /\ Duty[c] = {}
  BY <1>1 DEF TicketIInv, ServerIInv, Registry, IdentifiedInTime, Duty,
              IsDispatcher, NoIdent
<1>4. i \in CameraIdents \cup DispatcherIdents
  BY ServerAssumption
<1>5. i.kind = "dispatcher" => ToSet(i.roads) \subseteq Roads
  BY <1>4, ToSetType DEF CameraIdents, DispatcherIdents
<1>6. PICK roads \in SUBSET Roads :
        roads = IF i.kind = "dispatcher" THEN ToSet(i.roads) ELSE {}
  BY <1>5
<1>7. /\ ident \in [Clients -> CameraIdents \cup DispatcherIdents \cup {NoIdent}]
      /\ status \in [Clients -> {"none", "unid", "running", "over", "gone", "panicked"}]
  BY DEF TicketIInv, ServerIInv, ServerTypeOK
<1>8. Duty' = [Duty EXCEPT ![c] = roads]
  BY <1>2, <1>6, <1>7 DEF Duty, IsDispatcher, Clients
<1>9. /\ Handed' = Handed /\ \A d \in Clients : Held(d)' = Held(d)
      /\ Waiting' = Waiting /\ Stored' = Stored /\ InMain' = InMain
      /\ MainHasOnce'
  BY <1>1, DesksStay, MainStays DEF TicketIInv, OnePlace
<1>10. /\ c \notin Left /\ Left' = Left
       /\ \A d \in Clients : status[d] = "running" => status'[d] = "running"
  BY <1>1, <1>7 DEF Left, Clients
<1>11. RightDesk'
  <2>1. \A d \in Clients : Duty[d] \subseteq Duty'[d]
    BY <1>3, <1>8 DEF Duty
  <2>2. \A d : main.doing = "disposing" /\ main.to = d => d \in Clients
    BY MainCases DEF TicketIInv, ServerIInv
  <2>3. \A d : main.doing = "registering" /\ main.id = d => d \in Clients
    BY MainCases DEF TicketIInv, ServerIInv
  <2> QED
    BY <1>1, <2>1, <2>2, <2>3 DEF TicketIInv, OnePlace, RightDesk
<1>12. TicketsAreIssued' /\ DesksHaveOnce'
  BY <1>1, <1>9, <1>10 DEF TicketIInv, OnePlace, TicketsAreIssued, DesksHaveOnce, history
<1>13. Office!Announce(c)
  BY <1>1, <1>3, <1>8, <1>9, <1>10 DEF Office!Announce, history
<1> QED
  BY <1>9, <1>11, <1>12, <1>13 DEF OnePlace

LEMMA DeskTypes ==
  ASSUME TicketIInv, NEW c \in Clients
  PROVE  /\ hand \in [Clients -> Infraction \cup {NoTicket}]
         /\ chan \in [Clients -> Seq(Infraction)]
         /\ hand[c] \in Infraction \cup {NoTicket}
         /\ chan[c] \in Seq(Infraction)
         /\ status \in [Clients -> {"none", "unid", "running", "over", "gone", "panicked"}]
         /\ Distinct(chan[c])
         /\ hand[c] \notin ToSet(chan[c])
         /\ hand[c] # NoTicket => status[c] = "running"
         /\ Held(c) = ToSet(chan[c]) \cup ({hand[c]} \ {NoTicket})
         /\ NoTicket \notin ToSet(chan[c])
<1>1. /\ hand \in [Clients -> Infraction \cup {NoTicket}]
      /\ chan \in [Clients -> Seq(Infraction)]
  BY DEF TicketIInv, ServerIInv, ServerTypeOK
<1>2. ToSet(chan[c]) \subseteq Infraction
  BY <1>1, ToSetType
<1> QED
  BY <1>1, <1>2, NoTicketIsNone
     DEF TicketIInv, ServerIInv, ServerTypeOK, OnePlace, DesksHaveOnce, Held

LEMMA TakeOffice ==
  ASSUME TicketIInv, NEW c \in Clients, TakeTicket(c)
  PROVE  OnePlace' /\ UNCHANGED Office!officeVars
<1>1. /\ UNCHANGED <<issued, mainVars, ident, status, delivered, dropped, refused>>
      /\ status[c] = "running" /\ hand[c] = NoTicket /\ chan[c] # <<>>
      /\ hand' = [hand EXCEPT ![c] = Head(chan[c])]
      /\ chan' = [chan EXCEPT ![c] = Tail(@)]
  BY DEF TakeTicket, carVars, history
<1>2. /\ Distinct(Tail(chan[c]))
      /\ Head(chan[c]) \in ToSet(chan[c])
      /\ ToSet(Tail(chan[c])) = ToSet(chan[c]) \ {Head(chan[c])}
  BY <1>1, DeskTypes, DistinctTail
<1>3. /\ hand'[c] = Head(chan[c]) /\ chan'[c] = Tail(chan[c])
      /\ \A d \in Clients : d # c => chan'[d] = chan[d] /\ hand'[d] = hand[d]
  BY <1>1, DeskTypes
<1>4. Held(c)' = Held(c)
  BY <1>1, <1>2, <1>3, DeskTypes DEF Held
<1>5. /\ OnePlace' /\ UNCHANGED <<Waiting, Duty>>
      /\ \A d \in Clients : d # c => Held(d)' = Held(d)
  BY <1>1, <1>2, <1>3, <1>4, DeskStep
<1>6. Handed' = Handed /\ Left' = Left
  BY <1>1, <1>4, <1>5, HandedSame, LeftStays
<1> QED
  BY <1>1, <1>5, <1>6 DEF Office!officeVars

LEMMA WriteOffice ==
  ASSUME TicketIInv, NEW c \in Clients, WriteTicket(c)
  PROVE  OnePlace' /\ \E t \in AllTickets : Office!Deliver(t, c)
<1> DEFINE t == hand[c]
<1>1. /\ UNCHANGED <<issued, mainVars, ident, status, chan, dropped, refused>>
      /\ status[c] = "running" /\ t # NoTicket
      /\ hand' = [hand EXCEPT ![c] = NoTicket]
      /\ delivered' = delivered \cup {<<t, c>>}
  BY DEF WriteTicket, carVars
<1>2. /\ t \in Infraction /\ t \in Held(c)
      /\ hand'[c] = NoTicket /\ \A d \in Clients : d # c => hand'[d] = hand[d]
  BY <1>1, DeskTypes
<1>3. Held(c)' = Held(c) \ {t}
  BY <1>1, <1>2, DeskTypes DEF Held
<1>4. /\ OnePlace' /\ UNCHANGED <<Waiting, Duty>>
      /\ \A d \in Clients : d # c => Held(d)' = Held(d)
  BY <1>1, <1>2, <1>3, DeskTypes, DeskStep
<1>5. Handed' = Handed \ ({t} \X {c})
  BY <1>3, <1>4, HandedLess
<1>6. {t} \X {c} = {<<t, c>>} /\ <<t, c>> \in Handed /\ c \notin Left /\ Left' = Left
  BY <1>1, <1>2, LeftStays DEF Handed, Left
<1>7. Office!Deliver(t, c)
  BY <1>1, <1>4, <1>5, <1>6 DEF Office!Deliver
<1>8. t \in AllTickets
  BY <1>2 DEF TicketIInv, OnePlace, TicketsAreIssued
<1> QED
  BY <1>4, <1>7, <1>8

(* The task ends, and takes some or all of its tickets with it.                 *)
LEMMA EndOffice ==
  ASSUME TicketIInv, NEW c \in Clients, End(c) \/ Finish(c) \/ Panic(c)
  PROVE  OnePlace' /\ Office!Leave(c)
<1> DEFINE gone == IF End(c) THEN {hand[c]} \ {NoTicket} ELSE ToSet(chan[c])
<1>1. /\ UNCHANGED <<issued, mainVars, ident, delivered, refused>>
      /\ dropped' = dropped \cup gone
      /\ \E s \in {"over", "gone", "panicked"} : status' = [status EXCEPT ![c] = s]
  BY DEF End, Finish, Panic, carVars
<1>2. /\ \A d \in Clients : d # c => chan'[d] = chan[d] /\ hand'[d] = hand[d]
      /\ \A d \in Clients : d # c => status'[d] = status[d]
      /\ hand'[c] = NoTicket
      /\ chan'[c] = IF End(c) THEN chan[c] ELSE <<>>
  <2>1. CASE End(c)
    BY <2>1, DeskTypes DEF End
  <2>2. CASE Finish(c) /\ ~ End(c)
    BY <2>2, DeskTypes DEF Finish
  <2>3. CASE Panic(c) /\ ~ End(c)
    BY <2>3, DeskTypes DEF Panic
  <2> QED
    BY <2>1, <2>2, <2>3
<1>3. ~ End(c) => hand[c] = NoTicket
  BY DeskTypes DEF Finish, Panic
<1>4. gone \subseteq Held(c) /\ Held(c)' = Held(c) \ gone
  BY <1>2, <1>3, DeskTypes, EmptyDistinct DEF Held
<1>5. Distinct(chan'[c]) /\ hand'[c] \notin ToSet(chan'[c])
  BY <1>2, DeskTypes, EmptyDistinct
<1> HIDE DEF gone
<1>6. /\ OnePlace' /\ UNCHANGED <<Waiting, Duty>>
      /\ \A d \in Clients : d # c => Held(d)' = Held(d)
  BY <1>1, <1>2, <1>4, <1>5, DeskStep
<1>7. Handed' = Handed \ (gone \X {c})
  BY <1>4, <1>6, HandedLess
<1>8. Left' = Left \cup {c}
  BY <1>1, DeskTypes DEF Left, Clients
<1>9. gone \X {c} \subseteq Handed
  BY <1>4 DEF Handed
<1>10. PICK taken \in SUBSET {h \in Handed : h[2] = c} : taken = gone \X {c}
  BY <1>9
<1>11. {h[1] : h \in taken} = gone
  <2>1. \A t \in gone : <<t, c>> \in taken /\ <<t, c>>[1] = t
    BY <1>10
  <2>2. \A h \in taken : h[1] \in gone
    BY <1>10
  <2>3. \A t \in gone : t \in {h[1] : h \in taken}
    BY <2>1
  <2> QED
    BY <2>2, <2>3
<1>12. Office!Leave(c)
  <2>1. /\ Handed' = Handed \ taken
        /\ (dropped \cup refused)' = (dropped \cup refused) \cup {h[1] : h \in taken}
    BY <1>1, <1>7, <1>10, <1>11
  <2> QED
    BY <1>1, <1>6, <1>8, <2>1 DEF Office!Leave
<1> QED
  BY <1>6, <1>12

(* The outcomes of `chan.send(ticket).await`.                                   *)
LEMMA SendOffice ==
  ASSUME TicketIInv, NEW c \in Clients, NEW t \in Waiting \cap Infraction,
         t.road \in Duty[c], Send(t, c),
         UNCHANGED <<issued, status, ident, hand, delivered, dropped>>,
         Waiting' = Waiting \ {t}, MainHasOnce', RightDesk'
  PROVE  OnePlace' /\ (Office!Hand(t, c) \/ Office!Refuse(t, c))
<1>1. Duty' = Duty /\ Left' = Left
  BY DutyStays, LeftStays
<1>2. t \in ToSet(issued) /\ t \notin Held(c) /\ t # NoTicket
  BY NoTicketIsNone DEF TicketIInv, OnePlace, TicketsAreIssued, DesksHaveOnce
<1>3. CASE refused' = refused /\ chan' = [chan EXCEPT ![c] = Append(@, t)]
  <2>1. /\ chan'[c] = Append(chan[c], t)
        /\ \A d \in Clients : d # c => chan'[d] = chan[d]
    BY <1>3, DeskTypes
  <2>2. Distinct(chan'[c]) /\ ToSet(chan'[c]) = ToSet(chan[c]) \cup {t}
    BY <1>2, <2>1, DeskTypes, DistinctAppend
  <2>3. /\ Held(c)' = Held(c) \cup {t}
        /\ \A d \in Clients : d # c => Held(d)' = Held(d)
    BY <1>2, <2>1, <2>2, DeskTypes DEF Held
  <2>4. Handed' = Handed \cup {<<t, c>>}
    BY <2>3, HandedMore
  <2>5. TicketsAreIssued'
    BY <1>2, <1>3, <2>3 DEF TicketIInv, OnePlace, TicketsAreIssued
  <2>6. DesksHaveOnce'
    <3> SUFFICES ASSUME NEW d \in Clients
                 PROVE  /\ Distinct(chan'[d])
                        /\ hand'[d] \notin ToSet(chan'[d])
                        /\ hand'[d] # NoTicket => status'[d] = "running"
                        /\ Held(d)' \cap Waiting' = {}
      BY DEF DesksHaveOnce
    <3>1. hand[c] # t
      BY <1>2, DeskTypes
    <3>2. /\ Distinct(chan[d]) /\ hand[d] \notin ToSet(chan[d])
          /\ hand[d] # NoTicket => status[d] = "running"
          /\ Held(d) \cap Waiting = {}
      BY DEF TicketIInv, OnePlace, DesksHaveOnce
    <3> QED
      BY <2>1, <2>2, <2>3, <3>1, <3>2
  <2>7. Office!Hand(t, c)
    BY <1>1, <1>3, <2>4 DEF Office!Hand
  <2> QED
    BY <2>5, <2>6, <2>7 DEF OnePlace
<1>4. CASE Closed(c) /\ refused' = refused \cup {t} /\ chan' = chan
  <2>1. Handed' = Handed /\ \A d \in Clients : Held(d)' = Held(d)
    BY <1>4, DesksStay
  <2>2. TicketsAreIssued'
    BY <1>2, <1>4, <2>1 DEF TicketIInv, OnePlace, TicketsAreIssued
  <2>3. DesksHaveOnce'
    BY <1>4, <2>1 DEF TicketIInv, OnePlace, DesksHaveOnce
  <2>4. c \in Left
    BY <1>4 DEF Closed, Left
  <2>5. (dropped \cup refused)' = (dropped \cup refused) \cup {t}
    BY <1>4
  <2>6. Office!Refuse(t, c)
    BY <1>1, <2>1, <2>4, <2>5 DEF Office!Refuse
  <2> QED
    BY <2>2, <2>3, <2>6 DEF OnePlace
<1> QED
  BY <1>3, <1>4 DEF Send

LEMMA SendTicketOffice ==
  ASSUME TicketIInv, SendTicket
  PROVE  /\ OnePlace'
         /\ \E t \in AllTickets, c \in Clients : Office!Hand(t, c) \/ Office!Refuse(t, c)
<1>1. PICK t, c : t = main.ticket /\ c = main.to
  OBVIOUS
<1>2. /\ main.doing = "disposing" /\ main' = Idle
      /\ Send(t, c)
      /\ UNCHANGED <<issued, status, ident, hand, delivered, dropped, tickets>>
  BY <1>1 DEF SendTicket, carVars, clientVars
<1>3. t \in Infraction /\ c \in Clients
  BY <1>1, <1>2, MainCases DEF TicketIInv, ServerIInv
<1>4. InMain = {t} /\ InMain' = {} /\ Stored' = Stored
  BY <1>1, <1>2 DEF InMain, Stored, Idle
<1>5. t \in Waiting /\ Waiting' = Waiting \ {t}
  BY <1>4 DEF Waiting, TicketIInv, OnePlace, MainHasOnce
<1>6. t.road \in Duty[c]
  BY <1>1, <1>2 DEF TicketIInv, OnePlace, RightDesk
<1>7. MainHasOnce'
  BY <1>2, <1>4 DEF TicketIInv, OnePlace, MainHasOnce, Idle
<1>8. RightDesk'
  BY <1>2 DEF RightDesk, Idle
<1>9. t \in AllTickets
  BY <1>5 DEF TicketIInv, OnePlace, TicketsAreIssued
<1> QED
  BY <1>2, <1>3, <1>5, <1>6, <1>7, <1>8, <1>9, SendOffice

LEMMA SendBacklogOffice ==
  ASSUME TicketIInv, SendBacklog
  PROVE  /\ OnePlace'
         /\ \E t \in AllTickets, c \in Clients : Office!Hand(t, c) \/ Office!Refuse(t, c)
<1>1. PICK t, c : t = Head(main.backlog) /\ c = main.id
  OBVIOUS
<1>2. /\ main.doing = "registering" /\ main.backlog # <<>>
      /\ main' = [main EXCEPT !.backlog = Tail(@)]
      /\ Send(t, c)
      /\ UNCHANGED <<issued, status, ident, hand, delivered, dropped, tickets>>
  BY <1>1 DEF SendBacklog, carVars, clientVars
<1>3. /\ main \in [doing : {"registering"}, id : Clients, todo : Seq(Roads),
                   backlog : Seq(Infraction)]
      /\ c \in Clients /\ main.backlog \in Seq(Infraction)
  BY <1>1, <1>2, MainCases DEF TicketIInv, ServerIInv
<1>4. /\ main'.doing = "registering" /\ main'.id = main.id /\ main'.todo = main.todo
      /\ main'.backlog = Tail(main.backlog)
  BY <1>2, <1>3
<1>5. /\ Distinct(Tail(main.backlog))
      /\ t \in ToSet(main.backlog) /\ t \in Infraction
      /\ ToSet(Tail(main.backlog)) = ToSet(main.backlog) \ {t}
  <2>1. Distinct(main.backlog)
    BY <1>2 DEF TicketIInv, OnePlace, MainHasOnce
  <2> QED
    BY <1>1, <1>2, <1>3, <2>1, DistinctTail
<1>6. InMain = ToSet(main.backlog) /\ InMain' = InMain \ {t} /\ Stored' = Stored
  BY <1>2, <1>4, <1>5 DEF InMain, Stored
<1>7. t \in Waiting /\ Waiting' = Waiting \ {t}
  BY <1>5, <1>6 DEF Waiting, TicketIInv, OnePlace, MainHasOnce
<1>8. t.road \in Duty[c]
  BY <1>1, <1>2, <1>5 DEF TicketIInv, OnePlace, RightDesk
<1>9. MainHasOnce'
  BY <1>2, <1>4, <1>5, <1>6 DEF TicketIInv, OnePlace, MainHasOnce
<1>10. RightDesk'
  BY <1>2, <1>4, <1>5, DutyStays DEF TicketIInv, OnePlace, RightDesk
<1>11. t \in AllTickets
  BY <1>7 DEF TicketIInv, OnePlace, TicketsAreIssued
<1> QED
  BY <1>2, <1>3, <1>5, <1>7, <1>8, <1>9, <1>10, <1>11, SendOffice

LEMMA RegisterRoadOffice ==
  ASSUME TicketIInv, RegisterRoad
  PROVE  OnePlace' /\ UNCHANGED Office!officeVars
<1>1. PICK r : r = Head(main.todo)
  OBVIOUS
<1>2. /\ main.doing = "registering" /\ main.backlog = <<>> /\ main.todo # <<>>
      /\ main' = [main EXCEPT !.todo = Tail(@), !.backlog = tickets[r]]
      /\ tickets' = [tickets EXCEPT ![r] = <<>>]
      /\ UNCHANGED <<issued, status, ident, hand, chan, history>>
  BY <1>1 DEF RegisterRoad, carVars, clientVars
<1>3. /\ main \in [doing : {"registering"}, id : Clients, todo : Seq(Roads),
                   backlog : Seq(Infraction)]
      /\ main.id \in Clients /\ main.todo \in Seq(Roads)
  BY <1>2, MainCases DEF TicketIInv, ServerIInv
<1>4. /\ main'.doing = "registering" /\ main'.id = main.id
      /\ main'.todo = Tail(main.todo) /\ main'.backlog = tickets[r]
  BY <1>2, <1>3
<1>5. r \in Roads /\ r \in ToSet(main.todo) /\ ToSet(Tail(main.todo)) \subseteq ToSet(main.todo)
  <2>1. /\ Len(main.todo) \in Nat \ {0} /\ r = main.todo[1] /\ r \in Roads
        /\ Len(Tail(main.todo)) = Len(main.todo) - 1
        /\ \A i \in 1 .. Len(Tail(main.todo)) : Tail(main.todo)[i] = main.todo[i + 1]
        /\ DOMAIN main.todo = 1 .. Len(main.todo)
        /\ DOMAIN Tail(main.todo) = 1 .. Len(Tail(main.todo))
    BY <1>1, <1>2, <1>3, HeadTailProperties, EmptySeq, LenProperties
  <2>2. 1 \in 1 .. Len(main.todo)
    BY <2>1
  <2>3. \A i \in 1 .. Len(Tail(main.todo)) : i + 1 \in 1 .. Len(main.todo)
    BY <2>1
  <2> QED
    BY <2>1, <2>2, <2>3 DEF ToSet
<1>6. /\ tickets \in [Roads -> Seq(Infraction)]
      /\ \A q \in Roads : Distinct(tickets[q]) /\ \A t \in ToSet(tickets[q]) : t.road = q
  BY DEF TicketIInv, ServerIInv, ServerTypeOK, OnePlace, MainHasOnce
<1>7. tickets'[r] = <<>> /\ \A q \in Roads : q # r => tickets'[q] = tickets[q]
  BY <1>2, <1>5, <1>6
<1>8. InMain = {} /\ InMain' = ToSet(tickets[r])
  BY <1>2, <1>4, EmptyDistinct DEF InMain
<1>9. Stored' = Stored \ ToSet(tickets[r])
  <2>1. \A q \in Roads : ToSet(tickets'[q]) = ToSet(tickets[q]) \ ToSet(tickets[r])
    BY <1>5, <1>6, <1>7, EmptyDistinct, ZenonT(40)
  <2> QED
    BY <2>1 DEF Stored
<1>10. ToSet(tickets[r]) \subseteq Stored
  BY <1>5 DEF Stored
<1>11. Waiting' = Waiting
  BY <1>8, <1>9, <1>10 DEF Waiting
<1>12. Handed' = Handed /\ Duty' = Duty /\ Left' = Left /\ \A c \in Clients : Held(c)' = Held(c)
  BY <1>2, DesksStay, DutyStays, LeftStays
<1>13. MainHasOnce'
  BY <1>4, <1>5, <1>6, <1>7, <1>8, <1>9, EmptyDistinct DEF MainHasOnce
<1>14. RightDesk'
  BY <1>2, <1>4, <1>5, <1>6, <1>12 DEF TicketIInv, OnePlace, RightDesk
<1>15. TicketsAreIssued' /\ DesksHaveOnce'
  BY <1>2, <1>11, <1>12 DEF TicketIInv, OnePlace, TicketsAreIssued, DesksHaveOnce, history
<1>16. UNCHANGED Office!officeVars
  BY <1>2, <1>11, <1>12 DEF Office!officeVars, history
<1> QED
  BY <1>13, <1>14, <1>15, <1>16 DEF OnePlace

(* The new ticket is for a day that no ticket is for, so it is new everywhere.  *)
LEMMA TicketObservationOffice ==
  ASSUME TicketIInv, TicketObservation
  PROVE  OnePlace' /\ \E t \in AllTickets : Office!Issue(t)
<1>1. PICK plate, road, obs :
        LET rep == Head(events).report IN
        plate = rep.plate /\ road = rep.road /\ obs = rep.obs
  OBVIOUS
<1>2. plate \in Plates /\ road \in Roads /\ obs \in Observations /\ main.doing = "idle"
  BY <1>1, ObservationStep DEF TicketIInv, TicketObservation
<1>3. /\ ~ AlreadyTicketed(plate, obs)
      /\ IssueTicket(plate, road, obs)
  BY <1>1 DEF TicketObservation, IssueTicket
<1>4. PICK prev \in Culprits(plate, road, obs) :
        issued' = Append(issued, TicketFor(plate, road, obs, prev))
  BY <1>3 DEF IssueTicket
<1>5. /\ cars \in [Plates -> Car] /\ issued \in Seq(Infraction)
      /\ TicketedDays
      /\ tickets \in [Roads -> Seq(Infraction)]
  BY DEF TicketIInv, ServerIInv, IInv, TypeOK, ServerTypeOK
<1>6. prev \in Observations /\ SpeedBetween(obs, prev) > Limit(road)
  <2>1. cars[plate].observations[road] \in SUBSET Observations
    BY <1>2, <1>5 DEF Car
  <2> QED
    BY <2>1 DEF Culprits
<1>7. PICK t : t = TicketFor(plate, road, obs, prev)
  OBVIOUS
<1>8. t \in AllTickets
  BY <1>2, <1>6, <1>7 DEF AllTickets
<1>9. t.plate = plate /\ t.road = road /\ Day(obs) \in TicketDays(t)
  <2>1. t.plate = plate /\ t.road = road
    BY <1>2, <1>6, <1>7, TicketForFacts
  <2>2. obs = t.start \/ obs = t.end
    BY <1>7 DEF TicketFor
  <2> QED
    BY <2>1, <2>2 DEF TicketDays
<1>10. DOMAIN issued = 1 .. Len(issued) /\ Len(issued) \in Nat
  BY <1>5, LenProperties
<1>11. t \notin ToSet(issued)
  <2> SUFFICES ASSUME NEW i \in 1 .. Len(issued), issued[i] = t
               PROVE  FALSE
    BY <1>10 DEF ToSet
  <2>1. TicketDays(t) \subseteq cars[plate].ticketed
    BY <1>5, <1>9 DEF TicketedDays
  <2> QED
    BY <1>3, <1>9, <2>1 DEF AlreadyTicketed
<1>12. /\ issued' \in Seq(Infraction) /\ issued'[Len(issued')] = t
       /\ ToSet(issued') = ToSet(issued) \cup {t}
       /\ t \in Infraction
  <2>1. t \in Infraction
    BY <1>2, <1>6, <1>7, TicketForFacts
  <2>2. /\ issued' = Append(issued, t)
        /\ issued' \in Seq(Infraction)
        /\ Len(issued') = Len(issued) + 1
        /\ issued'[Len(issued) + 1] = t
        /\ \A i \in 1 .. Len(issued) : issued'[i] = issued[i]
        /\ DOMAIN issued' = 1 .. Len(issued')
    BY <1>4, <1>5, <1>7, <2>1, AppendProperties, LenProperties
  <2>3. \A i \in 1 .. Len(issued') : i \in 1 .. Len(issued) \/ i = Len(issued) + 1
    BY <1>10, <2>2
  <2>4. 1 .. Len(issued) \subseteq 1 .. Len(issued') /\ Len(issued) + 1 \in 1 .. Len(issued')
    BY <1>10, <2>2
  <2> QED
    BY <1>10, <2>1, <2>2, <2>3, <2>4 DEF ToSet
<1>13. /\ UNCHANGED <<status, ident, hand, chan, delivered, dropped, refused>>
       /\ \/ /\ tickets' = [tickets EXCEPT ![road] = Append(@, t)]
             /\ main' = main
          \/ /\ \E d \in Available(road) :
                  main' = [doing |-> "disposing", ticket |-> t, to |-> d]
             /\ tickets' = tickets
  BY <1>9, <1>12 DEF TicketObservation, clientVars, history
<1>14. t \notin Waiting /\ \A c \in Clients : t \notin Held(c)
  BY <1>11 DEF TicketIInv, OnePlace, TicketsAreIssued
<1>15. /\ Handed' = Handed /\ Duty' = Duty /\ Left' = Left
       /\ \A c \in Clients : Held(c)' = Held(c)
  BY <1>13, DesksStay, DutyStays, LeftStays
<1>16. InMain = {} /\ t \notin Stored
  BY <1>2, <1>14 DEF InMain, Waiting
<1>17. Waiting' = Waiting \cup {t} /\ MainHasOnce' /\ RightDesk'
  <2>1. CASE tickets' = [tickets EXCEPT ![road] = Append(@, t)] /\ main' = main
    <3>1. t \notin ToSet(tickets[road])
      BY <1>2, <1>16 DEF Stored
    <3>2. Distinct(tickets[road])
      BY <1>2 DEF TicketIInv, OnePlace, MainHasOnce
    <3>3. /\ Distinct(tickets'[road])
          /\ ToSet(tickets'[road]) = ToSet(tickets[road]) \cup {t}
          /\ \A r \in Roads : r # road => tickets'[r] = tickets[r]
      BY <1>2, <1>5, <1>12, <2>1, <3>1, <3>2, DistinctAppend
    <3>4. Stored' = Stored \cup {t}
      BY <1>2, <3>3 DEF Stored
    <3>5. InMain' = InMain
      BY <2>1 DEF InMain
    <3>6. MainHasOnce'
      BY <1>2, <1>9, <1>16, <2>1, <3>3, <3>5 DEF TicketIInv, OnePlace, MainHasOnce
    <3>7. RightDesk'
      BY <1>2, <2>1 DEF RightDesk
    <3> QED
      BY <3>4, <3>5, <3>6, <3>7 DEF Waiting
  <2>2. ASSUME NEW d \in Available(road), tickets' = tickets,
               main' = [doing |-> "disposing", ticket |-> t, to |-> d]
        PROVE  Waiting' = Waiting \cup {t} /\ MainHasOnce' /\ RightDesk'
    <3>1. Stored' = Stored /\ InMain' = {t}
      BY <2>2 DEF Stored, InMain
    <3>2. d \in dispatchers /\ coverage[road][d] > 0 /\ d \in Clients /\ IsDispatcher(d)
      BY DEF Available, TicketIInv, ServerIInv, Registry, DispatchersAreKnown
    <3>3. coverage[road][d] = Occurrences(road, ident[d].roads)
      BY <1>2, <3>2 DEF TicketIInv, ServerIInv, Registry, CoverageSoFar
    <3>4. road \in Duty[d]
      <4>1. ident[d].roads \in Seq(Roads)
        BY <3>2, IdentFields DEF TicketIInv, ServerIInv
      <4>2. /\ Occurrences(road, ident[d].roads) \in Nat
            /\ Occurrences(road, ident[d].roads) = 0 <=>
                 road \notin ToSet(ident[d].roads)
        BY <4>1, OccurrencesType
      <4>3. Occurrences(road, ident[d].roads) > 0
        BY <3>2, <3>3
      <4> QED
        BY <3>2, <4>2, <4>3 DEF Duty
    <3>5. MainHasOnce'
      BY <1>16, <2>2, <3>1 DEF TicketIInv, OnePlace, MainHasOnce
    <3>6. RightDesk'
      BY <1>9, <1>15, <2>2, <3>4 DEF RightDesk
    <3> QED
      BY <1>16, <3>1, <3>5, <3>6 DEF Waiting
  <2> QED
    BY <1>13, <2>1, <2>2
<1>18. TicketsAreIssued'
  BY <1>8, <1>12, <1>13, <1>15, <1>17 DEF TicketIInv, OnePlace, TicketsAreIssued
<1>19. DesksHaveOnce'
  BY <1>13, <1>14, <1>15, <1>17 DEF TicketIInv, OnePlace, DesksHaveOnce
<1>20. Office!Fresh(t)
  <2>1. t \notin Waiting \cup (dropped \cup refused)
    BY <1>11, <1>14 DEF TicketIInv, OnePlace, TicketsAreIssued
  <2>2. \A d \in Clients : <<t, d>> \notin Handed
    BY <1>14 DEF Handed
  <2>3. \A d \in Clients : <<t, d>> \notin delivered
    BY <1>11 DEF TicketIInv, OnePlace, TicketsAreIssued
  <2> QED
    BY <2>1, <2>2, <2>3 DEF Office!Fresh
<1>21. Office!Issue(t)
  BY <1>13, <1>15, <1>17, <1>20 DEF Office!Issue
<1> QED
  BY <1>8, <1>17, <1>18, <1>19, <1>21 DEF OnePlace

--------------------------------------------------------------------------------

LEMMA InitOffice == ServerInit => OnePlace /\ Office!OfficeInit
<1> SUFFICES ASSUME ServerInit PROVE OnePlace /\ Office!OfficeInit
  OBVIOUS
<1>1. /\ Stored = {} /\ InMain = {}
      /\ \A c \in Clients : Held(c) = {} /\ chan[c] = <<>> /\ hand[c] = NoTicket
      /\ issued = <<>> /\ delivered = {} /\ dropped = {} /\ refused = {}
      /\ main.doing = "idle"
  BY EmptyDistinct DEF ServerInit, Init, Stored, InMain, Idle, Held
<1>2. Waiting = {} /\ Handed = {}
  BY <1>1 DEF Waiting, Handed
<1>3. Duty = [c \in Clients |-> {}] /\ Left = {}
  BY DEF ServerInit, Duty, Left, IsDispatcher, NoIdent
<1>4. OnePlace
  <2>1. \A r \in Roads : tickets[r] = <<>>
    BY DEF ServerInit
  <2> QED
    BY <1>1, <1>2, <2>1, EmptyDistinct
       DEF OnePlace, TicketsAreIssued, MainHasOnce, RightDesk, DesksHaveOnce
<1>5. Office!OfficeInit
  BY <1>1, <1>2, <1>3 DEF Office!OfficeInit
<1> QED
  BY <1>4, <1>5

LEMMA StepOffice ==
  TicketIInv /\ [ServerNext]_serverVars
    => OnePlace' /\ [Office!OfficeNext]_(Office!officeVars)
<1> SUFFICES ASSUME TicketIInv, [ServerNext]_serverVars
             PROVE  OnePlace' /\ [Office!OfficeNext]_(Office!officeVars)
  OBVIOUS
<1>1. CASE Accept
  BY <1>1, AcceptOffice
<1>2. CASE HandleEvent
  BY <1>2, TicketObservationOffice, EventOffice DEF HandleEvent, Office!OfficeNext
<1>3. CASE SendTicket \/ SendBacklog
  BY <1>3, SendTicketOffice, SendBacklogOffice DEF Office!OfficeNext
<1>4. CASE RegisterRoad \/ EndRegistering
  BY <1>4, RegisterRoadOffice, EndRegisteringOffice
<1>5. ASSUME NEW c \in Clients, ClientStep(c)
      PROVE  OnePlace' /\ [Office!OfficeNext]_(Office!officeVars)
  <2>1. CASE Identify(c)
    BY <2>1, IdentifyOffice DEF Office!OfficeNext
  <2>2. CASE \E plate \in Plates, obs \in Observations : Plate(c, plate, obs)
    BY <2>2, PlateOffice DEF Plate
  <2>3. CASE TakeTicket(c)
    BY <2>3, TakeOffice
  <2>4. CASE WriteTicket(c)
    BY <2>4, WriteOffice DEF Office!OfficeNext
  <2>5. CASE End(c) \/ Finish(c) \/ Panic(c)
    BY <2>5, EndOffice DEF Office!OfficeNext
  <2> QED
    BY <1>5, <2>1, <2>2, <2>3, <2>4, <2>5 DEF ClientStep
<1>6. CASE UNCHANGED serverVars
  BY <1>6, PlateOffice DEF serverVars
<1> QED
  BY <1>1, <1>2, <1>3, <1>4, <1>5, <1>6 DEF ServerNext, MainStep

(* Where the tickets are: each of them in one place and once in it, the         *)
(* strengthening that the refinement needs.                                     *)
THEOREM TicketInvariance == ServerSpec => []TicketIInv
<1>1. ServerInit => TicketIInv
  BY InitServerIInv, InitOffice DEF TicketIInv
<1>2. TicketIInv /\ [ServerNext]_serverVars => TicketIInv'
  BY StepServerIInv, StepOffice DEF TicketIInv
<1> QED
  BY <1>1, <1>2, PTL DEF ServerSpec

(* The server keeps the office's promise: no ticket is issued twice, duplicated *)
(* on its way, handed to a dispatcher of another road, or lost but in the task  *)
(* of a client that has left.                                                   *)
THEOREM ServerIsOffice == ServerSpec => KeepsPromise
<1>1. ServerInit => Office!OfficeInit
  BY InitOffice
<1>2. TicketIInv /\ [ServerNext]_serverVars => [Office!OfficeNext]_(Office!officeVars)
  BY StepOffice
<1> QED
  BY <1>1, <1>2, TicketInvariance, PTL DEF ServerSpec, KeepsPromise, Office!OfficeSpec
================================================================================
