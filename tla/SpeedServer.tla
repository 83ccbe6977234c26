------------------------------ MODULE SpeedServer ------------------------------
(* 06_speed: the main task (main.rs), one task per client (clients.rs) and the  *)
(* channels between them.                                                       *)
(*                                                                              *)
(* Client tasks tell the main task what happens to them through one unbounded   *)
(* channel of events.  The main task alone keeps the vehicles, the dispatchers  *)
(* and the tickets nobody could be found for; it sends tickets to the task of a *)
(* dispatcher through a bounded channel, and waits while that is full.          *)
(*                                                                              *)
(* The runtime is single-threaded: what a task does between two awaits is one   *)
(* step.  A send on a bounded channel is an await even when there is room (it   *)
(* also yields when the task's budget is used up), so it is a step of its own.  *)
EXTENDS Cars, FiniteSets, SequencesExt

CONSTANTS
  MaxClients,  \* bound: how many connections are accepted
  Idents,      \* what each client may announce itself as
  ChanSize,    \* CHAN_SIZE
  MaxBacklog,  \* bound: a camera reports only while fewer events are queued
  LongErrors   \* whether an error message may exceed 255 bytes

Clients == 0 .. MaxClients - 1

NoIdent == [kind |-> "none"]
CameraIdents == [kind : {"camera"}, road : Roads, mile : U16]
DispatcherIdents == [kind : {"dispatcher"}, roads : Seq(Roads)]

ASSUME ServerAssumption ==
  /\ MaxClients \in Nat
  /\ ChanSize \in Nat \ {0}
  /\ MaxBacklog \in Nat
  /\ LongErrors \in BOOLEAN
  /\ \A c \in Clients : Idents[c] \subseteq CameraIdents \cup DispatcherIdents

VARIABLES
  client_n,     \* the next client id
  status,       \* of each client's task
  ident,        \* what the client announced itself as
  hand,         \* the ticket its task is writing, if any
  events,       \* the channel of events to the main task
  unid_clients, \* main: the clients that are not identified yet
  dispatchers,  \* main: the clients known as dispatchers
  coverage,     \* main: how often each client is listed for each road
  tickets,      \* main: the undelivered tickets of each road
  main,         \* where the main task is
  chan,         \* the channel to each client's task
  delivered,    \* history: <<ticket, client>> written to that client's socket
  dropped,      \* history: tickets that ended in the task of a client that left
  refused       \* history: tickets whose send returned an error

clientVars == <<client_n, status, ident, hand>>
mainVars == <<unid_clients, dispatchers, coverage, tickets, main>>
history == <<delivered, dropped, refused>>
serverVars == <<carVars, clientVars, events, mainVars, chan, history>>

NoTicket == [plate |-> "none"]

Occurrences(road, roads) == Cardinality({i \in 1 .. Len(roads) : roads[i] = road})

IsDispatcher(c) == ident[c].kind = "dispatcher"

(* The receiving half of the channel is dropped with the task.                  *)
Closed(c) == status[c] \in {"gone", "panicked"}

--------------------------------------------------------------------------------
(* Client tasks.  status: "none" (not accepted), "unid" (wrapped_run),          *)
(* "running" (run_as_camera, run_as_dispatcher), "over" (wrapped_run has        *)
(* returned; run writes an error message and shuts the socket down), "gone"     *)
(* (run has returned), "panicked".                                              *)

Emit(e) == events' = Append(events, e)

(* Main accepts a connection in the same select as it receives events, so only  *)
(* when it is not busy with one.                                                *)
Accept ==
  /\ main.doing = "idle"
  /\ client_n < MaxClients
  /\ unid_clients' = unid_clients \cup {client_n}
  /\ status' = [status EXCEPT ![client_n] = "unid"]
  /\ client_n' = client_n + 1
  /\ UNCHANGED <<carVars, ident, hand, events, dispatchers, coverage, tickets,
                 main, chan, history>>

(* IAmCamera or IAmDispatcher.                                                  *)
Identify(c) ==
  /\ status[c] = "unid"
  /\ \E i \in Idents[c] :
       /\ ident' = [ident EXCEPT ![c] = i]
       /\ Emit([type |-> i.kind, id |-> c])
  /\ status' = [status EXCEPT ![c] = "running"]
  /\ UNCHANGED <<carVars, client_n, hand, mainVars, chan, history>>

(* Plate, from a camera.  Bound: a vehicle passes a camera once at a time, so   *)
(* the same observation is not reported twice.                                  *)
Plate(c, plate, obs) ==
  LET rep == [plate |-> plate, road |-> ident[c].road, obs |-> obs]
      evt == [type |-> "observation", report |-> rep] IN
  /\ status[c] = "running"
  /\ ident[c].kind = "camera"
  /\ obs.mile = ident[c].mile
  /\ rep \notin seen
  /\ evt \notin ToSet(events)
  /\ Len(events) < MaxBacklog
  /\ Emit(evt)
  /\ UNCHANGED <<carVars, clientVars, mainVars, chan, history>>

(* The dispatcher's task takes a ticket from its channel and writes it; while   *)
(* it writes it reads nothing.                                                  *)
TakeTicket(c) ==
  /\ status[c] = "running" /\ IsDispatcher(c)
  /\ hand[c] = NoTicket
  /\ chan[c] # <<>>
  /\ hand' = [hand EXCEPT ![c] = Head(chan[c])]
  /\ chan' = [chan EXCEPT ![c] = Tail(@)]
  /\ UNCHANGED <<carVars, client_n, status, ident, events, mainVars, history>>

WriteTicket(c) ==
  /\ status[c] = "running"
  /\ hand[c] # NoTicket
  /\ delivered' = delivered \cup {<<hand[c], c>>}
  /\ hand' = [hand EXCEPT ![c] = NoTicket]
  /\ UNCHANGED <<carVars, client_n, status, ident, events, mainVars, chan,
                 dropped, refused>>

(* wrapped_run returns: the client disconnected, a read or a write failed, or   *)
(* the client broke the protocol.  A ticket being written is lost.              *)
End(c) ==
  /\ status[c] \in {"unid", "running"}
  /\ status' = [status EXCEPT ![c] = "over"]
  /\ hand' = [hand EXCEPT ![c] = NoTicket]
  /\ dropped' = dropped \cup ({hand[c]} \ {NoTicket})
  /\ UNCHANGED <<carVars, client_n, ident, events, mainVars, chan, delivered,
                 refused>>

\* A mutant: Gone is only sent by a client that had announced itself.
Finish_identified(c) ==
  /\ status[c] = "over"
  /\ status' = [status EXCEPT ![c] = "gone"]
  /\ IF ident[c] = NoIdent THEN UNCHANGED events ELSE Emit([type |-> "gone", id |-> c])
  /\ dropped' = dropped \cup ToSet(chan[c])
  /\ chan' = [chan EXCEPT ![c] = <<>>]
  /\ UNCHANGED <<carVars, client_n, ident, hand, mainVars, delivered, refused>>

(* The rest of run: the socket is shut down, Gone is sent, and the task returns *)
(* in the same step, dropping what is left in its channel.                      *)
Finish(c) ==
  /\ status[c] = "over"
  /\ status' = [status EXCEPT ![c] = "gone"]
  /\ Emit([type |-> "gone", id |-> c])
  /\ dropped' = dropped \cup ToSet(chan[c])
  /\ chan' = [chan EXCEPT ![c] = <<>>]
  /\ UNCHANGED <<carVars, client_n, ident, hand, mainVars, delivered, refused>>

(* LPString::from copies 255 bytes into an array of 256 when the text is too    *)
(* long, and copy_from_slice panics: the task dies while it builds the message  *)
(* about a protocol error, before it sends Gone.                                *)
Panic(c) ==
  /\ LongErrors
  /\ status[c] \in {"unid", "running"}
  /\ hand[c] = NoTicket
  /\ status' = [status EXCEPT ![c] = "panicked"]
  /\ dropped' = dropped \cup ToSet(chan[c])
  /\ chan' = [chan EXCEPT ![c] = <<>>]
  /\ UNCHANGED <<carVars, client_n, ident, hand, events, mainVars, delivered,
                 refused>>

--------------------------------------------------------------------------------
(* The main task.  main.doing: "idle" (in the select), "disposing" (in          *)
(* dispose_ticket, awaiting the send), "registering" (in the loop over the      *)
(* roads of a new dispatcher).                                                  *)

Idle == [doing |-> "idle"]

NextEvent(type) ==
  /\ main.doing = "idle"
  /\ events # <<>>
  /\ Head(events).type = type
  /\ events' = Tail(events)

(* The dispatchers to whom a ticket for the road may be sent.  The code takes   *)
(* the first in the road's list; by its own comment (main.rs:75) the order of   *)
(* the list does not matter, and here each list is a count per client.          *)
Available(road) == {c \in dispatchers : coverage[road][c] > 0}

RecordObservation ==
  /\ NextEvent("observation")
  /\ LET rep == Head(events).report IN
       \/ IgnoreObs(rep.plate, rep.road, rep.obs)
       \/ StoreObs(rep.plate, rep.road, rep.obs)
  /\ UNCHANGED <<clientVars, mainVars, chan, history>>

(* dispose_ticket, up to the send.                                              *)
TicketObservation ==
  /\ NextEvent("observation")
  /\ LET rep == Head(events).report IN IssueTicket(rep.plate, rep.road, rep.obs)
  /\ LET t == issued'[Len(issued')] IN
       \/ /\ Available(t.road) = {}
          /\ tickets' = [tickets EXCEPT ![t.road] = Append(@, t)]
          /\ UNCHANGED main
       \/ \E d \in Available(t.road) :
            /\ main' = [doing |-> "disposing", ticket |-> t, to |-> d]
            /\ UNCHANGED tickets
  /\ UNCHANGED <<clientVars, unid_clients, dispatchers, coverage, chan, history>>

\* A mutant: the capacity is off by one.
Send_offByOne(t, c) ==
  \/ /\ ~ Closed(c)
     /\ Len(chan[c]) <= ChanSize
     /\ chan' = [chan EXCEPT ![c] = Append(@, t)]
     /\ UNCHANGED refused
  \/ /\ Closed(c)
     /\ refused' = refused \cup {t}
     /\ UNCHANGED chan

\* A mutant: a send to a receiver that is gone waits for room.
Send_noError(t, c) ==
  /\ Len(chan[c]) < ChanSize
  /\ ~ Closed(c)
  /\ chan' = [chan EXCEPT ![c] = Append(@, t)]
  /\ UNCHANGED refused

(* `chan.send(ticket).await`: it succeeds when there is room, and fails, which  *)
(* is only logged, when the receiver is gone.                                   *)
Send(t, c) ==
  \/ /\ ~ Closed(c)
     /\ Len(chan[c]) < ChanSize
     /\ chan' = [chan EXCEPT ![c] = Append(@, t)]
     /\ UNCHANGED refused
  \/ /\ Closed(c)
     /\ refused' = refused \cup {t}
     /\ UNCHANGED chan

SendTicket ==
  /\ main.doing = "disposing"
  /\ Send(main.ticket, main.to)
  /\ main' = Idle
  /\ UNCHANGED <<carVars, clientVars, events, unid_clients, dispatchers, coverage,
                 tickets, delivered, dropped>>

\* A mutant: a road that occurs twice in the array is removed once.
RemoveRoads_once(c) ==
  [r \in Roads |->
     [coverage[r] EXCEPT ![c] = IF @ > 0 /\ r \in ToSet(ident[c].roads)
                                THEN @ - 1 ELSE @]]

(* remove_roads takes one entry out of the list of a road for each time the     *)
(* road occurs in the dispatcher's array.                                       *)
RemoveRoads(c) ==
  [r \in Roads |->
     [coverage[r] EXCEPT ![c] = IF @ > Occurrences(r, ident[c].roads)
                                THEN @ - Occurrences(r, ident[c].roads)
                                ELSE 0]]

HandleGone ==
  /\ NextEvent("gone")
  /\ LET c == Head(events).id IN
       IF c \in dispatchers
       THEN /\ dispatchers' = dispatchers \ {c}
            /\ coverage' = RemoveRoads(c)
            /\ UNCHANGED unid_clients
       ELSE /\ unid_clients' = unid_clients \ {c}
            /\ UNCHANGED <<dispatchers, coverage>>
  /\ UNCHANGED <<carVars, clientVars, tickets, main, chan, history>>

\* A mutant: a camera stays among the unidentified clients.
HandleCamera_kept ==
  /\ NextEvent("camera")
  /\ UNCHANGED <<carVars, clientVars, mainVars, chan, history>>

HandleCamera ==
  /\ NextEvent("camera")
  /\ unid_clients' = unid_clients \ {Head(events).id}
  /\ UNCHANGED <<carVars, clientVars, dispatchers, coverage, tickets, main, chan,
                 history>>

(* An identification from a client that is not waiting for one is only logged.  *)
HandleDispatcher ==
  /\ NextEvent("dispatcher")
  /\ LET c == Head(events).id IN
       IF c \in unid_clients
       THEN /\ unid_clients' = unid_clients \ {c}
            /\ main' = [doing |-> "registering", id |-> c,
                        todo |-> ident[c].roads, backlog |-> <<>>]
       ELSE UNCHANGED <<unid_clients, main>>
  /\ UNCHANGED <<carVars, clientVars, dispatchers, coverage, tickets, chan, history>>

\* A mutant: the tickets of the road are sent but not taken out.
RegisterRoad_kept ==
  /\ main.doing = "registering"
  /\ main.backlog = <<>>
  /\ main.todo # <<>>
  /\ LET road == Head(main.todo) IN
       /\ coverage' = [coverage EXCEPT ![road][main.id] = @ + 1]
       /\ main' = [main EXCEPT !.todo = Tail(@), !.backlog = tickets[road]]
  /\ UNCHANGED <<carVars, clientVars, events, unid_clients, dispatchers, tickets,
                 chan, history>>

\* A mutant: the tickets of the road are left where they are.
RegisterRoad_unsent ==
  /\ main.doing = "registering"
  /\ main.backlog = <<>>
  /\ main.todo # <<>>
  /\ LET road == Head(main.todo) IN
       /\ coverage' = [coverage EXCEPT ![road][main.id] = @ + 1]
       /\ main' = [main EXCEPT !.todo = Tail(@)]
  /\ UNCHANGED <<carVars, clientVars, events, unid_clients, dispatchers, tickets,
                 chan, history>>

(* One turn of the loop: the road is covered and its tickets are taken out.     *)
RegisterRoad ==
  /\ main.doing = "registering"
  /\ main.backlog = <<>>
  /\ main.todo # <<>>
  /\ LET road == Head(main.todo) IN
       /\ coverage' = [coverage EXCEPT ![road][main.id] = @ + 1]
       /\ main' = [main EXCEPT !.todo = Tail(@), !.backlog = tickets[road]]
       /\ tickets' = [tickets EXCEPT ![road] = <<>>]
  /\ UNCHANGED <<carVars, clientVars, events, unid_clients, dispatchers, chan,
                 history>>

SendBacklog ==
  /\ main.doing = "registering"
  /\ main.backlog # <<>>
  /\ Send(Head(main.backlog), main.id)
  /\ main' = [main EXCEPT !.backlog = Tail(@)]
  /\ UNCHANGED <<carVars, clientVars, events, unid_clients, dispatchers, coverage,
                 tickets, delivered, dropped>>

EndRegistering ==
  /\ main.doing = "registering"
  /\ main.backlog = <<>>
  /\ main.todo = <<>>
  /\ dispatchers' = dispatchers \cup {main.id}
  /\ main' = Idle
  /\ UNCHANGED <<carVars, clientVars, events, unid_clients, coverage, tickets,
                 chan, history>>

--------------------------------------------------------------------------------

ServerInit ==
  /\ Init
  /\ client_n = 0
  /\ status = [c \in Clients |-> "none"]
  /\ ident = [c \in Clients |-> NoIdent]
  /\ hand = [c \in Clients |-> NoTicket]
  /\ events = <<>>
  /\ unid_clients = {}
  /\ dispatchers = {}
  /\ coverage = [r \in Roads |-> [c \in Clients |-> 0]]
  /\ tickets = [r \in Roads |-> <<>>]
  /\ main = Idle
  /\ chan = [c \in Clients |-> <<>>]
  /\ delivered = {}
  /\ dropped = {}
  /\ refused = {}

ClientStep(c) ==
  \/ Identify(c)
  \/ \E plate \in Plates, obs \in Observations : Plate(c, plate, obs)
  \/ TakeTicket(c)
  \/ WriteTicket(c)
  \/ End(c)
  \/ Finish(c)
  \/ Panic(c)

HandleEvent ==
  \/ RecordObservation
  \/ TicketObservation
  \/ HandleGone
  \/ HandleCamera
  \/ HandleDispatcher

MainStep ==
  \/ HandleEvent
  \/ SendTicket
  \/ RegisterRoad
  \/ SendBacklog
  \/ EndRegistering

ServerNext ==
  \/ Accept
  \/ MainStep
  \/ \E c \in Clients : ClientStep(c)

ServerSpec == ServerInit /\ [][ServerNext]_serverVars

(* The main task runs whenever it can.  A client's task goes on once it has a   *)
(* ticket to write or has ended: this assumes that the peer reads what is       *)
(* written to it, or that the write fails.                                      *)
Fairness ==
  /\ WF_serverVars(MainStep)
  /\ \A c \in Clients :
       WF_serverVars(TakeTicket(c) \/ WriteTicket(c) \/ Finish(c))

FairServerSpec == ServerSpec /\ Fairness

--------------------------------------------------------------------------------
(* Properties *)

Event ==
  [type : {"camera", "dispatcher", "gone"}, id : Clients]
    \cup [type : {"observation"}, report : Report]

ServerTypeOK ==
  /\ TypeOK
  /\ client_n \in 0 .. MaxClients
  /\ status \in [Clients -> {"none", "unid", "running", "over", "gone", "panicked"}]
  /\ ident \in [Clients -> CameraIdents \cup DispatcherIdents \cup {NoIdent}]
  /\ \A c \in Clients : ident[c] \in Idents[c] \cup {NoIdent}
  /\ hand \in [Clients -> Infraction \cup {NoTicket}]
  /\ events \in Seq(Event)
  /\ unid_clients \subseteq Clients
  /\ dispatchers \subseteq Clients
  /\ coverage \in [Roads -> [Clients -> Nat]]
  /\ tickets \in [Roads -> Seq(Infraction)]
  /\ chan \in [Clients -> Seq(Infraction)]
  /\ \A c \in Clients : Len(chan[c]) <= ChanSize

(* Main's list of dispatchers and its lists of coverage say the same: a client  *)
(* is listed for a road as often as it named it, while it is a dispatcher, and  *)
(* never otherwise.  One entry too many after a Gone and tickets for the road   *)
(* would search a dispatcher that is not there; one too few and it is never     *)
(* found (main.rs:69-89 against 195-215, with arrays that repeat a road).       *)
CoverageMatches ==
  main.doing # "registering" =>
    \A r \in Roads, c \in Clients :
      coverage[r][c] = IF c \in dispatchers THEN Occurrences(r, ident[c].roads)
                                            ELSE 0

(* No ticket waits in the store while a dispatcher for its road is registered,  *)
(* whether the ticket or the dispatcher came first (main.rs:44-66, 197-211).    *)
NoneWaitsWhileServed ==
  main.doing # "registering" =>
    \A r \in Roads :
      tickets[r] # <<>> => \A c \in dispatchers : r \notin ToSet(ident[c].roads)

(* The clients that main waits to hear an identification from are exactly those *)
(* that have not sent one, or whose identification is still queued, and whose   *)
(* Gone has not been handled: the branches of main.rs:188-192 and 219-223 for   *)
(* an unknown id are never taken, and no entry stays behind.                    *)
Queued(type, c) == \E e \in ToSet(events) : e.type = type /\ e.id = c

UnidentifiedIsUnheard ==
  unid_clients =
    {c \in Clients :
       \/ status[c] \in {"unid", "over", "panicked"} /\ ident[c] = NoIdent
       \/ status[c] = "gone" /\ ident[c] = NoIdent /\ Queued("gone", c)
       \/ Queued("camera", c)
       \/ Queued("dispatcher", c)}

(* Every ticket issued is in exactly one place, and only once in it: stored,    *)
(* in the hands of the main task, in a channel, in the hands of a client's      *)
(* task, delivered, or lost.                                                    *)
AllTickets ==
  {TicketFor(plate, road, o, p) : plate \in Plates, road \in Roads,
                                  o \in Observations, p \in Observations}

Duty == [c \in Clients |-> IF IsDispatcher(c) THEN ToSet(ident[c].roads) ELSE {}]

Left == {c \in Clients : status[c] \in {"over", "gone", "panicked"}}

Stored == UNION {ToSet(tickets[r]) : r \in Roads}

InMain ==
  CASE main.doing = "disposing" -> {main.ticket}
    [] main.doing = "registering" -> ToSet(main.backlog)
    [] OTHER -> {}

Waiting == Stored \cup InMain

Held(c) == ToSet(chan[c]) \cup ({hand[c]} \ {NoTicket})

Handed == UNION {Held(c) \X {c} : c \in Clients}

Office ==
  INSTANCE TicketOffice WITH
    Tickets <- AllTickets,
    Desks <- Clients,
    duty <- Duty,
    left <- Left,
    waiting <- Waiting,
    handed <- Handed,
    lost <- dropped \cup refused

(* The server keeps the office's promise (TicketOffice): whatever clients come, *)
(* go and fail, no ticket is duplicated, given to a dispatcher of another road, *)
(* or lost except in the task of a client that left.                            *)
KeepsPromise == Office!OfficeSpec

(* The main task is never stuck in a send (main.rs:53, 204): the channel it     *)
(* waits for is emptied or closed.                                              *)
MainReturns == main.doing # "idle" ~> main.doing = "idle"

(* A client whose task has ended is forgotten, however it ended ("ensure that   *)
(* the connection gets shutdown nicely regardless of how the function ends",    *)
(* posts/protohax_06c.md:176, and run's Gone).                                  *)
Forgotten(c) ==
  /\ c \notin unid_clients \cup dispatchers
  /\ \A r \in Roads : coverage[r][c] = 0

EndedIsForgotten ==
  \A c \in Clients :
    status[c] \in {"over", "gone", "panicked"} ~> [](Forgotten(c))

(* A dispatcher that stays gets every ticket of its roads out of the store and  *)
(* through the channel: in the end each ticket of such a road is delivered, to  *)
(* it or to another, or was lost with another that left.                        *)
Serves(c, r) ==
  status[c] = "running" /\ IsDispatcher(c) /\ r \in ToSet(ident[c].roads)

Settled(t) ==
  t \in dropped \cup refused \/ \E c \in Clients : <<t, c>> \in delivered

RoadIsServed ==
  \A c \in Clients, r \in Roads :
    <>[]Serves(c, r)
      => <>[](\A i \in 1 .. Len(issued) : issued[i].road = r => Settled(issued[i]))

(* "Send the ticket Event to an appropriate dispatcher, or queue it for later   *)
(* if none are connected." (main.rs:36-37): when dispose_ticket returns from a  *)
(* send, the ticket is in the channel of a dispatcher or in the store.          *)
SentOrQueued ==
  [][main.doing = "disposing" /\ main'.doing # "disposing"
       => \/ \E c \in Clients : main.ticket \in ToSet(chan'[c])
          \/ main.ticket \in Stored']_serverVars
================================================================================
