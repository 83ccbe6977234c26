-------------------------------- MODULE ChatRoom --------------------------------
(* 03_chat: the Room task (room.rs) and one task per client (client.rs).        *)
(*                                                                              *)
(* Clients send Join, Text and Leave events to the Room through one bounded     *)
(* channel; the Room answers a Join with the list of members, through a oneshot *)
(* channel, and turns every event into a message to all, through a broadcast    *)
(* channel, which overwrites what a slow receiver has not read.                 *)
EXTENDS Integers, FiniteSets, SequencesExt

CONSTANTS
  MaxClients,  \* bound: how many connections are accepted
  MaxTexts,    \* bound: how many lines are said
  EventCap,    \* EVENT_CAPACITY
  MessageCap   \* MESSAGE_CAPACITY

Clients == 0 .. MaxClients - 1

ASSUME ChatAssumption ==
  /\ MaxClients \in Nat
  /\ MaxTexts \in Nat
  /\ EventCap \in Nat \ {0}
  /\ MessageCap \in Nat \ {0}

VARIABLES
  status,      \* of each client's task
  outbox,      \* the event each client's task is waiting to send, if any
  events,      \* the channel to the Room
  room,        \* the clients the Room knows
  membership,  \* the oneshot channel of each client: nothing, or the list sent
  log,         \* the messages broadcast so far, the last MessageCap of them kept
  next,        \* of each receiver: the message it reads next
  part,        \* of each client: what its line_buff holds, see below
  said,        \* history: the number of lines said
  view,        \* history: whom the client has been told is there
  lagged,      \* history: whether the client has been told of dropped messages
  typed        \* history: whether part of a line has been typed that is still unsaid

lineVars == <<part, typed>>
clientVars == <<status, outbox, next, said, view, lagged, lineVars>>
roomVars == <<room, membership, log>>
vars == <<clientVars, events, roomVars>>

Event(type, c) == [type |-> type, id |-> c, whole |-> TRUE]
Line(c) == [type |-> "text", id |-> c, whole |-> typed[c] => part[c] # "none"]
Nothing == <<>>

--------------------------------------------------------------------------------
(* Client tasks.  status: "none" (not accepted), "naming" (get_name), "joining" *)
(* (until the list of members is written), "member" (in the loop), "leaving"    *)
(* (run has returned), "gone".                                                  *)
(* part: "none", "new" (bytes that the pending read_until has read), "old"      *)
(* (bytes of one that was cancelled only), "end" (the input has ended).         *)

(* A receiver is subscribed when the connection is accepted, ...                *)
Accept(c) ==
  /\ status[c] = "none"
  /\ \A d \in 0 .. c - 1 : status[d] # "none"
  /\ status' = [status EXCEPT ![c] = "naming"]
  /\ next' = [next EXCEPT ![c] = Len(log) + 1]
  /\ UNCHANGED <<outbox, said, view, lagged, lineVars, events, roomVars>>

(* ... and again when the name is known, before the Join is sent.               *)
Name(c) ==
  /\ status[c] = "naming"
  /\ status' = [status EXCEPT ![c] = "joining"]
  /\ next' = [next EXCEPT ![c] = Len(log) + 1]
  /\ outbox' = [outbox EXCEPT ![c] = <<Event("join", c)>>]
  /\ UNCHANGED <<said, view, lagged, lineVars, events, roomVars>>

\* A mutant: the capacity of the channel is off by one.
SendEvent_offByOne(c) ==
  /\ outbox[c] # Nothing
  /\ Len(events) <= EventCap
  /\ events' = events \o outbox[c]
  /\ outbox' = [outbox EXCEPT ![c] = Nothing]
  /\ status' = [status EXCEPT ![c] = IF @ = "leaving" THEN "gone" ELSE @]
  /\ UNCHANGED <<next, said, view, lagged, lineVars, roomVars>>

(* A waiting event goes into the channel when there is room.                    *)
SendEvent(c) ==
  /\ outbox[c] # Nothing
  /\ Len(events) < EventCap
  /\ events' = events \o outbox[c]
  /\ outbox' = [outbox EXCEPT ![c] = Nothing]
  /\ status' = [status EXCEPT ![c] = IF @ = "leaving" THEN "gone" ELSE @]
  /\ UNCHANGED <<next, said, view, lagged, lineVars, roomVars>>

WriteMembership(c) ==
  /\ status[c] = "joining"
  /\ membership[c] # Nothing
  /\ status' = [status EXCEPT ![c] = "member"]
  /\ view' = [view EXCEPT ![c] = membership[c][1]]
  /\ UNCHANGED <<outbox, next, said, lagged, lineVars, events, roomVars>>

(* Part of a line arrives.                                                      *)
Type(c) ==
  /\ status[c] = "member"
  /\ outbox[c] = Nothing
  /\ part[c] # "end"
  /\ said < MaxTexts
  /\ part' = [part EXCEPT ![c] = "new"]
  /\ typed' = [typed EXCEPT ![c] = TRUE]
  /\ UNCHANGED <<status, outbox, next, said, view, lagged, events, roomVars>>

(* A line, or the rest of one, arrives.                                         *)
Say(c) ==
  /\ status[c] = "member"
  /\ outbox[c] = Nothing
  /\ part[c] # "end"
  /\ said < MaxTexts
  /\ said' = said + 1
  /\ outbox' = [outbox EXCEPT ![c] = <<Line(c)>>]
  /\ part' = [part EXCEPT ![c] = "none"]
  /\ typed' = [typed EXCEPT ![c] = FALSE]
  /\ UNCHANGED <<status, next, view, lagged, events, roomVars>>

(* The input ends with part of a line, and that is a line as well, but only     *)
(* when this call of read_until has read some of it.                            *)
SayLast(c) ==
  /\ status[c] = "member"
  /\ outbox[c] = Nothing
  /\ part[c] = "new"
  /\ said < MaxTexts
  /\ said' = said + 1
  /\ outbox' = [outbox EXCEPT ![c] = <<Line(c)>>]
  /\ part' = [part EXCEPT ![c] = "end"]
  /\ typed' = [typed EXCEPT ![c] = FALSE]
  /\ UNCHANGED <<status, next, view, lagged, events, roomVars>>

\* A mutant: line_buff is a local of the loop's body.
Interrupted_loses(c) == [part EXCEPT ![c] = IF @ = "new" THEN "none" ELSE @]

(* The read that a message cancels leaves its bytes in line_buff.               *)
Interrupted(c) == [part EXCEPT ![c] = IF @ = "new" THEN "old" ELSE @]

Oldest == IF Len(log) > MessageCap THEN Len(log) - MessageCap + 1 ELSE 1

(* What a line tells its reader; a client is not told about itself.             *)
Told(seen, c, msg) ==
  CASE msg.id = c -> seen
    [] msg.id # c /\ msg.type = "join" -> seen \cup {msg.id}
    [] msg.id # c /\ msg.type = "leave" -> seen \ {msg.id}
    [] OTHER -> seen

(* A message is read from the broadcast channel and shown.                      *)
Show(c) ==
  /\ status[c] = "member"
  /\ outbox[c] = Nothing
  /\ next[c] \in Oldest .. Len(log)
  /\ view' = [view EXCEPT ![c] = Told(@, c, log[next[c]])]
  /\ next' = [next EXCEPT ![c] = @ + 1]
  /\ part' = Interrupted(c)
  /\ UNCHANGED <<status, outbox, said, lagged, typed, events, roomVars>>

(* The channel reports how many messages were overwritten and goes on with the  *)
(* oldest one left.                                                             *)
Lag(c) ==
  /\ status[c] = "member"
  /\ outbox[c] = Nothing
  /\ next[c] < Oldest
  /\ next' = [next EXCEPT ![c] = Oldest]
  /\ lagged' = [lagged EXCEPT ![c] = TRUE]
  /\ part' = Interrupted(c)
  /\ UNCHANGED <<status, outbox, said, view, typed, events, roomVars>>

\* A mutant: the Leave overtakes a line that waits to be sent.
Quit_overtakes(c) ==
  /\ \/ status[c] = "naming"
     \/ status[c] = "joining" /\ membership[c] # Nothing
     \/ status[c] = "member"
  /\ status' = [status EXCEPT ![c] = "leaving"]
  /\ outbox' = [outbox EXCEPT ![c] = <<Event("leave", c)>> \o @]
  /\ part' = [part EXCEPT ![c] = "none"]
  /\ typed' = [typed EXCEPT ![c] = FALSE]
  /\ UNCHANGED <<next, said, view, lagged, events, roomVars>>

\* A mutant: no Leave is sent when the list of members cannot be written.
Quit_silent(c) ==
  /\ \/ status[c] = "naming"
     \/ status[c] = "joining" /\ membership[c] # Nothing
     \/ status[c] = "member" /\ outbox[c] = Nothing
  /\ status' = [status EXCEPT ![c] = "leaving"]
  /\ outbox' = [outbox EXCEPT ![c] = IF status[c] = "joining" THEN Nothing
                                     ELSE <<Event("leave", c)>>]
  /\ part' = [part EXCEPT ![c] = "none"]
  /\ typed' = [typed EXCEPT ![c] = FALSE]
  /\ UNCHANGED <<next, said, view, lagged, events, roomVars>>

(* run returns, and line_buff goes with it; start sends a Leave.                *)
Returns(c) ==
  /\ status' = [status EXCEPT ![c] = "leaving"]
  /\ outbox' = [outbox EXCEPT ![c] = <<Event("leave", c)>>]
  /\ part' = [part EXCEPT ![c] = "none"]
  /\ UNCHANGED <<next, said, view, lagged, events, roomVars>>

(* No name or a bad one, or an error: no line is expected of the client.  While *)
(* a task waits to send an event or for the list of members it reads nothing.   *)
Quit(c) ==
  /\ \/ status[c] = "naming"
     \/ status[c] = "joining" /\ membership[c] # Nothing
     \/ status[c] = "member" /\ outbox[c] = Nothing
  /\ Returns(c)
  /\ typed' = [typed EXCEPT ![c] = FALSE]

(* The input has ended and this call of read_until has read nothing: it returns *)
(* 0, and what a cancelled call has left in line_buff is not said.              *)
EndOfInput(c) ==
  /\ status[c] = "member"
  /\ outbox[c] = Nothing
  /\ part[c] # "new"
  /\ Returns(c)
  /\ UNCHANGED typed

--------------------------------------------------------------------------------
(* Room::run *)

Broadcast(msg) == log' = Append(log, msg)

RoomReceives(type) ==
  /\ events # <<>>
  /\ Head(events).type = type
  /\ events' = Tail(events)

(* The Room looks the author up and panics if it is not there.                  *)
RoomText ==
  /\ RoomReceives("text")
  /\ Head(events).id \in room
  /\ Broadcast(Head(events))
  /\ UNCHANGED <<clientVars, room, membership>>

\* A mutant: the list is made after the newcomer is inserted.
RoomJoin_listed ==
  /\ RoomReceives("join")
  /\ LET c == Head(events).id IN
       /\ membership' = [membership EXCEPT ![c] = <<room \cup {c}>>]
       /\ room' = room \cup {c}
  /\ Broadcast(Head(events))
  /\ UNCHANGED clientVars

\* A mutant: no list is sent while nobody else is there.
RoomJoin_first ==
  /\ RoomReceives("join")
  /\ LET c == Head(events).id IN
       /\ membership' = [membership EXCEPT ![c] = IF room = {} THEN Nothing ELSE <<room>>]
       /\ room' = room \cup {c}
  /\ Broadcast(Head(events))
  /\ UNCHANGED clientVars

RoomJoin ==
  /\ RoomReceives("join")
  /\ LET c == Head(events).id IN
       /\ membership' = [membership EXCEPT ![c] = <<room>>]
       /\ room' = room \cup {c}
  /\ Broadcast(Head(events))
  /\ UNCHANGED clientVars

\* A mutant: every Leave is announced.
RoomLeave_always ==
  /\ RoomReceives("leave")
  /\ Broadcast(Head(events))
  /\ room' = room \ {Head(events).id}
  /\ UNCHANGED <<clientVars, membership>>

RoomLeave ==
  /\ RoomReceives("leave")
  /\ IF Head(events).id \in room THEN Broadcast(Head(events)) ELSE UNCHANGED log
  /\ room' = room \ {Head(events).id}
  /\ UNCHANGED <<clientVars, membership>>

--------------------------------------------------------------------------------

Init ==
  /\ status = [c \in Clients |-> "none"]
  /\ outbox = [c \in Clients |-> Nothing]
  /\ events = <<>>
  /\ room = {}
  /\ membership = [c \in Clients |-> Nothing]
  /\ log = <<>>
  /\ next = [c \in Clients |-> 1]
  /\ said = 0
  /\ view = [c \in Clients |-> {}]
  /\ lagged = [c \in Clients |-> FALSE]
  /\ part = [c \in Clients |-> "none"]
  /\ typed = [c \in Clients |-> FALSE]

ClientStep(c) ==
  \/ Accept(c) \/ Name(c) \/ SendEvent(c) \/ WriteMembership(c)
  \/ Type(c) \/ Say(c) \/ SayLast(c) \/ Show(c) \/ Lag(c) \/ Quit(c)
  \/ EndOfInput(c)

RoomStep == RoomText \/ RoomJoin \/ RoomLeave

Next == RoomStep \/ \E c \in Clients : ClientStep(c)

Spec == Init /\ [][Next]_vars

(* The Room runs whenever it can; a client's task sends the event it holds when *)
(* the channel has room, in turn with the others (tokio's channel serves        *)
(* waiting senders in order), so it is enabled again and again.                 *)
Fairness ==
  /\ WF_vars(RoomStep)
  /\ \A c \in Clients : SF_vars(SendEvent(c))

FairSpec == Spec /\ Fairness

--------------------------------------------------------------------------------
(* Properties *)

EventType == [type : {"join", "text", "leave"}, id : Clients, whole : BOOLEAN]

TypeOK ==
  /\ status \in [Clients -> {"none", "naming", "joining", "member", "leaving", "gone"}]
  /\ outbox \in [Clients -> Seq(EventType)]
  /\ \A c \in Clients : Len(outbox[c]) <= 1
  /\ events \in Seq(EventType) /\ Len(events) <= EventCap
  /\ room \subseteq Clients
  /\ membership \in [Clients -> Seq(SUBSET Clients)]
  /\ \A c \in Clients : Len(membership[c]) <= 1
  /\ log \in Seq(EventType)
  /\ next \in [Clients -> Nat \ {0}]
  /\ said \in 0 .. MaxTexts
  /\ view \in [Clients -> SUBSET Clients]
  /\ lagged \in [Clients -> BOOLEAN]
  /\ part \in [Clients -> {"none", "new", "old", "end"}]
  /\ typed \in [Clients -> BOOLEAN]

(* "The given `id` should definitely be in the clients map." (room.rs:68): the  *)
(* author of a text is a member when the Room gets to it, whoever else came and *)
(* went while it was queued, so the unwrap of line 69 never ends the server.    *)
AuthorKnown ==
  events # <<>> /\ Head(events).type = "text" => Head(events).id \in room

(* What everybody gets to see of one client is a visit: its join, then its      *)
(* lines, then its leaving, the first and the last once.  A connection that     *)
(* never joined is not seen at all, although it sends a Leave as well           *)
(* (client.rs:175, room.rs:90).                                                 *)
Visits ==
  \A i \in 1 .. Len(log) :
    /\ log[i].type = "join" <=> \A j \in 1 .. i - 1 : log[j].id # log[i].id
    /\ log[i].type = "leave" => \A j \in i + 1 .. Len(log) : log[j].id # log[i].id

(* A client that has read everything knows who is there.  The list of members   *)
(* was made when the Room handled its Join, but its subscription is older       *)
(* (client.rs:80): the announcements in between come on top of the list, and    *)
(* may be older than it.  Only dropped messages can leave a wrong picture.      *)
CaughtUpKnowsRoom ==
  \A c \in Clients :
    (status[c] = "member" /\ ~ lagged[c] /\ next[c] = Len(log) + 1)
      => view[c] = room \ {c}

(* A line reaches the room with all that the client typed of it, however many   *)
(* messages from the room cancelled the reading of it (client.rs:92-112, 136):  *)
(* the part that was read waits in line_buff, for its own line and no other.    *)
LinesAreWhole ==
  \A m \in ToSet(log) \cup ToSet(events) : m.whole

(* Nobody stays in the room without a connection: after the end of its task the *)
(* Room forgets a client, for good (client.rs:175-181).                         *)
GoneIsForgotten ==
  \A c \in Clients : status[c] = "leaving" ~> [](c \notin room)

(* Whoever has sent its name is told who is there (client.rs:85-87 waits        *)
(* without a timeout).                                                          *)
JoinIsAnswered ==
  \A c \in Clients : status[c] = "joining" ~> membership[c] # Nothing

(* "Every line has to end with '\n`. If we encountered EOF during this read, it  *)
(* might be missing." (client.rs:105-106): the end of the input ends a line as  *)
(* well, so nothing that the client typed before it is left unsaid, whether or  *)
(* not a message from the room cancelled the reading of it.                     *)
LastLineIsSaid ==
  \A c \in Clients : status[c] \in {"leaving", "gone"} => ~ typed[c]
================================================================================
