# Verification of the Protohackers servers

The repository holds seven small network servers, solutions of the Protohackers
problems 0 to 4, 6 and 7, and blog posts about them. This directory holds TLA+
models of the ones whose difficulty lies in their state and their concurrency,
the TLC runs that check them, and TLAPS proofs about `06_speed`, `03_chat`,
`04_udp`, `07_line` and `01_primes`.

All servers that are modelled use a single-threaded Tokio runtime
(`flavor = "current_thread"`). What a task does between two `.await`s is
therefore atomic, and one action models it; every `.await` that can wait for
another task is a point between two actions. A send on a bounded channel always
is such a point, because it waits when the channel is full.

## Inventory

| part | state | operations | what is hard |
|---|---|---|---|
| `06_speed` vehicles (`obs.rs`) | `Car`: observations per road, ticketed days | `Car::new`, `Car::observed` | reports out of order, tickets over several days, observations that are thrown away |
| `06_speed` main task (`main.rs`) | `unid_clients`, `dispatchers`, `coverage`, `tickets`, `cars` | accept; `Observation`, `Gone`, `Camera`, `Dispatcher` events; `dispose_ticket`, `remove_roads` | tables that must agree, sends to tasks that have ended, tickets and dispatchers that arrive in either order, waiting in a send |
| `06_speed` client tasks (`clients.rs`) | role, socket, its channel, heartbeat | `wrapped_run`, `run_as_camera`, `run_as_dispatcher`, `run` | ends in many ways (end of input, errors, protocol errors, panic) and has to announce it |
| `06_speed` wire format (`bio.rs`) | a read buffer of 300 bytes | `read`, `write`, `LPString::from` | messages cut anywhere, reads cancelled half way, messages that just fit or do not, input that ends behind unread messages |
| `03_chat` Room (`room.rs`) | names of members | `Text`, `Join`, `Leave` events, broadcast | order of events, a panic on an unknown author |
| `03_chat` clients (`client.rs`) | name, subscription, partial line | `get_name`, `run`, `start` | two times of subscription, dropped messages, leaving in every phase |
| `04_udp` (`main.rs`) | the store; two channels | `manage_socket`, `manage_store` | two tasks that send to each other through bounded channels |
| `07_line` main task (`main.rs`) | map of sessions | route packets and responses | sessions that end while packets and responses are under way |
| `07_line` session (`lrl.rs`, `types.rs`) | `LineReverser`: buffer, positions, unacknowledged data; timers | `Ack`, `Close`, `Connect`, `Data`, retransmission, timeout | lost, repeated and reordered packets, escapes, partial overlaps |
| `01_primes` (`main.rs`, `primes.rs`) | one table of primes, a line buffer per connection | `is_prime`, `push_next`, `process_request`, `handle` | a table that all connections share and that grows on demand |
| `00_smoke`, `02_means` | per connection only | sequential loops | arithmetic at the limits (`02`) |

Client tasks in `06_speed` send events to the main task through one unbounded
channel and get tickets through one bounded channel each. In `03_chat` events go
to the Room through one bounded channel, messages come back through a broadcast
channel that overwrites what a slow reader has not read, and a oneshot channel
answers each Join. The two tasks of `04_udp` have a bounded channel in each
direction. In `07_line` packets go down one bounded channel per session and
responses come up one unbounded channel.

`PROJECT.json` lists the components, the hazards of the code line by line, and
for every definition the source lines it models.

## Modules

| module | models | extends |
|---|---|---|
| `Obs` | `obs.rs`: day and speed, u16 arithmetic; the scaling of limits in `clients.rs` | |
| `Cars` | `Car::observed`, for every vehicle | `Obs` |
| `CarsProofs` | the theorems about `Cars` | `Cars`, TLAPS |
| `TicketOffice` | abstract: the life of a ticket | |
| `SpeedServer` | main task, client tasks, channels of `06_speed`; refines `TicketOffice` | `Cars` |
| `SpeedWire` | `bio.rs`: what the bytes in a read buffer begin with | |
| `SpeedClient` | the task of one client of `06_speed`, byte by byte, with heartbeats; refines `SpeedSession` | `SpeedWire` |
| `SpeedSession` | abstract: what a client may rely on, message by message | |
| `PrimeServer` | `01_primes` | |
| `UdpStore` | `04_udp` | |
| `ChatRoom` | `03_chat` | |
| `LineCodec` | the data path of `07_line`: unescaping, cutting into lines, packing | |
| `LineServer` | main task, session tasks, channels and timers of `07_line` | `LineCodec` |
| `SpeedServerProofs` | theorems about the main task of `06_speed`, what it knows and where tickets are | `SpeedServer`, `CarsProofs` |
| `SpeedClientProofs` | theorems about one client's task: `SpeedClient` refines `SpeedSession` | `SpeedClient`, `SequenceLemmas` |
| `ChatProofs` | theorems about `ChatRoom` | `ChatRoom`, TLAPS |
| `UdpProofs` | theorems about `UdpStore` | `UdpStore`, `SequenceLemmas` |
| `LineProofs` | theorems about `LineServer` | `LineServer`, `SequenceLemmas` |
| `PrimeProofs` | theorems about `PrimeServer` | `PrimeServer`, `SequenceLemmas` |
| `SequenceLemmas` | facts about sequences, folds and numbers that need induction | TLAPS |
| `MCCars`, `MCSpeedServer`, `MCUdpStore`, `MCLineServer` | values for the constants | |
| `MCConnections` | values for the constants; a behaviour is one of `SpeedClient` or one of `PrimeServer` | `SpeedClient`, `PrimeServer` |

The variables and actions have the names of the source where it has one.
Variables marked *history* are not in the code; no guard of a modelled step
reads them, but for the bounds and for what the outside world may do. An
operator `X_y` marked *A mutant* is a wrong version of `X`: `PROJECT.json`
pairs each checked property with one that violates it. Mutants are not part of
any specification.

**`Cars`.** `IgnoreObs`, `StoreObs` and `IssueTicket` are the three ways through
`Car::observed`. The code's vector of observations is a set: its order decides
only which of several infractions is taken, and that is the choice of `prev`.
Timestamps are naturals: the code widens them to `i64`, so nothing wraps. A
plate without an entry is a car without observations.

**`SpeedServer`.** `status` is where a client's task is; `main.doing` is where
the main task is: in its select, in `dispose_ticket`'s send, or in the loop
that registers a dispatcher. `coverage[r][c]` counts how often client `c` is in
the list of road `r`, since the order of the list does not matter. `Send` is
`chan.send(..).await` with its three outcomes: it succeeds, waits, or fails
because the receiver is dropped. The client's side of the socket is reduced to
what it makes the task do; heartbeats and bytes are in `SpeedClient`.

**`TicketOffice`.** Says only that a ticket is issued once, waits, is handed to
one desk that announced its road, and is delivered once or is lost with that
desk. `SpeedServer!Office` maps the main task's and the channels' contents to it.

**`SpeedWire` and `SpeedClient`.** A message is a record whose numbers stay the
bytes they are sent as; `Stream` is what the peer sends, `taken` how much of it
the socket has given, `buffer` the buffer up to `write_idx`. `inner_read` is
three predicates of the buffer, `IsPartial` (`UnexpectedEof`), `IsIllegal`
(`InvalidData`) and `IsWhole`. `Fill` takes any number of bytes that fit, which
is every way TCP can cut the stream; `Full` and `Eof` are the two meanings of a
read of 0 bytes. `Eof` may come after any byte, so the peer may hang up anywhere.
The loops of `clients.rs` differ in the messages they accept and in whether the
heart is polled: `role` is the loop the task is in. The tickets a dispatcher
writes are in `SpeedServer` and leave this state alone. `Beat` may come between
any two reads. `told` are the events sent to the main task.

**`SpeedSession`.** Knows no bytes: the next message is heard if it fits what
was sent before, and only one that does not fit, or is too long for the buffer,
gets its sender into trouble; the end is announced once. `SpeedClient` implements
it with `over` mapped to `left` or `accused` by the reason.

**`PrimeServer`.** `Settles` is the first loop of `is_prime`, `Grown` the second,
a fold that appends `NextPrime` until the last entry tells. `Read` is a whole
pass of `handle` up to the write, since nothing in between waits; the shared
mutex is never waited for. JSON is reduced to what the code tells apart:
malformed, a number that is no `i64`, an `i64`. That `AnswersRight` expects `false`
for an integer above `i64::MAX`, prime or not, is taken from the code
(`main.rs:51`); no text of the repository settles what to answer there.

**`UdpStore`.** `socketHas` and `storeHas` hold the message with which a task is
waiting in a send. `Responses` and `Inserted` treat every kind of request.
`Answers` is the specification: what a sequential store would answer. It is
written without the helpers of the model. `Bytes` is what requests consist of; the
proofs need it to say what a key is.

**`ChatRoom`.** `outbox[c]` is the event with which a task waits in a send.
`log` with `next[c]` is the broadcast channel: only the last `MessageCap`
messages are readable. `view[c]` is whom a client's screen shows as present.
`part[c]` is what `line_buff` holds: bytes that the pending `read_until` has read
count as read when the input ends (`SayLast`), bytes of a cancelled one do not
(`EndOfInput`). `typed[c]` says whether part of a line is still unsaid; an error
(`Quit`) settles that, since nobody expects a line of a connection that failed.

**`LineServer`.** Packets arrive parsed, and a data packet's payload escaped.
Since the network loses, repeats and reorders and clients send again, anything a
client may ever send may arrive at any time; acknowledgements only for data
packets that have been written. `timers[k]` are the pending retransmissions.
`lr[k].current_out` is kept as a set of data packets. `queue` is missing because
it is always emptied before the task waits. A client's stream is a constant,
and `Cuts` are the places where it may cut it into packets.

## Runs

| run | cfg | shows | bounds |
|---|---|---|---|
| `cars` | `MCCars.cfg` | `OneTicketPerDay`, `TicketsJustified`, `NoSpeederEscapes`, `KeptIsUnticketed`, `TypeOK` | 2 vehicles (symmetric), 2 roads, 4 observations on 3 days |
| `speed_registry` | `MCSpeedRegistry.cfg` | `CoverageMatches`, `UnidentifiedIsUnheard` | 2 cameras, 2 dispatchers, 2 roads, 1 ticket |
| `speed_tickets` | `MCSpeedTickets.cfg` | `KeepsPromise` (refinement), `NoneWaitsWhileServed`, `MainReturns`, `EndedIsForgotten`, `RoadIsServed`, `ServerTypeOK` | 2 cameras, 1 dispatcher, 2 tickets, channel of 1 |
| `speed_refused` | `MCSpeedRefused.cfg` | `SentOrQueued`, of `dispose_ticket`, is violated | 1 ticket |
| `speed_panic` | `MCSpeedPanic.cfg` | `EndedIsForgotten` is violated when an error text is long | 1 ticket |
| `udp_store` | `MCUdpStore.cfg` | `AnswersInOrder`, `AllAnswered`, `TypeOK` | 2 clients, 8 requests, 3 received, channels of 1 |
| `udp_deadlock` | `MCUdpDeadlock.cfg` | `NeverBothWait` is violated | 4 requests, channels of 1 |
| `chat_room` | `MCChatRoom.cfg` | `AuthorKnown`, `Visits`, `CaughtUpKnowsRoom`, `LinesAreWhole`, `GoneIsForgotten`, `JoinIsAnswered`, `TypeOK` | 2 clients, 2 lines, channels of 2 |
| `chat_last_line` | `MCChatLastLine.cfg` | `LastLineIsSaid` is violated | 2 clients, 1 line |
| `line_server` | `MCLineServer.cfg` | `InStep`, `RepliesFit`, `PacketsAreShort`, `SessionsApart`, `Resent`, `StreamIsAnswered`, `TypeOK` | 1 id, 2 sessions, 5 bytes cut at 3 places, 1 malformed packet, channel of 1 |
| `connections` | `MCConnections.cfg` | `ImplementsSession` (refinement), `EofLosesNothing`, `AllHandled`, `HeartIsHeard`, `ClientTypeOK`; `TableIsPrimes`, `AnswersRight` | buffer of 9 bytes, 2 roads kept, 164 scripts of at most 3 messages, 1 heartbeat; 2 connections, 7 kinds of lines, 2 lines each |
| `line_rewind` | `MCLineRewind.cfg` | `InBytesIsPosition` is violated | 1 session, 2 escaped bytes |

Why the bounds are enough. *Cars*: two vehicles show that they do not disturb
each other; the observations give infractions within a day, over midnight and
over three days, with a day between that a ticket skips; on one road a speed is
exactly the limit. *SpeedServer*: a channel of one makes the main task wait,
which with the code's 16 takes seventeen tickets; a dispatcher that names its
road twice exercises `remove_roads`; the bound `MaxBacklog` on the queue of
events only delays a camera. *UdpStore*: three requests fill what channels of
one hold without the deadlock, and suffice for insert, overwrite and retrieve.
*ChatRoom*: a broadcast channel of two overwrites messages with two lines and
two joins; a part of a line can be interrupted, finished, said at the end of the
input or lost with it. *SpeedClient*: in a buffer of nine bytes one message fits to
the last byte, one does not fit, and two short ones lie side by side; the bytes
of numbers include the codes of message types, so a stream that gets out of
step is read as other messages. The scripts have every pair of messages, and
three with the identification first, or after a heartbeat. *PrimeServer*: 35 and
53 make the table grow to 5 and to 11, 9 is the square that a test in the wrong
order takes for a prime, and a growing request of one connection falls between
two of the other. The two servers share nothing and are checked in one
run because each is small. *LineServer*: a payload of three makes a line take two packets, of
which the first ends in an escaped byte that exceeds the room, and overlapping cuts make packets that are partly read. Bounds are guards of
environment actions only: `MaxClients`, `MaxBacklog`, `MaxRequests`, `MaxTexts`,
`MaxSessions`, `MaxBeats`, `MaxAsked`; a bounded environment that has nothing left to do is why
deadlock is not checked (`CHECK_DEADLOCK FALSE`), except in `cars`, where reports
never end. The waits that would be deadlocks of the code are checked as
properties (`MainReturns`, `AllAnswered`, `NeverBothWait`, `JoinIsAnswered`).

Fairness. Tokio polls every task that is woken, so each task is weakly fair
(`MainStep`, `StoreTask`, `RoomStep`, ...). No one is obliged to connect, to say
anything or to leave. In `SpeedServer` a client's task is assumed to get on with
a ticket it holds, which means that the peer reads or its connection fails: a
peer that stalls for ever stalls the main task, a hazard of `main.rs:53`. In
`ChatRoom` a waiting sender is strongly fair because Tokio serves waiting senders
in order. In `SpeedClient` the bytes a peer has sent
arrive and a heart that is due beats: the select polls its branches in random
order, so a busy peer does not silence it. In `LineServer` timers expire, a client
that is not answered repeats what the session waits for, and the network lets it
through now and then; the connection timeout has no fairness and may strike at any
time, since time is not modelled. `WF_rx(Takes(k))` there is fairness of `Receive(k)`, whose steps
take a packet unless they end the session.

## What the violated runs say

* `speed_refused`: the dispatcher that `dispose_ticket` has chosen ends before the
  send, its `Gone` not handled yet; when `dispose_ticket` returns, the ticket is
  in no channel and not in the store, though no other dispatcher is connected
  (`main.rs:36-37` says it is sent or queued). The property is about sends from
  `dispose_ticket`; a backlog whose sending fails (`main.rs:204`) is lost as well,
  but had been queued as promised, and no property is violated by that.
* `speed_panic`: `LPString::from` panics for texts over 255 bytes (`bio.rs:71`), and
  the client is never forgotten.
* `udp_deadlock`: the two tasks can wait for each other; 2·`CHANSIZE`+2 requests
  in a burst suffice, and a capacity of 1 is not "big enough" (`main.rs:22-23`).
* `chat_last_line`: a message from the room cancels the reading of an unterminated
  line, the input ends, and the line is dropped (`client.rs:97`); without the
  message it is said, as the comment at `client.rs:105-106` has it.
* `line_rewind`: a repeated packet with two escaped bytes moves `in_bytes` back
  (`lrl.rs:322`, `402`), after which bytes are buffered twice.

## Proofs

A run checks an instance; the theorems hold for all values of the constants that
satisfy the `ASSUME`s of the modelled module, which only say that constants have
their types and that channels and buffers have room for something. Every proof
has the same form: an inductive invariant (`IInv`, `ServerIInv`, ...), a lemma that
it holds initially, one lemma for each action that it is preserved, and the
properties from it. The properties are seldom inductive by themselves; what the
invariants add to them is the interesting part:

**`CarsProofs`** (`PostedAssumption`, `ObservationsAssumption`): `Invariance`, `Typing`,
`Justified`, `AtMostOncePerDay`, `PurgeIsExact`, `Completeness`. That nobody escapes
follows from three facts that are inductive: what is kept of a vehicle is *exactly*
what was reported on unticketed days (`KeptIsUnticketed`), what is kept holds no
infraction (`KeptIsLegal`), and the ticketed days are exactly the days of tickets
(`TicketedDays`). If two reports are an infraction, they cannot both be kept, so
the day of one is ticketed, so there is a ticket for it. That no day is ticketed
twice follows because both days of a new ticket are unticketed: that of the new
report by the early return, that of the other because it is kept.

**`SpeedServerProofs`** (`ServerAssumption` besides): `ServerInvariance`,
`ServerTyping`, `UnidentifiedExact`, `CoverageExact`, `NoTicketWaits`, and
`ServerKeepsCars`, that the server implements `Cars`, so everything proved of
vehicles holds in it. The added conjuncts are about the unbounded queue of events:
a client announces what it is and that it leaves at most once, in this order,
and nothing follows its leaving (`EventsOnce`, `GoneIsLast`), and no dispatcher is
named that was not announced (`DispatchersAreKnown`). Hence the tables are a
function of which announcements are still queued: `CoverageSoFar` says it for the
state in which the loop over a dispatcher's roads is half way, where
`CoverageMatches` says nothing. `StoredUncovered` is the invariant behind
`NoneWaitsWhileServed`. Its second half proves `TicketInvariance` and `ServerIsOffice`,
the refinement `KeepsPromise`: a step of the server is a step of `TicketOffice` or
stutters, since a ticket is in one place and there once (`MainHasOnce`,
`DesksHaveOnce`), the place is for its road (`RightDesk`), and it comes from the
record of vehicles (`TicketsAreIssued`).

**`SpeedClientProofs`** (`WireAssumption`, `ClientAssumption`): `ClientInvariance`,
`ClientTyping`, `NothingIsLost` and `ClientIsSession`, the refinement
`ImplementsSession`, for a buffer of any size, any scripts and any cutting of the
stream. `Aligned` says that the buffer holds what the stream has behind the last
byte of the messages handled; `Remembers` that the loop, the camera and the heart
are what those messages have made of them. That a message is then heard as what was
sent rests on lemmas about `SpeedWire`: a buffer that begins with the bytes of a
message reads as this message and as no other, one with fewer of its bytes is
partial, and none of them is illegal.

**`ChatProofs`** (`ChatAssumption`): `ChatInvariance`, `ChatTyping`, `AuthorsAreKnown`,
`VisitsAreWhole`, `ReadersKnowRoom`, `NoPartIsLost`. `Phases` and `QueueInOrder` say
that what waits in a client's hand and in the queue is a join, then texts, then a
leave; `RoomFollows` and `LogTells` that the Room's map, the log and the clients'
states differ by what is queued. `Knows` is the invariant behind
`CaughtUpKnowsRoom`: for everybody who is shown wrongly as present or absent
there is unread news, although a client subscribes before its list is made.

**`UdpProofs`** (`BytesAssumption`, ..., `MaxRequestsAssumption`): `UdpInvariance`,
`UdpTyping`, `StoreAnswersInOrder`, `DeadlockNeedsRequests`. The requests handled are
those received less those in the channel and in hand (`RequestsInOrder`), the store
is their effect on an empty one (`StoreIsValue`), and the responses written, in
the channel and in hand together are the answers to them (`ResponsesInOrder`). The
last theorem complements the run `udp_deadlock`: the two tasks wait for each other only
when 2·(`CHANSIZE`+1) requests are unanswered (`AtMostOneEach`), so the run has the
shortest burst that does it, and a larger channel makes it longer but does not
exclude it.

**`LineProofs`** (`LineAssumption`): `LineInvariance`, `LineTyping`,
`SessionsStayApart`. `Routes` says that an id is routed to a session of its own, and
to the one that runs if there is one; `Queue` that every queued response is from
the session its id is routed to, and that a close is the last one of a session
whose task has ended. Hence main forgets a session only when nothing of it is left.
`FewUnacknowledged` is needed because retransmission lists a set. Most of the type
invariant is the work of lemmas about the folds of `LineCodec`.

`PacketsStayShort` proves that no data packet is longer than a message may be, whatever
arrives and for any room. What is kept for retransmission, queued or written always
comes from what reading a packet can make (`AnswersFrom`, for any set of data packets;
`StepAnswers`), and packing lines makes packets that exceed the room by one byte at
most (`PackedShort`).

The rest proves, with `LineReadInvariance`, that a session keeps in step with
its client (`SessionsStayInStep`, `InBytesStaysPosition`) and that every reply is right
(`RepliesAlwaysFit`), for any stream, cuts, room and malformed packets and whatever
the network does, under one hypothesis about what the client sends, `Readable`. Each of
its three parts excludes something that the code gets wrong or cannot tell:

* `NoEscapePairs`: no "/" or backslash follows a backslash in the stream, since
  `lrl.rs:370` would take a byte of the pair twice.
* `CutsApart`: no part of the stream that ends before a cut reaches beyond it when
  its bytes are counted escaped. Else `read_data` (`lrl.rs:326`) reads it again and
  moves `in_bytes` back, which is what `line_rewind` finds.
* `NoiseIsMalformed`: other packets hold an unescaped "/". A well-formed one would
  be taken for part of the stream.

`MCLineServer` has TLC evaluate that the stream of `line_server` is readable and that
of `line_rewind` violates `CutsApart`. The invariant adds that only parts of the stream
and malformed packets are on their way (`Arriving`), that a session has always read
up to a cut (`InPlace`), and that what is kept for retransmission, queued or
written is found in the answer where it says (`FittingPackets`). The proof that
reading keeps it has two halves. `WhatIsRead`: the pairs of an escaped payload give
back its bytes (`UnpackedEscaped`), an unescaped "/" spoils it wherever it is
(`UnpackedMalformed`), so a session gets all that it had not yet of a part and
nothing else. `ReadsOn`: cutting lines out of a stream in pieces is cutting them out of
the whole (`CutConcat`), the packets of a line put together are the line
(`PackedIsLine`), and each is at its position (`DataResponsesAt`).

**`PrimeProofs`** (`PrimeAssumption`): `PrimeInvariance`, `TableOfPrimes` and
`EveryAnswerRight`, all under the hypothesis `Bertrand`, that there is a prime between a
number and its double. It is true but not proved here, and the code depends on it:
`push_next` passes over a number beyond the square of its last entry
(`primes.rs:32-40`), and `is_prime` would call a number composite if it were itself the
next entry. From it, `NextPrimeIs` shows that the loop finds the next prime, `TableGrows`
that the table stays one of primes, `TurnGoesOn` that the loop of `is_prime` ends with
an entry that tells and below the number, and `VerdictIs` that the answer is
right; the key is that the least divisor is a prime up to the square root
(`LeastDivisor`). `InTurn` says that a connection which goes on reads into an empty
buffer, so that no two lines are taken for one value.

**`SequenceLemmas`**: induction is taken from `WFMin`, which says that a nonempty
set of naturals has a least element; each lemma takes the least counterexample to a
smaller one. By it `FlattenSeq`, `FoldLeft`, `Min` and `Max` are what their
definitions suggest. `SeqInduction` is induction over sequences, about the set of
those that have a property since an operator cannot be a parameter; `At` and
`IsMiddle` say where a sequence is found in another, for streams and their parts.

Only model-checked:

* Liveness, since fairness and ENABLED are beyond TLAPS: `MainReturns`,
  `EndedIsForgotten`, `RoadIsServed`, `AllAnswered`, `GoneIsForgotten`, `JoinIsAnswered`,
  `Resent`, `StreamIsAnswered`, `AllHandled`, `HeartIsHeard`.

## Not modelled, and the plan

Not modelled:

* `02_means`. As committed `range_average` does not type-check: the `let tot` of
  `main.rs:45` shadows the `i64` sum of the loop above it with a sum of `i32`s of
  no stated type, which is then divided by an `i64`. There is no program to be
  faithful to.
* `00_smoke`, an echo loop without state.
* The encoding of server messages (`bio.rs`), the heads of packets in `07_line`
  (`types.rs`), names and texts in `03_chat`, JSON in `01_primes`: formatting and
  parsing on which no property here depends.
* Dispatchers get no heartbeats, because their loop does not poll the heart
  (`clients.rs:197`), although any client may ask for them
  (`posts/protohax_06a.md:28`); `MayBeat` says so, and `HeartIsHeard` is about the
  others.
* Ids of more than ten bytes in `07_line` (`types.rs:56`): the key is cut, the
  lookup is not, and each packet opens a session. Ids are taken to be short.
* A backslash before another escaped byte in `07_line` (`lrl.rs:370`) is read
  twice, so `InStep` does not hold for such streams; the runs have none.
* The time that a prime takes: `is_prime` has no `.await`, and a large prime keeps
  all connections waiting.

Every safety invariant, action property and refinement of a passing run is a theorem;
what is left to TLC is liveness.
