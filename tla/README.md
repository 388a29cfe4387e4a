# Formal model of the p2pchat signalling service

TLA+ modules that model the signalling service of this repository, TLC
configurations that check them on small instances, and TLAPS proofs of their main
invariants for every instance. Line numbers refer to the files under `src/`.

## 1. The system

One process (`cmd/root.go`) serves two gRPC services on two ports. They share one
SQL database (through gorm) and one NATS connection.

```
 manager client ──► RoomManagementService ──► room.API ──► database
                          │  Events (channel)                  ▲
                          ▼                                    │ reads, online column
                     PublishEvent ──► NATS ──► callbacks ──► signaling.API
                                       ▲                       │
 peer ──► SignalingService ──► SDPCommands, ICEOffers, Onlines │
   ▲            │                (channels) ──► publishers ────┘
   └──── streams (gRPC handlers)
```

| Component | State | Operations | Interaction |
|---|---|---|---|
| SDP and ICE relay (`pkg/signaling/api.go` 292-350, 564-610; `pkg/server/signaling_service.go` 129-198, 251-284, 338-364, 462-549) | channels `SDPCommands`, `ICEOffers`; per stream a NATS subscription, two channels and three goroutines | `OfferSDP`, `AnswerSDP`, `SendICECandidate`, `SubscribeSDPCommand`, `SubscribeICECandidate` | reads user rows; publishes to NATS; every stream receives every command and filters by addressee |
| Room management API (`pkg/room/api.go`) | tables `users`, `rooms`, `room_members` | register, update, remove a user; create, update, destroy a room; add, kick a member; queries | announces every change on `Events` |
| Room management service (`pkg/server/room_service.go`) | channel `Events` | the handlers; `Run`, `PublishEvent` | publishes announcements to NATS |
| Room event stream (`api.go` 352-562; `signaling_service.go` 200-249, 366-460) | per stream a subscription, two channels and three goroutines | `SubscribeRoomEvent`, `IsItMyRooms` | delivers announcements to the users they concern; asks the database who shares a room |
| Online status (`api.go` 612-696; `signaling_service.go` 286-336, 551-588) | column `online`; per session four goroutines and a timer | `SubscribeOnlineStatus`, `SetUserOnlineStatus` | writes user rows; publishes status changes |
| Profiles and queries (`api.go` 136-290; `room/api.go` 151-219, 332-380) | none | `MyProfile`, `UpdateProfile`, `MyRooms`, `MyRoomInfo`, `GetUser`, `GetUsers`, `GetUserAccessToken`, `GetByID`, `GetAll` | read what the room manager writes; `UpdateProfile` saves the user row and announces it |
| Server start (`server.go`, `cmd/root.go`, `connector/db_postgres.go`) | nil or set channels | `StartSignaling`, `StartRoomManager`, `Run` | `Run` races with `Serve` |
| Tokens, helpers, configuration, logger, generated code, mock | none that changes over time | | |

What is hard here:

* **Goroutines on unbuffered channels.** A command passes a unary call, a
  publisher, NATS, a callback and two goroutines. Each hand-over waits for the
  other side, so a goroutine that ends early leaves others blocked.
* **Closing channels.** A stream's goroutine closes the channel on which its
  callback sends, and the handler unsubscribes only afterwards. A session of the online status even
  announces its own end, to itself.
* **Statements without transactions.** A call of the room manager is four to six
  SQL statements, a query up to five; other calls run between any two, each may fail, and the
  process may die.
* **No foreign keys.** Rows of `room_members` survive the room and the user.
* **Announcements read after the write.** `Destroy` deletes the room and then
  reads who was in it; `KickUser` removes the member and then lists the members.
* **Decisions at delivery.** `IsItMyRooms` asks the database who shares a room when an announcement
  arrives, not when it was made.
* **One column for many sessions.** `online` belongs to a user and is set by each session of the user,
  by a deferred call at its end, and by every `Save` of a profile that was read before.
* **Time.** A heartbeat and the time-out race, and `Reset` does not take back a time-out that fired.
* **Lossy bus.** Publish errors are logged, and NATS drops what a slow
  subscription cannot queue.

What makes each component correct:

* relay: commands reach only their addressee, of the right topic, in the order in
  which they were accepted, at most once; the acknowledgement of a stream precedes
  its commands; commands that reached a stream's queue are carried; handlers and
  calls end; nothing is stranded and nothing panics except at teardown.
* room manager: a change is announced to everyone it concerns; a room is not
  created twice; members are users and rooms that existed; a call that succeeds has had its
  effect, whatever it had read before; a listener can follow the membership.
* room event stream: what is queued for a stream and concerns its user is sent on, and a peer
  that asks once and then listens knows its rooms.
* online status: the column says whether a user has an active session, and watching clients know the
  column; sessions whose client left or went silent end.
* queries: an answer holds what was so at some moment of the query and leaves out nothing that was so
  throughout; a client that pages through a list misses nobody.
* start: a call that meets its channels set returns.

## 2. Modules

| Module | What it is | Uses |
|---|---|---|
| `Mailbox` | abstract specification of the relay: accepted commands and what each stream carried | |
| `SignalRelay` | the relay in detail, goroutine by goroutine | implements `Mailbox` |
| `RoomManager` | the calls of the room manager and `UpdateProfile` of a peer, statement by statement | |
| `Rows` | the database as a query meets it: any rows, which come and go one at a time | |
| `RoomListener` | the room manager and somebody who hears every announcement | extends `RoomManager` |
| `RoomFeed` | the room manager and the streams of room events, down to their clients | extends `RoomManager` |
| `RoomQueries` | the calls that only read, while others write | extends `Rows` |
| `Presence` | sessions of the online status, and everything else that writes the column | |
| `PresenceWatch` | the clients who watch | extends `Presence` |
| `Startup` | the process from its start to both servers and their `Run` | |
| `SignalRelayProofs`, `RoomManagerProofs`, `RoomListenerProofs`, `RoomFeedProofs`, `RoomQueriesProofs`, `PresenceProofs`, `PresenceWatchProofs` | theorems and proofs about the module each is named for | extend that module; those about `RoomListener` and `RoomFeed` also `RoomManagerProofs`, that about `PresenceWatch` also `PresenceProofs` |
| `MCSignalRelay`, `MCRoomManager`, `MCRoomListener`, `MCRoomFeed`, `MCRoomQueries`, `MCPresence`, `MCPresenceWatch`, `MCStartup` | instances for TLC | |

Operators commented "Faulty variant" belong to no behaviour of the specifications. Each is a
definition with a plausible bug; put in the place of the one it follows, it violates a property named
in `PROJECT.json`.

### SignalRelay

A command in flight is a position in `accepted`, the sequence of commands the publishers
received. The payload is opaque, and 0 stands for no command.

| Variable | Code |
|---|---|
| `alive` | the process; a panic in any goroutine ends it |
| `wired` | `Run` (signaling_service.go 338-364) has replaced the nil channels and started the publishers |
| `users` | ids in the table of users |
| `call[m]` | the unary call: `idle`, `found` (sender's row read), `sending` (blocked in `a.SDPCommands <-`), `stuck` (blocked on a nil channel), `returned`, `refused` |
| `pub[t]` | the variable of the range loop in `PublishSDPCommand`, `PublishICEOffer` |
| `pending[s]` | the queue of the NATS subscription |
| `cb[s]` | the command with which the callback waits in `commands <- command` |
| `api[s]`, `apiHeld[s]` | the goroutine that runs `SubscribeSDPCommand` / `SubscribeICECandidate`: `auth`, `select`, `send`, and after the loop `exit`, `closing` (commands closed), `done` (sdps closed) |
| `svc[s]`, `svcHeld[s]` | the gRPC handler: `ack`, `range`, `write`, `returned` |
| `errc[s]` | the subscription goroutine ended with an error |
| `gone[s]` | the context of the stream is done |
| `stalled[s]` | the client stays and reads no more: `srv.Send` waits for flow control until the client leaves |
| `acked[s]`, `stream[s]` | what the client was sent |

A channel hand-over is one step of both goroutines (`Accept`, `Receive`, `Forward`), which
is what an unbuffered channel does. A callback that waits is `cb[s] # 0`. The SDP and the ICE
streams are the same code but for the empty SDP that opens an SDP stream, so one set of actions
stands for both, with the topic as a field of the session; the map points to
one of the two handlers, or to both where each shows a different part. `Run` and the
first calls race: `StartSend` reads the channel once, and a nil channel blocks for ever. A write
(`Write`) to a client that has left may succeed into the void or fail (`WriteFails`); one to a client
that has stopped reading (`Stall`) waits. The first message of a stream always fits the window, so `Ack`
does not wait.

### RoomManager and RoomListener

| Variable | Code |
|---|---|
| `users`, `rooms`, `members` | the ids in the three tables |
| `pc[c]` | the next statement of call `c` |
| `todo[c]` | the users a call found and has still to append to `room_members` |
| `ids[c]` | `ParticipantIDs`, or `RoomIDs`, of the announcement |
| `pub` | the calls whose event a publisher's range loop holds: at most one of `PublishEvent`, and one of `PublishRoomEvent`, which announces what a peer changes itself (`updateProfile`) |
| `written`, `audience`, `undone` | history: calls that changed the database; whom a change concerns; calls that another has taken back since they acted |

| Statement | Action |
|---|---|
| `First(room)`, `First(user)` at the head of a call | `Find` |
| `Find(&users)` in `Create`, `First(user)` in `AddUser` | `FindUsers`, `FindUser` |
| `Create`, `Save`, `Delete` of a row | `InsertUser`, `InsertRoom`, `SaveUser`, `SaveRoom`, `DeleteUser`, `DeleteRoom` |
| `Association("Members").Append` / `.Delete` | `AppendMember`, one per user, and `AppendDone` / `DeleteMember` |
| `GetUserInstancePayload`, `GetRoomInstancePayload` | `LoadUser`, `LoadRoom` |
| the room and its members read again | `Reload` |
| `a.Events <-`, and the publisher | `Send`, `Publish`; a failed publish is logged and frees the publisher just so, and what was lost matters to those who listen |
| a statement returns an error; the process is restarted | `StatementFails`, `Crash` |

What is taken of gorm 1.9.12, which is not in the repository, from how the code uses it: the
migration makes no foreign key on `room_members`; `Append` writes one insert per user that is not
a member yet; `Related` joins with the rows that exist, so a row of `room_members` whose user
is gone is not listed; `Save` of a row that is gone inserts it or fails, and the model allows both; the tag
`save_associations:false` (room/models.go:15, 24) keeps `Create`, `Save` and `Append` from writing the rows at the other
end of `room_members`.

`First` and the `Preload` it carries (`Find` of `AddUser`, `Reload`) are one step, though gorm makes two statements of
them: the room is looked up first and its members a moment later. What is left out is a room that is destroyed
between the two *and* whose members then change before they are read; where they do not change, the call
reads what it would have read in one step before the room went, and meets the missing room, as it does here,
at its next statement.

`SuccessStands` compares a call that returned without an error with the database. `Opposes` says which
calls take back which, `HasActed` when a call is past its write or has found that there is nothing to write;
it is in `undone` once one of those others has written after that. The property is what
is left of a success when nothing is locked: `AddUser` may find the member it was asked to add
and not write, an update may insert a row that was removed after it was read, a removal may find
nothing to remove.

`RoomListener` adds `view`, the membership as a listener knows it, and two history variables:
`blurred[c]`, what two overlapping calls decide both, and `unsure`, what nobody can know until the next
announcement about it. An announcement replaces what is known of its room, or of its user.

### RoomFeed

The events of `RoomManager` go on through NATS to the streams. `feed[s]` is a record of the
goroutines of one stream, in the states of the relay's (`svc`, `api`, `cb`, `pending`), with the peer
at its end: `gone`, whether it has called `MyRooms` (`asked`), and the `rooms` it knows. `Route` is
the big `switch` of `SubscribeRoomEvent`: an event that names participants is sent on to them;
profiles and removals of users go to `Filter`, which asks the database whether user and peer share
a room now (`IsItMyRooms`); if that query fails the event is passed over. History: `due`, what was queued and not
sent on; `owed[c]`, who shared a room with the user ever since `c` was announced; `doubt`, pairs nobody
can be sure of, as `unsure` above.

### Presence and PresenceWatch

| Variable | Code |
|---|---|
| `users`, `online` | the rows and their column |
| `conn[s]` | `svc`, `svcHeld`: the handler; `api`, `apiHeld`: the loop of `SubscribeOnlineStatus`, from `auth` over `on` (the UPDATE), `tellOn` (`a.Onlines <-`), `select` and `send` to the deferred `off`, `tellOff`, and `exit`, `closing`, `done`; `cb`, `pending`: the callback and the NATS queue; `hb`, `beat`: the heartbeat goroutine, its timer, and a heartbeat that waits; `gone`, `stalled`: the client |
| `pub` | what `PublishOnlineStatus` holds |
| `save[k]` | a profile update (`UpdateProfile`, `UpdateUserProfile`): not begun, row read with the column on or off, written |
| `disturbed` | history: users whose column something wrote behind a session |

The five seconds are not modelled: an armed timer may fire at any moment, a heartbeat that arrives leaves
it armed, and one that comes after it fired does not take that back. A client's abilities (`may`) are part of
the instance. A panic (`SendOnClosed`) and a crash end all sessions, leave the columns and start the
process again (`Restart`).

`disturbed` is where the code and its comments part (`api.go` 613 says a subscriber is online and 614
that the status is pulled back): the first of two sessions to end sets the user offline although the
other goes on; a profile that was read before a session ended sets the user online again; an UPDATE of
the deferred call that fails, a panic or a crash leave the user online. `PresenceIsRight` says that
nothing else does, and that the next session to start, or the last to end, repairs it.

`PresenceWatch` adds `known[s]`, the column of others as a client that looks it up at the start and
then follows the stream knows it, and `lost`, users of whom an announcement was dropped, overtaken or
never made.

### RoomQueries

One query runs (`query`, `at` its statement, `found` what it has read) while `Rows` changes rows under
it; queries write nothing, so several would not meet. History: `ever` and `always`, what was so at
some moment, or at all moments, of the query. `GetUsers` and `GetAll` are the same two statements on
two tables; there the query is a client that asks for one page after the other (`offset`,
`seen`), as long as `Count` says that there are more. The keyword only decides which rows there are.

A query of a running system meets any rows, and so does it here: `Rows` begins with any users, rooms and members,
and whatever the calls of `RoomManager` do between two statements of a query is a series of its steps.
`always` is therefore put to the test as `ever` is: an answer that leaves out a room or a member that was there
throughout, or a refusal of one, violates `AnswersHold` and `AnsweredIfThere`.

A statement that fails ends the query (`QueryFails`), but for `Count` in `MyRooms`: it returns a number and
nobody looks at its error (signaling/api.go:219-222), so the query goes on and answers its rooms with a count
of 0 (`CountFails`, history `uncounted`). `AnswersHold` says that a count is otherwise between the number of rooms that
were the peer's throughout and that of those that ever were.

A peer that is kicked between two statements of `MyRooms` is answered a room whose members do not
include it: `AnswersHold` allows that, since each part of the answer was so at some moment.

### Startup

`main` is where `cmd/root.go` is; each server is started, has started its `Run`, listens, serves or
failed; `wired[k]` and `publishers[k]` count how far its `Run` got; a call reads its channel once, and
waits for ever if it is nil then. The process ends with the signalling server; an end of the room
manager is only logged (its error and that of the other server share a variable; this data race
concerns the log alone). The error of the migration is dropped (db_postgres.go 41), so `Prepare` goes on.

## 3. Runs

| Run | Configuration | Shows |
|---|---|---|
| `relay` | `MCSignalRelay.cfg` | one SDP stream of u2 with two commands for it and one for u1, or an SDP and an ICE stream of u2 with a command each. `TypeOK`, the inductive invariant `RelayInv`, `DeliveredInOrder`, `DeliveredToAddressee`, `AckFirst`, `CrashOnlyAtTeardown`, `StrandedOnlyIfGone`, and the refinement `ImplementsMailbox` |
| `relay_live` | `MCSignalRelayLive.cfg` | under `FairSpec`, with a client that may leave, or stop reading, at any moment: `QueuedIsCarried`, `HandlerReturns`, `CallReturns` |
| `relay_run_before_serve` | `MCSignalRelayStart.cfg` | **violated**: `RunBeforeServe`, which signaling_service.go:339 asks for |
| `rooms` | `MCRoomManager.cfg` | u2 is put into a room, added, kicked and removed while the room is destroyed, three calls at a time; a room created, or a user registered, by two calls; profiles saved while their rows go. `TypeOK`, the inductive invariant `ManagerInv`, `AudienceIsTold`, `MembersGrounded`, `CreatedOnce`, `SuccessStands` |
| `rooms_recreate` | `MCRoomManagerRecreate.cfg` | **violated**: `DestroyRemovesMembers`, room/api.go:530 |
| `listener` | `MCRoomListener.cfg` | a room and its member come, change and go, or two rooms stand side by side. `ListenerIsRight` |
| `feed` | `MCRoomFeed.cfg` | the peer is put into a room, kicked and added, or shares it with a user who changes its profile and is removed. `NothingMissed`, `PeerIsRight` |
| `queries` | `MCRoomQueries.cfg` | each query about two users and two rooms, from any rows, and walks through pages. `AnswersHold`, `AnsweredIfThere`, `WalkMissesNothing`, `WalkRepeatsNothing` |
| `presence` | `MCPresenceWatch.cfg` | two sessions of one user; two users who watch each other; one session with a profile update, removal and registration. `TypeOK`, `PresenceIsRight`, `WatcherIsRight` |
| `presence_live` | `MCPresenceLive.cfg` | under `FairSpec`: `HandlerReturns`, `LeaverEnds`, `SilentEnds` |
| `presence_leaver` | `MCPresenceLeaver.cfg` | **violated**: `LeaverGoesOffline`, api_test.go:1197 |
| `startup` | `MCStartup.cfg` | under `FairSpec`: `ReturnsOnceWired` |

`CHECK_DEADLOCK FALSE` in every configuration: each instance has a finite number of calls and
streams, and the system rests when they are done (or, in the relay, when it has panicked).

### Bounds, and why they are enough

* **Scenarios.** Most MC modules give all calls, streams and clients of several situations as one set of
  constants, and a predicate `InScenario` that keeps a behaviour to one of the situations: `MCSpec` is
  `Spec` with that conjunct on the next state. It prevents only calls, streams or faults from beginning
  that belong to another situation, never a step of what has begun. The runs under fairness and the
  violated ones use the specifications as they are.
* Each call is made once. Repeated requests are separate members of `Messages` and `Calls`.
* `PendingLimit` is the NATS limit of a subscription, after which messages are dropped. With 2 (relay, feed), three commands of
  a topic can be published before the callback takes the first; with 1 (presence) the second is dropped.
* Two users and two streams in the relay: its properties speak of one stream and one command, or
  of one stream and two commands. The other user is needed as sender and as stranger.
* `MaxInFlight` is 3 for membership, where three calls meet in one room (any four of the five are made), and 2 elsewhere, where races
  are between pairs; `rooms_recreate` shows its counterexample without any race.
* One room for the calls about a room, two where a property could mix them up (`listener`, `queries`); a
  third user who never had a row in `rooms`.
* Presence: two sessions, of one user or of two. `Faults` says what fails: statements, publications and
  the process in `presence`, nothing under fairness. Where two users watch each other, `Calm` leaves out what
  removes a row, disturbs a column or loses an announcement, since `WatcherIsRight` excuses all three; the
  watcher may stop reading. Clients that stop reading are not in `presence_live`, for its size.
* Queries: every choice of rows at the start among those the query can tell apart, and at most three rows
  that come or go until it is answered; a query reads at most four times.
* A client of the relay stops reading where it has one stream; with two it reads, for the size of the run.
* Walks: five ids in pages of two, so that a row can be in front of, on or behind the page, which may
  also be the last and incomplete one.
* The proofs cover any number of rooms, users, calls and streams.
* `AcceptAndRetry`, a faulty variant, is bounded by `PendingLimit`.

### Fairness

The Go scheduler runs every goroutine that can run (one in `srv.Send` to a client that does not read cannot), and NATS and gRPC run their callback and
handler goroutines; clients, peers, the room manager and the network are under no obligation, and no
property assumes that a client leaves.

* `SignalRelay!FairSpec` has weak fairness for `Run`, for every unary call that has begun, for each publisher
and for the callback, the subscription goroutine and the handler of each stream. `alive` is a conjunct of every fair action, since a
panic ends all goroutines. A subscription goroutine in `select` with both a message and a done
context may choose either, for ever; no property depends on that choice:
`QueuedIsCarried` is released by a client that leaves or stops reading, and `HandlerReturns` holds because in the
instance commands are finite in number, as they are for one stream unless peers flood it.
* `Presence!FairSpec` has weak fairness for everything the process does by itself, taken together, and for
the heartbeat goroutine and timer of each session. The former is finite in number between two steps of clients, so
no goroutine is starved by it; nothing need fail; heartbeats may go on for ever and are therefore apart. `SilentEnds` supposes that
a session's heartbeats end.
* `Startup!FairSpec` has weak fairness for the main goroutine, for the start of each server, for each `Run` and
for calls whose publisher has started; none for a failure, nor for calls to come.

## 4. Proofs

All theorems are for every value of the constants that satisfies the named assumptions:
calls, sessions, streams, queries and profile updates carry users, rooms and topics that exist in
`UserIDs`, `RoomIDs` and `Topics`; the bounds are positive; the table of users is finite at the start, as
tables are (without it nothing could be counted); user ids are numbers, since pages follow their
order, and no room is called `"user"` or `"room"`, since `RoomQueries` names facts by these words.

Every invariant that a run checks is a theorem, and so is the refinement of the relay. The inductive invariants
stand at the end of the modules, before the proofs that need them, in named parts.

**SignalRelayProofs.** `DeliveredInOrder` is not inductive: it says nothing of
commands under way. `RelayInv` adds that the six places a command passes (publisher, NATS queue,
callback, subscription goroutine, handler, stream) hold commands in decreasing order of
acceptance, each older than those in the places before it (`PipelineInv`), that a publisher
holds commands of its topic (`PublisherInv`), that places after the filter hold
commands for the stream's user (`RoutingInv`), that a goroutine about to hand over holds a command
(`HeldInv`), and that a call whose command was accepted has returned (`AcceptedInv`). Each
action moves one command by one place, and general lemmas about `Precedes` and `Increasing`
carry the order over the move.

* `RelayInvariant`: `Spec => []RelayInv`; `TypeCorrect`, `InOrder`, `ToAddressee` follow.
* `StreamInvariant`: `Spec => []StreamInv`, which relates the states of a stream's goroutines: nothing is
  carried before the acknowledgement, and the handler passes it by only if its client has left (`AckInv`);
  the loop is behind the handler at the start, and ends only when the context is done or it returned an
  error (`TeardownInv`). `AcknowledgedFirst`, `PanicOnlyAtTeardown` and `StrandedOnlyWithoutClient` follow.
* `Refinement`: `Spec => ImplementsMailbox`. `Accept` implements the mailbox's `Accept`, for
  which `AcceptedInv` shows that the command is new; `Write` implements `Deliver`, for which
  `PipelineInv` and `RoutingInv` are its guards; every other action is a stutter, the panic included.

**RoomManagerProofs.** `AudienceIsTold` relates what a call wrote to what it read
later, while other calls wrote in between. `ManagerInv` adds that until the announcement is made,
the users a change concerns are members of the room with a row of their own (`AudienceInv`), which
every deletion by another call maintains because it also takes the user off the audience. For
`MembersGrounded`, what a call has read and will write was known when it read it, and what was
known stays known (`GroundInv`).

* `ManagerInvariant`: `Spec => []ManagerInv`; `TypeCorrect`, `AudienceTold` and `Grounded` follow.
* `OnceCreated`: `Spec => []CreatedOnce`, by counting. `OnceInv` says that creations of a room exceed its
  destructions by one at most while its row is there and not at all while it is not, and the same of users; and
  that a call is in `written` only once it is past its write, so that it is counted once.
* `SuccessfulStands`: `Spec => []SuccessStands`. `EffectInv` says from which statement on a call has had its
  effect: past its writes, or, for `AddUser`, from the reading that found the member (`HasActed`). `EffectLasts` is the
  heart of it: what stands before a step stands after it, or the step is one of a call that takes it back.
* What a step of a call does is stated once, for those who listen: `ProceedShape` (which variables of
  which calls it touches), `ProceedFar` (it changes nothing about pairs outside its `Scope`), `ProceedStands`
  (what it wrote stands after it), `FindShape`, `OnwardShape`, `DoneStays`.

**RoomListenerProofs.** `ListenerIsRight` speaks of moments at which no call is under way, so the invariant
must say what holds between a write and its announcement. `ListenInv` does so in a chain: rivals have
blurred what both decide (`BlurInv`); hence what a call wrote stands until it loads (`WroteInv`); hence what
it loads is true, and stays true while no other call that has written speaks of the pair (`SaysInv`);
hence the listener is right about every pair that is neither unsure nor written by a call under way
(`ViewInv`). `ListenInvariant` and `ListenerRight` follow.

**RoomFeedProofs.** The same chain, prolonged by a stream. The steps of a stream are proved once for
both theorems: `Follows` says that what held of a stream before its step holds after it.

* `FeedInvariant`: `FeedSpec => [](ManagerInv /\ FeedInv)`. `FeedInv` says that goroutines hold one event while
  they work and none while they wait, and only events their peer is to hear of (`HeldOK`); that who is owed an
  announcement is listed in it, by name or by a room, and still has the row that makes it so (`OwedInv`), which
  is why the question at delivery is answered yes; and that what was queued and is no longer on its way
  concerns the peer no more (`DueOK`). `NothingIsMissed` follows.
* `PeerInvariant`: `FeedSpec => [](ManagerInv /\ FeedInv /\ PeerInv)`. Here two things make the chain longer. A peer
  hears only of changes that list it, so a call *decides* about a pair from the statement that makes
  it so until the announcement is queued (`Deciding`), and nobody else changes the pair then
  (`ProceedTruth`, `ProceedHome`). And several events may be on their way at once, some older than what the peer
  learned from `MyRooms`: the last of them that decides the pair is right, whichever of the four places it
  is in, and if there is none the peer is (`Arrives`, `PipeInv`). `RowsInv` is needed because a member without
  a row would not be listed. `PeerRight` follows.

**RoomQueriesProofs.** `QueryInv` says what a query has made sure of by the time it is at a statement: its
rooms lie between those it always had and those it ever had (`RoomsFound`), and so does their number
(`CountHolds`, with the cardinalities of finite sets), unless counting failed; and in a walk that every user who stayed and ranks before
the rows asked for has been seen, and only those (`WalkInv`), where a row that goes lowers the ranks behind it by one
and a row that comes raises them.

* `QueryInvariant`: `QuerySpec => []QueryInv`; `AnswerHolds`, `AnsweredForAReason`, `WalkIsComplete` and
  `WalkIsFresh` follow.

**PresenceProofs.** `PresenceIsRight` is inductive with two facts beside the types: `NoRowNoColumn`, without
which a user registered anew might start online, and `IdleRunsNothing`, without which opening a stream
might end an active session. Most steps concern one session and leave it as active as it was;
`QuietStep` settles them. What is left are the two UPDATEs and their failure (`Moved`), the writes of
profiles and rows, and the end of the process.

* `PresenceInvariant`: `Spec => []PresenceInv`; `TypeCorrect` and `ColumnIsRight` follow.

**PresenceWatchProofs.** `WatchInv` follows a status from the session that announces it over the publisher, the
queue, the callback, the subscription and the handler to the client: the newest on the way is the
column, and so is what the client knows when there is none (`AnnounceInv`, `ArriveInv`). The conjuncts are
released for users of whom an announcement was lost or overtaken.

* `WatchInvariant`: `WatchSpec => []WatchInv`; `WatcherRight` follows.

**Only model-checked.** Liveness, which is out of the prover's reach: `QueuedIsCarried`, `HandlerReturns`,
`CallReturns`, `LeaverEnds`, `SilentEnds` and `ReturnsOnceWired`. The violated properties are counterexamples,
which need no proof.

## 5. Findings

1. `StartSignaling` starts `Run` with `go` and serves at once (server.go:40). A call served
   before `Run` has set the channels blocks for ever, against the comment at signaling_service.go:339.
   `StartRoomManager` does the same (server.go:54, room_service.go:145). `ReturnsOnceWired` shows that
   only calls served before then are lost.
2. `Destroy` deletes the row of the room and not its members (room/api.go:531), against
   the comment at line 530: the members of a destroyed room come back with a new room of the same id.
3. When `srv.Send` fails the handler returns, and the loop of `SubscribeOnlineStatus` may wait for ever to
   hand it the next status (api.go:664): the deferred call is not reached, and the user stays online,
   against api_test.go:1197. `LeaverEnds` and `SilentEnds` show that, as long as nothing fails and clients read,
   sessions end in every other case.

Two things the properties allow are worth knowing, though no line of the repository says otherwise:
`MyRooms` may answer its rooms with a count of 0 (signaling/api.go:219), and the online column is wrong
after each of the writes that `disturbed` records (section 2, Presence).

## 6. Not modelled

* How tokens are signed and checked, how configuration is merged, logging, generated code and the mock.
* Empty ids, which make an empty condition of a statement (room/api.go:257).
* The members that `GetAll` lists with each room of a page; `GetByID` reads them with the same statement and has them.
* Delivery between two processes that share NATS and a database. A second process would add
  streams and publishers; the order of two publishers of a topic is then not defined.
* `Stop` (server.go), which the program never calls.
* The moment between a client's look at the online column and its subscription: in `PresenceWatch` they are one step,
  since what a client does between two calls of its own is its choice, and one that looks first misses what happens between.

## 7. Plan

Done: every component with a behaviour over time, its composition with what it talks to, a refinement,
and a proof of every invariant that a run checks. Left:

1. `Startup`: the safety half of `ReturnsOnceWired`, that a call that begins once its service is wired never
   waits on a nil channel, as an invariant and a theorem.
2. Action properties of the streams: what a goroutine that has ended may never do again.
3. `First` and `Preload` as two statements, in `RoomManager` and in the chains of `RoomListener` and `RoomFeed`.
4. `RoomListener` and `RoomFeed` leave the behaviours of `RoomManager` as they are: as a theorem each
   (`ListenStep` and `FeedStep` are its steps).
