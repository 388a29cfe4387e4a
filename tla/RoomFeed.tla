------------------------------ MODULE RoomFeed ------------------------------
(***************************************************************************)
(* The room manager with the peers who hear of it: streams of              *)
(* SubscribeRoomEvent.  What a publisher announces, NATS queues for every  *)
(* stream; the stream sends on what its user is to know.  Per stream there *)
(* are                                                                     *)
(*                                                                         *)
(*   svc   the gRPC handler,                                               *)
(*   api   Signaling.SubscribeRoomEvent,                                   *)
(*   cb    the callback of the NATS subscription.                          *)
(*                                                                         *)
(* An event is the call it announces; what a goroutine holds is a set of   *)
(* at most one event.  A stream that is refused is one that never opens.   *)
(***************************************************************************)
EXTENDS RoomManager

CONSTANTS
    Streams,        \* the streams peers open, [id, user]
    PendingLimit    \* events NATS keeps for a subscription before it drops

ASSUME StreamsAssumption == \A s \in Streams : s.user \in UserIDs

ASSUME PendingLimitAssumption == PendingLimit \in Nat \ {0}

VARIABLES
    feed,       \* feed[s]: the goroutines of stream s, and its peer
    owed,       \* history: owed[c]: members, by room, who are to hear of c
    doubt       \* history: pairs of which no peer can be sure

feedVars == <<vars, feed, owed, doubt>>

NoFeed == [svc |-> "idle", svcHeld |-> {}, api |-> "none", apiHeld |-> {},
           cb |-> {}, pending |-> <<>>,
           due   |-> {},        \* events queued, and not yet sent on
           rooms |-> {},        \* the rooms the peer knows itself to be in
           asked |-> FALSE,     \* the peer has called MyRooms
           gone  |-> FALSE]     \* the peer has left

Subscribed(s) == feed[s].svc \in {"range", "write"}

FeedInit ==
    /\ Init
    /\ feed = [s \in Streams |-> NoFeed]
    /\ owed = [c \in Calls |-> {}]
    /\ doubt = {}

-----------------------------------------------------------------------------
(* A stream.                                                               *)

\* Only stream s takes a step, and is as f says afterwards.
Becomes(s, f) ==
    /\ feed' = [feed EXCEPT ![s] = f]
    /\ UNCHANGED <<vars, owed, doubt>>

Open(s) ==
    /\ feed[s].svc = "idle"
    /\ Becomes(s, [feed[s] EXCEPT !.svc = "range", !.api = "auth"])

\* The peer calls MyRooms.
Ask(s) ==
    /\ Subscribed(s) /\ ~feed[s].gone /\ ~feed[s].asked
    /\ Becomes(s, [feed[s] EXCEPT !.asked = TRUE, !.rooms = RoomsOf(s.user)])

Leave(s) ==
    /\ Subscribed(s) /\ ~feed[s].gone
    /\ Becomes(s, [feed[s] EXCEPT !.gone = TRUE])

\* GetUserContext
Authenticate(s) ==
    /\ feed[s].api = "auth"
    /\ Becomes(s, [feed[s] EXCEPT !.api =
                       IF s.user \in users THEN "select" ELSE "exit"])

TakeMessage(s) ==
    /\ feed[s].cb = {}
    /\ feed[s].pending # <<>>
    /\ Becomes(s, [feed[s] EXCEPT !.cb = {Head(feed[s].pending)},
                                  !.pending = Tail(@)])

\* Faulty variant: the database is asked, as it is for events of users.
IsMember(s, c) == s.user \in MembersOf(c.room)

IsListed(s, c) == s.user \in ids[c]

\* What becomes of an event: those of rooms list the users who hear of them,
\* those of users list rooms; the event of a new user has no case.
Route(s, c) ==
    CASE c.op = "registerUser" -> "select"
      [] c.op \in RoomOps      -> IF IsListed(s, c) THEN "send" ELSE "select"
      [] OTHER                 -> "filter"

\* case event := <-events
Receive(s) ==
    /\ feed[s].api = "select"
    /\ \E c \in feed[s].cb :
          Becomes(s, [feed[s] EXCEPT
                     !.cb = {},
                     !.api = Route(s, c),
                     !.apiHeld = IF Route(s, c) = "select" THEN {} ELSE {c}])

\* IsItMyRooms: one query, when the event is delivered.
IsItMyRooms(s, c) == RoomsOf(s.user) \cap ids[c] # {}

Filter(s) ==
    /\ feed[s].api = "filter"
    /\ \E c \in feed[s].apiHeld :
          Becomes(s, IF IsItMyRooms(s, c)
                     THEN [feed[s] EXCEPT !.api = "send"]
                     ELSE [feed[s] EXCEPT !.api = "select", !.apiHeld = {}])

\* The query fails, and the event is passed over.
FilterFails(s) ==
    /\ feed[s].api = "filter"
    /\ Becomes(s, [feed[s] EXCEPT !.api = "select", !.apiHeld = {},
                                  !.due = @ \ feed[s].apiHeld])

\* case <-ctx.Done()
ContextDone(s) ==
    /\ feed[s].api = "select"
    /\ feed[s].gone
    /\ Becomes(s, [feed[s] EXCEPT !.api = "exit"])

\* close(events), then close(protoEvents)
CloseEvents(s) ==
    /\ feed[s].api = "exit"
    /\ Becomes(s, [feed[s] EXCEPT !.api = "closing"])

CloseProto(s) ==
    /\ feed[s].api = "closing"
    /\ Becomes(s, [feed[s] EXCEPT !.api = "done"])

\* protoEvents <- meets the range loop of the handler.
Forward(s) ==
    /\ feed[s].api = "send"
    /\ feed[s].svc = "range"
    /\ Becomes(s, [feed[s] EXCEPT !.svcHeld = feed[s].apiHeld, !.apiHeld = {},
                                  !.api = "select", !.svc = "write"])

\* What the peer makes of an event about rooms; those about users change
\* nothing.
Learn(s, c) ==
    LET own == c.op \in {"addUser", "kickUser"} => c.user = s.user IN
    CASE c.op \in {"createRoom", "updateRoom", "addUser"} /\ own ->
             feed[s].rooms \cup {c.room}
      [] c.op \in {"destroyRoom", "kickUser"} /\ own ->
             feed[s].rooms \ {c.room}
      [] OTHER -> feed[s].rooms

\* srv.Send succeeds; once the peer has left, into the void.
SrvSend(s) ==
    /\ feed[s].svc = "write"
    /\ \E c \in feed[s].svcHeld :
          Becomes(s, [feed[s] EXCEPT !.svc = "range", !.svcHeld = {},
                                     !.due = @ \ {c}, !.rooms = Learn(s, c)])

SrvSendFails(s) ==
    /\ feed[s].svc = "write"
    /\ feed[s].gone
    /\ Becomes(s, [feed[s] EXCEPT !.svc = "returned", !.svcHeld = {},
                                  !.pending = <<>>])

\* The range loop ends with the closed channel.
Return(s) ==
    /\ feed[s].svc = "range"
    /\ feed[s].api = "done"
    /\ Becomes(s, [feed[s] EXCEPT !.svc = "returned", !.pending = <<>>])

-----------------------------------------------------------------------------
(* The manager, with the streams.                                          *)

HasRoom(s) == Len(feed[s].pending) < PendingLimit

\* Nats.Publish: every live subscription whose queue has room.
Enqueue(c) ==
    feed' = [s \in Streams |->
               IF Subscribed(s) /\ HasRoom(s)
               THEN [feed[s] EXCEPT !.pending = Append(@, c),
                                    !.due = @ \cup {c}]
               ELSE feed[s]]

\* The members, by room, whom c is about, or who share a room with the user
\* it is about.
Sharers(c) ==
    {p \in members : /\ p[1] \in rooms /\ p[2] \in users
                     /\ IF c.op \in RoomOps THEN p[1] = c.room
                                            ELSE <<p[1], c.user>> \in members}

\* They are owed the announcement from the change on, as long as they stay.
Owe ==
    owed' = [c \in Calls |->
               CASE pc'[c] = "load" /\ pc[c] # "load" -> Sharers(c)'
                 [] pc'[c] = "failed"                 -> {}
                 [] OTHER                             -> owed[c] \cap Sharers(c)']

Doubt(pairs) == doubt' = doubt \cup pairs

\* Calls that overlap may be announced in another order than they wrote; and
\* a user who is removed takes no part any more.
Begin(c) ==
    Doubt(IF c.op = "removeUser" THEN Scope(c)
          ELSE Scope(c) \cap UNION {Scope(d) : d \in Rivals(c)})

Manage(c) ==
    /\ \/ Find(c) /\ Begin(c)
       \/ Proceed(c) /\ Doubt(IF pc'[c] = "failed" THEN Untold(c) ELSE {})
    /\ Owe
    /\ UNCHANGED feed

Announce(c) ==
    /\ Publish(c)
    /\ \/ /\ Enqueue(c)
          /\ Doubt(IF \E s \in Streams : Subscribed(s) /\ ~HasRoom(s)
                   THEN Scope(c) ELSE {})
       \/ UNCHANGED feed /\ Doubt(Untold(c))
    /\ Owe

\* The process dies with its streams, and is started again.
Down ==
    /\ IF UnderWay = {} THEN UNCHANGED vars ELSE Crash
    /\ feed' = [s \in Streams |->
                  IF feed[s].svc = "idle" THEN NoFeed
                  ELSE [NoFeed EXCEPT !.svc = "returned", !.api = "done"]]
    /\ Owe
    /\ Doubt(UNION {Untold(c) : c \in UnderWay})

\* The callback sends on the closed events: a panic.
SendOnClosed(s) ==
    /\ feed[s].cb # {}
    /\ feed[s].api \in {"closing", "done"}
    /\ Down

Peer(s) == Open(s) \/ Ask(s) \/ Leave(s)

Subscription(s) ==
    \/ Authenticate(s) \/ Receive(s) \/ Filter(s) \/ FilterFails(s)
    \/ Forward(s) \/ ContextDone(s) \/ CloseEvents(s) \/ CloseProto(s)

Callback(s) == TakeMessage(s) \/ SendOnClosed(s)
Handler(s) == SrvSend(s) \/ SrvSendFails(s) \/ Return(s)

FeedNext ==
    \/ \E c \in Calls : Manage(c) \/ Announce(c)
    \/ \E s \in Streams :
          Peer(s) \/ Subscription(s) \/ Callback(s) \/ Handler(s)
    \/ Crash /\ Down

FeedSpec == FeedInit /\ [][FeedNext]_feedVars

-----------------------------------------------------------------------------
(* Safety.                                                                 *)

\* The stream has sent on, or passed over, everything that was queued for it.
Settled(s) ==
    /\ feed[s].api = "select" /\ feed[s].svc = "range"
    /\ feed[s].pending = <<>> /\ feed[s].cb = {}

\* Those whom the change of c concerned, and those who are in the room since.
Concerned(c) == audience[c] \cup {p[2] : p \in owed[c]}

\* A peer misses nothing that was queued for its stream: who was created into,
\* put into, kicked from or destroyed with a room; what its fellow members
\* are told of the room; and the profile or removal of a user with whom it has
\* been sharing a room since, though the stream asks the database who shares
\* one only when it delivers the event.
NothingMissed ==
    \A s \in Streams : Settled(s) =>
        \A c \in feed[s].due : c.op # "registerUser" => s.user \notin Concerned(c)

\* A peer that asked once, at any moment, and followed the stream knows its
\* rooms: across the database, the publisher, NATS, the callback and the two
\* goroutines of the stream; unless two calls that decide it overlapped, or
\* one failed after it wrote, or an announcement was lost, or it was removed.
PeerIsRight ==
    \A s \in Streams : \A r \in RoomIDs :
        /\ Settled(s) /\ feed[s].asked
        /\ <<r, s.user>> \notin doubt
        /\ \A c \in UnderWay : <<r, s.user>> \notin Scope(c)
        => (r \in feed[s].rooms <=> r \in RoomsOf(s.user))

-----------------------------------------------------------------------------
(* The inductive invariant behind NothingMissed.                           *)

Feed == [svc : {"idle", "range", "write", "returned"}, svcHeld : SUBSET Calls,
         api : {"none", "auth", "select", "filter", "send", "exit", "closing",
                "done"},
         apiHeld : SUBSET Calls, cb : SUBSET Calls, pending : Seq(Calls),
         due : SUBSET Calls, rooms : SUBSET RoomIDs,
         asked : BOOLEAN, gone : BOOLEAN]

FeedTypeOK ==
    /\ feed \in [Streams -> Feed]
    /\ owed \in [Calls -> SUBSET Pairs]
    /\ doubt \in SUBSET Pairs

\* The events on their way through a stream.
Queued(q) == {q[i] : i \in DOMAIN q}
Transit(f) == f.svcHeld \cup f.apiHeld \cup f.cb \cup Queued(f.pending)

AtMostOne(S) == \A c, d \in S : c = d

\* What is handed to the peer of s is for it.
Cleared(s, c) == c.op \in RoomOps => IsListed(s, c)

\* A goroutine holds an event while it works on it, and none while it waits;
\* the call that announced it has returned.
HeldOK(s, f) ==
    /\ f.svc = "idle" => f = NoFeed
    /\ f.svc # "write" => f.svcHeld = {}
    /\ f.api \notin {"filter", "send"} => f.apiHeld = {}
    /\ AtMostOne(f.svcHeld) /\ AtMostOne(f.apiHeld) /\ AtMostOne(f.cb)
    /\ f.api = "filter" => \A c \in f.apiHeld : c.op \in UserOps
    /\ f.api = "send" => \A c \in f.apiHeld : Cleared(s, c)
    /\ \A c \in f.svcHeld : Cleared(s, c)
    /\ \A c \in Transit(f) \cup f.due : pc[c] = "done"

\* Those who are owed an announcement are still there, and listed in it, by
\* themselves or by a room.
OwedInv ==
    \A c \in Calls :
        /\ owed[c] \subseteq Sharers(c)
        /\ c.op \in UserOps => audience[c] = {}
        /\ pc[c] \in {"send", "done"} =>
              \A p \in owed[c] : IF c.op \in RoomOps THEN p[2] \in ids[c]
                                                     ELSE p[1] \in ids[c]

\* A stream on which the peer may still hear something.
Live(f) == /\ f.svc \in {"range", "write"}
           /\ f.api \in {"auth", "select", "filter", "send"}

\* What was queued for a stream is on its way, or of no concern to the peer.
DueOK(s, f) ==
    Live(f) => \A c \in f.due \ Transit(f) :
                  c.op # "registerUser" => s.user \notin Concerned(c)

StreamInv == \A s \in Streams : HeldOK(s, feed[s]) /\ DueOK(s, feed[s])

FeedInv == FeedTypeOK /\ OrderInv /\ OwedInv /\ StreamInv

-----------------------------------------------------------------------------
(* The inductive invariant behind PeerIsRight.                             *)

\* Rivals leave doubt about what both decide, and so does a removal.
DoubtInv ==
    /\ \A c, d \in UnderWay : Overlap(c, d) => Scope(c) \cap Scope(d) \subseteq doubt
    /\ \A c \in Calls : c.op = "removeUser" /\ pc[c] # "idle" => Scope(c) \subseteq doubt

\* A member has a row, and so has whoever is about to become one.
RowsInv ==
    /\ \A p \in members \ doubt : p[2] \in users
    /\ \A c \in Calls :
          /\ c.op = "addUser" => todo[c] \subseteq {c.user}
          /\ pc[c] \in {"write", "append"} =>
                \A u \in todo[c] : <<c.room, u>> \notin doubt => u \in users

StoodInv ==
    \A c \in Calls : \A p \in Scope(c) \ doubt :
        pc[c] \in {"append", "load"} => Stands(c, p)

\* The calls from which user u learns whether it is in the room.
Own(c, u) == c.op \in RoomOps /\ (c.op \in {"addUser", "kickUser"} => c.user = u)

\* Call c has made it so, and will tell u.
Deciding(c, u) ==
    /\ c \in written /\ Own(c, u)
    /\ \/ pc[c] \in {"append", "load"} /\ (<<c.room, u>> \in members \/ c.op = "kickUser")
       \/ (pc[c] = "send" \/ c \in pub) /\ u \in ids[c]

Joining == {"createRoom", "updateRoom", "addUser"}

\* What u learns from c about room r is so.
Agrees(c, r, home) == c.op \in Joining <=> r \in home

Undecided(r, u, S) == \A d \in S : d.room = r => ~Deciding(d, u)

SaysInv ==
    \A c \in Calls, u \in UserIDs :
        /\ pc[c] = "send" \/ c \in pub
        /\ Own(c, u) /\ u \in ids[c]
        /\ <<c.room, u>> \notin doubt
        /\ Undecided(c.room, u, InFlight \ {c})
        => Agrees(c, c.room, RoomsOf(u))

\* The events from which the peer of s learns whether it is in room r.
Deciders(s, r) == {c \in Calls : c.room = r /\ Own(c, s.user) /\ s.user \in ids[c]}

\* The last of them that is queued is right.
EndsRight(q, D, r, home) ==
    \A i \in DOMAIN q :
        q[i] \in D /\ (\A j \in DOMAIN q : j > i => q[j] \notin D)
            => Agrees(q[i], r, home)

AllRight(S, D, r, home) == \A c \in S \cap D : Agrees(c, r, home)

\* The last of them that is on its way is right; and if there is none, so is
\* a peer that has asked.
Arrives(f, r, D, home) ==
    /\ EndsRight(f.pending, D, r, home)
    /\ Queued(f.pending) \cap D = {} => AllRight(f.cb, D, r, home)
    /\ (Queued(f.pending) \cup f.cb) \cap D = {} => AllRight(f.apiHeld, D, r, home)
    /\ (Queued(f.pending) \cup f.cb \cup f.apiHeld) \cap D = {} => AllRight(f.svcHeld, D, r, home)
    /\ Transit(f) \cap D = {} /\ f.asked => (r \in f.rooms <=> r \in home)

PipeInv ==
    \A s \in Streams, r \in RoomIDs :
        /\ Live(feed[s])
        /\ <<r, s.user>> \notin doubt
        /\ Undecided(r, s.user, UnderWay)
        => Arrives(feed[s], r, Deciders(s, r), RoomsOf(s.user))

PeerInv == DoubtInv /\ RowsInv /\ StoodInv /\ SaysInv /\ PipeInv
=============================================================================
