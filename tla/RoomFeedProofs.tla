--------------------------- MODULE RoomFeedProofs ---------------------------
(***************************************************************************)
(* Proofs about RoomFeed, for any users, rooms, calls and streams, and any *)
(* sizes of queues, whatever fails.                                        *)
(***************************************************************************)
EXTENDS RoomFeed, RoomManagerProofs, SequenceTheorems

-----------------------------------------------------------------------------
(* Queues.                                                                 *)

\* A queue without its first event ends as it did, and that event was the
\* last of its kind only if it was right.
LEMMA TakeQueue ==
    ASSUME NEW q \in Seq(Calls), q # <<>>
    PROVE  /\ Head(q) \in Calls /\ Tail(q) \in Seq(Calls)
           /\ Queued(q) = {Head(q)} \cup Queued(Tail(q))
           /\ \A D, r, home : EndsRight(q, D, r, home) =>
                 /\ EndsRight(Tail(q), D, r, home)
                 /\ Queued(Tail(q)) \cap D = {} => AllRight({Head(q)}, D, r, home)
<1>1. /\ Len(q) \in Nat \ {0}
      /\ DOMAIN q = 1 .. Len(q) /\ DOMAIN Tail(q) = 1 .. Len(q) - 1
      /\ Head(q) = q[1] /\ Head(q) \in Calls /\ Tail(q) \in Seq(Calls)
      /\ \A i \in 1 .. Len(q) - 1 : Tail(q)[i] = q[i + 1]
  BY HeadTailProperties, EmptySeq, LenProperties
<1>2. \A i \in DOMAIN q : i = 1 \/ (i - 1 \in DOMAIN Tail(q) /\ Tail(q)[i - 1] = q[i])
  BY <1>1
<1>3. \A i \in DOMAIN Tail(q) : i + 1 \in DOMAIN q /\ q[i + 1] = Tail(q)[i]
  BY <1>1
<1>4. Queued(q) = {Head(q)} \cup Queued(Tail(q))
  <2>1. ASSUME NEW x \in Queued(q)
        PROVE  x \in {Head(q)} \cup Queued(Tail(q))
    <3>1. PICK i \in DOMAIN q : x = q[i]
      BY DEF Queued
    <3>2. CASE i = 1
      BY <1>1, <3>1, <3>2
    <3>3. CASE i # 1
      BY <1>2, <3>1, <3>3 DEF Queued
    <3> QED
      BY <3>2, <3>3
  <2>2. Head(q) \in Queued(q)
    <3>1. 1 \in DOMAIN q
      BY <1>1
    <3> QED
      BY <1>1, <3>1 DEF Queued
  <2>3. ASSUME NEW x \in Queued(Tail(q))
        PROVE  x \in Queued(q)
    <3>1. PICK i \in DOMAIN Tail(q) : x = Tail(q)[i]
      BY DEF Queued
    <3> QED
      BY <1>3, <3>1 DEF Queued
  <2> QED
    BY <2>1, <2>2, <2>3
<1>5. ASSUME NEW D, NEW r, NEW home, EndsRight(q, D, r, home)
      PROVE  EndsRight(Tail(q), D, r, home)
  <2> SUFFICES ASSUME NEW i \in DOMAIN Tail(q), Tail(q)[i] \in D,
                      \A j \in DOMAIN Tail(q) : j > i => Tail(q)[j] \notin D
               PROVE  Agrees(Tail(q)[i], r, home)
    BY DEF EndsRight
  <2>1. i + 1 \in DOMAIN q /\ q[i + 1] = Tail(q)[i]
    BY <1>3
  <2>2. ASSUME NEW j \in DOMAIN q, j > i + 1
        PROVE  q[j] \notin D
    <3>1. j - 1 \in DOMAIN Tail(q) /\ Tail(q)[j - 1] = q[j] /\ j - 1 > i
      BY <1>1, <1>2, <2>2
    <3> QED
      BY <3>1
  <2> QED
    BY <1>5, <2>1, <2>2 DEF EndsRight
<1>6. ASSUME NEW D, NEW r, NEW home, EndsRight(q, D, r, home),
             Queued(Tail(q)) \cap D = {}, Head(q) \in D
      PROVE  Agrees(Head(q), r, home)
  <2>1. ASSUME NEW j \in DOMAIN q, j > 1
        PROVE  q[j] \notin D
    <3>1. j - 1 \in DOMAIN Tail(q) /\ Tail(q)[j - 1] = q[j]
      BY <1>1, <1>2, <2>1
    <3> QED
      BY <1>6, <3>1 DEF Queued
  <2>2. 1 \in DOMAIN q /\ q[1] \in D
    BY <1>1, <1>6
  <2> QED
    BY <1>1, <1>6, <2>1, <2>2 DEF EndsRight
<1> QED
  BY <1>1, <1>4, <1>5, <1>6 DEF AllRight

\* A queue ends with the event that is appended, if it is of the kind.
LEMMA AppendQueue ==
    ASSUME NEW q \in Seq(Calls), NEW c \in Calls
    PROVE  /\ Append(q, c) \in Seq(Calls)
           /\ Queued(Append(q, c)) = Queued(q) \cup {c}
           /\ \A D, r, home :
                 (IF c \in D THEN Agrees(c, r, home) ELSE EndsRight(q, D, r, home))
                 => EndsRight(Append(q, c), D, r, home)
<1> DEFINE a == Append(q, c)
           n == Len(q) + 1
<1>1. /\ Len(q) \in Nat /\ DOMAIN q = 1 .. Len(q) /\ DOMAIN a = 1 .. n
      /\ a \in Seq(Calls) /\ a[n] = c /\ \A i \in 1 .. Len(q) : a[i] = q[i]
  BY AppendProperties, LenProperties
<1> HIDE DEF a
<1>2. /\ \A i \in DOMAIN a : i = n \/ (i \in DOMAIN q /\ a[i] = q[i])
      /\ \A i \in DOMAIN q : i \in DOMAIN a /\ a[i] = q[i] /\ i < n
      /\ n \in DOMAIN a
  BY <1>1
<1>3. Queued(a) = Queued(q) \cup {c}
  BY <1>1, <1>2 DEF Queued
<1>4. ASSUME NEW D, NEW r, NEW home,
             IF c \in D THEN Agrees(c, r, home) ELSE EndsRight(q, D, r, home)
      PROVE  EndsRight(a, D, r, home)
  <2> SUFFICES ASSUME NEW i \in DOMAIN a, a[i] \in D,
                      \A j \in DOMAIN a : j > i => a[j] \notin D
               PROVE  Agrees(a[i], r, home)
    BY DEF EndsRight
  <2>1. CASE i = n
    BY <1>1, <1>4, <2>1
  <2>2. CASE i # n
    <3>1. i \in DOMAIN q /\ a[i] = q[i] /\ n > i
      BY <1>1, <1>2, <2>2
    <3>2. c \notin D
      BY <1>1, <1>2, <3>1
    <3>3. \A j \in DOMAIN q : j > i => q[j] \notin D
      BY <1>2
    <3> QED
      BY <1>4, <3>1, <3>2, <3>3 DEF EndsRight
  <2> QED
    BY <2>1, <2>2
<1> QED
  BY <1>1, <1>3, <1>4 DEF a

-----------------------------------------------------------------------------
(* The steps of a stream.                                                  *)

\* What is true of a stream in state f stays true of it in state g.
Follows(s, f, g) ==
    /\ g \in Feed /\ HeldOK(s, g) /\ DueOK(s, g)
    /\ \A r \in RoomIDs :
          /\ Live(g)
          /\ Live(f) => Arrives(f, r, Deciders(s, r), RoomsOf(s.user))
          => Arrives(g, r, Deciders(s, r), RoomsOf(s.user))

\* The state of a stream has the fields it has.
LEMMA FeedFields ==
    ASSUME NEW f \in Feed
    PROVE  /\ f.svc \in {"idle", "range", "write", "returned"}
           /\ f.api \in {"none", "auth", "select", "filter", "send", "exit",
                         "closing", "done"}
           /\ f.svcHeld \subseteq Calls /\ f.apiHeld \subseteq Calls
           /\ f.cb \subseteq Calls /\ f.pending \in Seq(Calls)
           /\ f.due \subseteq Calls /\ f.rooms \subseteq RoomIDs
           /\ f.asked \in BOOLEAN /\ f.gone \in BOOLEAN
BY DEF Feed

\* A stream that is not open holds nothing.
LEMMA NoFeedFields ==
    /\ NoFeed \in Feed
    /\ NoFeed.svc = "idle" /\ NoFeed.api = "none"
    /\ NoFeed.svcHeld = {} /\ NoFeed.apiHeld = {} /\ NoFeed.cb = {}
    /\ NoFeed.pending = <<>> /\ NoFeed.due = {} /\ NoFeed.rooms = {}
    /\ NoFeed.asked = FALSE /\ NoFeed.gone = FALSE
BY EmptySeq DEF NoFeed, Feed

\* No event is on its way in an empty queue.
LEMMA NothingQueued == Queued(<<>>) = {}
BY EmptySeq DEF Queued

\* A step that moves no event leaves everything as it was.
LEMMA MovesNone ==
    ASSUME NEW s \in Streams, NEW f \in Feed, NEW g \in Feed,
           HeldOK(s, f), DueOK(s, f),
           g.svcHeld = f.svcHeld, g.apiHeld = f.apiHeld, g.cb = f.cb,
           g.pending = f.pending, g.due = f.due,
           g.svc = f.svc, f.svc # "idle",
           \/ g.api = f.api
           \/ /\ f.api \notin {"filter", "send"}
              /\ g.api \notin {"filter", "send"}
              /\ Live(g) => Live(f),
           \/ g.rooms = f.rooms /\ g.asked = f.asked
           \/ g.rooms = RoomsOf(s.user)
    PROVE  Follows(s, f, g)
<1>1. Transit(g) = Transit(f)
  BY DEF Transit
<1>2. HeldOK(s, g)
  BY <1>1 DEF HeldOK
<1>3. Live(g) => Live(f)
  BY DEF Live
<1>4. DueOK(s, g)
  BY <1>1, <1>3 DEF DueOK
<1>5. ASSUME NEW r \in RoomIDs, Arrives(f, r, Deciders(s, r), RoomsOf(s.user))
      PROVE  Arrives(g, r, Deciders(s, r), RoomsOf(s.user))
  BY <1>1, <1>5 DEF Arrives
<1> QED
  BY <1>2, <1>3, <1>4, <1>5 DEF Follows

\* What the peer does itself.
LEMMA PeerSteps ==
    ASSUME TypeOK, FeedTypeOK, NEW s \in Streams,
           HeldOK(s, feed[s]), DueOK(s, feed[s]), Peer(s)
    PROVE  Follows(s, feed[s], feed'[s])
<1> DEFINE f == feed[s]
<1>1. f \in Feed /\ feed \in [Streams -> Feed]
  BY DEF FeedTypeOK
<1>2. CASE Open(s)
  <2> DEFINE g == [f EXCEPT !.svc = "range", !.api = "auth"]
  <2>1. f = NoFeed /\ feed'[s] = g
    BY <1>1, <1>2 DEF Open, Becomes, HeldOK
  <2>2. /\ g \in Feed /\ g.svc = "range" /\ g.api = "auth"
        /\ g.svcHeld = {} /\ g.apiHeld = {} /\ g.cb = {} /\ g.pending = <<>>
        /\ g.due = {} /\ g.asked = FALSE
    BY <2>1, NoFeedFields DEF Feed
  <2> HIDE DEF g
  <2>3. Transit(g) = {}
    BY <2>2, NothingQueued DEF Transit
  <2>4. HeldOK(s, g) /\ DueOK(s, g)
    BY <2>2, <2>3 DEF HeldOK, DueOK, AtMostOne
  <2>5. ASSUME NEW r
        PROVE  Arrives(g, r, Deciders(s, r), RoomsOf(s.user))
    BY <2>2, EmptySeq DEF Arrives, EndsRight, AllRight
  <2> QED
    BY <2>1, <2>2, <2>4, <2>5 DEF Follows
<1>3. CASE Ask(s)
  <2> DEFINE g == [f EXCEPT !.asked = TRUE, !.rooms = RoomsOf(s.user)]
  <2>1. f.svc # "idle" /\ feed'[s] = g /\ RoomsOf(s.user) \subseteq RoomIDs
    BY <1>1, <1>3 DEF Ask, Becomes, Subscribed, RoomsOf, TypeOK
  <2>2. /\ g \in Feed /\ g.svc = f.svc /\ g.api = f.api
        /\ g.svcHeld = f.svcHeld /\ g.apiHeld = f.apiHeld /\ g.cb = f.cb
        /\ g.pending = f.pending /\ g.due = f.due /\ g.rooms = RoomsOf(s.user)
    BY <1>1, <2>1 DEF Feed
  <2> HIDE DEF f, g
  <2> QED
    BY <1>1, <2>1, <2>2, MovesNone DEF f
<1>4. CASE Leave(s)
  <2> DEFINE g == [f EXCEPT !.gone = TRUE]
  <2>1. f.svc # "idle" /\ feed'[s] = g
    BY <1>1, <1>4 DEF Leave, Becomes, Subscribed
  <2>2. /\ g \in Feed /\ g.svc = f.svc /\ g.api = f.api
        /\ g.svcHeld = f.svcHeld /\ g.apiHeld = f.apiHeld /\ g.cb = f.cb
        /\ g.pending = f.pending /\ g.due = f.due
        /\ g.rooms = f.rooms /\ g.asked = f.asked
    BY <1>1 DEF Feed
  <2> HIDE DEF f, g
  <2> QED
    BY <1>1, <2>1, <2>2, MovesNone DEF f
<1> QED
  BY <1>2, <1>3, <1>4 DEF Peer

\* What the loop of the stream does without an event in hand.
LoopSteps(s) == Authenticate(s) \/ ContextDone(s) \/ CloseEvents(s) \/ CloseProto(s)

LEMMA LoopStep ==
    ASSUME FeedTypeOK, NEW s \in Streams,
           HeldOK(s, feed[s]), DueOK(s, feed[s]), LoopSteps(s)
    PROVE  Follows(s, feed[s], feed'[s])
<1> DEFINE f == feed[s]
<1>1. f \in Feed /\ feed \in [Streams -> Feed]
  BY DEF FeedTypeOK
<1>2. PICK api \in {"select", "exit", "closing", "done"} :
        /\ feed'[s] = [f EXCEPT !.api = api]
        /\ f.api \in {"auth", "select", "exit", "closing"}
        /\ api = "select" => f.api = "auth"
  BY <1>1 DEF LoopSteps, Authenticate, ContextDone, CloseEvents, CloseProto, Becomes
<1> DEFINE g == [f EXCEPT !.api = api]
<1>3. /\ g \in Feed /\ g.svc = f.svc /\ g.api = api
      /\ g.svcHeld = f.svcHeld /\ g.apiHeld = f.apiHeld /\ g.cb = f.cb
      /\ g.pending = f.pending /\ g.due = f.due
      /\ g.rooms = f.rooms /\ g.asked = f.asked
  BY <1>1, <1>2 DEF Feed
<1>4. f.svc # "idle"
  BY <1>2, NoFeedFields DEF HeldOK
<1> HIDE DEF f, g
<1>5. Live(g) => Live(f)
  BY <1>2, <1>3 DEF Live
<1> QED
  BY <1>1, <1>2, <1>3, <1>4, <1>5, MovesNone DEF f, g

\* The callback takes the oldest event of the queue.
LEMMA TakeStep ==
    ASSUME FeedTypeOK, NEW s \in Streams,
           HeldOK(s, feed[s]), DueOK(s, feed[s]), TakeMessage(s)
    PROVE  Follows(s, feed[s], feed'[s])
<1> DEFINE f == feed[s]
           g == [f EXCEPT !.cb = {Head(f.pending)}, !.pending = Tail(@)]
<1>1. /\ f \in Feed /\ feed'[s] = g
      /\ f.cb = {} /\ f.pending # <<>> /\ f.pending \in Seq(Calls)
  BY FeedFields DEF FeedTypeOK, TakeMessage, Becomes
<1>2. /\ Head(f.pending) \in Calls /\ Tail(f.pending) \in Seq(Calls)
      /\ Queued(f.pending) = {Head(f.pending)} \cup Queued(Tail(f.pending))
  BY <1>1, TakeQueue
<1>3. /\ g \in Feed /\ g.svc = f.svc /\ g.api = f.api
      /\ g.svcHeld = f.svcHeld /\ g.apiHeld = f.apiHeld
      /\ g.cb = {Head(f.pending)} /\ g.pending = Tail(f.pending)
      /\ g.due = f.due /\ g.rooms = f.rooms /\ g.asked = f.asked
  BY <1>1, <1>2 DEF Feed
<1>4. f.svc # "idle"
  BY <1>1, NoFeedFields DEF HeldOK
<1>5. HeldOK(s, f) /\ DueOK(s, f)
  OBVIOUS
<1> HIDE DEF f, g
<1>6. \A D, r, home : EndsRight(f.pending, D, r, home) =>
         /\ EndsRight(Tail(f.pending), D, r, home)
         /\ Queued(Tail(f.pending)) \cap D = {}
            => AllRight({Head(f.pending)}, D, r, home)
  BY <1>1, TakeQueue
<1>7. Transit(g) = Transit(f)
  BY <1>1, <1>2, <1>3 DEF Transit
<1>8. HeldOK(s, g)
  BY <1>1, <1>3, <1>4, <1>5, <1>7 DEF HeldOK, AtMostOne
<1>9. DueOK(s, g)
  BY <1>3, <1>5, <1>7 DEF DueOK, Live
<1>10. ASSUME NEW r, NEW D, NEW home, Arrives(f, r, D, home)
       PROVE  Arrives(g, r, D, home)
  <2>1. Queued(f.pending) = g.cb \cup Queued(g.pending)
    BY <1>2, <1>3
  <2>2. EndsRight(f.pending, D, r, home)
    BY <1>10 DEF Arrives
  <2>3. /\ EndsRight(g.pending, D, r, home)
        /\ Queued(g.pending) \cap D = {} => AllRight(g.cb, D, r, home)
    BY <1>3, <1>6, <2>2
  <2> QED
    BY <1>1, <1>3, <1>7, <1>10, <2>1, <2>3 DEF Arrives
<1> QED
  BY <1>1, <1>3, <1>8, <1>9, <1>10 DEF Follows, Live, f

\* Where an event goes.
LEMMA RouteIs ==
    ASSUME NEW s \in Streams, NEW c \in Calls
    PROVE  \/ Route(s, c) = "select" /\ c.op = "registerUser"
           \/ Route(s, c) = "select" /\ c.op \in RoomOps /\ ~IsListed(s, c)
           \/ Route(s, c) = "send" /\ c.op \in RoomOps /\ IsListed(s, c)
           \/ Route(s, c) = "filter" /\ c.op \in UserOps
<1>1. c.op \in UserOps \cup RoomOps
  BY CallsAssumption
<1>2. CASE c.op = "registerUser"
  BY <1>2 DEF Route
<1>3. CASE c.op # "registerUser" /\ c.op \in RoomOps
  BY <1>3 DEF Route
<1>4. CASE c.op # "registerUser" /\ c.op \notin RoomOps
  BY <1>1, <1>4 DEF Route
<1> QED
  BY <1>2, <1>3, <1>4

\* The loop takes an event from the callback, and keeps it unless it is for
\* somebody else.
LEMMA ReceiveStep ==
    ASSUME ManagerInv, FeedTypeOK, OwedInv, NEW s \in Streams,
           HeldOK(s, feed[s]), DueOK(s, feed[s]), Receive(s)
    PROVE  Follows(s, feed[s], feed'[s])
<1> DEFINE f == feed[s]
<1>1. /\ f \in Feed /\ f.api = "select" /\ f.cb \subseteq Calls
      /\ feed \in [Streams -> Feed]
  BY FeedFields DEF FeedTypeOK, Receive
<1>2. PICK c \in f.cb :
         feed'[s] = [f EXCEPT !.cb = {}, !.api = Route(s, c),
                              !.apiHeld = IF Route(s, c) = "select" THEN {} ELSE {c}]
  BY <1>1 DEF Receive, Becomes
<1> DEFINE g == [f EXCEPT !.cb = {}, !.api = Route(s, c),
                          !.apiHeld = IF Route(s, c) = "select" THEN {} ELSE {c}]
<1>3. /\ c \in Calls
      /\ \/ Route(s, c) = "select" /\ c.op = "registerUser"
         \/ Route(s, c) = "select" /\ c.op \in RoomOps /\ ~IsListed(s, c)
         \/ Route(s, c) = "send" /\ c.op \in RoomOps /\ IsListed(s, c)
         \/ Route(s, c) = "filter" /\ c.op \in UserOps
  BY <1>1, RouteIs
<1>4. /\ g \in Feed /\ g.svc = f.svc /\ g.api = Route(s, c)
      /\ g.svcHeld = f.svcHeld /\ g.cb = {} /\ g.pending = f.pending
      /\ g.apiHeld = IF Route(s, c) = "select" THEN {} ELSE {c}
      /\ g.due = f.due /\ g.rooms = f.rooms /\ g.asked = f.asked
  BY <1>1, <1>3 DEF Feed
<1>5. f.svc # "idle"
  BY <1>2, NoFeedFields DEF HeldOK
<1>6. HeldOK(s, f) /\ DueOK(s, f)
  OBVIOUS
<1> HIDE DEF f, g
<1>7. f.cb = {c} /\ f.apiHeld = {} /\ pc[c] = "done"
  BY <1>1, <1>2, <1>6 DEF HeldOK, AtMostOne, Transit
<1>8. Transit(f) = Transit(g) \cup {c} /\ (Route(s, c) # "select" => c \in Transit(g))
  BY <1>3, <1>4, <1>7 DEF Transit
<1>9. HeldOK(s, g)
  BY <1>3, <1>4, <1>5, <1>6, <1>8 DEF HeldOK, AtMostOne, Cleared, UserOps, RoomOps
<1>10. DueOK(s, g)
  <2>1. ASSUME c.op \in RoomOps, ~IsListed(s, c)
        PROVE  s.user \notin Concerned(c)
    <3>1. s.user \notin audience[c]
      BY <1>3, <1>7, <2>1 DEF ManagerInv, AudienceInv, AudienceOK, IsListed
    <3>2. \A p \in owed[c] : p[2] # s.user
      BY <1>3, <1>7, <2>1 DEF OwedInv, IsListed
    <3> QED
      BY <3>1, <3>2 DEF Concerned
  <2>2. Live(g) => Live(f)
    BY <1>1, <1>4 DEF Live
  <2> QED
    BY <1>3, <1>4, <1>6, <1>8, <2>1, <2>2 DEF DueOK
<1>11. ASSUME NEW r \in RoomIDs, Arrives(f, r, Deciders(s, r), RoomsOf(s.user))
       PROVE  Arrives(g, r, Deciders(s, r), RoomsOf(s.user))
  <2>1. Route(s, c) = "select" => c \notin Deciders(s, r)
    BY <1>3 DEF Deciders, Own, IsListed, RoomOps
  <2>2. Route(s, c) = "filter" => c \notin Deciders(s, r)
    BY <1>3 DEF Deciders, Own, UserOps, RoomOps
  <2> QED
    BY <1>4, <1>7, <1>8, <1>11, <2>1 DEF Arrives, AllRight
<1>12. Live(g) => Live(f)
  BY <1>1, <1>4 DEF Live
<1> QED
  BY <1>2, <1>4, <1>9, <1>10, <1>11, <1>12 DEF Follows, f, g

\* An event of a user goes on, or is passed over if it does not concern the
\* peer; or nobody owes it to the peer any more.
LEMMA FilterStep ==
    ASSUME ManagerInv, FeedTypeOK, OwedInv, NEW s \in Streams,
           HeldOK(s, feed[s]), DueOK(s, feed[s]), Filter(s) \/ FilterFails(s)
    PROVE  Follows(s, feed[s], feed'[s])
<1> DEFINE f == feed[s]
<1>1. /\ f \in Feed /\ f.api = "filter" /\ f.apiHeld \subseteq Calls
      /\ f.due \subseteq Calls /\ feed \in [Streams -> Feed]
      /\ s.user \in UserIDs
  BY FeedFields, StreamsAssumption DEF FeedTypeOK, Filter, FilterFails
<1>2. HeldOK(s, f) /\ DueOK(s, f)
  OBVIOUS
<1>3. f.svc # "idle"
  BY <1>1, NoFeedFields DEF HeldOK
<1>4. \A c \in f.apiHeld : c.op \in UserOps /\ c.op \notin RoomOps /\ pc[c] = "done"
  BY <1>1, <1>2 DEF HeldOK, UserOps, RoomOps, Transit
<1>5. ASSUME NEW c \in f.apiHeld, ~IsItMyRooms(s, c)
      PROVE  s.user \notin Concerned(c)
  <2>1. c \in Calls /\ audience[c] = {} /\ owed[c] \subseteq Sharers(c)
        /\ \A p \in owed[c] : p[1] \in ids[c] /\ p \in Pairs
    BY <1>1, <1>4 DEF OwedInv, FeedTypeOK
  <2>2. ASSUME NEW p \in owed[c], p[2] = s.user
        PROVE  FALSE
    <3>1. p \in members /\ p[1] \in rooms /\ p[1] \in ids[c]
      BY <2>1, <2>2 DEF Sharers
    <3>2. p = <<p[1], s.user>>
      BY <2>1, <2>2 DEF Pairs
    <3>3. p[1] \in RoomsOf(s.user) \cap ids[c]
      BY <3>1, <3>2 DEF RoomsOf
    <3> QED
      BY <1>5, <3>3 DEF IsItMyRooms
  <2> QED
    BY <2>1, <2>2 DEF Concerned
<1>6. CASE Filter(s) /\ \A c \in f.apiHeld : IsItMyRooms(s, c)
  <2> DEFINE g == [f EXCEPT !.api = "send"]
  <2>1. feed'[s] = g
    BY <1>1, <1>6 DEF Filter, Becomes
  <2>2. /\ g \in Feed /\ g.svc = f.svc /\ g.api = "send"
        /\ g.svcHeld = f.svcHeld /\ g.apiHeld = f.apiHeld /\ g.cb = f.cb
        /\ g.pending = f.pending
        /\ g.due = f.due /\ g.rooms = f.rooms /\ g.asked = f.asked
    BY <1>1 DEF Feed
  <2> HIDE DEF f, g
  <2>3. Transit(g) = Transit(f) /\ (Live(g) => Live(f))
    BY <1>1, <2>2 DEF Transit, Live
  <2>4. HeldOK(s, g)
    BY <1>2, <1>3, <1>4, <2>2, <2>3 DEF HeldOK, Cleared
  <2>5. DueOK(s, g)
    BY <1>2, <2>2, <2>3 DEF DueOK
  <2>6. \A r, D, home : Arrives(f, r, D, home) => Arrives(g, r, D, home)
    BY <2>2, <2>3 DEF Arrives
  <2> QED
    BY <2>1, <2>2, <2>3, <2>4, <2>5, <2>6 DEF Follows, f
<1>7. ASSUME NEW due \in SUBSET Calls,
             due \subseteq f.due,
             \A c \in f.apiHeld \cap due : s.user \notin Concerned(c),
             feed'[s] = [f EXCEPT !.api = "select", !.apiHeld = {}, !.due = due]
      PROVE  Follows(s, feed[s], feed'[s])
  <2> DEFINE g == [f EXCEPT !.api = "select", !.apiHeld = {}, !.due = due]
  <2>1. /\ g \in Feed /\ g.svc = f.svc /\ g.api = "select"
        /\ g.svcHeld = f.svcHeld /\ g.apiHeld = {} /\ g.cb = f.cb
        /\ g.pending = f.pending
        /\ g.due = due /\ g.rooms = f.rooms /\ g.asked = f.asked
    BY <1>1 DEF Feed
  <2>2. feed'[s] = g
    BY <1>7
  <2> HIDE DEF f, g
  <2>3. Transit(f) = Transit(g) \cup f.apiHeld /\ (Live(g) => Live(f))
    BY <1>1, <2>1 DEF Transit, Live
  <2>4. HeldOK(s, g)
    BY <1>2, <1>3, <1>7, <2>1, <2>3 DEF HeldOK, AtMostOne
  <2>5. DueOK(s, g)
    BY <1>2, <1>7, <2>1, <2>3 DEF DueOK
  <2>6. ASSUME NEW r \in RoomIDs, Arrives(f, r, Deciders(s, r), RoomsOf(s.user))
        PROVE  Arrives(g, r, Deciders(s, r), RoomsOf(s.user))
    <3>1. f.apiHeld \cap Deciders(s, r) = {}
      BY <1>4 DEF Deciders, Own
    <3>2. Transit(f) \cap Deciders(s, r) = Transit(g) \cap Deciders(s, r)
      BY <2>3, <3>1
    <3> QED
      BY <2>1, <2>6, <3>1, <3>2 DEF Arrives, AllRight
  <2> QED
    BY <2>1, <2>2, <2>3, <2>4, <2>5, <2>6 DEF Follows, f
<1>8. CASE Filter(s) /\ ~\A c \in f.apiHeld : IsItMyRooms(s, c)
  <2>1. PICK c \in f.apiHeld : ~IsItMyRooms(s, c)
    BY <1>8
  <2>2. f.apiHeld = {c}
    BY <1>2, <2>1 DEF HeldOK, AtMostOne
  <2>3. feed'[s] = [f EXCEPT !.api = "select", !.apiHeld = {}]
    BY <1>1, <1>8, <2>1, <2>2 DEF Filter, Becomes
  <2>4. feed'[s] = [f EXCEPT !.api = "select", !.apiHeld = {}, !.due = f.due]
    BY <1>1, <2>3 DEF Feed
  <2> QED
    BY <1>1, <1>5, <1>7, <2>1, <2>2, <2>4
<1>9. CASE FilterFails(s)
  <2>1. feed'[s] = [f EXCEPT !.api = "select", !.apiHeld = {}, !.due = f.due \ f.apiHeld]
    BY <1>1, <1>9 DEF FilterFails, Becomes
  <2> QED
    BY <1>1, <1>7, <2>1
<1> QED
  BY <1>6, <1>8, <1>9

\* The loop hands the event to the handler.
LEMMA ForwardStep ==
    ASSUME FeedTypeOK, NEW s \in Streams,
           HeldOK(s, feed[s]), DueOK(s, feed[s]), Forward(s)
    PROVE  Follows(s, feed[s], feed'[s])
<1> DEFINE f == feed[s]
           g == [f EXCEPT !.svcHeld = f.apiHeld, !.apiHeld = {},
                          !.api = "select", !.svc = "write"]
<1>1. /\ f \in Feed /\ feed'[s] = g /\ f.api = "send" /\ f.svc = "range"
      /\ f.apiHeld \subseteq Calls
  BY FeedFields DEF FeedTypeOK, Forward, Becomes
<1>2. /\ g \in Feed /\ g.svc = "write" /\ g.api = "select"
      /\ g.svcHeld = f.apiHeld /\ g.apiHeld = {} /\ g.cb = f.cb
      /\ g.pending = f.pending
      /\ g.due = f.due /\ g.rooms = f.rooms /\ g.asked = f.asked
  BY <1>1 DEF Feed
<1>3. HeldOK(s, f) /\ DueOK(s, f)
  OBVIOUS
<1> HIDE DEF f, g
<1>4. f.svcHeld = {}
  BY <1>1, <1>3 DEF HeldOK
<1>5. Transit(g) = Transit(f) /\ Live(f)
  BY <1>1, <1>2, <1>4 DEF Transit, Live
<1>6. HeldOK(s, g)
  BY <1>1, <1>2, <1>3, <1>5 DEF HeldOK, AtMostOne
<1>7. DueOK(s, g)
  BY <1>2, <1>3, <1>5 DEF DueOK
<1>8. \A r, D, home : Arrives(f, r, D, home) => Arrives(g, r, D, home)
  BY <1>2, <1>4, <1>5 DEF Arrives, AllRight
<1> QED
  BY <1>1, <1>2, <1>5, <1>6, <1>7, <1>8 DEF Follows, f

\* What the peer learns from an event is what the event tells.
LEMMA LearnIs ==
    ASSUME NEW s \in Streams, NEW c \in Calls, NEW r \in RoomIDs, Cleared(s, c)
    PROVE  /\ c \in Deciders(s, r) => (r \in Learn(s, c) <=> c.op \in Joining)
           /\ c \notin Deciders(s, r) => (r \in Learn(s, c) <=> r \in feed[s].rooms)
           /\ c.room \in RoomIDs
           /\ \A q \in Learn(s, c) : q \in feed[s].rooms \/ q = c.room
<1> DEFINE own == c.op \in {"addUser", "kickUser"} => c.user = s.user
<1>1. /\ c.op \in UserOps \cup RoomOps /\ c.room \in RoomIDs
      /\ c.op \in RoomOps => s.user \in ids[c]
  BY CallsAssumption DEF Cleared, IsListed
<1>2. /\ c.op \in Joining /\ own => Learn(s, c) = feed[s].rooms \cup {c.room}
      /\ c.op \in RoomOps \ Joining /\ own => Learn(s, c) = feed[s].rooms \ {c.room}
      /\ c.op \notin RoomOps \/ ~own => Learn(s, c) = feed[s].rooms
  <2>1. CASE c.op \in Joining
    BY <2>1 DEF Learn, Joining, RoomOps
  <2>2. CASE c.op \in RoomOps \ Joining
    BY <2>2 DEF Learn, Joining, RoomOps
  <2>3. CASE c.op \notin RoomOps
    BY <2>3 DEF Learn, Joining, RoomOps
  <2> QED
    BY <2>1, <2>2, <2>3
<1>3. c \in Deciders(s, r) <=> c.room = r /\ c.op \in RoomOps /\ own
  BY <1>1 DEF Deciders, Own
<1>4. c.op \in Joining => c.op \in RoomOps
  BY DEF Joining, RoomOps
<1> HIDE DEF own
<1> QED
  BY <1>1, <1>2, <1>3, <1>4

\* The handler sends the event, and the peer learns from it.
LEMMA SrvSendStep ==
    ASSUME FeedTypeOK, NEW s \in Streams,
           HeldOK(s, feed[s]), DueOK(s, feed[s]), SrvSend(s)
    PROVE  Follows(s, feed[s], feed'[s])
<1> DEFINE f == feed[s]
<1>1. /\ f \in Feed /\ f.svc = "write" /\ f.svcHeld \subseteq Calls
      /\ f.rooms \subseteq RoomIDs /\ feed \in [Streams -> Feed]
  BY FeedFields DEF FeedTypeOK, SrvSend
<1>2. PICK c \in f.svcHeld :
         feed'[s] = [f EXCEPT !.svc = "range", !.svcHeld = {},
                              !.due = @ \ {c}, !.rooms = Learn(s, c)]
  BY <1>1 DEF SrvSend, Becomes
<1> DEFINE g == [f EXCEPT !.svc = "range", !.svcHeld = {},
                          !.due = @ \ {c}, !.rooms = Learn(s, c)]
<1>3. HeldOK(s, f) /\ DueOK(s, f)
  OBVIOUS
<1>4. f.svcHeld = {c} /\ c \in Calls /\ Cleared(s, c)
  BY <1>1, <1>2, <1>3 DEF HeldOK, AtMostOne
<1>5. Learn(s, c) \subseteq RoomIDs
  <2>1. \A r \in RoomIDs : \A q \in Learn(s, c) : q \in f.rooms \/ q = c.room
    BY <1>4, LearnIs
  <2> QED
    BY <1>1, <1>4, <2>1, CallsAssumption
<1>6. /\ g \in Feed /\ g.svc = "range" /\ g.api = f.api
      /\ g.svcHeld = {} /\ g.apiHeld = f.apiHeld /\ g.cb = f.cb
      /\ g.pending = f.pending
      /\ g.due = f.due \ {c} /\ g.rooms = Learn(s, c) /\ g.asked = f.asked
  BY <1>1, <1>5 DEF Feed
<1>7. \A r \in RoomIDs :
         /\ c \in Deciders(s, r) => (r \in g.rooms <=> c.op \in Joining)
         /\ c \notin Deciders(s, r) => (r \in g.rooms <=> r \in f.rooms)
  BY <1>4, <1>6, LearnIs
<1> HIDE DEF f, g
<1>8. Transit(f) = Transit(g) \cup {c} /\ (Live(g) => Live(f))
  BY <1>1, <1>4, <1>6 DEF Transit, Live
<1>9. HeldOK(s, g)
  BY <1>3, <1>6, <1>8 DEF HeldOK, AtMostOne
<1>10. DueOK(s, g)
  BY <1>3, <1>6, <1>8 DEF DueOK
<1>11. ASSUME NEW r \in RoomIDs, Arrives(f, r, Deciders(s, r), RoomsOf(s.user))
       PROVE  Arrives(g, r, Deciders(s, r), RoomsOf(s.user))
  <2> DEFINE D == Deciders(s, r)
             home == RoomsOf(s.user)
  <2>1. ASSUME Transit(g) \cap D = {}, g.asked
        PROVE  r \in g.rooms <=> r \in home
    <3>1. CASE c \in D
      <4>1. (Queued(f.pending) \cup f.cb \cup f.apiHeld) \cap D = {}
        BY <1>6, <2>1 DEF Transit
      <4>2. Agrees(c, r, home)
        BY <1>4, <1>11, <3>1, <4>1 DEF Arrives, AllRight
      <4> QED
        BY <1>7, <3>1, <4>2 DEF Agrees
    <3>2. CASE c \notin D
      <4>1. Transit(f) \cap D = {}
        BY <1>8, <2>1, <3>2
      <4> QED
        BY <1>6, <1>7, <1>11, <2>1, <3>2, <4>1 DEF Arrives
    <3> QED
      BY <3>1, <3>2
  <2>2. AllRight(g.svcHeld, D, r, home)
    BY <1>6 DEF AllRight
  <2> HIDE DEF D, home
  <2>3. Arrives(f, r, D, home)
    BY <1>11 DEF D, home
  <2>4. Arrives(g, r, D, home)
    BY <1>6, <2>1, <2>2, <2>3 DEF Arrives
  <2> QED
    BY <2>4 DEF D, home
<1> QED
  BY <1>2, <1>6, <1>8, <1>9, <1>10, <1>11 DEF Follows, f, g

\* The handler returns, and its peer hears nothing more.
LEMMA ReturnStep ==
    ASSUME FeedTypeOK, NEW s \in Streams,
           HeldOK(s, feed[s]), DueOK(s, feed[s]), SrvSendFails(s) \/ Return(s)
    PROVE  Follows(s, feed[s], feed'[s])
<1> DEFINE f == feed[s]
           g == [f EXCEPT !.svc = "returned", !.svcHeld = {}, !.pending = <<>>]
<1>1. f \in Feed /\ feed \in [Streams -> Feed] /\ HeldOK(s, f)
  BY DEF FeedTypeOK
<1>2. feed'[s] = g
  <2>1. CASE SrvSendFails(s)
    BY <1>1, <2>1 DEF SrvSendFails, Becomes
  <2>2. CASE Return(s)
    <3>1. feed'[s] = [f EXCEPT !.svc = "returned", !.pending = <<>>] /\ f.svcHeld = {}
      BY <1>1, <2>2 DEF Return, Becomes, HeldOK
    <3> QED
      BY <1>1, <3>1 DEF Feed
  <2> QED
    BY <2>1, <2>2
<1>3. /\ g \in Feed /\ g.svc = "returned" /\ g.api = f.api
      /\ g.svcHeld = {} /\ g.apiHeld = f.apiHeld /\ g.cb = f.cb
      /\ g.pending = <<>> /\ g.due = f.due
  BY <1>1, EmptySeq DEF Feed
<1> HIDE DEF f, g
<1>4. Transit(g) \subseteq Transit(f) /\ ~Live(g)
  BY <1>3, NothingQueued DEF Transit, Live
<1>5. HeldOK(s, g)
  BY <1>1, <1>3, <1>4 DEF HeldOK, AtMostOne
<1> QED
  BY <1>2, <1>3, <1>4, <1>5 DEF Follows, DueOK

\* The steps of the peer and of the goroutines of its stream, but for a panic.
StreamSteps(s) == Peer(s) \/ Subscription(s) \/ TakeMessage(s) \/ Handler(s)

\* A stream changes nothing but itself, and goes on from where it was.
LEMMA StreamStep ==
    ASSUME ManagerInv, FeedTypeOK, OwedInv, NEW s \in Streams,
           HeldOK(s, feed[s]), DueOK(s, feed[s]), StreamSteps(s)
    PROVE  /\ UNCHANGED <<vars, owed, doubt>>
           /\ \E g \in Feed : feed' = [feed EXCEPT ![s] = g]
           /\ Follows(s, feed[s], feed'[s])
<1>1. \E g : Becomes(s, g)
  <2>1. CASE Receive(s)
    BY <2>1 DEF Receive
  <2>2. CASE Filter(s)
    BY <2>2 DEF Filter
  <2>3. CASE SrvSend(s)
    BY <2>3 DEF SrvSend
  <2> QED
    BY <2>1, <2>2, <2>3 DEF StreamSteps, Peer, Subscription, Handler, TakeMessage,
          Open, Ask, Leave, Authenticate, FilterFails, Forward, ContextDone,
          CloseEvents, CloseProto, SrvSendFails, Return
<1>2. Follows(s, feed[s], feed'[s])
  BY PeerSteps, LoopStep, TakeStep, ReceiveStep, FilterStep, ForwardStep,
     SrvSendStep, ReturnStep
     DEF StreamSteps, Subscription, Handler, LoopSteps, ManagerInv
<1>3. feed \in [Streams -> Feed]
  BY DEF FeedTypeOK
<1> QED
  BY <1>1, <1>2, <1>3 DEF Becomes, Follows

-----------------------------------------------------------------------------
(* The steps of the manager.                                               *)

\* Streams leave the manager alone, and what happens to it are its own steps.
LEMMA FeedStep == [FeedNext]_feedVars => [Next]_vars
<1>1. ASSUME NEW s \in Streams, NEW g, Becomes(s, g)
      PROVE  UNCHANGED vars
  BY <1>1 DEF Becomes
<1>2. ASSUME NEW s \in Streams, StreamSteps(s)
      PROVE  UNCHANGED vars
  <2>1. CASE Receive(s)
    BY <1>1, <2>1 DEF Receive
  <2>2. CASE Filter(s)
    BY <1>1, <2>2 DEF Filter
  <2>3. CASE SrvSend(s)
    BY <1>1, <2>3 DEF SrvSend
  <2> QED
    BY <1>1, <1>2, <2>1, <2>2, <2>3 DEF StreamSteps, Peer, Subscription, Handler,
          TakeMessage, Open, Ask, Leave, Authenticate, FilterFails, Forward,
          ContextDone, CloseEvents, CloseProto, SrvSendFails, Return
<1>3. Down => [Next]_vars
  BY DEF Down, Next
<1>4. ASSUME NEW c \in Calls, Manage(c) \/ Announce(c)
      PROVE  Next
  BY <1>4 DEF Manage, Announce, Next
<1> QED
  BY <1>2, <1>3, <1>4 DEF FeedNext, feedVars, StreamSteps, Callback, SendOnClosed

\* Any step of the manager, with what becomes of the streams.
ManagerSteps ==
    \/ UNCHANGED feed
    \/ \E c \in pub : Enqueue(c)
    \/ Down

\* A step is one of a stream, one of the manager, or none.
LEMMA FeedSteps ==
    ASSUME [FeedNext]_feedVars
    PROVE  \/ \E s \in Streams : StreamSteps(s)
           \/ ManagerSteps /\ Owe
           \/ UNCHANGED feedVars
<1>1. ASSUME NEW c \in Calls, Manage(c) \/ Announce(c)
      PROVE  ManagerSteps /\ Owe
  BY <1>1 DEF Manage, Announce, Publish, ManagerSteps
<1>2. Down => ManagerSteps /\ Owe
  BY DEF Down, ManagerSteps
<1> QED
  BY <1>1, <1>2 DEF FeedNext, StreamSteps, Callback, SendOnClosed

\* What a step owes to whom.
LEMMA OweIs ==
    ASSUME Owe, NEW k \in Calls
    PROVE  /\ owed'[k] \subseteq Sharers(k)'
           /\ owed'[k] \subseteq owed[k] \/ (pc'[k] = "load" /\ pc[k] # "load")
<1>1. CASE pc'[k] = "load" /\ pc[k] # "load"
  BY <1>1 DEF Owe
<1>2. CASE ~(pc'[k] = "load" /\ pc[k] # "load")
  <2>1. owed'[k] = {} \/ owed'[k] = owed[k] \cap Sharers(k)'
    BY <1>2 DEF Owe
  <2> QED
    BY <2>1
<1> QED
  BY <1>1, <1>2

\* Only calls about rooms have somebody they concern by themselves.
LEMMA AudienceStays ==
    ASSUME TypeOK, StageInv, OrderInv, [Next]_vars, NEW k \in Calls,
           k.op \in UserOps, audience[k] = {}
    PROVE  audience'[k] = {}
<1>1. audience \in [Calls -> SUBSET UserIDs] /\ k.op \notin RoomOps
  BY DEF TypeOK, UserOps, RoomOps
<1>2. ASSUME NEW c \in Calls, Find(c)
      PROVE  audience'[k] = {}
  BY <1>2, FindShape
<1>3. ASSUME NEW c \in Calls, DeleteUser(c) \/ DeleteRoom(c) \/ DeleteMember(c)
      PROVE  audience'[k] = {}
  <2>1. c = k => DeleteUser(c)
    BY <1>1, <1>3 DEF DeleteRoom, DeleteMember, Writes, RoomOps
  <2>2. CASE DeleteUser(c)
    BY <1>1, <2>2 DEF DeleteUser
  <2>3. CASE DeleteRoom(c) \/ DeleteMember(c)
    <3>1. CASE c = k
      BY <2>1, <2>2, <3>1
    <3>2. CASE c # k
      BY <1>1, <2>3, <3>2 DEF DeleteRoom, DeleteMember
    <3> QED
      BY <3>1, <3>2
  <2> QED
    BY <1>3, <2>2, <2>3
<1>4. ASSUME NEW c \in Calls, NEW u \in UserIDs, AppendMember(c, u)
      PROVE  audience'[k] = {}
  <2>1. c # k
    BY <1>1, <1>4 DEF AppendMember, StageInv, RoomOps
  <2> QED
    BY <1>1, <1>4, <2>1 DEF AppendMember
<1>5. ASSUME NEW c \in Calls, Proceed(c), ~Write(c)
      PROVE  audience' = audience
  BY <1>5 DEF Proceed, FindUsers, FindUser, Prepare, LoadUser, LoadRoom,
        Reload, Loads, Send, StatementFails, OnlyGoto, histVars
<1>6. ASSUME NEW c \in Calls,
             \/ InsertUser(c) \/ SaveUser(c) \/ InsertRoom(c) \/ SaveRoom(c)
             \/ AppendDone(c)
      PROVE  audience' = audience
  BY <1>6 DEF InsertUser, SaveUser, InsertRoom, SaveRoom, AppendDone, Refused,
        OnlyGoto, histVars
<1>7. ASSUME NEW c \in Calls, Publish(c)
      PROVE  audience' = audience
  BY <1>7 DEF Publish, histVars
<1>8. Crash \/ UNCHANGED vars => audience' = audience
  BY DEF Crash, vars, histVars
<1> QED
  BY <1>2, <1>3, <1>4, <1>5, <1>6, <1>7, <1>8 DEF Next, Proceed, Write

\* Who is owed an announcement is among those it is made from.
LEMMA LoadsOwed ==
    ASSUME TypeOK, NEW k \in Calls, Prepare(k), pc[k] = "load", pc'[k] = "send",
           NEW p \in Sharers(k)
    PROVE  IF k.op \in RoomOps THEN p[2] \in ids'[k] ELSE p[1] \in ids'[k]
<1>1. /\ pc \in [Calls -> Stage] /\ ids \in [Calls -> SUBSET (RoomIDs \cup UserIDs)]
      /\ k.op \in UserOps \cup RoomOps
      /\ p \in members /\ p[1] \in rooms /\ p[2] \in users
      /\ IF k.op \in RoomOps THEN p[1] = k.room ELSE <<p[1], k.user>> \in members
  BY CallsAssumption DEF TypeOK, Sharers
<1>2. p = <<p[1], p[2]>>
  BY <1>1 DEF TypeOK
<1>3. CASE LoadUser(k)
  <2>1. k.op \notin RoomOps /\ ids'[k] = RoomsOf(k.user)
    BY <1>1, <1>3 DEF LoadUser, Loads, RoomsListed, UserOps, RoomOps
  <2> QED
    BY <1>1, <2>1 DEF RoomsOf
<1>4. CASE LoadRoom(k)
  <2>1. k.op \in RoomOps /\ ids'[k] = MembersOf(k.room)
    BY <1>1, <1>4 DEF LoadRoom, Loads, MembersListed, RoomOps
  <2> QED
    BY <1>1, <1>2, <2>1 DEF MembersOf
<1>5. CASE Reload(k)
  <2>1. k.op \in RoomOps /\ MembersOf(k.room) \subseteq ids'[k]
    BY <1>1, <1>5 DEF Reload, Loads, OnlyGoto, Goto, RoomOps
  <2> QED
    BY <1>1, <1>2, <2>1 DEF MembersOf
<1>6. ~Send(k)
  BY DEF Send
<1> QED
  BY <1>3, <1>4, <1>5, <1>6 DEF Prepare

\* What a call loads and sends on is loaded once.
LEMMA SendShape ==
    ASSUME TypeOK, OrderInv, [Next]_vars, NEW k \in Calls, pc'[k] \in {"send", "done"}
    PROVE  \/ pc[k] \in {"send", "done"} /\ ids'[k] = ids[k]
           \/ Prepare(k) /\ pc[k] = "load" /\ pc'[k] = "send"
<1>1. pc \in [Calls -> Stage] /\ ids \in [Calls -> SUBSET (RoomIDs \cup UserIDs)]
  BY DEF TypeOK
<1>2. ASSUME NEW c \in Calls, Find(c)
      PROVE  pc[k] \in {"send", "done"} /\ ids'[k] = ids[k]
  BY <1>2, FindShape
<1>3. ASSUME NEW c \in Calls, Proceed(c)
      PROVE  \/ pc[k] \in {"send", "done"} /\ ids'[k] = ids[k]
             \/ Prepare(k) /\ pc[k] = "load" /\ pc'[k] = "send"
  <2>1. CASE k # c
    BY <1>3, <2>1, ProceedShape
  <2>2. CASE k = c /\ pc'[k] = "send"
    BY <1>3, <2>2, ProceedShape
  <2>3. CASE k = c /\ pc'[k] = "done"
    <3>1. Send(c)
      BY <1>3, <2>3, ProceedShape
    <3> QED
      BY <2>3, <3>1 DEF Send
  <2> QED
    BY <2>1, <2>2, <2>3
<1>4. ASSUME NEW c \in Calls, Publish(c)
      PROVE  UNCHANGED <<pc, ids>>
  BY <1>4 DEF Publish, callVars
<1>5. CASE Crash
  BY <1>5 DEF Crash, InFlight
<1>6. UNCHANGED vars => UNCHANGED <<pc, ids>>
  BY DEF vars, callVars
<1> QED
  BY <1>2, <1>3, <1>4, <1>5, <1>6 DEF Next

\* Who is owed an announcement remains listed in it.
LEMMA OwedStep ==
    ASSUME TypeOK, StageInv, OrderInv, FeedTypeOK, OwedInv, [Next]_vars, Owe
    PROVE  OwedInv'
<1> SUFFICES ASSUME NEW k \in Calls
             PROVE  /\ owed'[k] \subseteq Sharers(k)'
                    /\ k.op \in UserOps => audience'[k] = {}
                    /\ pc'[k] \in {"send", "done"} =>
                          \A p \in owed'[k] : IF k.op \in RoomOps THEN p[2] \in ids'[k]
                                                                  ELSE p[1] \in ids'[k]
  BY DEF OwedInv, UserOps
<1>1. owed'[k] \subseteq Sharers(k)'
  BY OweIs
<1>2. k.op \in UserOps => audience'[k] = {}
  BY AudienceStays DEF OwedInv
<1>3. ASSUME pc'[k] \in {"send", "done"}, NEW p \in owed'[k]
      PROVE  IF k.op \in RoomOps THEN p[2] \in ids'[k] ELSE p[1] \in ids'[k]
  <2>1. p \in owed[k] /\ p \in Sharers(k)
    BY <1>3, OweIs DEF OwedInv
  <2>2. CASE pc[k] \in {"send", "done"} /\ ids'[k] = ids[k]
    BY <2>1, <2>2 DEF OwedInv
  <2>3. CASE Prepare(k) /\ pc[k] = "load" /\ pc'[k] = "send"
    BY <2>1, <2>3, LoadsOwed
  <2> QED
    BY <1>3, <2>2, <2>3, SendShape
<1> QED
  BY <1>1, <1>2, <1>3

\* What the manager does to the streams.
LEMMA ManagerMoves ==
    ASSUME FeedTypeOK, TypeOK, OrderInv, NEW s \in Streams, ManagerSteps,
           HeldOK(s, feed[s]), DueOK(s, feed[s])
    PROVE  feed'[s] \in Feed /\ HeldOK(s, feed'[s]) /\ DueOK(s, feed'[s])
<1> DEFINE f == feed[s]
<1>1. f \in Feed /\ f.pending \in Seq(Calls) /\ f.due \subseteq Calls
  BY FeedFields DEF FeedTypeOK
<1>2. CASE UNCHANGED feed
  BY <1>1, <1>2
<1>3. ASSUME NEW c \in pub, Enqueue(c)
      PROVE  f' \in Feed /\ HeldOK(s, f') /\ DueOK(s, f')
  <2>1. c \in Calls /\ pc[c] = "done"
    BY DEF TypeOK, OrderInv
  <2>2. CASE ~(Subscribed(s) /\ HasRoom(s))
    BY <1>1, <1>3, <2>2 DEF Enqueue
  <2>3. CASE Subscribed(s) /\ HasRoom(s)
    <3> DEFINE g == [f EXCEPT !.pending = Append(f.pending, c), !.due = f.due \cup {c}]
    <3>1. f' = g /\ f.svc # "idle"
      BY <1>1, <1>3, <2>3 DEF Enqueue, Subscribed
    <3>2. /\ Append(f.pending, c) \in Seq(Calls)
          /\ Queued(Append(f.pending, c)) = Queued(f.pending) \cup {c}
      BY <1>1, <2>1, AppendQueue
    <3>3. /\ g \in Feed /\ g.svc = f.svc /\ g.api = f.api
          /\ g.svcHeld = f.svcHeld /\ g.apiHeld = f.apiHeld /\ g.cb = f.cb
          /\ g.pending = Append(f.pending, c) /\ g.due = f.due \cup {c}
      BY <1>1, <2>1, <3>2 DEF Feed
    <3>4. HeldOK(s, f) /\ DueOK(s, f)
      OBVIOUS
    <3> HIDE DEF f, g
    <3>5. Transit(g) = Transit(f) \cup {c}
      BY <3>2, <3>3 DEF Transit
    <3>6. HeldOK(s, g)
      BY <2>1, <3>1, <3>3, <3>4, <3>5 DEF HeldOK
    <3>7. DueOK(s, g)
      BY <3>3, <3>4, <3>5 DEF DueOK, Live
    <3> QED
      BY <3>1, <3>3, <3>6, <3>7
  <2> QED
    BY <2>2, <2>3
<1>4. CASE Down
  <2> DEFINE g == [NoFeed EXCEPT !.svc = "returned", !.api = "done"]
  <2>1. f' = NoFeed \/ f' = g
    BY <1>4 DEF Down
  <2>2. /\ g \in Feed /\ g.svc = "returned" /\ g.api = "done"
        /\ g.svcHeld = {} /\ g.apiHeld = {} /\ g.cb = {} /\ g.pending = <<>>
        /\ g.due = {}
    BY NoFeedFields DEF Feed
  <2> HIDE DEF g
  <2>3. Transit(g) = {} /\ Transit(NoFeed) = {}
    BY <2>2, NoFeedFields, NothingQueued DEF Transit
  <2>4. HeldOK(s, g) /\ HeldOK(s, NoFeed)
    BY <2>2, <2>3, NoFeedFields DEF HeldOK, AtMostOne
  <2>5. DueOK(s, g) /\ DueOK(s, NoFeed)
    BY <2>2, NoFeedFields DEF DueOK
  <2> QED
    BY <2>1, <2>2, <2>4, <2>5, NoFeedFields
<1> QED
  BY <1>2, <1>3, <1>4 DEF ManagerSteps

\* Calls that have returned stay as they are, and so does what streams hold.
LEMMA HeldStays ==
    ASSUME TypeOK, OrderInv, [Next]_vars, NEW s \in Streams, feed'[s] \in Feed,
           HeldOK(s, feed'[s])
    PROVE  HeldOK(s, feed[s])'
<1> DEFINE g == feed'[s]
<1>1. /\ g.svcHeld \subseteq Calls /\ g.apiHeld \subseteq Calls /\ g.due \subseteq Calls
      /\ Transit(g) \subseteq Calls
  <2>1. /\ g.svcHeld \subseteq Calls /\ g.apiHeld \subseteq Calls /\ g.due \subseteq Calls
        /\ g.cb \subseteq Calls /\ g.pending \in Seq(Calls)
    BY FeedFields
  <2>2. Queued(g.pending) \subseteq Calls
    BY <2>1, ElementOfSeq, LenProperties DEF Queued
  <2> QED
    BY <2>1, <2>2 DEF Transit
<1>2. \A c \in Calls : pc[c] = "done" => pc'[c] = "done" /\ ids'[c] = ids[c]
  BY DoneStays
<1>3. HeldOK(s, g)
  OBVIOUS
<1>4. Transit(feed[s])' = Transit(g)
  BY DEF Transit, Queued
<1> HIDE DEF g
<1>5. \A c \in Transit(g) \cup g.due : pc[c] = "done" /\ pc'[c] = "done" /\ ids'[c] = ids[c]
  BY <1>1, <1>2, <1>3 DEF HeldOK
<1>6. \A c \in g.svcHeld \cup g.apiHeld : Cleared(s, c) => Cleared(s, c)'
  BY <1>5 DEF Transit, Cleared, IsListed
<1> QED
  BY <1>3, <1>4, <1>5, <1>6 DEF HeldOK, AtMostOne, g

\* Of what was queued, no more concerns the peer than did.
LEMMA DueStays ==
    ASSUME TypeOK, OrderInv, [Next]_vars, NEW s \in Streams, feed'[s] \in Feed,
           HeldOK(s, feed'[s]), DueOK(s, feed'[s]),
           \A k \in Calls : pc[k] = "done" => owed'[k] \subseteq owed[k]
    PROVE  DueOK(s, feed[s])'
<1> DEFINE g == feed'[s]
<1>1. g.due \subseteq Calls
  BY FeedFields
<1>2. \A c \in g.due : pc[c] = "done"
  BY DEF HeldOK
<1>3. \A c \in g.due : Concerned(c)' \subseteq Concerned(c)
  <2>1. \A c \in Calls : pc[c] = "done" =>
           audience'[c] \subseteq audience[c] /\ owed'[c] \subseteq owed[c]
    BY DoneStays
  <2> QED
    BY <1>1, <1>2, <2>1 DEF Concerned
<1>4. DueOK(s, g)
  OBVIOUS
<1>5. Transit(feed[s])' = Transit(g)
  BY DEF Transit, Queued
<1> HIDE DEF g
<1> QED
  BY <1>3, <1>4, <1>5 DEF DueOK, Live, g

\* Doubts are about pairs, and stay.
LEMMA DoubtStays ==
    ASSUME FeedTypeOK, TypeOK, [FeedNext]_feedVars
    PROVE  doubt \subseteq doubt' /\ doubt' \subseteq Pairs
<1>1. doubt \subseteq Pairs /\ pub \subseteq Calls /\ UnderWay \subseteq Calls
  BY DEF FeedTypeOK, TypeOK, UnderWay, InFlight
<1>2. \A c \in Calls : Scope(c) \subseteq Pairs /\ Untold(c) \subseteq Pairs
  BY CallsAssumption DEF Scope, Untold, Pairs
<1>3. ASSUME NEW pairs \in SUBSET Pairs, Doubt(pairs)
      PROVE  doubt \subseteq doubt' /\ doubt' \subseteq Pairs
  BY <1>1, <1>3 DEF Doubt
<1>4. ASSUME NEW s \in Streams, StreamSteps(s)
      PROVE  doubt' = doubt
  <2>1. CASE Receive(s)
    BY <2>1 DEF Receive, Becomes
  <2>2. CASE Filter(s)
    BY <2>2 DEF Filter, Becomes
  <2>3. CASE SrvSend(s)
    BY <2>3 DEF SrvSend, Becomes
  <2> QED
    BY <1>4, <2>1, <2>2, <2>3 DEF StreamSteps, Peer, Subscription, Handler,
          TakeMessage, Open, Ask, Leave, Authenticate, FilterFails, Forward,
          ContextDone, CloseEvents, CloseProto, SrvSendFails, Return, Becomes
<1>5. ASSUME NEW c \in Calls, Manage(c)
      PROVE  doubt \subseteq doubt' /\ doubt' \subseteq Pairs
  <2>1. CASE Begin(c)
    <3>1. (IF c.op = "removeUser" THEN Scope(c)
           ELSE Scope(c) \cap UNION {Scope(d) : d \in Rivals(c)}) \in SUBSET Pairs
      BY <1>2
    <3> QED
      BY <1>3, <2>1, <3>1 DEF Begin
  <2>2. CASE Doubt(IF pc'[c] = "failed" THEN Untold(c) ELSE {})
    BY <1>2, <1>3, <2>2
  <2> QED
    BY <1>5, <2>1, <2>2 DEF Manage
<1>6. ASSUME NEW c \in Calls, Announce(c)
      PROVE  doubt \subseteq doubt' /\ doubt' \subseteq Pairs
  <2>1. CASE Doubt(IF \E s \in Streams : Subscribed(s) /\ ~HasRoom(s)
                   THEN Scope(c) ELSE {})
    BY <1>2, <1>3, <2>1
  <2>2. CASE Doubt(Untold(c))
    BY <1>2, <1>3, <2>2
  <2> QED
    BY <1>6, <2>1, <2>2 DEF Announce
<1>7. CASE Down
  <2>1. UNION {Untold(c) : c \in UnderWay} \in SUBSET Pairs
    BY <1>1, <1>2
  <2> QED
    BY <1>3, <1>7, <2>1 DEF Down
<1>8. UNCHANGED feedVars => doubt' = doubt
  BY DEF feedVars
<1> QED
  BY <1>1, <1>4, <1>5, <1>6, <1>7, <1>8 DEF FeedNext, StreamSteps, Callback,
        SendOnClosed

\* The parts of the invariant about streams, for a step of any kind.
LEMMA FeedInvStep ==
    ASSUME ManagerInv, FeedInv, [FeedNext]_feedVars
    PROVE  FeedInv'
<1>1. /\ TypeOK /\ StageInv /\ FeedTypeOK /\ OrderInv /\ OwedInv
      /\ \A s \in Streams : HeldOK(s, feed[s]) /\ DueOK(s, feed[s])
      /\ [Next]_vars
  BY FeedStep DEF ManagerInv, FeedInv, StreamInv
<1>2. TypeOK' /\ OrderInv'
  BY <1>1, TypeStep, OrderStep
<1>3. doubt' \in SUBSET Pairs
  BY <1>1, DoubtStays
<1>4. ASSUME NEW s \in Streams, StreamSteps(s)
      PROVE  FeedInv'
  <2>1. /\ UNCHANGED <<vars, owed, doubt>>
        /\ \E g \in Feed : feed' = [feed EXCEPT ![s] = g]
        /\ Follows(s, feed[s], feed'[s])
    BY <1>1, <1>4, StreamStep
  <2>2. \A t \in Streams : feed'[t] \in Feed /\ HeldOK(t, feed'[t]) /\ DueOK(t, feed'[t])
    <3>1. ASSUME NEW t \in Streams, t # s
          PROVE  feed'[t] = feed[t] /\ feed[t] \in Feed
      BY <1>1, <2>1, <3>1 DEF FeedTypeOK
    <3>2. ASSUME NEW t \in Streams, t # s
          PROVE  feed'[t] \in Feed /\ HeldOK(t, feed'[t]) /\ DueOK(t, feed'[t])
      BY <1>1, <3>1, <3>2
    <3> QED
      BY <2>1, <3>2 DEF Follows
  <2>3. FeedTypeOK'
    BY <1>1, <1>3, <2>1 DEF FeedTypeOK, Pairs, Feed
  <2>4. OwedInv'
    <3>1. UNCHANGED <<users, rooms, members, pc, ids, audience, owed>>
      BY <2>1 DEF vars, dbVars, callVars, histVars
    <3> QED
      BY <1>1, <3>1 DEF OwedInv, Sharers
  <2>5. StreamInv'
    BY <1>1, <2>1, <2>2, HeldStays, DueStays DEF StreamInv
  <2> QED
    BY <1>2, <2>3, <2>4, <2>5 DEF FeedInv
<1>5. CASE ManagerSteps /\ Owe
  <2>1. \A s \in Streams :
           feed'[s] \in Feed /\ HeldOK(s, feed'[s]) /\ DueOK(s, feed'[s])
    BY <1>1, <1>5, ManagerMoves
  <2>2. feed' \in [Streams -> Feed]
    <3>1. feed' = [s \in Streams |-> feed'[s]]
      BY <1>1, <1>5 DEF ManagerSteps, Enqueue, Down, FeedTypeOK
    <3> QED
      BY <2>1, <3>1
  <2>3. owed' \in [Calls -> SUBSET Pairs]
    <3>1. owed' = [c \in Calls |-> owed'[c]]
      BY <1>5 DEF Owe
    <3>2. \A c \in Calls : owed'[c] \subseteq Pairs
      BY <1>2, <1>5, OweIs DEF Sharers, TypeOK, Pairs
    <3> QED
      BY <3>1, <3>2
  <2>4. FeedTypeOK'
    BY <1>3, <2>2, <2>3 DEF FeedTypeOK, Feed, Pairs
  <2>5. OwedInv'
    BY <1>1, <1>5, OwedStep
  <2>6. \A k \in Calls : pc[k] = "done" => owed'[k] \subseteq owed[k]
    <3>1. \A k \in Calls : pc[k] = "done" => pc'[k] = "done"
      BY <1>1, DoneStays
    <3> QED
      BY <1>5, <3>1, OweIs
  <2>7. StreamInv'
    BY <1>1, <2>1, <2>6, HeldStays, DueStays DEF StreamInv
  <2> QED
    BY <1>2, <2>4, <2>5, <2>7 DEF FeedInv
<1>6. CASE UNCHANGED feedVars
  <2>1. UNCHANGED <<vars, feed, owed, doubt>>
    BY <1>6 DEF feedVars
  <2>2. UNCHANGED <<users, rooms, members, pc, ids, audience>>
    BY <2>1 DEF vars, dbVars, callVars, histVars
  <2>3. FeedTypeOK' /\ OwedInv'
    BY <1>1, <2>1, <2>2 DEF FeedTypeOK, OwedInv, Sharers, Feed, Pairs
  <2>4. \A s \in Streams : feed'[s] \in Feed
    BY <1>1, <2>1 DEF FeedTypeOK
  <2>5. StreamInv'
    BY <1>1, <2>1, <2>4, HeldStays, DueStays DEF StreamInv
  <2> QED
    BY <1>2, <2>3, <2>5 DEF FeedInv
<1> QED
  BY <1>4, <1>5, <1>6, FeedSteps

-----------------------------------------------------------------------------
(* What a peer is told.                                                    *)

\* At first no stream is open, and nobody is owed anything.
LEMMA InitFeedInv == FeedInit => ManagerInv /\ FeedInv
<1> SUFFICES ASSUME FeedInit
             PROVE  ManagerInv /\ FeedInv
  OBVIOUS
<1>1. ManagerInv
  BY InitManagerInv DEF FeedInit
<1>2. /\ \A c \in Calls : pc[c] = "idle" /\ owed[c] = {} /\ audience[c] = {}
      /\ written = {} /\ pub = {} /\ doubt = {}
      /\ \A s \in Streams : feed[s] = NoFeed
  BY DEF FeedInit, Init
<1>3. FeedTypeOK
  BY NoFeedFields DEF FeedInit, FeedTypeOK
<1>4. OrderInv /\ OwedInv
  BY <1>2 DEF OrderInv, OwedInv
<1>5. Transit(NoFeed) = {}
  BY NoFeedFields, NothingQueued DEF Transit
<1>6. \A s \in Streams : HeldOK(s, NoFeed) /\ DueOK(s, NoFeed)
  BY <1>5, NoFeedFields DEF HeldOK, DueOK, AtMostOne
<1>7. StreamInv
  BY <1>2, <1>6 DEF StreamInv
<1> QED
  BY <1>1, <1>3, <1>4, <1>7 DEF FeedInv

\* The streams' parts of the invariant, with those of the manager.
THEOREM FeedInvariant == FeedSpec => [](ManagerInv /\ FeedInv)
<1>1. ManagerInv /\ FeedInv /\ [FeedNext]_feedVars => (ManagerInv /\ FeedInv)'
  <2> SUFFICES ASSUME ManagerInv, FeedInv, [FeedNext]_feedVars
               PROVE  (ManagerInv /\ FeedInv)'
    OBVIOUS
  <2>1. ManagerInv'
    BY FeedStep, TypeStep, StageStep, AudienceStep, GroundStep DEF ManagerInv
  <2> QED
    BY <2>1, FeedInvStep
<1> QED
  BY <1>1, InitFeedInv, PTL DEF FeedSpec

\* A stream that waits for the next event is one the peer hears from, and
\* nothing is on its way through it.
LEMMA SettledIs ==
    ASSUME NEW s \in Streams, HeldOK(s, feed[s]), Settled(s)
    PROVE  Live(feed[s]) /\ Transit(feed[s]) = {}
BY NothingQueued DEF HeldOK, Settled, Live, Transit

\* Whatever is queued for a stream, and not lost with a query that failed, is
\* sent on, or is of no concern to the peer: who was created into, put into,
\* kicked from or destroyed with a room hears of it, and so does who shares a
\* room with a user whose profile is changed, or who is removed.
THEOREM NothingIsMissed == FeedSpec => []NothingMissed
<1>1. FeedInv => NothingMissed
  BY SettledIs DEF FeedInv, StreamInv, DueOK, NothingMissed
<1> QED
  BY <1>1, FeedInvariant, PTL

-----------------------------------------------------------------------------
(* What leaves no doubt.                                                   *)

\* Steps of the streams change nothing the manager has, and leave no doubt.
LEMMA StreamIsQuiet ==
    ASSUME NEW s \in Streams, StreamSteps(s)
    PROVE  UNCHANGED <<vars, doubt>>
<1>1. CASE Receive(s)
  BY <1>1 DEF Receive, Becomes
<1>2. CASE Filter(s)
  BY <1>2 DEF Filter, Becomes
<1>3. CASE SrvSend(s)
  BY <1>3 DEF SrvSend, Becomes
<1> QED
  BY <1>1, <1>2, <1>3 DEF StreamSteps, Peer, Subscription, Handler,
        TakeMessage, Open, Ask, Leave, Authenticate, FilterFails, Forward,
        ContextDone, CloseEvents, CloseProto, SrvSendFails, Return, Becomes

\* The kinds of steps.
LEMMA PeerCases ==
    ASSUME [FeedNext]_feedVars
    PROVE  \/ \E c \in Calls : Find(c) /\ Begin(c) /\ UNCHANGED feed
           \/ \E c \in Calls : /\ Proceed(c) /\ UNCHANGED feed
                               /\ Doubt(IF pc'[c] = "failed" THEN Untold(c) ELSE {})
           \/ \E c \in Calls : Announce(c)
           \/ Down /\ (Crash \/ UNCHANGED vars)
           \/ UNCHANGED <<vars, doubt>> /\ ((\E s \in Streams : StreamSteps(s))
                                            \/ UNCHANGED feed)
<1>1. Down => Crash \/ UNCHANGED vars
  BY DEF Down
<1>2. \A s \in Streams : StreamSteps(s) => UNCHANGED <<vars, doubt>>
  BY StreamIsQuiet
<1> QED
  BY <1>1, <1>2 DEF FeedNext, feedVars, StreamSteps, Callback, SendOnClosed, Manage

\* A step in which no call begins.
LEMMA PeerOnward ==
    ASSUME [FeedNext]_feedVars
    PROVE  \/ \E c \in Calls : Find(c) /\ Begin(c)
           \/ \E c \in Calls : Proceed(c) \/ Publish(c)
           \/ Crash
           \/ UNCHANGED vars
BY PeerCases DEF Announce

\* Whoever begins beside a rival, or to remove a user, leaves doubt.
LEMMA DoubtStep ==
    ASSUME TypeOK, OrderInv, FeedTypeOK, DoubtInv, [FeedNext]_feedVars
    PROVE  DoubtInv'
<1>1. doubt \subseteq doubt' /\ UnderWay \subseteq Calls /\ UnderWay' \subseteq Calls
  <2>1. TypeOK'
    BY FeedStep, TypeStep
  <2> QED
    BY <2>1, DoubtStays DEF TypeOK, UnderWay, InFlight
<1>2. CASE \/ \E c \in Calls : Proceed(c) \/ Publish(c)
           \/ Crash
           \/ UNCHANGED vars
  <2>1. ASSUME NEW d \in UnderWay', NEW e \in UnderWay', Overlap(d, e)'
        PROVE  Scope(d) \cap Scope(e) \subseteq doubt'
    <3>1. d \in UnderWay /\ e \in UnderWay /\ Overlap(d, e)
      BY <1>2, <2>1, OnwardShape DEF Overlap, Publisher
    <3> QED
      BY <1>1, <3>1 DEF DoubtInv
  <2>2. \A c \in Calls : pc'[c] # "idle" => pc[c] # "idle"
    <3>1. pc \in [Calls -> Stage]
      BY DEF TypeOK
    <3>2. ASSUME NEW c \in Calls, Proceed(c)
          PROVE  \A k \in Calls : pc'[k] # "idle" => pc[k] # "idle"
      BY <3>2, ProceedShape DEF InFlight
    <3>3. \A c \in Calls : Publish(c) => pc' = pc
      BY DEF Publish, callVars
    <3>4. Crash => \A k \in Calls : pc'[k] # "idle" => pc[k] # "idle"
      BY DEF Crash, InFlight
    <3>5. UNCHANGED vars => pc' = pc
      BY DEF vars, callVars
    <3> QED
      BY <1>2, <3>2, <3>3, <3>4, <3>5
  <2>3. ASSUME NEW c \in Calls, c.op = "removeUser", pc'[c] # "idle"
        PROVE  Scope(c) \subseteq doubt'
    BY <1>1, <2>2, <2>3 DEF DoubtInv
  <2> QED
    BY <2>1, <2>3 DEF DoubtInv, Scope
<1>3. ASSUME NEW c \in Calls, Find(c), Begin(c)
      PROVE  DoubtInv'
  <2>1. /\ c \notin pub /\ c \notin InFlight /\ pub' = pub
        /\ InFlight' \subseteq InFlight \cup {c}
        /\ \A k \in Calls \ {c} : pc'[k] = pc[k]
    BY <1>3, FindShape DEF InFlight
  <2>2. /\ c.op = "removeUser" => Scope(c) \subseteq doubt'
        /\ \A d \in Rivals(c) : Scope(c) \cap Scope(d) \subseteq doubt'
    BY <1>3 DEF Begin, Doubt
  <2>3. ASSUME NEW d \in UnderWay', NEW e \in UnderWay', Overlap(d, e)'
        PROVE  Scope(d) \cap Scope(e) \subseteq doubt'
    <3>1. /\ d # e /\ d \in Calls /\ e \in Calls
          /\ {d, e} \subseteq InFlight' \/ Publisher(d) # Publisher(e)
      BY <1>1, <2>3 DEF Overlap, Publisher
    <3>2. CASE d = c
      <4>1. e \in Rivals(c)
        BY <2>1, <3>1, <3>2 DEF Rivals, UnderWay
      <4> QED
        BY <2>2, <3>2, <4>1
    <3>3. CASE e = c
      <4>1. d \in Rivals(c)
        BY <2>1, <3>1, <3>3 DEF Rivals, UnderWay
      <4> QED
        BY <2>2, <3>3, <4>1
    <3>4. CASE d # c /\ e # c
      <4>1. d \in UnderWay /\ e \in UnderWay /\ Overlap(d, e)
        BY <2>1, <3>1, <3>4 DEF Overlap, UnderWay
      <4> QED
        BY <1>1, <4>1 DEF DoubtInv
    <3> QED
      BY <3>2, <3>3, <3>4
  <2>4. ASSUME NEW k \in Calls, k.op = "removeUser", pc'[k] # "idle"
        PROVE  Scope(k) \subseteq doubt'
    <3>1. CASE k = c
      BY <2>2, <2>4, <3>1
    <3>2. CASE k # c
      BY <1>1, <2>1, <2>4, <3>2 DEF DoubtInv
    <3> QED
      BY <3>1, <3>2
  <2> QED
    BY <2>3, <2>4 DEF DoubtInv, Scope
<1> QED
  BY <1>2, <1>3, PeerOnward

\* A user's row goes only with a removal, of which there is doubt.
LEMMA UsersStay ==
    ASSUME TypeOK, OrderInv, DoubtInv, [Next]_vars, NEW u \in users,
           NEW r \in RoomIDs, <<r, u>> \notin doubt
    PROVE  u \in users'
<1>1. ASSUME NEW c \in Calls, DeleteUser(c)
      PROVE  u \in users'
  <2>1. c.op = "removeUser" /\ pc[c] = "write" /\ users' = users \ {c.user}
    BY <1>1 DEF DeleteUser, Writes
  <2>2. Scope(c) \subseteq doubt
    BY <2>1 DEF DoubtInv
  <2>3. <<r, c.user>> \in Scope(c)
    BY <2>1 DEF Scope, UserOps
  <2> QED
    BY <2>1, <2>2, <2>3
<1>2. ASSUME NEW c \in Calls, Write(c), ~DeleteUser(c)
      PROVE  users \subseteq users'
  BY <1>2 DEF Write, InsertUser, SaveUser, InsertRoom, SaveRoom, DeleteRoom,
        DeleteMember, AppendMember, AppendDone, Refused, OnlyGoto, dbVars
<1>3. ASSUME NEW c \in Calls, Proceed(c), ~Write(c)
      PROVE  users' = users
  BY <1>3 DEF Proceed, FindUsers, FindUser, Prepare, LoadUser, LoadRoom,
        Reload, Loads, Send, StatementFails, OnlyGoto, dbVars
<1>4. ASSUME (\E c \in Calls : Find(c) \/ Publish(c)) \/ Crash \/ UNCHANGED vars
      PROVE  users' = users
  BY <1>4 DEF Find, Publish, Crash, vars, dbVars
<1> QED
  BY <1>1, <1>2, <1>3, <1>4 DEF Next, Proceed

\* Who becomes a member was about to.
LEMMA MembersCome ==
    ASSUME [Next]_vars, NEW p \in members' \ members
    PROVE  \E c \in Calls : \E u \in UserIDs :
              AppendMember(c, u) /\ p = <<c.room, u>>
<1>1. ASSUME NEW c \in Calls, Write(c), \A u \in UserIDs : ~AppendMember(c, u)
      PROVE  members' \subseteq members
  BY <1>1 DEF Write, InsertUser, SaveUser, DeleteUser, InsertRoom, SaveRoom, DeleteRoom,
        MembersWithout, DeleteMember, AppendDone, Refused, OnlyGoto, dbVars
<1>2. ASSUME NEW c \in Calls, Proceed(c), ~Write(c)
      PROVE  members' = members
  BY <1>2 DEF Proceed, FindUsers, FindUser, Prepare, LoadUser, LoadRoom,
        Reload, Loads, Send, StatementFails, OnlyGoto, dbVars
<1>3. ASSUME (\E c \in Calls : Find(c) \/ Publish(c)) \/ Crash \/ UNCHANGED vars
      PROVE  members' = members
  BY <1>3 DEF Find, Publish, Crash, vars, dbVars
<1>4. PICK c \in Calls : \E u \in UserIDs : AppendMember(c, u)
  BY <1>1, <1>2, <1>3 DEF Next, Proceed
<1>5. PICK u \in UserIDs : AppendMember(c, u)
  BY <1>4
<1>6. p = <<c.room, u>>
  BY <1>5 DEF AppendMember, MemberRow
<1> QED
  BY <1>5, <1>6

\* Whom a call is to append it has read, and goes through one by one.
LEMMA TodoShape ==
    ASSUME TypeOK, [Next]_vars, NEW k \in Calls
    PROVE  \/ Find(k) \/ FindUsers(k) \/ FindUser(k)
           \/ /\ todo'[k] \subseteq todo[k]
              /\ pc'[k] \in {"write", "append"} => pc[k] \in {"write", "append"}
<1> DEFINE Stays == /\ todo'[k] \subseteq todo[k]
                    /\ pc'[k] \in {"write", "append"} => pc[k] \in {"write", "append"}
<1>1. pc \in [Calls -> Stage] /\ todo \in [Calls -> SUBSET UserIDs]
  BY DEF TypeOK
<1>2. ASSUME NEW c \in Calls, c # k, Find(c) \/ FindUsers(c) \/ FindUser(c)
      PROVE  Stays
  BY <1>1, <1>2 DEF Find, FindUsers, FindUser, OnlyGoto, Goto
<1>3. ASSUME NEW c \in Calls, Write(c)
      PROVE  Stays
  <2>1. ASSUME NEW u \in UserIDs, AppendMember(c, u)
        PROVE  Stays
    BY <1>1, <2>1 DEF AppendMember
  <2>2. ASSUME NEW to \in {"append", "load", "failed"}, Goto(c, to), todo' = todo,
               pc[c] \in {"write", "append"}
        PROVE  Stays
    BY <1>1, <2>2 DEF Goto
  <2>3. ASSUME ~\E u \in UserIDs : AppendMember(c, u)
        PROVE  Stays
    BY <1>3, <2>2, <2>3 DEF Write, InsertUser, SaveUser, DeleteUser, InsertRoom,
          SaveRoom, DeleteRoom, DeleteMember, AppendDone, Writes, Refused, OnlyGoto
  <2> QED
    BY <2>1, <2>3
<1>4. ASSUME NEW c \in Calls, Prepare(c) \/ StatementFails(c)
      PROVE  Stays
  <2>1. /\ todo' = todo
        /\ \E to \in {"send", "done", "failed"} : Goto(c, to)
    BY <1>4 DEF Prepare, LoadUser, LoadRoom, Reload, Loads, Send, StatementFails,
          OnlyGoto
  <2> QED
    BY <1>1, <2>1 DEF Goto
<1>5. ASSUME NEW c \in Calls, Publish(c)
      PROVE  Stays
  BY <1>5 DEF Publish, callVars
<1>6. CASE Crash
  BY <1>1, <1>6 DEF Crash
<1>7. CASE UNCHANGED vars
  BY <1>7 DEF vars, callVars
<1> QED
  BY <1>2, <1>3, <1>4, <1>5, <1>6, <1>7 DEF Next, Proceed

\* A member has a row, unless there is doubt of it.
LEMMA RowsStep ==
    ASSUME TypeOK, StageInv, OrderInv, FeedTypeOK, DoubtInv, RowsInv,
           [FeedNext]_feedVars
    PROVE  RowsInv'
<1>1. [Next]_vars /\ doubt \subseteq doubt'
  BY FeedStep, DoubtStays
<1>2. ASSUME NEW p \in members' \ doubt'
      PROVE  p[2] \in users'
  <2>1. CASE p \in members
    <3>1. p[1] \in RoomIDs /\ p = <<p[1], p[2]>> /\ p[2] \in users
      BY <1>1, <1>2, <2>1 DEF TypeOK, RowsInv
    <3> QED
      BY <1>1, <1>2, <3>1, UsersStay
  <2>2. CASE p \notin members
    <3>1. PICK c \in Calls, u \in UserIDs : AppendMember(c, u) /\ p = <<c.room, u>>
      BY <1>1, <1>2, <2>2, MembersCome
    <3>2. pc[c] = "append" /\ u \in todo[c] /\ users' = users
      BY <3>1 DEF AppendMember
    <3> QED
      BY <1>1, <1>2, <3>1, <3>2 DEF RowsInv
  <2> QED
    BY <2>1, <2>2
<1>3. ASSUME NEW c \in Calls
      PROVE  /\ c.op = "addUser" => todo'[c] \subseteq {c.user}
             /\ pc'[c] \in {"write", "append"} =>
                   \A u \in todo'[c] : <<c.room, u>> \notin doubt' => u \in users'
  <2>1. /\ pc \in [Calls -> Stage] /\ todo \in [Calls -> SUBSET UserIDs]
        /\ c.room \in RoomIDs
    BY CallsAssumption DEF TypeOK
  <2>2. CASE Find(c)
    <3>1. todo'[c] = IF c.op = "addUser" THEN {c.user} \ MembersOf(c.room) ELSE {}
      BY <2>1, <2>2 DEF Find
    <3>2. c.op = "addUser" => pc'[c] \notin {"write", "append"}
      BY <2>1, <2>2 DEF Find, Goto, AfterFind
    <3> QED
      BY <3>1, <3>2
  <2>3. CASE FindUsers(c)
    <3>1. todo'[c] \subseteq users /\ users' = users /\ c.op = "createRoom"
      BY <2>1, <2>3 DEF FindUsers, Registered, dbVars, StageInv
    <3> QED
      BY <3>1
  <2>4. CASE FindUser(c)
    <3>1. /\ todo' = todo /\ users' = users /\ c.op = "addUser"
          /\ pc'[c] = IF c.user \in users THEN "append" ELSE "failed"
      BY <2>1, <2>4 DEF FindUser, OnlyGoto, Goto, dbVars, StageInv
    <3>2. todo[c] \subseteq {c.user}
      BY <3>1 DEF RowsInv
    <3> QED
      BY <3>1, <3>2
  <2>5. CASE /\ todo'[c] \subseteq todo[c]
             /\ pc'[c] \in {"write", "append"} => pc[c] \in {"write", "append"}
    <3>1. ASSUME pc'[c] \in {"write", "append"}, NEW u \in todo'[c],
                 <<c.room, u>> \notin doubt'
          PROVE  u \in users'
      <4>1. u \in users /\ <<c.room, u>> \notin doubt
        BY <1>1, <2>5, <3>1 DEF RowsInv
      <4> QED
        BY <1>1, <2>1, <4>1, UsersStay
    <3>2. c.op = "addUser" => todo[c] \subseteq {c.user}
      BY DEF RowsInv
    <3> QED
      BY <2>5, <3>1, <3>2
  <2> QED
    BY <1>1, <2>2, <2>3, <2>4, <2>5, TodoShape
<1> QED
  BY <1>2, <1>3 DEF RowsInv

\* Two calls that overlap leave doubt about what both decide.
LEMMA Alone ==
    ASSUME TypeOK, StageInv, DoubtInv, NEW c \in Calls, Proceed(c),
           NEW d \in Calls \ {c}, d \in InFlight \/ (d \in pub /\ Publisher(c) # Publisher(d)),
           NEW p \in Scope(d) \ doubt
    PROVE  p \in Pairs \ Scope(c)
<1>1. c \in InFlight
  BY ProceedShape
<1>2. Overlap(d, c) /\ d \in UnderWay /\ c \in UnderWay
  BY <1>1 DEF Overlap, UnderWay
<1>3. p \in Pairs
  BY CallsAssumption DEF Scope, Pairs
<1> QED
  BY <1>2, <1>3 DEF DoubtInv

\* What a call has written stands until it has loaded, or there is doubt.
LEMMA StoodStep ==
    ASSUME TypeOK, StageInv, OrderInv, FeedTypeOK, DoubtInv, StoodInv,
           [FeedNext]_feedVars
    PROVE  StoodInv'
<1> SUFFICES ASSUME NEW d \in Calls, NEW p \in Scope(d), p \notin doubt',
                    pc'[d] \in {"append", "load"}
             PROVE  Stands(d, p)'
  BY DEF StoodInv, Scope
<1>0. p \notin doubt
  BY DoubtStays
<1>1. ASSUME pc[d] \in {"append", "load"},
             p \in members' <=> p \in members,
             p[1] \in rooms' <=> p[1] \in rooms,
             p[2] \in users' <=> p[2] \in users
      PROVE  Stands(d, p)'
  <2>1. Stands(d, p)
    BY <1>0, <1>1 DEF StoodInv
  <2> QED
    BY <1>1, <2>1 DEF Stands
<1>2. ASSUME NEW c \in Calls, Proceed(c)
      PROVE  Stands(d, p)'
  <2>1. CASE d = c
    <3>1. pc[c] = "append" => Stands(c, p)
      BY <1>0, <2>1 DEF StoodInv
    <3> QED
      BY <1>2, <2>1, <3>1, ProceedStands
  <2>2. CASE d # c
    <3>1. pc'[d] = pc[d] /\ d \in InFlight
      BY <1>2, <2>2, ProceedShape DEF InFlight
    <3>2. p \in Pairs \ Scope(c)
      BY <1>0, <1>2, <2>2, <3>1, Alone
    <3> QED
      BY <1>1, <1>2, <3>1, <3>2, ProceedFar
  <2> QED
    BY <2>1, <2>2
<1>3. CASE UNCHANGED <<dbVars, pc>>
  BY <1>1, <1>3 DEF dbVars
<1>4. CASE Crash
  BY <1>1, <1>4 DEF Crash, InFlight, dbVars
<1>5. ASSUME NEW c \in Calls, Find(c)
      PROVE  Stands(d, p)'
  <2>1. d # c /\ pc'[d] = pc[d] /\ UNCHANGED dbVars
    BY <1>5, FindShape
  <2> QED
    BY <1>1, <2>1 DEF dbVars
<1> QED
  BY <1>2, <1>3, <1>4, <1>5, PeerOnward DEF Publish, callVars, vars

-----------------------------------------------------------------------------
(* Who decides whether a user is in a room.                                *)

\* What a call decides it decides until it is announced, if it does not
\* move, and nobody changes the row.
LEMMA DecidingStays ==
    ASSUME NEW k \in Calls, NEW u \in UserIDs,
           pc'[k] = pc[k], ids'[k] = ids[k], k \in written => k \in written',
           k \in pub => k \in pub',
           <<k.room, u>> \in members => <<k.room, u>> \in members' \/ k \in pub,
           k \in pub => pc[k] = "done"
    PROVE  Deciding(k, u) => Deciding(k, u)'
BY DEF Deciding, Own

\* A call that changes whether a user is in its room decides it from then on,
\* until it is announced or fails.
LEMMA ProceedTruth ==
    ASSUME TypeOK, StageInv, OrderInv, RowsInv, NEW d \in Calls, d.op \in RoomOps,
           Proceed(d), NEW u \in UserIDs, <<d.room, u>> \notin doubt,
           pc'[d] = "failed" => d \notin written, ~Deciding(d, u)'
    PROVE  /\ ~Deciding(d, u)
           /\ d.room \in RoomsOf(u)' <=> d.room \in RoomsOf(u)
<1> DEFINE Truth == /\ ~Deciding(d, u)
                    /\ d.room \in RoomsOf(u)' <=> d.room \in RoomsOf(u)
<1>1. /\ pc \in [Calls -> Stage]
      /\ ids \in [Calls -> SUBSET (RoomIDs \cup UserIDs)]
      /\ d \notin pub
      /\ d.op \notin UserOps
      /\ pc[d] = "append" => d.op \in {"createRoom", "addUser"}
      /\ pc[d] = "user" => d.op = "addUser"
  <2>1. d \in InFlight
    BY ProceedShape
  <2> QED
    BY <2>1 DEF TypeOK, OrderInv, StageInv, InFlight, RoomOps, UserOps
<1>2. UNCHANGED dbVars => (d.room \in RoomsOf(u)' <=> d.room \in RoomsOf(u))
  BY DEF dbVars, RoomsOf
<1>3. CASE FindUsers(d) \/ FindUser(d) \/ AppendDone(d) \/ StatementFails(d)
  <2>1. UNCHANGED <<dbVars, written, ids, pub>>
    BY <1>3 DEF FindUsers, FindUser, AppendDone, StatementFails, OnlyGoto, histVars
  <2>2. Deciding(d, u) => pc[d] \in {"append", "load", "send"} /\ d \in written
    BY <1>1 DEF Deciding
  <2>3. CASE pc'[d] = "failed" \/ pc[d] \in {"users", "user"}
    BY <1>2, <2>1, <2>2, <2>3
  <2>4. CASE ~(pc'[d] = "failed" \/ pc[d] \in {"users", "user"})
    <3>1. pc[d] = "append" /\ pc'[d] = "load"
      BY <1>1, <1>3, <2>4 DEF FindUsers, FindUser, AppendDone, StatementFails,
            OnlyGoto, Goto
    <3> QED
      BY <1>2, <2>1, <3>1 DEF Deciding, Own, dbVars
  <2> QED
    BY <2>3, <2>4
<1>4. ASSUME NEW op, Refused(d, op)
      PROVE  Truth
  BY <1>1, <1>2, <1>4 DEF Refused, OnlyGoto, Deciding
<1>5. CASE InsertRoom(d) \/ SaveRoom(d)
  <2>1. CASE Refused(d, d.op)
    BY <1>4, <2>1
  <2>2. CASE ~Refused(d, d.op)
    <3>1. /\ d.op \in {"createRoom", "updateRoom"} /\ pc[d] = "write"
          /\ pc'[d] \in {"append", "load"} /\ d \in written'
          /\ rooms' = rooms \cup {d.room} /\ members' = members
      BY <1>1, <1>5, <2>2 DEF InsertRoom, SaveRoom, Writes, Wrote, Refused, OnlyGoto, Goto
    <3>2. <<d.room, u>> \notin members
      BY <3>1 DEF Deciding, Own, RoomOps
    <3> QED
      BY <1>1, <3>1, <3>2 DEF Deciding, RoomsOf
  <2> QED
    BY <2>1, <2>2
<1>6. CASE DeleteRoom(d)
  <2>1. /\ d.op = "destroyRoom" /\ pc[d] = "write" /\ pc'[d] = "load"
        /\ d \in written' /\ members' = members
    BY <1>1, <1>6 DEF DeleteRoom, MembersWithout, Writes, Wrote, Goto
  <2>2. <<d.room, u>> \notin members
    BY <2>1 DEF Deciding, Own, RoomOps
  <2> QED
    BY <1>1, <2>1, <2>2 DEF Deciding, RoomsOf
<1>7. CASE DeleteMember(d)
  <2>1. /\ d.op = "kickUser" /\ pc[d] = "write" /\ pc'[d] = "load"
        /\ d \in written' /\ members' = members \ {<<d.room, d.user>>}
        /\ rooms' = rooms
    BY <1>1, <1>7 DEF DeleteMember, Writes, Wrote, Goto
  <2>2. u # d.user
    BY <2>1 DEF Deciding, Own, RoomOps
  <2> QED
    BY <1>1, <2>1, <2>2 DEF Deciding, RoomsOf
<1>8. ASSUME NEW v \in UserIDs, AppendMember(d, v)
      PROVE  Truth
  <2>1. /\ pc[d] = "append" /\ pc' = pc /\ d \in written' /\ v \in todo[d]
        /\ members' = members \cup {<<d.room, v>>}
        /\ UNCHANGED <<rooms, ids, pub>>
        /\ d.op \in {"createRoom", "addUser"}
    BY <1>1, <1>8 DEF AppendMember, Wrote, MemberRow
  <2>2. u # v
    <3>1. d.op = "addUser" => v = d.user
      BY <2>1 DEF RowsInv
    <3> QED
      BY <2>1, <3>1 DEF Deciding, Own, RoomOps
  <2> QED
    BY <1>1, <2>1, <2>2 DEF Deciding, Own, RoomsOf
<1>9. CASE Send(d)
  <2>1. /\ pc[d] = "send" /\ pub' = pub \cup {d}
        /\ UNCHANGED <<dbVars, written, ids>>
    BY <1>9 DEF Send, histVars
  <2> QED
    BY <1>2, <2>1 DEF Deciding, Own
<1>10. ASSUME NEW found, Loads(d, found), u \in MembersOf(d.room) => u \in found,
              d.op = "kickUser" => d.user \in found
       PROVE  Truth
  <2>1. /\ pc[d] = "load" /\ pc'[d] = "send" /\ ids'[d] = found
        /\ UNCHANGED <<dbVars, written, pub>>
    BY <1>1, <1>10 DEF Loads, Goto, histVars
  <2>2. ASSUME Deciding(d, u)
        PROVE  FALSE
    <3>1. /\ d \in written /\ Own(d, u)
          /\ <<d.room, u>> \in members \/ d.op = "kickUser"
      BY <2>1, <2>2, <1>1 DEF Deciding
    <3>2. u \in found
      <4>1. CASE <<d.room, u>> \in members
        <5>1. u \in users
          BY <4>1 DEF RowsInv
        <5> QED
          BY <1>10, <4>1, <5>1 DEF MembersOf
      <4>2. CASE d.op = "kickUser"
        BY <1>10, <3>1, <4>2 DEF Own
      <4> QED
        BY <3>1, <4>1, <4>2
    <3> QED
      BY <2>1, <3>1, <3>2 DEF Deciding, Own
  <2> QED
    BY <1>2, <2>1, <2>2
<1>11. CASE LoadRoom(d)
  BY <1>10, <1>11 DEF LoadRoom, MembersListed
<1>12. CASE Reload(d)
  <2>1. CASE d.room \in rooms
    BY <1>10, <1>12, <2>1 DEF Reload
  <2>2. CASE d.room \notin rooms
    <3>1. /\ pc[d] = "load" /\ pc'[d] = "failed"
          /\ UNCHANGED <<dbVars, written, pub>>
      BY <1>1, <1>12, <2>2 DEF Reload, OnlyGoto, Goto, histVars
    <3> QED
      BY <1>2, <3>1 DEF Deciding
  <2> QED
    BY <2>1, <2>2
<1>13. ~InsertUser(d) /\ ~SaveUser(d) /\ ~DeleteUser(d) /\ ~LoadUser(d)
  BY <1>1 DEF InsertUser, SaveUser, DeleteUser, LoadUser, Writes, Refused,
        UserOps, ProfileOps
<1> QED
  BY <1>3, <1>5, <1>6, <1>7, <1>8, <1>9, <1>11, <1>12, <1>13
     DEF Proceed, Write, Prepare

\* Calls about users, and about other rooms, change no room of the user.
LEMMA ProceedElsewhere ==
    ASSUME TypeOK, StageInv, NEW d \in Calls, Proceed(d),
           NEW r \in RoomIDs, NEW u \in UserIDs, d.op \notin RoomOps \/ d.room # r
    PROVE  /\ r \in RoomsOf(u)' <=> r \in RoomsOf(u)
           /\ <<r, u>> \in members' <=> <<r, u>> \in members
<1>1. CASE d.op \notin RoomOps
  <2>1. /\ d.op \in UserOps
        /\ pc[d] # "append"
    BY <1>1, CallsAssumption DEF StageInv, RoomOps
  <2>2. UNCHANGED <<rooms, members>>
    <3>1. CASE Write(d)
      BY <1>1, <2>1, <3>1 DEF Write, InsertUser, SaveUser, DeleteUser, InsertRoom,
            SaveRoom, DeleteRoom, DeleteMember, AppendMember, AppendDone, Writes,
            Refused, OnlyGoto, RoomOps, dbVars
    <3>2. CASE ~Write(d)
      BY <3>2 DEF Proceed, FindUsers, FindUser, Prepare, LoadUser, LoadRoom,
            Reload, Loads, Send, StatementFails, OnlyGoto, dbVars
    <3> QED
      BY <3>1, <3>2
  <2> QED
    BY <2>2 DEF RoomsOf
<1>2. CASE d.op \in RoomOps /\ d.room # r
  <2>1. <<r, u>> \in Pairs \ Scope(d)
    BY <1>2 DEF Pairs, Scope, RoomOps, UserOps
  <2>2. /\ <<r, u>> \in members' <=> <<r, u>> \in members
        /\ r \in rooms' <=> r \in rooms
    BY <2>1, ProceedFar
  <2> QED
    BY <2>2 DEF RoomsOf
<1> QED
  BY <1>1, <1>2

\* A step of a call after which nobody decides about a user and a room left
\* both alone, and nobody decided before.
LEMMA ProceedHome ==
    ASSUME TypeOK, StageInv, OrderInv, DoubtInv, RowsInv,
           NEW d \in Calls, Proceed(d), NEW r \in RoomIDs, NEW u \in UserIDs,
           <<r, u>> \notin doubt,
           pc'[d] = "failed" => <<r, u>> \notin Untold(d),
           d.room = r => ~Deciding(d, u)'
    PROVE  /\ r \in RoomsOf(u)' <=> r \in RoomsOf(u)
           /\ d.room = r => ~Deciding(d, u)
           /\ \A k \in UnderWay \ {d} : k.room = r =>
                 (Deciding(k, u) => Deciding(k, u)')
<1>1. CASE d.op \in RoomOps /\ d.room = r
  <2>1. pc'[d] = "failed" => d \notin written
    BY <1>1 DEF Untold, Scope, RoomOps, UserOps
  <2> QED
    <3>1. /\ r \in RoomsOf(u)' <=> r \in RoomsOf(u)
          /\ ~Deciding(d, u)
      BY <1>1, <2>1, ProceedTruth
    <3>2. ASSUME NEW k \in UnderWay \ {d}, k.room = r, Deciding(k, u)
          PROVE  Deciding(k, u)'
      <4>1. k \in Calls /\ k.op \in RoomOps
        BY <3>2 DEF UnderWay, InFlight, TypeOK, Deciding, Own
      <4>2. <<r, u>> \in Scope(k) /\ <<r, u>> \in Scope(d)
        BY <1>1, <3>2, <4>1 DEF Scope, RoomOps, UserOps
      <4>3. k \in pub
        BY <3>2, <4>1, <4>2, Alone DEF UnderWay
      <4>4. /\ pc'[k] = pc[k] /\ ids'[k] = ids[k] /\ written \subseteq written'
            /\ k \in pub'
        BY <4>1, <4>3, <3>2, ProceedShape DEF Send
      <4> QED
        BY <3>2, <4>1, <4>3, <4>4, DecidingStays DEF OrderInv
    <3> QED
      BY <3>1, <3>2
<1>2. CASE d.op \notin RoomOps \/ d.room # r
  <2>1. /\ r \in RoomsOf(u)' <=> r \in RoomsOf(u)
        /\ <<r, u>> \in members' <=> <<r, u>> \in members
    BY <1>2, ProceedElsewhere
  <2>2. d.room = r => ~Deciding(d, u)
    BY <1>2 DEF Deciding, Own
  <2>3. ASSUME NEW k \in UnderWay \ {d}, k.room = r, Deciding(k, u)
        PROVE  Deciding(k, u)'
    <3>1. k \in Calls
      BY <2>3 DEF UnderWay, InFlight, TypeOK
    <3>2. /\ pc'[k] = pc[k] /\ ids'[k] = ids[k] /\ written \subseteq written'
          /\ pub \subseteq pub'
      BY <3>1, <2>3, ProceedShape DEF Send
    <3> QED
      BY <2>1, <2>3, <3>1, <3>2, DecidingStays DEF OrderInv
  <2> QED
    BY <2>1, <2>2, <2>3
<1> QED
  BY <1>1, <1>2

\* A call whose changes stand announces to a user what is so when it loads.
LEMMA LoadsAgree ==
    ASSUME TypeOK, NEW c \in Calls, Prepare(c), pc[c] = "load", pc'[c] = "send",
           NEW u \in UserIDs, Own(c, u), u \in ids'[c], Stands(c, <<c.room, u>>)
    PROVE  Agrees(c, c.room, RoomsOf(u)')
<1>1. /\ pc \in [Calls -> Stage] /\ ids \in [Calls -> SUBSET (RoomIDs \cup UserIDs)]
      /\ c.op \in RoomOps
  BY DEF TypeOK, Own
<1>2. CASE LoadRoom(c)
  <2>1. /\ c.op \in {"createRoom", "updateRoom", "destroyRoom"}
        /\ ids'[c] = MembersOf(c.room) /\ UNCHANGED dbVars
    BY <1>1, <1>2 DEF LoadRoom, Loads, MembersListed
  <2>2. <<c.room, u>> \in members
    BY <2>1 DEF MembersOf
  <2> QED
    BY <2>1, <2>2 DEF Stands, Agrees, Joining, RoomsOf, ProfileOps, dbVars
<1>3. CASE Reload(c)
  <2>1. /\ c.op \in {"addUser", "kickUser"} /\ c.room \in rooms
        /\ ids'[c] = MembersOf(c.room) \cup
                        (IF c.op = "kickUser" THEN {c.user} ELSE {})
        /\ UNCHANGED dbVars
    BY <1>1, <1>3 DEF Reload, Loads, OnlyGoto, Goto
  <2> QED
    BY <1>1, <2>1 DEF Own, Stands, Agrees, Joining, MembersOf, RoomsOf, ProfileOps, dbVars
<1>4. ~LoadUser(c) /\ ~Send(c)
  BY <1>1 DEF LoadUser, Send, RoomOps, UserOps
<1> QED
  BY <1>2, <1>3, <1>4 DEF Prepare

\* An announcement under way stays right for the user it tells: no other call
\* decides about the user and the room, or else it is known to.
LEMMA SaysStep ==
    ASSUME TypeOK, StageInv, OrderInv, FeedTypeOK, DoubtInv, RowsInv, StoodInv,
           SaysInv, [FeedNext]_feedVars
    PROVE  SaysInv'
<1> SUFFICES ASSUME NEW c \in Calls, NEW u \in UserIDs,
                    pc'[c] = "send" \/ c \in pub',
                    Own(c, u), u \in ids'[c], <<c.room, u>> \notin doubt',
                    Undecided(c.room, u, InFlight \ {c})'
             PROVE  Agrees(c, c.room, RoomsOf(u)')
  BY DEF SaysInv, Own, Agrees
<1> DEFINE r == c.room
           p == <<r, u>>
<1>1. p \notin doubt /\ r \in RoomIDs /\ p \in Scope(c)
  BY DoubtStays, CallsAssumption DEF Own, Scope, RoomOps, UserOps
<1>2. ASSUME pc[c] = "send" \/ c \in pub, ids'[c] = ids[c],
             Undecided(r, u, InFlight \ {c}),
             r \in RoomsOf(u)' <=> r \in RoomsOf(u)
      PROVE  Agrees(c, r, RoomsOf(u)')
  <2>1. Agrees(c, r, RoomsOf(u))
    BY <1>1, <1>2 DEF SaysInv
  <2> QED
    BY <1>2, <2>1 DEF Agrees
<1>3. ASSUME NEW d \in Calls, Proceed(d),
             Doubt(IF pc'[d] = "failed" THEN Untold(d) ELSE {})
      PROVE  Agrees(c, r, RoomsOf(u)')
  <2>1. /\ d \in InFlight
        /\ pc'[d] # "idle" /\ \A k \in Calls \ {d} : pc'[k] = pc[k]
        /\ written \subseteq written' /\ written' \subseteq written \cup {d}
        /\ \A k \in Calls \ {d} : ids'[k] = ids[k]
        /\ (pub' = pub /\ pc'[d] # "done") \/ Send(d)
        /\ pc'[d] = "send" => Prepare(d) /\ pc[d] = "load"
    BY <1>3, ProceedShape
  <2>2. Send(d) => /\ pub' = pub \cup {d} /\ pc[d] = "send"
                   /\ \A k \in pub : Publisher(k) # Publisher(d)
                   /\ UNCHANGED <<dbVars, ids, written>>
    BY DEF Send, histVars
  <2>3. pc'[d] = "failed" => p \notin Untold(d)
    BY <1>3 DEF Doubt
  <2>4. CASE c = d /\ pc'[c] = "send"
    <3>1. Stands(c, p)
      BY <1>1, <2>1, <2>4 DEF StoodInv
    <3> QED
      BY <2>1, <2>4, <3>1, LoadsAgree
  <2>5. CASE c = d /\ pc'[c] # "send"
    <3>1. Send(c)
      BY <2>1, <2>5 DEF OrderInv, InFlight
    <3>2. ASSUME NEW k \in InFlight \ {c}, k.room = r
          PROVE  ~Deciding(k, u)
      <4>1. k \in Calls /\ k \in InFlight' /\ pc'[k] = pc[k]
        BY <2>1, <2>5, <3>2 DEF InFlight
      <4>2. ~Deciding(k, u)'
        BY <3>2, <4>1 DEF Undecided
      <4>3. k \in pub => k \in pub'
        BY <2>2, <2>5, <3>1
      <4> QED
        BY <2>1, <2>2, <2>5, <3>1, <3>2, <4>1, <4>2, <4>3, DecidingStays
           DEF OrderInv, dbVars
    <3>3. r \in RoomsOf(u)' <=> r \in RoomsOf(u)
      BY <2>2, <2>5, <3>1 DEF RoomsOf, dbVars
    <3> QED
      BY <1>2, <2>2, <2>5, <3>1, <3>2, <3>3 DEF Undecided
  <2>6. CASE c # d
    <3>1. /\ pc'[c] = pc[c] /\ ids'[c] = ids[c]
          /\ pc[c] = "send" \/ c \in pub
      BY <2>1, <2>2, <2>6
    <3>2. ASSUME d.room = r, Deciding(d, u)'
          PROVE  FALSE
      <4>1. d.op \in RoomOps /\ p \in Scope(d)
        BY <3>2 DEF Deciding, Own, Scope, RoomOps, UserOps
      <4>2. c \in pub /\ Publisher(c) = Publisher(d)
        BY <1>1, <1>3, <2>6, <3>1, <4>1, Alone DEF InFlight
      <4>3. ~Send(d) /\ pub' = pub /\ pc'[d] # "done"
        BY <2>1, <2>2, <4>2
      <4>4. d \notin InFlight'
        BY <2>6, <3>2 DEF Undecided
      <4>5. pc'[d] = "failed" /\ d \notin pub'
        BY <2>1, <4>3, <4>4 DEF InFlight, OrderInv
      <4> QED
        BY <3>2, <4>5 DEF Deciding
    <3>3. /\ r \in RoomsOf(u)' <=> r \in RoomsOf(u)
          /\ d.room = r => ~Deciding(d, u)
          /\ \A k \in UnderWay \ {d} : k.room = r =>
                (Deciding(k, u) => Deciding(k, u)')
      BY <1>1, <1>3, <2>3, <3>2, ProceedHome
    <3>4. ASSUME NEW k \in InFlight \ {c}, k.room = r
          PROVE  ~Deciding(k, u)
      <4>1. CASE k = d
        BY <3>3, <3>4, <4>1
      <4>2. CASE k # d
        <5>1. k \in InFlight'
          BY <2>1, <3>4, <4>2 DEF InFlight
        <5>2. ~Deciding(k, u)'
          BY <3>4, <5>1 DEF Undecided
        <5> QED
          BY <3>3, <3>4, <4>2, <5>2 DEF UnderWay
      <4> QED
        BY <4>1, <4>2
    <3> QED
      BY <1>2, <3>1, <3>3, <3>4 DEF Undecided
  <2> QED
    BY <2>4, <2>5, <2>6
<1>4. CASE UNCHANGED <<dbVars, pc, ids, written>> /\ pub' \subseteq pub
  <2>1. ASSUME NEW k \in InFlight \ {c}, k.room = r
        PROVE  ~Deciding(k, u)
    <3>1. k \in Calls /\ k \in InFlight' /\ k \notin pub
      BY <1>4, <2>1 DEF InFlight, OrderInv
    <3>2. ~Deciding(k, u)'
      BY <2>1, <3>1 DEF Undecided
    <3> QED
      BY <1>4, <3>1, <3>2, DecidingStays DEF dbVars
  <2> QED
    BY <1>2, <1>4, <2>1 DEF Undecided, RoomsOf, dbVars
<1>5. ASSUME NEW d \in Calls, Find(d)
      PROVE  Agrees(c, r, RoomsOf(u)')
  <2>1. /\ pc'[d] # "send" /\ d \notin pub /\ pc[d] = "idle"
        /\ \A k \in Calls \ {d} : pc'[k] = pc[k]
        /\ InFlight \subseteq InFlight'
        /\ UNCHANGED <<dbVars, ids, pub, written>>
    BY <1>5, FindShape
  <2>2. ASSUME NEW k \in InFlight \ {c}, k.room = r
        PROVE  ~Deciding(k, u)
    <3>1. k \in Calls /\ k \in InFlight' /\ k # d
      BY <2>1, <2>2 DEF InFlight
    <3>2. ~Deciding(k, u)'
      BY <2>2, <3>1 DEF Undecided
    <3> QED
      BY <2>1, <3>1, <3>2, DecidingStays DEF OrderInv, dbVars
  <2> QED
    BY <1>2, <2>1, <2>2 DEF Undecided, RoomsOf, dbVars
<1>6. CASE Crash
  BY <1>6 DEF Crash, InFlight
<1>7. ASSUME NEW d \in Calls, Publish(d)
      PROVE  UNCHANGED <<dbVars, pc, ids, written>> /\ pub' \subseteq pub
  BY <1>7 DEF Publish, callVars, histVars
<1>8. UNCHANGED vars => UNCHANGED <<dbVars, pc, ids, written>> /\ pub' \subseteq pub
  BY DEF vars, callVars, histVars
<1> QED
  BY <1>3, <1>4, <1>5, <1>6, <1>7, <1>8, PeerCases DEF Announce

-----------------------------------------------------------------------------
(* What is on its way to a peer.                                           *)

\* What is on its way arrives as it would, if it still means the same.
LEMMA ArrivesSame ==
    ASSUME NEW f, NEW r, NEW D, NEW E, NEW home, NEW after,
           D \cap Transit(f) = E \cap Transit(f), r \in after <=> r \in home,
           Arrives(f, r, D, home)
    PROVE  Arrives(f, r, E, after)
<1>1. \A c : Agrees(c, r, home) <=> Agrees(c, r, after)
  BY DEF Agrees
<1>2. /\ \A c \in Transit(f) : c \in D <=> c \in E
      /\ Queued(f.pending) \subseteq Transit(f) /\ f.cb \subseteq Transit(f)
      /\ f.apiHeld \subseteq Transit(f) /\ f.svcHeld \subseteq Transit(f)
      /\ \A i \in DOMAIN f.pending : f.pending[i] \in Transit(f)
  BY DEF Transit, Queued
<1>3. EndsRight(f.pending, E, r, after)
  BY <1>1, <1>2 DEF Arrives, EndsRight
<1>4. \A S \in SUBSET Transit(f) :
         /\ S \cap D = S \cap E
         /\ AllRight(S, D, r, home) => AllRight(S, E, r, after)
  BY <1>1, <1>2 DEF AllRight
<1>5. /\ Queued(f.pending) \cup f.cb \subseteq Transit(f)
      /\ Queued(f.pending) \cup f.cb \cup f.apiHeld \subseteq Transit(f)
  BY <1>2
<1> QED
  BY <1>2, <1>3, <1>4, <1>5 DEF Arrives

\* What decides for the peer of a stream decides for it as long as it is on
\* its way.
LEMMA DecidersStay ==
    ASSUME TypeOK, OrderInv, [Next]_vars, NEW s \in Streams, NEW f \in Feed,
           HeldOK(s, f), NEW r
    PROVE  Deciders(s, r) \cap Transit(f) = Deciders(s, r)' \cap Transit(f)
<1>1. Transit(f) \subseteq Calls
  <2>1. /\ f.svcHeld \subseteq Calls /\ f.apiHeld \subseteq Calls
        /\ f.cb \subseteq Calls /\ f.pending \in Seq(Calls)
    BY FeedFields
  <2>2. Queued(f.pending) \subseteq Calls
    BY <2>1, ElementOfSeq, LenProperties DEF Queued
  <2> QED
    BY <2>1, <2>2 DEF Transit
<1>2. \A c \in Transit(f) : ids'[c] = ids[c]
  BY <1>1, DoneStays DEF HeldOK
<1> QED
  BY <1>1, <1>2 DEF Deciders, Own

\* An announcement that is queued, or lost.
LEMMA AnnounceArrives ==
    ASSUME ManagerInv, FeedInv, PeerInv, [FeedNext]_feedVars,
           NEW c \in Calls, Announce(c), NEW s \in Streams, NEW r \in RoomIDs,
           Live(feed'[s]), <<r, s.user>> \notin doubt',
           Undecided(r, s.user, UnderWay)'
    PROVE  Arrives(feed'[s], r, Deciders(s, r)', RoomsOf(s.user)')
<1> DEFINE u == s.user
           f == feed[s]
           D == Deciders(s, r)
           home == RoomsOf(u)
<1>1. /\ TypeOK /\ OrderInv /\ FeedTypeOK /\ SaysInv /\ PipeInv
      /\ f \in Feed /\ f.pending \in Seq(Calls) /\ HeldOK(s, f)
      /\ u \in UserIDs /\ <<r, u>> \notin doubt
  BY FeedFields, StreamsAssumption, DoubtStays
     DEF ManagerInv, FeedInv, FeedTypeOK, StreamInv, PeerInv
<1>2. /\ c \in pub /\ pub' = pub \ {c} /\ pc[c] = "done"
      /\ UNCHANGED <<users, rooms, members, pc, ids, written>>
  BY <1>1 DEF Announce, Publish, dbVars, callVars, histVars, OrderInv
<1>3. D' = D /\ home' = home
  BY <1>2 DEF Deciders, Own, RoomsOf
<1>4. ASSUME NEW k \in UnderWay, k # c, k.room = r
      PROVE  ~Deciding(k, u)
  <2>1. k \in Calls /\ k \in UnderWay'
    BY <1>1, <1>2, <1>4 DEF UnderWay, InFlight, TypeOK
  <2>2. ~Deciding(k, u)'
    BY <1>4, <2>1 DEF Undecided
  <2> QED
    BY <1>1, <1>2, <1>4, <2>1, <2>2, DecidingStays DEF OrderInv
<1>5. c.room = r /\ Deciding(c, u) => c \in D /\ c \in written /\ <<r, u>> \in Scope(c)
  BY <1>1, <1>2 DEF Deciding, Deciders, Own, Scope, RoomOps, UserOps
<1>6. c \notin D \/ ~Deciding(c, u) => Arrives(f, r, D, home) \/ ~Live(f)
  BY <1>1, <1>4, <1>5 DEF Undecided, PipeInv
<1>7. CASE UNCHANGED feed /\ Doubt(Untold(c))
  <2>1. ~(c.room = r /\ Deciding(c, u))
    BY <1>5, <1>7 DEF Doubt, Untold
  <2>2. Undecided(r, u, UnderWay)
    BY <1>4, <2>1 DEF Undecided
  <2> QED
    BY <1>1, <1>3, <1>7, <2>2 DEF PipeInv
<1>8. CASE /\ Enqueue(c)
           /\ Doubt(IF \E t \in Streams : Subscribed(t) /\ ~HasRoom(t)
                    THEN Scope(c) ELSE {})
  <2>1. CASE ~(Subscribed(s) /\ HasRoom(s))
    <3>1. feed'[s] = f
      BY <1>8, <2>1 DEF Enqueue
    <3>2. Subscribed(s) /\ ~HasRoom(s)
      BY <2>1, <3>1 DEF Live, Subscribed
    <3>3. <<r, u>> \notin Scope(c)
      BY <1>8, <3>2 DEF Doubt
    <3>4. Undecided(r, u, UnderWay)
      BY <1>4, <1>5, <3>3 DEF Undecided
    <3> QED
      BY <1>1, <1>3, <3>1, <3>4 DEF PipeInv
  <2>2. CASE Subscribed(s) /\ HasRoom(s)
    <3> DEFINE q == Append(f.pending, c)
               g == [f EXCEPT !.pending = q, !.due = f.due \cup {c}]
    <3>1. feed'[s] = g
      BY <1>8, <2>2 DEF Enqueue
    <3>2. /\ q \in Seq(Calls)
          /\ Queued(q) = Queued(f.pending) \cup {c}
          /\ (IF c \in D THEN Agrees(c, r, home) ELSE EndsRight(f.pending, D, r, home))
             => EndsRight(q, D, r, home)
      BY <1>1, AppendQueue
    <3>3. /\ g.svc = f.svc /\ g.api = f.api
          /\ g.svcHeld = f.svcHeld /\ g.apiHeld = f.apiHeld /\ g.cb = f.cb
          /\ g.pending = q /\ g.rooms = f.rooms /\ g.asked = f.asked
      BY <1>1 DEF Feed
    <3>4. ASSUME c \in D
          PROVE  Agrees(c, r, home)
      <4>1. Own(c, u) /\ u \in ids[c] /\ c.room = r
        BY <3>4 DEF Deciders
      <4>2. Undecided(r, u, InFlight \ {c})
        BY <1>4 DEF Undecided, UnderWay
      <4> QED
        BY <1>1, <1>2, <4>1, <4>2 DEF SaysInv
    <3>5. ASSUME c \notin D
          PROVE  Arrives(f, r, D, home)
      BY <1>6, <3>1, <3>3, <3>5 DEF Live
    <3> HIDE DEF f, g, q, D, home
    <3>6. Transit(g) = Transit(f) \cup {c}
      BY <3>2, <3>3 DEF Transit
    <3>7. Arrives(g, r, D, home)
      <4>1. CASE c \in D
        BY <3>2, <3>3, <3>4, <3>6, <4>1 DEF Arrives
      <4>2. CASE c \notin D
        <5>1. EndsRight(q, D, r, home)
          BY <3>2, <3>5, <4>2 DEF Arrives
        <5> QED
          BY <3>2, <3>3, <3>5, <3>6, <4>2, <5>1 DEF Arrives
      <4> QED
        BY <4>1, <4>2
    <3> QED
      BY <1>3, <3>1, <3>7 DEF D, home
  <2> QED
    BY <2>1, <2>2
<1> QED
  BY <1>7, <1>8 DEF Announce

\* What is on its way to a peer, and what the peer knows when nothing is,
\* stays right.
LEMMA PipeStep ==
    ASSUME ManagerInv, FeedInv, PeerInv, [FeedNext]_feedVars
    PROVE  PipeInv'
<1> SUFFICES ASSUME NEW s \in Streams, NEW r \in RoomIDs, Live(feed'[s]),
                    <<r, s.user>> \notin doubt', Undecided(r, s.user, UnderWay)'
             PROVE  Arrives(feed'[s], r, Deciders(s, r)', RoomsOf(s.user)')
  BY DEF PipeInv, Live, Arrives, EndsRight, AllRight, Agrees, Transit, Queued
<1> DEFINE u == s.user
           f == feed[s]
<1>1. /\ TypeOK /\ StageInv /\ OrderInv /\ FeedTypeOK /\ OwedInv
      /\ DoubtInv /\ RowsInv /\ PipeInv
      /\ f \in Feed /\ HeldOK(s, f)
      /\ \A t \in Streams : HeldOK(t, feed[t]) /\ DueOK(t, feed[t])
      /\ u \in UserIDs /\ <<r, u>> \notin doubt /\ [Next]_vars
  BY FeedFields, StreamsAssumption, DoubtStays, FeedStep
     DEF ManagerInv, FeedInv, FeedTypeOK, StreamInv, PeerInv
<1>2. ASSUME feed'[s] = f, Undecided(r, u, UnderWay),
             r \in RoomsOf(u)' <=> r \in RoomsOf(u)
      PROVE  Arrives(feed'[s], r, Deciders(s, r)', RoomsOf(u)')
  <2>1. Arrives(f, r, Deciders(s, r), RoomsOf(u))
    BY <1>1, <1>2 DEF PipeInv
  <2>2. Deciders(s, r) \cap Transit(f) = Deciders(s, r)' \cap Transit(f)
    BY <1>1, DecidersStay
  <2> QED
    BY <1>2, <2>1, <2>2, ArrivesSame
<1>3. ASSUME NEW c \in Calls, Find(c), UNCHANGED feed
      PROVE  Arrives(feed'[s], r, Deciders(s, r)', RoomsOf(u)')
  <2>1. /\ c \notin pub /\ pc[c] = "idle"
        /\ \A k \in Calls \ {c} : pc'[k] = pc[k]
        /\ UnderWay \subseteq UnderWay'
        /\ UNCHANGED <<dbVars, ids, pub, written>>
    BY <1>1, <1>3, FindShape
  <2>2. ASSUME NEW k \in UnderWay, k.room = r
        PROVE  ~Deciding(k, u)
    <3>1. k \in Calls /\ k \in UnderWay' /\ k # c
      BY <1>1, <2>1, <2>2 DEF UnderWay, InFlight, TypeOK
    <3>2. ~Deciding(k, u)'
      BY <2>2, <3>1 DEF Undecided
    <3> QED
      BY <1>1, <2>1, <3>1, <3>2, DecidingStays DEF OrderInv, dbVars
  <2> QED
    BY <1>2, <1>3, <2>1, <2>2 DEF Undecided, RoomsOf, dbVars
<1>4. ASSUME NEW d \in Calls, Proceed(d), UNCHANGED feed,
             Doubt(IF pc'[d] = "failed" THEN Untold(d) ELSE {})
      PROVE  Arrives(feed'[s], r, Deciders(s, r)', RoomsOf(u)')
  <2>1. /\ d \in InFlight
        /\ pc'[d] # "idle" /\ \A k \in Calls \ {d} : pc'[k] = pc[k]
        /\ (pub' = pub /\ pc'[d] # "done") \/ Send(d)
    BY <1>1, <1>4, ProceedShape
  <2>2. Send(d) => pub' = pub \cup {d}
    BY DEF Send
  <2>3. pc'[d] = "failed" => <<r, u>> \notin Untold(d)
    BY <1>4 DEF Doubt
  <2>4. d.room = r => ~Deciding(d, u)'
    <3>1. CASE d \in UnderWay'
      BY <3>1 DEF Undecided
    <3>2. CASE d \notin UnderWay'
      BY <2>1, <2>2, <3>2 DEF UnderWay, InFlight, Deciding
    <3> QED
      BY <3>1, <3>2
  <2>5. /\ r \in RoomsOf(u)' <=> r \in RoomsOf(u)
        /\ d.room = r => ~Deciding(d, u)
        /\ \A k \in UnderWay \ {d} : k.room = r =>
              (Deciding(k, u) => Deciding(k, u)')
    BY <1>1, <1>4, <2>3, <2>4, ProceedHome
  <2>6. \A k \in UnderWay \ {d} : k \in UnderWay'
    BY <1>1, <2>1, <2>2 DEF UnderWay, InFlight, TypeOK
  <2> QED
    BY <1>2, <1>4, <2>5, <2>6 DEF Undecided
<1>5. CASE Down
  BY <1>5, NoFeedFields DEF Down, Live
<1>6. ASSUME UNCHANGED <<vars, doubt>>
      PROVE  Undecided(r, u, UnderWay) /\ Deciders(s, r)' = Deciders(s, r)
             /\ RoomsOf(u)' = RoomsOf(u)
  <2>1. UNCHANGED <<users, rooms, members, pc, ids, pub, written>>
    BY <1>6 DEF vars, dbVars, callVars, histVars
  <2>2. UnderWay' = UnderWay /\ \A k : Deciding(k, u)' = Deciding(k, u)
    BY <2>1 DEF UnderWay, InFlight, Deciding, Own
  <2> QED
    BY <2>1, <2>2 DEF Undecided, Deciders, Own, RoomsOf
<1>7. ASSUME UNCHANGED <<vars, doubt>>, UNCHANGED feed
      PROVE  Arrives(feed'[s], r, Deciders(s, r)', RoomsOf(u)')
  BY <1>2, <1>6, <1>7
<1>8. ASSUME NEW t \in Streams, StreamSteps(t), UNCHANGED <<vars, doubt>>
      PROVE  Arrives(feed'[s], r, Deciders(s, r)', RoomsOf(u)')
  <2>1. /\ \E g \in Feed : feed' = [feed EXCEPT ![t] = g]
        /\ Follows(t, feed[t], feed'[t])
    BY <1>1, <1>8, StreamStep
  <2>2. CASE t = s
    <3>1. Live(f) => Arrives(f, r, Deciders(s, r), RoomsOf(u))
      BY <1>1, <1>6, <1>8 DEF PipeInv
    <3>2. Arrives(feed'[s], r, Deciders(s, r), RoomsOf(u))
      BY <2>1, <2>2, <3>1 DEF Follows
    <3> QED
      BY <1>6, <1>8, <3>2
  <2>3. CASE t # s
    <3>1. feed'[s] = f
      BY <1>1, <2>1, <2>3 DEF FeedTypeOK
    <3> QED
      BY <1>2, <1>6, <1>8, <3>1
  <2> QED
    BY <2>2, <2>3
<1> QED
  BY <1>3, <1>4, <1>5, <1>7, <1>8, PeerCases, AnnounceArrives

-----------------------------------------------------------------------------
(* What a peer knows.                                                      *)

\* At first there is nothing to know.
LEMMA InitPeerInv == FeedInit => PeerInv
<1> SUFFICES ASSUME FeedInit
             PROVE  PeerInv
  OBVIOUS
<1>1. /\ \A c \in Calls : pc[c] = "idle" /\ todo[c] = {}
      /\ written = {} /\ pub = {} /\ doubt = {} /\ members = {}
      /\ \A s \in Streams : feed[s] = NoFeed
  BY DEF FeedInit, Init
<1>2. InFlight = {} /\ UnderWay = {}
  BY <1>1 DEF InFlight, UnderWay
<1>3. DoubtInv /\ RowsInv /\ StoodInv /\ SaysInv
  BY <1>1, <1>2 DEF DoubtInv, RowsInv, StoodInv, SaysInv
<1>4. PipeInv
  BY <1>1, NoFeedFields DEF PipeInv, Live
<1> QED
  BY <1>3, <1>4 DEF PeerInv

\* The parts of the invariant about what is so, what is announced, what is on
\* its way, and what peers know.
THEOREM PeerInvariant == FeedSpec => [](ManagerInv /\ FeedInv /\ PeerInv)
<1>1. PeerInv /\ ManagerInv /\ FeedInv /\ [FeedNext]_feedVars => PeerInv'
  <2> SUFFICES ASSUME PeerInv, ManagerInv, FeedInv, [FeedNext]_feedVars
               PROVE  PeerInv'
    OBVIOUS
  <2>1. /\ TypeOK /\ StageInv /\ OrderInv /\ FeedTypeOK
        /\ DoubtInv /\ RowsInv /\ StoodInv /\ SaysInv
    BY DEF ManagerInv, FeedInv, PeerInv
  <2>2. DoubtInv' /\ RowsInv' /\ StoodInv' /\ SaysInv'
    BY <2>1, DoubtStep, RowsStep, StoodStep, SaysStep
  <2>3. PipeInv'
    BY PipeStep
  <2> QED
    BY <2>2, <2>3 DEF PeerInv
<1> QED
  BY <1>1, InitPeerInv, FeedInvariant, PTL DEF FeedSpec

\* A peer that asked once, at any moment, and followed its stream knows its
\* rooms once the stream is settled and no call about them is under way:
\* whatever the calls, the goroutines and the queries in between did, unless
\* rivals, a failure after the write, a lost announcement, or its own removal
\* left doubt.
THEOREM PeerRight == FeedSpec => []PeerIsRight
<1>1. FeedInv /\ PeerInv => PeerIsRight
  <2> SUFFICES ASSUME FeedInv, PeerInv, NEW s \in Streams, NEW r \in RoomIDs,
                      Settled(s), feed[s].asked, <<r, s.user>> \notin doubt,
                      \A c \in UnderWay : <<r, s.user>> \notin Scope(c)
               PROVE  r \in feed[s].rooms <=> r \in RoomsOf(s.user)
    BY DEF PeerIsRight
  <2>1. Live(feed[s]) /\ Transit(feed[s]) = {}
    BY SettledIs DEF FeedInv, StreamInv
  <2>2. \A c : c.room = r /\ Deciding(c, s.user) => <<r, s.user>> \in Scope(c)
    BY StreamsAssumption DEF Deciding, Own, Scope, RoomOps, UserOps
  <2>3. Undecided(r, s.user, UnderWay)
    BY <2>2 DEF Undecided
  <2> QED
    BY <2>1, <2>3 DEF PeerInv, PipeInv, Arrives
<1> QED
  BY <1>1, PeerInvariant, PTL
=============================================================================
