------------------------ MODULE PresenceWatchProofs ------------------------
(***************************************************************************)
(* Proofs about PresenceWatch, for any users, sessions, profile updates    *)
(* and sizes of queues, whatever fails.                                    *)
(***************************************************************************)
EXTENDS PresenceWatch, PresenceProofs

-----------------------------------------------------------------------------
(* What is on its way to a client.                                         *)

\* A queue without its first status ends as it did, and so does the first
\* status if it was the only one of its user.
LEMMA TailEnds ==
    ASSUME NEW q \in Seq(Status), q # <<>>, NEW u, NEW b, EndsWith(q, u, b)
    PROVE  /\ EndsWith(Tail(q), u, b)
           /\ Queued(Tail(q), u) => Queued(q, u)
           /\ Queued(q, u) /\ ~Queued(Tail(q), u)
              => Head(q).user = u /\ Head(q).online = b
           /\ ~Queued(q, u) => Head(q).user # u
<1>1. /\ Len(q) \in Nat \ {0}
      /\ DOMAIN q = 1 .. Len(q) /\ DOMAIN Tail(q) = 1 .. Len(q) - 1
      /\ Head(q) = q[1]
      /\ \A i \in 1 .. Len(q) - 1 : Tail(q)[i] = q[i + 1]
  BY HeadTailProperties, EmptySeq, LenProperties
<1>2. ASSUME NEW i \in DOMAIN Tail(q), Tail(q)[i].user = u,
             \A j \in DOMAIN Tail(q) : j > i => Tail(q)[j].user # u
      PROVE  Tail(q)[i].online = b
  <2>1. i + 1 \in DOMAIN q /\ q[i + 1].user = u
    BY <1>1, <1>2
  <2>2. ASSUME NEW j \in DOMAIN q, j > i + 1
        PROVE  q[j].user # u
    <3>1. j - 1 \in DOMAIN Tail(q) /\ j - 1 > i /\ (j - 1) + 1 = j
      BY <1>1, <1>2, <2>2
    <3> QED
      BY <1>1, <1>2, <3>1
  <2> QED
    BY <1>1, <1>2, <2>1, <2>2 DEF EndsWith
<1>3. Queued(Tail(q), u) => Queued(q, u)
  BY <1>1 DEF Queued
<1>4. ASSUME Queued(q, u), ~Queued(Tail(q), u)
      PROVE  Head(q).user = u /\ Head(q).online = b
  <2>1. \A i \in DOMAIN q : i > 1 => q[i].user # u
    <3>1. \A i \in DOMAIN q : i > 1 => i - 1 \in DOMAIN Tail(q) /\ (i - 1) + 1 = i
      BY <1>1
    <3> QED
      BY <1>1, <1>4, <3>1 DEF Queued
  <2>2. 1 \in DOMAIN q /\ q[1].user = u
    BY <1>1, <1>4, <2>1 DEF Queued
  <2> QED
    BY <1>1, <2>1, <2>2 DEF EndsWith
<1>5. ~Queued(q, u) => Head(q).user # u
  BY <1>1 DEF Queued
<1> QED
  BY <1>2, <1>3, <1>4, <1>5 DEF EndsWith

\* A queue ends with the status that is appended, and for other users as it
\* did.
LEMMA AppendEnds ==
    ASSUME NEW q \in Seq(Status), NEW st \in Status, NEW u, NEW b
    PROVE  /\ st.user = u => Queued(Append(q, st), u)
           /\ st.user = u /\ st.online = b => EndsWith(Append(q, st), u, b)
           /\ st.user # u => /\ Queued(Append(q, st), u) <=> Queued(q, u)
                             /\ EndsWith(q, u, b) => EndsWith(Append(q, st), u, b)
<1> DEFINE n == Len(q) + 1
           a == Append(q, st)
<1>1. /\ Len(q) \in Nat /\ DOMAIN q = 1 .. Len(q) /\ DOMAIN a = 1 .. n
      /\ a[n] = st /\ \A i \in 1 .. Len(q) : a[i] = q[i]
  BY AppendProperties, LenProperties
<1> HIDE DEF a
<1>2. st.user = u => Queued(a, u)
  BY <1>1 DEF Queued
<1>3. ASSUME st.user = u, st.online = b
      PROVE  EndsWith(a, u, b)
  BY <1>1, <1>3 DEF EndsWith
<1>4. ASSUME st.user # u
      PROVE  Queued(a, u) <=> Queued(q, u)
  BY <1>1, <1>4 DEF Queued
<1>5. ASSUME st.user # u, EndsWith(q, u, b)
      PROVE  EndsWith(a, u, b)
  BY <1>1, <1>5 DEF EndsWith
<1> QED
  BY <1>2, <1>3, <1>4, <1>5 DEF a

\* The callback takes the first message.
LEMMA ArrivesTaken ==
    ASSUME NEW c \in Conn, NEW k, NEW u, NEW b,
           c.cb = {}, c.pending # <<>>, Arrives(c, k, u, b)
    PROVE  Arrives([c EXCEPT !.cb = {Head(c.pending)}, !.pending = Tail(c.pending)],
                   k, u, b)
<1> DEFINE d == [c EXCEPT !.cb = {Head(c.pending)}, !.pending = Tail(c.pending)]
<1>1. /\ d.cb = {Head(c.pending)} /\ d.pending = Tail(c.pending)
      /\ d.apiHeld = c.apiHeld /\ d.svcHeld = c.svcHeld
      /\ c.pending \in Seq(Status)
  BY DEF Conn
<1> HIDE DEF d
<1>2. /\ EndsWith(d.pending, u, b)
      /\ Queued(d.pending, u) => Queued(c.pending, u)
      /\ Queued(c.pending, u) /\ ~Queued(d.pending, u)
         => Head(c.pending).user = u /\ Head(c.pending).online = b
      /\ ~Queued(c.pending, u) => Head(c.pending).user # u
  BY <1>1, TailEnds DEF Arrives
<1>3. Arrives(d, k, u, b)
  BY <1>1, <1>2 DEF Arrives, Says, Carries
<1> QED
  BY <1>3 DEF d

\* The loop takes the status from the callback, and keeps it if it is not
\* that of its own user.
LEMMA ArrivesReceived ==
    ASSUME NEW c \in Conn, NEW k, NEW u, NEW b, NEW st, NEW next, NEW held,
           c.cb = {st}, c.apiHeld = {}, Arrives(c, k, u, b),
           held \subseteq {st}, st.user = u => held = {st}
    PROVE  Arrives([c EXCEPT !.cb = {}, !.api = next, !.apiHeld = held], k, u, b)
<1> DEFINE d == [c EXCEPT !.cb = {}, !.api = next, !.apiHeld = held]
<1>1. /\ d.cb = {} /\ d.apiHeld = held
      /\ d.pending = c.pending /\ d.svcHeld = c.svcHeld
  BY DEF Conn
<1> HIDE DEF d
<1>2. Arrives(d, k, u, b)
  BY <1>1 DEF Arrives, Says, Carries
<1> QED
  BY <1>2 DEF d

\* The handler takes the status from the loop.
LEMMA ArrivesForwarded ==
    ASSUME NEW c \in Conn, NEW k, NEW u, NEW b,
           c.svcHeld = {}, Arrives(c, k, u, b)
    PROVE  Arrives([c EXCEPT !.svcHeld = c.apiHeld, !.apiHeld = {},
                             !.api = "select", !.svc = "write"], k, u, b)
<1> DEFINE d == [c EXCEPT !.svcHeld = c.apiHeld, !.apiHeld = {},
                          !.api = "select", !.svc = "write"]
<1>1. /\ d.svcHeld = c.apiHeld /\ d.apiHeld = {}
      /\ d.pending = c.pending /\ d.cb = c.cb
  BY DEF Conn
<1> HIDE DEF d
<1>2. Arrives(d, k, u, b)
  BY <1>1 DEF Arrives, Says, Carries
<1> QED
  BY <1>2 DEF d

\* What a client is told by the status the handler holds.
Heard(S) == \E st \in S : st.online

\* The client gets the status the handler holds.
LEMMA ArrivesWritten ==
    ASSUME NEW c \in Conn, NEW k, NEW u, NEW b, NEW l,
           Arrives(c, k, u, b),
           Carries(c.svcHeld, u) => l = Heard(c.svcHeld),
           ~Carries(c.svcHeld, u) => l = k
    PROVE  Arrives([c EXCEPT !.svc = "range", !.svcHeld = {}], l, u, b)
<1> DEFINE d == [c EXCEPT !.svc = "range", !.svcHeld = {}]
<1>1. /\ d.svcHeld = {} /\ d.apiHeld = c.apiHeld
      /\ d.pending = c.pending /\ d.cb = c.cb
      /\ c.svcHeld \in AtMostOne(Status)
  BY DEF Conn
<1> HIDE DEF d
<1>2. ASSUME Carries(c.svcHeld, u)
      PROVE  \E st \in c.svcHeld : /\ st.user = u /\ st.online \in BOOLEAN
                                   /\ l <=> st.online
                                   /\ l \in BOOLEAN
  <2>1. PICK st \in c.svcHeld : st.user = u
    BY <1>2 DEF Carries
  <2>2. c.svcHeld = {st} /\ st \in Status
    BY <1>1, <2>1 DEF AtMostOne
  <2>3. st.online \in BOOLEAN
    BY <2>2 DEF Status
  <2>4. Heard(c.svcHeld) \in BOOLEAN /\ (Heard(c.svcHeld) <=> st.online)
    BY <2>2 DEF Heard
  <2> QED
    BY <1>2, <2>1, <2>3, <2>4
<1>3. Says(c.svcHeld, u, b) /\ (Carries(c.svcHeld, u) \/ k = b) => l = b
  BY <1>2 DEF Says
<1>4. Arrives(d, l, u, b)
  BY <1>1, <1>3 DEF Arrives, Carries, Says
<1> QED
  BY <1>4 DEF d

\* NATS appends a status to the queue.
LEMMA ArrivesAppended ==
    ASSUME NEW c \in Conn, NEW k, NEW u, NEW b, NEW st \in Status,
           \/ st.user = u /\ st.online = b
           \/ st.user # u /\ Arrives(c, k, u, b)
    PROVE  Arrives([c EXCEPT !.pending = Append(c.pending, st)], k, u, b)
<1> DEFINE d == [c EXCEPT !.pending = Append(c.pending, st)]
<1>1. /\ d.pending = Append(c.pending, st) /\ c.pending \in Seq(Status)
      /\ d.cb = c.cb /\ d.apiHeld = c.apiHeld /\ d.svcHeld = c.svcHeld
  BY DEF Conn
<1> HIDE DEF d
<1>2. Arrives(d, k, u, b)
  BY <1>1, AppendEnds DEF Arrives
<1> QED
  BY <1>2 DEF d

\* Nothing is on its way in a new session.
LEMMA ArrivesOpened ==
    ASSUME NEW u, NEW b
    PROVE  Arrives([NoConn EXCEPT !.svc = "range", !.api = "auth"], b, u, b)
BY DEF NoConn, Arrives, EndsWith, Queued, Says, Carries

-----------------------------------------------------------------------------
(* Steps of one session that leave the column and the publisher alone.     *)

TellsAt == {"tellOn", "tellOff"}

\* Session s becomes c; the rows, the column and the publisher stay.
Turns(s, c) ==
    /\ conn' = [conn EXCEPT ![s] = c]
    /\ UNCHANGED <<users, online, pub>>

\* A client learns when its stream opens and when the handler has written.
LEMMA LearnsNothing ==
    ASSUME Learn, NEW t \in Sessions,
           conn'[t].svc = conn[t].svc \/ conn'[t].svc # "range"
    PROVE  known'[t] = known[t]
BY DEF Learn, Opens, Writes

\* A stream that opens has its client look the column up; what is written to
\* a client who is there replaces what it knew.
LEMMA LearnsSomething ==
    ASSUME Learn, NEW t \in Sessions
    PROVE  /\ Opens(t) => known'[t] = Column(t)
           /\ Writes(t) => \A u \in Others(t) :
                 /\ Carries(conn[t].svcHeld, u)
                    => known'[t][u] = Heard(conn[t].svcHeld)
                 /\ ~Carries(conn[t].svcHeld, u)
                    => known'[t][u] = known[t][u]
<1> DEFINE W == [u \in Others(t) |->
                    IF \E st \in conn[t].svcHeld : st.user = u
                    THEN \E st \in conn[t].svcHeld : st.online
                    ELSE known[t][u]]
<1>1. known'[t] = CASE Opens(t)  -> Column(t)
                    [] Writes(t) -> W
                    [] OTHER     -> known[t]
  BY Zenon DEF Learn
<1>2. ~(Opens(t) /\ Writes(t))
  BY DEF Opens, Writes
<1>3. \A u \in Others(t) : W[u] = IF Carries(conn[t].svcHeld, u)
                                  THEN Heard(conn[t].svcHeld)
                                  ELSE known[t][u]
  BY DEF Carries, Heard
<1> HIDE DEF W
<1> QED
  BY <1>1, <1>2, <1>3

\* What a session that takes a step has to see to.
LEMMA TurnKeeps ==
    ASSUME TypeOK, WatchInv, Learn, lost \subseteq lost',
           NEW s \in Sessions, NEW c \in Conn, Turns(s, c),
           c.svc = "idle" => c = NoConn,
           c.api # "send" => c.apiHeld = {},
           c.svc # "write" => c.svcHeld = {},
           c.api = conn[s].api \/ (c.api \notin TellsAt /\ conn[s].api \notin TellsAt),
           \A u \in Others(s) \ lost :
              /\ Watches(c)
              /\ Watches(conn[s]) => Arrives(conn[s], known[s][u], u, online[u])
              => Arrives(c, known'[s][u], u, online[u])
    PROVE  WatchInv'
<1>1. /\ conn'[s] = c
      /\ \A t \in Sessions \ {s} : conn'[t] = conn[t]
  BY DEF Turns, TypeOK
<1>2. \A t \in Sessions \ {s} : known'[t] = known[t]
  BY <1>1, LearnsNothing
<1>3. HoldInv'
  BY <1>1 DEF WatchInv, HoldInv
<1>4. /\ \A t \in Sessions : Telling(t)' <=> Telling(t)
      /\ \A t \in Sessions : Telling(t) => conn'[t].api = conn[t].api
  BY <1>1 DEF Telling, TellsAt
<1>5. \A u : Silent(u)' <=> Silent(u)
  BY <1>4 DEF Silent
<1>6. users' = users /\ online' = online /\ pub' = pub
  BY DEF Turns
<1>7. AnnounceInv'
  BY <1>4, <1>5, <1>6 DEF WatchInv, AnnounceInv
<1>8. ASSUME NEW t \in Sessions, NEW u \in Others(t) \ lost',
             Watches(conn'[t]), Silent(u)', ~Carries(pub', u)
      PROVE  Arrives(conn'[t], known'[t][u], u, online'[u])
  <2>1. u \in Others(t) \ lost /\ Silent(u) /\ ~Carries(pub, u)
    BY <1>5, <1>6, <1>8
  <2>2. Watches(conn[t]) => Arrives(conn[t], known[t][u], u, online[u])
    BY <2>1 DEF WatchInv, ArriveInv
  <2>3. CASE t = s
    BY <1>1, <1>6, <1>8, <2>1, <2>2, <2>3
  <2>4. CASE t # s
    BY <1>1, <1>2, <1>6, <1>8, <2>2, <2>4
  <2> QED
    BY <2>3, <2>4
<1>9. ArriveInv'
  BY <1>8 DEF ArriveInv, Others, Watches, Carries
<1> QED
  BY <1>3, <1>7, <1>9 DEF WatchInv

\* A session that moves nothing towards its client.
LEMMA QuietTurn ==
    ASSUME TypeOK, WatchInv, Learn, lost \subseteq lost',
           NEW s \in Sessions, NEW c \in Conn, Turns(s, c),
           conn[s].svc # "idle", c.svc = conn[s].svc,
           c.pending = conn[s].pending, c.cb = conn[s].cb,
           c.apiHeld = conn[s].apiHeld, c.svcHeld = conn[s].svcHeld,
           conn[s].gone => c.gone,
           c.api = conn[s].api \/ {c.api, conn[s].api} \cap (TellsAt \cup {"send"}) = {}
    PROVE  WatchInv'
<1>1. /\ c.api # "send" => c.apiHeld = {}
      /\ c.svc # "write" => c.svcHeld = {}
  BY DEF WatchInv, HoldInv
<1>2. conn'[s] = c
  BY DEF Turns, TypeOK
<1>3. known'[s] = known[s]
  BY <1>2, LearnsNothing
<1>4. ASSUME NEW u \in Others(s) \ lost, Watches(c),
             Watches(conn[s]) => Arrives(conn[s], known[s][u], u, online[u])
      PROVE  Arrives(c, known'[s][u], u, online[u])
  <2>1. c.gone \in BOOLEAN /\ conn[s].gone \in BOOLEAN
    BY SessionFacts DEF Conn
  <2>2. Arrives(conn[s], known[s][u], u, online[u])
    BY <1>4, <2>1 DEF Watches
  <2> QED
    BY <1>3, <2>2 DEF Arrives
<1>5. c.api = conn[s].api \/ (c.api \notin TellsAt /\ conn[s].api \notin TellsAt)
  OBVIOUS
<1> QED
  BY <1>1, <1>4, <1>5, TurnKeeps

\* Clients open, beat, leave and stall.
LEMMA ClientWatch ==
    ASSUME TypeOK, WatchInv, Learn, lost \subseteq lost',
           NEW s \in Sessions, Open(s) \/ Recv(s) \/ Leave(s) \/ Stall(s)
    PROVE  WatchInv'
<1>1. /\ conn[s] \in Conn
      /\ conn[s].svc = "idle" => conn[s] = NoConn
  BY SessionFacts DEF WatchInv, HoldInv
<1>2. CASE Open(s)
  <2> DEFINE c == [NoConn EXCEPT !.svc = "range", !.api = "auth"]
  <2>1. c \in Conn /\ c.svc = "range" /\ c.api = "auth" /\ c.apiHeld = {}
        /\ c.svcHeld = {}
    BY NoConnIsConn DEF NoConn, Conn
  <2>2. conn[s] = NoConn /\ conn[s].svc = "idle"
    BY <1>1, <1>2, SessionFacts DEF Open
  <2>3. Turns(s, c)
    BY <1>2, <2>2 DEF Open, Becomes, Turns, dbVars
  <2>4. known'[s] = Column(s)
    <3>1. conn'[s] = c
      BY <2>3 DEF Turns, TypeOK
    <3>2. Opens(s)
      BY <2>1, <2>2, <3>1 DEF Opens
    <3> QED
      BY <3>2, LearnsSomething
  <2>5. \A u \in Others(s) : Arrives(c, known'[s][u], u, online[u])
    BY <2>4, ArrivesOpened DEF Column
  <2>6. c.api \notin TellsAt /\ conn[s].api \notin TellsAt
    BY <2>1, <2>2 DEF TellsAt, NoConn
  <2> HIDE DEF c
  <2> QED
    BY <2>1, <2>3, <2>5, <2>6, TurnKeeps
<1>3. CASE Recv(s)
  <2> DEFINE c == [conn[s] EXCEPT !.beat = TRUE]
  <2>1. Turns(s, c)
    BY <1>3 DEF Recv, Becomes, Turns, dbVars
  <2>2. /\ c \in Conn /\ c.svc = conn[s].svc /\ c.api = conn[s].api
        /\ c.pending = conn[s].pending /\ c.cb = conn[s].cb
        /\ c.apiHeld = conn[s].apiHeld /\ c.svcHeld = conn[s].svcHeld
        /\ c.gone = conn[s].gone /\ conn[s].svc # "idle"
    BY <1>1, <1>3, SessionFacts DEF Conn, Recv, Subscribed
  <2> HIDE DEF c
  <2> QED
    BY <2>1, <2>2, QuietTurn
<1>4. CASE Leave(s)
  <2> DEFINE c == [conn[s] EXCEPT !.gone = TRUE]
  <2>1. Turns(s, c)
    BY <1>4 DEF Leave, Becomes, Turns, dbVars
  <2>2. /\ c \in Conn /\ c.svc = conn[s].svc /\ c.api = conn[s].api
        /\ c.pending = conn[s].pending /\ c.cb = conn[s].cb
        /\ c.apiHeld = conn[s].apiHeld /\ c.svcHeld = conn[s].svcHeld
        /\ c.gone /\ conn[s].svc # "idle"
    BY <1>1, <1>4, SessionFacts DEF Conn, Leave, Subscribed
  <2> HIDE DEF c
  <2> QED
    BY <2>1, <2>2, QuietTurn
<1>5. CASE Stall(s)
  <2> DEFINE c == [conn[s] EXCEPT !.stalled = TRUE]
  <2>1. Turns(s, c)
    BY <1>5 DEF Stall, Becomes, Turns, dbVars
  <2>2. /\ c \in Conn /\ c.svc = conn[s].svc /\ c.api = conn[s].api
        /\ c.pending = conn[s].pending /\ c.cb = conn[s].cb
        /\ c.apiHeld = conn[s].apiHeld /\ c.svcHeld = conn[s].svcHeld
        /\ c.gone = conn[s].gone /\ conn[s].svc # "idle"
    BY <1>1, <1>5, SessionFacts DEF Conn, Stall, Subscribed
  <2> HIDE DEF c
  <2> QED
    BY <2>1, <2>2, QuietTurn
<1> QED
  BY <1>2, <1>3, <1>4, <1>5

\* The loop is elsewhere, or the timer or the heartbeat is.
LEMMA LoopTurn ==
    ASSUME TypeOK, WatchInv, Learn, lost \subseteq lost', NEW s \in Sessions,
           NEW api \in {"on", "exit", "off", "closing", "done", conn[s].api},
           NEW hb \in {"none", "armed", "late", "dead", "over"},
           NEW beat \in BOOLEAN,
           Turns(s, [conn[s] EXCEPT !.api = api, !.hb = hb, !.beat = beat]),
           \/ api = conn[s].api
           \/ conn[s].api \in {"auth", "on", "off", "select", "exit", "closing"},
           conn[s].svc # "idle"
    PROVE  WatchInv'
<1> DEFINE c == [conn[s] EXCEPT !.api = api, !.hb = hb, !.beat = beat]
<1>1. /\ c \in Conn /\ c.svc = conn[s].svc /\ c.api = api
      /\ c.pending = conn[s].pending /\ c.cb = conn[s].cb
      /\ c.apiHeld = conn[s].apiHeld /\ c.svcHeld = conn[s].svcHeld
      /\ c.gone = conn[s].gone
  BY SessionFacts DEF Conn
<1>2. c.api = conn[s].api \/ {c.api, conn[s].api} \cap (TellsAt \cup {"send"}) = {}
  BY <1>1 DEF TellsAt
<1>3. Turns(s, c)
  OBVIOUS
<1> HIDE DEF c
<1> QED
  BY <1>1, <1>2, <1>3, QuietTurn

\* The loop and its goroutines, where they move no status.
LEMMA LoopWatch ==
    ASSUME TypeOK, WatchInv, Learn, lost \subseteq lost', NEW s \in Sessions,
           \/ Authenticate(s) \/ SetFails(s) \/ ContextDone(s) \/ Dead(s)
           \/ CloseChanges(s) \/ CloseProto(s) \/ Heartbeat(s)
    PROVE  WatchInv'
<1>1. /\ conn[s] \in Conn
      /\ conn[s].hb \in {"none", "armed", "late", "dead", "over"}
      /\ conn[s].beat \in BOOLEAN
  BY SessionFacts DEF Conn
<1>2. \/ conn[s].api # "none" \/ conn[s].beat \/ conn[s].hb # "none"
      => conn[s].svc # "idle"
  BY DEF WatchInv, HoldInv, NoConn
<1>3. CASE Authenticate(s)
  <2>1. /\ Turns(s, [conn[s] EXCEPT !.api = IF s.user \in users THEN "on" ELSE "exit",
                                 !.hb = conn[s].hb, !.beat = conn[s].beat])
        /\ conn[s].svc # "idle"
    BY <1>1, <1>2, <1>3 DEF Authenticate, Becomes, dbVars, Turns, Conn
  <2> QED
    BY <1>1, <1>3, <2>1, LoopTurn DEF Authenticate
<1>4. CASE SetFails(s)
  <2>1. /\ Turns(s, [conn[s] EXCEPT !.api = "exit",
                                 !.hb = conn[s].hb, !.beat = conn[s].beat])
        /\ conn[s].svc # "idle"
    BY <1>1, <1>2, <1>4 DEF SetFails, TypeOK, Turns, Conn
  <2> QED
    BY <1>1, <1>4, <2>1, LoopTurn DEF SetFails
<1>5. CASE ContextDone(s) \/ Dead(s)
  <2>1. /\ Turns(s, [conn[s] EXCEPT !.api = "off",
                                 !.hb = "over", !.beat = conn[s].beat])
        /\ conn[s].svc # "idle"
    BY <1>1, <1>2, <1>5 DEF ContextDone, Dead, Deferred, Becomes, dbVars, Turns, Conn
  <2> QED
    BY <1>1, <1>5, <2>1, LoopTurn DEF ContextDone, Dead
<1>6. CASE CloseChanges(s)
  <2>1. /\ Turns(s, [conn[s] EXCEPT !.api = "closing",
                                 !.hb = conn[s].hb, !.beat = conn[s].beat])
        /\ conn[s].svc # "idle"
    BY <1>1, <1>2, <1>6 DEF CloseChanges, Becomes, dbVars, Turns, Conn
  <2> QED
    BY <1>1, <1>6, <2>1, LoopTurn DEF CloseChanges
<1>7. CASE CloseProto(s)
  <2>1. /\ Turns(s, [conn[s] EXCEPT !.api = "done",
                                 !.hb = conn[s].hb, !.beat = conn[s].beat])
        /\ conn[s].svc # "idle"
    BY <1>1, <1>2, <1>7 DEF CloseProto, Closed, Becomes, dbVars, Turns, Conn
  <2> QED
    BY <1>1, <1>7, <2>1, LoopTurn DEF CloseProto
<1>8. CASE TakeBeat(s)
  <2>1. /\ Turns(s, [conn[s] EXCEPT !.api = conn[s].api,
                                 !.hb = conn[s].hb, !.beat = FALSE])
        /\ conn[s].svc # "idle"
    BY <1>1, <1>2, <1>8 DEF TakeBeat, Becomes, dbVars, Turns, Conn
  <2> QED
    BY <1>1, <1>8, <2>1, LoopTurn DEF TakeBeat
<1>9. CASE Timer(s)
  <2>1. /\ Turns(s, [conn[s] EXCEPT !.api = conn[s].api,
                                 !.hb = "late", !.beat = conn[s].beat])
        /\ conn[s].svc # "idle"
    BY <1>1, <1>2, <1>9 DEF Timer, Becomes, dbVars, Turns, Conn
  <2> QED
    BY <1>1, <1>9, <2>1, LoopTurn DEF Timer
<1>10. CASE TimeOut(s)
  <2>1. /\ Turns(s, [conn[s] EXCEPT !.api = conn[s].api,
                                 !.hb = "dead", !.beat = conn[s].beat])
        /\ conn[s].svc # "idle"
    BY <1>1, <1>2, <1>10 DEF TimeOut, Becomes, dbVars, Turns, Conn
  <2> QED
    BY <1>1, <1>10, <2>1, LoopTurn DEF TimeOut
<1> QED
  BY <1>3, <1>4, <1>5, <1>6, <1>7, <1>8, <1>9, <1>10 DEF Heartbeat

-----------------------------------------------------------------------------
(* Steps that move a status.                                               *)

\* The callback takes a message, the loop the status of another user or its
\* own, and the handler a status of another.
LEMMA MoveWatch ==
    ASSUME TypeOK, WatchInv, Learn, lost \subseteq lost', NEW s \in Sessions,
           TakeMessage(s) \/ Receive(s) \/ Forward(s)
    PROVE  WatchInv'
<1>1. /\ conn[s] \in Conn
      /\ conn[s].svc = "idle" => conn[s] = NoConn
      /\ conn[s].api # "send" => conn[s].apiHeld = {}
      /\ conn[s].svc # "write" => conn[s].svcHeld = {}
  BY SessionFacts DEF WatchInv, HoldInv
<1>2. CASE TakeMessage(s)
  <2> DEFINE c == [conn[s] EXCEPT !.cb = {Head(conn[s].pending)},
                                  !.pending = Tail(conn[s].pending)]
  <2>1. Turns(s, c) /\ conn[s].cb = {} /\ conn[s].pending # <<>>
    BY <1>2 DEF TakeMessage, Becomes, Turns, dbVars
  <2>2. conn[s].svc # "idle"
    BY <1>1, <2>1 DEF NoConn
  <2>3. c \in Conn
    <3>1. /\ Head(conn[s].pending) \in Status
          /\ Tail(conn[s].pending) \in Seq(Status)
      BY <1>1, <2>1, HeadTailProperties DEF Conn
    <3>2. {Head(conn[s].pending)} \in AtMostOne(Status)
      BY <3>1 DEF AtMostOne
    <3> QED
      BY <1>1, <3>1, <3>2 DEF Conn
  <2>4. /\ c.svc = conn[s].svc /\ c.api = conn[s].api /\ c.gone = conn[s].gone
        /\ c.apiHeld = conn[s].apiHeld /\ c.svcHeld = conn[s].svcHeld
    BY <1>1 DEF Conn
  <2>5. \A k, u, b : Arrives(conn[s], k, u, b) => Arrives(c, k, u, b)
    BY <1>1, <2>1, ArrivesTaken
  <2> HIDE DEF c
  <2>6. known'[s] = known[s]
    BY <2>1, <2>4, LearnsNothing DEF Turns, TypeOK
  <2>7. Watches(c) <=> Watches(conn[s])
    BY <2>4 DEF Watches
  <2> QED
    BY <1>1, <2>1, <2>2, <2>3, <2>4, <2>5, <2>6, <2>7, TurnKeeps
<1>3. CASE Receive(s)
  <2>1. PICK st \in conn[s].cb :
          Becomes(s, [conn[s] EXCEPT
                     !.cb = {},
                     !.api = IF IsForeign(s, st) THEN "send" ELSE "select",
                     !.apiHeld = IF IsForeign(s, st) THEN {st} ELSE {}])
    BY <1>3 DEF Receive
  <2> DEFINE next == IF IsForeign(s, st) THEN "send" ELSE "select"
             held == IF IsForeign(s, st) THEN {st} ELSE {}
             c == [conn[s] EXCEPT !.cb = {}, !.api = next, !.apiHeld = held]
  <2>2. Turns(s, c) /\ conn[s].api = "select"
    BY <1>3, <2>1 DEF Receive, Becomes, Turns, dbVars
  <2>3. conn[s].svc # "idle" /\ conn[s].apiHeld = {}
    BY <1>1, <2>2 DEF NoConn
  <2>4. conn[s].cb = {st} /\ st \in Status
    BY <1>1, <2>1 DEF Conn, AtMostOne
  <2>5. next \in {"send", "select"} /\ held \in AtMostOne(Status)
        /\ (next # "send" => held = {}) /\ held \subseteq {st}
        /\ (st.user # s.user => held = {st})
    BY <2>4 DEF IsForeign, AtMostOne
  <2> HIDE DEF next, held
  <2>6. c \in Conn /\ c.svc = conn[s].svc /\ c.gone = conn[s].gone
        /\ c.api = next /\ c.apiHeld = held /\ c.svcHeld = conn[s].svcHeld
    BY <1>1, <2>5, NothingHeld DEF Conn
  <2>7. \A u \in Others(s) : \A k, b :
           Arrives(conn[s], k, u, b) => Arrives(c, k, u, b)
    <3> SUFFICES ASSUME NEW u \in Others(s), NEW k, NEW b, Arrives(conn[s], k, u, b)
                 PROVE  Arrives(c, k, u, b)
      OBVIOUS
    <3>1. st.user = u => held = {st}
      BY <2>5 DEF Others
    <3> QED
      BY <1>1, <2>3, <2>4, <2>5, <3>1, ArrivesReceived
  <2> HIDE DEF c
  <2>8. known'[s] = known[s]
    BY <2>2, <2>6, LearnsNothing DEF Turns, TypeOK
  <2>9. Watches(c) <=> Watches(conn[s])
    BY <2>6 DEF Watches
  <2>10. c.api \notin TellsAt /\ conn[s].api \notin TellsAt
    BY <2>2, <2>5, <2>6 DEF TellsAt
  <2> QED
    BY <1>1, <2>2, <2>3, <2>5, <2>6, <2>7, <2>8, <2>9, <2>10, TurnKeeps
<1>4. CASE Forward(s)
  <2> DEFINE c == [conn[s] EXCEPT !.svcHeld = conn[s].apiHeld, !.apiHeld = {},
                                  !.api = "select", !.svc = "write"]
  <2>1. Turns(s, c) /\ conn[s].api = "send" /\ conn[s].svc = "range"
    BY <1>4 DEF Forward, Becomes, Turns, dbVars
  <2>2. /\ c \in Conn /\ c.svc = "write" /\ c.api = "select" /\ c.apiHeld = {}
        /\ c.gone = conn[s].gone
    BY <1>1, NothingHeld DEF Conn
  <2>3. \A k, u, b : Arrives(conn[s], k, u, b) => Arrives(c, k, u, b)
    BY <1>1, <2>1, ArrivesForwarded
  <2> HIDE DEF c
  <2>4. known'[s] = known[s]
    <3>1. conn'[s] = c
      BY <2>1 DEF Turns, TypeOK
    <3>2. conn'[s].svc # "range"
      BY <2>2, <3>1
    <3> QED
      BY <3>2, LearnsNothing
  <2>5. Watches(c) <=> Watches(conn[s])
    BY <2>1, <2>2 DEF Watches
  <2>6. c.api \notin TellsAt /\ conn[s].api \notin TellsAt
    BY <2>1, <2>2 DEF TellsAt
  <2> QED
    BY <2>1, <2>2, <2>3, <2>4, <2>5, <2>6, TurnKeeps
<1> QED
  BY <1>2, <1>3, <1>4

\* The handler hands the status to its client, or returns.
LEMMA HandlerWatch ==
    ASSUME TypeOK, WatchInv, Learn, lost \subseteq lost', NEW s \in Sessions,
           Handler(s)
    PROVE  WatchInv'
<1>1. /\ conn[s] \in Conn
      /\ conn[s].api # "send" => conn[s].apiHeld = {}
      /\ conn[s].svc # "write" => conn[s].svcHeld = {}
  BY SessionFacts DEF WatchInv, HoldInv
<1>2. CASE Write(s)
  <2> DEFINE c == [conn[s] EXCEPT !.svc = "range", !.svcHeld = {}]
  <2>1. Turns(s, c) /\ conn[s].svc = "write"
    BY <1>2 DEF Write, Becomes, Turns, dbVars
  <2>2. /\ c \in Conn /\ c.svc = "range" /\ c.svcHeld = {} /\ c.api = conn[s].api
        /\ c.apiHeld = conn[s].apiHeld /\ c.gone = conn[s].gone
    BY <1>1, NothingHeld DEF Conn
  <2>3. ASSUME NEW u \in Others(s) \ lost, Watches(c),
               Watches(conn[s]) => Arrives(conn[s], known[s][u], u, online[u])
        PROVE  Arrives(c, known'[s][u], u, online[u])
    <3>1. Arrives(conn[s], known[s][u], u, online[u])
      BY <2>1, <2>2, <2>3 DEF Watches
    <3>2. conn'[s] = c
      BY <2>1 DEF Turns, TypeOK
    <3>3. Writes(s)
      BY <2>1, <2>2, <2>3, <3>2 DEF Writes, Watches
    <3>4. /\ Carries(conn[s].svcHeld, u) => known'[s][u] = Heard(conn[s].svcHeld)
          /\ ~Carries(conn[s].svcHeld, u) => known'[s][u] = known[s][u]
      BY <3>3, LearnsSomething
    <3> QED
      BY <1>1, <3>1, <3>4, ArrivesWritten
  <2> HIDE DEF c
  <2> QED
    BY <1>1, <2>1, <2>2, <2>3, TurnKeeps
<1>3. CASE WriteFails(s) \/ Return(s)
  <2> DEFINE c == [conn[s] EXCEPT !.svc = "returned", !.svcHeld = {},
                                  !.pending = <<>>, !.beat = FALSE]
  <2>1. Turns(s, c)
    <3>1. CASE WriteFails(s)
      BY <3>1 DEF WriteFails, Becomes, Turns, dbVars
    <3>2. CASE Return(s)
      <4>1. conn[s].svcHeld = {}
        BY <1>1, <3>2 DEF Return
      <4>2. c = [conn[s] EXCEPT !.svc = "returned", !.pending = <<>>, !.beat = FALSE]
        BY <1>1, <4>1 DEF Conn
      <4> QED
        BY <3>2, <4>2 DEF Return, Becomes, Turns, dbVars
    <3> QED
      BY <1>3, <3>1, <3>2
  <2>2. /\ c \in Conn /\ c.svc = "returned" /\ c.svcHeld = {}
        /\ c.api = conn[s].api /\ c.apiHeld = conn[s].apiHeld
    BY <1>1, NothingHeld DEF Conn
  <2> HIDE DEF c
  <2>3. ~Watches(c)
    BY <2>2 DEF Watches
  <2> QED
    BY <1>1, <2>1, <2>2, <2>3, TurnKeeps
<1> QED
  BY <1>2, <1>3 DEF Handler

-----------------------------------------------------------------------------
(* The column, its announcement and the publisher.                         *)

\* A step that leaves every session where it is, as far as what it holds and
\* how it watches are concerned, teaches no client anything.
SameStreams ==
    \A s \in Sessions :
        /\ conn'[s].svc = conn[s].svc /\ conn'[s].gone = conn[s].gone
        /\ conn'[s].pending = conn[s].pending /\ conn'[s].cb = conn[s].cb
        /\ conn'[s].apiHeld = conn[s].apiHeld /\ conn'[s].svcHeld = conn[s].svcHeld

\* The UPDATE at the start and the deferred one at the end: the session will
\* tell what it has written, and nobody else tells of the user.
LEMMA UpdateWatch ==
    ASSUME TypeOK, WatchInv, Learn, NEW s \in Sessions,
           SetOnline(s) \/ SetOffline(s),
           lost' = lost \cup Dropped \cup Overtaken \cup Unannounced
    PROVE  WatchInv'
<1>1. s.user \in UserIDs /\ conn[s] \in Conn
  BY SessionFacts
<1>2. PICK status \in BOOLEAN, next \in TellsAt :
         /\ conn' = [conn EXCEPT ![s] = [conn[s] EXCEPT !.api = next]]
         /\ online' = [online EXCEPT ![s.user] = status /\ s.user \in users]
         /\ status = (next = "tellOn")
         /\ conn[s].api \in {"on", "off"}
         /\ pub' = pub /\ users' = users
  BY DEF SetOnline, SetOffline, SetStatus, TellsAt, TypeOK
<1>3. /\ conn'[s] = [conn[s] EXCEPT !.api = next] /\ conn'[s].api = next
      /\ \A t \in Sessions \ {s} : conn'[t] = conn[t]
      /\ SameStreams
  BY <1>1, <1>2 DEF TypeOK, Conn, SameStreams
<1>4. ~Telling(s) /\ Telling(s)'
  BY <1>2, <1>3 DEF Telling, TellsAt
<1>5. HoldInv'
  <2>1. conn[s] # NoConn
    BY <1>2 DEF NoConn
  <2> QED
    BY <1>2, <1>3, <2>1 DEF WatchInv, HoldInv, SameStreams
<1>6. ASSUME NEW u \in UserIDs \ lost'
      PROVE  /\ u \in users'
             /\ \A t \in Sessions : t.user = u /\ Telling(t)'
                                    => online'[u] = (conn'[t].api = "tellOn")
             /\ Silent(u)' => Says(pub', u, online'[u])
  <2>1. u \notin lost /\ u \notin Overtaken
    BY <1>6
  <2>2. CASE u = s.user
    <3>1. \A t \in Sessions : t.user = u => ~Telling(t)
      BY <1>4, <2>1, <2>2 DEF Overtaken, Sets
    <3>2. \A t \in Sessions \ {s} : t.user = u => ~Telling(t)'
      BY <1>3, <3>1 DEF Telling
    <3>3. u \in users /\ online'[u] = status
      BY <1>2, <2>1, <2>2 DEF WatchInv, AnnounceInv, TypeOK
    <3>4. ~Silent(u)'
      BY <1>4, <2>2 DEF Silent
    <3> QED
      BY <1>2, <1>3, <3>2, <3>3, <3>4
  <2>3. CASE u # s.user
    <3>1. online'[u] = online[u]
      BY <1>2, <2>3 DEF TypeOK
    <3>2. \A t \in Sessions : t.user = u => conn'[t] = conn[t]
      BY <1>3, <2>3
    <3>3. \A t \in Sessions : t.user = u => (Telling(t)' <=> Telling(t))
      BY <3>2 DEF Telling
    <3>4. Silent(u)' <=> Silent(u)
      BY <3>3 DEF Silent
    <3>5. /\ u \in users
          /\ \A t \in Sessions : t.user = u /\ Telling(t)
                                 => online[u] = (conn[t].api = "tellOn")
          /\ Silent(u) => Says(pub, u, online[u])
      BY <2>1 DEF WatchInv, AnnounceInv
    <3>6. users' = users /\ pub' = pub
      BY <1>2
    <3> QED
      BY <3>1, <3>2, <3>3, <3>4, <3>5, <3>6
  <2> QED
    BY <2>2, <2>3
<1>7. AnnounceInv'
  BY <1>6 DEF AnnounceInv
<1>8. \A t \in Sessions : known'[t] = known[t]
  BY <1>3, LearnsNothing DEF SameStreams
<1>9. ASSUME NEW t \in Sessions, NEW u \in Others(t) \ lost',
             Watches(conn'[t]), Silent(u)', ~Carries(pub', u)
      PROVE  Arrives(conn'[t], known'[t][u], u, online'[u])
  <2>1. u # s.user
    BY <1>4, <1>9 DEF Silent
  <2>2. online'[u] = online[u] /\ Silent(u)
    BY <1>2, <1>3, <1>9, <2>1 DEF TypeOK, Others, Silent, Telling
  <2>3. Watches(conn[t])
    BY <1>3, <1>9 DEF Watches, SameStreams
  <2>4. Arrives(conn[t], known[t][u], u, online[u])
    BY <1>2, <1>9, <2>2, <2>3 DEF WatchInv, ArriveInv
  <2> QED
    BY <1>3, <1>8, <2>2, <2>4 DEF Arrives, SameStreams
<1> QED
  BY <1>5, <1>7, <1>9 DEF WatchInv, ArriveInv, Others, Watches, Carries

\* An announcement is handed to the publisher, which is free.
LEMMA TellWatch ==
    ASSUME TypeOK, WatchInv, Learn, lost \subseteq lost', NEW s \in Sessions,
           TellOn(s) \/ TellOff(s)
    PROVE  WatchInv'
<1>1. s.user \in UserIDs /\ conn[s] \in Conn
  BY SessionFacts
<1>2. PICK st \in Status, next \in {"select", "exit"} :
         /\ st.user = s.user /\ st.online = (conn[s].api = "tellOn")
         /\ pub = {} /\ pub' = {st}
         /\ conn'[s].api = next /\ Telling(s)
         /\ \A t \in Sessions \ {s} : conn'[t] = conn[t]
         /\ SameStreams /\ online' = online /\ users' = users
  <2>1. CASE TellOn(s)
    <3> DEFINE st == [user |-> s.user, online |-> TRUE]
    <3>1. st \in Status /\ st.user = s.user /\ st.online = TRUE
      BY <1>1 DEF Status
    <3>2. /\ pub = {} /\ pub' = {st} /\ conn[s].api = "tellOn"
          /\ online' = online /\ users' = users
      BY <2>1 DEF TellOn, PublisherFree, dbVars
    <3>3. /\ conn'[s].api = "select" /\ Telling(s)
          /\ \A t \in Sessions \ {s} : conn'[t] = conn[t]
          /\ SameStreams
      BY <1>1, <2>1 DEF TellOn, Telling, SameStreams, TypeOK, Conn
    <3> HIDE DEF st
    <3> QED
      BY <3>1, <3>2, <3>3
  <2>2. CASE TellOff(s)
    <3> DEFINE st == [user |-> s.user, online |-> FALSE]
    <3>1. st \in Status /\ st.user = s.user /\ st.online = FALSE
      BY <1>1 DEF Status
    <3>2. /\ pub = {} /\ pub' = {st} /\ conn[s].api = "tellOff"
          /\ online' = online /\ users' = users
      BY <2>2 DEF TellOff, PublisherFree, dbVars
    <3>3. /\ conn'[s].api = "exit" /\ Telling(s)
          /\ \A t \in Sessions \ {s} : conn'[t] = conn[t]
          /\ SameStreams
      BY <1>1, <2>2 DEF TellOff, Telling, SameStreams, TypeOK, Conn
    <3> HIDE DEF st
    <3> QED
      BY <3>1, <3>2, <3>3
  <2> QED
    BY <2>1, <2>2
<1>3. HoldInv'
  <2>1. conn[s] # NoConn /\ conn[s].api # "send"
    BY <1>2 DEF NoConn, Telling
  <2> QED
    BY <1>2, <2>1 DEF WatchInv, HoldInv, SameStreams
<1>4. \A t \in Sessions : Telling(t)' => t # s /\ Telling(t) /\ conn'[t] = conn[t]
  BY <1>2 DEF Telling
<1>5. ASSUME NEW u \in UserIDs \ lost'
      PROVE  /\ u \in users'
             /\ \A t \in Sessions : t.user = u /\ Telling(t)'
                                    => online'[u] = (conn'[t].api = "tellOn")
             /\ Silent(u)' => Says(pub', u, online'[u])
  <2>1. /\ u \in users
        /\ \A t \in Sessions : t.user = u /\ Telling(t)
                               => online[u] = (conn[t].api = "tellOn")
    BY <1>5 DEF WatchInv, AnnounceInv
  <2>2. Says(pub', u, online'[u])
    BY <1>2, <2>1 DEF Says
  <2> QED
    BY <1>2, <1>4, <2>1, <2>2
<1>6. AnnounceInv'
  BY <1>5 DEF AnnounceInv
<1>7. \A t \in Sessions : known'[t] = known[t]
  BY <1>2, LearnsNothing DEF SameStreams
<1>8. ASSUME NEW t \in Sessions, NEW u \in Others(t) \ lost',
             Watches(conn'[t]), Silent(u)', ~Carries(pub', u)
      PROVE  Arrives(conn'[t], known'[t][u], u, online'[u])
  <2>1. u # s.user
    BY <1>2, <1>8 DEF Carries
  <2>2. Silent(u) /\ ~Carries(pub, u)
    BY <1>2, <1>8, <2>1 DEF Silent, Telling, Carries
  <2>3. Watches(conn[t])
    BY <1>2, <1>8 DEF Watches, SameStreams
  <2>4. Arrives(conn[t], known[t][u], u, online[u])
    BY <1>8, <2>2, <2>3 DEF WatchInv, ArriveInv
  <2> QED
    BY <1>2, <1>7, <2>4 DEF Arrives, SameStreams
<1> QED
  BY <1>3, <1>6, <1>8 DEF WatchInv, ArriveInv, Others, Watches, Carries

\* The publisher puts its status in every queue that has room, or drops it
\* for everybody; who misses it has lost its user.
LEMMA PublishWatch ==
    ASSUME TypeOK, WatchInv, Learn, Publish \/ PublishFails,
           lost' = lost \cup Dropped \cup Overtaken \cup Unannounced
    PROVE  WatchInv'
<1> DEFINE takes(s, st) == [conn[s] EXCEPT !.pending = Append(conn[s].pending, st)]
<1>1. PICK st \in Status :
         /\ pub = {st} /\ pub' = {} /\ online' = online /\ users' = users
         /\ \A s \in Sessions :
               \/ conn'[s] = conn[s]
               \/ conn'[s] = takes(s, st) /\ Subscribed(s)
  <2>1. PICK st \in Status : pub = {st}
    BY DEF TypeOK, AtMostOne, Publish, PublishFails
  <2>2. /\ pub' = {} /\ online' = online /\ users' = users
    BY <2>1 DEF Publish, PublishFails, dbVars
  <2>3. ASSUME NEW s \in Sessions
        PROVE  \/ conn'[s] = conn[s]
               \/ conn'[s] = takes(s, st) /\ Subscribed(s)
    BY <2>1 DEF Publish, PublishFails
  <2> QED
    BY <2>1, <2>2, <2>3
<1>2. \A s \in Sessions : conn[s] \in Conn
  BY SessionFacts
<1>3. \A s \in Sessions :
         LET d == takes(s, st)
         IN  /\ d.svc = conn[s].svc /\ d.api = conn[s].api /\ d.gone = conn[s].gone
             /\ d.cb = conn[s].cb /\ d.apiHeld = conn[s].apiHeld
             /\ d.svcHeld = conn[s].svcHeld
             /\ d.pending = Append(conn[s].pending, st)
             /\ d.pending # conn[s].pending
  <2> SUFFICES ASSUME NEW s \in Sessions
               PROVE  LET d == takes(s, st)
                      IN  /\ d.svc = conn[s].svc /\ d.api = conn[s].api
                          /\ d.gone = conn[s].gone
                          /\ d.cb = conn[s].cb /\ d.apiHeld = conn[s].apiHeld
                          /\ d.svcHeld = conn[s].svcHeld
                          /\ d.pending = Append(conn[s].pending, st)
                          /\ d.pending # conn[s].pending
    OBVIOUS
  <2>1. conn[s].pending \in Seq(Status)
    BY <1>2 DEF Conn
  <2>2. Append(conn[s].pending, st) # conn[s].pending
    BY <2>1, AppendProperties, LenProperties
  <2> QED
    BY <1>2, <2>2 DEF Conn
<1> HIDE DEF takes
<1>4. \A s \in Sessions : /\ conn'[s].svc = conn[s].svc
                          /\ conn'[s].api = conn[s].api
                          /\ conn'[s].gone = conn[s].gone
                          /\ conn'[s].apiHeld = conn[s].apiHeld
                          /\ conn'[s].svcHeld = conn[s].svcHeld
  BY <1>1, <1>3
<1>5. HoldInv'
  BY <1>1, <1>4 DEF WatchInv, HoldInv, Subscribed
<1>6. \A u : Silent(u)' <=> Silent(u)
  BY <1>4 DEF Silent, Telling
<1>7. AnnounceInv'
  BY <1>1, <1>4, <1>6 DEF WatchInv, AnnounceInv, Telling, Says
<1>8. \A s \in Sessions : known'[s] = known[s]
  BY <1>4, LearnsNothing
<1>9. ASSUME NEW s \in Sessions, NEW u \in Others(s) \ lost',
             Watches(conn'[s]), Silent(u)', ~Carries(pub', u)
      PROVE  Arrives(conn'[s], known'[s][u], u, online'[u])
  <2>1. u \in UserIDs \ lost /\ Silent(u) /\ Watches(conn[s]) /\ Subscribed(s)
    BY <1>4, <1>6, <1>9 DEF Others, Watches, Subscribed
  <2>2. CASE st.user = u
    <3>1. st.online = online[u]
      BY <1>1, <2>1, <2>2 DEF WatchInv, AnnounceInv, Says
    <3>2. ~Misses(s)
      <4>1. u \notin Dropped
        BY <1>9
      <4> QED
        BY <1>1, <2>1, <2>2, <4>1 DEF Dropped
    <3>3. conn'[s] = takes(s, st)
      BY <1>1, <2>1, <3>2 DEF Misses
    <3>4. Arrives(takes(s, st), known[s][u], u, online[u])
      BY <1>2, <2>2, <3>1, ArrivesAppended DEF takes
    <3> QED
      BY <1>1, <1>8, <3>3, <3>4
  <2>3. CASE st.user # u
    <3>1. Arrives(conn[s], known[s][u], u, online[u])
      BY <1>1, <1>9, <2>1, <2>3 DEF WatchInv, ArriveInv, Carries
    <3>2. Arrives(takes(s, st), known[s][u], u, online[u])
      BY <1>2, <2>3, <3>1, ArrivesAppended DEF takes
    <3> QED
      BY <1>1, <1>8, <3>1, <3>2
  <2> QED
    BY <2>2, <2>3
<1> QED
  BY <1>5, <1>7, <1>9 DEF WatchInv, ArriveInv, Others, Watches, Carries

\* A row that comes or goes, or a column that is written behind the sessions,
\* is lost on those who watch.
LEMMA RowWatch ==
    ASSUME TypeOK, WatchInv, Learn,
           \/ \E k \in Saves : ReadRow(k) \/ SaveRow(k)
           \/ \E u \in Managed : RegisterUser(u) \/ RemoveUser(u)
           \/ UNCHANGED vars,
           lost' = lost \cup Dropped \cup Overtaken \cup Unannounced
    PROVE  WatchInv'
<1>1. conn' = conn /\ pub' = pub
  BY DEF ReadRow, SaveRow, RegisterUser, RemoveUser, vars
<1>2. HoldInv'
  BY <1>1 DEF WatchInv, HoldInv
<1>3. /\ \A s \in Sessions : Telling(s)' <=> Telling(s)
      /\ \A s \in Sessions : ~Sets(s)
      /\ \A u : Silent(u)' <=> Silent(u)
  BY <1>1 DEF Telling, Silent, Sets
<1>4. \A u \in UserIDs \ lost' :
         /\ u \in UserIDs \ lost
         /\ u \in users' <=> u \in users
         /\ online'[u] = online[u]
  BY <1>3 DEF Unannounced
<1>5. AnnounceInv'
  BY <1>1, <1>3, <1>4 DEF WatchInv, AnnounceInv
<1>6. \A s \in Sessions : known'[s] = known[s]
  BY <1>1, LearnsNothing
<1>7. ArriveInv'
  BY <1>1, <1>3, <1>4, <1>6 DEF WatchInv, ArriveInv, Others
<1> QED
  BY <1>2, <1>5, <1>7 DEF WatchInv

\* Nobody watches, or is about to tell, when the process has restarted.
LEMMA RestartWatch ==
    ASSUME TypeOK, WatchInv, Restart, lost \subseteq lost'
    PROVE  WatchInv'
<1> DEFINE ended == [NoConn EXCEPT !.svc = "returned", !.api = "done", !.hb = "over"]
<1>1. /\ ended.svc = "returned" /\ ended.api = "done"
      /\ ended.apiHeld = {} /\ ended.svcHeld = {}
  BY DEF NoConn
<1> HIDE DEF ended
<1>2. \A s \in Sessions : \/ conn[s].svc = "idle" /\ conn'[s] = NoConn
                          \/ conn[s].svc # "idle" /\ conn'[s] = ended
  BY DEF Restart, WatchInv, HoldInv, ended
<1>3. \A s \in Sessions : ~Watches(conn'[s]) /\ ~Telling(s)'
  BY <1>1, <1>2 DEF Watches, Telling, NoConn
<1>4. HoldInv'
  BY <1>1, <1>2 DEF HoldInv, NoConn
<1>5. pub' = {} /\ users' = users
  BY DEF Restart
<1> QED
  BY <1>3, <1>4, <1>5 DEF WatchInv, AnnounceInv, ArriveInv, Says, Watches

-----------------------------------------------------------------------------
(* The theorem.                                                            *)

\* The newest status on the way to a client is the column.
LEMMA NextWatch ==
    TypeOK /\ WatchInv /\ [WatchNext]_watchVars => WatchInv'
<1> SUFFICES ASSUME TypeOK, WatchInv, [WatchNext]_watchVars
             PROVE  WatchInv'
  OBVIOUS
<1>1. CASE UNCHANGED watchVars
  BY <1>1 DEF watchVars, vars, WatchInv, HoldInv, AnnounceInv, ArriveInv,
        Others, Silent, Telling
<1>2. CASE WatchNext
  <2>1. /\ Next /\ Learn
        /\ lost' = lost \cup Dropped \cup Overtaken \cup Unannounced
        /\ lost \subseteq lost'
    BY <1>2 DEF WatchNext
  <2>2. CASE Client
    BY <2>1, <2>2, ClientWatch DEF Client, May
  <2>3. ASSUME NEW s \in Sessions, Subscription(s)
        PROVE  WatchInv'
    BY <2>1, <2>3, LoopWatch, MoveWatch, UpdateWatch, TellWatch DEF Subscription
  <2>4. ASSUME NEW s \in Sessions, Callback(s) \/ Handler(s) \/ Heartbeat(s)
        PROVE  WatchInv'
    BY <2>1, <2>4, MoveWatch, HandlerWatch, LoopWatch, RestartWatch
       DEF Callback, SendOnClosed
  <2>5. CASE Publish
    BY <2>1, <2>5, PublishWatch
  <2>6. CASE Fault
    BY <2>1, <2>6, LoopWatch, PublishWatch, RestartWatch DEF Fault, Crash
  <2>7. CASE \/ \E k \in Saves : ReadRow(k) \/ SaveRow(k)
             \/ \E u \in Managed : RegisterUser(u) \/ RemoveUser(u)
    BY <2>1, <2>7, RowWatch
  <2> QED
    BY <2>1, <2>2, <2>3, <2>4, <2>5, <2>6, <2>7 DEF Next, Progress
<1> QED
  BY <1>1, <1>2

\* Nobody watches at first.
LEMMA InitWatch == WatchInit => WatchInv
<1> SUFFICES ASSUME WatchInit
             PROVE  WatchInv
  OBVIOUS
<1>1. \A s \in Sessions : conn[s] = NoConn
  BY DEF WatchInit, Init
<1>2. users = UserIDs /\ pub = {}
  BY DEF WatchInit, Init
<1> QED
  BY <1>1, <1>2 DEF WatchInv, HoldInv, AnnounceInv, ArriveInv, NoConn, Watches,
        Telling, Says

\* Presence with the clients who watch behaves as Presence.
LEMMA WatchIsPresence == WatchSpec => Spec
<1>1. WatchInit => Init
  BY DEF WatchInit
<1>2. [WatchNext]_watchVars => [Next]_vars
  BY DEF WatchNext, watchVars
<1> QED
  BY <1>1, <1>2, PTL DEF WatchSpec, Spec

\* The route of a status is as WatchInv says, whatever clients, saves,
\* failures and crashes do meanwhile.
THEOREM WatchInvariant == WatchSpec => []WatchInv
<1>1. TypeOK /\ WatchInv /\ [WatchNext]_watchVars => WatchInv'
  BY NextWatch
<1> QED
  BY <1>1, InitWatch, WatchIsPresence, TypeCorrect, PTL DEF WatchSpec

\* Once nothing is on its way, a client knows the column of every other user
\* of whom no announcement was dropped, overtaken or never made.
THEOREM WatcherRight == WatchSpec => []WatcherIsRight
<1>1. WatchInv => WatcherIsRight
  <2> SUFFICES ASSUME WatchInv, NEW s \in Sessions, NEW u \in Others(s) \ lost,
                      Settled(s, u)
               PROVE  known[s][u] = online[u]
    BY DEF WatcherIsRight
  <2>1. /\ Watches(conn[s]) /\ Silent(u) /\ ~Carries(pub, u)
        /\ conn[s].pending = <<>> /\ conn[s].cb = {}
        /\ conn[s].apiHeld = {} /\ conn[s].svcHeld = {}
    BY DEF Settled, Watches, Silent, Carries, WatchInv, HoldInv
  <2>2. Arrives(conn[s], known[s][u], u, online[u])
    BY <2>1 DEF WatchInv, ArriveInv
  <2> QED
    BY <2>1, <2>2 DEF Arrives, Queued, Carries
<1> QED
  BY <1>1, WatchInvariant, PTL
=============================================================================
