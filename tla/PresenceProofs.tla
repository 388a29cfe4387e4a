--------------------------- MODULE PresenceProofs ---------------------------
(***************************************************************************)
(* Proofs about Presence, for any users, sessions and profile updates,     *)
(* whatever fails.                                                         *)
(***************************************************************************)
EXTENDS Presence, SequenceTheorems, TLAPS

\* The column of a row that is not there is FALSE: who is registered anew
\* starts offline.
NoRowNoColumn == \A u \in UserIDs : online[u] => u \in users

\* A subscription runs only in a stream that was opened.
IdleRunsNothing == \A s \in Sessions : conn[s].svc = "idle" => conn[s].api = "none"

PresenceInv == TypeOK /\ NoRowNoColumn /\ IdleRunsNothing /\ PresenceIsRight

\* Where in its loop a session is active.
ActiveAt == {"tellOn", "select", "send", "off"}

\* What it takes to know of a session.
LEMMA SessionFacts ==
    ASSUME TypeOK, NEW s \in Sessions
    PROVE  conn[s] \in Conn /\ s.user \in UserIDs
BY SessionsAssumption DEF TypeOK

\* A session that was not opened is of the type of sessions.
LEMMA NoConnIsConn == NoConn \in Conn
BY DEF NoConn, Conn, AtMostOne

\* Empty hands and empty queues have their types.
LEMMA NothingHeld == {} \in AtMostOne(Status) /\ <<>> \in Seq(Status)
BY EmptySeq DEF AtMostOne

\* A step of one session that leaves it as active as it was, and the rows
\* alone, keeps the invariant.
LEMMA QuietStep ==
    ASSUME PresenceInv, NEW s \in Sessions, NEW c \in Conn, Becomes(s, c),
           c.api \in ActiveAt <=> Active(s),
           c.svc = "idle" => c.api = "none"
    PROVE  PresenceInv'
<1>1. TypeOK'
  BY DEF PresenceInv, TypeOK, Becomes, dbVars
<1>2. \A t \in Sessions : Active(t)' <=> Active(t)
  BY DEF PresenceInv, TypeOK, Becomes, Active, ActiveAt
<1>3. ActiveUsers' = ActiveUsers
  BY <1>2 DEF ActiveUsers
<1>4. IdleRunsNothing'
  BY DEF PresenceInv, TypeOK, IdleRunsNothing, Becomes
<1> QED
  BY <1>1, <1>3, <1>4 DEF PresenceInv, PresenceIsRight, NoRowNoColumn, Becomes, dbVars

\* At first nobody is online, and nobody active.
LEMMA InitInv == Init => PresenceInv
<1> SUFFICES ASSUME Init
             PROVE  PresenceInv
  OBVIOUS
<1>1. TypeOK
  BY NoConnIsConn DEF Init, TypeOK, AtMostOne
<1>2. ActiveUsers = {}
  BY DEF Init, ActiveUsers, Active, NoConn
<1> QED
  BY <1>1, <1>2 DEF Init, PresenceInv, PresenceIsRight, NoRowNoColumn,
        IdleRunsNothing, NoConn

\* What clients do.
LEMMA ClientStep == PresenceInv /\ Client => PresenceInv'
<1> SUFFICES ASSUME PresenceInv, Client
             PROVE  PresenceInv'
  OBVIOUS
<1>1. ASSUME NEW s \in Sessions, Open(s)
      PROVE  PresenceInv'
  <2> DEFINE c == [conn[s] EXCEPT !.svc = "range", !.api = "auth"]
  <2>1. conn[s] \in Conn /\ conn[s].api = "none"
    BY <1>1, SessionFacts DEF PresenceInv, IdleRunsNothing, Open
  <2>2. /\ c \in Conn /\ c.svc # "idle"
        /\ c.api \in ActiveAt <=> Active(s)
    BY <2>1 DEF Conn, ActiveAt, Active
  <2> QED
    BY <1>1, <2>2, QuietStep DEF Open
<1>2. ASSUME NEW s \in Sessions, Recv(s)
      PROVE  PresenceInv'
  <2> DEFINE c == [conn[s] EXCEPT !.beat = TRUE]
  <2>1. /\ c \in Conn /\ c.svc # "idle"
        /\ c.api \in ActiveAt <=> Active(s)
    BY <1>2, SessionFacts DEF PresenceInv, Conn, ActiveAt, Active, Recv, Subscribed
  <2> QED
    BY <1>2, <2>1, QuietStep DEF Recv
<1>3. ASSUME NEW s \in Sessions, Leave(s)
      PROVE  PresenceInv'
  <2> DEFINE c == [conn[s] EXCEPT !.gone = TRUE]
  <2>1. /\ c \in Conn /\ c.svc # "idle"
        /\ c.api \in ActiveAt <=> Active(s)
    BY <1>3, SessionFacts DEF PresenceInv, Conn, ActiveAt, Active, Leave, Subscribed
  <2> QED
    BY <1>3, <2>1, QuietStep DEF Leave
<1>4. ASSUME NEW s \in Sessions, Stall(s)
      PROVE  PresenceInv'
  <2> DEFINE c == [conn[s] EXCEPT !.stalled = TRUE]
  <2>1. /\ c \in Conn /\ c.svc # "idle"
        /\ c.api \in ActiveAt <=> Active(s)
    BY <1>4, SessionFacts DEF PresenceInv, Conn, ActiveAt, Active, Stall, Subscribed
  <2> QED
    BY <1>4, <2>1, QuietStep DEF Stall
<1> QED
  BY <1>1, <1>2, <1>3, <1>4 DEF Client, May

\* Heartbeats and the timer.
LEMMA HeartbeatStep ==
    ASSUME PresenceInv, NEW s \in Sessions, Heartbeat(s)
    PROVE  PresenceInv'
<1>1. /\ conn[s] \in Conn
      /\ conn[s].svc = "idle" => conn[s].api = "none"
  BY SessionFacts DEF PresenceInv, IdleRunsNothing
<1>2. CASE TakeBeat(s)
  <2> DEFINE c == [conn[s] EXCEPT !.beat = FALSE]
  <2>1. c \in Conn /\ c.api = conn[s].api /\ c.svc = conn[s].svc
    BY <1>1 DEF Conn
  <2> QED
    BY <1>1, <1>2, <2>1, QuietStep DEF TakeBeat, Active, ActiveAt
<1>3. CASE Timer(s)
  <2> DEFINE c == [conn[s] EXCEPT !.hb = "late"]
  <2>1. c \in Conn /\ c.api = conn[s].api /\ c.svc = conn[s].svc
    BY <1>1 DEF Conn
  <2> QED
    BY <1>1, <1>3, <2>1, QuietStep DEF Timer, Active, ActiveAt
<1>4. CASE TimeOut(s)
  <2> DEFINE c == [conn[s] EXCEPT !.hb = "dead"]
  <2>1. c \in Conn /\ c.api = conn[s].api /\ c.svc = conn[s].svc
    BY <1>1 DEF Conn
  <2> QED
    BY <1>1, <1>4, <2>1, QuietStep DEF TimeOut, Active, ActiveAt
<1> QED
  BY <1>2, <1>3, <1>4 DEF Heartbeat

\* Steps of the loop of a subscription that write nothing.
LEMMA LoopStep ==
    ASSUME PresenceInv, NEW s \in Sessions,
           \/ Authenticate(s) \/ Receive(s) \/ ContextDone(s) \/ Dead(s)
           \/ CloseChanges(s) \/ CloseProto(s) \/ Forward(s)
    PROVE  PresenceInv'
<1>1. /\ conn[s] \in Conn
      /\ conn[s].svc = "idle" => conn[s].api = "none"
  BY SessionFacts DEF PresenceInv, IdleRunsNothing
<1>2. CASE Authenticate(s)
  <2> DEFINE c == [conn[s] EXCEPT !.api = IF s.user \in users THEN "on" ELSE "exit"]
  <2>1. /\ c \in Conn /\ c.svc # "idle"
        /\ c.api \in ActiveAt <=> Active(s)
    BY <1>1, <1>2 DEF Authenticate, Conn, ActiveAt, Active
  <2> QED
    BY <1>2, <2>1, QuietStep DEF Authenticate
<1>3. CASE Receive(s)
  <2>1. PICK st \in conn[s].cb :
          Becomes(s, [conn[s] EXCEPT
                     !.cb = {},
                     !.api = IF IsForeign(s, st) THEN "send" ELSE "select",
                     !.apiHeld = IF IsForeign(s, st) THEN {st} ELSE {}])
    BY <1>3 DEF Receive
  <2> DEFINE c == [conn[s] EXCEPT
                     !.cb = {},
                     !.api = IF IsForeign(s, st) THEN "send" ELSE "select",
                     !.apiHeld = IF IsForeign(s, st) THEN {st} ELSE {}]
  <2>2. st \in Status
    BY <1>1, <2>1 DEF Conn, AtMostOne
  <2>3. {} \in AtMostOne(Status) /\ {st} \in AtMostOne(Status)
    BY <2>2 DEF AtMostOne
  <2>4. /\ c \in Conn /\ c.svc # "idle"
        /\ c.api \in ActiveAt <=> Active(s)
    BY <1>1, <1>3, <2>3 DEF Receive, Conn, ActiveAt, Active
  <2> QED
    BY <2>1, <2>4, QuietStep
<1>4. CASE ContextDone(s)
  <2> DEFINE c == [conn[s] EXCEPT !.api = Deferred, !.hb = "over"]
  <2>1. /\ c \in Conn /\ c.svc # "idle"
        /\ c.api \in ActiveAt <=> Active(s)
    BY <1>1, <1>4 DEF ContextDone, Conn, ActiveAt, Active, Deferred
  <2> QED
    BY <1>4, <2>1, QuietStep DEF ContextDone
<1>5. CASE Dead(s)
  <2> DEFINE c == [conn[s] EXCEPT !.api = Deferred, !.hb = "over"]
  <2>1. /\ c \in Conn /\ c.svc # "idle"
        /\ c.api \in ActiveAt <=> Active(s)
    BY <1>1, <1>5 DEF Dead, Conn, ActiveAt, Active, Deferred
  <2> QED
    BY <1>5, <2>1, QuietStep DEF Dead
<1>6. CASE CloseChanges(s)
  <2> DEFINE c == [conn[s] EXCEPT !.api = "closing"]
  <2>1. /\ c \in Conn /\ c.svc # "idle"
        /\ c.api \in ActiveAt <=> Active(s)
    BY <1>1, <1>6 DEF CloseChanges, Conn, ActiveAt, Active
  <2> QED
    BY <1>6, <2>1, QuietStep DEF CloseChanges
<1>7. CASE CloseProto(s)
  <2> DEFINE c == [conn[s] EXCEPT !.api = Closed]
  <2>1. /\ c \in Conn /\ c.svc # "idle"
        /\ c.api \in ActiveAt <=> Active(s)
    BY <1>1, <1>7 DEF CloseProto, Conn, ActiveAt, Active, Closed
  <2> QED
    BY <1>7, <2>1, QuietStep DEF CloseProto
<1>8. CASE Forward(s)
  <2> DEFINE c == [conn[s] EXCEPT !.svcHeld = conn[s].apiHeld, !.apiHeld = {},
                                !.api = "select", !.svc = "write"]
  <2>1. /\ c \in Conn /\ c.svc # "idle"
        /\ c.api \in ActiveAt <=> Active(s)
    BY <1>1, <1>8 DEF Forward, Conn, ActiveAt, Active, AtMostOne
  <2> QED
    BY <1>8, <2>1, QuietStep DEF Forward
<1> QED
  BY <1>2, <1>3, <1>4, <1>5, <1>6, <1>7, <1>8

\* The callback takes a message, and the handler writes, fails or returns.
LEMMA StreamStep ==
    ASSUME PresenceInv, NEW s \in Sessions,
           TakeMessage(s) \/ Handler(s)
    PROVE  PresenceInv'
<1>1. /\ conn[s] \in Conn
      /\ conn[s].svc = "idle" => conn[s].api = "none"
  BY SessionFacts DEF PresenceInv, IdleRunsNothing
<1>2. CASE TakeMessage(s)
  <2> DEFINE c == [conn[s] EXCEPT !.cb = {Head(conn[s].pending)},
                                  !.pending = Tail(@)]
  <2>1. /\ Head(conn[s].pending) \in Status
        /\ Tail(conn[s].pending) \in Seq(Status)
    BY <1>1, <1>2, HeadTailProperties DEF TakeMessage, Conn
  <2>2. {Head(conn[s].pending)} \in AtMostOne(Status)
    BY <2>1 DEF AtMostOne
  <2>3. c \in Conn /\ c.api = conn[s].api /\ c.svc = conn[s].svc
    BY <1>1, <2>1, <2>2 DEF Conn
  <2> QED
    BY <1>1, <1>2, <2>3, QuietStep DEF TakeMessage, Active, ActiveAt
<1>3. CASE Write(s)
  <2> DEFINE c == [conn[s] EXCEPT !.svc = "range", !.svcHeld = {}]
  <2>1. c \in Conn /\ c.api = conn[s].api /\ c.svc # "idle"
    BY <1>1 DEF Conn, AtMostOne
  <2> QED
    BY <1>3, <2>1, QuietStep DEF Write, Active, ActiveAt
<1>4. CASE WriteFails(s)
  <2> DEFINE c == [conn[s] EXCEPT !.svc = "returned", !.svcHeld = {},
                                !.pending = <<>>, !.beat = FALSE]
  <2>1. c \in Conn /\ c.api = conn[s].api /\ c.svc # "idle"
    BY <1>1, NothingHeld DEF Conn
  <2> QED
    BY <1>4, <2>1, QuietStep DEF WriteFails, Active, ActiveAt
<1>5. CASE Return(s)
  <2> DEFINE c == [conn[s] EXCEPT !.svc = "returned", !.pending = <<>>,
                                !.beat = FALSE]
  <2>1. c \in Conn /\ c.api = conn[s].api /\ c.svc # "idle"
    BY <1>1, NothingHeld DEF Conn
  <2> QED
    BY <1>5, <2>1, QuietStep DEF Return, Active, ActiveAt
<1> QED
  BY <1>2, <1>3, <1>4, <1>5 DEF Handler

\* A session at another place of its loop: nobody else is concerned.
LEMMA Moved ==
    ASSUME TypeOK, IdleRunsNothing, NEW s \in Sessions, conn[s].api # "none",
           NEW next \in {"tellOn", "select", "tellOff", "exit"},
           conn' = [conn EXCEPT ![s].api = next]
    PROVE  /\ conn' \in [Sessions -> Conn]
           /\ IdleRunsNothing'
           /\ Active(s)' <=> next \in ActiveAt
           /\ \A t \in Sessions \ {s} : Active(t)' <=> Active(t)
           /\ \A u \in UserIDs \ {s.user} : u \in ActiveUsers' <=> u \in ActiveUsers
<1>1. conn[s] \in Conn
  BY SessionFacts
<1>2. [conn[s] EXCEPT !.api = next] \in Conn
  BY <1>1 DEF Conn
<1>3. conn' = [conn EXCEPT ![s] = [conn[s] EXCEPT !.api = next]]
  BY DEF TypeOK
<1>4. conn' \in [Sessions -> Conn]
  BY <1>2, <1>3 DEF TypeOK
<1>5. /\ conn'[s].api = next /\ conn'[s].svc = conn[s].svc
      /\ \A t \in Sessions \ {s} : conn'[t] = conn[t]
  BY <1>1, <1>3 DEF TypeOK, Conn
<1>6. IdleRunsNothing'
  BY <1>5 DEF IdleRunsNothing
<1>7. Active(s)' <=> next \in ActiveAt
  BY <1>5 DEF Active, ActiveAt
<1>8. \A t \in Sessions \ {s} : Active(t)' <=> Active(t)
  BY <1>5 DEF Active
<1>9. \A u \in UserIDs \ {s.user} : u \in ActiveUsers' <=> u \in ActiveUsers
  BY <1>8 DEF ActiveUsers
<1> QED
  BY <1>4, <1>6, <1>7, <1>8, <1>9

\* The UPDATE at the start and the deferred one at the end.
LEMMA UpdateStep ==
    ASSUME PresenceInv, NEW s \in Sessions, SetOnline(s) \/ SetOffline(s)
    PROVE  PresenceInv'
<1>1. s.user \in UserIDs /\ TypeOK /\ IdleRunsNothing
  BY SessionFacts DEF PresenceInv
<1>2. /\ users' = users /\ pub' = pub /\ save' = save
      /\ \E b \in BOOLEAN : online' = [online EXCEPT ![s.user] = b /\ s.user \in users]
      /\ disturbed' \in {disturbed \cup {s.user}, disturbed \ {s.user}}
  BY DEF SetOnline, SetOffline, SetStatus, With
<1>3. /\ online' \in [UserIDs -> BOOLEAN]
      /\ \A u \in UserIDs \ {s.user} : online'[u] = online[u]
      /\ NoRowNoColumn'
  BY <1>1, <1>2 DEF TypeOK, PresenceInv, NoRowNoColumn
<1>4. CASE SetOnline(s)
  <2>1. conn' = [conn EXCEPT ![s].api = "tellOn"] /\ conn[s].api = "on"
    BY <1>4 DEF SetOnline, SetStatus
  <2>2. /\ conn' \in [Sessions -> Conn] /\ IdleRunsNothing' /\ Active(s)'
        /\ \A u \in UserIDs \ {s.user} : u \in ActiveUsers' <=> u \in ActiveUsers
    BY <1>1, <2>1, Moved DEF ActiveAt
  <2>3. TypeOK'
    BY <1>1, <1>2, <1>3, <2>2 DEF TypeOK
  <2>4. s.user \in ActiveUsers' /\ (s.user \in users => online'[s.user])
    BY <1>1, <1>4, <2>2 DEF ActiveUsers, SetOnline, SetStatus, TypeOK
  <2>5. PresenceIsRight'
    BY <1>1, <1>2, <1>3, <2>2, <2>4 DEF PresenceInv, PresenceIsRight, TypeOK
  <2> QED
    BY <1>3, <2>2, <2>3, <2>5 DEF PresenceInv
<1>5. CASE SetOffline(s)
  <2>1. conn' = [conn EXCEPT ![s].api = "tellOff"] /\ conn[s].api = "off"
    BY <1>5 DEF SetOffline, SetStatus
  <2>2. /\ conn' \in [Sessions -> Conn] /\ IdleRunsNothing' /\ ~Active(s)'
        /\ \A t \in Sessions \ {s} : Active(t)' <=> Active(t)
        /\ \A u \in UserIDs \ {s.user} : u \in ActiveUsers' <=> u \in ActiveUsers
    BY <1>1, <2>1, Moved DEF ActiveAt
  <2>3. TypeOK'
    BY <1>1, <1>2, <1>3, <2>2 DEF TypeOK
  <2>4. ~online'[s.user]
    BY <1>1, <1>5 DEF SetOffline, SetStatus, TypeOK
  <2>5. s.user \in ActiveUsers' => s.user \in disturbed'
    <3>1. s.user \in ActiveUsers' =>
              \E t \in Sessions \ {s} : t.user = s.user /\ Active(t)
      BY <2>2 DEF ActiveUsers
    <3> QED
      BY <1>5, <3>1 DEF SetOffline, With
  <2>6. PresenceIsRight'
    BY <1>1, <1>2, <1>3, <2>2, <2>4, <2>5 DEF PresenceInv, PresenceIsRight, TypeOK
  <2> QED
    BY <1>3, <2>2, <2>3, <2>6 DEF PresenceInv
<1> QED
  BY <1>4, <1>5

\* An UPDATE that fails.
LEMMA FailedUpdateStep ==
    ASSUME PresenceInv, NEW s \in Sessions, SetFails(s)
    PROVE  PresenceInv'
<1>1. s.user \in UserIDs /\ TypeOK /\ IdleRunsNothing
  BY SessionFacts DEF PresenceInv
<1>2. /\ conn' \in [Sessions -> Conn] /\ IdleRunsNothing' /\ ~Active(s)'
      /\ \A t \in Sessions \ {s} : Active(t)' <=> Active(t)
      /\ \A u \in UserIDs \ {s.user} : u \in ActiveUsers' <=> u \in ActiveUsers
  BY <1>1, Moved DEF ActiveAt, SetFails
<1>3. TypeOK'
  BY <1>1, <1>2 DEF TypeOK, SetFails
<1>4. s.user \in disturbed' \/ (s.user \in ActiveUsers' <=> s.user \in ActiveUsers)
  BY <1>2 DEF ActiveUsers, SetFails
<1>5. PresenceIsRight'
  BY <1>1, <1>2, <1>4 DEF PresenceInv, PresenceIsRight, TypeOK, SetFails
<1> QED
  BY <1>2, <1>3, <1>5 DEF PresenceInv, NoRowNoColumn, SetFails

\* An announcement is handed to the publisher: the session is as active as
\* it was.
LEMMA TellStep ==
    ASSUME PresenceInv, NEW s \in Sessions, TellOn(s) \/ TellOff(s)
    PROVE  PresenceInv'
<1>1. s.user \in UserIDs /\ conn[s] \in Conn /\ TypeOK /\ IdleRunsNothing
  BY SessionFacts DEF PresenceInv
<1>2. pub' \in AtMostOne(Status)
  <2>1. \E b \in BOOLEAN : pub' = {[user |-> s.user, online |-> b]}
    BY DEF TellOn, TellOff, PublisherFree
  <2> QED
    BY <1>1, <2>1 DEF AtMostOne, Status
<1>3. PICK c \in Conn : /\ conn' = [conn EXCEPT ![s] = c]
                        /\ c.svc = conn[s].svc /\ c.svc # "idle"
                        /\ c.api \in ActiveAt <=> Active(s)
  <2>1. CASE TellOn(s)
    <3> DEFINE c == [conn[s] EXCEPT !.api = "select", !.hb = "armed"]
    <3>1. conn' = [conn EXCEPT ![s] = c]
      BY <1>1, <2>1 DEF TellOn, TypeOK
    <3>2. /\ c \in Conn /\ c.svc = conn[s].svc /\ c.svc # "idle"
          /\ c.api \in ActiveAt <=> Active(s)
      BY <1>1, <2>1 DEF TellOn, Conn, Active, ActiveAt, IdleRunsNothing
    <3> QED
      BY <3>1, <3>2
  <2>2. CASE TellOff(s)
    <3> DEFINE c == [conn[s] EXCEPT !.api = "exit"]
    <3>1. conn' = [conn EXCEPT ![s] = c]
      BY <1>1, <2>2 DEF TellOff, TypeOK
    <3>2. /\ c \in Conn /\ c.svc = conn[s].svc /\ c.svc # "idle"
          /\ c.api \in ActiveAt <=> Active(s)
      BY <1>1, <2>2 DEF TellOff, Conn, Active, ActiveAt, IdleRunsNothing
    <3> QED
      BY <3>1, <3>2
  <2> QED
    BY <2>1, <2>2
<1>4. UNCHANGED dbVars
  BY DEF TellOn, TellOff
<1>5. TypeOK' /\ IdleRunsNothing'
  BY <1>1, <1>2, <1>3, <1>4 DEF TypeOK, dbVars, IdleRunsNothing
<1>6. \A t \in Sessions : Active(t)' <=> Active(t)
  BY <1>1, <1>3 DEF TypeOK, Active, ActiveAt
<1>7. ActiveUsers' = ActiveUsers
  BY <1>6 DEF ActiveUsers
<1> QED
  BY <1>4, <1>5, <1>7 DEF PresenceInv, PresenceIsRight, NoRowNoColumn, dbVars

\* The publisher fills the queues, or fails.
LEMMA PublishStep == PresenceInv /\ (Publish \/ PublishFails) => PresenceInv'
<1> SUFFICES ASSUME PresenceInv, Publish \/ PublishFails
             PROVE  PresenceInv'
  OBVIOUS
<1>1. TypeOK
  BY DEF PresenceInv
<1>2. /\ pub' \in AtMostOne(Status) /\ UNCHANGED dbVars
      /\ conn' \in [Sessions -> Conn]
      /\ \A s \in Sessions : conn'[s].api = conn[s].api /\ conn'[s].svc = conn[s].svc
  <2>1. CASE PublishFails
    BY <1>1, <2>1, NothingHeld DEF PublishFails, TypeOK
  <2>2. ASSUME NEW st \in pub,
               conn' = [s \in Sessions |->
                          IF Subscribed(s) /\ HasRoom(s)
                          THEN [conn[s] EXCEPT !.pending = Append(@, st)]
                          ELSE conn[s]]
        PROVE  /\ conn' \in [Sessions -> Conn]
               /\ \A s \in Sessions : /\ conn'[s].api = conn[s].api
                                      /\ conn'[s].svc = conn[s].svc
    <3>1. st \in Status
      BY <1>1 DEF TypeOK, AtMostOne
    <3>2. ASSUME NEW s \in Sessions
          PROVE  LET c == [conn[s] EXCEPT !.pending = Append(@, st)]
                 IN  c \in Conn /\ c.api = conn[s].api /\ c.svc = conn[s].svc
      <4>1. conn[s] \in Conn
        BY <1>1, SessionFacts
      <4>2. Append(conn[s].pending, st) \in Seq(Status)
        BY <3>1, <4>1, AppendProperties DEF Conn
      <4> QED
        BY <4>1, <4>2 DEF Conn
    <3>3. \A s \in Sessions : conn[s] \in Conn
      BY <1>1, SessionFacts
    <3> QED
      BY <2>2, <3>2, <3>3
  <2>3. CASE Publish
    <3>1. PICK st \in pub :
            /\ conn' = [s \in Sessions |->
                          IF Subscribed(s) /\ HasRoom(s)
                          THEN [conn[s] EXCEPT !.pending = Append(@, st)]
                          ELSE conn[s]]
            /\ pub' = pub \ {st} /\ UNCHANGED dbVars
      BY <2>3 DEF Publish
    <3>2. pub' \in AtMostOne(Status)
      BY <1>1, <3>1 DEF TypeOK, AtMostOne
    <3> QED
      BY <2>2, <3>1, <3>2
  <2> QED
    BY <2>1, <2>3
<1>3. TypeOK' /\ IdleRunsNothing'
  BY <1>1, <1>2 DEF PresenceInv, TypeOK, dbVars, IdleRunsNothing
<1>4. ActiveUsers' = ActiveUsers
  BY <1>2 DEF ActiveUsers, Active
<1> QED
  BY <1>2, <1>3, <1>4 DEF PresenceInv, PresenceIsRight, NoRowNoColumn, dbVars

\* Profiles and rows: no session takes a step.
LEMMA RowStep ==
    ASSUME PresenceInv,
           \/ \E k \in Saves : ReadRow(k) \/ SaveRow(k)
           \/ \E u \in Managed : RegisterUser(u) \/ RemoveUser(u)
    PROVE  PresenceInv'
<1>1. TypeOK /\ conn' = conn /\ pub' = pub
  BY DEF PresenceInv, ReadRow, SaveRow, RegisterUser, RemoveUser
<1>2. ActiveUsers' = ActiveUsers /\ (IdleRunsNothing => IdleRunsNothing')
  BY <1>1 DEF ActiveUsers, Active, IdleRunsNothing
<1>3. ASSUME NEW k \in Saves, ReadRow(k)
      PROVE  PresenceInv'
  BY <1>1, <1>2, <1>3 DEF PresenceInv, TypeOK, PresenceIsRight, NoRowNoColumn, ReadRow
<1>4. ASSUME NEW k \in Saves, SaveRow(k)
      PROVE  PresenceInv'
  <2>1. k.user \in UserIDs
    BY SavesAssumption
  <2>2. TypeOK'
    BY <1>1, <1>4, <2>1 DEF TypeOK, SaveRow
  <2>3. NoRowNoColumn' /\ PresenceIsRight'
    BY <1>1, <1>2, <1>4, <2>1 DEF PresenceInv, TypeOK, NoRowNoColumn, PresenceIsRight, SaveRow
  <2> QED
    BY <1>2, <2>2, <2>3 DEF PresenceInv
<1>5. ASSUME NEW u \in Managed, RegisterUser(u)
      PROVE  PresenceInv'
  <2>1. u \in UserIDs
    BY BoundsAssumption
  <2>2. TypeOK'
    BY <1>1, <1>5, <2>1 DEF TypeOK, RegisterUser, With
  <2>3. NoRowNoColumn' /\ PresenceIsRight'
    BY <1>1, <1>2, <1>5, <2>1 DEF PresenceInv, TypeOK, NoRowNoColumn, PresenceIsRight,
          RegisterUser, With
  <2> QED
    BY <1>2, <2>2, <2>3 DEF PresenceInv
<1>6. ASSUME NEW u \in Managed, RemoveUser(u)
      PROVE  PresenceInv'
  <2>1. u \in UserIDs
    BY BoundsAssumption
  <2>2. TypeOK'
    BY <1>1, <1>6, <2>1 DEF TypeOK, RemoveUser
  <2>3. NoRowNoColumn' /\ PresenceIsRight'
    BY <1>1, <1>2, <1>6, <2>1 DEF PresenceInv, TypeOK, NoRowNoColumn, PresenceIsRight,
          RemoveUser
  <2> QED
    BY <1>2, <2>2, <2>3 DEF PresenceInv
<1> QED
  BY <1>3, <1>4, <1>5, <1>6

\* A crash or a panic: nobody is active afterwards, and whoever was is
\* disturbed.
LEMMA RestartStep == PresenceInv /\ Restart => PresenceInv'
<1> SUFFICES ASSUME PresenceInv, Restart
             PROVE  PresenceInv'
  OBVIOUS
<1> DEFINE ended == [NoConn EXCEPT !.svc = "returned", !.api = "done", !.hb = "over"]
<1>1. ended \in Conn /\ ended.api = "done" /\ ended.svc = "returned"
  BY NoConnIsConn DEF Conn, NoConn
<1>2. /\ TypeOK /\ ActiveUsers \subseteq UserIDs
      /\ \A s \in Sessions : conn'[s] = IF conn[s].svc = "idle" THEN conn[s] ELSE ended
  BY SessionsAssumption DEF PresenceInv, ActiveUsers, Restart
<1>3. TypeOK'
  <2>1. conn' \in [Sessions -> Conn]
    BY <1>1, <1>2 DEF TypeOK, Restart
  <2> QED
    BY <1>2, <2>1, NothingHeld DEF TypeOK, Restart
<1>4. IdleRunsNothing' /\ ActiveUsers' = {}
  BY <1>1, <1>2 DEF PresenceInv, IdleRunsNothing, ActiveUsers, Active
<1> QED
  BY <1>2, <1>3, <1>4 DEF PresenceInv, NoRowNoColumn, PresenceIsRight, Restart, TypeOK

\* The invariant is inductive.
LEMMA NextInv == PresenceInv /\ [Next]_vars => PresenceInv'
<1> SUFFICES ASSUME PresenceInv, [Next]_vars
             PROVE  PresenceInv'
  OBVIOUS
<1>1. CASE Client
  BY <1>1, ClientStep
<1>2. CASE Progress
  <2>1. ASSUME NEW s \in Sessions, Subscription(s)
        PROVE  PresenceInv'
    BY <2>1, LoopStep, UpdateStep, TellStep DEF Subscription
  <2>2. ASSUME NEW s \in Sessions, Callback(s) \/ Handler(s)
        PROVE  PresenceInv'
    BY <2>2, StreamStep, RestartStep DEF Callback, SendOnClosed
  <2> QED
    BY <1>2, <2>1, <2>2, PublishStep DEF Progress
<1>3. CASE Fault
  BY <1>3, FailedUpdateStep, PublishStep, RestartStep DEF Fault, Crash
<1>4. ASSUME NEW s \in Sessions, Heartbeat(s)
      PROVE  PresenceInv'
  BY <1>4, HeartbeatStep
<1>5. CASE \/ \E k \in Saves : ReadRow(k) \/ SaveRow(k)
           \/ \E u \in Managed : RegisterUser(u) \/ RemoveUser(u)
  BY <1>5, RowStep
<1>6. CASE UNCHANGED vars
  BY <1>6 DEF PresenceInv, TypeOK, NoRowNoColumn, IdleRunsNothing, PresenceIsRight,
        ActiveUsers, Active, vars
<1> QED
  BY <1>1, <1>2, <1>3, <1>4, <1>5, <1>6 DEF Next

\* Whatever sessions, saves, removals, failures and crashes overlap, the
\* invariant holds.
THEOREM PresenceInvariant == Spec => []PresenceInv
<1>1. Init => PresenceInv
  BY InitInv
<1>2. PresenceInv /\ [Next]_vars => PresenceInv'
  BY NextInv
<1> QED
  BY <1>1, <1>2, PTL DEF Spec

\* Every variable keeps its type; in particular no goroutine ever holds two
\* statuses.
THEOREM TypeCorrect == Spec => []TypeOK
<1>1. PresenceInv => TypeOK
  BY DEF PresenceInv
<1> QED
  BY <1>1, PresenceInvariant, PTL

\* The column of a user says whether a session of SubscribeOnlineStatus is
\* active, unless it was disturbed.
THEOREM ColumnIsRight == Spec => []PresenceIsRight
<1>1. PresenceInv => PresenceIsRight
  BY DEF PresenceInv
<1> QED
  BY <1>1, PresenceInvariant, PTL
=============================================================================
