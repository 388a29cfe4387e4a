------------------------------ MODULE Presence ------------------------------
(***************************************************************************)
(* The online status of users.  A session of SubscribeOnlineStatus sets    *)
(* the column "online" of its user, announces that, forwards the changes   *)
(* of other users to its client, and sets the column back when the client  *)
(* has left or sent no heartbeat for five seconds.  The column is one per  *)
(* user, whatever the number of sessions, and a profile that is saved      *)
(* (UpdateProfile, UpdateUserProfile) writes back the column as it was     *)
(* read.  Per session there are                                            *)
(*                                                                         *)
(*   svc   the gRPC handler, and the goroutine that receives heartbeats,   *)
(*   api   Signaling.SubscribeOnlineStatus,                                *)
(*   hb    the goroutine it starts, with the timer,                        *)
(*   cb    the callback of the NATS subscription.                          *)
(*                                                                         *)
(* What a goroutine holds is a set of at most one status.  A stream that   *)
(* is refused is one that never opens.                                     *)
(***************************************************************************)
EXTENDS Naturals, Sequences

CONSTANTS
    UserIDs,        \* ids of users, who all have a row at first
    Sessions,       \* the streams peers open, [id, user, may]: what the client
                    \* may do, a subset of {"beat", "leave", "stall"}
    Saves,          \* the profile updates, [id, user]
    Managed,        \* users the room manager may remove and register
    PendingLimit,   \* statuses NATS keeps for a subscription before it drops
    Faults          \* what fails, a subset of {"update", "publish", "process"}

ASSUME SessionsAssumption == \A s \in Sessions : s.user \in UserIDs

ASSUME SavesAssumption == \A k \in Saves : k.user \in UserIDs

ASSUME BoundsAssumption ==
    /\ PendingLimit \in Nat \ {0}
    /\ Faults \subseteq {"update", "publish", "process"}
    /\ Managed \subseteq UserIDs

VARIABLES
    users,      \* ids of the user rows
    online,     \* the column; FALSE where there is no row
    conn,       \* conn[s]: the goroutines of session s, and its client
    pub,        \* the status the publisher holds
    save,       \* save[k]: where update k is, and the status it has read
    disturbed   \* history: users whose column was written behind a session

vars == <<users, online, conn, pub, save, disturbed>>

Status == [user : UserIDs, online : BOOLEAN]
AtMostOne(S) == {{}} \cup {{x} : x \in S}

Conn == [svc      : {"idle", "range", "write", "returned"},
         svcHeld  : AtMostOne(Status),
         api      : {"none", "auth", "on", "tellOn", "select", "send", "off",
                     "tellOff", "exit", "closing", "done"},
         apiHeld  : AtMostOne(Status),
         cb       : AtMostOne(Status),
         pending  : Seq(Status),
         hb       : {"none", "armed", "late", "dead", "over"},
         beat     : BOOLEAN,    \* a heartbeat was received, and not yet taken
         gone     : BOOLEAN,    \* the client has left
         stalled  : BOOLEAN]    \* the client does not read

NoConn == [svc |-> "idle", svcHeld |-> {}, api |-> "none", apiHeld |-> {},
           cb |-> {}, pending |-> <<>>, hb |-> "none", beat |-> FALSE,
           gone |-> FALSE, stalled |-> FALSE]

Subscribed(s) == conn[s].svc \in {"range", "write"}

\* SetUserOnlineStatus(true) was executed, and the deferred one was not yet.
Active(s) == conn[s].api \in {"tellOn", "select", "send", "off"}
Telling(s) == conn[s].api \in {"tellOn", "tellOff"}

ChangesClosed(s) == conn[s].api \in {"closing", "done"}

ActiveUsers == {s.user : s \in {t \in Sessions : Active(t)}}

Init ==
    /\ users = UserIDs
    /\ online = [u \in UserIDs |-> FALSE]
    /\ conn = [s \in Sessions |-> NoConn]
    /\ pub = {}
    /\ save = [k \in Saves |-> "idle"]
    /\ disturbed = {}

dbVars == <<users, online, save, disturbed>>

With(S, u, condition) == IF condition THEN S \cup {u} ELSE S \ {u}

\* Only session s takes a step, and is as c says afterwards.
Becomes(s, c) ==
    /\ conn' = [conn EXCEPT ![s] = c]
    /\ UNCHANGED <<dbVars, pub>>

-----------------------------------------------------------------------------
(* The client of a session.                                                *)

May(what) == {s \in Sessions : what \in s.may}

Open(s) ==
    /\ conn[s].svc = "idle"
    /\ Becomes(s, [conn[s] EXCEPT !.svc = "range", !.api = "auth"])

\* srv.Recv returns a heartbeat, and heartbeat <- beat waits to be taken.
Recv(s) ==
    /\ Subscribed(s) /\ ~conn[s].gone /\ ~conn[s].beat
    /\ Becomes(s, [conn[s] EXCEPT !.beat = TRUE])

Leave(s) ==
    /\ Subscribed(s) /\ ~conn[s].gone
    /\ Becomes(s, [conn[s] EXCEPT !.gone = TRUE])

\* The client reads no more, and flow control makes srv.Send wait.
Stall(s) ==
    /\ Subscribed(s) /\ ~conn[s].gone /\ ~conn[s].stalled
    /\ Becomes(s, [conn[s] EXCEPT !.stalled = TRUE])

-----------------------------------------------------------------------------
(* SetUserOnlineStatus: one UPDATE, then the announcement.                 *)

\* GetUserContext; without a row the subscription ends at once.
Authenticate(s) ==
    /\ conn[s].api = "auth"
    /\ Becomes(s, [conn[s] EXCEPT !.api =
                       IF s.user \in users THEN "on" ELSE "exit"])

\* An UPDATE of a row that is gone changes nothing, and is no error.
SetStatus(s, status, next) ==
    /\ online' = [online EXCEPT ![s.user] = status /\ s.user \in users]
    /\ conn' = [conn EXCEPT ![s].api = next]
    /\ UNCHANGED <<users, pub, save>>

SetOnline(s) ==
    /\ conn[s].api = "on"
    /\ SetStatus(s, TRUE, "tellOn")
    /\ disturbed' = disturbed \ {s.user}

\* The deferred call, whichever way the loop ended.
SetOffline(s) ==
    /\ conn[s].api = "off"
    /\ SetStatus(s, FALSE, "tellOff")
    /\ disturbed' = With(disturbed, s.user,
                         \E t \in Sessions \ {s} : t.user = s.user /\ Active(t))

\* The UPDATE fails: at the start the subscription ends, and nothing was
\* deferred yet; at the end the error of the deferred call is dropped.
SetFails(s) ==
    /\ conn[s].api \in {"on", "off"}
    /\ conn' = [conn EXCEPT ![s].api = "exit"]
    /\ disturbed' = IF Active(s) THEN disturbed \cup {s.user} ELSE disturbed
    /\ UNCHANGED <<users, online, save, pub>>

\* Faulty variant: the channel of the publisher has a buffer.
AlwaysFree == TRUE

\* The range loop of PublishOnlineStatus is ready to receive.
PublisherFree == pub = {}

\* a.Onlines <-; then the heartbeat goroutine starts, with its timer.
TellOn(s) ==
    /\ conn[s].api = "tellOn"
    /\ PublisherFree
    /\ pub' = pub \cup {[user |-> s.user, online |-> TRUE]}
    /\ conn' = [conn EXCEPT ![s].api = "select", ![s].hb = "armed"]
    /\ UNCHANGED dbVars

TellOff(s) ==
    /\ conn[s].api = "tellOff"
    /\ PublisherFree
    /\ pub' = pub \cup {[user |-> s.user, online |-> FALSE]}
    /\ conn' = [conn EXCEPT ![s].api = "exit"]
    /\ UNCHANGED dbVars

HasRoom(s) == Len(conn[s].pending) < PendingLimit

\* Nats.Publish: every live subscription whose queue has room.
Publish ==
    \E st \in pub :
        /\ conn' = [s \in Sessions |->
                      IF Subscribed(s) /\ HasRoom(s)
                      THEN [conn[s] EXCEPT !.pending = Append(@, st)]
                      ELSE conn[s]]
        /\ pub' = pub \ {st}
        /\ UNCHANGED dbVars

\* Publish returns an error: it is logged, and the status is lost.
PublishFails ==
    /\ pub # {}
    /\ pub' = {}
    /\ UNCHANGED <<dbVars, conn>>

-----------------------------------------------------------------------------
(* Heartbeats.  Time is not modelled: an armed timer may fire at any       *)
(* moment, and Reset leaves it armed.  When it fires its function waits in *)
(* timeout <- true, and no Reset takes that back.                          *)

\* case <-heartbeat: timer.Reset
TakeBeat(s) ==
    /\ conn[s].beat
    /\ conn[s].hb \in {"armed", "late"}
    /\ Becomes(s, [conn[s] EXCEPT !.beat = FALSE])

Timer(s) ==
    /\ conn[s].hb = "armed"
    /\ Becomes(s, [conn[s] EXCEPT !.hb = "late"])

\* case <-timeout: the goroutine offers dead <- true.
TimeOut(s) ==
    /\ conn[s].hb = "late"
    /\ Becomes(s, [conn[s] EXCEPT !.hb = "dead"])

-----------------------------------------------------------------------------
(* The loop of SubscribeOnlineStatus.                                      *)

\* Faulty variant: one's own status is let through, not that of others.
IsOwn(s, st) == st.user = s.user

IsForeign(s, st) == st.user # s.user

\* case status := <-statusChanges
Receive(s) ==
    /\ conn[s].api = "select"
    /\ \E st \in conn[s].cb :
          Becomes(s, [conn[s] EXCEPT
                     !.cb = {},
                     !.api = IF IsForeign(s, st) THEN "send" ELSE "select",
                     !.apiHeld = IF IsForeign(s, st) THEN {st} ELSE {}])

\* Faulty variants: the deferred call is missing; break leaves the select and
\* not the loop; a case of select is missing.
NoDeferred == "exit"
BreaksSelect == "select"
NeverReady(s) == FALSE

Deferred == "off"
ClientGone(s) == conn[s].gone
HeartDead(s) == conn[s].hb = "dead"

\* case <-ctx.Done().  The heartbeat goroutine is left behind: nobody will
\* receive from dead.
ContextDone(s) ==
    /\ conn[s].api = "select"
    /\ ClientGone(s)
    /\ Becomes(s, [conn[s] EXCEPT !.api = Deferred, !.hb = "over"])

\* case <-dead
Dead(s) ==
    /\ conn[s].api = "select"
    /\ HeartDead(s)
    /\ Becomes(s, [conn[s] EXCEPT !.api = Deferred, !.hb = "over"])

\* close(statusChanges), while the subscription is still there.
CloseChanges(s) ==
    /\ conn[s].api = "exit"
    /\ Becomes(s, [conn[s] EXCEPT !.api = "closing"])

\* Faulty variant: protoStatusChanges stays open.
LeftOpen == "ended"

Closed == "done"

\* close(protoStatusChanges)
CloseProto(s) ==
    /\ conn[s].api = "closing"
    /\ Becomes(s, [conn[s] EXCEPT !.api = Closed])

-----------------------------------------------------------------------------
(* NATS and the gRPC handler.                                              *)

TakeMessage(s) ==
    /\ conn[s].cb = {}
    /\ conn[s].pending # <<>>
    /\ Becomes(s, [conn[s] EXCEPT !.cb = {Head(conn[s].pending)},
                                  !.pending = Tail(@)])

\* protoStatusChanges <- meets the range loop of the handler.
Forward(s) ==
    /\ conn[s].api = "send"
    /\ conn[s].svc = "range"
    /\ Becomes(s, [conn[s] EXCEPT !.svcHeld = conn[s].apiHeld, !.apiHeld = {},
                                  !.api = "select", !.svc = "write"])

\* srv.Send succeeds; once the client has left, into the void.
Write(s) ==
    /\ conn[s].svc = "write"
    /\ ~conn[s].stalled
    /\ Becomes(s, [conn[s] EXCEPT !.svc = "range", !.svcHeld = {}])

\* srv.Send fails: the handler returns, and unsubscribes as it does.
WriteFails(s) ==
    /\ conn[s].svc = "write"
    /\ conn[s].gone
    /\ Becomes(s, [conn[s] EXCEPT !.svc = "returned", !.svcHeld = {},
                                  !.pending = <<>>, !.beat = FALSE])

\* The range loop ends with the closed channel.
Return(s) ==
    /\ conn[s].svc = "range"
    /\ conn[s].api = "done"
    /\ Becomes(s, [conn[s] EXCEPT !.svc = "returned", !.pending = <<>>,
                                  !.beat = FALSE])

-----------------------------------------------------------------------------
(* Profiles and rows.                                                      *)

\* The whole row is read.
ReadRow(k) ==
    /\ save[k] = "idle"
    /\ k.user \in users
    /\ save' = [save EXCEPT ![k] = IF online[k.user] THEN "on" ELSE "off"]
    /\ UNCHANGED <<users, online, conn, pub, disturbed>>

\* Save writes it back; a row that is gone is inserted.
SaveRow(k) ==
    /\ save[k] \in {"on", "off"}
    /\ users' = users \cup {k.user}
    /\ online' = [online EXCEPT ![k.user] = (save[k] = "on")]
    /\ save' = [save EXCEPT ![k] = "done"]
    /\ disturbed' = IF k.user \in users /\ online' = online
                    THEN disturbed ELSE disturbed \cup {k.user}
    /\ UNCHANGED <<conn, pub>>

RegisterUser(u) ==
    /\ u \notin users
    /\ users' = users \cup {u}
    /\ disturbed' = With(disturbed, u, u \in ActiveUsers)
    /\ UNCHANGED <<online, conn, pub, save>>

\* Sessions of the user are not told, and go on.
RemoveUser(u) ==
    /\ u \in users
    /\ users' = users \ {u}
    /\ online' = [online EXCEPT ![u] = FALSE]
    /\ UNCHANGED <<conn, pub, save, disturbed>>

-----------------------------------------------------------------------------
(* The end of the process: every session ends where it is, the columns     *)
(* stay as they are, and the process is started again.                     *)

Restart ==
    /\ conn' = [s \in Sessions |->
                  IF conn[s].svc = "idle" THEN conn[s]
                  ELSE [NoConn EXCEPT !.svc = "returned", !.api = "done",
                                      !.hb = "over"]]
    /\ pub' = {}
    /\ save' = [k \in Saves |-> IF save[k] = "idle" THEN "idle" ELSE "done"]
    /\ disturbed' = disturbed \cup ActiveUsers
    /\ UNCHANGED <<users, online>>

Crash ==
    /\ \E s \in Sessions : conn[s].svc \in {"range", "write"}
    /\ Restart

\* The callback sends on the closed statusChanges: a panic.
SendOnClosed(s) ==
    /\ conn[s].cb # {}
    /\ ChangesClosed(s)
    /\ Restart

-----------------------------------------------------------------------------
Client ==
    \/ \E s \in Sessions : Open(s)
    \/ \E s \in May("beat") : Recv(s)
    \/ \E s \in May("leave") : Leave(s)
    \/ \E s \in May("stall") : Stall(s)

Subscription(s) ==
    \/ Authenticate(s) \/ SetOnline(s) \/ TellOn(s)
    \/ Receive(s) \/ Forward(s) \/ ContextDone(s) \/ Dead(s)
    \/ SetOffline(s) \/ TellOff(s)
    \/ CloseChanges(s) \/ CloseProto(s)

Heartbeat(s) == TakeBeat(s) \/ Timer(s) \/ TimeOut(s)
Callback(s) == TakeMessage(s) \/ SendOnClosed(s)
Handler(s) == Write(s) \/ WriteFails(s) \/ Return(s)

\* What the process does by itself, heartbeats apart.
Progress ==
    \/ Publish
    \/ \E s \in Sessions : Subscription(s) \/ Callback(s) \/ Handler(s)

Fault ==
    \/ \E f \in Faults \cap {"update"}, s \in Sessions : SetFails(s)
    \/ \E f \in Faults \cap {"publish"} : PublishFails
    \/ \E f \in Faults \cap {"process"} : Crash

Next ==
    \/ Client \/ Progress \/ Fault
    \/ \E s \in Sessions : Heartbeat(s)
    \/ \E k \in Saves : ReadRow(k) \/ SaveRow(k)
    \/ \E u \in Managed : RegisterUser(u) \/ RemoveUser(u)

Spec == Init /\ [][Next]_vars

\* Goroutines that can run do run, and time passes; clients and the room
\* manager are under no obligation.  Progress is finite whatever the clients
\* do, so fairness of it as a whole starves nobody; heartbeats may be
\* endless and are apart, session by session.
FairSpec ==
    Spec /\ WF_vars(Progress) /\ \A s \in Sessions : WF_vars(Heartbeat(s))

-----------------------------------------------------------------------------
(* Safety.                                                                 *)

\* Every variable has its type; no goroutine holds two statuses.
TypeOK ==
    /\ users \in SUBSET UserIDs
    /\ online \in [UserIDs -> BOOLEAN]
    /\ conn \in [Sessions -> Conn]
    /\ pub \in AtMostOne(Status)
    /\ save \in [Saves -> {"idle", "on", "off", "done"}]
    /\ disturbed \in SUBSET UserIDs

\* The column of a user says whether a session is active, unless something
\* wrote it behind a session: another session of the user that ended, a
\* profile saved as it was read, a row registered anew, a failed UPDATE or a
\* crash.  The next session to start, or the last one to end, repairs it.
PresenceIsRight ==
    \A u \in users \ disturbed : online[u] <=> u \in ActiveUsers

-----------------------------------------------------------------------------
(* Liveness.                                                               *)

\* The handler of a client that has left returns.
HandlerReturns ==
    \A s \in May("leave") : conn[s].gone ~> conn[s].svc = "returned"

\* The subscription goroutine offers a status to a handler that has returned
\* or that waits for a client that does not read.
Blocked(s) ==
    conn[s].api = "send" /\ (conn[s].svc = "returned" \/ conn[s].stalled)

\* A session whose client has left is ended and takes its user offline,
\* unless it is blocked.
LeaverEnds ==
    \A s \in May("leave") : conn[s].gone ~> ~Active(s) \/ Blocked(s)

\* So is a session whose client sends no heartbeats, though it stays.
SilentEnds ==
    \A s \in Sessions :
        <>[](~conn[s].beat) => (Active(s) ~> ~Active(s) \/ Blocked(s))

-----------------------------------------------------------------------------
(* What the source says of itself, and the code does not do.               *)

\* "subscription end ... should set user status to offline"
LeaverGoesOffline ==
    \A s \in May("leave") : conn[s].gone ~> ~Active(s)
=============================================================================
