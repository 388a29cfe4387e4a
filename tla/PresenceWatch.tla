--------------------------- MODULE PresenceWatch ---------------------------
(***************************************************************************)
(* Presence with the clients who watch: a client looks up who is online    *)
(* when its stream starts, and follows the stream from there.  The module  *)
(* adds history variables to Presence and leaves its behaviours as they    *)
(* are.                                                                    *)
(***************************************************************************)
EXTENDS Presence

VARIABLES
    known,      \* known[s]: the column of other users, as its client knows it
    lost        \* users of whom an announcement is missing or out of order

watchVars == <<vars, known, lost>>

Others(s) == UserIDs \ {s.user}
Column(s) == [u \in Others(s) |-> online[u]]

WatchInit ==
    /\ Init
    /\ known = [s \in Sessions |-> Column(s)]
    /\ lost = {}

Opens(s)  == conn[s].svc = "idle" /\ conn'[s].svc = "range"
Writes(s) == conn[s].svc = "write" /\ conn'[s].svc = "range" /\ ~conn[s].gone
Sets(s)   == Telling(s)' /\ ~Telling(s)
Misses(s) == pub # pub' /\ pub' = {} /\ Subscribed(s)
                        /\ conn'[s].pending = conn[s].pending

\* What a step makes the clients know.
Learn ==
    known' = [s \in Sessions |->
                CASE Opens(s)  -> Column(s)
                  [] Writes(s) -> [u \in Others(s) |->
                                     IF \E st \in conn[s].svcHeld : st.user = u
                                     THEN \E st \in conn[s].svcHeld : st.online
                                     ELSE known[s][u]]
                  [] OTHER     -> known[s]]

\* An announcement that did not reach every subscription.
Dropped == {u \in UserIDs : /\ \E st \in pub : st.user = u
                            /\ \E s \in Sessions : Misses(s)}

\* A status written while one of another session is about to be announced.
Overtaken == {u \in UserIDs :
                \E s, t \in Sessions : /\ s.user = u /\ t.user = u
                                       /\ Sets(s) /\ Telling(t)}

\* A column that no session wrote, or a row that came or went with it.
Unannounced == {u \in UserIDs :
                  \/ (u \in users) # (u \in users')
                  \/ /\ online'[u] # online[u]
                     /\ ~\E s \in Sessions : s.user = u /\ Sets(s)}

WatchNext ==
    /\ Next
    /\ Learn
    /\ lost' = lost \cup Dropped \cup Overtaken \cup Unannounced

WatchSpec == WatchInit /\ [][WatchNext]_watchVars

\* Nothing about u is on its way to the client of s, who is there.
Settled(s, u) ==
    /\ conn[s].api = "select" /\ conn[s].svc = "range" /\ ~conn[s].gone
    /\ pub = {} /\ conn[s].pending = <<>> /\ conn[s].cb = {}
    /\ \A t \in Sessions : t.user = u => ~Telling(t)

\* A client knows the column of every other user, across the publisher, NATS,
\* the callback and two goroutines; unless a change was not announced, was
\* dropped, or was overtaken by another of the same user.
WatcherIsRight ==
    \A s \in Sessions : \A u \in Others(s) \ lost :
        Settled(s, u) => known[s][u] = online[u]

-----------------------------------------------------------------------------
(* The inductive invariant behind WatcherIsRight.  A status of u passes    *)
(* from the session that tells it to the publisher, the queue, the         *)
(* callback, the subscription, the handler and the client; the newest of   *)
(* those on the way is the column, and so is what the client knows when    *)
(* there is none.                                                          *)

Carries(S, u) == \E st \in S : st.user = u
Says(S, u, b) == \A st \in S : st.user = u => st.online = b

Queued(q, u) == \E i \in DOMAIN q : q[i].user = u

\* The last status of u in a queue is b.
EndsWith(q, u, b) ==
    \A i \in DOMAIN q :
        /\ q[i].user = u
        /\ \A j \in DOMAIN q : j > i => q[j].user # u
        => q[i].online = b

\* A client that knows k of u will know b, once session c is through with
\* what it has.
Arrives(c, k, u, b) ==
    /\ EndsWith(c.pending, u, b)
    /\ Queued(c.pending, u) \/
         (/\ Says(c.cb, u, b)
          /\ Carries(c.cb, u) \/
               (/\ Says(c.apiHeld, u, b)
                /\ Carries(c.apiHeld, u) \/
                     (/\ Says(c.svcHeld, u, b)
                      /\ Carries(c.svcHeld, u) \/ k = b)))

Silent(u) == \A t \in Sessions : t.user = u => ~Telling(t)
Watches(c) == c.svc \in {"range", "write"} /\ ~c.gone

\* What a session that does not run, or does not send, holds.
HoldInv ==
    \A s \in Sessions :
        /\ conn[s].svc = "idle" => conn[s] = NoConn
        /\ conn[s].api # "send" => conn[s].apiHeld = {}
        /\ conn[s].svc # "write" => conn[s].svcHeld = {}

\* What is announced of u is the column, the last announcement at least.
AnnounceInv ==
    \A u \in UserIDs \ lost :
        /\ u \in users
        /\ \A t \in Sessions : t.user = u /\ Telling(t)
                               => online[u] = (conn[t].api = "tellOn")
        /\ Silent(u) => Says(pub, u, online[u])

ArriveInv ==
    \A s \in Sessions : \A u \in Others(s) \ lost :
        Watches(conn[s]) /\ Silent(u) /\ ~Carries(pub, u)
        => Arrives(conn[s], known[s][u], u, online[u])

WatchInv == HoldInv /\ AnnounceInv /\ ArriveInv
=============================================================================
