---------------------------- MODULE RoomListener ----------------------------
(***************************************************************************)
(* RoomManager with somebody who hears every announcement and keeps the    *)
(* membership of all rooms from them.  The module adds the listener and    *)
(* history variables, and leaves the behaviours of RoomManager as they     *)
(* are.                                                                    *)
(***************************************************************************)
EXTENDS RoomManager

VARIABLES
    view,       \* the membership as the listener knows it
    blurred,    \* blurred[c]: what c decides while another call does, too
    unsure      \* what the listener cannot know

listenVars == <<view, blurred, unsure>>

ListenInit ==
    /\ Init
    /\ view = {}
    /\ blurred = [c \in Calls |-> {}]
    /\ unsure = {}

Begin(c) ==
    /\ blurred' = [k \in Calls |->
                     CASE k = c         -> Scope(c) \cap
                                           UNION {Scope(d) : d \in Rivals(c)}
                       [] k \in Rivals(c) \ {c} ->
                                           blurred[k] \cup (Scope(k) \cap Scope(c))
                       [] OTHER         -> blurred[k]]
    /\ UNCHANGED <<view, unsure>>

\* It replaces what is known of the room, or of the user, that the
\* announcement is about.
Told(c) ==
    CASE c.op \in {"removeUser", "destroyRoom"} -> {}
      [] c.op = "kickUser"   -> {c.room} \X (ids[c] \ {c.user})
      [] c.op \in ProfileOps \cup {"registerUser"} -> ids[c] \X {c.user}
      [] OTHER               -> {c.room} \X ids[c]

Apply(c) == (view \ Scope(c)) \cup Told(c)

Hear(c) ==
    /\ view' = Apply(c)
    /\ unsure' = (unsure \ Scope(c)) \cup blurred[c]
    /\ UNCHANGED blurred

\* An announcement a publisher holds does not know of the pairs either.
Lose(pairs) ==
    /\ unsure' = unsure \cup pairs
    /\ blurred' = [k \in Calls |-> IF k \in pub THEN blurred[k] \cup pairs
                                                ELSE blurred[k]]
    /\ UNCHANGED view

ListenNext ==
    \/ \E c \in Calls :
          \/ Find(c) /\ Begin(c)
          \/ Proceed(c) /\ Lose(IF pc'[c] = "failed" THEN Untold(c) ELSE {})
          \/ Publish(c) /\ (Hear(c) \/ Lose(Untold(c)))
    \/ Crash /\ Lose(UNION {Untold(c) : c \in UnderWay})

ListenSpec == ListenInit /\ [][ListenNext]_<<vars, listenVars>>

\* The room and the user are there, and so is the row that joins them.
Holds(p) == p \in members /\ p[1] \in rooms /\ p[2] \in users

\* The listener knows whether a user is in a room, unless two calls that
\* decide it overlapped, or one failed after it wrote; and knows it again with
\* the next announcement that is about the room, or about the user.
ListenerIsRight ==
    \A p \in Pairs \ unsure :
        (\A c \in UnderWay : p \notin Scope(c)) =>
            (p \in view <=> Holds(p))

-----------------------------------------------------------------------------
(* The inductive invariant behind ListenerIsRight.                         *)

\* What rivals both decide, both know to be blurred.
BlurInv ==
    \A c, d \in UnderWay : Overlap(c, d) => Scope(c) \cap Scope(d) \subseteq blurred[c]

WroteInv ==
    \A c \in Calls : \A p \in Scope(c) \ blurred[c] :
        pc[c] \in {"append", "load"} => Stands(c, p)

\* No call other than c that could still change its mind about p has written.
Unwritten(p, c) == \A d \in InFlight \ {c} : p \in Scope(d) => d \notin written

\* An announcement under way is right about what c alone has decided.
SaysInv ==
    \A c \in Calls : \A p \in Scope(c) \ blurred[c] :
        (pc[c] = "send" \/ c \in pub) /\ Unwritten(p, c) => (p \in Told(c) <=> Holds(p))

\* The listener is right about what no call under way has written.
ViewInv ==
    \A p \in Pairs \ unsure :
        (\A c \in UnderWay : p \in Scope(c) => c \notin written) =>
            (p \in view <=> Holds(p))

ListenInv == OrderInv /\ BlurInv /\ WroteInv /\ SaysInv /\ ViewInv
=============================================================================
