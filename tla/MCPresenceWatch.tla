-------------------------- MODULE MCPresenceWatch --------------------------
(***************************************************************************)
(* Instances of PresenceWatch, and with it of Presence, for TLC.           *)
(***************************************************************************)
EXTENDS PresenceWatch

Ses(n, u, may) == [id |-> n, user |-> u, may |-> may]

MCUsers == {"u1", "u2"}
MCManaged == {"u1"}

Phone    == Ses(1, "u1", {"leave"})
Watcher  == Ses(2, "u2", {"stall"})
Laptop   == Ses(3, "u1", {"beat", "leave"})
Tablet   == Ses(4, "u1", {"beat", "leave"})
MCSessions == {Phone, Watcher, Laptop, Tablet}

MCSaves == {[id |-> 1, user |-> "u1"]}

Used == {s \in Sessions : conn[s].svc # "idle"} \cup
        {k \in Saves : save[k] # "idle"}

Calm == users = UserIDs /\ disturbed = {} /\ lost = {}

InScenario ==
    \* Two users who watch each other.
    \/ Calm /\ Used \subseteq {Phone, Watcher}
    \* Two streams of one user.
    \/ users = UserIDs /\ Used \subseteq {Phone, Laptop}
    \* One stream, whose user is removed, registered, and saves its profile.
    \/ Used \subseteq {Tablet} \cup Saves

MCSpec == WatchInit /\ [][WatchNext /\ InScenario']_watchVars
=============================================================================
