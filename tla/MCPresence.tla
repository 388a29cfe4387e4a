----------------------------- MODULE MCPresence -----------------------------
(***************************************************************************)
(* Instances of Presence for TLC.                                          *)
(***************************************************************************)
EXTENDS Presence

Ses(n, u, may) == [id |-> n, user |-> u, may |-> may]

MCUsers == {"u1", "u2"}

\* A client that sends heartbeats for a while, or leaves, and a session of
\* another user that starts and times out.
MCBeating == {Ses(1, "u1", {"beat", "leave"}), Ses(2, "u2", {})}

\* The client only leaves.
MCLeaving == {Ses(1, "u1", {"leave"}), Ses(2, "u2", {})}
=============================================================================
