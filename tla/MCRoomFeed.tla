----------------------------- MODULE MCRoomFeed -----------------------------
(***************************************************************************)
(* Instances of RoomFeed for TLC.                                          *)
(***************************************************************************)
EXTENDS RoomFeed

Req(n, o, r, u, us) == [id |-> n, op |-> o, room |-> r, user |-> u, users |-> us]

MCUsers == {"u1", "u2"}
MCRooms == {"r1"}

\* One stream, of u1.
MCStream == {[id |-> 1, user |-> "u1"]}

CreateRoom == Req(1, "createRoom", "r1", "u1", {"u1", "u2"})

\* u1 is put into a room, is kicked, and added again.
Comings == {
    CreateRoom,
    Req(2, "kickUser",   "r1", "u1", {}),
    Req(3, "addUser",    "r1", "u1", {})}

\* Users who share a room change and go.
Fellows == {
    CreateRoom,
    Req(4, "updateProfile", "r1", "u2", {}),
    Req(5, "removeUser",    "r1", "u2", {})}

MCCalls == Comings \cup Fellows

Made == {c \in Calls : pc[c] # "idle"}

InScenario == Made \subseteq Comings \/ Made \subseteq Fellows

MCSpec == FeedInit /\ [][FeedNext /\ InScenario']_feedVars
=============================================================================
