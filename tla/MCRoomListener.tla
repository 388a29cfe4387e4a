--------------------------- MODULE MCRoomListener ---------------------------
(***************************************************************************)
(* Instances of RoomListener for TLC.                                      *)
(***************************************************************************)
EXTENDS RoomListener

Req(n, o, r, u, us) == [id |-> n, op |-> o, room |-> r, user |-> u, users |-> us]

MCUsers == {"u1", "u2"}
MCRooms == {"r1", "r2"}

CreateRoom == Req(1, "createRoom", "r1", "u1", {"u1"})

Destroy == Req(2, "destroyRoom", "r1", "u1", {})
Remove == Req(3, "removeUser", "r1", "u1", {})

\* A room and its member come and go, and the row of room_members stays.
Lifecycle == {CreateRoom, Destroy, Remove,
              Req(4, "registerUser", "r1", "u1", {})}

\* The member's profile is saved meanwhile.
Saved == {CreateRoom, Destroy, Remove, Req(5, "updateUser", "r1", "u1", {})}

\* Two rooms side by side, and a profile announced by the other publisher.
Apart == {
    CreateRoom,
    Req(6, "createRoom",    "r2", "u1", {"u1", "u2"}),
    Req(7, "kickUser",      "r2", "u2", {}),
    Req(8, "updateProfile", "r2", "u2", {})}

MCCalls == UNION {Lifecycle, Saved, Apart}

Made == {c \in Calls : pc[c] # "idle"}

InScenario ==
    \E scenario \in {Lifecycle, Saved, Apart} : Made \subseteq scenario

MCSpec == ListenInit /\ [][ListenNext /\ InScenario']_<<vars, listenVars>>
=============================================================================
