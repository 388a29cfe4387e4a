--------------------------- MODULE MCRoomManager ---------------------------
(***************************************************************************)
(* Instances of RoomManager for TLC.                                       *)
(***************************************************************************)
EXTENDS RoomManager

Req(n, o, r, u, us) == [id |-> n, op |-> o, room |-> r, user |-> u, users |-> us]

MCUsers == {"u1", "u2", "u3"}
MCSomeUsers == {"u1", "u2"}
MCRooms == {"r1"}

CreateRoom == Req(1, "createRoom", "r1", "u1", {"u2"})
DestroyRoom == Req(2, "destroyRoom", "r1", "u1", {})
RemoveU2 == Req(3, "removeUser", "r1", "u2", {})

\* u2 is put into a room, added, kicked and removed while it is destroyed.
Membership == {CreateRoom, DestroyRoom, RemoveU2,
               Req(4, "addUser",  "r1", "u2", {}),
               Req(5, "kickUser", "r1", "u2", {})}

\* A room created twice, the second time for a user who never had a row, too.
Rooms == {CreateRoom, DestroyRoom,
          Req(6, "createRoom", "r1", "u1", {"u1", "u3"})}

\* A user registered twice, once its row is gone.
Users == {CreateRoom, RemoveU2,
          Req(7, "registerUser", "r1", "u2", {}),
          Req(8, "registerUser", "r1", "u2", {})}

\* Profiles saved while their rows are removed.
Profiles == {CreateRoom, DestroyRoom, RemoveU2,
             Req(9,  "updateRoom",    "r1", "u1", {}),
             Req(10, "updateProfile", "r1", "u2", {})}

MCCalls == UNION {Membership, Rooms, Users, Profiles}

\* Any four of the calls about the membership, three at a time, and two at a
\* time elsewhere.
Made == {c \in Calls : pc[c] # "idle"}

InScenario ==
    \/ Cardinality(Made) <= 4 /\ Made \subseteq Membership
    \/ /\ Cardinality(UnderWay) <= 2
       /\ \E scenario \in {Rooms, Users, Profiles} : Made \subseteq scenario

\* A room that is created twice, without any overlap.
MCAgain == Rooms

MCSpec == Init /\ [][Next /\ InScenario']_vars
=============================================================================
