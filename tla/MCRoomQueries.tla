--------------------------- MODULE MCRoomQueries ---------------------------
(***************************************************************************)
(* Instances of RoomQueries for TLC.                                       *)
(***************************************************************************)
EXTENDS RoomQueries

MCUsers == 1 .. 5
MCRooms == {"r1", "r2"}

\* Any query of user 1, where any rows are there at the start, and up to
\* three of them come or go: about its two rooms, alone or with user 2; about
\* one room with both; about itself; or a walk through the pages of up to five
\* users, of whom any come and go.
MCQueries == {[op |-> o, user |-> 1, room |-> "r1"] : o \in QueryOps}

UsersOf(q) == CASE q.op = "getUsers" -> UserIDs
                [] q.op \in {"myRooms", "myRoomInfo", "getByID"} -> {1, 2}
                [] OTHER -> {1}

RoomsOfInterest(q) == CASE q.op = "myRooms" -> RoomIDs
                        [] q.op \in {"myRoomInfo", "getByID"} -> {"r1"}
                        [] OTHER -> {}

PairsOf(q) == RoomsOfInterest(q) \X UsersOf(q)

InScenario ==
    /\ users \subseteq UsersOf(query)
    /\ rooms \subseteq RoomsOfInterest(query)
    /\ members \subseteq PairsOf(query)
    /\ query.op # "getUsers" => Cardinality(ever \ always) <= 3

MCInit ==
    /\ query \in Queries
    /\ users \in SUBSET UsersOf(query)
    /\ rooms \in SUBSET RoomsOfInterest(query)
    /\ members \in SUBSET PairsOf(query)
    /\ QueryInit

MCSpec == MCInit /\ [][QueryNext /\ InScenario']_queryVars
=============================================================================
