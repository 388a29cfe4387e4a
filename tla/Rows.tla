-------------------------------- MODULE Rows --------------------------------
(***************************************************************************)
(* The database as a query meets it: rows of users, of rooms and of the    *)
(* table that joins them, no foreign key between them, written one at a    *)
(* time by others.  Any row may come or go at any moment, so whatever the  *)
(* calls of RoomManager do to the tables is among it.                      *)
(***************************************************************************)
EXTENDS FiniteSets

CONSTANTS UserIDs, RoomIDs

VARIABLES users, rooms, members

rowVars == <<users, rooms, members>>

\* Any rows may be there; a table has finitely many.  Who is a member of what
\* does not depend on whether there are such a user and such a room.
Init ==
    /\ users \in SUBSET UserIDs /\ IsFiniteSet(users)
    /\ rooms \in SUBSET RoomIDs /\ IsFiniteSet(rooms)
    /\ members \in SUBSET (RoomIDs \X UserIDs)

OneRow(old, new, all) == \E row \in all : new \in {old \cup {row}, old \ {row}}

Next ==
    \/ OneRow(users, users', UserIDs) /\ UNCHANGED <<rooms, members>>
    \/ OneRow(rooms, rooms', RoomIDs) /\ UNCHANGED <<users, members>>
    \/ OneRow(members, members', RoomIDs \X UserIDs) /\ UNCHANGED <<users, rooms>>

Spec == Init /\ [][Next]_rowVars
=============================================================================
