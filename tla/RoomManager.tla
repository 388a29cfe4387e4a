---------------------------- MODULE RoomManager ----------------------------
(***************************************************************************)
(* The room management API: calls that read the database, write it, read   *)
(* what the announcement needs, and hand the announcement to the publisher *)
(* of the service.  Every statement is a step of its own, no transaction   *)
(* spans two of them, and calls run side by side.  A row of the join table *)
(* room_members has no foreign key: it may outlive its room and its user,  *)
(* and the queries that follow it join it with the rows that are there.    *)
(* Names, photos and descriptions are left out: no step depends on them.   *)
(* A peer that updates its own profile makes the same statements in        *)
(* another API, and announces the change through another publisher.        *)
(***************************************************************************)
EXTENDS Naturals, Sequences, FiniteSets

CONSTANTS
    UserIDs,        \* ids a user row can have
    RoomIDs,        \* ids a room row can have
    Calls,          \* the calls clients make, [id, op, room, user, users]
    InitialUsers,   \* the user rows at start-up
    MaxInFlight     \* calls the server runs at a time

UserOps == {"registerUser", "updateUser", "updateProfile", "removeUser"}
ProfileOps == {"updateUser", "updateProfile"}
RoomOps == {"createRoom", "updateRoom", "addUser", "kickUser", "destroyRoom"}

ASSUME CallsAssumption ==
    \A c \in Calls : /\ c.op \in UserOps \cup RoomOps
                     /\ c.room \in RoomIDs
                     /\ c.user \in UserIDs
                     /\ c.users \subseteq UserIDs

\* A table has finitely many rows.
ASSUME InitialUsersAssumption ==
    InitialUsers \subseteq UserIDs /\ IsFiniteSet(InitialUsers)

ASSUME MaxInFlightAssumption == MaxInFlight \in Nat \ {0}

VARIABLES
    users,      \* ids of the user rows
    rooms,      \* ids of the room rows
    members,    \* the rows <<room id, user id>> of room_members
    pc,         \* pc[c]: the statement call c is at
    todo,       \* todo[c]: the users call c has still to append
    ids,        \* ids[c]: the ids in the announcement of c
    pub,        \* the calls whose announcement a publisher holds
    written,    \* history: the calls that have changed the database
    audience,   \* history: the users the change of c concerns
    undone      \* history: the calls another has undone since they acted

dbVars   == <<users, rooms, members>>
callVars == <<pc, todo, ids>>
histVars == <<written, audience, undone>>
vars     == <<dbVars, callVars, pub, histVars>>

Stage == {"idle", "users", "user", "write", "append", "load", "send", "done",
          "failed"}

InFlight == {c \in Calls : pc[c] \notin {"idle", "done", "failed"}}

\* Related(users, "Members"): the join drops rows of users that are gone.
MembersOf(r) == {u \in users : <<r, u>> \in members}

\* Related(rooms, "Rooms"): the join drops rows of rooms that are gone.
RoomsOf(u) == {r \in rooms : <<r, u>> \in members}

Goto(c, stage) == pc' = [pc EXCEPT ![c] = stage]

\* Nothing changes but the statement c is at.
OnlyGoto(c, stage) ==
    /\ Goto(c, stage)
    /\ UNCHANGED <<dbVars, todo, ids, pub, histVars>>

\* A profile a peer updates is announced by the signalling service.
Publisher(c) == IF c.op = "updateProfile" THEN "signaling" ELSE "rooms"

Init ==
    /\ users = InitialUsers
    /\ rooms = {}
    /\ members = {}
    /\ pc = [c \in Calls |-> "idle"]
    /\ todo = [c \in Calls |-> {}]
    /\ ids = [c \in Calls |-> {}]
    /\ pub = {}
    /\ written = {}
    /\ audience = [c \in Calls |-> {}]
    /\ undone = {}

-----------------------------------------------------------------------------
(* Looking up.                                                             *)

SubjectExists(c) ==
    IF c.op \in UserOps THEN c.user \in users ELSE c.room \in rooms

\* Where a call goes on once its subject is as it should be.
AfterFind(c) ==
    CASE c.op = "createRoom" -> "users"
      [] c.op = "addUser"    -> "user"
      [] OTHER               -> "write"

\* First(room) or First(user): only the calls that create want it missing.
\* AddUser also reads the members, and leaves alone a user who is one.
Find(c) ==
    /\ pc[c] = "idle"
    /\ Cardinality(InFlight) < MaxInFlight
    /\ Goto(c, IF SubjectExists(c) = (c.op \notin {"registerUser", "createRoom"})
               THEN AfterFind(c) ELSE "failed")
    /\ todo' = [todo EXCEPT ![c] = IF c.op = "addUser"
                                   THEN {c.user} \ MembersOf(c.room) ELSE {}]
    /\ UNCHANGED <<dbVars, ids, pub, histVars>>

\* Faulty variant: the requested users are taken as they come.
Requested(c) == c.users

Registered(c) == c.users \cap users

\* Create: the requested users that have a row; the others are omitted.
FindUsers(c) ==
    /\ pc[c] = "users"
    /\ todo' = [todo EXCEPT ![c] = Registered(c)]
    /\ Goto(c, "write")
    /\ UNCHANGED <<dbVars, ids, pub, histVars>>

\* AddUser: First(user).
FindUser(c) ==
    /\ pc[c] = "user"
    /\ OnlyGoto(c, IF c.user \in users THEN "append" ELSE "failed")

-----------------------------------------------------------------------------
(* Writing.                                                                *)

Inserts == {"registerUser"} \cup ProfileOps

\* What k writes takes back what c has written, or decided not to write.
Opposes(k, c) ==
    \/ k.op \in Inserts /\ c.op = "removeUser" /\ k.user = c.user
    \/ k.op = "removeUser" /\ c.op \in Inserts /\ k.user = c.user
    \/ k.room = c.room /\
          \/ k.op \in {"createRoom", "updateRoom"} /\ c.op = "destroyRoom"
          \/ k.op = "destroyRoom" /\ c.op \in {"createRoom", "updateRoom"}
          \/ k.op = "createRoom" /\ c.op = "kickUser" /\ c.user \in k.users
          \/ k.op = "addUser" /\ c.op = "kickUser" /\ k.user = c.user
          \/ k.op = "kickUser" /\ c.op = "addUser" /\ k.user = c.user

\* The call is past its write, or AddUser has found the member it was to add.
HasActed(c) ==
    \/ pc[c] \in {"load", "send", "done"}
    \/ pc[c] = "append" /\ c.op = "createRoom"
    \/ pc[c] \in {"user", "append"} /\ c.op = "addUser" /\ todo[c] = {}

\* What the histories keep of a write by c.
Wrote(c) ==
    /\ written' = written \cup {c}
    /\ undone' = undone \cup {k \in Calls : HasActed(k) /\ Opposes(c, k)}

Writes(c, op, next) ==
    /\ c.op = op
    /\ pc[c] = "write"
    /\ Goto(c, next)
    /\ Wrote(c)
    /\ UNCHANGED <<todo, ids, pub>>

\* The statement is refused: the call returns the error.
Refused(c, op) ==
    /\ c.op = op
    /\ pc[c] = "write"
    /\ OnlyGoto(c, "failed")

\* The primary key refuses a row somebody else has inserted since Find.
InsertUser(c) ==
    \/ /\ c.user \notin users
       /\ Writes(c, "registerUser", "load")
       /\ users' = users \cup {c.user}
       /\ UNCHANGED <<rooms, members, audience>>
    \/ c.user \in users /\ Refused(c, "registerUser")

\* Faulty variant: no primary key, Find alone keeps rooms from being created
\* twice.
NoKey(r) == TRUE

KeyIsFree(r) == r \notin rooms

InsertRoom(c) ==
    \/ /\ KeyIsFree(c.room)
       /\ Writes(c, "createRoom", "append")
       /\ rooms' = rooms \cup {c.room}
       /\ UNCHANGED <<users, members, audience>>
    \/ c.room \in rooms /\ Refused(c, "createRoom")

\* Save of a row that is gone: gorm inserts it, or fails to.
SaveUser(c) ==
    /\ c.op \in ProfileOps
    /\ \/ /\ Writes(c, c.op, "load")
          /\ users' = users \cup {c.user}
          /\ UNCHANGED <<rooms, members, audience>>
       \/ c.user \notin users /\ Refused(c, c.op)

SaveRoom(c) ==
    \/ /\ Writes(c, "updateRoom", "load")
       /\ rooms' = rooms \cup {c.room}
       /\ UNCHANGED <<users, members, audience>>
    \/ c.room \notin rooms /\ Refused(c, "updateRoom")

\* A user who is removed is nobody's audience any more, but the user's rows
\* of room_members stay.
DeleteUser(c) ==
    /\ Writes(c, "removeUser", "load")
    /\ users' = users \ {c.user}
    /\ audience' = [k \in Calls |-> IF k.op = "kickUser" THEN audience[k]
                                    ELSE audience[k] \ {c.user}]
    /\ UNCHANGED <<rooms, members>>

\* Faulty variant: the rows of room_members are deleted with the room, before
\* the announcement is made from them.
MembersElsewhere(r) == {p \in members : p[1] # r}

\* Only the room's row is deleted.
MembersWithout(r) == members

DeleteRoom(c) ==
    /\ Writes(c, "destroyRoom", "load")
    /\ rooms' = rooms \ {c.room}
    /\ members' = MembersWithout(c.room)
    /\ audience' = [audience EXCEPT ![c] = MembersOf(c.room)]
    /\ UNCHANGED users

\* Faulty variant: only a member whose user has a row is taken out.
DeleteListed(c) ==
    /\ Writes(c, "kickUser", "load")
    /\ members' = members \ {<<c.room, u>> : u \in {c.user} \cap users}
    /\ UNCHANGED <<users, rooms, audience>>

\* Association("Members").Delete: no row is no error.
DeleteMember(c) ==
    /\ Writes(c, "kickUser", "load")
    /\ members' = members \ {<<c.room, c.user>>}
    /\ audience' = [k \in Calls |->
                      IF k = c THEN {c.user}
                      ELSE IF k.op # "kickUser" /\ k.room = c.room
                           THEN audience[k] \ {c.user}
                           ELSE audience[k]]
    /\ UNCHANGED <<users, rooms>>

\* Faulty variant: the columns of the join table are swapped.
Swapped(r, u) == <<u, r>>

MemberRow(r, u) == <<r, u>>

\* Association("Members").Append: one INSERT a user, though the room or the
\* user may be gone by now.
AppendMember(c, u) ==
    /\ pc[c] = "append"
    /\ u \in todo[c]
    /\ members' = members \cup {MemberRow(c.room, u)}
    /\ todo' = [todo EXCEPT ![c] = @ \ {u}]
    /\ Wrote(c)
    /\ audience' = [audience EXCEPT ![c] = @ \cup ({u} \cap users)]
    /\ UNCHANGED <<users, rooms, pc, ids, pub>>

AppendDone(c) ==
    /\ pc[c] = "append"
    /\ todo[c] = {}
    /\ OnlyGoto(c, "load")

-----------------------------------------------------------------------------
(* Announcing.                                                             *)

\* Faulty variants: the rooms, or the members, are not looked up.
NoRooms(u) == {}
NoMembers(r) == {}

RoomsListed(u) == RoomsOf(u)
MembersListed(r) == MembersOf(r)

Loads(c, found) ==
    /\ pc[c] = "load"
    /\ ids' = [ids EXCEPT ![c] = found]
    /\ Goto(c, "send")
    /\ UNCHANGED <<dbVars, todo, pub, histVars>>

\* GetUserInstancePayload
LoadUser(c) == c.op \in UserOps /\ Loads(c, RoomsListed(c.user))

\* GetRoomInstancePayload
LoadRoom(c) ==
    /\ c.op \in {"createRoom", "updateRoom", "destroyRoom"}
    /\ Loads(c, MembersListed(c.room))

\* AddUser and KickUser read the room again, which fails if it is gone by now.
\* The user who was kicked is listed so as to be told.
Reload(c) ==
    /\ c.op \in {"addUser", "kickUser"}
    /\ \/ /\ c.room \in rooms
          /\ Loads(c, MembersOf(c.room) \cup
                         (IF c.op = "kickUser" THEN {c.user} ELSE {}))
       \/ /\ c.room \notin rooms
          /\ pc[c] = "load"
          /\ OnlyGoto(c, "failed")

\* a.Events <- event meets the publisher's range loop, and the call returns.
Send(c) ==
    /\ pc[c] = "send"
    /\ \A k \in pub : Publisher(k) # Publisher(c)
    /\ pub' = pub \cup {c}
    /\ Goto(c, "done")
    /\ UNCHANGED <<dbVars, todo, ids, histVars>>

\* Nats.Publish; if it returns an error, that is logged, and the announcement
\* is lost.
Publish(c) ==
    /\ c \in pub
    /\ pub' = pub \ {c}
    /\ UNCHANGED <<dbVars, callVars, histVars>>

-----------------------------------------------------------------------------
(* Failures.                                                               *)

\* A statement of the call fails: the call returns the error, and what it has
\* written stays written, unannounced.
StatementFails(c) ==
    /\ pc[c] \in {"users", "user", "write", "append", "load"}
    /\ OnlyGoto(c, "failed")

\* The process dies and is started again.
Crash ==
    /\ InFlight \cup pub # {}
    /\ pc' = [c \in Calls |-> IF c \in InFlight THEN "failed" ELSE pc[c]]
    /\ pub' = {}
    /\ UNCHANGED <<dbVars, todo, ids, histVars>>

-----------------------------------------------------------------------------
(* What announcements tell.                                                *)

Pairs == RoomIDs \X UserIDs

\* The pairs of a room and a user that an announcement of c speaks of.
Scope(c) == IF c.op \in UserOps THEN RoomIDs \X {c.user}
                                ELSE {c.room} \X UserIDs

UnderWay == InFlight \cup pub

\* The calls that c may overtake, or that may overtake c.  The announcements
\* of one publisher stay in order.
Rivals(c) == InFlight \cup {k \in pub : Publisher(k) # Publisher(c)}

\* What c has changed and does not announce.
Untold(c) == IF c \in written THEN Scope(c) ELSE {}

-----------------------------------------------------------------------------
Write(c) ==
    \/ InsertUser(c) \/ SaveUser(c) \/ DeleteUser(c)
    \/ InsertRoom(c) \/ SaveRoom(c) \/ DeleteRoom(c) \/ DeleteMember(c)
    \/ \E u \in UserIDs : AppendMember(c, u)
    \/ AppendDone(c)

Prepare(c) == LoadUser(c) \/ LoadRoom(c) \/ Reload(c) \/ Send(c)

\* A statement of a call that has begun, or the end of the call.
Proceed(c) ==
    \/ FindUsers(c) \/ FindUser(c)
    \/ Write(c)
    \/ Prepare(c)
    \/ StatementFails(c)

Next ==
    \/ \E c \in Calls : Find(c) \/ Proceed(c) \/ Publish(c)
    \/ Crash

Spec == Init /\ [][Next]_vars

-----------------------------------------------------------------------------
(* Safety.                                                                 *)

\* Every variable has its type: user ids in announcements of rooms, room ids
\* in those of users.
TypeOK ==
    /\ users \in SUBSET UserIDs
    /\ rooms \in SUBSET RoomIDs
    /\ members \in SUBSET (RoomIDs \X UserIDs)
    /\ pc \in [Calls -> Stage]
    /\ todo \in [Calls -> SUBSET UserIDs]
    /\ ids \in [Calls -> SUBSET (RoomIDs \cup UserIDs)]
    /\ \A c \in Calls :
          ids[c] \subseteq IF c.op \in UserOps THEN RoomIDs ELSE UserIDs
    /\ pub \in SUBSET Calls
    /\ written \in SUBSET Calls
    /\ audience \in [Calls -> SUBSET UserIDs]
    /\ undone \in SUBSET Calls

\* A change is announced to everyone it concerns: the members of the room that
\* was destroyed, the users who joined or were put into a new room, the user
\* who was kicked.  Only who was kicked or removed in the meantime is left out.
AudienceIsTold ==
    \A c \in Calls :
        /\ c.op \in RoomOps
        /\ pc[c] \in {"send", "done"}
        => audience[c] \subseteq ids[c]

\* A user who once had a row, a room that once was created.
UserKnown(u) ==
    \/ u \in InitialUsers
    \/ \E k \in written : k.op = "registerUser" /\ k.user = u

RoomKnown(r) == \E k \in written : k.op = "createRoom" /\ k.room = r

\* Without a foreign key, and with users and rooms coming and going between
\* two statements of a call, a member is still a user who once had a row, in
\* a room that once was created.
MembersGrounded == \A p \in members : RoomKnown(p[1]) /\ UserKnown(p[2])

RoomCount(op, r) == Cardinality({c \in written : c.op = op /\ c.room = r})
UserCount(op, u) == Cardinality({c \in written : c.op = op /\ c.user = u})

\* Two calls that both found no room do not both create it, nor do two calls
\* register one user: each time but the first needs a deletion of its own.
CreatedOnce ==
    /\ \A r \in RoomIDs :
          RoomCount("createRoom", r) <= 1 + RoomCount("destroyRoom", r)
    /\ \A u \in UserIDs :
          UserCount("registerUser", u) <= 1 + UserCount("removeUser", u)

-----------------------------------------------------------------------------
(* The inductive invariant behind AudienceIsTold and MembersGrounded.      *)

\* The statements at which a call can be follow from what it does.
StageInv ==
    \A c \in Calls :
        /\ pc[c] = "users" => c.op = "createRoom"
        /\ pc[c] = "user" => c.op = "addUser"
        /\ pc[c] = "append" => c.op \in {"createRoom", "addUser"}
        /\ pc[c] = "write" => c.op # "addUser"

\* Nobody is concerned before the write; from then on a call's audience are
\* members of its room, until the announcement lists them.
AudienceOK(c) ==
    /\ pc[c] \in {"idle", "users", "user", "write"} => audience[c] = {}
    /\ c.op = "kickUser" => audience[c] \subseteq {c.user}
    /\ c.op # "kickUser" /\ pc[c] \in {"append", "load"}
          => audience[c] \subseteq MembersOf(c.room)
    /\ c.op \in RoomOps /\ pc[c] \in {"send", "done"}
          => audience[c] \subseteq ids[c]

AudienceInv == \A c \in Calls : AudienceOK(c)

\* What call c has read, and will write, was there when it was read.
ReadKnown(c) ==
    /\ pc[c] \in {"write", "append"} => \A u \in todo[c] : UserKnown(u)
    /\ pc[c] = "user" => todo[c] \subseteq {c.user}
    /\ c.op \in ProfileOps /\ pc[c] = "write" => UserKnown(c.user)
    /\ c.op = "updateRoom" /\ pc[c] = "write" => RoomKnown(c.room)
    /\ pc[c] \in {"user", "append"} => RoomKnown(c.room)

GroundInv ==
    /\ \A u \in users : UserKnown(u)
    /\ \A r \in rooms : RoomKnown(r)
    /\ MembersGrounded
    /\ \A c \in Calls : ReadKnown(c)

ManagerInv == TypeOK /\ StageInv /\ AudienceInv /\ GroundInv

-----------------------------------------------------------------------------
(* The inductive invariant behind CreatedOnce.                             *)

Present(x, S) == IF x \in S THEN 1 ELSE 0

\* A call inserts or deletes one row of users or rooms, and the insertions of
\* a row exceed its deletions by one at the most, while the row is there.
OnceInv ==
    /\ IsFiniteSet(written)
    /\ \A c \in written : pc[c] \notin {"idle", "users", "user", "write"}
    /\ \A c \in Calls : pc[c] = "append" => c.op = "addUser" \/ c \in written
    /\ \A r \in RoomIDs : RoomCount("createRoom", r)
                          <= RoomCount("destroyRoom", r) + Present(r, rooms)
    /\ \A u \in UserIDs : UserCount("registerUser", u)
                          <= UserCount("removeUser", u) + Present(u, users)

-----------------------------------------------------------------------------
(* What the invariants of those who hear announcements build on.           *)

\* A call writes after it has begun, and has returned when its announcement
\* is with a publisher.
OrderInv ==
    \A c \in Calls : /\ pc[c] = "idle" => c \notin written
                     /\ c \in pub => pc[c] = "done"

\* Two calls are rivals if either may overtake the other.
Overlap(c, d) ==
    c # d /\ ({c, d} \subseteq InFlight \/ Publisher(c) # Publisher(d))

\* What c has written still stands.
Stands(c, p) ==
    /\ c.op \in ProfileOps \cup {"registerUser"} => p[2] \in users
    /\ c.op = "removeUser"                       => p[2] \notin users
    /\ c.op \in {"createRoom", "updateRoom"}     => p[1] \in rooms
    /\ c.op = "destroyRoom"                      => p[1] \notin rooms
    /\ c.op = "kickUser" /\ p[2] = c.user        => p \notin members

\* The database is as a call that has returned without an error left it.
Effective(c) ==
    /\ Stands(c, <<c.room, c.user>>)
    /\ c.op = "addUser" => <<c.room, c.user>> \in members

\* A call that returns without an error has done what it was asked to, also if
\* AddUser did not write because it had met the member before, or Save had to
\* insert what was deleted: what it changed stands, unless a call that takes
\* it back has written since this one wrote, or found nothing to write.
SuccessStands ==
    \A c \in Calls : pc[c] = "done" => Effective(c) \/ c \in undone

\* The inductive invariant behind it: the same from the moment a call has
\* acted, and nobody appends but who was asked for.
EffectOK(c) ==
    /\ todo[c] \subseteq IF c.op = "createRoom" THEN c.users ELSE {c.user}
    /\ HasActed(c) => Effective(c) \/ c \in undone

EffectInv == \A c \in Calls : EffectOK(c)

-----------------------------------------------------------------------------
(* What the source says of itself, and the code does not do.               *)

\* "remove room & its members": the members of a destroyed room are gone, so
\* a new room has the members it was created with, or that were added.
DestroyRemovesMembers ==
    \A c \in Calls :
        /\ c.op = "createRoom"
        /\ pc[c] = "done"
        => ids[c] \subseteq c.users \cup
              {k.user : k \in {a \in written : a.op = "addUser"
                                              /\ a.room = c.room}}
=============================================================================
