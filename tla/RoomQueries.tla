---------------------------- MODULE RoomQueries ----------------------------
(***************************************************************************)
(* Calls that only read, of peers and of clients of the management API.  A *)
(* query makes several statements, and others write between them.  Queries *)
(* change nothing and do not meet each other, so that one is looked at.    *)
(* The lists of GetUsers and GetAll come in pages, one call each: there    *)
(* the query is a client that asks for one page after the other.           *)
(***************************************************************************)
EXTENDS Rows, Naturals

CONSTANTS
    Queries,    \* the queries there may be, [op, user, room]
    Limit       \* rows of a page

QueryOps == {"myProfile", "getUser", "getUserAccessToken",
             "myRooms", "myRoomInfo", "getByID", "getUsers"}

ASSUME QueriesAssumption ==
    /\ \A q \in Queries : /\ q.op \in QueryOps
                          /\ q.user \in UserIDs
                          /\ q.room \in RoomIDs
    /\ {"user", "room"} \cap RoomIDs = {}

\* Ids of users are numbers, in the order of the ids.
ASSUME PagesAssumption == UserIDs \subseteq Nat /\ Limit \in Nat \ {0}

VARIABLES
    query,      \* the query that is made
    at,         \* the statement it is at
    found,      \* what it has read of rooms and members, and counted
    offset,     \* the offset of the page the client asks for
    seen,       \* seen[u]: how many times a page showed user u
    ever,       \* history: what was so at some moment of it
    always,     \* history: what was so all the time
    came,       \* history: a user has come since it began
    went,       \* history: a user has gone
    uncounted   \* history: the count of the rooms failed

walkVars == <<offset, seen>>
histVars == <<ever, always, came, went>>
queryVars == <<rowVars, query, at, found, walkVars, histVars, uncounted>>

\* The rows of the database.
Facts == ({"user"} \X users) \cup ({"room"} \X rooms) \cup members

Nothing == [rooms |-> {}, count |-> 0, list |-> {}]

QueryInit ==
    /\ Init
    /\ query \in Queries
    /\ at = "first"
    /\ found = Nothing
    /\ offset = 0
    /\ seen = [u \in UserIDs |-> 0]
    /\ ever = Facts
    /\ always = Facts
    /\ came = FALSE
    /\ went = FALSE
    /\ uncounted = FALSE

\* Related(rooms, "Rooms"): the join drops rows of rooms that are gone.
RoomsOf(u) == {r \in rooms : <<r, u>> \in members}

Running == at \notin {"done", "refused", "failed"}

-----------------------------------------------------------------------------
(* The statements.                                                         *)

Reads(stage, result, next) ==
    /\ at = stage
    /\ found' = result
    /\ at' = next
    /\ UNCHANGED <<rowVars, query, walkVars, histVars, uncounted>>

\* GetUserContext of a peer, or First(user).
ReadUser(next) ==
    Reads("first", Nothing, IF query.user \in users THEN next ELSE "refused")

\* Related(&datas, "Rooms")
ReadRooms ==
    Reads("rooms", [found EXCEPT !.rooms = RoomsOf(query.user)], "count")

\* Association("Rooms").Count
CountRooms ==
    Reads("count", [found EXCEPT !.count = Cardinality(RoomsOf(query.user))],
          "again")

\* Count returns a number only.  Nobody looks whether it failed, and then the
\* number is 0 and the query goes on.
CountFails ==
    /\ at = "count"
    /\ found' = [found EXCEPT !.count = 0]
    /\ at' = "again"
    /\ uncounted' = TRUE
    /\ UNCHANGED <<rowVars, query, walkVars, histVars>>

\* Faulty variants: the condition on the ids is missing, or never met.
AllRooms(ids) == rooms
NoRooms(ids) == {}

RoomsByID(ids) == ids \cap rooms

\* Find(&datas, "id IN (?)"): the same rooms once more, unless they are gone.
ReadAgain ==
    Reads("again", [found EXCEPT !.rooms = RoomsByID(found.rooms)], "members")

\* Faulty variant: any error of First, or none, is taken for a missing row.
NeverThere(r) == FALSE

IsThere(r) == r \in rooms

\* First(room)
ReadRoom(stage) ==
    Reads(stage, [found EXCEPT !.rooms = {query.room}],
          IF IsThere(query.room) THEN "members" ELSE "refused")

\* Faulty variant: the join table alone is read.
Unjoined(p) == TRUE

Joined(p) == p[2] \in users

\* Faulty variant: Preload is missing, and the list stays empty.
NotLoaded == {}

MembersFound == {p \in members : p[1] \in found.rooms /\ Joined(p)}

\* Preload("Members"), a statement of its own.
ReadMembers(allowed) ==
    Reads("members", [found EXCEPT !.list = MembersFound],
          IF allowed THEN "done" ELSE "refused")

-----------------------------------------------------------------------------
(* The pages of GetUsers; those of GetAll are read the same way.  Only     *)
(* rows whose name has the keyword count, so that a row that gets another  *)
(* name comes, or goes.                                                    *)

\* How many rows come before that of u: Order("id").
Rank(u) == Cardinality({v \in users : v < u})

\* Faulty variants: a page is shifted, or too long.
Shifted(k) == offset < k /\ k <= offset + Limit
TooLong(k) == offset <= k /\ k <= offset + Limit

OnPage(k) == offset <= k /\ k < offset + Limit

\* Offset, Limit, Find
FindPage ==
    /\ at = "first"
    /\ at' = "count"
    /\ seen' = [u \in UserIDs |-> IF u \in users /\ OnPage(Rank(u)) THEN seen[u] + 1
                                                                 ELSE seen[u]]
    /\ UNCHANGED <<rowVars, query, found, offset, histVars, uncounted>>

\* Count is a statement of its own.  The client goes on to the next page as
\* long as there are more rows than it has asked for.
Count ==
    /\ at = "count"
    /\ at' = IF offset + Limit < Cardinality(users) THEN "first" ELSE "done"
    /\ offset' = offset + Limit
    /\ UNCHANGED <<rowVars, query, found, seen, histVars, uncounted>>

-----------------------------------------------------------------------------
(* The queries.                                                            *)

MyProfile == query.op = "myProfile" /\ ReadUser("done")

GetUser == query.op = "getUser" /\ ReadUser("done")

\* The token is made from the id that was read.
GetUserAccessToken == query.op = "getUserAccessToken" /\ ReadUser("done")

MyRooms ==
    /\ query.op = "myRooms"
    /\ \/ ReadUser("rooms")
       \/ ReadRooms \/ CountRooms \/ CountFails \/ ReadAgain
       \/ ReadMembers(TRUE)

\* Faulty variant: the peer is not looked for among the members.
Anybody(u) == TRUE

AmongMembers(u) == \E p \in MembersFound : p[2] = u

MyRoomInfo ==
    /\ query.op = "myRoomInfo"
    /\ \/ ReadUser("room")
       \/ ReadRoom("room")
       \/ ReadMembers(AmongMembers(query.user))

GetByID ==
    /\ query.op = "getByID"
    /\ ReadRoom("first") \/ ReadMembers(TRUE)

GetUsers == query.op = "getUsers" /\ (FindPage \/ Count)

\* Any other statement fails, and the query returns the error.
QueryFails ==
    /\ Running
    /\ ~(query.op = "myRooms" /\ at = "count")
    /\ Reads(at, Nothing, "failed")

\* Somebody writes.
Meanwhile ==
    /\ Running
    /\ Next
    /\ ever' = ever \cup Facts'
    /\ always' = always \cap Facts'
    /\ came' = (came \/ ~(users' \subseteq users))
    /\ went' = (went \/ ~(users \subseteq users'))
    /\ UNCHANGED <<query, at, found, walkVars, uncounted>>

QueryNext ==
    \/ MyProfile \/ GetUser \/ GetUserAccessToken
    \/ MyRooms \/ MyRoomInfo \/ GetByID \/ GetUsers
    \/ QueryFails
    \/ Meanwhile

QuerySpec == QueryInit /\ [][QueryNext]_queryVars

-----------------------------------------------------------------------------
(* Safety.                                                                 *)

\* What a query may find, and what it must find, as ever or always has it.
OwnRooms(facts) ==
    {r \in RoomIDs : {<<r, query.user>>, <<"room", r>>} \subseteq facts}

Listed(facts) ==
    {p \in found.rooms \X UserIDs : {p, <<"user", p[2]>>} \subseteq facts}

\* The number of a peer's rooms, or 0 when it could not be counted.
CountHolds ==
    IF uncounted
    THEN found.count = 0
    ELSE /\ found.count >= Cardinality(OwnRooms(always))
         /\ found.count <= Cardinality(OwnRooms(ever))

\* A query that reads while others write answers with what was so at some
\* moment since it began, and leaves out nothing that was so all the time:
\* a peer's rooms, their number unless the count failed, and the members of
\* each room.
AnswersHold ==
    at = "done" =>
        /\ query.op = "myRooms" =>
              /\ OwnRooms(always) \subseteq found.rooms
              /\ found.rooms \subseteq OwnRooms(ever)
              /\ CountHolds
        /\ Listed(always) \subseteq found.list
        /\ found.list \subseteq Listed(ever)

\* What a query is about: a peer is told of a room only as a member of it.
Subject ==
    CASE query.op = "myRoomInfo" -> {<<"user", query.user>>,
                                     <<"room", query.room>>,
                                     <<query.room, query.user>>}
      [] query.op = "getByID"    -> {<<"room", query.room>>}
      [] query.op = "getUsers"   -> {}
      [] OTHER                   -> {<<"user", query.user>>}

\* A query is refused only if something it is about was missing at some
\* moment, and answered only if all of it was there at some moment; also when
\* the room, the user or the membership goes between two of its statements.
AnsweredIfThere ==
    /\ at = "refused" => ~(Subject \subseteq always)
    /\ at = "done" => Subject \subseteq ever

\* A client that goes through the pages is shown every user who was there all
\* the time, whoever comes in the meantime, before or behind its page; only a
\* row that goes moves others to a page it has passed.
WalkMissesNothing ==
    /\ query.op = "getUsers"
    /\ at = "done"
    /\ ~went
    => \A u \in UserIDs : <<"user", u>> \in always => seen[u] > 0

\* It is shown no user twice, whoever goes; only a row that comes moves others
\* to a page it has yet to ask for.
WalkRepeatsNothing ==
    ~came => \A u \in UserIDs : seen[u] <= 1

-----------------------------------------------------------------------------
(* The inductive invariant behind them: what a query has made sure of by   *)
(* the time it is at a statement.                                          *)

Statements ==
    CASE query.op = "myRooms"    -> {"first", "rooms", "count", "again", "members"}
      [] query.op = "myRoomInfo" -> {"first", "room", "members"}
      [] query.op = "getByID"    -> {"first", "members"}
      [] query.op = "getUsers"   -> {"first", "count"}
      [] OTHER                   -> {"first"}

\* Every variable has its type, and tables have finitely many rows.
QueryTypeOK ==
    /\ users \subseteq UserIDs /\ IsFiniteSet(users)
    /\ rooms \subseteq RoomIDs
    /\ members \subseteq RoomIDs \X UserIDs
    /\ query \in Queries
    /\ at \in Statements \cup {"done", "failed"} \cup
              (IF query.op = "getUsers" THEN {} ELSE {"refused"})
    /\ found \in [rooms : SUBSET RoomIDs, count : Nat,
                  list : SUBSET (RoomIDs \X UserIDs)]
    /\ offset \in Nat
    /\ seen \in [UserIDs -> Nat]
    /\ uncounted \in BOOLEAN

HistoryInv ==
    /\ always \subseteq Facts
    /\ Facts \subseteq ever
    /\ IsFiniteSet({r \in RoomIDs : <<"room", r>> \in ever})

\* The rooms of a peer, from the statement on that reads them, and their
\* number, from the next one on.
RoomsFound ==
    /\ OwnRooms(always) \subseteq found.rooms
    /\ found.rooms \subseteq OwnRooms(ever)

AnswerInv ==
    /\ query.op \notin {"myRooms", "myRoomInfo", "getByID"} => found = Nothing
    /\ query.op = "myRooms" =>
          /\ at \in {"first", "rooms", "count"} => ~uncounted
          /\ at \in {"count", "again", "members", "done"} => RoomsFound
          /\ at \in {"again", "members", "done"} => CountHolds
    /\ AnswersHold

ThereInv ==
    /\ /\ query.op \notin {"getByID", "getUsers"}
       /\ at \notin {"first", "refused", "failed"}
       => <<"user", query.user>> \in ever
    /\ /\ query.op \in {"myRoomInfo", "getByID"}
       /\ at \in {"members", "done"}
       => found.rooms = {query.room} /\ <<"room", query.room>> \in ever
    /\ AnsweredIfThere

\* The rows that the pages asked for so far should have shown.
Passed == IF at = "count" THEN offset + Limit ELSE offset

WalkInv ==
    /\ query.op # "getUsers" => \A u \in UserIDs : seen[u] = 0
    /\ query.op = "getUsers" /\ Running =>
          /\ ~went => \A u \in users :
                 <<"user", u>> \in always /\ Rank(u) < Passed => seen[u] > 0
          /\ ~came => \A u \in users : seen[u] > 0 => Rank(u) < Passed
    /\ WalkMissesNothing
    /\ WalkRepeatsNothing

QueryInv == QueryTypeOK /\ HistoryInv /\ AnswerInv /\ ThereInv /\ WalkInv
=============================================================================
