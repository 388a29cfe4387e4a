------------------------- MODULE RoomQueriesProofs -------------------------
(***************************************************************************)
(* Proofs about RoomQueries, for any users, rooms and queries, any size of *)
(* a page, and whatever others write meanwhile.                            *)
(***************************************************************************)
EXTENDS RoomQueries, FiniteSetTheorems, TLAPS

FoundType == [rooms : SUBSET RoomIDs, count : Nat,
              list : SUBSET (RoomIDs \X UserIDs)]

\* Where a query can end.
Ends == {"done", "failed"} \cup (IF query.op = "getUsers" THEN {} ELSE {"refused"})

\* A statement of the query reads: nobody writes.
Reading == UNCHANGED <<rowVars, query, histVars>>

ProfileQuery == MyProfile \/ GetUser \/ GetUserAccessToken

\* The rows of a table are told from those of the others.
LEMMA FactsAreRows ==
    ASSUME QueryTypeOK
    PROVE  /\ \A u : <<"user", u>> \in Facts <=> u \in users
           /\ \A r : <<"room", r>> \in Facts <=> r \in rooms
           /\ \A p \in RoomIDs \X UserIDs : p \in Facts <=> p \in members
BY QueriesAssumption DEF QueryTypeOK, Facts

\* What is found to begin with.
LEMMA NothingIsFound == Nothing \in FoundType /\ Nothing.rooms = {} /\ Nothing.list = {}
BY DEF Nothing, FoundType

\* The rooms that have been there are as many as a number says.
LEMMA RoomsAreFinite ==
    ASSUME QueryTypeOK, HistoryInv
    PROVE  /\ IsFiniteSet(OwnRooms(ever))
           /\ IsFiniteSet(rooms)
           /\ \A u : IsFiniteSet(RoomsOf(u)) /\ Cardinality(RoomsOf(u)) \in Nat
<1> DEFINE R == {r \in RoomIDs : <<"room", r>> \in ever}
<1>1. IsFiniteSet(R)
  BY DEF HistoryInv
<1>2. OwnRooms(ever) \subseteq R
  BY DEF OwnRooms
<1>3. rooms \subseteq R
  BY FactsAreRows DEF HistoryInv, QueryTypeOK
<1> HIDE DEF R
<1>4. IsFiniteSet(OwnRooms(ever)) /\ IsFiniteSet(rooms)
  BY <1>1, <1>2, <1>3, FS_Subset
<1>5. ASSUME NEW u
      PROVE  IsFiniteSet(RoomsOf(u)) /\ Cardinality(RoomsOf(u)) \in Nat
  <2>1. RoomsOf(u) \in SUBSET rooms
    BY DEF RoomsOf
  <2> QED
    BY <1>4, <2>1, FS_Subset, FS_CardinalityType
<1> QED
  BY <1>4, <1>5

-----------------------------------------------------------------------------
(* Types.                                                                  *)

\* A statement that reads leaves types alone.
LEMMA ReadsType ==
    ASSUME QueryTypeOK, NEW stage, NEW result \in FoundType,
           NEW next \in Statements \cup Ends, Reads(stage, result, next)
    PROVE  QueryTypeOK'
BY DEF QueryTypeOK, Reads, rowVars, walkVars, Statements, Ends, FoundType

\* Every variable keeps its type, and tables keep finitely many rows.
LEMMA QueryTypeStep ==
    QueryTypeOK /\ HistoryInv /\ [QueryNext]_queryVars => QueryTypeOK'
<1> SUFFICES ASSUME QueryTypeOK, HistoryInv, [QueryNext]_queryVars
             PROVE  QueryTypeOK'
  OBVIOUS
<1>t. /\ query \in Queries /\ query.room \in RoomIDs /\ query.op \in QueryOps
      /\ found \in FoundType
      /\ at \in Statements \cup Ends
  BY QueriesAssumption DEF QueryTypeOK, FoundType, Ends
<1>1. CASE ProfileQuery
  <2>1. /\ query.op \in {"myProfile", "getUser", "getUserAccessToken"}
        /\ ReadUser("done")
    BY <1>1 DEF ProfileQuery, MyProfile, GetUser, GetUserAccessToken
  <2> QED
    BY <2>1, NothingIsFound, ReadsType DEF ReadUser, Ends
<1>2. CASE MyRooms
  <2>1. query.op = "myRooms"
    BY <1>2 DEF MyRooms
  <2>2. /\ Statements = {"first", "rooms", "count", "again", "members"}
        /\ {"done", "refused"} \subseteq Ends
    BY <2>1 DEF Statements, Ends
  <2>3. RoomsOf(query.user) \subseteq RoomIDs /\ Cardinality(RoomsOf(query.user)) \in Nat
    BY RoomsAreFinite DEF RoomsOf, QueryTypeOK
  <2>4. CASE ReadUser("rooms")
    BY <2>2, <2>4, NothingIsFound, ReadsType DEF ReadUser
  <2>5. CASE ReadRooms
    <3>1. [found EXCEPT !.rooms = RoomsOf(query.user)] \in FoundType
      BY <1>t, <2>3 DEF FoundType
    <3> QED
      BY <2>2, <2>5, <3>1, ReadsType DEF ReadRooms
  <2>6. CASE CountRooms
    <3>1. [found EXCEPT !.count = Cardinality(RoomsOf(query.user))] \in FoundType
      BY <1>t, <2>3 DEF FoundType
    <3> QED
      BY <2>2, <2>6, <3>1, ReadsType DEF CountRooms
  <2>9. CASE CountFails
    <3>1. [found EXCEPT !.count = 0] \in FoundType
      BY <1>t DEF FoundType
    <3> QED
      BY <2>2, <2>9, <3>1 DEF CountFails, QueryTypeOK, rowVars, walkVars, Statements,
            FoundType
  <2>7. CASE ReadAgain
    <3>1. [found EXCEPT !.rooms = RoomsByID(found.rooms)] \in FoundType
      BY <1>t DEF FoundType, RoomsByID
    <3> QED
      BY <2>2, <2>7, <3>1, ReadsType DEF ReadAgain
  <2>8. CASE ReadMembers(TRUE)
    <3>1. [found EXCEPT !.list = MembersFound] \in FoundType
      BY <1>t DEF FoundType, MembersFound, QueryTypeOK
    <3> QED
      BY <2>2, <2>8, <3>1, ReadsType DEF ReadMembers
  <2> QED
    BY <1>2, <2>4, <2>5, <2>6, <2>7, <2>8, <2>9 DEF MyRooms
<1>3. CASE MyRoomInfo \/ GetByID
  <2>1. query.op \in {"myRoomInfo", "getByID"}
    BY <1>3 DEF MyRoomInfo, GetByID
  <2>2. /\ query.op = "myRoomInfo" => Statements = {"first", "room", "members"}
        /\ query.op = "getByID" => Statements = {"first", "members"}
        /\ {"done", "refused"} \subseteq Ends
    BY <2>1 DEF Statements, Ends
  <2>3. CASE MyRoomInfo /\ ReadUser("room")
    BY <2>2, <2>3, NothingIsFound, ReadsType DEF ReadUser, MyRoomInfo
  <2>4. ASSUME NEW stage, ReadRoom(stage)
        PROVE  QueryTypeOK'
    <3>1. [found EXCEPT !.rooms = {query.room}] \in FoundType
      BY <1>t DEF FoundType
    <3> QED
      BY <2>1, <2>2, <2>4, <3>1, ReadsType DEF ReadRoom
  <2>5. ASSUME NEW allowed, ReadMembers(allowed)
        PROVE  QueryTypeOK'
    <3>1. [found EXCEPT !.list = MembersFound] \in FoundType
      BY <1>t DEF FoundType, MembersFound, QueryTypeOK
    <3> QED
      BY <2>2, <2>5, <3>1, ReadsType DEF ReadMembers
  <2> QED
    BY <1>3, <2>3, <2>4, <2>5 DEF MyRoomInfo, GetByID
<1>4. CASE GetUsers
  <2>1. query.op = "getUsers" /\ Statements = {"first", "count"}
    BY <1>4 DEF GetUsers, Statements
  <2> QED
    BY <1>4, <2>1, PagesAssumption DEF GetUsers, FindPage, Count, QueryTypeOK, rowVars,
          Statements
<1>5. CASE QueryFails
  BY <1>5, NothingIsFound, ReadsType DEF QueryFails, Ends
<1>6. CASE Meanwhile
  <2>1. UNCHANGED <<query, at, found, walkVars, uncounted>>
    BY <1>6 DEF Meanwhile
  <2>2. /\ users' \subseteq UserIDs /\ rooms' \subseteq RoomIDs
        /\ members' \subseteq RoomIDs \X UserIDs
        /\ \/ users' = users
           \/ \E row \in UserIDs : users' \in {users \cup {row}, users \ {row}}
    BY <1>6 DEF Meanwhile, Next, OneRow, QueryTypeOK
  <2>3. IsFiniteSet(users')
    BY <2>2, FS_AddElement, FS_RemoveElement DEF QueryTypeOK
  <2> QED
    BY <2>1, <2>2, <2>3 DEF QueryTypeOK, walkVars, Statements
<1>7. CASE UNCHANGED queryVars
  BY <1>7 DEF queryVars, rowVars, walkVars, QueryTypeOK, Statements
<1> QED
  BY <1>1, <1>2, <1>3, <1>4, <1>5, <1>6, <1>7 DEF QueryNext, ProfileQuery

-----------------------------------------------------------------------------
(* Histories.                                                              *)

\* Whatever the query does itself, it writes nothing; others write one row.
LEMMA ReadOrWritten ==
    ASSUME [QueryNext]_queryVars
    PROVE  Reading \/ Meanwhile
BY DEF QueryNext, queryVars, Reading, MyProfile, GetUser, GetUserAccessToken,
       MyRooms, MyRoomInfo, GetByID, GetUsers, QueryFails, ReadUser, ReadRooms,
       CountRooms, CountFails, ReadAgain, ReadRoom, ReadMembers, Reads, FindPage, Count

\* The histories go along with the rows.
LEMMA HistoryStep ==
    QueryTypeOK /\ QueryTypeOK' /\ HistoryInv /\ [QueryNext]_queryVars => HistoryInv'
<1> SUFFICES ASSUME QueryTypeOK, QueryTypeOK', HistoryInv, [QueryNext]_queryVars
             PROVE  HistoryInv'
  OBVIOUS
<1>1. CASE Reading
  BY <1>1 DEF Reading, HistoryInv, Facts, rowVars, histVars
<1>2. CASE Meanwhile
  <2> DEFINE R == {r \in RoomIDs : <<"room", r>> \in ever}
             S == {r \in RoomIDs : <<"room", r>> \in ever'}
  <2>1. ever' = ever \cup Facts' /\ always' = always \cap Facts'
    BY <1>2 DEF Meanwhile
  <2>2. PICK row : rooms' \subseteq rooms \cup {row}
    BY <1>2 DEF Meanwhile, Next, OneRow
  <2>3. \A r : <<"room", r>> \in Facts' <=> r \in rooms'
    BY QueriesAssumption DEF QueryTypeOK, Facts
  <2>4. rooms \subseteq R
    BY FactsAreRows DEF HistoryInv, QueryTypeOK
  <2>5. S \subseteq R \cup {row}
    BY <2>1, <2>2, <2>3, <2>4
  <2>6. IsFiniteSet(R)
    BY DEF HistoryInv
  <2> HIDE DEF R, S
  <2>7. IsFiniteSet(S)
    BY <2>5, <2>6, FS_AddElement, FS_Subset
  <2> QED
    BY <2>1, <2>7 DEF HistoryInv, S
<1> QED
  BY <1>1, <1>2, ReadOrWritten

-----------------------------------------------------------------------------
(* Answers.                                                                *)

\* The members are listed as they are, which is between what was so all the
\* time and what was so at some moment.
LEMMA MembersListed ==
    ASSUME QueryTypeOK, HistoryInv
    PROVE  Listed(always) \subseteq MembersFound /\ MembersFound \subseteq Listed(ever)
<1>1. ASSUME NEW p \in Listed(always)
      PROVE  p \in MembersFound
  <2>1. /\ p \in found.rooms \X UserIDs
        /\ p \in Facts /\ <<"user", p[2]>> \in Facts
    BY <1>1 DEF Listed, HistoryInv
  <2>2. p \in RoomIDs \X UserIDs /\ p[1] \in found.rooms
    BY <2>1 DEF QueryTypeOK
  <2> QED
    BY <2>1, <2>2, FactsAreRows DEF MembersFound, Joined
<1>2. ASSUME NEW p \in MembersFound
      PROVE  p \in Listed(ever)
  <2>1. p \in RoomIDs \X UserIDs /\ p \in members /\ p[1] \in found.rooms
        /\ p[2] \in users
    BY <1>2 DEF MembersFound, Joined, QueryTypeOK
  <2>2. p \in Facts /\ <<"user", p[2]>> \in Facts
    BY <2>1, FactsAreRows
  <2> QED
    BY <2>1, <2>2 DEF Listed, HistoryInv
<1> QED
  BY <1>1, <1>2

\* So are the rooms of a peer.
LEMMA RoomsListed ==
    ASSUME QueryTypeOK, HistoryInv
    PROVE  /\ OwnRooms(always) \subseteq RoomsOf(query.user)
           /\ RoomsOf(query.user) \subseteq OwnRooms(ever)
<1>1. \A r \in RoomIDs : <<r, query.user>> \in RoomIDs \X UserIDs
  BY QueriesAssumption DEF QueryTypeOK
<1>2. OwnRooms(Facts) = RoomsOf(query.user)
  BY <1>1, FactsAreRows DEF OwnRooms, RoomsOf, QueryTypeOK
<1>3. /\ OwnRooms(always) \subseteq OwnRooms(Facts)
      /\ OwnRooms(Facts) \subseteq OwnRooms(ever)
  BY DEF OwnRooms, HistoryInv
<1> QED
  BY <1>2, <1>3

\* Statements of MyRooms.
LEMMA MyRoomsAnswer ==
    ASSUME QueryTypeOK, HistoryInv, AnswerInv, MyRooms
    PROVE  AnswerInv'
<1>1. query.op = "myRooms" /\ found \in FoundType
  BY DEF MyRooms, QueryTypeOK, FoundType
<1>2. Reading
  BY DEF MyRooms, ReadUser, ReadRooms, CountRooms, CountFails, ReadAgain, ReadMembers,
         Reads, Reading
<1>3. OwnRooms(always)' = OwnRooms(always) /\ OwnRooms(ever)' = OwnRooms(ever)
  BY <1>2 DEF Reading, histVars, OwnRooms
<1>4. SUFFICES ASSUME at' # "refused"
               PROVE  /\ at' \in {"first", "rooms", "count"} => ~uncounted'
                      /\ at' \in {"count", "again", "members", "done"} => RoomsFound'
                      /\ at' \in {"again", "members", "done"} => CountHolds'
                      /\ at' = "done" => /\ Listed(always)' \subseteq found'.list
                                         /\ found'.list \subseteq Listed(ever)'
  <2>1. query' = query
    BY <1>2 DEF Reading
  <2> QED
    BY <1>1, <1>4, <2>1 DEF AnswerInv, AnswersHold, RoomsFound
<1>5. CASE ReadUser("rooms")
  BY <1>1, <1>4, <1>5 DEF ReadUser, Reads, AnswerInv
<1>6. CASE ReadRooms
  <2>1. /\ at' = "count" /\ found'.rooms = RoomsOf(query.user)
        /\ at = "rooms" /\ uncounted' = uncounted
    BY <1>1, <1>6 DEF ReadRooms, Reads, FoundType
  <2> QED
    BY <1>1, <1>3, <2>1, RoomsListed DEF RoomsFound, AnswerInv
<1>7. CASE CountRooms
  <2>1. /\ at = "count" /\ at' = "again" /\ found'.rooms = found.rooms
        /\ found'.count = Cardinality(RoomsOf(query.user)) /\ uncounted' = uncounted
    BY <1>1, <1>7 DEF CountRooms, Reads, FoundType
  <2>2. RoomsFound'
    BY <1>1, <1>3, <2>1 DEF AnswerInv, RoomsFound
  <2>3. /\ Cardinality(OwnRooms(always)) <= Cardinality(RoomsOf(query.user))
        /\ Cardinality(RoomsOf(query.user)) <= Cardinality(OwnRooms(ever))
    BY RoomsAreFinite, RoomsListed, FS_Subset
  <2>4. /\ Cardinality(OwnRooms(always)) \in Nat
        /\ Cardinality(OwnRooms(ever)) \in Nat
    BY RoomsAreFinite, RoomsListed, FS_Subset, FS_CardinalityType
  <2>5. CountHolds'
    BY <1>1, <1>3, <2>1, <2>3, <2>4, RoomsAreFinite DEF CountHolds, AnswerInv
  <2> QED
    BY <2>1, <2>2, <2>5
<1>10. CASE CountFails
  <2>1. /\ at = "count" /\ at' = "again" /\ found'.rooms = found.rooms
        /\ found'.count = 0 /\ uncounted'
    BY <1>1, <1>10 DEF CountFails, FoundType
  <2>2. RoomsFound'
    BY <1>1, <1>3, <2>1 DEF AnswerInv, RoomsFound
  <2> QED
    BY <2>1, <2>2 DEF CountHolds
<1>8. CASE ReadAgain
  <2>1. /\ at = "again" /\ at' = "members" /\ found'.count = found.count
        /\ uncounted' = uncounted
        /\ found'.rooms = found.rooms \cap rooms
    BY <1>1, <1>8 DEF ReadAgain, Reads, FoundType, RoomsByID
  <2>2. OwnRooms(always) \subseteq rooms
    BY RoomsListed DEF RoomsOf
  <2>3. RoomsFound' /\ CountHolds'
    BY <1>1, <1>3, <2>1, <2>2 DEF AnswerInv, RoomsFound, CountHolds
  <2> QED
    BY <2>1, <2>3
<1>9. CASE ReadMembers(TRUE)
  <2>1. /\ at = "members" /\ at' \notin {"first", "rooms", "count"}
        /\ found'.count = found.count /\ uncounted' = uncounted
        /\ found'.rooms = found.rooms /\ found'.list = MembersFound
    BY <1>1, <1>9 DEF ReadMembers, Reads, FoundType
  <2>2. RoomsFound' /\ CountHolds'
    BY <1>1, <1>3, <2>1 DEF AnswerInv, RoomsFound, CountHolds
  <2>3. Listed(always)' = Listed(always) /\ Listed(ever)' = Listed(ever)
    BY <1>2, <2>1 DEF Reading, histVars, Listed
  <2> QED
    BY <2>1, <2>2, <2>3, MembersListed
<1> QED
  BY <1>5, <1>6, <1>7, <1>8, <1>9, <1>10 DEF MyRooms

\* Statements of GetMyRoomInfo and GetByID.
LEMMA RoomInfoAnswer ==
    ASSUME QueryTypeOK, HistoryInv, AnswerInv, MyRoomInfo \/ GetByID
    PROVE  AnswerInv'
<1>1. query.op \in {"myRoomInfo", "getByID"} /\ found \in FoundType
  BY DEF MyRoomInfo, GetByID, QueryTypeOK, FoundType
<1>2. Reading
  BY DEF MyRoomInfo, GetByID, ReadUser, ReadRoom, ReadMembers, Reads, Reading
<1>3. SUFFICES ASSUME at' = "done"
               PROVE  /\ Listed(always)' \subseteq found'.list
                      /\ found'.list \subseteq Listed(ever)'
  <2>1. query' = query
    BY <1>2 DEF Reading
  <2> QED
    BY <1>1, <1>3, <2>1 DEF AnswerInv, AnswersHold
<1>4. \E allowed : ReadMembers(allowed)
  BY <1>3 DEF MyRoomInfo, GetByID, ReadUser, ReadRoom, Reads
<1>5. found'.rooms = found.rooms /\ found'.list = MembersFound
  BY <1>1, <1>4 DEF ReadMembers, Reads, FoundType
<1>6. Listed(always)' = Listed(always) /\ Listed(ever)' = Listed(ever)
  BY <1>2, <1>5 DEF Reading, histVars, Listed
<1> QED
  BY <1>5, <1>6, MembersListed

\* A query that has found nothing answers with nothing.
LEMMA NothingAnswers ==
    ASSUME found' = Nothing, at' \notin {"first", "rooms", "count", "again", "members"},
           at' = "done" => query'.op # "myRooms"
    PROVE  AnswerInv'
BY NothingIsFound DEF AnswerInv, AnswersHold, Listed

\* An answer that holds is not overtaken by who writes meanwhile.
LEMMA AnswerStep ==
    QueryTypeOK /\ HistoryInv /\ HistoryInv' /\ QueryTypeOK' /\ AnswerInv
    /\ [QueryNext]_queryVars => AnswerInv'
<1> SUFFICES ASSUME QueryTypeOK, QueryTypeOK', HistoryInv, HistoryInv', AnswerInv,
                    [QueryNext]_queryVars
             PROVE  AnswerInv'
  OBVIOUS
<1>1. CASE ProfileQuery
  BY <1>1, NothingAnswers DEF ProfileQuery, MyProfile, GetUser, GetUserAccessToken,
        ReadUser, Reads
<1>2. CASE GetUsers
  <2>1. query.op = "getUsers" /\ query' = query /\ found' = found
    BY <1>2 DEF GetUsers, FindPage, Count
  <2>2. found' = Nothing
    BY <2>1 DEF AnswerInv
  <2> QED
    BY <2>1, <2>2, NothingIsFound DEF AnswerInv, AnswersHold, Listed
<1>3. CASE QueryFails
  BY <1>3, NothingAnswers DEF QueryFails, Reads
<1>4. CASE Meanwhile
  <2>1. /\ query' = query /\ at' = at /\ found' = found /\ at # "done"
        /\ uncounted' = uncounted /\ ever \subseteq ever' /\ always' \subseteq always
    BY <1>4 DEF Meanwhile, Running
  <2>2. /\ OwnRooms(always)' \subseteq OwnRooms(always)
        /\ OwnRooms(ever) \subseteq OwnRooms(ever)'
    BY <2>1 DEF OwnRooms
  <2>3. RoomsFound => RoomsFound'
    BY <2>1, <2>2 DEF RoomsFound
  <2>4. CountHolds => CountHolds'
    <3>1. OwnRooms(always) \subseteq OwnRooms(ever)
      BY RoomsListed
    <3>2. IsFiniteSet(OwnRooms(ever)) /\ IsFiniteSet(OwnRooms(ever)')
      <4>1. IsFiniteSet(OwnRooms(ever)')
        <5> DEFINE R == {r \in RoomIDs : <<"room", r>> \in ever'}
        <5>1. IsFiniteSet(R) /\ OwnRooms(ever)' \subseteq R
          BY DEF HistoryInv, OwnRooms
        <5> HIDE DEF R
        <5> QED
          BY <5>1, FS_Subset
      <4> QED
        BY <4>1, RoomsAreFinite
    <3>3. IsFiniteSet(OwnRooms(always))
      BY <3>1, <3>2, FS_Subset
    <3>4. /\ Cardinality(OwnRooms(always)') <= Cardinality(OwnRooms(always))
          /\ Cardinality(OwnRooms(ever)) <= Cardinality(OwnRooms(ever)')
      BY <2>2, <3>2, <3>3, FS_Subset
    <3>5. /\ Cardinality(OwnRooms(always)') \in Nat
          /\ Cardinality(OwnRooms(always)) \in Nat
          /\ Cardinality(OwnRooms(ever)) \in Nat
          /\ Cardinality(OwnRooms(ever)') \in Nat
      BY <2>2, <3>2, <3>3, FS_Subset, FS_CardinalityType
    <3>6. found.count \in Nat
      BY DEF QueryTypeOK
    <3> QED
      BY <2>1, <3>4, <3>5, <3>6 DEF CountHolds
  <2> QED
    BY <2>1, <2>3, <2>4 DEF AnswerInv, AnswersHold
<1>5. CASE UNCHANGED queryVars
  BY <1>5 DEF queryVars, histVars, AnswerInv, RoomsFound, CountHolds, AnswersHold,
        Listed, OwnRooms
<1> QED
  BY <1>1, <1>2, <1>3, <1>4, <1>5, MyRoomsAnswer, RoomInfoAnswer DEF QueryNext,
        ProfileQuery

\* At first nothing has happened.
LEMMA InitQuery == QueryInit => QueryInv
<1> SUFFICES ASSUME QueryInit
             PROVE  QueryInv
  OBVIOUS
<1>1. QueryTypeOK
  <2>1. Nothing \in FoundType /\ "first" \in Statements
    BY NothingIsFound DEF Statements
  <2> QED
    BY <2>1 DEF QueryInit, Init, QueryTypeOK, FoundType
<1>2. HistoryInv
  <2>1. {r \in RoomIDs : <<"room", r>> \in ever} = rooms
    BY <1>1, FactsAreRows DEF QueryInit, QueryTypeOK
  <2> QED
    BY <2>1 DEF QueryInit, Init, HistoryInv
<1>3. AnswerInv
  BY DEF QueryInit, AnswerInv, AnswersHold
<1>4. ThereInv
  BY DEF QueryInit, ThereInv, AnsweredIfThere
<1>5. WalkInv
  <2>1. \A u \in UserIDs : seen[u] = 0
    BY DEF QueryInit
  <2>2. ASSUME NEW u \in users, Rank(u) < Passed
        PROVE  FALSE
    <3>1. Rank(u) \in Nat
      <4>1. {v \in users : v < u} \in SUBSET users
        OBVIOUS
      <4> QED
        BY <1>1, <4>1, FS_Subset, FS_CardinalityType DEF QueryTypeOK, Rank
    <3> QED
      BY <2>2, <3>1 DEF QueryInit, Passed
  <2> QED
    BY <1>1, <2>1, <2>2 DEF QueryInit, WalkInv, WalkMissesNothing,
          WalkRepeatsNothing, QueryTypeOK
<1> QED
  BY <1>1, <1>2, <1>3, <1>4, <1>5 DEF QueryInv

-----------------------------------------------------------------------------
(* Refusals.                                                               *)

\* What a query is about, by the query.
LEMMA SubjectOf ==
    ASSUME QueryTypeOK
    PROVE  /\ query.op = "myRoomInfo" => Subject = {<<"user", query.user>>,
                                                    <<"room", query.room>>,
                                                    <<query.room, query.user>>}
           /\ query.op = "getByID" => Subject = {<<"room", query.room>>}
           /\ query.op = "getUsers" => Subject = {}
           /\ query.op \notin {"myRoomInfo", "getByID", "getUsers"} =>
                 Subject = {<<"user", query.user>>}
BY DEF Subject

\* A query is refused, and answered, for a reason.
LEMMA ThereStep ==
    QueryTypeOK /\ HistoryInv /\ HistoryInv' /\ QueryTypeOK' /\ ThereInv
    /\ [QueryNext]_queryVars => ThereInv'
<1> SUFFICES ASSUME QueryTypeOK, QueryTypeOK', HistoryInv, HistoryInv', ThereInv,
                    [QueryNext]_queryVars
             PROVE  ThereInv'
  OBVIOUS
<1>1. ASSUME Reading
      PROVE  /\ query' = query /\ ever' = ever /\ always' = always
             /\ Subject' = Subject
  BY <1>1 DEF Reading, histVars, Subject
<1>2. /\ <<"user", query.user>> \in always => query.user \in users
      /\ query.user \in users => <<"user", query.user>> \in ever
      /\ <<"room", query.room>> \in always => query.room \in rooms
      /\ query.room \in rooms => <<"room", query.room>> \in ever
      /\ <<query.room, query.user>> \in always => <<query.room, query.user>> \in members
      /\ <<query.room, query.user>> \in members => <<query.room, query.user>> \in ever
  <2>1. <<query.room, query.user>> \in RoomIDs \X UserIDs
    BY QueriesAssumption DEF QueryTypeOK
  <2> QED
    BY <2>1, FactsAreRows DEF HistoryInv
<1>3. CASE ProfileQuery
  <2>1. /\ query.op \in {"myProfile", "getUser", "getUserAccessToken"}
        /\ at' = IF query.user \in users THEN "done" ELSE "refused"
        /\ Reading
    BY <1>3 DEF ProfileQuery, MyProfile, GetUser, GetUserAccessToken, ReadUser,
          Reads, Reading
  <2> QED
    BY <1>1, <1>2, <2>1, SubjectOf DEF ThereInv, AnsweredIfThere
<1>4. CASE MyRooms
  <2>1. query.op = "myRooms" /\ Reading
    BY <1>4 DEF MyRooms, ReadUser, ReadRooms, CountRooms, CountFails, ReadAgain,
          ReadMembers, Reads, Reading
  <2>2. CASE ReadUser("rooms")
    BY <1>1, <1>2, <2>1, <2>2, SubjectOf DEF ThereInv, AnsweredIfThere, ReadUser, Reads
  <2>3. CASE ~ReadUser("rooms")
    <3>1. at \notin {"first", "refused", "failed"} /\ at' # "refused"
      BY <1>4, <2>3 DEF MyRooms, ReadRooms, CountRooms, CountFails, ReadAgain,
            ReadMembers, Reads
    <3> QED
      BY <1>1, <2>1, <3>1, SubjectOf DEF ThereInv, AnsweredIfThere
  <2> QED
    BY <2>2, <2>3
<1>5. CASE MyRoomInfo
  <2>1. query.op = "myRoomInfo" /\ Reading
    BY <1>5 DEF MyRoomInfo, ReadUser, ReadRoom, ReadMembers, Reads, Reading
  <2>2. CASE ReadUser("room")
    BY <1>1, <1>2, <2>1, <2>2, SubjectOf DEF ThereInv, AnsweredIfThere, ReadUser, Reads
  <2>3. CASE ReadRoom("room")
    <3>1. /\ at = "room" /\ found'.rooms = {query.room}
          /\ at' = IF query.room \in rooms THEN "members" ELSE "refused"
      BY <2>3 DEF ReadRoom, Reads, IsThere, QueryTypeOK
    <3> QED
      BY <1>1, <1>2, <2>1, <3>1, SubjectOf DEF ThereInv, AnsweredIfThere
  <2>4. CASE ReadMembers(AmongMembers(query.user))
    <3>1. /\ at = "members" /\ found'.rooms = found.rooms
          /\ at' = IF AmongMembers(query.user) THEN "done" ELSE "refused"
      BY <2>4 DEF ReadMembers, Reads, QueryTypeOK
    <3>2. /\ found.rooms = {query.room}
          /\ <<"room", query.room>> \in ever /\ <<"user", query.user>> \in ever
      BY <2>1, <3>1 DEF ThereInv
    <3>3. ASSUME AmongMembers(query.user)
          PROVE  <<query.room, query.user>> \in ever
      <4>1. PICK p \in members : /\ p[1] \in found.rooms /\ p[2] = query.user
                                 /\ p[2] \in users
        BY <3>3 DEF AmongMembers, MembersFound, Joined
      <4>2. p = <<query.room, query.user>>
        BY <3>2, <4>1 DEF QueryTypeOK
      <4> QED
        BY <1>2, <4>1, <4>2
    <3>4. ASSUME Subject \subseteq always
          PROVE  AmongMembers(query.user)
      <4>1. <<query.room, query.user>> \in members /\ query.user \in users
        BY <1>2, <2>1, <3>4, SubjectOf
      <4> QED
        BY <3>2, <4>1 DEF AmongMembers, MembersFound, Joined
    <3> QED
      BY <1>1, <2>1, <3>1, <3>2, <3>3, <3>4, SubjectOf DEF ThereInv, AnsweredIfThere
  <2> QED
    BY <1>5, <2>2, <2>3, <2>4 DEF MyRoomInfo
<1>6. CASE GetByID
  <2>1. query.op = "getByID" /\ Reading
    BY <1>6 DEF GetByID, ReadRoom, ReadMembers, Reads, Reading
  <2>2. CASE ReadRoom("first")
    <3>1. /\ at = "first" /\ found'.rooms = {query.room}
          /\ at' = IF query.room \in rooms THEN "members" ELSE "refused"
      BY <2>2 DEF ReadRoom, Reads, IsThere, QueryTypeOK
    <3> QED
      BY <1>1, <1>2, <2>1, <3>1, SubjectOf DEF ThereInv, AnsweredIfThere
  <2>3. CASE ReadMembers(TRUE)
    <3>1. at = "members" /\ found'.rooms = found.rooms /\ at' = "done"
      BY <2>3 DEF ReadMembers, Reads, QueryTypeOK
    <3> QED
      BY <1>1, <2>1, <3>1, SubjectOf DEF ThereInv, AnsweredIfThere
  <2> QED
    BY <1>6, <2>2, <2>3 DEF GetByID
<1>7. CASE GetUsers
  <2>1. query.op = "getUsers" /\ Reading /\ at' # "refused"
    BY <1>7 DEF GetUsers, FindPage, Count, Reading
  <2> QED
    BY <1>1, <2>1, SubjectOf DEF ThereInv, AnsweredIfThere
<1>8. CASE QueryFails
  <2>1. at' = "failed"
    BY <1>8 DEF QueryFails, Reads
  <2> QED
    BY <2>1 DEF ThereInv, AnsweredIfThere
<1>9. CASE Meanwhile
  <2>1. /\ query' = query /\ at' = at /\ found' = found /\ ever \subseteq ever'
        /\ at \notin {"done", "refused"}
    BY <1>9 DEF Meanwhile, Running
  <2> QED
    BY <2>1 DEF ThereInv, AnsweredIfThere
<1>10. CASE UNCHANGED queryVars
  BY <1>10 DEF queryVars, histVars, ThereInv, AnsweredIfThere, Subject
<1> QED
  BY <1>3, <1>4, <1>5, <1>6, <1>7, <1>8, <1>9, <1>10 DEF QueryNext, ProfileQuery

-----------------------------------------------------------------------------
(* Pages.                                                                  *)

\* How many rows come before a user grows with the rows, and never counts the
\* user.
LEMMA Ranks ==
    ASSUME QueryTypeOK, QueryTypeOK'
    PROVE  /\ \A u : Rank(u) \in Nat /\ Rank(u)' \in Nat
           /\ Cardinality(users) \in Nat
           /\ \A u \in users : Rank(u) < Cardinality(users)
           /\ users \subseteq users' => \A u : Rank(u) <= Rank(u)'
           /\ users' \subseteq users => \A u : Rank(u)' <= Rank(u)
<1> DEFINE B(u) == {v \in users : v < u}
           C(u) == {v \in users' : v < u}
<1>1. IsFiniteSet(users) /\ IsFiniteSet(users') /\ users \subseteq Nat
  BY PagesAssumption DEF QueryTypeOK
<1>2. \A u : /\ B(u) \in SUBSET users /\ C(u) \in SUBSET users'
             /\ u \in users => u \notin B(u)
             /\ users \subseteq users' => B(u) \in SUBSET C(u)
             /\ users' \subseteq users => C(u) \in SUBSET B(u)
  <2>1. \A u : B(u) \in SUBSET users /\ C(u) \in SUBSET users'
    OBVIOUS
  <2>2. \A u \in users : u \notin B(u)
    BY <1>1
  <2>3. users \subseteq users' => \A u : B(u) \in SUBSET C(u)
    OBVIOUS
  <2>4. users' \subseteq users => \A u : C(u) \in SUBSET B(u)
    OBVIOUS
  <2> HIDE DEF B, C
  <2> QED
    BY <2>1, <2>2, <2>3, <2>4
<1>3. \A u : Rank(u) = Cardinality(B(u)) /\ Rank(u)' = Cardinality(C(u))
  BY DEF Rank
<1> HIDE DEF B, C
<1>4. \A u : IsFiniteSet(B(u)) /\ IsFiniteSet(C(u))
  BY <1>1, <1>2, FS_Subset
<1>5. /\ \A u : Cardinality(B(u)) \in Nat /\ Cardinality(C(u)) \in Nat
      /\ Cardinality(users) \in Nat
  BY <1>1, <1>4, FS_CardinalityType
<1>6. ASSUME NEW u \in users
      PROVE  Cardinality(B(u)) < Cardinality(users)
  <2>1. B(u) # users
    BY <1>2, <1>6
  <2>2. /\ Cardinality(B(u)) <= Cardinality(users)
        /\ Cardinality(B(u)) # Cardinality(users)
    BY <1>1, <1>2, <2>1, FS_Subset
  <2> QED
    BY <1>5, <2>2
<1>7. users \subseteq users' => \A u : Cardinality(B(u)) <= Cardinality(C(u))
  BY <1>2, <1>4, FS_Subset
<1>8. users' \subseteq users => \A u : Cardinality(C(u)) <= Cardinality(B(u))
  BY <1>2, <1>4, FS_Subset
<1> QED
  BY <1>3, <1>5, <1>6, <1>7, <1>8

\* The pages cover the ranks one after the other.
LEMMA WalkStep ==
    QueryTypeOK /\ HistoryInv /\ HistoryInv' /\ QueryTypeOK' /\ WalkInv
    /\ [QueryNext]_queryVars => WalkInv'
<1> SUFFICES ASSUME QueryTypeOK, QueryTypeOK', HistoryInv, HistoryInv', WalkInv,
                    [QueryNext]_queryVars
             PROVE  WalkInv'
  OBVIOUS
<1>1. /\ users \subseteq UserIDs /\ users' \subseteq UserIDs
      /\ seen \in [UserIDs -> Nat] /\ offset \in Nat
      /\ Limit \in Nat \ {0}
      /\ \A u : <<"user", u>> \in always => u \in users
  BY FactsAreRows, PagesAssumption DEF QueryTypeOK, HistoryInv
<1>2. CASE FindPage /\ query.op = "getUsers"
  <2>1. /\ at = "first" /\ at' = "count" /\ offset' = offset /\ query' = query
        /\ users' = users /\ always' = always /\ came' = came /\ went' = went
        /\ \A u \in UserIDs :
              seen'[u] = IF u \in users /\ OnPage(Rank(u)) THEN seen[u] + 1 ELSE seen[u]
    BY <1>2 DEF FindPage, rowVars, histVars
  <2>2. \A u : Rank(u)' = Rank(u)
    BY <2>1 DEF Rank
  <2>3. Passed = offset /\ Passed' = offset + Limit
    BY <2>1 DEF Passed
  <2>4. /\ ~went => \A u \in users :
              <<"user", u>> \in always /\ Rank(u) < offset => seen[u] > 0
        /\ ~came => \A u \in users : seen[u] > 0 => Rank(u) < offset
        /\ ~came => \A u \in UserIDs : seen[u] <= 1
    BY <1>2, <2>1, <2>3 DEF WalkInv, WalkRepeatsNothing, Running
  <2>5. ASSUME ~went, NEW u \in users, <<"user", u>> \in always,
               Rank(u) < offset + Limit
        PROVE  seen'[u] > 0
    <3>1. CASE Rank(u) < offset
      BY <1>1, <2>1, <2>4, <2>5, <3>1
    <3>2. CASE offset <= Rank(u)
      BY <1>1, <2>1, <2>5, <3>2 DEF OnPage
    <3> QED
      BY <1>1, <3>1, <3>2, Ranks
  <2>6. ASSUME ~came, NEW u \in users, seen'[u] > 0
        PROVE  Rank(u) < offset + Limit
    BY <1>1, <2>1, <2>4, <2>6, Ranks DEF OnPage
  <2>7. ASSUME ~came, NEW u \in UserIDs
        PROVE  seen'[u] <= 1
    <3>1. CASE u \in users /\ OnPage(Rank(u))
      <4>1. seen[u] = 0
        BY <1>1, <2>4, <2>7, <3>1, Ranks DEF OnPage
      <4> QED
        BY <2>1, <3>1, <4>1
    <3>2. CASE ~(u \in users /\ OnPage(Rank(u)))
      BY <2>1, <2>4, <2>7, <3>2
    <3> QED
      BY <3>1, <3>2
  <2> QED
    BY <1>2, <2>1, <2>2, <2>3, <2>5, <2>6, <2>7 DEF WalkInv, WalkMissesNothing,
          WalkRepeatsNothing
<1>3. CASE Count /\ query.op = "getUsers"
  <2>1. /\ at = "count" /\ offset' = offset + Limit /\ query' = query
        /\ at' = IF offset + Limit < Cardinality(users) THEN "first" ELSE "done"
        /\ users' = users /\ always' = always /\ came' = came /\ went' = went
        /\ seen' = seen
    BY <1>3 DEF Count, rowVars, histVars
  <2>2. \A u : Rank(u)' = Rank(u)
    BY <2>1 DEF Rank
  <2>3. Passed = offset + Limit /\ Passed' = offset + Limit
    BY <2>1 DEF Passed
  <2>4. /\ ~went => \A u \in users :
              <<"user", u>> \in always /\ Rank(u) < offset + Limit => seen[u] > 0
        /\ ~came => \A u \in users : seen[u] > 0 => Rank(u) < offset + Limit
        /\ ~came => \A u \in UserIDs : seen[u] <= 1
    BY <1>3, <2>1, <2>3 DEF WalkInv, WalkRepeatsNothing, Running
  <2>5. ASSUME ~went, at' = "done", NEW u \in UserIDs, <<"user", u>> \in always
        PROVE  seen[u] > 0
    <3>1. u \in users /\ Rank(u) < offset + Limit
      BY <1>1, <2>1, <2>5, Ranks
    <3> QED
      BY <2>4, <2>5, <3>1
  <2> QED
    BY <1>3, <2>1, <2>2, <2>3, <2>4, <2>5 DEF WalkInv, WalkMissesNothing,
          WalkRepeatsNothing
<1>4. CASE Meanwhile
  <2>1. /\ query' = query /\ at' = at /\ offset' = offset /\ seen' = seen
        /\ at # "done" /\ always' \subseteq always
        /\ ~went' => ~went /\ users \subseteq users'
        /\ ~came' => ~came /\ users' \subseteq users
    BY <1>4 DEF Meanwhile, walkVars, Running
  <2>2. Passed' = Passed /\ Passed \in Nat
    BY <1>1, <2>1 DEF Passed
  <2>3. Running /\ Running'
    BY <1>4, <2>1 DEF Meanwhile, Running
  <2>4. ASSUME ~went', query.op = "getUsers", NEW u \in users',
               <<"user", u>> \in always', Rank(u)' < Passed'
        PROVE  seen'[u] > 0
    <3>1. u \in users /\ <<"user", u>> \in always
      BY <1>1, <2>1, <2>4
    <3>2. Rank(u) < Passed
      BY <2>1, <2>2, <2>4, Ranks
    <3> QED
      BY <2>1, <2>3, <2>4, <3>1, <3>2 DEF WalkInv
  <2>5. ASSUME ~came', query.op = "getUsers", NEW u \in users', seen'[u] > 0
        PROVE  Rank(u)' < Passed'
    <3>1. u \in users /\ Rank(u) < Passed
      BY <2>1, <2>3, <2>5 DEF WalkInv
    <3> QED
      BY <2>1, <2>2, <2>5, <3>1, Ranks
  <2> QED
    BY <2>1, <2>3, <2>4, <2>5 DEF WalkInv, WalkMissesNothing, WalkRepeatsNothing
<1>5. CASE \/ ProfileQuery \/ MyRooms \/ MyRoomInfo \/ GetByID \/ QueryFails
           \/ UNCHANGED queryVars
  <2>1. /\ query' = query /\ offset' = offset /\ seen' = seen
        /\ users' = users /\ always' = always /\ came' = came /\ went' = went
    BY <1>5 DEF ProfileQuery, MyProfile, GetUser, GetUserAccessToken, MyRooms,
          MyRoomInfo, GetByID, QueryFails, ReadUser, ReadRooms, CountRooms, CountFails,
          ReadAgain, ReadRoom, ReadMembers, Reads, queryVars, rowVars, walkVars, histVars
  <2>2. query.op = "getUsers" => at' = at \/ at' = "failed"
    BY <1>5 DEF ProfileQuery, MyProfile, GetUser, GetUserAccessToken, MyRooms,
          MyRoomInfo, GetByID, QueryFails, Reads, queryVars
  <2>3. \A u : Rank(u)' = Rank(u)
    BY <2>1 DEF Rank
  <2> QED
    BY <2>1, <2>2, <2>3 DEF WalkInv, WalkMissesNothing, WalkRepeatsNothing, Running,
          Passed
<1> QED
  BY <1>2, <1>3, <1>4, <1>5 DEF QueryNext, ProfileQuery, GetUsers

-----------------------------------------------------------------------------
(* The theorems.                                                           *)

\* The invariant holds of any query, whatever others write between its
\* statements.
THEOREM QueryInvariant == QuerySpec => []QueryInv
<1>1. QueryInv /\ [QueryNext]_queryVars => QueryInv'
  BY QueryTypeStep, HistoryStep, AnswerStep, ThereStep, WalkStep DEF QueryInv
<1> QED
  BY <1>1, InitQuery, PTL DEF QuerySpec

\* An answer is put together from what was so at some moment of the query, and
\* has everything that was so all the time.
THEOREM AnswerHolds == QuerySpec => []AnswersHold
<1>1. QueryInv => AnswersHold
  BY DEF QueryInv, AnswerInv
<1> QED
  BY <1>1, QueryInvariant, PTL

\* A query is refused, or answered, only if what it is about was missing, or
\* there, at some moment.
THEOREM AnsweredForAReason == QuerySpec => []AnsweredIfThere
<1>1. QueryInv => AnsweredIfThere
  BY DEF QueryInv, ThereInv
<1> QED
  BY <1>1, QueryInvariant, PTL

\* A walk through the pages shows every user who was there all the time,
\* unless a row went meanwhile.
THEOREM WalkIsComplete == QuerySpec => []WalkMissesNothing
<1>1. QueryInv => WalkMissesNothing
  BY DEF QueryInv, WalkInv
<1> QED
  BY <1>1, QueryInvariant, PTL

\* It shows no user twice, unless a row came meanwhile.
THEOREM WalkIsFresh == QuerySpec => []WalkRepeatsNothing
<1>1. QueryInv => WalkRepeatsNothing
  BY DEF QueryInv, WalkInv
<1> QED
  BY <1>1, QueryInvariant, PTL
=============================================================================
