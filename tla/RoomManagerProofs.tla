------------------------- MODULE RoomManagerProofs -------------------------
(***************************************************************************)
(* Proofs about RoomManager, for any users, rooms and calls, and any       *)
(* number of calls in flight.                                              *)
(***************************************************************************)
EXTENDS RoomManager, FiniteSetTheorems, TLAPS

\* The steps of a call, in the groups the proofs take them.
LookUp(c) == Find(c) \/ FindUsers(c) \/ FindUser(c)
Announcing(c) == Prepare(c) \/ Publish(c)

\* Every variable keeps its type.
LEMMA TypeStep == TypeOK /\ [Next]_vars => TypeOK'
<1> SUFFICES ASSUME TypeOK, [Next]_vars
             PROVE  TypeOK'
  OBVIOUS
<1> USE DEF TypeOK, Stage, dbVars, callVars, Goto
<1>1. ASSUME NEW c \in Calls, LookUp(c)
      PROVE  TypeOK'
  <2>1. /\ c.room \in RoomIDs /\ c.user \in UserIDs
        /\ c.users \subseteq UserIDs
        /\ AfterFind(c) \in Stage
    BY CallsAssumption DEF AfterFind
  <2>2. CASE Find(c)
    BY <2>1, <2>2 DEF Find, histVars, dbVars
  <2>3. CASE FindUsers(c)
    BY <2>1, <2>3 DEF FindUsers, Registered, histVars, dbVars
  <2>4. CASE FindUser(c)
    BY <2>1, <2>4 DEF FindUser, OnlyGoto, Goto, histVars, dbVars
  <2> QED
    BY <1>1, <2>2, <2>3, <2>4 DEF LookUp
<1>2. ASSUME NEW c \in Calls, Write(c)
      PROVE  TypeOK'
  <2>1. c.room \in RoomIDs /\ c.user \in UserIDs
    BY CallsAssumption
  <2>2. CASE InsertUser(c) \/ SaveUser(c)
    BY <2>1, <2>2 DEF InsertUser, SaveUser, Writes, Wrote, Refused, ProfileOps,
          OnlyGoto, Goto, histVars, dbVars
  <2>3. CASE InsertRoom(c) \/ SaveRoom(c)
    BY <2>1, <2>3 DEF InsertRoom, SaveRoom, Writes, Wrote, Refused, KeyIsFree,
          OnlyGoto, Goto, histVars, dbVars
  <2>4. CASE DeleteUser(c)
    BY <2>1, <2>4 DEF DeleteUser, Writes, Wrote
  <2>5. CASE DeleteRoom(c)
    BY <2>1, <2>5 DEF DeleteRoom, Writes, Wrote, MembersOf, MembersWithout
  <2>6. CASE DeleteMember(c)
    BY <2>1, <2>6 DEF DeleteMember, Writes, Wrote
  <2>7. ASSUME NEW u \in UserIDs, AppendMember(c, u)
        PROVE  TypeOK'
    BY <2>1, <2>7 DEF AppendMember, Wrote, MemberRow
  <2>8. CASE AppendDone(c)
    BY <2>8 DEF AppendDone, OnlyGoto, Goto, histVars, dbVars
  <2> QED
    BY <1>2, <2>2, <2>3, <2>4, <2>5, <2>6, <2>7, <2>8 DEF Write
<1>3. ASSUME NEW c \in Calls, Announcing(c)
      PROVE  TypeOK'
  <2>1. c.room \in RoomIDs /\ c.user \in UserIDs
    BY CallsAssumption
  <2>2. RoomsOf(c.user) \subseteq RoomIDs /\ MembersOf(c.room) \subseteq UserIDs
    BY DEF RoomsOf, MembersOf
  <2>3. CASE LoadUser(c) \/ LoadRoom(c)
    <3>1. CASE LoadUser(c)
      BY <2>2, <3>1 DEF LoadUser, Loads, RoomsListed, Goto, histVars, dbVars
    <3>2. CASE LoadRoom(c)
      <4>1. ids' = [ids EXCEPT ![c] = MembersOf(c.room)]
        BY <3>2 DEF LoadRoom, Loads, MembersListed, Goto, histVars, dbVars
      <4>2. /\ ids' \in [Calls -> SUBSET (RoomIDs \cup UserIDs)]
            /\ \A k \in Calls :
                  ids'[k] \subseteq IF k.op \in UserOps THEN RoomIDs ELSE UserIDs
        BY <2>2, <3>2, <4>1 DEF LoadRoom, UserOps, Loads, MembersListed, Goto,
              dbVars
      <4> QED
        BY <3>2, <4>2 DEF LoadRoom, Loads, MembersListed, Goto, histVars,
              dbVars
    <3> QED
      BY <2>3, <3>1, <3>2
  <2>4. CASE Reload(c)
    <3>1. CASE c.room \in rooms
      <4> DEFINE S == MembersOf(c.room) \cup
                        (IF c.op = "kickUser" THEN {c.user} ELSE {})
      <4>1. /\ S \subseteq UserIDs
            /\ c.op \notin UserOps
        BY <2>1, <2>2, <2>4 DEF Reload, UserOps, OnlyGoto, Loads, Goto,
              dbVars
      <4>2. ids' = [ids EXCEPT ![c] = S]
        BY <2>4, <3>1 DEF Reload, OnlyGoto, Loads, Goto, dbVars
      <4>3. /\ ids' \in [Calls -> SUBSET (RoomIDs \cup UserIDs)]
            /\ \A k \in Calls :
                  ids'[k] \subseteq IF k.op \in UserOps THEN RoomIDs ELSE UserIDs
        BY <4>1, <4>2
      <4> QED
        BY <2>4, <3>1, <4>3 DEF Reload, OnlyGoto, Loads, Goto, histVars,
              dbVars
    <3>2. CASE c.room \notin rooms
      BY <2>4, <3>2 DEF Reload, OnlyGoto, Loads, Goto, histVars, dbVars
    <3> QED
      BY <3>1, <3>2
  <2>5. CASE Send(c) \/ Publish(c)
    BY <2>5 DEF Send, Publish, histVars, dbVars, callVars
  <2> QED
    BY <1>3, <2>3, <2>4, <2>5 DEF Announcing, Prepare
<1>4. ASSUME NEW c \in Calls, StatementFails(c)
      PROVE  TypeOK'
  BY <1>4 DEF StatementFails, OnlyGoto, Goto, histVars, dbVars
<1>5. CASE Crash
  BY <1>5 DEF Crash, InFlight, histVars, dbVars
<1>6. CASE UNCHANGED vars
  BY <1>6 DEF vars, histVars
<1> QED
  BY <1>1, <1>2, <1>3, <1>4, <1>5, <1>6 DEF Next, Proceed, LookUp, Announcing,
        Prepare

\* A call is at statements of its own kind.
LEMMA StageStep == TypeOK /\ StageInv /\ [Next]_vars => StageInv'
<1> SUFFICES ASSUME TypeOK, StageInv, [Next]_vars, NEW k \in Calls
             PROVE  /\ pc'[k] = "users" => k.op = "createRoom"
                    /\ pc'[k] = "user" => k.op = "addUser"
                    /\ pc'[k] = "append" => k.op \in {"createRoom", "addUser"}
                    /\ pc'[k] = "write" => k.op # "addUser"
  BY DEF StageInv
<1> DEFINE P(st) == /\ st = "users" => k.op = "createRoom"
                    /\ st = "user" => k.op = "addUser"
                    /\ st = "append" => k.op \in {"createRoom", "addUser"}
                    /\ st = "write" => k.op # "addUser"
<1>0. P(pc[k]) /\ pc \in [Calls -> Stage]
  BY DEF StageInv, TypeOK
<1>1. ASSUME NEW c \in Calls, LookUp(c)
      PROVE  P(pc'[k])
  <2>1. CASE k = c
    <3>1. P("failed") /\ P(AfterFind(c))
      BY <2>1 DEF AfterFind
    <3>2. CASE Find(c)
      <4>1. pc'[k] \in {"failed", AfterFind(c)}
        BY <1>0, <2>1, <3>2 DEF Find, Goto, dbVars
      <4> QED
        BY <3>1, <4>1
    <3>3. CASE FindUsers(c) \/ FindUser(c)
      BY <1>0, <2>1, <3>3 DEF FindUsers, FindUser, Goto, Registered, dbVars,
            OnlyGoto
    <3> QED
      BY <1>1, <3>2, <3>3 DEF LookUp
  <2>2. CASE k # c
    BY <1>0, <1>1, <2>2 DEF LookUp, Find, FindUsers, FindUser, Goto, dbVars,
          Registered, OnlyGoto
  <2> QED
    BY <2>1, <2>2
<1>2. ASSUME NEW c \in Calls, Write(c)
      PROVE  P(pc'[k])
  <2>1. CASE pc'[k] = pc[k]
    BY <1>0, <2>1
  <2>2. CASE pc'[k] # pc[k]
    <3>1. \/ pc'[k] \in {"load", "failed"}
          \/ pc'[k] = "append" /\ k.op = "createRoom"
      BY <1>0, <1>2, <2>2 DEF Write, InsertUser, SaveUser, DeleteUser,
            InsertRoom, SaveRoom, DeleteRoom, DeleteMember, AppendMember,
            AppendDone, Writes, Refused, Goto, ProfileOps, KeyIsFree,
            MembersWithout, MemberRow, OnlyGoto, dbVars
    <3> QED
      BY <3>1
  <2> QED
    BY <2>1, <2>2
<1>3. ASSUME NEW c \in Calls, Announcing(c) \/ StatementFails(c)
      PROVE  P(pc'[k])
  <2>1. pc'[k] \in {pc[k], "send", "done", "failed"}
    BY <1>0, <1>3 DEF Announcing, LoadUser, LoadRoom, Reload, Send, Publish,
          StatementFails, Goto, callVars, Prepare, Loads, RoomsListed,
          MembersListed, OnlyGoto, dbVars
  <2> QED
    BY <1>0, <2>1
<1>4. CASE Crash
  BY <1>0, <1>4 DEF Crash, dbVars
<1>5. CASE UNCHANGED vars
  BY <1>0, <1>5 DEF vars, callVars
<1> QED
  BY <1>1, <1>2, <1>3, <1>4, <1>5 DEF Next, Proceed, LookUp, Announcing,
        Prepare

\* A step in which call k does not move, and the room of k loses nobody of
\* its audience, is harmless to k.
LEMMA Bystander ==
    ASSUME NEW k \in Calls, AudienceOK(k),
           pc'[k] = pc[k], ids'[k] = ids[k], audience'[k] \subseteq audience[k],
           \A u \in audience'[k] :
              u \in MembersOf(k.room) => u \in MembersOf(k.room)'
    PROVE  AudienceOK(k)'
BY DEF AudienceOK

\* No step makes an announcement miss somebody it concerns.
LEMMA AudienceStep ==
    TypeOK /\ StageInv /\ AudienceInv /\ [Next]_vars => AudienceInv'
<1> SUFFICES ASSUME TypeOK, StageInv, AudienceInv, [Next]_vars, NEW k \in Calls
             PROVE  AudienceOK(k)'
  BY DEF AudienceInv
<1>0. AudienceOK(k)
  BY DEF AudienceInv
<1>t. /\ pc \in [Calls -> Stage]
      /\ audience \in [Calls -> SUBSET UserIDs]
      /\ ids \in [Calls -> SUBSET (RoomIDs \cup UserIDs)]
  BY DEF TypeOK
<1>1. ASSUME NEW c \in Calls, LookUp(c)
      PROVE  AudienceOK(k)'
  <2>1. /\ audience' = audience /\ ids' = ids
        /\ users' = users /\ members' = members
    BY <1>1 DEF LookUp, Find, FindUsers, FindUser, dbVars, histVars,
          Registered, OnlyGoto, Goto
  <2>2. MembersOf(k.room)' = MembersOf(k.room)
    BY <2>1 DEF MembersOf
  <2>3. CASE k # c
    <3>1. pc'[k] = pc[k]
      BY <1>1, <1>t, <2>3 DEF LookUp, Find, FindUsers, FindUser, Goto, dbVars,
            Registered, OnlyGoto
    <3> QED
      BY <1>0, <2>1, <2>2, <3>1, Bystander
  <2>4. CASE k = c
    <3>1. /\ pc[k] \in {"idle", "users", "user"}
          /\ pc'[k] \in {"users", "user", "write", "append", "failed"}
      BY <1>1, <1>t, <2>4 DEF LookUp, Find, FindUsers, FindUser, Goto,
            AfterFind, dbVars, Registered, OnlyGoto
    <3>2. audience[k] = {}
      BY <1>0, <3>1 DEF AudienceOK
    <3> QED
      BY <2>1, <3>1, <3>2 DEF AudienceOK
  <2> QED
    BY <2>3, <2>4
<1>2. ASSUME NEW c \in Calls, Write(c)
      PROVE  AudienceOK(k)'
  <2>1. CASE \/ InsertUser(c) \/ SaveUser(c) \/ InsertRoom(c) \/ SaveRoom(c)
             \/ AppendDone(c)
    <3>1. /\ audience' = audience /\ ids' = ids
          /\ users \subseteq users' /\ members' = members
      BY <2>1 DEF InsertUser, SaveUser, InsertRoom, SaveRoom, AppendDone,
            Writes, Refused, dbVars, ProfileOps, KeyIsFree, OnlyGoto, Goto,
            histVars
    <3>2. MembersOf(k.room) \subseteq MembersOf(k.room)'
      BY <3>1 DEF MembersOf
    <3>3. CASE k # c
      <4>1. pc'[k] = pc[k]
        BY <1>t, <2>1, <3>3 DEF InsertUser, SaveUser, InsertRoom, SaveRoom,
              AppendDone, Writes, Refused, Goto, ProfileOps, KeyIsFree,
              OnlyGoto, dbVars
      <4> QED
        BY <1>0, <3>1, <3>2, <4>1, Bystander
    <3>4. CASE k = c
      <4>1. /\ pc[k] \in {"write", "append"}
            /\ pc'[k] \in {"append", "load", "failed"}
        BY <1>t, <2>1, <3>4 DEF InsertUser, SaveUser, InsertRoom, SaveRoom,
              AppendDone, Writes, Refused, Goto, ProfileOps, KeyIsFree,
              OnlyGoto, dbVars
      <4> QED
        BY <1>0, <3>1, <3>2, <4>1 DEF AudienceOK
    <3> QED
      BY <3>3, <3>4
  <2>2. CASE DeleteUser(c)
    <3>1. /\ ids' = ids /\ members' = members /\ users' = users \ {c.user}
          /\ audience'[k] = IF k.op = "kickUser" THEN audience[k]
                            ELSE audience[k] \ {c.user}
          /\ c.op = "removeUser" /\ pc[c] = "write"
          /\ pc' = [pc EXCEPT ![c] = "load"]
      BY <2>2 DEF DeleteUser, Writes, Goto
    <3>2. \A u \in UserIDs \ {c.user} :
             u \in MembersOf(k.room) => u \in MembersOf(k.room)'
      BY <3>1 DEF MembersOf
    <3>3. CASE k # c
      <4>1. pc'[k] = pc[k]
        BY <1>t, <3>1, <3>3
      <4>2. CASE k.op = "kickUser"
        BY <1>0, <3>1, <4>1, <4>2 DEF AudienceOK
      <4>3. CASE k.op # "kickUser"
        <5>1. audience'[k] \subseteq audience[k]
          BY <3>1, <4>3
        <5>2. \A u \in audience'[k] :
                 u \in MembersOf(k.room) => u \in MembersOf(k.room)'
          BY <1>t, <3>1, <3>2, <4>3
        <5> QED
          BY <1>0, <3>1, <4>1, <5>1, <5>2, Bystander
      <4> QED
        BY <4>2, <4>3
    <3>4. CASE k = c
      <4>1. audience[k] = {} /\ pc'[k] = "load" /\ k.op = "removeUser"
        BY <1>0, <1>t, <3>1, <3>4 DEF AudienceOK
      <4>2. audience'[k] = {}
        BY <3>1, <4>1
      <4> QED
        BY <4>1, <4>2 DEF AudienceOK
    <3> QED
      BY <3>3, <3>4
  <2>3. CASE DeleteRoom(c)
    <3>1. /\ ids' = ids /\ members' = members /\ users' = users
          /\ audience' = [audience EXCEPT ![c] = MembersOf(c.room)]
          /\ c.op = "destroyRoom"
          /\ pc' = [pc EXCEPT ![c] = "load"]
      BY <2>3 DEF DeleteRoom, Writes, Goto, MembersWithout
    <3>2. MembersOf(k.room)' = MembersOf(k.room)
      BY <3>1 DEF MembersOf
    <3>3. CASE k # c
      <4>1. pc'[k] = pc[k] /\ audience'[k] = audience[k]
        BY <1>t, <3>1, <3>3
      <4> QED
        BY <1>0, <3>1, <3>2, <4>1, Bystander
    <3>4. CASE k = c
      <4>1. pc'[k] = "load" /\ audience'[k] = MembersOf(k.room)
        BY <1>t, <3>1, <3>4
      <4> QED
        BY <3>1, <3>2, <3>4, <4>1 DEF AudienceOK
    <3> QED
      BY <3>3, <3>4
  <2>4. CASE DeleteMember(c)
    <3>1. /\ ids' = ids /\ users' = users
          /\ members' = members \ {<<c.room, c.user>>}
          /\ audience'[k] = IF k = c THEN {c.user}
                            ELSE IF k.op # "kickUser" /\ k.room = c.room
                                 THEN audience[k] \ {c.user}
                                 ELSE audience[k]
          /\ c.op = "kickUser"
          /\ pc' = [pc EXCEPT ![c] = "load"]
      BY <2>4 DEF DeleteMember, Writes, Goto
    <3>2. CASE k = c
      <4>1. pc'[k] = "load" /\ audience'[k] = {k.user} /\ k.op = "kickUser"
        BY <1>t, <3>1, <3>2
      <4> QED
        BY <4>1 DEF AudienceOK
    <3>3. CASE k # c /\ k.op = "kickUser"
      <4>1. pc'[k] = pc[k] /\ audience'[k] = audience[k]
        BY <1>t, <3>1, <3>3
      <4> QED
        BY <1>0, <3>1, <3>3, <4>1 DEF AudienceOK
    <3>4. CASE k # c /\ k.op # "kickUser"
      <4>1. pc'[k] = pc[k] /\ audience'[k] \subseteq audience[k]
        BY <1>t, <3>1, <3>4
      <4>2. \A u \in audience'[k] :
               u \in MembersOf(k.room) => u \in MembersOf(k.room)'
        BY <3>1, <3>4 DEF MembersOf
      <4> QED
        BY <1>0, <3>1, <4>1, <4>2, Bystander
    <3> QED
      BY <3>2, <3>3, <3>4
  <2>5. ASSUME NEW u \in UserIDs, AppendMember(c, u)
        PROVE  AudienceOK(k)'
    <3>1. /\ ids' = ids /\ users' = users /\ pc' = pc
          /\ members' = members \cup {<<c.room, u>>}
          /\ audience' = [audience EXCEPT ![c] = @ \cup ({u} \cap users)]
          /\ pc[c] = "append"
      BY <2>5 DEF AppendMember, MemberRow
    <3>2. /\ MembersOf(k.room) \subseteq MembersOf(k.room)'
          /\ {u} \cap users \subseteq MembersOf(c.room)'
      BY <3>1 DEF MembersOf
    <3>3. CASE k # c
      <4>1. audience'[k] = audience[k]
        BY <1>t, <3>1, <3>3
      <4> QED
        BY <1>0, <3>1, <3>2, <4>1, Bystander
    <3>4. CASE k = c
      <4>1. /\ pc'[k] = "append" /\ k.op \in {"createRoom", "addUser"}
            /\ audience'[k] = audience[k] \cup ({u} \cap users)
        BY <1>t, <3>1, <3>4 DEF StageInv
      <4>2. audience[k] \subseteq MembersOf(k.room)
        BY <1>0, <3>1, <3>4, <4>1 DEF AudienceOK
      <4> QED
        BY <3>2, <3>4, <4>1, <4>2 DEF AudienceOK
    <3> QED
      BY <3>3, <3>4
  <2> QED
    BY <1>2, <2>1, <2>2, <2>3, <2>4, <2>5 DEF Write
<1>3. ASSUME NEW c \in Calls, Announcing(c)
      PROVE  AudienceOK(k)'
  <2>1. /\ audience' = audience /\ users' = users /\ members' = members
    BY <1>3 DEF Announcing, LoadUser, LoadRoom, Reload, Send, Publish, dbVars,
          Prepare, Loads, RoomsListed, MembersListed, OnlyGoto, histVars,
          callVars, Goto
  <2>2. MembersOf(k.room)' = MembersOf(k.room)
    BY <2>1 DEF MembersOf
  <2>3. CASE pc'[k] = pc[k] /\ ids'[k] = ids[k]
    BY <1>0, <2>1, <2>2, <2>3, Bystander
  <2>4. CASE k = c /\ LoadUser(c)
    <3>1. pc'[k] = "send" /\ k.op \notin RoomOps /\ k.op # "kickUser"
      BY <1>t, <2>4 DEF LoadUser, Goto, UserOps, RoomOps, Loads, RoomsListed,
            dbVars
    <3> QED
      BY <3>1 DEF AudienceOK
  <2>5. CASE k = c /\ LoadRoom(c)
    <3>1. /\ pc[k] = "load" /\ pc'[k] = "send" /\ k.op # "kickUser"
          /\ ids'[k] = MembersOf(k.room)
      BY <1>t, <2>5 DEF LoadRoom, Goto, Loads, MembersListed, dbVars
    <3> QED
      BY <1>0, <2>1, <3>1 DEF AudienceOK
  <2>6. CASE k = c /\ Reload(c)
    <3>1. CASE c.room \in rooms
      <4>1. /\ pc[k] = "load" /\ pc'[k] = "send"
            /\ ids'[k] = MembersOf(k.room) \cup
                            (IF k.op = "kickUser" THEN {k.user} ELSE {})
        BY <1>t, <2>6, <3>1 DEF Reload, Goto, OnlyGoto, Loads, dbVars
      <4> QED
        BY <1>0, <2>1, <4>1 DEF AudienceOK
    <3>2. CASE c.room \notin rooms
      <4>1. pc'[k] = "failed"
        BY <1>t, <2>6, <3>2 DEF Reload, Goto, OnlyGoto, Loads, dbVars
      <4> QED
        BY <1>0, <2>1, <4>1 DEF AudienceOK
    <3> QED
      BY <3>1, <3>2
  <2>7. CASE k = c /\ Send(c)
    <3>1. pc[k] = "send" /\ pc'[k] = "done" /\ ids' = ids
      BY <1>t, <2>7 DEF Send, Goto, dbVars
    <3> QED
      BY <1>0, <2>1, <3>1 DEF AudienceOK
  <2>8. CASE k # c \/ Publish(c)
    BY <1>3, <1>t, <2>3, <2>8 DEF Announcing, LoadUser, LoadRoom, Reload, Send,
          Publish, Goto, callVars, Prepare, Loads, RoomsListed, MembersListed,
          OnlyGoto, dbVars
  <2> QED
    BY <1>3, <2>4, <2>5, <2>6, <2>7, <2>8 DEF Announcing, Prepare
<1>4. ASSUME \/ Crash
             \/ \E c \in Calls : StatementFails(c)
             \/ UNCHANGED vars
      PROVE  AudienceOK(k)'
  <2>1. /\ audience' = audience /\ ids' = ids /\ users' = users
        /\ members' = members
        /\ pc'[k] \in {pc[k], "failed"}
    BY <1>4, <1>t DEF Crash, StatementFails, Goto, vars, dbVars, callVars,
          histVars, OnlyGoto
  <2>2. MembersOf(k.room)' = MembersOf(k.room)
    BY <2>1 DEF MembersOf
  <2> QED
    BY <1>0, <2>1, <2>2 DEF AudienceOK
<1> QED
  BY <1>1, <1>2, <1>3, <1>4 DEF Next, Proceed, LookUp, Announcing, Prepare

\* What is known stays known.
LEMMA KnownStays ==
    ASSUME written \subseteq written'
    PROVE  /\ \A u : UserKnown(u) => UserKnown(u)'
           /\ \A r : RoomKnown(r) => RoomKnown(r)'
BY DEF UserKnown, RoomKnown

\* No step forgets what it wrote.
LEMMA WrittenGrows == [Next]_vars => written \subseteq written'
<1> SUFFICES ASSUME [Next]_vars
             PROVE  written \subseteq written'
  OBVIOUS
<1>1. ASSUME NEW c \in Calls, LookUp(c) \/ Announcing(c) \/ StatementFails(c)
      PROVE  written' = written
  BY <1>1 DEF LookUp, Find, FindUsers, FindUser, Announcing, LoadUser, LoadRoom,
        Reload, Send, Publish, StatementFails, histVars, dbVars, Registered,
        OnlyGoto, Prepare, Loads, RoomsListed, MembersListed, callVars, Goto
<1>2. ASSUME NEW c \in Calls, Write(c)
      PROVE  written \subseteq written'
  BY <1>2 DEF Write, InsertUser, SaveUser, DeleteUser, InsertRoom, SaveRoom,
        DeleteRoom, DeleteMember, AppendMember, AppendDone, Writes, Wrote, Refused,
        ProfileOps, KeyIsFree, MembersWithout, MemberRow, OnlyGoto, Goto,
        histVars, dbVars
<1>3. CASE Crash \/ UNCHANGED vars
  BY <1>3 DEF Crash, vars, histVars, dbVars
<1> QED
  BY <1>1, <1>2, <1>3 DEF Next, Proceed, LookUp, Announcing, Prepare

\* No step makes a member of somebody, or of a room, that never was.
LEMMA GroundStep ==
    TypeOK /\ StageInv /\ GroundInv /\ [Next]_vars => GroundInv'
<1> SUFFICES ASSUME TypeOK, StageInv, GroundInv, [Next]_vars
             PROVE  GroundInv'
  OBVIOUS
<1>w. /\ \A u : UserKnown(u) => UserKnown(u)'
      /\ \A r : RoomKnown(r) => RoomKnown(r)'
  BY WrittenGrows, KnownStays
<1>t. /\ pc \in [Calls -> Stage]
      /\ todo \in [Calls -> SUBSET UserIDs]
  BY DEF TypeOK
<1>0. /\ \A u \in users : UserKnown(u)'
      /\ \A r \in rooms : RoomKnown(r)'
      /\ \A p \in members : RoomKnown(p[1])' /\ UserKnown(p[2])'
  BY <1>w DEF GroundInv, MembersGrounded
<1>k. ASSUME NEW k \in Calls, pc'[k] = pc[k], todo'[k] = todo[k]
      PROVE  ReadKnown(k)'
  BY <1>k, <1>w DEF GroundInv, ReadKnown
<1>f. ASSUME NEW k \in Calls, pc'[k] \in {"load", "send", "done", "failed"}
      PROVE  ReadKnown(k)'
  BY <1>f DEF ReadKnown
<1>1. ASSUME NEW c \in Calls, LookUp(c)
      PROVE  GroundInv'
  <2>1. users' = users /\ rooms' = rooms /\ members' = members
    BY <1>1 DEF LookUp, Find, FindUsers, FindUser, dbVars, Registered,
          OnlyGoto, Goto
  <2>2. ASSUME NEW k \in Calls, k # c
        PROVE  ReadKnown(k)'
    <3>1. pc'[k] = pc[k] /\ todo'[k] = todo[k]
      BY <1>1, <1>t, <2>2 DEF LookUp, Find, FindUsers, FindUser, Goto, dbVars,
            Registered, OnlyGoto
    <3> QED
      BY <1>k, <3>1
  <2>3. ReadKnown(c)'
    <3>1. CASE Find(c)
      <4>1. CASE pc'[c] = "failed"
        BY <1>f, <4>1
      <4>2. CASE pc'[c] # "failed"
        <5>1. /\ pc'[c] = AfterFind(c)
              /\ todo'[c] = IF c.op = "addUser"
                            THEN {c.user} \ MembersOf(c.room) ELSE {}
              /\ SubjectExists(c) = (c.op \notin {"registerUser", "createRoom"})
          BY <1>t, <3>1, <4>2 DEF Find, Goto, dbVars
        <5>2. CASE c.op = "addUser"
          <6>1. c.room \in rooms /\ pc'[c] = "user"
            BY <5>1, <5>2 DEF AfterFind, SubjectExists, UserOps
          <6> QED
            BY <1>0, <5>1, <5>2, <6>1 DEF ReadKnown
        <5>3. CASE c.op # "addUser"
          <6>1. pc'[c] \in {"users", "write"} /\ todo'[c] = {}
            BY <5>1, <5>3 DEF AfterFind
          <6>2. c.op \in ProfileOps => c.user \in users
            BY <5>1 DEF SubjectExists, UserOps, ProfileOps
          <6>3. c.op = "updateRoom" => c.room \in rooms
            BY <5>1 DEF SubjectExists, UserOps
          <6> QED
            BY <1>0, <6>1, <6>2, <6>3 DEF ReadKnown
        <5> QED
          BY <5>2, <5>3
      <4> QED
        BY <4>1, <4>2
    <3>2. CASE FindUsers(c)
      <4>1. /\ c.op = "createRoom"
            /\ todo'[c] \subseteq users /\ pc'[c] = "write"
        BY <1>t, <3>2 DEF FindUsers, Goto, StageInv, Registered, dbVars
      <4> QED
        BY <1>0, <4>1 DEF ReadKnown, ProfileOps
    <3>3. CASE FindUser(c)
      <4>1. /\ pc[c] = "user" /\ c.op = "addUser" /\ todo' = todo
            /\ \/ pc'[c] = "failed"
               \/ pc'[c] = "append" /\ c.user \in users
        BY <1>t, <3>3 DEF FindUser, Goto, StageInv, OnlyGoto, dbVars
      <4>2. todo[c] \subseteq {c.user} /\ RoomKnown(c.room)
        BY <4>1 DEF GroundInv, ReadKnown
      <4> QED
        BY <1>0, <1>w, <4>1, <4>2 DEF ReadKnown
    <3> QED
      BY <1>1, <3>1, <3>2, <3>3 DEF LookUp
  <2> QED
    BY <1>0, <2>1, <2>2, <2>3 DEF GroundInv, MembersGrounded
<1>2. ASSUME NEW c \in Calls, Write(c)
      PROVE  GroundInv'
  <2>1. ASSUME NEW k \in Calls, k # c
        PROVE  ReadKnown(k)'
    <3>1. pc'[k] = pc[k] /\ todo'[k] = todo[k]
      BY <1>2, <1>t, <2>1 DEF Write, InsertUser, SaveUser, DeleteUser,
            InsertRoom, SaveRoom, DeleteRoom, DeleteMember, AppendMember,
            AppendDone, Writes, Refused, Goto, ProfileOps, KeyIsFree,
            MembersWithout, MemberRow, OnlyGoto, dbVars
    <3> QED
      BY <1>k, <3>1
  <2>2. CASE \/ InsertUser(c) \/ SaveUser(c) \/ SaveRoom(c) \/ DeleteUser(c)
             \/ DeleteRoom(c) \/ DeleteMember(c) \/ AppendDone(c)
    <3>1. /\ pc'[c] \in {"load", "failed"}
          /\ members' \subseteq members
      BY <1>t, <2>2 DEF InsertUser, SaveUser, SaveRoom, DeleteUser,
            DeleteRoom, DeleteMember, AppendDone, Writes, Refused, Goto,
            dbVars, ProfileOps, MembersWithout, OnlyGoto
    <3>2. \A u \in users' : UserKnown(u)'
      <4>1. CASE InsertUser(c)
        <5>1. users' = users \/ (users' = users \cup {c.user} /\ c \in written'
                                 /\ c.op = "registerUser")
          BY <4>1 DEF InsertUser, Writes, Wrote, Refused, dbVars, OnlyGoto, Goto
        <5> QED
          BY <1>0, <5>1 DEF UserKnown
      <4>2. CASE SaveUser(c)
        <5>1. /\ users' \subseteq users \cup {c.user}
              /\ c.op \in ProfileOps /\ pc[c] = "write"
          BY <4>2 DEF SaveUser, Writes, Refused, dbVars, ProfileOps, OnlyGoto,
                Goto
        <5>2. UserKnown(c.user)'
          BY <1>w, <5>1 DEF GroundInv, ReadKnown
        <5> QED
          BY <1>0, <5>1, <5>2
      <4>3. CASE ~(InsertUser(c) \/ SaveUser(c))
        <5>1. users' \subseteq users
          BY <2>2, <4>3 DEF SaveRoom, DeleteUser, DeleteRoom, DeleteMember,
                AppendDone, Refused, dbVars, MembersWithout, OnlyGoto, Goto
        <5> QED
          BY <1>0, <5>1
      <4> QED
        BY <4>1, <4>2, <4>3
    <3>3. \A r \in rooms' : RoomKnown(r)'
      <4>1. CASE SaveRoom(c)
        <5>1. /\ rooms' \subseteq rooms \cup {c.room}
              /\ c.op = "updateRoom" /\ pc[c] = "write"
          BY <4>1 DEF SaveRoom, Writes, Refused, dbVars, OnlyGoto, Goto
        <5>2. RoomKnown(c.room)'
          BY <1>w, <5>1 DEF GroundInv, ReadKnown
        <5> QED
          BY <1>0, <5>1, <5>2
      <4>2. CASE ~SaveRoom(c)
        <5>1. rooms' \subseteq rooms
          BY <2>2, <4>2 DEF InsertUser, SaveUser, DeleteUser, DeleteRoom,
                DeleteMember, AppendDone, Refused, dbVars, ProfileOps,
                MembersWithout, OnlyGoto, Goto
        <5> QED
          BY <1>0, <5>1
      <4> QED
        BY <4>1, <4>2
    <3> QED
      BY <1>0, <1>f, <2>1, <3>1, <3>2, <3>3 DEF GroundInv, MembersGrounded
  <2>3. CASE InsertRoom(c)
    <3>1. CASE pc'[c] = "failed"
      <4>1. users' = users /\ rooms' = rooms /\ members' = members
        BY <1>t, <2>3, <3>1 DEF InsertRoom, Writes, Refused, Goto, dbVars,
              KeyIsFree, OnlyGoto
      <4> QED
        BY <1>0, <1>f, <2>1, <3>1, <4>1 DEF GroundInv, MembersGrounded
    <3>2. CASE pc'[c] # "failed"
      <4>1. /\ users' = users /\ members' = members /\ todo' = todo
            /\ rooms' = rooms \cup {c.room}
            /\ c \in written' /\ c.op = "createRoom"
            /\ pc[c] = "write" /\ pc'[c] = "append"
        BY <1>t, <2>3, <3>2 DEF InsertRoom, Writes, Wrote, Refused, Goto, KeyIsFree,
              OnlyGoto, dbVars
      <4>2. RoomKnown(c.room)'
        BY <4>1 DEF RoomKnown
      <4>3. ReadKnown(c)'
        BY <1>w, <4>1, <4>2 DEF GroundInv, ReadKnown
      <4> QED
        BY <1>0, <2>1, <4>1, <4>2, <4>3 DEF GroundInv, MembersGrounded
    <3> QED
      BY <3>1, <3>2
  <2>4. ASSUME NEW u \in UserIDs, AppendMember(c, u)
        PROVE  GroundInv'
    <3>1. /\ users' = users /\ rooms' = rooms /\ pc' = pc
          /\ members' = members \cup {<<c.room, u>>}
          /\ todo' = [todo EXCEPT ![c] = @ \ {u}]
          /\ pc[c] = "append" /\ u \in todo[c]
      BY <2>4 DEF AppendMember, MemberRow
    <3>2. RoomKnown(c.room)' /\ UserKnown(u)'
      BY <1>w, <3>1 DEF GroundInv, ReadKnown
    <3>3. todo'[c] \subseteq todo[c]
      BY <1>t, <3>1
    <3>4. ReadKnown(c)'
      BY <1>w, <3>1, <3>3 DEF GroundInv, ReadKnown
    <3>5. MembersGrounded'
      BY <1>0, <3>1, <3>2 DEF MembersGrounded
    <3> QED
      BY <1>0, <2>1, <3>1, <3>4, <3>5 DEF GroundInv
  <2> QED
    BY <1>2, <2>2, <2>3, <2>4 DEF Write
<1>3. ASSUME \/ Crash \/ UNCHANGED vars
             \/ \E c \in Calls : Announcing(c) \/ StatementFails(c)
      PROVE  GroundInv'
  <2>1. /\ users' = users /\ rooms' = rooms /\ members' = members
        /\ todo' = todo
    BY <1>3 DEF Crash, StatementFails, Announcing, LoadUser, LoadRoom, Reload,
          Send, Publish, vars, dbVars, callVars, OnlyGoto, Prepare, Loads,
          RoomsListed, MembersListed, Goto
  <2>2. \A k \in Calls : pc'[k] \in {pc[k], "send", "done", "failed"}
    BY <1>3, <1>t DEF Crash, StatementFails, Announcing, LoadUser, LoadRoom,
          Reload, Send, Publish, Goto, vars, callVars, dbVars, OnlyGoto,
          Prepare, Loads, RoomsListed, MembersListed
  <2>3. \A k \in Calls : ReadKnown(k)'
    BY <1>k, <1>f, <2>1, <2>2
  <2> QED
    BY <1>0, <2>1, <2>3 DEF GroundInv, MembersGrounded
<1> QED
  BY <1>1, <1>2, <1>3 DEF Next, Proceed, LookUp, Announcing, Prepare

\* The initial database has the initial users and nothing else.
LEMMA InitManagerInv == Init => ManagerInv
<1> SUFFICES ASSUME Init
             PROVE  ManagerInv
  OBVIOUS
<1>1. TypeOK
  BY InitialUsersAssumption DEF Init, TypeOK, Stage
<1>2. StageInv /\ AudienceInv
  BY DEF Init, StageInv, AudienceInv, AudienceOK
<1>3. GroundInv
  BY DEF Init, GroundInv, MembersGrounded, UserKnown, ReadKnown
<1> QED
  BY <1>1, <1>2, <1>3 DEF ManagerInv

\* ManagerInv is an invariant, whatever calls run side by side, whichever
\* statements fail and whenever the process dies.
THEOREM ManagerInvariant == Spec => []ManagerInv
<1>1. ManagerInv /\ [Next]_vars => ManagerInv'
  BY TypeStep, StageStep, AudienceStep, GroundStep DEF ManagerInv
<1> QED
  BY <1>1, InitManagerInv, PTL DEF Spec

\* Every variable keeps its type.
THEOREM TypeCorrect == Spec => []TypeOK
<1>1. ManagerInv => TypeOK
  BY DEF ManagerInv
<1> QED
  BY <1>1, ManagerInvariant, PTL

\* Whoever a change of a room concerns is named in its announcement.
THEOREM AudienceTold == Spec => []AudienceIsTold
<1>1. ManagerInv => AudienceIsTold
  BY DEF ManagerInv, AudienceInv, AudienceOK, AudienceIsTold
<1> QED
  BY <1>1, ManagerInvariant, PTL

\* The join table never names a user or a room that never was.
THEOREM Grounded == Spec => []MembersGrounded
<1>1. ManagerInv => MembersGrounded
  BY DEF ManagerInv, GroundInv
<1> QED
  BY <1>1, ManagerInvariant, PTL

-----------------------------------------------------------------------------
(* Rows are created once.                                                  *)

\* The calls that have written are counted by whole numbers, and one more of
\* them is one more in its own count and in no other.
LEMMA CountStep ==
    ASSUME IsFiniteSet(written), NEW op, NEW x
    PROVE  /\ RoomCount(op, x) \in Nat /\ UserCount(op, x) \in Nat
           /\ \A c \in Calls \ written :
                 written' = written \cup {c} =>
                 /\ RoomCount(op, x)' = RoomCount(op, x)
                       + (IF c.op = op /\ c.room = x THEN 1 ELSE 0)
                 /\ UserCount(op, x)' = UserCount(op, x)
                       + (IF c.op = op /\ c.user = x THEN 1 ELSE 0)
<1> DEFINE R == {c \in written : c.op = op /\ c.room = x}
           U == {c \in written : c.op = op /\ c.user = x}
<1>1. IsFiniteSet(R) /\ IsFiniteSet(U)
  <2>1. R \in SUBSET written /\ U \in SUBSET written
    OBVIOUS
  <2> HIDE DEF R, U
  <2> QED
    BY <2>1, FS_Subset
<1>2. Cardinality(R) \in Nat /\ Cardinality(U) \in Nat
  <2> HIDE DEF R, U
  <2> QED
    BY <1>1, FS_CardinalityType
<1>3. ASSUME NEW c \in Calls, c \notin written, written' = written \cup {c}
      PROVE  /\ RoomCount(op, x)' = Cardinality(R)
                   + (IF c.op = op /\ c.room = x THEN 1 ELSE 0)
             /\ UserCount(op, x)' = Cardinality(U)
                   + (IF c.op = op /\ c.user = x THEN 1 ELSE 0)
  <2>1. RoomCount(op, x)' =
           Cardinality(IF c.op = op /\ c.room = x THEN R \cup {c} ELSE R)
    <3>1. {k \in written' : k.op = op /\ k.room = x} =
              IF c.op = op /\ c.room = x THEN R \cup {c} ELSE R
      BY <1>3
    <3> QED
      BY <3>1 DEF RoomCount
  <2>2. UserCount(op, x)' =
           Cardinality(IF c.op = op /\ c.user = x THEN U \cup {c} ELSE U)
    <3>1. {k \in written' : k.op = op /\ k.user = x} =
              IF c.op = op /\ c.user = x THEN U \cup {c} ELSE U
      BY <1>3
    <3> QED
      BY <3>1 DEF UserCount
  <2>3. c \notin R /\ c \notin U
    BY <1>3
  <2> HIDE DEF R, U
  <2>4. /\ Cardinality(R \cup {c}) = Cardinality(R) + 1
        /\ Cardinality(U \cup {c}) = Cardinality(U) + 1
    BY <1>1, <2>3, FS_AddElement
  <2> QED
    BY <1>2, <2>1, <2>2, <2>4
<1> QED
  BY <1>2, <1>3 DEF RoomCount, UserCount

\* A call is past its statement when it has written, and has written when it
\* appends to a room it has created.
LEMMA WriteOnce ==
    ASSUME TypeOK, StageInv, OnceInv, [Next]_vars
    PROVE  /\ IsFiniteSet(written')
           /\ \A c \in written' :
                 pc'[c] \notin {"idle", "users", "user", "write"}
           /\ \A c \in Calls :
                 pc'[c] = "append" => c.op = "addUser" \/ c \in written'
<1> DEFINE Past == {"append", "load", "send", "done", "failed"}
<1>1. /\ pc \in [Calls -> Stage] /\ written \subseteq Calls
      /\ \A k \in written : pc[k] \in Past
      /\ \A k \in Calls : pc[k] = "append" => k.op = "addUser" \/ k \in written
      /\ \A k \in Calls : pc[k] = "user" => k.op = "addUser"
      /\ IsFiniteSet(written)
  BY DEF TypeOK, OnceInv, StageInv, Stage
<1> DEFINE Step ==
             /\ \/ written' = written
                \/ \E c \in Calls : written' = written \cup {c}
             /\ \A k \in Calls :
                   /\ k \in written' => pc'[k] \in Past
                   /\ pc'[k] = "append" => k.op = "addUser" \/ k \in written'
<1>2. SUFFICES Step
  <2>1. IsFiniteSet(written')
    BY <1>1, <1>2, FS_AddElement
  <2> QED
    BY <1>1, <1>2, <2>1
<1>3. ASSUME NEW c \in Calls, LookUp(c)
      PROVE  Step
  <2>1. AfterFind(c) # "append"
    BY DEF AfterFind
  <2>2. CASE Find(c)
    BY <1>1, <2>1, <2>2 DEF Find, Goto, histVars
  <2>3. CASE FindUsers(c) \/ FindUser(c)
    BY <1>1, <2>3 DEF FindUsers, FindUser, OnlyGoto, Goto, histVars
  <2> QED
    BY <1>3, <2>2, <2>3 DEF LookUp
<1>4. ASSUME NEW c \in Calls, Write(c)
      PROVE  Step
  <2>1. CASE AppendDone(c)
    BY <1>1, <2>1 DEF AppendDone, OnlyGoto, Goto, histVars
  <2>2. ASSUME NEW u \in UserIDs, AppendMember(c, u)
        PROVE  Step
    <3>1. written' = written \cup {c} /\ pc' = pc /\ pc[c] = "append"
      BY <2>2 DEF AppendMember, Wrote, MemberRow
    <3> QED
      BY <1>1, <3>1
  <2>3. ASSUME NEW op, NEW next \in {"load", "append"}, Writes(c, op, next)
        PROVE  Step
    <3>1. written' = written \cup {c} /\ pc' = [pc EXCEPT ![c] = next]
      BY <2>3 DEF Writes, Wrote, Goto
    <3> QED
      BY <1>1, <3>1
  <2>4. ASSUME NEW op, Refused(c, op)
        PROVE  Step
    <3>1. written' = written /\ pc' = [pc EXCEPT ![c] = "failed"]
      BY <2>4 DEF Refused, OnlyGoto, Goto, histVars
    <3> QED
      BY <1>1, <3>1
  <2>5. \/ AppendDone(c) \/ \E u \in UserIDs : AppendMember(c, u)
        \/ \E op : Refused(c, op)
        \/ \E op : \E next \in {"load", "append"} : Writes(c, op, next)
    BY <1>4 DEF Write, InsertUser, SaveUser, DeleteUser, InsertRoom, SaveRoom,
          DeleteRoom, DeleteMember
  <2> QED
    BY <2>1, <2>2, <2>3, <2>4, <2>5
<1>5. ASSUME NEW c \in Calls, Announcing(c) \/ StatementFails(c)
      PROVE  Step
  BY <1>1, <1>5 DEF Announcing, Prepare, LoadUser, LoadRoom, Reload, Loads,
        Send, Publish, StatementFails, OnlyGoto, Goto, histVars, callVars,
        RoomsListed, MembersListed
<1>6. CASE Crash \/ UNCHANGED vars
  BY <1>1, <1>6 DEF Crash, vars, histVars, callVars
<1> QED
  BY <1>3, <1>4, <1>5, <1>6 DEF Next, Proceed, LookUp, Announcing

\* Insertions of a row never exceed its deletions by more than one.
LEMMA OnceStep == TypeOK /\ StageInv /\ OnceInv /\ [Next]_vars => OnceInv'
<1> SUFFICES ASSUME TypeOK, StageInv, OnceInv, [Next]_vars
             PROVE  OnceInv'
  OBVIOUS
<1> DEFINE RoomOnce(r) == RoomCount("createRoom", r)
                            <= RoomCount("destroyRoom", r) + Present(r, rooms)
           UserOnce(u) == UserCount("registerUser", u)
                            <= UserCount("removeUser", u) + Present(u, users)
<1>1. SUFFICES /\ \A r \in RoomIDs : RoomOnce(r)'
               /\ \A u \in UserIDs : UserOnce(u)'
  BY <1>1, WriteOnce DEF OnceInv, Present
<1>2. /\ \A r \in RoomIDs : RoomOnce(r)
      /\ \A u \in UserIDs : UserOnce(u)
      /\ IsFiniteSet(written)
  BY DEF OnceInv, Present
<1>n. \A op, x : RoomCount(op, x) \in Nat /\ UserCount(op, x) \in Nat
  BY <1>2, CountStep
<1>3. ASSUME written' = written, rooms \subseteq rooms', users \subseteq users'
      PROVE  \A x : /\ x \in RoomIDs => RoomOnce(x)'
                    /\ x \in UserIDs => UserOnce(x)'
  <2>1. \A op, x : /\ RoomCount(op, x)' = RoomCount(op, x)
                   /\ UserCount(op, x)' = UserCount(op, x)
    BY <1>3 DEF RoomCount, UserCount
  <2>2. \A x : /\ Present(x, rooms) <= Present(x, rooms)'
               /\ Present(x, users) <= Present(x, users)'
               /\ {Present(x, rooms), Present(x, rooms)', Present(x, users),
                   Present(x, users)'} \subseteq Nat
    BY <1>3 DEF Present
  <2> QED
    BY <1>2, <1>n, <2>1, <2>2
<1>4. ASSUME NEW c \in Calls, Write(c)
      PROVE  /\ \A r \in RoomIDs : RoomOnce(r)'
             /\ \A u \in UserIDs : UserOnce(u)'
  <2>1. CASE written' = written
    <3>1. rooms \subseteq rooms' /\ users \subseteq users'
      BY <1>4, <2>1 DEF Write, InsertUser, SaveUser, DeleteUser, InsertRoom,
            SaveRoom, DeleteRoom, DeleteMember, AppendMember, AppendDone,
            Writes, Wrote, Refused, OnlyGoto, dbVars, OnceInv
    <3> QED
      BY <1>3, <2>1, <3>1
  <2>2. CASE written' # written
    <3>1. c \notin written /\ written' = written \cup {c}
      BY <1>4, <2>2 DEF Write, InsertUser, SaveUser, DeleteUser, InsertRoom,
            SaveRoom, DeleteRoom, DeleteMember, AppendMember, AppendDone,
            Writes, Wrote, Refused, OnlyGoto, histVars
    <3>2. \A op, x :
             /\ RoomCount(op, x)' = RoomCount(op, x)
                   + (IF c.op = op /\ c.room = x THEN 1 ELSE 0)
             /\ UserCount(op, x)' = UserCount(op, x)
                   + (IF c.op = op /\ c.user = x THEN 1 ELSE 0)
      BY <1>2, <3>1, CountStep
    <3>3. /\ c.op = "createRoom" => c.room \notin rooms /\ c.room \in rooms'
          /\ c.op # "destroyRoom" => rooms \subseteq rooms'
          /\ rooms \ {c.room} \subseteq rooms'
          /\ c.op = "registerUser" => c.user \notin users /\ c.user \in users'
          /\ c.op # "removeUser" => users \subseteq users'
          /\ users \ {c.user} \subseteq users'
      <4>1. \A op : ~Refused(c, op)
        BY <2>2 DEF Refused, OnlyGoto, histVars
      <4>2. CASE InsertUser(c) \/ SaveUser(c) \/ DeleteUser(c)
        BY <4>1, <4>2 DEF InsertUser, SaveUser, DeleteUser, Writes, ProfileOps
      <4>3. CASE InsertRoom(c) \/ SaveRoom(c) \/ DeleteRoom(c)
        BY <4>1, <4>3 DEF InsertRoom, SaveRoom, DeleteRoom, Writes, KeyIsFree
      <4>4. CASE DeleteMember(c)
        BY <4>4 DEF DeleteMember, Writes
      <4>5. ASSUME NEW u \in UserIDs, AppendMember(c, u)
            PROVE  c.op = "addUser" /\ rooms' = rooms /\ users' = users
        BY <3>1, <4>5 DEF AppendMember, OnceInv
      <4> QED
        BY <1>4, <2>2, <4>2, <4>3, <4>4, <4>5 DEF Write, AppendDone, OnlyGoto,
              histVars
    <3> QED
      BY <1>2, <1>n, <3>2, <3>3 DEF Present
  <2> QED
    BY <2>1, <2>2
<1>5. ASSUME NEW c \in Calls, LookUp(c) \/ Announcing(c) \/ StatementFails(c)
      PROVE  UNCHANGED <<written, users, rooms>>
  BY <1>5 DEF LookUp, Find, FindUsers, FindUser, Announcing, Prepare, LoadUser,
        LoadRoom, Reload, Loads, Send, Publish, StatementFails, OnlyGoto,
        histVars, dbVars
<1>6. CASE Crash \/ UNCHANGED vars
  BY <1>3, <1>6 DEF Crash, vars, dbVars, histVars
<1> QED
  BY <1>3, <1>4, <1>5, <1>6 DEF Next, Proceed, LookUp, Announcing

\* Nothing is written at first.
LEMMA InitOnceInv == Init => OnceInv
<1> SUFFICES ASSUME Init
             PROVE  OnceInv
  OBVIOUS
<1>1. written = {}
  BY DEF Init
<1>2. \A op, x : RoomCount(op, x) = 0 /\ UserCount(op, x) = 0
  <2> SUFFICES ASSUME NEW op, NEW x
               PROVE  RoomCount(op, x) = 0 /\ UserCount(op, x) = 0
    OBVIOUS
  <2>1. /\ {c \in written : c.op = op /\ c.room = x} = {}
        /\ {c \in written : c.op = op /\ c.user = x} = {}
    BY <1>1
  <2> QED
    BY <2>1, FS_EmptySet DEF RoomCount, UserCount
<1>3. \A c \in Calls : pc[c] = "idle"
  BY DEF Init
<1>4. \A x, S : Present(x, S) \in {0, 1}
  BY DEF Present
<1>5. IsFiniteSet(written)
  BY <1>1, FS_EmptySet
<1> QED
  BY <1>1, <1>2, <1>3, <1>4, <1>5 DEF OnceInv

\* Calls that found no row, side by side, do not both create it: each creation
\* of a room and each registration of a user but the first needs a deletion.
THEOREM OnceCreated == Spec => []CreatedOnce
<1>1. OnceInv => CreatedOnce
  <2> SUFFICES ASSUME OnceInv
               PROVE  CreatedOnce
    OBVIOUS
  <2>1. \A op, x : RoomCount(op, x) \in Nat /\ UserCount(op, x) \in Nat
    BY CountStep DEF OnceInv
  <2> QED
    BY <2>1 DEF OnceInv, CreatedOnce, Present
<1>2. ManagerInv /\ OnceInv /\ [Next]_vars => OnceInv'
  BY OnceStep DEF ManagerInv
<1> QED
  BY <1>1, <1>2, InitOnceInv, ManagerInvariant, PTL DEF Spec

-----------------------------------------------------------------------------
(* What a call that succeeded has done stands.                             *)

\* Every step that is not a write leaves the database alone.
LEMMA ReadsOnly ==
    ASSUME [Next]_vars, \A c \in Calls : ~Write(c)
    PROVE  UNCHANGED <<dbVars, histVars>>
<1>1. ASSUME NEW c \in Calls, LookUp(c) \/ Announcing(c) \/ StatementFails(c)
      PROVE  UNCHANGED <<dbVars, histVars>>
  BY <1>1 DEF LookUp, Find, FindUsers, FindUser, Announcing, LoadUser, LoadRoom,
        Reload, Send, Publish, StatementFails, OnlyGoto, Prepare, Loads
<1>2. CASE Crash \/ UNCHANGED vars
  BY <1>2 DEF Crash, vars
<1> QED
  BY <1>1, <1>2 DEF Next, Proceed, LookUp, Announcing

\* What is done stays done, unless the step is noted as one that undoes it.
LEMMA EffectLasts ==
    ASSUME TypeOK, StageInv, EffectInv, [Next]_vars,
           NEW k \in Calls, HasActed(k), Effective(k) \/ k \in undone
    PROVE  Effective(k)' \/ k \in undone'
<1> USE DEF Effective, Stands
<1>1. CASE \A c \in Calls : ~Write(c)
  <2>1. UNCHANGED <<users, rooms, members, undone>>
    BY <1>1, ReadsOnly DEF dbVars, histVars
  <2> QED
    BY <2>1
<1>2. ASSUME NEW c \in Calls, Write(c)
      PROVE  Effective(k)' \/ k \in undone'
  <2>1. CASE UNCHANGED <<dbVars, histVars>>
    BY <2>1 DEF dbVars, histVars
  <2>2. CASE Wrote(c)
    <3>1. /\ undone \subseteq undone'
          /\ Opposes(c, k) => k \in undone'
      BY <2>2 DEF Wrote
    <3>2. CASE InsertUser(c) \/ SaveUser(c)
      <4>1. CASE UNCHANGED dbVars
        BY <3>1, <4>1 DEF dbVars
      <4>2. CASE /\ users' = users \cup {c.user} /\ c.op \in Inserts
                 /\ UNCHANGED <<rooms, members>>
        BY <3>1, <4>2 DEF Opposes
      <4> QED
        BY <3>2, <4>1, <4>2 DEF InsertUser, SaveUser, Writes, Refused, OnlyGoto,
              Inserts
    <3>3. CASE DeleteUser(c)
      <4>1. /\ users' = users \ {c.user} /\ c.op = "removeUser"
            /\ UNCHANGED <<rooms, members>>
        BY <3>3 DEF DeleteUser, Writes
      <4> QED
        BY <3>1, <4>1 DEF Opposes, Inserts
    <3>4. CASE InsertRoom(c) \/ SaveRoom(c)
      <4>1. CASE UNCHANGED dbVars
        BY <3>1, <4>1 DEF dbVars
      <4>2. CASE /\ rooms' = rooms \cup {c.room}
                 /\ c.op \in {"createRoom", "updateRoom"}
                 /\ UNCHANGED <<users, members>>
        BY <3>1, <4>2 DEF Opposes
      <4> QED
        BY <3>4, <4>1, <4>2 DEF InsertRoom, SaveRoom, Writes, Refused, OnlyGoto
    <3>5. CASE DeleteRoom(c)
      <4>1. /\ rooms' = rooms \ {c.room} /\ c.op = "destroyRoom"
            /\ UNCHANGED <<users, members>>
        BY <3>5 DEF DeleteRoom, Writes, MembersWithout
      <4> QED
        BY <3>1, <4>1 DEF Opposes
    <3>6. CASE DeleteMember(c)
      <4>1. /\ members' = members \ {<<c.room, c.user>>} /\ c.op = "kickUser"
            /\ UNCHANGED <<users, rooms>>
        BY <3>6 DEF DeleteMember, Writes
      <4> QED
        BY <3>1, <4>1 DEF Opposes
    <3>7. ASSUME NEW u \in UserIDs, AppendMember(c, u)
          PROVE  Effective(k)' \/ k \in undone'
      <4>1. /\ members' = members \cup {<<c.room, u>>} /\ u \in todo[c]
            /\ UNCHANGED <<users, rooms>> /\ pc[c] = "append"
        BY <3>7 DEF AppendMember, MemberRow
      <4>2. \/ c.op = "addUser" /\ u = c.user
            \/ c.op = "createRoom" /\ u \in c.users
        BY <4>1 DEF StageInv, EffectInv, EffectOK
      <4> QED
        BY <3>1, <4>1, <4>2 DEF Opposes
    <3>8. CASE AppendDone(c)
      BY <3>1, <3>8 DEF AppendDone, OnlyGoto, dbVars
    <3> QED
      BY <1>2, <3>2, <3>3, <3>4, <3>5, <3>6, <3>7, <3>8 DEF Write
  <2> QED
    BY <1>2, <2>1, <2>2 DEF Write, InsertUser, SaveUser, DeleteUser, InsertRoom,
          SaveRoom, DeleteRoom, DeleteMember, AppendMember, AppendDone, Writes,
          Refused, OnlyGoto
<1> QED
  BY <1>1, <1>2

\* A call that has returned without an error has done its work, or has been
\* undone, after every step.
LEMMA EffectStep ==
    TypeOK /\ StageInv /\ EffectInv /\ [Next]_vars => EffectInv'
<1> SUFFICES ASSUME TypeOK, StageInv, EffectInv, [Next]_vars, NEW k \in Calls
             PROVE  EffectOK(k)'
  BY DEF EffectInv
<1> DEFINE Stood == Effective(k) \/ k \in undone
<1>0. EffectOK(k) /\ pc \in [Calls -> Stage] /\ todo \in [Calls -> SUBSET UserIDs]
  BY DEF EffectInv, TypeOK
<1>1. HasActed(k) /\ Stood => Stood'
  BY EffectLasts
<1> HIDE DEF Stood
\* Where the call stays, or goes on to the announcement, what stood stands.
<1>2. ASSUME \/ pc'[k] \in {pc[k], "failed"}
             \/ pc[k] \in {"load", "send"} /\ pc'[k] \in {"send", "done"}
             \/ pc[k] = "append" /\ todo[k] = {} /\ pc'[k] = "load"
             \/ pc[k] = "user" /\ pc'[k] = "append",
             todo'[k] = todo[k]
      PROVE  EffectOK(k)'
  BY <1>0, <1>1, <1>2 DEF EffectOK, HasActed, Stood, StageInv
<1>3. ASSUME NEW c \in Calls, LookUp(c)
      PROVE  EffectOK(k)'
  <2>1. CASE Find(c) /\ k = c
    <3>1. /\ pc'[k] \in {AfterFind(k), "failed"}
          /\ todo'[k] = IF k.op = "addUser" THEN {k.user} \ MembersOf(k.room)
                        ELSE {}
          /\ members' = members
      BY <1>0, <2>1 DEF Find, Goto, dbVars
    <3>2. k.op = "addUser" /\ todo'[k] = {} => Effective(k)'
      BY <3>1 DEF MembersOf, Effective, Stands, Inserts, ProfileOps
    <3> QED
      BY <3>1, <3>2 DEF AfterFind, EffectOK, HasActed
  <2>2. CASE FindUsers(c) /\ k = c
    <3>1. /\ pc[k] = "users" /\ pc'[k] = "write"
          /\ todo'[k] \subseteq k.users
      BY <1>0, <2>2 DEF FindUsers, Registered, Goto
    <3> QED
      BY <3>1 DEF StageInv, EffectOK, HasActed
  <2>3. CASE FindUser(c) /\ k = c
    BY <1>0, <1>2, <2>3 DEF FindUser, OnlyGoto, Goto
  <2>4. CASE k # c
    <3>1. pc'[k] = pc[k] /\ todo'[k] = todo[k]
      BY <1>0, <1>3, <2>4 DEF LookUp, Find, FindUsers, FindUser, OnlyGoto, Goto
    <3> QED
      BY <1>2, <3>1
  <2> QED
    BY <1>3, <2>1, <2>2, <2>3, <2>4 DEF LookUp
<1>4. ASSUME NEW c \in Calls, Write(c)
      PROVE  EffectOK(k)'
  <2>1. CASE k # c
    <3>1. pc'[k] = pc[k] /\ todo'[k] = todo[k]
      BY <1>0, <1>4, <2>1 DEF Write, InsertUser, SaveUser, DeleteUser,
            InsertRoom, SaveRoom, DeleteRoom, DeleteMember, AppendMember,
            AppendDone, Writes, Refused, OnlyGoto, Goto
    <3> QED
      BY <1>2, <3>1
  <2>2. ASSUME k = c,
               \/ InsertUser(k) \/ SaveUser(k) \/ DeleteUser(k) \/ InsertRoom(k)
               \/ SaveRoom(k) \/ DeleteRoom(k) \/ DeleteMember(k)
        PROVE  EffectOK(k)'
    <3>1. \/ pc'[k] = "failed"
          \/ pc'[k] = "load" /\ k.op # "createRoom"
          \/ pc'[k] = "append" /\ k.op = "createRoom"
      BY <1>0, <2>2 DEF InsertUser, SaveUser, DeleteUser, InsertRoom, SaveRoom,
            DeleteRoom, DeleteMember, Writes, Refused, OnlyGoto, Goto, ProfileOps
    <3>2. todo'[k] = todo[k]
      BY <2>2 DEF InsertUser, SaveUser, DeleteUser, InsertRoom, SaveRoom,
            DeleteRoom, DeleteMember, Writes, Refused, OnlyGoto
    <3>3. CASE pc'[k] = "failed"
      BY <1>2, <3>2, <3>3
    <3>4. CASE pc'[k] # "failed"
      <4>1. ASSUME InsertUser(k) \/ SaveUser(k) \/ DeleteUser(k)
            PROVE  Effective(k)'
        BY <1>0, <3>4, <4>1 DEF InsertUser, SaveUser, DeleteUser, Writes, Refused,
              OnlyGoto, Goto, Effective, Stands, ProfileOps
      <4>2. ASSUME InsertRoom(k) \/ SaveRoom(k) \/ DeleteRoom(k)
            PROVE  Effective(k)'
        BY <1>0, <3>4, <4>2 DEF InsertRoom, SaveRoom, DeleteRoom, Writes, Refused,
              OnlyGoto, Goto, Effective, Stands, ProfileOps
      <4>3. ASSUME DeleteMember(k)
            PROVE  Effective(k)'
        BY <4>3 DEF DeleteMember, Writes, Effective, Stands, ProfileOps
      <4>4. Effective(k)'
        BY <2>2, <4>1, <4>2, <4>3
      <4> QED
        BY <1>0, <3>2, <4>4 DEF EffectOK, HasActed
    <3> QED
      BY <3>3, <3>4
  <2>3. ASSUME k = c, NEW u \in UserIDs, AppendMember(k, u)
        PROVE  EffectOK(k)'
    <3>1. /\ pc[k] = "append" /\ pc'[k] = pc[k]
          /\ u \in todo[k] /\ todo'[k] = todo[k] \ {u}
          /\ members' = members \cup {<<k.room, u>>}
      BY <1>0, <2>3 DEF AppendMember, MemberRow
    <3>2. CASE k.op = "createRoom"
      BY <1>0, <1>1, <3>1, <3>2 DEF EffectOK, HasActed, Stood
    <3>3. CASE k.op = "addUser"
      <4>1. Effective(k)'
        BY <1>0, <3>1, <3>3 DEF EffectOK, HasActed, Effective, Stands, ProfileOps
      <4> QED
        BY <1>0, <3>1, <4>1 DEF EffectOK, HasActed
    <3> QED
      BY <3>1, <3>2, <3>3 DEF StageInv
  <2>4. CASE k = c /\ AppendDone(k)
    BY <1>0, <1>2, <2>4 DEF AppendDone, OnlyGoto, Goto
  <2> QED
    BY <1>4, <2>1, <2>2, <2>3, <2>4 DEF Write
<1>5. ASSUME NEW c \in Calls, Announcing(c) \/ StatementFails(c)
      PROVE  EffectOK(k)'
  <2>1. /\ \/ pc'[k] \in {pc[k], "failed"}
           \/ pc[k] \in {"load", "send"} /\ pc'[k] \in {"send", "done"}
        /\ todo'[k] = todo[k]
    BY <1>0, <1>5 DEF Announcing, Prepare, LoadUser, LoadRoom, Reload, Loads,
          Send, Publish, StatementFails, OnlyGoto, Goto, callVars
  <2> QED
    BY <1>2, <2>1
<1>6. CASE Crash \/ UNCHANGED vars
  <2>1. pc'[k] \in {pc[k], "failed"} /\ todo'[k] = todo[k]
    BY <1>0, <1>6 DEF Crash, vars, callVars
  <2> QED
    BY <1>2, <2>1
<1> QED
  BY <1>3, <1>4, <1>5, <1>6 DEF Next, Proceed, LookUp, Announcing

\* A call that returns without an error has had its effect, however it overlaps
\* with others and whatever it had read before, and the effect stands unless a
\* call that takes it back has written since it acted.
THEOREM SuccessfulStands == Spec => []SuccessStands
<1>1. Init => EffectInv
  BY DEF Init, EffectInv, EffectOK, HasActed
<1>2. ManagerInv /\ EffectInv /\ [Next]_vars => EffectInv'
  BY EffectStep DEF ManagerInv
<1>3. EffectInv => SuccessStands
  BY DEF EffectInv, EffectOK, HasActed, SuccessStands
<1> QED
  BY <1>1, <1>2, <1>3, ManagerInvariant, PTL DEF Spec

-----------------------------------------------------------------------------
(* What a step of a call does.                                             *)

\* A call that has begun goes on, fails with nothing done, or hands over its
\* announcement; what it changes in the database it has written; and what it
\* loads it announces.
LEMMA ProceedShape ==
    ASSUME TypeOK, NEW c \in Calls, Proceed(c)
    PROVE  /\ c \in InFlight
           /\ pc'[c] # "idle" /\ \A k \in Calls \ {c} : pc'[k] = pc[k]
           /\ written \subseteq written' /\ written' \subseteq written \cup {c}
           /\ c \in written' \/ UNCHANGED dbVars
           /\ \A k \in Calls \ {c} : ids'[k] = ids[k]
           /\ (pub' = pub /\ pc'[c] # "done") \/ Send(c)
           /\ pc'[c] = "failed" => pub' = pub /\ written' = written
           /\ pc'[c] = "send" => Prepare(c) /\ pc[c] = "load"
<1> DEFINE Shape ==
             /\ c \in InFlight
             /\ pc'[c] # "idle" /\ \A k \in Calls \ {c} : pc'[k] = pc[k]
             /\ written \subseteq written' /\ written' \subseteq written \cup {c}
             /\ c \in written' \/ UNCHANGED dbVars
             /\ \A k \in Calls \ {c} : ids'[k] = ids[k]
             /\ (pub' = pub /\ pc'[c] # "done") \/ Send(c)
             /\ pc'[c] = "failed" => pub' = pub /\ written' = written
             /\ pc'[c] = "send" => Prepare(c) /\ pc[c] = "load"
<1>1. pc \in [Calls -> Stage] /\ ids \in [Calls -> SUBSET (RoomIDs \cup UserIDs)]
  BY DEF TypeOK
<1>2. ASSUME NEW from \in Stage \ {"idle", "done", "failed"},
             NEW to \in Stage \ {"idle", "done", "send"},
             pc[c] = from, Goto(c, to), UNCHANGED <<ids, pub>>,
             \/ written' = written /\ UNCHANGED dbVars
             \/ written' = written \cup {c} /\ to # "failed"
      PROVE  Shape
  BY <1>1, <1>2 DEF InFlight, Goto
<1>3. CASE FindUsers(c) \/ FindUser(c) \/ StatementFails(c) \/ AppendDone(c)
  <2>1. pc[c] \in Stage \ {"idle", "done", "failed"}
    BY <1>3 DEF FindUsers, FindUser, StatementFails, AppendDone, Stage
  <2>2. /\ \E to \in {"write", "append", "load", "failed"} : Goto(c, to)
        /\ UNCHANGED <<ids, pub, written, dbVars>>
    BY <1>3 DEF FindUsers, FindUser, StatementFails, AppendDone, OnlyGoto, histVars
  <2> QED
    BY <1>2, <2>1, <2>2 DEF Stage
<1>4. ASSUME NEW op, Refused(c, op)
      PROVE  Shape
  <2>1. /\ pc[c] = "write" /\ Goto(c, "failed")
        /\ UNCHANGED <<ids, pub, written, dbVars>>
    BY <1>4 DEF Refused, OnlyGoto, histVars
  <2> QED
    BY <1>2, <2>1 DEF Stage
<1>5. ASSUME NEW op, NEW next \in {"load", "append"}, Writes(c, op, next)
      PROVE  Shape
  <2>1. /\ pc[c] = "write" /\ Goto(c, next)
        /\ UNCHANGED <<ids, pub>> /\ written' = written \cup {c}
    BY <1>5 DEF Writes, Wrote
  <2> QED
    BY <1>2, <2>1 DEF Stage
<1>6. ASSUME NEW u \in UserIDs, AppendMember(c, u)
      PROVE  Shape
  <2>1. /\ pc[c] = "append" /\ pc' = pc
        /\ UNCHANGED <<ids, pub>> /\ written' = written \cup {c}
    BY <1>6 DEF AppendMember, Wrote
  <2> QED
    BY <1>1, <2>1 DEF InFlight
<1>7. CASE Prepare(c)
  <2>1. CASE Send(c)
    <3>1. /\ pc[c] = "send" /\ Goto(c, "done")
          /\ UNCHANGED <<ids, written, dbVars>>
      BY <2>1 DEF Send, histVars
    <3> QED
      BY <1>1, <2>1, <3>1 DEF InFlight, Goto
  <2>2. CASE \E found : Loads(c, found)
    <3>1. /\ pc[c] = "load" /\ Goto(c, "send") /\ Prepare(c)
          /\ UNCHANGED <<pub, written, dbVars>>
          /\ \E found : ids' = [ids EXCEPT ![c] = found]
      BY <1>7, <2>2 DEF Loads, histVars
    <3> QED
      BY <1>1, <3>1 DEF InFlight, Goto
  <2>3. CASE pc[c] = "load" /\ OnlyGoto(c, "failed")
    <3>1. /\ pc[c] = "load" /\ Goto(c, "failed")
          /\ UNCHANGED <<ids, pub, written, dbVars>>
      BY <2>3 DEF OnlyGoto, histVars
    <3> QED
      BY <1>2, <3>1 DEF Stage
  <2> QED
    BY <1>7, <2>1, <2>2, <2>3 DEF Prepare, LoadUser, LoadRoom, Reload
<1>8. CASE Write(c)
  BY <1>3, <1>4, <1>5, <1>6, <1>8 DEF Write, InsertUser, SaveUser, DeleteUser,
        InsertRoom, SaveRoom, DeleteRoom, DeleteMember
<1> QED
  BY <1>3, <1>7, <1>8 DEF Proceed

\* A call changes nothing about the pairs it does not speak of.
LEMMA ProceedFar ==
    ASSUME TypeOK, StageInv, NEW c \in Calls, Proceed(c), NEW p \in Pairs \ Scope(c)
    PROVE  /\ p \in members' <=> p \in members
           /\ p[1] \in rooms' <=> p[1] \in rooms
           /\ p[2] \in users' <=> p[2] \in users
<1> DEFINE Same == /\ p \in members' <=> p \in members
                   /\ p[1] \in rooms' <=> p[1] \in rooms
                   /\ p[2] \in users' <=> p[2] \in users
<1>1. /\ p[1] \in RoomIDs /\ p[2] \in UserIDs /\ p = <<p[1], p[2]>>
      /\ c.op \in UserOps => p[2] # c.user
      /\ c.op \notin UserOps => p[1] # c.room
  BY DEF Pairs, Scope
<1>2. CASE UNCHANGED dbVars
  BY <1>2 DEF dbVars
<1>3. CASE Write(c)
  <2>1. CASE InsertUser(c) \/ SaveUser(c) \/ DeleteUser(c)
    <3>1. CASE UNCHANGED dbVars
      BY <3>1, <1>2
    <3>2. CASE c.op \in UserOps /\ UNCHANGED <<rooms, members>>
               /\ (users' = users \cup {c.user} \/ users' = users \ {c.user})
      BY <1>1, <3>2
    <3> QED
      BY <2>1, <3>1, <3>2 DEF InsertUser, SaveUser, DeleteUser, Writes, Refused,
            OnlyGoto, UserOps, ProfileOps
  <2>2. CASE InsertRoom(c) \/ SaveRoom(c) \/ DeleteRoom(c)
    <3>1. CASE UNCHANGED dbVars
      BY <3>1, <1>2
    <3>2. CASE c.op \notin UserOps /\ UNCHANGED <<users, members>>
               /\ (rooms' = rooms \cup {c.room} \/ rooms' = rooms \ {c.room})
      BY <1>1, <3>2
    <3> QED
      BY <2>2, <3>1, <3>2 DEF InsertRoom, SaveRoom, DeleteRoom, MembersWithout,
            Writes, Refused, OnlyGoto, UserOps
  <2>3. CASE DeleteMember(c)
    <3>1. c.op \notin UserOps /\ members' = members \ {<<c.room, c.user>>}
          /\ UNCHANGED <<users, rooms>>
      BY <2>3 DEF DeleteMember, Writes, UserOps
    <3> QED
      BY <1>1, <3>1
  <2>4. ASSUME NEW u \in UserIDs, AppendMember(c, u)
        PROVE  Same
    <3>1. c.op \notin UserOps /\ members' = members \cup {<<c.room, u>>}
          /\ UNCHANGED <<users, rooms>>
      BY <2>4 DEF AppendMember, MemberRow, StageInv, UserOps
    <3> QED
      BY <1>1, <3>1
  <2>5. CASE AppendDone(c)
    BY <1>2, <2>5 DEF AppendDone, OnlyGoto
  <2> QED
    BY <1>3, <2>1, <2>2, <2>3, <2>4, <2>5 DEF Write
<1>4. CASE FindUsers(c) \/ FindUser(c) \/ Prepare(c) \/ StatementFails(c)
  BY <1>2, <1>4 DEF FindUsers, FindUser, Prepare, LoadUser, LoadRoom, Reload,
        Loads, Send, StatementFails, OnlyGoto
<1> QED
  BY <1>3, <1>4 DEF Proceed

\* What a call has written stands after its statement, and while it appends.
LEMMA ProceedStands ==
    ASSUME TypeOK, StageInv, NEW c \in Calls, Proceed(c), NEW p \in Scope(c),
           pc'[c] \in {"append", "load"},
           pc[c] = "append" => Stands(c, p)
    PROVE  Stands(c, p)'
<1>1. /\ pc \in [Calls -> Stage]
      /\ c.op \in UserOps \cup RoomOps
      /\ c.op \in UserOps => p[2] = c.user
      /\ c.op \notin UserOps => p[1] = c.room
      /\ p = <<p[1], p[2]>>
      /\ pc[c] = "append" => c.op \in {"createRoom", "addUser"}
      /\ pc[c] = "user" => c.op = "addUser"
  BY CallsAssumption DEF TypeOK, Scope, StageInv
<1>2. CASE InsertUser(c) \/ SaveUser(c)
  <2>1. c.op \in ProfileOps \cup {"registerUser"} /\ users' = users \cup {c.user}
    BY <1>1, <1>2 DEF InsertUser, SaveUser, Refused, OnlyGoto, Goto, Writes
  <2> QED
    BY <1>1, <2>1 DEF Stands, ProfileOps, UserOps
<1>3. CASE DeleteUser(c)
  BY <1>1, <1>3 DEF DeleteUser, Writes, Stands, ProfileOps, UserOps
<1>4. CASE InsertRoom(c) \/ SaveRoom(c)
  <2>1. c.op \in {"createRoom", "updateRoom"} /\ rooms' = rooms \cup {c.room}
    BY <1>1, <1>4 DEF InsertRoom, SaveRoom, Refused, OnlyGoto, Goto, Writes
  <2> QED
    BY <1>1, <2>1 DEF Stands, ProfileOps, UserOps
<1>5. CASE DeleteRoom(c) \/ DeleteMember(c)
  BY <1>1, <1>5 DEF DeleteRoom, DeleteMember, Writes, Stands, ProfileOps, UserOps
<1>6. CASE AppendDone(c) \/ \E u \in UserIDs : AppendMember(c, u)
  <2>1. rooms' = rooms /\ c.op \in {"createRoom", "addUser"} /\ Stands(c, p)
    BY <1>1, <1>6 DEF AppendDone, AppendMember, OnlyGoto, dbVars
  <2> QED
    BY <2>1 DEF Stands, ProfileOps
<1>7. CASE FindUser(c)
  <2>1. c.op = "addUser"
    BY <1>1, <1>7 DEF FindUser
  <2> QED
    BY <2>1 DEF Stands, ProfileOps
<1>8. ~FindUsers(c) /\ ~Prepare(c) /\ ~StatementFails(c)
  BY <1>1 DEF FindUsers, Prepare, LoadUser, LoadRoom, Reload, Loads, Send,
        StatementFails, OnlyGoto, Goto
<1> QED
  BY <1>2, <1>3, <1>4, <1>5, <1>6, <1>7, <1>8 DEF Proceed, Write

\* A call that begins looks up its subject, and does nothing else.
LEMMA FindShape ==
    ASSUME TypeOK, OrderInv, NEW c \in Calls, Find(c)
    PROVE  /\ pc[c] = "idle" /\ c \notin pub /\ c \notin written
           /\ pc'[c] \in {"users", "user", "write", "failed"}
           /\ \A k \in Calls \ {c} : pc'[k] = pc[k]
           /\ InFlight' \subseteq InFlight \cup {c}
           /\ InFlight \subseteq InFlight' /\ UnderWay \subseteq UnderWay'
           /\ UNCHANGED <<dbVars, ids, pub, written, audience>>
<1>1. /\ pc \in [Calls -> Stage]
      /\ pc[c] = "idle" /\ c \notin pub /\ c \notin written
      /\ UNCHANGED <<dbVars, ids, pub, written, audience>>
  BY DEF TypeOK, OrderInv, Find, histVars
<1>2. /\ pc'[c] \in {"users", "user", "write", "failed"}
      /\ \A k \in Calls \ {c} : pc'[k] = pc[k]
  BY <1>1 DEF Find, Goto, AfterFind
<1> QED
  BY <1>1, <1>2 DEF InFlight, UnderWay

\* A step in which no call begins lets nothing get under way.
LEMMA OnwardShape ==
    ASSUME TypeOK, OrderInv,
           \/ \E c \in Calls : Proceed(c) \/ Publish(c)
           \/ Crash
           \/ UNCHANGED vars
    PROVE  /\ InFlight' \subseteq InFlight /\ UnderWay' \subseteq UnderWay
           /\ \A k \in Calls : k \in pub' => pc'[k] = "done"
           /\ \A k \in Calls : pc'[k] = "idle" => pc[k] = "idle" /\ k \notin written'
<1>1. /\ pc \in [Calls -> Stage] /\ pub \subseteq Calls
      /\ \A k \in Calls : pc[k] = "idle" => k \notin written
      /\ \A k \in pub : pc[k] = "done"
  BY DEF TypeOK, OrderInv
<1>2. ASSUME NEW c \in Calls, Proceed(c)
      PROVE  /\ InFlight' \subseteq InFlight /\ UnderWay' \subseteq UnderWay
             /\ \A k \in Calls : k \in pub' => pc'[k] = "done"
             /\ \A k \in Calls : pc'[k] = "idle" => pc[k] = "idle" /\ k \notin written'
  <2>1. /\ c \in InFlight
        /\ pc'[c] # "idle" /\ \A k \in Calls \ {c} : pc'[k] = pc[k]
        /\ written' \subseteq written \cup {c}
        /\ pub' = pub \/ Send(c)
    BY <1>2, ProceedShape
  <2>2. Send(c) => pub' = pub \cup {c} /\ pc'[c] = "done"
    BY <1>1 DEF Send, Goto
  <2>3. c \notin pub
    BY <1>1, <2>1 DEF InFlight
  <2> QED
    BY <1>1, <2>1, <2>2, <2>3 DEF InFlight, UnderWay
<1>3. ASSUME NEW c \in Calls, Publish(c)
      PROVE  pc' = pc /\ pub' \subseteq pub /\ written' = written
  BY <1>3 DEF Publish, callVars, histVars
<1>4. CASE Crash
  BY <1>1, <1>4 DEF Crash, InFlight, UnderWay, histVars
<1>5. CASE UNCHANGED vars
  <2>1. pc' = pc /\ pub' = pub /\ written' = written
    BY <1>5 DEF vars, callVars, histVars
  <2> QED
    BY <1>1, <2>1 DEF InFlight, UnderWay
<1>6. ASSUME NEW c \in Calls, Publish(c)
      PROVE  InFlight' \subseteq InFlight /\ UnderWay' \subseteq UnderWay
  BY <1>3, <1>6 DEF InFlight, UnderWay
<1> QED
  BY <1>1, <1>2, <1>3, <1>4, <1>5, <1>6

\* A call writes after it has begun, and returns before it is announced.
LEMMA OrderStep == TypeOK /\ OrderInv /\ [Next]_vars => OrderInv'
<1> SUFFICES ASSUME TypeOK, OrderInv, [Next]_vars
             PROVE  OrderInv'
  OBVIOUS
<1>1. ASSUME NEW c \in Calls, Find(c)
      PROVE  OrderInv'
  BY <1>1, FindShape DEF OrderInv
<1>2. CASE \/ \E c \in Calls : Proceed(c) \/ Publish(c)
           \/ Crash
           \/ UNCHANGED vars
  BY <1>2, OnwardShape DEF OrderInv
<1> QED
  BY <1>1, <1>2 DEF Next

\* A call that has returned stays as it is; whom it concerns may go.
LEMMA DoneStays ==
    ASSUME TypeOK, OrderInv, [Next]_vars, NEW k \in Calls, pc[k] = "done"
    PROVE  pc'[k] = "done" /\ ids'[k] = ids[k] /\ audience'[k] \subseteq audience[k]
<1>1. pc \in [Calls -> Stage] /\ audience \in [Calls -> SUBSET UserIDs]
  BY DEF TypeOK
<1>2. ASSUME NEW c \in Calls, Find(c)
      PROVE  pc'[k] = "done" /\ ids'[k] = ids[k] /\ audience'[k] \subseteq audience[k]
  BY <1>2, FindShape
<1>3. ASSUME NEW c \in Calls, Proceed(c)
      PROVE  pc'[k] = "done" /\ ids'[k] = ids[k] /\ audience'[k] \subseteq audience[k]
  <2>1. k # c /\ pc'[k] = pc[k] /\ ids'[k] = ids[k]
    BY <1>3, ProceedShape DEF InFlight
  <2>2. CASE DeleteUser(c) \/ DeleteRoom(c) \/ DeleteMember(c)
    BY <1>1, <2>1, <2>2 DEF DeleteUser, DeleteRoom, DeleteMember
  <2>3. ASSUME NEW u \in UserIDs, AppendMember(c, u)
        PROVE  audience'[k] = audience[k]
    BY <1>1, <2>1, <2>3 DEF AppendMember
  <2>4. ASSUME ~Write(c)
        PROVE  audience' = audience
    BY <1>3, <2>4 DEF Proceed, FindUsers, FindUser, Prepare, LoadUser, LoadRoom,
          Reload, Loads, Send, StatementFails, OnlyGoto, histVars
  <2>5. ASSUME \/ InsertUser(c) \/ SaveUser(c) \/ InsertRoom(c) \/ SaveRoom(c)
               \/ AppendDone(c)
        PROVE  audience' = audience
    BY <2>5 DEF InsertUser, SaveUser, InsertRoom, SaveRoom, AppendDone, Refused,
          OnlyGoto, histVars
  <2> QED
    BY <2>1, <2>2, <2>3, <2>4, <2>5 DEF Write
<1>4. ASSUME NEW c \in Calls, Publish(c)
      PROVE  UNCHANGED <<pc, ids, audience>>
  BY <1>4 DEF Publish, callVars, histVars
<1>5. CASE Crash
  BY <1>5 DEF Crash, InFlight, histVars
<1>6. CASE UNCHANGED vars
  BY <1>6 DEF vars, callVars, histVars
<1> QED
  BY <1>2, <1>3, <1>4, <1>5, <1>6 DEF Next
=============================================================================
