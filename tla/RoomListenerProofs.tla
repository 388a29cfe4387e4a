------------------------- MODULE RoomListenerProofs -------------------------
(***************************************************************************)
(* Proofs about RoomListener, for any users, rooms and calls, and any      *)
(* number of calls in flight.                                              *)
(***************************************************************************)
EXTENDS RoomListener, RoomManagerProofs

-----------------------------------------------------------------------------
(* What an announcement tells.                                             *)

\* A call whose changes stand announces what is so when it loads.
LEMMA LoadsTold ==
    ASSUME TypeOK, NEW c \in Calls, Prepare(c), pc[c] = "load", pc'[c] = "send",
           NEW p \in Scope(c), Stands(c, p)
    PROVE  (p \in Told(c))' <=> Holds(p)'
<1>1. /\ pc \in [Calls -> Stage] /\ ids \in [Calls -> SUBSET (RoomIDs \cup UserIDs)]
      /\ users \subseteq UserIDs /\ rooms \subseteq RoomIDs
      /\ c.op \in UserOps \cup RoomOps
      /\ p \in Pairs /\ p = <<p[1], p[2]>>
      /\ c.op \in UserOps => p[2] = c.user
      /\ c.op \notin UserOps => p[1] = c.room
  BY CallsAssumption DEF TypeOK, Scope, Pairs
<1>2. CASE LoadUser(c)
  <2>1. c.op \in UserOps /\ ids'[c] = RoomsOf(c.user) /\ UNCHANGED dbVars
    BY <1>1, <1>2 DEF LoadUser, Loads, RoomsListed
  <2> QED
    BY <1>1, <2>1 DEF Stands, Told, Holds, RoomsOf, UserOps, ProfileOps, dbVars
<1>3. CASE LoadRoom(c)
  <2>1. /\ c.op \in {"createRoom", "updateRoom", "destroyRoom"}
        /\ ids'[c] = MembersOf(c.room) /\ UNCHANGED dbVars
    BY <1>1, <1>3 DEF LoadRoom, Loads, MembersListed
  <2> QED
    BY <1>1, <2>1 DEF Stands, Told, Holds, MembersOf, UserOps, ProfileOps, dbVars
<1>4. CASE Reload(c)
  <2>1. /\ c.op \in {"addUser", "kickUser"} /\ c.room \in rooms
        /\ ids'[c] = MembersOf(c.room) \cup
                        (IF c.op = "kickUser" THEN {c.user} ELSE {})
        /\ UNCHANGED dbVars
    BY <1>1, <1>4 DEF Reload, Loads, OnlyGoto, Goto
  <2> QED
    BY <1>1, <2>1 DEF Stands, Told, Holds, MembersOf, UserOps, ProfileOps, dbVars
<1>5. ~Send(c)
  BY DEF Send
<1> QED
  BY <1>2, <1>3, <1>4, <1>5 DEF Prepare

-----------------------------------------------------------------------------
(* What a step of the listener does to the calls.                          *)

\* The listener takes part in every step, and changes none.
LEMMA ListenStep == [ListenNext]_<<vars, listenVars>> => [Next]_vars
BY DEF ListenNext, Next, vars

\* The steps in which no call begins.
Onward ==
    \/ \E c \in Calls :
          \/ Proceed(c) /\ Lose(IF pc'[c] = "failed" THEN Untold(c) ELSE {})
          \/ Publish(c) /\ (Hear(c) \/ Lose(Untold(c)))
    \/ Crash /\ Lose(UNION {Untold(c) : c \in UnderWay})
    \/ UNCHANGED <<vars, listenVars>>

\* They are steps of calls under way, and nothing is forgotten of what is
\* blurred.
LEMMA OnwardIs ==
    ASSUME Onward
    PROVE  /\ \/ \E c \in Calls : Proceed(c) \/ Publish(c)
              \/ Crash
              \/ UNCHANGED vars
           /\ \A k \in Calls : blurred[k] \subseteq blurred'[k]
BY DEF Onward, Hear, Lose, listenVars

\* The beginning of a call changes nothing of what is known.
LEMMA BeginIs ==
    ASSUME NEW c \in Calls, Begin(c)
    PROVE  /\ UNCHANGED <<view, unsure>>
           /\ \A k \in Calls \ {c} : blurred[k] \subseteq blurred'[k]
BY DEF Begin

\* A step is the beginning of a call, or goes on with those under way.
LEMMA Steps ==
    ASSUME [ListenNext]_<<vars, listenVars>>
    PROVE  Onward \/ \E c \in Calls : Find(c) /\ Begin(c)
BY DEF ListenNext, Onward

-----------------------------------------------------------------------------
(* The invariant, part by part.                                            *)

\* Whoever begins beside a rival blurs what both decide, for both.
LEMMA BlurStep ==
    ASSUME TypeOK, OrderInv, BlurInv, [ListenNext]_<<vars, listenVars>>
    PROVE  BlurInv'
<1>1. UnderWay \subseteq Calls /\ UnderWay' \subseteq Calls
  <2>1. pub \subseteq Calls /\ [Next]_vars
    BY ListenStep DEF TypeOK
  <2>2. pub' \subseteq Calls
    BY <2>1, TypeStep DEF TypeOK
  <2> QED
    BY <2>1, <2>2 DEF UnderWay, InFlight
<1>2. CASE Onward
  <2> SUFFICES ASSUME NEW d \in UnderWay', NEW e \in UnderWay', Overlap(d, e)'
               PROVE  Scope(d) \cap Scope(e) \subseteq blurred'[d]
    BY DEF BlurInv, Scope
  <2>1. d \in UnderWay /\ e \in UnderWay /\ Overlap(d, e)
    BY <1>2, OnwardShape, OnwardIs DEF Overlap, Publisher
  <2>2. blurred[d] \subseteq blurred'[d]
    BY <1>1, <1>2, OnwardShape, OnwardIs
  <2> QED
    BY <2>1, <2>2 DEF BlurInv
<1>3. ASSUME NEW c \in Calls, Find(c), Begin(c)
      PROVE  BlurInv'
  <2> SUFFICES ASSUME NEW d \in UnderWay', NEW e \in UnderWay', Overlap(d, e)'
               PROVE  Scope(d) \cap Scope(e) \subseteq blurred'[d]
    BY DEF BlurInv, Scope
  <2>1. /\ c \notin pub /\ c \notin InFlight
        /\ InFlight' \subseteq InFlight \cup {c} /\ pub' = pub
        /\ \A k \in Calls \ {c} : blurred[k] \subseteq blurred'[k]
    BY <1>3, FindShape, BeginIs DEF InFlight
  <2>2. /\ d # e /\ d \in Calls /\ e \in Calls
        /\ {d, e} \subseteq InFlight' \/ Publisher(d) # Publisher(e)
    BY <1>1 DEF Overlap, Publisher
  <2>3. CASE d = c
    <3>1. e \in Rivals(c)
      BY <2>1, <2>2, <2>3 DEF Rivals, UnderWay
    <3>2. Scope(c) \cap Scope(e) \subseteq blurred'[c]
      BY <1>3, <3>1 DEF Begin
    <3> QED
      BY <2>3, <3>2
  <2>4. CASE e = c
    <3>1. d \in Rivals(c) \ {c}
      BY <2>1, <2>2, <2>4 DEF Rivals, UnderWay
    <3>2. Scope(d) \cap Scope(c) \subseteq blurred'[d]
      BY <1>3, <2>2, <3>1 DEF Begin
    <3> QED
      BY <2>4, <3>2
  <2>5. CASE d # c /\ e # c
    <3>1. d \in UnderWay /\ e \in UnderWay /\ Overlap(d, e)
      BY <2>1, <2>2, <2>5 DEF Overlap, UnderWay
    <3> QED
      BY <2>1, <2>2, <2>5, <3>1 DEF BlurInv
  <2> QED
    BY <2>3, <2>4, <2>5
<1> QED
  BY <1>2, <1>3, Steps

\* Who alone decides about a pair need not fear another call's statement.
LEMMA Alone ==
    ASSUME TypeOK, StageInv, BlurInv, NEW c \in Calls, Proceed(c),
           NEW d \in Calls \ {c}, d \in InFlight \/ (d \in pub /\ Publisher(c) # Publisher(d)),
           NEW p \in Scope(d) \ blurred[d]
    PROVE  p \in Pairs \ Scope(c)
<1>1. c \in InFlight
  BY ProceedShape
<1>2. Overlap(d, c) /\ d \in UnderWay /\ c \in UnderWay
  BY <1>1 DEF Overlap, UnderWay
<1>3. p \in Pairs
  BY CallsAssumption DEF Scope, Pairs
<1> QED
  BY <1>2, <1>3 DEF BlurInv

\* What a call has written stands until it has loaded, unless a rival may
\* have undone it.
LEMMA WroteStep ==
    ASSUME TypeOK, StageInv, OrderInv, BlurInv, WroteInv,
           [ListenNext]_<<vars, listenVars>>
    PROVE  WroteInv'
<1> SUFFICES ASSUME NEW d \in Calls, NEW p \in Scope(d), p \notin blurred'[d],
                    pc'[d] \in {"append", "load"}
             PROVE  Stands(d, p)'
  BY DEF WroteInv, Scope
<1>1. ASSUME p \notin blurred[d], pc[d] \in {"append", "load"},
             p \in members' <=> p \in members,
             p[1] \in rooms' <=> p[1] \in rooms,
             p[2] \in users' <=> p[2] \in users
      PROVE  Stands(d, p)'
  <2>1. Stands(d, p)
    BY <1>1 DEF WroteInv
  <2> QED
    BY <1>1, <2>1 DEF Stands
<1>2. CASE Onward
  <2>1. p \notin blurred[d]
    BY <1>2, OnwardShape, OnwardIs
  <2>2. ASSUME NEW c \in Calls, Proceed(c)
        PROVE  Stands(d, p)'
    <3>1. CASE d = c
      <4>1. pc[c] = "append" => Stands(c, p)
        BY <2>1, <3>1 DEF WroteInv
      <4> QED
        BY <2>2, <3>1, <4>1, ProceedStands
    <3>2. CASE d # c
      <4>1. pc'[d] = pc[d] /\ d \in InFlight
        BY <2>2, <3>2, ProceedShape DEF InFlight
      <4>2. p \in Pairs \ Scope(c)
        BY <2>1, <2>2, <3>2, <4>1, Alone
      <4> QED
        BY <1>1, <2>1, <2>2, <4>1, <4>2, ProceedFar
    <3> QED
      BY <3>1, <3>2
  <2>3. CASE UNCHANGED <<dbVars, pc>>
    BY <1>1, <2>1, <2>3 DEF dbVars
  <2>4. CASE Crash
    BY <1>1, <2>1, <2>4 DEF Crash, InFlight, dbVars
  <2> QED
    BY <1>2, <2>2, <2>3, <2>4 DEF Onward, Publish, callVars, vars
<1>3. ASSUME NEW c \in Calls, Find(c), Begin(c)
      PROVE  Stands(d, p)'
  <2>1. d # c /\ pc'[d] = pc[d] /\ UNCHANGED dbVars /\ p \notin blurred[d]
    BY <1>3, FindShape, BeginIs
  <2> QED
    BY <1>1, <2>1 DEF dbVars
<1> QED
  BY <1>2, <1>3, Steps

\* An announcement that is under way stays right: no other call can decide
\* about what it speaks of, or it is heard to have done so.
LEMMA SaysStep ==
    ASSUME TypeOK, StageInv, OrderInv, BlurInv, WroteInv, SaysInv,
           [ListenNext]_<<vars, listenVars>>
    PROVE  SaysInv'
<1> SUFFICES ASSUME NEW d \in Calls, NEW p \in Scope(d), p \notin blurred'[d],
                    pc'[d] = "send" \/ d \in pub', Unwritten(p, d)'
             PROVE  (p \in Told(d))' <=> Holds(p)'
  BY DEF SaysInv, Scope
<1>1. ASSUME p \notin blurred[d], pc[d] = "send" \/ d \in pub, Unwritten(p, d),
             ids'[d] = ids[d], Holds(p)' <=> Holds(p)
      PROVE  (p \in Told(d))' <=> Holds(p)'
  <2>1. p \in Told(d) <=> Holds(p)
    BY <1>1 DEF SaysInv
  <2>2. Told(d)' = Told(d)
    BY <1>1 DEF Told
  <2> QED
    BY <1>1, <2>1, <2>2
<1>2. UNCHANGED dbVars => (Holds(p)' <=> Holds(p))
  BY DEF dbVars, Holds
<1>3. CASE Onward
  <2>1. p \notin blurred[d]
    BY <1>3, OnwardShape, OnwardIs
  <2>2. ASSUME NEW c \in Calls, Proceed(c),
               Lose(IF pc'[c] = "failed" THEN Untold(c) ELSE {})
        PROVE  (p \in Told(d))' <=> Holds(p)'
    <3>1. /\ c \in InFlight
          /\ pc'[c] # "idle" /\ \A k \in Calls \ {c} : pc'[k] = pc[k]
          /\ written \subseteq written' /\ written' \subseteq written \cup {c}
          /\ c \in written' \/ UNCHANGED dbVars
          /\ \A k \in Calls \ {c} : ids'[k] = ids[k]
          /\ (pub' = pub /\ pc'[c] # "done") \/ Send(c)
          /\ pc'[c] = "failed" => pub' = pub /\ written' = written
          /\ pc'[c] = "send" => Prepare(c) /\ pc[c] = "load"
      BY <2>2, ProceedShape
    <3>2. Send(c) => /\ pub' = pub \cup {c} /\ pc[c] = "send"
                     /\ \A k \in pub : Publisher(k) # Publisher(c)
                     /\ UNCHANGED <<dbVars, ids, written>>
      BY DEF Send, histVars
    <3>3. CASE d = c /\ pc'[c] = "send"
      <4>1. Stands(c, p)
        BY <2>1, <3>1, <3>3 DEF WroteInv
      <4> QED
        BY <3>1, <3>3, <4>1, LoadsTold
    <3>4. CASE d = c /\ pc'[c] # "send"
      <4>1. Send(c)
        BY <3>1, <3>4 DEF OrderInv, InFlight
      <4>2. Unwritten(p, d)
        BY <3>1, <3>2, <3>4, <4>1 DEF Unwritten, InFlight, Scope
      <4> QED
        BY <1>1, <1>2, <2>1, <3>2, <3>4, <4>1, <4>2
    <3>5. CASE d # c
      <4>1. /\ pc'[d] = pc[d] /\ ids'[d] = ids[d]
            /\ pc[d] = "send" \/ d \in pub
        BY <3>1, <3>2, <3>5
      <4>2. \A e \in InFlight \ {c} : e \in InFlight'
        BY <3>1 DEF InFlight
      <4>3. CASE p \notin Scope(c)
        <5>1. p \in Pairs \ Scope(c)
          BY <4>3, CallsAssumption DEF Scope, Pairs
        <5>2. Holds(p)' <=> Holds(p)
          BY <2>2, <5>1, ProceedFar DEF Holds
        <5>3. Unwritten(p, d)
          BY <3>1, <4>2, <4>3 DEF Unwritten, Scope
        <5> QED
          BY <1>1, <2>1, <4>1, <5>2, <5>3
      <4>4. CASE p \in Scope(c)
        <5>1. d \in pub /\ Publisher(d) = Publisher(c)
          BY <2>1, <2>2, <3>5, <4>1, <4>4, Alone DEF InFlight
        <5>2. ~Send(c)
          BY <3>2, <5>1
        <5>3. c \notin written'
          <6>1. CASE pc'[c] = "failed"
            <7>1. p \notin Untold(c)
              BY <2>2, <5>1, <6>1 DEF Lose
            <7> QED
              BY <3>1, <4>4, <6>1, <7>1 DEF Untold
          <6>2. CASE pc'[c] # "failed"
            <7>1. c \in InFlight' \ {d}
              BY <3>1, <3>5, <5>2, <6>2 DEF InFlight
            <7> QED
              BY <4>4, <7>1 DEF Unwritten, Scope
          <6> QED
            BY <6>1, <6>2
        <5>4. Unwritten(p, d)
          BY <3>1, <4>2, <5>3 DEF Unwritten, Scope
        <5> QED
          BY <1>1, <1>2, <2>1, <3>1, <4>1, <5>3, <5>4
      <4> QED
        BY <4>3, <4>4
    <3> QED
      BY <3>3, <3>4, <3>5
  <2>3. CASE /\ UNCHANGED <<dbVars, pc, ids, written>> /\ pub' \subseteq pub
    <3>1. Unwritten(p, d)
      BY <2>3 DEF Unwritten, InFlight, Scope
    <3> QED
      BY <1>1, <1>2, <2>1, <2>3, <3>1
  <2>4. CASE Crash
    BY <2>4 DEF Crash, InFlight
  <2>5. ASSUME NEW c \in Calls, Publish(c)
        PROVE  UNCHANGED <<dbVars, pc, ids, written>> /\ pub' \subseteq pub
    BY <2>5 DEF Publish, callVars, histVars
  <2>6. UNCHANGED vars => UNCHANGED <<dbVars, pc, ids, written>> /\ pub' \subseteq pub
    BY DEF vars, callVars, histVars
  <2> QED
    BY <1>3, <2>2, <2>3, <2>4, <2>5, <2>6 DEF Onward
<1>4. ASSUME NEW c \in Calls, Find(c), Begin(c)
      PROVE  (p \in Told(d))' <=> Holds(p)'
  <2>1. /\ pc'[c] # "send" /\ c \notin pub
        /\ \A k \in Calls \ {c} : pc'[k] = pc[k]
        /\ InFlight \subseteq InFlight'
        /\ UNCHANGED <<dbVars, ids, pub, written>>
        /\ \A k \in Calls \ {c} : blurred[k] \subseteq blurred'[k]
    BY <1>4, FindShape, BeginIs
  <2>2. d # c
    BY <2>1
  <2>3. Unwritten(p, d)
    BY <2>1 DEF Unwritten, Scope
  <2> QED
    BY <1>1, <1>2, <2>1, <2>2, <2>3
<1> QED
  BY <1>3, <1>4, Steps

\* What the listener hears is right, and what it misses it knows to be unsure.
LEMMA ViewStep ==
    ASSUME TypeOK, StageInv, OrderInv, SaysInv, ViewInv,
           [ListenNext]_<<vars, listenVars>>
    PROVE  ViewInv'
<1> SUFFICES ASSUME NEW p \in Pairs, p \notin unsure',
                    \A e \in UnderWay' : p \in Scope(e) => e \notin written'
             PROVE  p \in view' <=> Holds(p)'
  BY DEF ViewInv, Scope, Pairs
<1> DEFINE Open == \A e \in UnderWay : p \in Scope(e) => e \notin written
<1>1. ASSUME p \notin unsure, Open, view' = view, Holds(p)' <=> Holds(p)
      PROVE  p \in view' <=> Holds(p)'
  BY <1>1 DEF ViewInv
<1>2. UNCHANGED dbVars => (Holds(p)' <=> Holds(p))
  BY DEF dbVars, Holds
<1>3. ASSUME NEW c \in Calls, Proceed(c),
             Lose(IF pc'[c] = "failed" THEN Untold(c) ELSE {})
      PROVE  p \in view' <=> Holds(p)'
  <2>1. /\ c \in InFlight
        /\ pc'[c] # "idle" /\ \A k \in Calls \ {c} : pc'[k] = pc[k]
        /\ written \subseteq written'
        /\ c \in written' \/ UNCHANGED dbVars
        /\ (pub' = pub /\ pc'[c] # "done") \/ Send(c)
        /\ pc'[c] = "failed" => written' = written
    BY <1>3, ProceedShape
  <2>2. Send(c) => pub' = pub \cup {c}
    BY DEF Send
  <2>3. \A e \in UnderWay \ {c} : e \in UnderWay'
    BY <2>1, <2>2 DEF UnderWay, InFlight
  <2>4. p \notin unsure /\ view' = view
    BY <1>3 DEF Lose
  <2>5. CASE p \notin Scope(c)
    <3>1. Holds(p)' <=> Holds(p)
      BY <1>3, <2>5, ProceedFar DEF Holds
    <3>2. Open
      BY <2>1, <2>3, <2>5
    <3> QED
      BY <1>1, <2>4, <3>1, <3>2
  <2>6. CASE p \in Scope(c)
    <3>1. c \notin written'
      <4>1. CASE pc'[c] = "failed"
        <5>1. p \notin Untold(c)
          BY <1>3, <4>1 DEF Lose
        <5> QED
          BY <2>1, <2>6, <4>1, <5>1 DEF Untold
      <4>2. CASE pc'[c] # "failed"
        <5>1. c \in UnderWay'
          BY <2>1, <2>2, <4>2 DEF UnderWay, InFlight
        <5> QED
          BY <2>6, <5>1
      <4> QED
        BY <4>1, <4>2
    <3>2. Open
      BY <2>1, <2>3, <3>1
    <3> QED
      BY <1>1, <1>2, <2>1, <2>4, <3>1, <3>2
  <2> QED
    BY <2>5, <2>6
<1>4. ASSUME NEW c \in Calls, Publish(c), Hear(c) \/ Lose(Untold(c))
      PROVE  p \in view' <=> Holds(p)'
  <2>1. /\ c \in pub /\ pub' = pub \ {c}
        /\ UNCHANGED <<dbVars, pc, ids, written>>
    BY <1>4 DEF Publish, callVars, histVars
  <2>2. InFlight' = InFlight /\ \A e \in UnderWay \ {c} : e \in UnderWay'
    BY <2>1 DEF InFlight, UnderWay
  <2>3. CASE Lose(Untold(c))
    <3>1. p \notin unsure /\ p \notin Untold(c) /\ view' = view
      BY <2>3 DEF Lose
    <3>2. Open
      BY <2>1, <2>2, <3>1 DEF Untold
    <3> QED
      BY <1>1, <1>2, <2>1, <3>1, <3>2
  <2>4. CASE Hear(c)
    <3>1. /\ (p \notin blurred[c] /\ p \in Scope(c)) \/ p \notin unsure
          /\ view' = (view \ Scope(c)) \cup Told(c)
      BY <2>4 DEF Hear, Apply
    <3>2. CASE p \in Scope(c)
      <4>1. p \notin blurred[c]
        BY <2>4 DEF Hear
      <4>2. Unwritten(p, c)
        BY <2>1, <2>2 DEF Unwritten, UnderWay, Scope
      <4>3. p \in Told(c) <=> Holds(p)
        BY <2>1, <3>2, <4>1, <4>2 DEF SaysInv
      <4> QED
        BY <1>2, <2>1, <3>1, <3>2, <4>3
    <3>3. CASE p \notin Scope(c)
      <4>1. p \notin Told(c)
        <5>1. /\ c.op \in UserOps \cup RoomOps
              /\ ids[c] \subseteq IF c.op \in UserOps THEN RoomIDs ELSE UserIDs
          BY CallsAssumption DEF TypeOK
        <5> QED
          BY <3>3, <5>1 DEF Told, Scope, UserOps, RoomOps, ProfileOps
      <4>2. Open
        BY <2>1, <2>2, <3>3
      <4>3. p \in view <=> Holds(p)
        BY <3>1, <3>3, <4>2 DEF ViewInv
      <4> QED
        BY <1>2, <2>1, <3>1, <3>3, <4>1, <4>3
    <3> QED
      BY <3>2, <3>3
  <2> QED
    BY <1>4, <2>3, <2>4
<1>5. CASE Crash /\ Lose(UNION {Untold(c) : c \in UnderWay})
  <2>1. /\ p \notin unsure /\ view' = view /\ UNCHANGED dbVars
        /\ \A e \in UnderWay : p \notin Untold(e)
    BY <1>5 DEF Lose, Crash
  <2>2. Open
    BY <2>1 DEF Untold
  <2> QED
    BY <1>1, <1>2, <2>1, <2>2
<1>6. CASE UNCHANGED <<vars, listenVars>>
  <2>1. UNCHANGED <<dbVars, pc, pub, written, view, unsure>>
    BY <1>6 DEF vars, callVars, histVars, listenVars
  <2>2. UnderWay' = UnderWay
    BY <2>1 DEF UnderWay, InFlight
  <2> QED
    BY <1>1, <1>2, <2>1, <2>2
<1>7. ASSUME NEW c \in Calls, Find(c), Begin(c)
      PROVE  p \in view' <=> Holds(p)'
  <2>1. /\ UnderWay \subseteq UnderWay'
        /\ UNCHANGED <<dbVars, written, view, unsure>>
    BY <1>7, FindShape, BeginIs
  <2> QED
    BY <1>1, <1>2, <2>1
<1> QED
  BY <1>3, <1>4, <1>5, <1>6, <1>7, Steps DEF Onward

-----------------------------------------------------------------------------
(* What a listener knows.                                                  *)

\* The listener's parts of the invariant, with those of the manager.
THEOREM ListenInvariant == ListenSpec => [](ManagerInv /\ ListenInv)
<1>1. ListenInit => ManagerInv /\ ListenInv
  <2> SUFFICES ASSUME ListenInit
               PROVE  ManagerInv /\ ListenInv
    OBVIOUS
  <2>1. ManagerInv
    BY InitManagerInv DEF ListenInit
  <2>2. /\ \A c \in Calls : pc[c] = "idle"
        /\ written = {} /\ pub = {} /\ members = {} /\ view = {}
    BY DEF ListenInit, Init
  <2>3. InFlight = {} /\ UnderWay = {}
    BY <2>2 DEF InFlight, UnderWay
  <2>4. OrderInv /\ BlurInv /\ WroteInv /\ SaysInv
    BY <2>2, <2>3 DEF OrderInv, BlurInv, WroteInv, SaysInv
  <2>5. ViewInv
    BY <2>2 DEF ViewInv, Holds
  <2> QED
    BY <2>1, <2>4, <2>5 DEF ListenInv
<1>2. ManagerInv /\ ListenInv /\ [ListenNext]_<<vars, listenVars>>
      => (ManagerInv /\ ListenInv)'
  <2> SUFFICES ASSUME ManagerInv, ListenInv, [ListenNext]_<<vars, listenVars>>
               PROVE  (ManagerInv /\ ListenInv)'
    OBVIOUS
  <2>1. ManagerInv'
    BY ListenStep, TypeStep, StageStep, AudienceStep, GroundStep DEF ManagerInv
  <2>2. ListenInv'
    BY ListenStep, OrderStep, BlurStep, WroteStep, SaysStep, ViewStep DEF ManagerInv, ListenInv
  <2> QED
    BY <2>1, <2>2
<1> QED
  BY <1>1, <1>2, PTL DEF ListenSpec

\* Announcements that are read after the write, and that replace what is known
\* of a room or of a user, keep whoever hears them right about every pair that
\* no two overlapping calls, and no failure, have made unsure.
THEOREM ListenerRight == ListenSpec => []ListenerIsRight
<1>1. ManagerInv /\ ListenInv => ListenerIsRight
  BY DEF ListenInv, ViewInv, ListenerIsRight
<1> QED
  BY <1>1, ListenInvariant, PTL
=============================================================================
