------------------------- MODULE SignalRelayProofs -------------------------
(***************************************************************************)
(* Proofs about SignalRelay, for any sets of users, commands and streams   *)
(* and any length of the NATS queues.                                      *)
(***************************************************************************)
EXTENDS SignalRelay, SequenceTheorems, TLAPS

-----------------------------------------------------------------------------
(* Sequences of positions.                                                 *)

\* A command appended after every other keeps a sequence increasing.
LEMMA AppendIncreasing ==
    ASSUME NEW seq \in Seq(Nat), NEW e \in Nat,
           Increasing(seq), Precedes(SetOf(seq), {e})
    PROVE  Increasing(Append(seq, e))
<1>1. \A i \in 1..Len(seq) : seq[i] < e
  BY DEF Precedes, SetOf
<1>2. /\ Len(Append(seq, e)) = Len(seq) + 1
      /\ \A i \in 1..Len(seq) : Append(seq, e)[i] = seq[i]
      /\ Append(seq, e)[Len(seq) + 1] = e
  OBVIOUS
<1>3. ASSUME NEW i \in 1..Len(Append(seq, e)), NEW j \in 1..Len(Append(seq, e)),
             i < j
      PROVE  Append(seq, e)[i] < Append(seq, e)[j]
  <2>1. i \in 1..Len(seq) /\ (j \in 1..Len(seq) \/ j = Len(seq) + 1)
    BY <1>2, <1>3
  <2> QED
    BY <1>1, <1>2, <1>3, <2>1 DEF Increasing
<1> QED
  BY <1>3 DEF Increasing

\* What an appended sequence holds.
LEMMA AppendSetOf ==
    ASSUME NEW seq \in Seq(Nat), NEW e \in Nat
    PROVE  SetOf(Append(seq, e)) = SetOf(seq) \cup {e}
<1>1. /\ Len(Append(seq, e)) = Len(seq) + 1
      /\ \A k \in 1..Len(seq) : Append(seq, e)[k] = seq[k]
      /\ Append(seq, e)[Len(seq) + 1] = e
  OBVIOUS
<1>2. Len(seq) \in Nat
  OBVIOUS
<1>3. 1..(Len(seq) + 1) = 1..Len(seq) \cup {Len(seq) + 1}
  BY <1>2
<1> QED
  BY <1>1, <1>3, Zenon DEF SetOf

\* The head and the tail of a sequence hold what the sequence holds.
LEMMA TakeHeadSetOf ==
    ASSUME NEW seq \in Seq(Nat), seq # <<>>
    PROVE  /\ Head(seq) \in SetOf(seq)
           /\ SetOf(Tail(seq)) \subseteq SetOf(seq)
<1>1. /\ Len(seq) \in Nat \ {0}
      /\ Head(seq) = seq[1]
      /\ Len(Tail(seq)) = Len(seq) - 1
      /\ \A k \in 1..Len(Tail(seq)) : Tail(seq)[k] = seq[k + 1]
  BY HeadTailProperties
<1>2. \A k \in 1..Len(Tail(seq)) : k + 1 \in 1..Len(seq)
  BY <1>1
<1> QED
  BY <1>1, <1>2 DEF SetOf

\* Taking the head of an increasing sequence leaves later commands behind.
LEMMA TakeHead ==
    ASSUME NEW seq \in Seq(Nat), seq # <<>>, Increasing(seq)
    PROVE  /\ Increasing(Tail(seq))
           /\ Precedes({Head(seq)}, SetOf(Tail(seq)))
<1>1. /\ Len(seq) \in Nat \ {0}
      /\ Head(seq) = seq[1]
      /\ Len(Tail(seq)) = Len(seq) - 1
      /\ \A k \in 1..Len(Tail(seq)) : Tail(seq)[k] = seq[k + 1]
  BY HeadTailProperties
<1>2. \A k \in 1..Len(Tail(seq)) : k + 1 \in 1..Len(seq) /\ 1 < k + 1
  BY <1>1
<1>3. Increasing(Tail(seq))
  BY <1>1, <1>2 DEF Increasing
<1>4. Precedes({Head(seq)}, SetOf(Tail(seq)))
  BY <1>1, <1>2 DEF Increasing, Precedes, SetOf
<1> QED
  BY <1>3, <1>4

\* Every way in which a command moves on, or is dropped, keeps the order.
LEMMA Moves ==
    ASSUME NEW a \in Seq(Nat), NEW b \in Nat, NEW c \in Nat, NEW d \in Nat,
           NEW e \in Seq(Nat), NEW f \in Nat, Ordered(a, b, c, d, e, f)
    PROVE  /\ Ordered(a, b, c, d, e, 0)
           /\ Ordered(a, b, c, 0, e, f)
           /\ Ordered(a, b, d, 0, e, f)
           /\ Ordered(a, c, 0, d, e, f)
           /\ Ordered(a, 0, c, d, e, f)
           /\ Ordered(a, 0, c, d, <<>>, f)
           /\ Ordered(a, b, c, d, <<>>, f)
<1> USE DEF Ordered, Held, Precedes
<1>1. Held(0) = {}
  OBVIOUS
<1>2. SetOf(<<>>) = {} /\ Increasing(<<>>)
  BY DEF SetOf, Increasing
<1> QED
  BY <1>1, <1>2

\* The handler writes what it holds.
LEMMA MoveToStream ==
    ASSUME NEW a \in Seq(Nat), NEW b \in Nat, NEW c \in Nat, NEW d \in Nat,
           NEW e \in Seq(Nat), NEW f \in Nat, Ordered(a, b, c, d, e, f),
           b # 0
    PROVE  Ordered(Append(a, b), 0, c, d, e, f)
<1>1. Held(b) = {b}
  BY DEF Held
<1>2. Increasing(Append(a, b))
  BY <1>1, AppendIncreasing DEF Ordered
<1>3. SetOf(Append(a, b)) = SetOf(a) \cup {b}
  BY AppendSetOf
<1> QED
  BY <1>1, <1>2, <1>3 DEF Ordered, Held, Precedes

\* The publisher's command joins the queue.
LEMMA MoveToQueue ==
    ASSUME NEW a \in Seq(Nat), NEW b \in Nat, NEW c \in Nat, NEW d \in Nat,
           NEW e \in Seq(Nat), NEW f \in Nat, Ordered(a, b, c, d, e, f),
           f # 0
    PROVE  Ordered(a, b, c, d, Append(e, f), 0)
<1>1. Held(f) = {f}
  BY DEF Held
<1>2. Increasing(Append(e, f))
  BY <1>1, AppendIncreasing DEF Ordered
<1>3. SetOf(Append(e, f)) = SetOf(e) \cup {f}
  BY AppendSetOf
<1> QED
  BY <1>1, <1>2, <1>3 DEF Ordered, Held, Precedes

\* The callback takes the oldest command of the queue.
LEMMA MoveToCallback ==
    ASSUME NEW a \in Seq(Nat), NEW b \in Nat, NEW c \in Nat,
           NEW e \in Seq(Nat), NEW f \in Nat, Ordered(a, b, c, 0, e, f),
           e # <<>>
    PROVE  Ordered(a, b, c, Head(e), Tail(e), f)
<1>1. /\ Head(e) \in SetOf(e)
      /\ SetOf(Tail(e)) \subseteq SetOf(e)
      /\ Increasing(Tail(e))
      /\ Precedes({Head(e)}, SetOf(Tail(e)))
  BY TakeHead, TakeHeadSetOf DEF Ordered
<1>2. Held(Head(e)) \subseteq {Head(e)}
  BY DEF Held
<1> QED
  BY <1>1, <1>2 DEF Ordered, Precedes

\* A new command comes after all those on their way.
LEMMA MoveToPublisher ==
    ASSUME NEW n \in Nat,
           NEW a \in Seq(1..n), NEW b \in 0..n, NEW c \in 0..n, NEW d \in 0..n,
           NEW e \in Seq(1..n), Ordered(a, b, c, d, e, 0)
    PROVE  Ordered(a, b, c, d, e, n + 1)
<1>1. /\ \A k \in 1..Len(a) : a[k] \in 1..n
      /\ \A k \in 1..Len(e) : e[k] \in 1..n
  OBVIOUS
<1>2. SetOf(a) \subseteq 1..n
  BY <1>1 DEF SetOf
<1>3. SetOf(e) \subseteq 1..n
  BY <1>1 DEF SetOf
<1> QED
  BY <1>2, <1>3 DEF Ordered, Held, Precedes

-----------------------------------------------------------------------------
(* The invariant.                                                          *)

\* The initial state satisfies every part of it.
LEMMA InitRelayInv == Init => RelayInv
<1> SUFFICES ASSUME Init
             PROVE  RelayInv
  OBVIOUS
<1>1. \A S : <<>> \in Seq(S)
  BY EmptySeq
<1>2. TypeOK
  <2>1. /\ accepted \in Seq(Messages)
        /\ pending \in [Sessions -> Seq(Positions)]
        /\ stream \in [Sessions -> Seq(Positions)]
    BY <1>1 DEF Init
  <2> QED
    BY <2>1 DEF Init, TypeOK, CallState, ApiState, SvcState
<1>3. HeldInv
  BY DEF Init, HeldInv
<1>4. SetOf(<<>>) = {} /\ Increasing(<<>>) /\ Held(0) = {}
  BY DEF SetOf, Increasing, Held
<1>5. PipelineInv
  BY <1>4, SessionsAssumption DEF Init, PipelineInv, Ordered, Precedes
<1>6. PublisherInv /\ RoutingInv
  BY <1>4 DEF Init, PublisherInv, RoutingInv
<1>7. AcceptedInv
  BY DEF Init, AcceptedInv, Positions
<1> QED
  BY <1>2, <1>3, <1>5, <1>6, <1>7 DEF RelayInv

\* What each part of a step does to the types, and to what is held.
LEMMA TypeStep == TypeOK /\ HeldInv /\ [Next]_vars => TypeOK' /\ HeldInv'
<1> SUFFICES ASSUME TypeOK, HeldInv, [Next]_vars
             PROVE  TypeOK' /\ HeldInv'
  OBVIOUS
<1> USE DEF TypeOK, HeldInv, CallState, ApiState, SvcState, Positions
<1>1. CASE Run
  BY <1>1 DEF Run, busVars, sessVars
<1>2. ASSUME NEW u \in UserIDs, RegisterUser(u) \/ RemoveUser(u)
      PROVE  TypeOK' /\ HeldInv'
  BY <1>2 DEF RegisterUser, RemoveUser, busVars, sessVars
<1>3. ASSUME NEW m \in Messages, Sending(m)
      PROVE  TypeOK' /\ HeldInv'
  <2>1. ASSUME NEW v \in BOOLEAN, Call(m, v)
        PROVE  TypeOK' /\ HeldInv'
    BY <2>1 DEF Call, busVars, sessVars
  <2>2. CASE StartSend(m)
    BY <2>2 DEF StartSend, busVars, sessVars
  <2>3. CASE Accept(m)
    <3>1. m.topic \in Topics
      BY MessagesAssumption
    <3>2. /\ accepted' \in Seq(Messages)
          /\ Len(accepted') = Len(accepted) + 1
      BY <2>3 DEF Accept
    <3>3. Positions \subseteq Positions'
      BY <3>2
    <3>4. pub' \in [Topics -> {0} \cup Positions']
      BY <2>3, <3>1, <3>2, <3>3 DEF Accept
    <3>5. /\ pending' \in [Sessions -> Seq(Positions')]
          /\ stream' \in [Sessions -> Seq(Positions')]
      BY <2>3, <3>3 DEF Accept, sessVars
    <3> QED
      BY <2>3, <3>2, <3>3, <3>4, <3>5 DEF Accept, sessVars
  <2> QED
    BY <1>3, <2>1, <2>2, <2>3 DEF Sending
<1>4. ASSUME NEW t \in Topics, Publisher(t)
      PROVE  TypeOK' /\ HeldInv'
  <2>1. CASE Publish(t)
    <3>1. /\ accepted' = accepted
          /\ pub[t] \in Positions
      BY <2>1 DEF Publish
    <3>2. \A s \in Sessions : Append(pending[s], pub[t]) \in Seq(Positions)
      BY <3>1
    <3>3. pending' \in [Sessions -> Seq(Positions)]
      BY <2>1, <3>2 DEF Publish
    <3> QED
      BY <2>1, <3>1, <3>3 DEF Publish, callVars, sessVars
  <2>2. CASE PublishFails(t)
    BY <2>2 DEF PublishFails, callVars, sessVars
  <2> QED
    BY <1>4, <2>1, <2>2 DEF Publisher
<1>5. ASSUME NEW s \in Sessions, Subscription(s)
      PROVE  TypeOK' /\ HeldInv'
  <2>1. CASE Authenticate(s)
    BY <2>1 DEF Authenticate, callVars, busVars
  <2>2. CASE Receive(s)
    <3>1. cb[s] \in Positions
      BY <2>2 DEF Receive
    <3>2. CASE accepted[cb[s]].to = s.user
      BY <2>2, <3>1, <3>2 DEF Receive, callVars, busVars
    <3>3. CASE accepted[cb[s]].to # s.user
      BY <2>2, <3>1, <3>3 DEF Receive, callVars, busVars
    <3> QED
      BY <3>2, <3>3
  <2>3. CASE ContextDone(s)
    BY <2>3 DEF ContextDone, callVars, busVars
  <2>4. CASE CloseCommands(s)
    BY <2>4 DEF CloseCommands, callVars, busVars
  <2>5. CASE CloseStream(s)
    BY <2>5 DEF CloseStream, callVars, busVars
  <2>6. CASE Forward(s)
    BY <2>6 DEF Forward, callVars, busVars
  <2> QED
    BY <1>5, <2>1, <2>2, <2>3, <2>4, <2>5, <2>6 DEF Subscription
<1>6. ASSUME NEW s \in Sessions, Callback(s)
      PROVE  TypeOK' /\ HeldInv'
  <2>1. CASE TakeMessage(s)
    <3>1. /\ Head(pending[s]) \in Positions
          /\ Tail(pending[s]) \in Seq(Positions)
      BY <2>1, HeadTailProperties DEF TakeMessage
    <3> QED
      BY <2>1, <3>1 DEF TakeMessage, callVars
  <2>2. CASE SendOnClosed(s)
    BY <2>2 DEF SendOnClosed, callVars, busVars, sessVars
  <2> QED
    BY <1>6, <2>1, <2>2 DEF Callback
<1>7. ASSUME NEW s \in Sessions, Handler(s)
      PROVE  TypeOK' /\ HeldInv'
  <2>1. CASE Ack(s)
    BY <2>1 DEF Ack, callVars, busVars
  <2>2. CASE Write(s)
    <3>1. Append(stream[s], svcHeld[s]) \in Seq(Positions)
      BY <2>2 DEF Write
    <3>2. stream' \in [Sessions -> Seq(Positions)]
      BY <2>2, <3>1 DEF Write
    <3> QED
      BY <2>2, <3>2 DEF Write, callVars, busVars
  <2>3. CASE WriteFails(s) \/ Return(s)
    <3>1. [pending EXCEPT ![s] = <<>>] \in [Sessions -> Seq(Positions)]
      BY EmptySeq
    <3> QED
      BY <2>3, <3>1 DEF WriteFails, Return, callVars
  <2> QED
    BY <1>7, <2>1, <2>2, <2>3 DEF Handler
<1>8. ASSUME NEW s \in Sessions, Client(s)
      PROVE  TypeOK' /\ HeldInv'
  BY <1>8 DEF Client, Open, OpenFails, Leave, Stall, callVars, busVars
<1>9. CASE UNCHANGED vars
  BY <1>9 DEF vars, callVars, busVars, sessVars
<1> QED
  BY <1>1, <1>2, <1>3, <1>4, <1>5, <1>6, <1>7, <1>8, <1>9 DEF Next

\* What the places of a stream hold are numbers, so that Moves applies.
LEMMA Places ==
    ASSUME TypeOK, NEW s \in Sessions
    PROVE  /\ s.topic \in Topics
           /\ stream[s] \in Seq(Nat) /\ pending[s] \in Seq(Nat)
           /\ svcHeld[s] \in Nat /\ apiHeld[s] \in Nat /\ cb[s] \in Nat
           /\ pub[s.topic] \in Nat
<1>1. s.topic \in Topics
  BY SessionsAssumption
<1>2. Positions \subseteq Nat
  BY DEF Positions
<1>3. /\ stream[s] \in Seq(Positions) /\ pending[s] \in Seq(Positions)
      /\ svcHeld[s] \in {0} \cup Positions
      /\ apiHeld[s] \in {0} \cup Positions
      /\ cb[s] \in {0} \cup Positions
      /\ pub[s.topic] \in {0} \cup Positions
  BY <1>1 DEF TypeOK
<1>4. Seq(Positions) \subseteq Seq(Nat)
  BY <1>2, SeqMonotonic
<1>5. stream[s] \in Seq(Nat) /\ pending[s] \in Seq(Nat)
  BY <1>3, <1>4
<1>6. /\ svcHeld[s] \in Nat /\ apiHeld[s] \in Nat /\ cb[s] \in Nat
      /\ pub[s.topic] \in Nat
  <2>1. \A p \in {0} \cup Positions : p \in Nat
    BY <1>2
  <2> QED
    BY <1>3, <2>1, Zenon
<1> QED
  BY <1>1, <1>5, <1>6

\* No step puts two commands for a stream out of order.
LEMMA PipelineStep ==
    TypeOK /\ HeldInv /\ PipelineInv /\ [Next]_vars => PipelineInv'
<1> SUFFICES ASSUME TypeOK, HeldInv, PipelineInv, [Next]_vars,
                    NEW z \in Sessions
             PROVE  Ordered(stream[z], svcHeld[z], apiHeld[z], cb[z],
                            pending[z], pub[z.topic])'
  BY DEF PipelineInv
<1> DEFINE Z == Ordered(stream[z], svcHeld[z], apiHeld[z], cb[z], pending[z],
                        pub[z.topic])
<1>0. Z
  BY DEF PipelineInv
<1>m. /\ Ordered(stream[z], svcHeld[z], apiHeld[z], cb[z], pending[z], 0)
      /\ Ordered(stream[z], svcHeld[z], apiHeld[z], 0, pending[z],
                 pub[z.topic])
      /\ Ordered(stream[z], svcHeld[z], cb[z], 0, pending[z], pub[z.topic])
      /\ Ordered(stream[z], apiHeld[z], 0, cb[z], pending[z], pub[z.topic])
      /\ Ordered(stream[z], 0, apiHeld[z], cb[z], pending[z], pub[z.topic])
      /\ Ordered(stream[z], 0, apiHeld[z], cb[z], <<>>, pub[z.topic])
      /\ Ordered(stream[z], svcHeld[z], apiHeld[z], cb[z], <<>>,
                 pub[z.topic])
  BY <1>0, Places, Moves
<1>1. CASE Run
  BY <1>0, <1>1 DEF Run, busVars, sessVars
<1>2. ASSUME NEW u \in UserIDs, RegisterUser(u) \/ RemoveUser(u)
      PROVE  Z'
  BY <1>0, <1>2 DEF RegisterUser, RemoveUser, busVars, sessVars
<1>3. ASSUME NEW m \in Messages, Sending(m)
      PROVE  Z'
  <2>1. ASSUME NEW v \in BOOLEAN, Call(m, v)
        PROVE  Z'
    BY <1>0, <2>1 DEF Call, busVars, sessVars
  <2>2. CASE StartSend(m)
    BY <1>0, <2>2 DEF StartSend, busVars, sessVars
  <2>3. CASE Accept(m)
    <3>1. CASE z.topic = m.topic
      <4> DEFINE n == Len(accepted)
      <4>1. /\ n \in Nat
            /\ stream[z] \in Seq(1..n) /\ pending[z] \in Seq(1..n)
            /\ svcHeld[z] \in 0..n /\ apiHeld[z] \in 0..n /\ cb[z] \in 0..n
        BY DEF TypeOK, Positions
      <4>2. Ordered(stream[z], svcHeld[z], apiHeld[z], cb[z], pending[z],
                    n + 1)
        BY <1>m, <4>1, MoveToPublisher
      <4>3. pub'[z.topic] = n + 1
        BY <2>3, <3>1, Places DEF Accept, TypeOK
      <4> QED
        BY <2>3, <4>2, <4>3 DEF Accept, sessVars
    <3>2. CASE z.topic # m.topic
      <4>1. pub'[z.topic] = pub[z.topic]
        BY <2>3, <3>2, Places DEF Accept, TypeOK
      <4> QED
        BY <1>0, <2>3, <4>1 DEF Accept, sessVars
    <3> QED
      BY <3>1, <3>2
  <2> QED
    BY <1>3, <2>1, <2>2, <2>3 DEF Sending
<1>4. ASSUME NEW t \in Topics, Publisher(t)
      PROVE  Z'
  <2>1. CASE z.topic # t
    <3>1. pub'[z.topic] = pub[z.topic] /\ pending'[z] = pending[z]
      BY <1>4, <2>1, Places DEF Publisher, Publish, PublishFails, TypeOK
    <3> QED
      BY <1>0, <1>4, <3>1 DEF Publisher, Publish, PublishFails, sessVars
  <2>2. CASE z.topic = t
    <3>1. /\ pub'[z.topic] = 0
          /\ pub[z.topic] # 0
          /\ \/ pending'[z] = pending[z]
             \/ pending'[z] = Append(pending[z], pub[z.topic])
      BY <1>4, <2>2, Places DEF Publisher, Publish, PublishFails, TypeOK
    <3>2. Ordered(stream[z], svcHeld[z], apiHeld[z], cb[z],
                  Append(pending[z], pub[z.topic]), 0)
      BY <1>0, <3>1, Places, MoveToQueue
    <3> QED
      BY <1>m, <1>4, <3>1, <3>2 DEF Publisher, Publish, PublishFails, sessVars
  <2> QED
    BY <2>1, <2>2
<1>5. ASSUME NEW s \in Sessions, Subscription(s)
      PROVE  Z'
  <2>1. CASE z # s
    <3>1. /\ cb'[z] = cb[z]
          /\ apiHeld'[z] = apiHeld[z]
          /\ svcHeld'[z] = svcHeld[z]
          /\ stream'[z] = stream[z]
          /\ pending'[z] = pending[z]
          /\ pub' = pub
      BY <1>5, <2>1 DEF Subscription, Authenticate, Receive, ContextDone,
                        CloseCommands, CloseStream, Forward, busVars, TypeOK
    <3> QED
      BY <1>0, <3>1
  <2>2. CASE z = s /\ Receive(s)
    <3>1. /\ cb'[z] = 0
          /\ apiHeld'[z] \in {apiHeld[z], cb[z]}
          /\ svcHeld' = svcHeld /\ stream' = stream
          /\ pending' = pending /\ pub' = pub
      BY <2>2 DEF Receive, busVars, TypeOK
    <3> QED
      BY <1>m, <3>1
  <2>3. CASE z = s /\ Forward(s)
    <3>1. /\ apiHeld'[z] = 0
          /\ svcHeld'[z] = apiHeld[z]
          /\ cb' = cb /\ stream' = stream
          /\ pending' = pending /\ pub' = pub
      BY <2>3 DEF Forward, busVars, TypeOK
    <3> QED
      BY <1>m, <3>1
  <2>4. CASE \/ Authenticate(s) \/ ContextDone(s)
             \/ CloseCommands(s) \/ CloseStream(s)
    BY <1>0, <2>4 DEF Authenticate, ContextDone, CloseCommands, CloseStream,
                      busVars
  <2> QED
    BY <1>5, <2>1, <2>2, <2>3, <2>4 DEF Subscription
<1>6. ASSUME NEW s \in Sessions, Callback(s)
      PROVE  Z'
  <2>1. CASE TakeMessage(s) /\ z = s
    <3>1. /\ cb[z] = 0 /\ pending[z] # <<>>
          /\ cb'[z] = Head(pending[z])
          /\ pending'[z] = Tail(pending[z])
          /\ stream' = stream /\ svcHeld' = svcHeld
          /\ apiHeld' = apiHeld /\ pub' = pub
      BY <2>1 DEF TakeMessage, TypeOK
    <3>2. Ordered(stream[z], svcHeld[z], apiHeld[z], Head(pending[z]),
                  Tail(pending[z]), pub[z.topic])
      BY <1>m, <3>1, Places, MoveToCallback
    <3> QED
      BY <3>1, <3>2
  <2>2. CASE TakeMessage(s) /\ z # s
    BY <1>0, <2>2 DEF TakeMessage, TypeOK
  <2>3. CASE SendOnClosed(s)
    BY <1>0, <2>3 DEF SendOnClosed, busVars, sessVars
  <2> QED
    BY <1>6, <2>1, <2>2, <2>3 DEF Callback
<1>7. ASSUME NEW s \in Sessions, Handler(s)
      PROVE  Z'
  <2>1. CASE z # s
    <3>1. /\ svcHeld'[z] = svcHeld[z]
          /\ stream'[z] = stream[z]
          /\ pending'[z] = pending[z]
          /\ pub' = pub /\ cb' = cb /\ apiHeld' = apiHeld
      BY <1>7, <2>1 DEF Handler, Ack, Write, WriteFails, Return, busVars,
                        TypeOK
    <3> QED
      BY <1>0, <3>1
  <2>2. CASE Ack(s)
    BY <1>0, <2>2 DEF Ack, busVars
  <2>3. CASE z = s /\ Write(s)
    <3>1. /\ svcHeld[z] # 0
          /\ svcHeld'[z] = 0
          /\ stream'[z] \in {stream[z], Append(stream[z], svcHeld[z])}
          /\ pending' = pending /\ pub' = pub /\ cb' = cb
          /\ apiHeld' = apiHeld
      BY <2>3 DEF Write, busVars, TypeOK, HeldInv
    <3>2. Ordered(Append(stream[z], svcHeld[z]), 0, apiHeld[z], cb[z],
                  pending[z], pub[z.topic])
      BY <1>0, <3>1, Places, MoveToStream
    <3> QED
      BY <1>m, <3>1, <3>2
  <2>4. CASE z = s /\ WriteFails(s)
    <3>1. /\ svcHeld'[z] = 0 /\ pending'[z] = <<>>
          /\ stream' = stream /\ pub' = pub /\ cb' = cb
          /\ apiHeld' = apiHeld
      BY <2>4 DEF WriteFails, TypeOK
    <3> QED
      BY <1>m, <3>1
  <2>5. CASE z = s /\ Return(s)
    <3>1. /\ pending'[z] = <<>> /\ svcHeld' = svcHeld
          /\ stream' = stream /\ pub' = pub /\ cb' = cb
          /\ apiHeld' = apiHeld
      BY <2>5 DEF Return, TypeOK
    <3> QED
      BY <1>m, <3>1
  <2> QED
    BY <1>7, <2>1, <2>2, <2>3, <2>4, <2>5 DEF Handler
<1>8. ASSUME NEW s \in Sessions, Client(s)
      PROVE  Z'
  BY <1>0, <1>8 DEF Client, Open, OpenFails, Leave, Stall, busVars
<1>9. CASE UNCHANGED vars
  BY <1>0, <1>9 DEF vars, busVars, sessVars
<1> QED
  BY <1>1, <1>2, <1>3, <1>4, <1>5, <1>6, <1>7, <1>8, <1>9 DEF Next

\* A publisher receives the commands of its topic only.
LEMMA PublisherStep == TypeOK /\ PublisherInv /\ [Next]_vars => PublisherInv'
<1> SUFFICES ASSUME TypeOK, PublisherInv, [Next]_vars, NEW t \in Topics
             PROVE  \A p \in Held(pub'[t]) : accepted'[p].topic = t
  BY DEF PublisherInv
<1>0. \A p \in Held(pub[t]) : accepted[p].topic = t
  BY DEF PublisherInv
<1>1. ASSUME NEW m \in Messages, Accept(m)
      PROVE  \A p \in Held(pub'[t]) : accepted'[p].topic = t
  <2>1. /\ \A p \in Positions : accepted'[p] = accepted[p]
        /\ accepted'[Len(accepted')] = m
    BY <1>1 DEF Accept, TypeOK, Positions
  <2>2. CASE t = m.topic
    BY <1>1, <2>1, <2>2 DEF Accept, TypeOK, Held
  <2>3. CASE t # m.topic
    <3>1. pub'[t] = pub[t] /\ Held(pub[t]) \subseteq Positions
      BY <1>1, <2>3 DEF Accept, TypeOK, Held
    <3> QED
      BY <1>0, <2>1, <3>1
  <2> QED
    BY <2>2, <2>3
<1>2. ASSUME NEW r \in Topics, Publisher(r)
      PROVE  \A p \in Held(pub'[t]) : accepted'[p].topic = t
  <2>1. pub'[t] \in {0, pub[t]} /\ accepted' = accepted
    BY <1>2 DEF Publisher, Publish, PublishFails, TypeOK
  <2> QED
    BY <1>0, <2>1 DEF Held
<1>3. CASE \/ Run \/ UNCHANGED vars
           \/ \E u \in UserIDs : RegisterUser(u) \/ RemoveUser(u)
           \/ \E m \in Messages :
                 (\E tokenValid \in BOOLEAN : Call(m, tokenValid)) \/ StartSend(m)
  BY <1>0, <1>3 DEF Run, RegisterUser, RemoveUser, Call, StartSend, vars,
                    busVars
<1>4. ASSUME NEW s \in Sessions,
             Subscription(s) \/ Callback(s) \/ Handler(s) \/ Client(s)
      PROVE  \A p \in Held(pub'[t]) : accepted'[p].topic = t
  <2>1. pub' = pub /\ accepted' = accepted
    BY <1>4 DEF Subscription, Authenticate, Receive, ContextDone,
                CloseCommands, CloseStream, Forward, Callback, TakeMessage,
                SendOnClosed, Handler, Ack, Write, WriteFails, Return,
                Client, Open, OpenFails, Leave, Stall, busVars
  <2> QED
    BY <1>0, <2>1
<1> QED
  BY <1>1, <1>2, <1>3, <1>4 DEF Next, Sending

\* No step moves a command to a place it does not belong.
LEMMA RoutingStep ==
    TypeOK /\ HeldInv /\ PublisherInv /\ RoutingInv /\ [Next]_vars
        => RoutingInv'
<1> SUFFICES ASSUME TypeOK, HeldInv, PublisherInv, RoutingInv, [Next]_vars,
                    NEW z \in Sessions
             PROVE  /\ \A p \in (Held(cb[z]) \cup SetOf(pending[z]))' :
                          accepted'[p].topic = z.topic
                    /\ \A p \in (Held(apiHeld[z]) \cup Held(svcHeld[z])
                                      \cup SetOf(stream[z]))' :
                          accepted'[p].topic = z.topic /\ accepted'[p].to = z.user
  BY DEF RoutingInv
<1> DEFINE QueueOK == \A p \in Held(cb[z]) \cup SetOf(pending[z]) :
                            accepted[p].topic = z.topic
           FilterOK == \A p \in Held(apiHeld[z]) \cup Held(svcHeld[z])
                                      \cup SetOf(stream[z]) :
                            accepted[p].topic = z.topic /\ accepted[p].to = z.user
<1>0. QueueOK /\ FilterOK
  BY DEF RoutingInv
<1>h. Held(0) = {} /\ SetOf(<<>>) = {}
  BY DEF Held, SetOf
<1>1. CASE Run
  BY <1>0, <1>1 DEF Run, busVars, sessVars
<1>2. ASSUME NEW u \in UserIDs, RegisterUser(u) \/ RemoveUser(u)
      PROVE  QueueOK' /\ FilterOK'
  BY <1>0, <1>2 DEF RegisterUser, RemoveUser, busVars, sessVars
<1>3. ASSUME NEW m \in Messages, Sending(m)
      PROVE  QueueOK' /\ FilterOK'
  <2>1. ASSUME NEW v \in BOOLEAN, Call(m, v)
        PROVE  QueueOK' /\ FilterOK'
    BY <1>0, <2>1 DEF Call, busVars, sessVars
  <2>2. CASE StartSend(m)
    BY <1>0, <2>2 DEF StartSend, busVars, sessVars
  <2>3. CASE Accept(m)
    <3>1. /\ accepted \in Seq(Messages)
          /\ accepted' = Append(accepted, m)
      BY <2>3 DEF Accept, TypeOK
    <3>2. /\ \A p \in Positions : accepted'[p] = accepted[p]
          /\ accepted'[Len(accepted')] = m
      BY <3>1 DEF Positions
    <3>3. /\ Held(cb[z]) \cup SetOf(pending[z]) \subseteq Positions
          /\ Held(apiHeld[z]) \cup Held(svcHeld[z]) \cup SetOf(stream[z])
                \subseteq Positions
      BY DEF TypeOK, Held, SetOf
    <3> QED
      BY <1>0, <2>3, <3>2, <3>3 DEF Accept, sessVars
  <2> QED
    BY <1>3, <2>1, <2>2, <2>3 DEF Sending
<1>4. ASSUME NEW r \in Topics, Publisher(r)
      PROVE  QueueOK' /\ FilterOK'
  <2>1. accepted' = accepted
    BY <1>4 DEF Publisher, Publish, PublishFails
  <2>2. CASE pending'[z] = pending[z]
    BY <1>0, <1>4, <2>1, <2>2 DEF Publisher, Publish, PublishFails, sessVars
  <2>3. CASE pending'[z] # pending[z]
    <3>1. /\ z.topic = r
          /\ pub[r] # 0
          /\ pending'[z] = Append(pending[z], pub[r])
      BY <1>4, <2>3 DEF Publisher, Publish, PublishFails, TypeOK
    <3>2. SetOf(pending'[z]) = SetOf(pending[z]) \cup {pub[r]}
      BY <3>1, Places, AppendSetOf
    <3>3. accepted[pub[r]].topic = z.topic
      BY <3>1 DEF PublisherInv, Held
    <3> QED
      BY <1>0, <1>4, <2>1, <3>2, <3>3
         DEF Publisher, Publish, PublishFails, sessVars
  <2> QED
    BY <2>2, <2>3
<1>5. ASSUME NEW s \in Sessions, Subscription(s)
      PROVE  QueueOK' /\ FilterOK'
  <2>1. CASE z # s
    <3>1. /\ cb'[z] = cb[z] /\ apiHeld'[z] = apiHeld[z]
          /\ svcHeld'[z] = svcHeld[z] /\ stream' = stream
          /\ pending' = pending /\ pub' = pub /\ accepted' = accepted
      BY <1>5, <2>1 DEF Subscription, Authenticate, Receive, ContextDone,
                        CloseCommands, CloseStream, Forward, busVars, TypeOK
    <3> QED
      BY <1>0, <3>1
  <2>2. CASE z = s /\ Receive(s)
    <3>1. /\ cb'[z] = 0 /\ cb[z] # 0
          /\ \/ apiHeld'[z] = apiHeld[z]
             \/ apiHeld'[z] = cb[z] /\ accepted[cb[z]].to = z.user
          /\ svcHeld' = svcHeld /\ stream' = stream
          /\ pending' = pending /\ pub' = pub /\ accepted' = accepted
      BY <2>2 DEF Receive, busVars, TypeOK
    <3>2. Held(cb[z]) = {cb[z]}
      BY <3>1 DEF Held
    <3> QED
      BY <1>0, <1>h, <3>1, <3>2
  <2>3. CASE z = s /\ Forward(s)
    <3>1. /\ apiHeld'[z] = 0
          /\ svcHeld'[z] = apiHeld[z]
          /\ cb' = cb /\ stream' = stream
          /\ pending' = pending /\ pub' = pub /\ accepted' = accepted
      BY <2>3 DEF Forward, busVars, TypeOK
    <3> QED
      BY <1>0, <1>h, <3>1
  <2>4. CASE \/ Authenticate(s) \/ ContextDone(s)
             \/ CloseCommands(s) \/ CloseStream(s)
    BY <1>0, <2>4 DEF Authenticate, ContextDone, CloseCommands, CloseStream,
                      busVars
  <2> QED
    BY <1>5, <2>1, <2>2, <2>3, <2>4 DEF Subscription
<1>6. ASSUME NEW s \in Sessions, Callback(s)
      PROVE  QueueOK' /\ FilterOK'
  <2>1. CASE TakeMessage(s) /\ z = s
    <3>1. /\ cb'[z] = Head(pending[z]) /\ pending'[z] = Tail(pending[z])
          /\ pending[z] # <<>>
          /\ stream' = stream /\ svcHeld' = svcHeld
          /\ apiHeld' = apiHeld /\ pub' = pub /\ accepted' = accepted
      BY <2>1 DEF TakeMessage, TypeOK
    <3>2. /\ Head(pending[z]) \in SetOf(pending[z])
          /\ SetOf(Tail(pending[z])) \subseteq SetOf(pending[z])
      BY <3>1, Places, TakeHeadSetOf
    <3>3. Held(cb'[z]) \subseteq {Head(pending[z])}
      BY <3>1 DEF Held
    <3> QED
      BY <1>0, <3>1, <3>2, <3>3
  <2>2. CASE TakeMessage(s) /\ z # s
    BY <1>0, <2>2 DEF TakeMessage, TypeOK
  <2>3. CASE SendOnClosed(s)
    BY <1>0, <2>3 DEF SendOnClosed, busVars, sessVars
  <2> QED
    BY <1>6, <2>1, <2>2, <2>3 DEF Callback
<1>7. ASSUME NEW s \in Sessions, Handler(s)
      PROVE  QueueOK' /\ FilterOK'
  <2>1. CASE z # s
    <3>1. /\ svcHeld'[z] = svcHeld[z] /\ stream'[z] = stream[z]
          /\ pending'[z] = pending[z]
          /\ pub' = pub /\ cb' = cb /\ apiHeld' = apiHeld
          /\ accepted' = accepted
      BY <1>7, <2>1 DEF Handler, Ack, Write, WriteFails, Return, busVars,
                        TypeOK
    <3> QED
      BY <1>0, <3>1
  <2>2. CASE z = s
    <3>1. /\ svcHeld'[z] \in {0, svcHeld[z]}
          /\ pending'[z] \in {<<>>, pending[z]}
          /\ pub' = pub /\ cb' = cb /\ apiHeld' = apiHeld
          /\ accepted' = accepted
      BY <1>7, <2>2 DEF Handler, Ack, Write, WriteFails, Return, busVars,
                        TypeOK
    <3>2. CASE stream'[z] = stream[z]
      BY <1>0, <1>h, <3>1, <3>2
    <3>3. CASE stream'[z] # stream[z]
      <4>1. /\ svcHeld[z] # 0
            /\ stream'[z] = Append(stream[z], svcHeld[z])
        BY <1>7, <2>2, <3>3 DEF Handler, Ack, Write, WriteFails, Return,
                                TypeOK, HeldInv
      <4>2. SetOf(stream'[z]) = SetOf(stream[z]) \cup Held(svcHeld[z])
        BY <4>1, Places, AppendSetOf DEF Held
      <4> QED
        BY <1>0, <1>h, <3>1, <4>2
    <3> QED
      BY <3>2, <3>3
  <2> QED
    BY <2>1, <2>2
<1>8. ASSUME NEW s \in Sessions, Client(s)
      PROVE  QueueOK' /\ FilterOK'
  BY <1>0, <1>8 DEF Client, Open, OpenFails, Leave, Stall, busVars
<1>9. CASE UNCHANGED vars
  BY <1>0, <1>9 DEF vars, busVars, sessVars
<1> QED
  BY <1>1, <1>2, <1>3, <1>4, <1>5, <1>6, <1>7, <1>8, <1>9 DEF Next

\* A command is accepted by the call that sends it, once.
LEMMA AcceptedStep == TypeOK /\ AcceptedInv /\ [Next]_vars => AcceptedInv'
<1> SUFFICES ASSUME TypeOK, AcceptedInv, [Next]_vars
             PROVE  AcceptedInv'
  OBVIOUS
<1>0. \A i \in Positions : accepted[i] \in Messages /\ call[accepted[i]] = "returned"
  BY DEF TypeOK, AcceptedInv, Positions
<1>1. ASSUME NEW m \in Messages, Accept(m)
      PROVE  AcceptedInv'
  <2>1. /\ Positions' = Positions \cup {Len(accepted')}
        /\ \A i \in Positions : accepted'[i] = accepted[i]
        /\ accepted'[Len(accepted')] = m
    BY <1>1 DEF Accept, TypeOK, Positions
  <2>2. \A n \in Messages : call[n] = "returned" \/ n = m => call'[n] = "returned"
    BY <1>1 DEF Accept, TypeOK
  <2> QED
    BY <1>0, <2>1, <2>2 DEF AcceptedInv
<1>2. ASSUME NEW m \in Messages,
             (\E tokenValid \in BOOLEAN : Call(m, tokenValid)) \/ StartSend(m)
      PROVE  AcceptedInv'
  <2>1. \A n \in Messages : call[n] = "returned" => call'[n] = "returned"
    BY <1>2 DEF Call, StartSend, TypeOK
  <2>2. accepted' = accepted
    BY <1>2 DEF Call, StartSend, busVars
  <2> QED
    BY <1>0, <2>1, <2>2 DEF AcceptedInv, Positions
<1>3. ASSUME \/ Run \/ UNCHANGED vars
             \/ \E u \in UserIDs : RegisterUser(u) \/ RemoveUser(u)
             \/ \E t \in Topics : Publisher(t)
             \/ \E s \in Sessions :
                   Subscription(s) \/ Callback(s) \/ Handler(s) \/ Client(s)
      PROVE  AcceptedInv'
  <2>1. call' = call /\ accepted' = accepted
    BY <1>3 DEF Run, RegisterUser, RemoveUser, Publisher, Publish,
                PublishFails, Subscription, Authenticate, Receive,
                ContextDone, CloseCommands, CloseStream, Forward, Callback,
                TakeMessage, SendOnClosed, Handler, Ack, Write, WriteFails,
                Return, Client, Open, OpenFails, Leave, Stall, vars, callVars,
                busVars
  <2> QED
    BY <2>1 DEF AcceptedInv, Positions
<1> QED
  BY <1>1, <1>2, <1>3 DEF Next, Sending

\* RelayInv is an invariant: the order of the pipeline needs the types and the
\* held commands, routing needs the publishers, and no part needs fairness.
THEOREM RelayInvariant == Spec => []RelayInv
<1>1. RelayInv /\ [Next]_vars => RelayInv'
  BY TypeStep, PipelineStep, PublisherStep, RoutingStep, AcceptedStep
     DEF RelayInv
<1> QED
  BY <1>1, InitRelayInv, PTL DEF Spec

\* Every variable keeps its type; in particular a stream never carries the
\* zero value a closed channel hands out.
THEOREM TypeCorrect == Spec => []TypeOK
<1>1. RelayInv => TypeOK
  BY DEF RelayInv
<1> QED
  BY <1>1, RelayInvariant, PTL

\* Streams carry commands in the order in which they were accepted, and none
\* twice, however many clients, commands and streams there are.
THEOREM InOrder == Spec => []DeliveredInOrder
<1>1. RelayInv => DeliveredInOrder
  BY DEF RelayInv, PipelineInv, Ordered, Increasing, DeliveredInOrder
<1> QED
  BY <1>1, RelayInvariant, PTL

\* No stream carries a command of another topic or for another user.
THEOREM ToAddressee == Spec => []DeliveredToAddressee
<1>1. RelayInv => DeliveredToAddressee
  BY DEF RelayInv, RoutingInv, SetOf, DeliveredToAddressee
<1> QED
  BY <1>1, RelayInvariant, PTL

-----------------------------------------------------------------------------
(* The goroutines of a stream.                                             *)

\* The steps that concern one stream.
StreamStep(s) == Subscription(s) \/ Callback(s) \/ Handler(s) \/ Client(s)

\* A step of one stream leaves the goroutines of the others where they are.
LEMMA OnlyOneStream ==
    ASSUME TypeOK, NEW s \in Sessions, StreamStep(s)
    PROVE  \A t \in Sessions \ {s} :
              /\ svc'[t] = svc[t] /\ api'[t] = api[t] /\ cb'[t] = cb[t]
              /\ errc'[t] = errc[t] /\ gone'[t] = gone[t]
              /\ acked'[t] = acked[t] /\ stream'[t] = stream[t]
BY DEF TypeOK, StreamStep, Subscription, Authenticate, Receive, ContextDone,
       CloseCommands, CloseStream, Forward, Callback, TakeMessage, SendOnClosed,
       Handler, Ack, Write, WriteFails, Return, Client, Open, OpenFails,
       Leave, Stall, sessVars, busVars, callVars

\* The acknowledgement, for the stream that takes the step.
LEMMA AckStep ==
    ASSUME TypeOK, AckInv, AckFirst, NEW s \in Sessions, s.topic = "sdp",
           StreamStep(s)
    PROVE  /\ svc'[s] \in {"idle", "ack"} => stream'[s] = <<>>
           /\ svc'[s] \in {"range", "write"} => acked'[s] \/ gone'[s]
           /\ stream'[s] # <<>> => acked'[s]
<1> USE DEF TypeOK, AckInv, AckFirst, busVars, callVars, sessVars
<1>1. CASE Subscription(s)
  BY <1>1 DEF Subscription, Authenticate, Receive, ContextDone, CloseCommands,
              CloseStream, Forward
<1>2. CASE Callback(s)
  BY <1>2 DEF Callback, TakeMessage, SendOnClosed
<1>3. CASE Ack(s) \/ Client(s)
  BY <1>3 DEF Ack, Client, Open, OpenFails, Leave, Stall
<1>4. CASE Write(s)
  BY <1>4 DEF Write
<1>5. CASE WriteFails(s) \/ Return(s)
  BY <1>5 DEF WriteFails, Return
<1> QED
  BY <1>1, <1>2, <1>3, <1>4, <1>5 DEF StreamStep, Handler

\* How the goroutines of the stream that takes the step stand afterwards.
LEMMA TeardownStep ==
    ASSUME TypeOK, TeardownInv, StrandedOnlyIfGone, NEW s \in Sessions,
           StreamStep(s)
    PROVE  /\ svc'[s] = "idle" => api'[s] = "none"
           /\ api'[s] \in {"exit", "closing", "done"} => gone'[s] \/ errc'[s]
           /\ svc'[s] = "returned" /\ api'[s] \notin {"none", "done"} => gone'[s]
<1> USE DEF TypeOK, TeardownInv, StrandedOnlyIfGone, busVars, callVars, sessVars
<1>1. CASE Authenticate(s) \/ Receive(s) \/ ContextDone(s)
  BY <1>1 DEF Authenticate, Receive, ContextDone
<1>2. CASE CloseCommands(s) \/ CloseStream(s) \/ Forward(s)
  BY <1>2 DEF CloseCommands, CloseStream, Forward
<1>3. CASE Callback(s)
  BY <1>3 DEF Callback, TakeMessage, SendOnClosed
<1>4. CASE Handler(s)
  BY <1>4 DEF Handler, Ack, Write, WriteFails, Return
<1>5. CASE Client(s)
  BY <1>5 DEF Client, Open, OpenFails, Leave, Stall
<1> QED
  BY <1>1, <1>2, <1>3, <1>4, <1>5 DEF StreamStep, Subscription

\* A panic is a callback's that sends on a closed channel.
LEMMA PanicStep ==
    ASSUME TypeOK, TeardownInv, alive, Next, ~alive'
    PROVE  CrashOnlyAtTeardown'
<1>1. PICK s \in Sessions : SendOnClosed(s)
  BY DEF Next, Run, RegisterUser, RemoveUser, Sending, Call, StartSend, Accept,
         Publisher, Publish, PublishFails, Subscription, Authenticate, Receive,
         ContextDone, CloseCommands, CloseStream, Forward, Callback,
         TakeMessage, Handler, Ack, Write, WriteFails, Return, Client, Open,
         OpenFails, Leave, Stall
<1>2. cb[s] # 0 /\ CommandsClosed(s) /\ (gone[s] \/ errc[s])
  BY <1>1 DEF TeardownInv, SendOnClosed, CommandsClosed
<1> QED
  BY <1>1, <1>2 DEF CrashOnlyAtTeardown, CommandsClosed, SendOnClosed, sessVars

\* StreamInv is inductive, given the types.
LEMMA StreamInvStep == TypeOK /\ StreamInv /\ [Next]_vars => StreamInv'
<1> SUFFICES ASSUME TypeOK, StreamInv, [Next]_vars
             PROVE  StreamInv'
  OBVIOUS
<1>1. CASE UNCHANGED sessVars
  <2>1. AckInv' /\ TeardownInv' /\ AckFirst' /\ StrandedOnlyIfGone'
    BY <1>1 DEF StreamInv, AckInv, TeardownInv, AckFirst, StrandedOnlyIfGone,
                sessVars
  <2>2. CASE alive' = alive
    BY <1>1, <2>1, <2>2 DEF StreamInv, CrashOnlyAtTeardown, CommandsClosed,
                            sessVars
  <2>3. CASE alive /\ ~alive'
    BY <2>1, <2>3, PanicStep DEF StreamInv, vars
  <2>4. alive' = alive \/ (alive /\ ~alive')
    BY DEF TypeOK, Next, vars, Run, RegisterUser, RemoveUser, Sending, Call, StartSend, Accept,
         Publisher, Publish, PublishFails, Subscription, Authenticate, Receive,
         ContextDone, CloseCommands, CloseStream, Forward, Callback, SendOnClosed,
         TakeMessage, Handler, Ack, Write, WriteFails, Return, Client, Open,
         OpenFails, Leave, Stall
  <2> QED
    BY <2>2, <2>3, <2>4
<1>2. ASSUME NEW s \in Sessions, alive, StreamStep(s)
      PROVE  StreamInv'
  <2>1. AckInv' /\ AckFirst'
    BY <1>2, AckStep, OnlyOneStream DEF StreamInv, AckInv, AckFirst
  <2>2. TeardownInv' /\ StrandedOnlyIfGone'
    BY <1>2, TeardownStep, OnlyOneStream DEF StreamInv, TeardownInv,
                                             StrandedOnlyIfGone
  <2>3. CASE SendOnClosed(s)
    BY <1>1, <2>3 DEF SendOnClosed
  <2>4. CASE ~SendOnClosed(s)
    <3>1. alive' = alive
      BY <1>2, <2>4 DEF StreamStep, Subscription, Authenticate, Receive,
           ContextDone, CloseCommands, CloseStream, Forward, Callback,
           TakeMessage, Handler, Ack, Write, WriteFails, Return, Client, Open,
           OpenFails, Leave, Stall
    <3> QED
      BY <1>2, <2>1, <2>2, <3>1 DEF StreamInv, CrashOnlyAtTeardown
  <2> QED
    BY <2>3, <2>4
<1>3. CASE \/ Run \/ UNCHANGED vars
           \/ \E u \in UserIDs : RegisterUser(u) \/ RemoveUser(u)
           \/ \E m \in Messages : Sending(m)
           \/ \E t \in Topics : Publisher(t)
  <2>1. UNCHANGED sessVars
    BY <1>3 DEF Run, RegisterUser, RemoveUser, Sending, Call, StartSend, Accept,
                Publisher, Publish, PublishFails, vars
  <2> QED
    BY <1>1, <2>1
<1> QED
  BY <1>2, <1>3 DEF Next, StreamStep

\* How far the goroutines of a stream can be apart, and what follows.
THEOREM StreamInvariant == Spec => []StreamInv
<1>1. Init => StreamInv
  BY DEF Init, StreamInv, AckInv, TeardownInv, AckFirst, CrashOnlyAtTeardown,
         StrandedOnlyIfGone
<1> QED
  BY <1>1, StreamInvStep, TypeCorrect, PTL DEF Spec

\* No command is carried on an SDP stream before its acknowledgement, though
\* the acknowledgement is written by the handler and commands come from two
\* other goroutines.
THEOREM AcknowledgedFirst == Spec => []AckFirst
<1>1. StreamInv => AckFirst
  BY DEF StreamInv
<1> QED
  BY <1>1, StreamInvariant, PTL

\* The process panics only where a stream is torn down.
THEOREM PanicOnlyAtTeardown == Spec => []CrashOnlyAtTeardown
<1>1. StreamInv => CrashOnlyAtTeardown
  BY DEF StreamInv
<1> QED
  BY <1>1, StreamInvariant, PTL

\* No subscription goroutine is left behind by a handler whose client stayed.
THEOREM StrandedOnlyWithoutClient == Spec => []StrandedOnlyIfGone
<1>1. StreamInv => StrandedOnlyIfGone
  BY DEF StreamInv
<1> QED
  BY <1>1, StreamInvariant, PTL

-----------------------------------------------------------------------------
(* The relay implements the mailbox.                                       *)

\* A step that leaves the accepted commands and the streams alone stutters.
LEMMA Silent ==
    ASSUME accepted' = accepted, stream' = stream
    PROVE  [Abstract!Next]_(Abstract!vars)
BY DEF Abstract!vars

\* Receiving a command from its caller accepts it in the mailbox.
LEMMA AcceptImplements ==
    ASSUME RelayInv, NEW m \in Messages, Accept(m)
    PROVE  Abstract!Next
<1>1. \A i \in 1..Len(accepted) : accepted[i] # m
  BY DEF RelayInv, AcceptedInv, Positions, Accept
<1>2. Abstract!Accept(m)
  BY <1>1 DEF Abstract!Accept, Accept, sessVars
<1> QED
  BY <1>2 DEF Abstract!Next

\* Writing to a client that is still there delivers in the mailbox.
LEMMA WriteImplements ==
    ASSUME RelayInv, NEW s \in Sessions, Write(s)
    PROVE  [Abstract!Next]_(Abstract!vars)
<1> DEFINE i == svcHeld[s]
<1>1. i \in 1..Len(accepted) /\ i \in Held(svcHeld[s])
  BY DEF RelayInv, TypeOK, HeldInv, Held, Positions, Write
<1>2. accepted[i].to = s.user /\ accepted[i].topic = s.topic
  BY <1>1 DEF RelayInv, RoutingInv
<1>3. \A k \in 1..Len(stream[s]) : stream[s][k] < i
  BY <1>1 DEF RelayInv, PipelineInv, Ordered, Precedes, SetOf
<1>4. CASE gone[s]
  BY <1>4, Silent DEF Write, busVars
<1>5. CASE ~gone[s]
  <2>1. Abstract!Deliver(s, i)
    BY <1>2, <1>3, <1>5 DEF Abstract!Deliver, Write, busVars
  <2> QED
    BY <1>1, <2>1 DEF Abstract!Next
<1> QED
  BY <1>4, <1>5

\* Everything else is invisible: losing, dropping, closing, leaving, crashing.
THEOREM Refinement == Spec => ImplementsMailbox
<1>1. Init => Abstract!Init
  BY DEF Init, Abstract!Init
<1>2. RelayInv /\ [Next]_vars => [Abstract!Next]_(Abstract!vars)
  <2> SUFFICES ASSUME RelayInv, [Next]_vars
               PROVE  [Abstract!Next]_(Abstract!vars)
    OBVIOUS
  <2>1. ASSUME NEW m \in Messages, Accept(m)
        PROVE  [Abstract!Next]_(Abstract!vars)
    BY <2>1, AcceptImplements
  <2>2. ASSUME NEW s \in Sessions, Write(s)
        PROVE  [Abstract!Next]_(Abstract!vars)
    BY <2>2, WriteImplements
  <2>3. ASSUME \/ Run \/ UNCHANGED vars
               \/ \E u \in UserIDs : RegisterUser(u) \/ RemoveUser(u)
               \/ \E m \in Messages :
                     \/ \E tokenValid \in BOOLEAN : Call(m, tokenValid)
                     \/ StartSend(m)
               \/ \E t \in Topics : Publisher(t)
               \/ \E s \in Sessions :
                     \/ Subscription(s) \/ Callback(s) \/ Client(s)
                     \/ Ack(s) \/ WriteFails(s) \/ Return(s)
        PROVE  [Abstract!Next]_(Abstract!vars)
    <3>1. accepted' = accepted /\ stream' = stream
      BY <2>3 DEF Run, RegisterUser, RemoveUser, Call, StartSend, Publisher,
                  Publish, PublishFails, Subscription, Authenticate, Receive,
                  ContextDone, CloseCommands, CloseStream, Forward, Callback,
                  TakeMessage, SendOnClosed, Ack, WriteFails, Return, Client,
                  Open, OpenFails, Leave, Stall, vars, busVars, sessVars
    <3> QED
      BY <3>1, Silent
  <2> QED
    BY <2>1, <2>2, <2>3 DEF Next, Sending, Handler
<1> QED
  BY <1>1, <1>2, RelayInvariant, PTL DEF Spec, ImplementsMailbox, Abstract!Spec
=============================================================================
