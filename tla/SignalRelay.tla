---------------------------- MODULE SignalRelay ----------------------------
(***************************************************************************)
(* The path of an SDP command or an ICE candidate through one signalling   *)
(* process: the unary call of the sending peer (OfferSDP, AnswerSDP,       *)
(* SendICECandidate), the publisher goroutine of the topic, NATS, and the  *)
(* three goroutines that serve a subscribed stream:                        *)
(*                                                                         *)
(*   cb    the NATS callback of the stream's subscription,                 *)
(*   api   Signaling.SubscribeSDPCommand / SubscribeICECandidate,          *)
(*   svc   the gRPC handler, which writes to the client.                   *)
(*                                                                         *)
(* All channels are unbuffered: a hand-over is one step of two goroutines. *)
(* A command in flight is named by its position in accepted, the sequence  *)
(* of the commands the publishers received; 0 stands for no command.       *)
(***************************************************************************)
EXTENDS Naturals, Sequences

CONSTANTS
    UserIDs,        \* ids a user row can have
    Messages,       \* the calls peers make: [id, topic, from, to]
    Sessions,       \* the streams peers open: [id, topic, user]
    PendingLimit    \* messages NATS keeps for a subscription before it drops

Topics == {"sdp", "ice"}

ASSUME MessagesAssumption ==
    \A m \in Messages :
        m.topic \in Topics /\ m.from \in UserIDs /\ m.to \in UserIDs

ASSUME SessionsAssumption ==
    \A s \in Sessions : s.topic \in Topics /\ s.user \in UserIDs

ASSUME PendingLimitAssumption == PendingLimit \in Nat \ {0}

VARIABLES
    alive,      \* FALSE once a goroutine has panicked
    wired,      \* Run has set the channels and started the publishers
    users,      \* ids of the user rows in the database
    call,       \* call[m]: where the unary call that sends m is
    accepted,   \* commands received by the publishers, in order
    pub,        \* pub[t]: the command the publisher of topic t holds
    pending,    \* pending[s]: commands NATS queues for the subscription of s
    cb,         \* cb[s]: the command the NATS callback of s offers
    api,        \* api[s]: where the subscription goroutine is
    apiHeld,    \* apiHeld[s]: the command that goroutine offers to the handler
    svc,        \* svc[s]: where the gRPC handler is
    svcHeld,    \* svcHeld[s]: the command the handler is writing
    errc,       \* errc[s]: the subscription goroutine ended with an error
    gone,       \* gone[s]: the client has left, the stream's context is done
    stalled,    \* stalled[s]: the client has stopped reading
    acked,      \* acked[s]: the empty SDP that opens an SDP stream was carried
    stream      \* stream[s]: the commands the client of s was sent

callVars == <<wired, users, call>>
busVars  == <<accepted, pub, pending>>
sessVars == <<cb, api, apiHeld, svc, svcHeld, errc, gone, stalled, acked,
              stream>>
vars     == <<alive, callVars, busVars, sessVars>>

CallState == {"idle", "found", "sending", "stuck", "returned", "refused"}
ApiState  == {"none", "auth", "select", "send", "exit", "closing", "done"}
SvcState  == {"idle", "ack", "range", "write", "returned"}

Positions == 1..Len(accepted)

\* The deferred Unsubscribe runs when the handler returns.
Subscribed(s) == svc[s] \in {"ack", "range", "write"}

CommandsClosed(s) == api[s] \in {"closing", "done"}

Init ==
    /\ alive = TRUE
    /\ wired = FALSE
    /\ users = UserIDs
    /\ call = [m \in Messages |-> "idle"]
    /\ accepted = <<>>
    /\ pub = [t \in Topics |-> 0]
    /\ pending = [s \in Sessions |-> <<>>]
    /\ cb = [s \in Sessions |-> 0]
    /\ api = [s \in Sessions |-> "none"]
    /\ apiHeld = [s \in Sessions |-> 0]
    /\ svc = [s \in Sessions |-> "idle"]
    /\ svcHeld = [s \in Sessions |-> 0]
    /\ errc = [s \in Sessions |-> FALSE]
    /\ gone = [s \in Sessions |-> FALSE]
    /\ stalled = [s \in Sessions |-> FALSE]
    /\ acked = [s \in Sessions |-> FALSE]
    /\ stream = [s \in Sessions |-> <<>>]

-----------------------------------------------------------------------------
(* The environment: room management, and clients.                          *)

\* The room manager inserts a user row.
RegisterUser(u) ==
    /\ u \notin users
    /\ users' = users \cup {u}
    /\ UNCHANGED <<alive, wired, call, busVars, sessVars>>

\* The room manager deletes a user row.  Streams already open are not told.
RemoveUser(u) ==
    /\ u \in users
    /\ users' = users \ {u}
    /\ UNCHANGED <<alive, wired, call, busVars, sessVars>>

\* The client cancels the stream or its connection breaks.
Leave(s) ==
    /\ Subscribed(s)
    /\ ~gone[s]
    /\ gone' = [gone EXCEPT ![s] = TRUE]
    /\ UNCHANGED <<alive, callVars, busVars, cb, api, apiHeld, svc, svcHeld,
                   errc, stalled, acked, stream>>

\* The client stays and reads no more, and flow control makes srv.Send wait.
Stall(s) ==
    /\ Subscribed(s)
    /\ ~gone[s]
    /\ ~stalled[s]
    /\ stalled' = [stalled EXCEPT ![s] = TRUE]
    /\ UNCHANGED <<alive, callVars, busVars, cb, api, apiHeld, svc, svcHeld,
                   errc, gone, acked, stream>>

-----------------------------------------------------------------------------
(* Sending.                                                                *)

\* Run is started with go, next to Listen and Serve, and sets the channels.
Run ==
    /\ ~wired
    /\ wired' = TRUE
    /\ UNCHANGED <<alive, users, call, busVars, sessVars>>

\* SetUserContext, then GetUserContext: a bad token or a missing row refuses.
Call(m, tokenValid) ==
    /\ call[m] = "idle"
    /\ call' = [call EXCEPT ![m] = IF tokenValid /\ m.from \in users
                                   THEN "found" ELSE "refused"]
    /\ UNCHANGED <<alive, wired, users, busVars, sessVars>>

\* The channel is read when the send starts: before Run it is nil, and a send
\* on a nil channel never ends.
StartSend(m) ==
    /\ call[m] = "found"
    /\ call' = [call EXCEPT ![m] = IF wired THEN "sending" ELSE "stuck"]
    /\ UNCHANGED <<alive, wired, users, busVars, sessVars>>

\* Faulty variant: the call sends its command again once it was received.
AcceptAndRetry(m) ==
    /\ call[m] = "sending"
    /\ pub[m.topic] = 0
    /\ Len(accepted) <= PendingLimit
    /\ accepted' = Append(accepted, m)
    /\ pub' = [pub EXCEPT ![m.topic] = Len(accepted')]
    /\ UNCHANGED <<alive, wired, users, call, pending, sessVars>>

\* Faulty variant: there is a publisher only while somebody is subscribed.
AcceptIfHeard(m) ==
    /\ call[m] = "sending"
    /\ pub[m.topic] = 0
    /\ \E s \in Sessions : s.topic = m.topic /\ Subscribed(s)
    /\ call' = [call EXCEPT ![m] = "returned"]
    /\ accepted' = Append(accepted, m)
    /\ pub' = [pub EXCEPT ![m.topic] = Len(accepted')]
    /\ UNCHANGED <<alive, wired, users, pending, sessVars>>

\* The publisher's range loop receives the command and the call returns.
Accept(m) ==
    /\ call[m] = "sending"
    /\ pub[m.topic] = 0
    /\ call' = [call EXCEPT ![m] = "returned"]
    /\ accepted' = Append(accepted, m)
    /\ pub' = [pub EXCEPT ![m.topic] = Len(accepted')]
    /\ UNCHANGED <<alive, wired, users, pending, sessVars>>

\* Faulty variant: one subject for session descriptions and candidates.
PublishEverywhere(t) ==
    /\ pub[t] # 0
    /\ pending' = [s \in Sessions |->
                     IF Subscribed(s) /\ Len(pending[s]) < PendingLimit
                     THEN Append(pending[s], pub[t])
                     ELSE pending[s]]
    /\ pub' = [pub EXCEPT ![t] = 0]
    /\ UNCHANGED <<alive, callVars, accepted, sessVars>>

\* Nats.Publish: every live subscription of the topic whose queue has room.
Publish(t) ==
    /\ pub[t] # 0
    /\ pending' = [s \in Sessions |->
                     IF /\ Subscribed(s)
                        /\ s.topic = t
                        /\ Len(pending[s]) < PendingLimit
                     THEN Append(pending[s], pub[t])
                     ELSE pending[s]]
    /\ pub' = [pub EXCEPT ![t] = 0]
    /\ UNCHANGED <<alive, callVars, accepted, sessVars>>

\* Publish returns an error: it is logged and the command is lost.
PublishFails(t) ==
    /\ pub[t] # 0
    /\ pub' = [pub EXCEPT ![t] = 0]
    /\ UNCHANGED <<alive, callVars, accepted, pending, sessVars>>

-----------------------------------------------------------------------------
(* A subscribed stream.                                                    *)

\* Faulty variant: the SDP stream starts without the empty SDP.
OpenWithoutAck(s) ==
    /\ svc[s] = "idle"
    /\ svc' = [svc EXCEPT ![s] = "range"]
    /\ api' = [api EXCEPT ![s] = "auth"]
    /\ UNCHANGED <<alive, callVars, busVars, cb, apiHeld, svcHeld, errc, gone,
                   stalled, acked, stream>>

\* SetUserContext and the NATS subscription succeed; the api goroutine starts.
Open(s) ==
    /\ svc[s] = "idle"
    /\ svc' = [svc EXCEPT ![s] = IF s.topic = "sdp" THEN "ack" ELSE "range"]
    /\ api' = [api EXCEPT ![s] = "auth"]
    /\ UNCHANGED <<alive, callVars, busVars, cb, apiHeld, svcHeld, errc, gone,
                   stalled, acked, stream>>

\* The token is refused, or NATS refuses the subscription.
OpenFails(s) ==
    /\ svc[s] = "idle"
    /\ svc' = [svc EXCEPT ![s] = "returned"]
    /\ UNCHANGED <<alive, callVars, busVars, cb, api, apiHeld, svcHeld, errc,
                   gone, stalled, acked, stream>>

\* srv.Send(&protos.SDP{}), its error ignored.  The first message of a stream
\* does not wait for flow control.
Ack(s) ==
    /\ svc[s] = "ack"
    /\ svc' = [svc EXCEPT ![s] = "range"]
    /\ acked' = [acked EXCEPT ![s] = ~gone[s]]
    /\ UNCHANGED <<alive, callVars, busVars, cb, api, apiHeld, svcHeld, errc,
                   gone, stalled, stream>>

\* GetUserContext of the subscription: without a user row it ends at once.
Authenticate(s) ==
    /\ api[s] = "auth"
    /\ api' = [api EXCEPT ![s] = IF s.user \in users THEN "select" ELSE "exit"]
    /\ errc' = [errc EXCEPT ![s] = s.user \notin users]
    /\ UNCHANGED <<alive, callVars, busVars, cb, apiHeld, svc, svcHeld, gone,
                   stalled, acked, stream>>

\* Faulty variant: messages are taken as if by a pool of callbacks, any first.
TakeAnyMessage(s) ==
    /\ cb[s] = 0
    /\ \E k \in 1..Len(pending[s]) :
          /\ cb' = [cb EXCEPT ![s] = pending[s][k]]
          /\ pending' = [pending EXCEPT
                ![s] = SubSeq(@, 1, k - 1) \o SubSeq(@, k + 1, Len(@))]
    /\ UNCHANGED <<alive, callVars, accepted, pub, api, apiHeld, svc, svcHeld,
                   errc, gone, stalled, acked, stream>>

\* The NATS client runs the callback on the oldest queued message.
TakeMessage(s) ==
    /\ cb[s] = 0
    /\ pending[s] # <<>>
    /\ cb' = [cb EXCEPT ![s] = Head(pending[s])]
    /\ pending' = [pending EXCEPT ![s] = Tail(@)]
    /\ UNCHANGED <<alive, callVars, accepted, pub, api, apiHeld, svc, svcHeld,
                   errc, gone, stalled, acked, stream>>

\* Faulty variant: one's own commands are let through, not those one is sent.
ReceiveOwn(s) ==
    /\ api[s] = "select"
    /\ cb[s] # 0
    /\ cb' = [cb EXCEPT ![s] = 0]
    /\ IF accepted[cb[s]].from = s.user
       THEN /\ api' = [api EXCEPT ![s] = "send"]
            /\ apiHeld' = [apiHeld EXCEPT ![s] = cb[s]]
       ELSE UNCHANGED <<api, apiHeld>>
    /\ UNCHANGED <<alive, callVars, busVars, svc, svcHeld, errc, gone, stalled,
                   acked, stream>>

\* case command := <-commands.  A command for somebody else is skipped.
Receive(s) ==
    /\ api[s] = "select"
    /\ cb[s] # 0
    /\ cb' = [cb EXCEPT ![s] = 0]
    /\ IF accepted[cb[s]].to = s.user
       THEN /\ api' = [api EXCEPT ![s] = "send"]
            /\ apiHeld' = [apiHeld EXCEPT ![s] = cb[s]]
       ELSE UNCHANGED <<api, apiHeld>>
    /\ UNCHANGED <<alive, callVars, busVars, svc, svcHeld, errc, gone, stalled,
                   acked, stream>>

\* Faulty variant: the loop ends without being told to.
EndUnasked(s) ==
    /\ api[s] = "select"
    /\ api' = [api EXCEPT ![s] = "exit"]
    /\ UNCHANGED <<alive, callVars, busVars, cb, apiHeld, svc, svcHeld, errc,
                   gone, stalled, acked, stream>>

\* case <-ctx.Done()
ContextDone(s) ==
    /\ api[s] = "select"
    /\ gone[s]
    /\ api' = [api EXCEPT ![s] = "exit"]
    /\ UNCHANGED <<alive, callVars, busVars, cb, apiHeld, svc, svcHeld, errc,
                   gone, stalled, acked, stream>>

\* close(commands), while the subscription is still there.
CloseCommands(s) ==
    /\ api[s] = "exit"
    /\ api' = [api EXCEPT ![s] = "closing"]
    /\ UNCHANGED <<alive, callVars, busVars, cb, apiHeld, svc, svcHeld, errc,
                   gone, stalled, acked, stream>>

\* Faulty variant: the goroutine ends and sdps stays open.
CloseNothing(s) ==
    /\ api[s] = "closing"
    /\ UNCHANGED vars

\* close(sdps)
CloseStream(s) ==
    /\ api[s] = "closing"
    /\ api' = [api EXCEPT ![s] = "done"]
    /\ UNCHANGED <<alive, callVars, busVars, cb, apiHeld, svc, svcHeld, errc,
                   gone, stalled, acked, stream>>

\* The callback sends on the closed channel: the panic ends the process.
SendOnClosed(s) ==
    /\ cb[s] # 0
    /\ CommandsClosed(s)
    /\ alive' = FALSE
    /\ UNCHANGED <<callVars, busVars, sessVars>>

\* Faulty variant: sdps is closed before the loop has ended, and the range
\* statement hands out a zero value.
ForwardFromClosed(s) ==
    /\ api[s] \in {"send", "done"}
    /\ svc[s] = "range"
    /\ svcHeld' = [svcHeld EXCEPT ![s] = apiHeld[s]]
    /\ apiHeld' = [apiHeld EXCEPT ![s] = 0]
    /\ api' = [api EXCEPT ![s] = "select"]
    /\ svc' = [svc EXCEPT ![s] = "write"]
    /\ UNCHANGED <<alive, callVars, busVars, cb, errc, gone, stalled, acked,
                   stream>>

\* protoEvents <- sdp meets the range loop of the handler.
Forward(s) ==
    /\ api[s] = "send"
    /\ svc[s] = "range"
    /\ svcHeld' = [svcHeld EXCEPT ![s] = apiHeld[s]]
    /\ apiHeld' = [apiHeld EXCEPT ![s] = 0]
    /\ api' = [api EXCEPT ![s] = "select"]
    /\ svc' = [svc EXCEPT ![s] = "write"]
    /\ UNCHANGED <<alive, callVars, busVars, cb, errc, gone, stalled, acked,
                   stream>>

\* Faulty variant: a command that was written may be written again.
WriteAgain(s) ==
    /\ svc[s] = "write"
    /\ ~stalled[s]
    /\ stream' = IF gone[s] THEN stream
                 ELSE [stream EXCEPT ![s] = Append(@, svcHeld[s])]
    /\ \/ /\ svc' = [svc EXCEPT ![s] = "range"]
          /\ svcHeld' = [svcHeld EXCEPT ![s] = 0]
       \/ Len(stream[s]) < Len(accepted) /\ UNCHANGED <<svc, svcHeld>>
    /\ UNCHANGED <<alive, callVars, busVars, cb, api, apiHeld, errc, gone,
                   stalled, acked>>

\* srv.Send succeeds, unless the client reads no more.  Once the client has
\* left it may still succeed, into a transport that nobody reads.
Write(s) ==
    /\ svc[s] = "write"
    /\ ~stalled[s]
    /\ stream' = IF gone[s] THEN stream
                 ELSE [stream EXCEPT ![s] = Append(@, svcHeld[s])]
    /\ svc' = [svc EXCEPT ![s] = "range"]
    /\ svcHeld' = [svcHeld EXCEPT ![s] = 0]
    /\ UNCHANGED <<alive, callVars, busVars, cb, api, apiHeld, errc, gone,
                   stalled, acked>>

\* Faulty variant: the handler gives up on a client that is still there.
GiveUp(s) ==
    /\ svc[s] = "write"
    /\ svc' = [svc EXCEPT ![s] = "returned"]
    /\ svcHeld' = [svcHeld EXCEPT ![s] = 0]
    /\ pending' = [pending EXCEPT ![s] = <<>>]
    /\ UNCHANGED <<alive, callVars, accepted, pub, cb, api, apiHeld, errc,
                   gone, stalled, acked, stream>>

\* srv.Send fails, also one that waits for the client: the handler returns,
\* and unsubscribes as it does.
WriteFails(s) ==
    /\ svc[s] = "write"
    /\ gone[s]
    /\ svc' = [svc EXCEPT ![s] = "returned"]
    /\ svcHeld' = [svcHeld EXCEPT ![s] = 0]
    /\ pending' = [pending EXCEPT ![s] = <<>>]
    /\ UNCHANGED <<alive, callVars, accepted, pub, cb, api, apiHeld, errc,
                   gone, stalled, acked, stream>>

\* The range loop ends with the closed channel; the handler unsubscribes.
Return(s) ==
    /\ svc[s] = "range"
    /\ api[s] = "done"
    /\ svc' = [svc EXCEPT ![s] = "returned"]
    /\ pending' = [pending EXCEPT ![s] = <<>>]
    /\ UNCHANGED <<alive, callVars, accepted, pub, cb, api, apiHeld, svcHeld,
                   errc, gone, stalled, acked, stream>>

-----------------------------------------------------------------------------
Sending(m) ==
    \/ \E tokenValid \in BOOLEAN : Call(m, tokenValid)
    \/ StartSend(m)
    \/ Accept(m)

Publisher(t) == Publish(t) \/ PublishFails(t)

Subscription(s) ==
    \/ Authenticate(s) \/ Receive(s) \/ ContextDone(s)
    \/ CloseCommands(s) \/ CloseStream(s) \/ Forward(s)

Callback(s) == TakeMessage(s) \/ SendOnClosed(s)

Handler(s) == Ack(s) \/ Write(s) \/ WriteFails(s) \/ Return(s)

Client(s) == Open(s) \/ OpenFails(s) \/ Leave(s) \/ Stall(s)

Next ==
    /\ alive
    /\ \/ Run
       \/ \E u \in UserIDs : RegisterUser(u) \/ RemoveUser(u)
       \/ \E m \in Messages : Sending(m)
       \/ \E t \in Topics : Publisher(t)
       \/ \E s \in Sessions :
             Subscription(s) \/ Callback(s) \/ Handler(s) \/ Client(s)

Spec == Init /\ [][Next]_vars

\* The Go scheduler runs every goroutine that can run; peers, who may stop to
\* read at any moment, and the room manager are under no obligation.
Fairness ==
    /\ WF_vars(alive /\ Run)
    /\ \A m \in Messages : WF_vars(alive /\ (StartSend(m) \/ Accept(m)))
    /\ \A t \in Topics : WF_vars(alive /\ Publisher(t))
    /\ \A s \in Sessions :
          /\ WF_vars(alive /\ Subscription(s))
          /\ WF_vars(alive /\ Callback(s))
          /\ WF_vars(alive /\ Handler(s))

FairSpec == Spec /\ Fairness

-----------------------------------------------------------------------------
(* Safety.                                                                 *)

\* Every variable has its type; a position names an accepted command.
TypeOK ==
    /\ alive \in BOOLEAN
    /\ wired \in BOOLEAN
    /\ users \in SUBSET UserIDs
    /\ call \in [Messages -> CallState]
    /\ accepted \in Seq(Messages)
    /\ pub \in [Topics -> {0} \cup Positions]
    /\ pending \in [Sessions -> Seq(Positions)]
    /\ cb \in [Sessions -> {0} \cup Positions]
    /\ api \in [Sessions -> ApiState]
    /\ apiHeld \in [Sessions -> {0} \cup Positions]
    /\ svc \in [Sessions -> SvcState]
    /\ svcHeld \in [Sessions -> {0} \cup Positions]
    /\ errc \in [Sessions -> BOOLEAN]
    /\ gone \in [Sessions -> BOOLEAN]
    /\ stalled \in [Sessions -> BOOLEAN]
    /\ acked \in [Sessions -> BOOLEAN]
    /\ stream \in [Sessions -> Seq(Positions)]

\* A stream carries commands in the order in which they were accepted, none
\* twice, across the publisher, NATS, the callback and two goroutines.
DeliveredInOrder ==
    \A s \in Sessions : \A i, j \in 1..Len(stream[s]) :
        i < j => stream[s][i] < stream[s][j]

\* A stream carries only commands of its topic that are addressed to its user.
DeliveredToAddressee ==
    \A s \in Sessions : \A i \in 1..Len(stream[s]) :
        LET m == accepted[stream[s][i]]
        IN  m.to = s.user /\ m.topic = s.topic

\* The empty SDP that tells the client it is subscribed precedes every command
\* of an SDP stream.
AckFirst ==
    \A s \in Sessions :
        s.topic = "sdp" /\ stream[s] # <<>> => acked[s]

\* close(commands) while the callback may still send takes the process down,
\* but only while a stream is being torn down: its client has left, or its
\* user had no row when the subscription started.
CrashOnlyAtTeardown ==
    ~alive => \E s \in Sessions :
                 /\ cb[s] # 0
                 /\ CommandsClosed(s)
                 /\ gone[s] \/ errc[s]

\* A subscription goroutine outlives its handler (and may then block for ever
\* on the channel nobody reads) only if the client has left.
StrandedOnlyIfGone ==
    \A s \in Sessions :
        svc[s] = "returned" /\ api[s] \notin {"none", "done"} => gone[s]

-----------------------------------------------------------------------------
(* The inductive invariant behind delivery.  A command passes six places    *)
(* on its way to stream s; a later place holds older commands.             *)

SetOf(seq) == {seq[k] : k \in 1..Len(seq)}
Held(p) == {p} \ {0}
Precedes(A, B) == \A a \in A, b \in B : a < b
Increasing(seq) == \A i, j \in 1..Len(seq) : i < j => seq[i] < seq[j]

\* Who offers or writes a command holds one.
HeldInv ==
    \A s \in Sessions :
        /\ svc[s] = "write" => svcHeld[s] # 0
        /\ api[s] = "send" => apiHeld[s] # 0

\* The stream a, the handler b, the api goroutine c, the callback d, the queue
\* e and the publisher f hold commands in this order.
Ordered(a, b, c, d, e, f) ==
    /\ Increasing(a) /\ Increasing(e)
    /\ Precedes(SetOf(a), Held(b)) /\ Precedes(SetOf(a), Held(c))
    /\ Precedes(SetOf(a), Held(d)) /\ Precedes(SetOf(a), SetOf(e))
    /\ Precedes(SetOf(a), Held(f))
    /\ Precedes(Held(b), Held(c)) /\ Precedes(Held(b), Held(d))
    /\ Precedes(Held(b), SetOf(e)) /\ Precedes(Held(b), Held(f))
    /\ Precedes(Held(c), Held(d)) /\ Precedes(Held(c), SetOf(e))
    /\ Precedes(Held(c), Held(f))
    /\ Precedes(Held(d), SetOf(e)) /\ Precedes(Held(d), Held(f))
    /\ Precedes(SetOf(e), Held(f))

PipelineInv ==
    \A s \in Sessions :
        Ordered(stream[s], svcHeld[s], apiHeld[s], cb[s], pending[s],
                pub[s.topic])

\* A publisher holds a command of its topic.
PublisherInv ==
    \A t \in Topics : \A p \in Held(pub[t]) : accepted[p].topic = t

\* A stream's places hold commands of its topic, past the filter only those
\* addressed to its user.
RoutingInv ==
    \A s \in Sessions :
        /\ \A p \in Held(cb[s]) \cup SetOf(pending[s]) :
              accepted[p].topic = s.topic
        /\ \A p \in Held(apiHeld[s]) \cup Held(svcHeld[s])
                         \cup SetOf(stream[s]) :
              accepted[p].topic = s.topic /\ accepted[p].to = s.user

\* A call whose command was accepted has returned, so none is accepted twice.
AcceptedInv == \A i \in Positions : call[accepted[i]] = "returned"

RelayInv ==
    TypeOK /\ HeldInv /\ PipelineInv /\ PublisherInv /\ RoutingInv /\ AcceptedInv

-----------------------------------------------------------------------------
(* The inductive invariant behind AckFirst, CrashOnlyAtTeardown and        *)
(* StrandedOnlyIfGone: how far the goroutines of a stream are apart.       *)

\* Nothing is carried before the acknowledgement, and the handler goes on
\* without one only if nobody hears it.
AckInv ==
    \A s \in Sessions : s.topic = "sdp" =>
        /\ svc[s] \in {"idle", "ack"} => stream[s] = <<>>
        /\ svc[s] \in {"range", "write"} => acked[s] \/ gone[s]

\* The subscription goroutine starts with the stream, and its loop ends for
\* one of two reasons.
TeardownInv ==
    \A s \in Sessions :
        /\ svc[s] = "idle" => api[s] = "none"
        /\ api[s] \in {"exit", "closing", "done"} => gone[s] \/ errc[s]

StreamInv ==
    /\ AckInv /\ TeardownInv
    /\ AckFirst /\ CrashOnlyAtTeardown /\ StrandedOnlyIfGone

-----------------------------------------------------------------------------
(* The service as its peers see it.                                        *)

Abstract == INSTANCE Mailbox WITH inbox <- stream

\* Whatever is lost on the way, whoever leaves or is removed, and even if the
\* process dies, the relay does nothing a mailbox does not do.
ImplementsMailbox == Abstract!Spec

-----------------------------------------------------------------------------
(* Liveness.                                                               *)

Queued(s, m) ==
    \E k \in 1..Len(pending[s]) : accepted[pending[s][k]] = m

Carried(s, m) ==
    \E k \in 1..Len(stream[s]) : accepted[stream[s][k]] = m

\* A command that reached the subscription of its addressee is carried, unless
\* the client leaves or stops reading, or the stream ends first: the callback
\* and the two goroutines of a stream never wait for one another in a circle.
QueuedIsCarried ==
    \A s \in Sessions : \A m \in Messages :
        Queued(s, m) /\ m.to = s.user
            ~> \/ Carried(s, m)
               \/ gone[s] \/ stalled[s]
               \/ svc[s] = "returned" \/ ~alive

\* When the client leaves, the gRPC handler returns, also if it was waiting for
\* a client that did not read.
HandlerReturns ==
    \A s \in Sessions : gone[s] ~> svc[s] = "returned" \/ ~alive

\* A sender's call ends, unless it met a channel that Run had not set yet.
CallReturns ==
    \A m \in Messages :
        call[m] = "found" ~> call[m] \in {"returned", "stuck"} \/ ~alive

-----------------------------------------------------------------------------
(* What the source says of itself, and the code does not do.               *)

\* "this should be called before serve service to network": Run has set the
\* channels when a call is served, so no call waits on a nil channel for ever.
RunBeforeServe ==
    \A m \in Messages : call[m] # "stuck"
=============================================================================
