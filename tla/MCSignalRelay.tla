--------------------------- MODULE MCSignalRelay ---------------------------
(***************************************************************************)
(* Instances of SignalRelay for TLC: u1 calls u2, who is subscribed.       *)
(***************************************************************************)
EXTENDS SignalRelay

Cmd(n, t, a, b) == [id |-> n, topic |-> t, from |-> a, to |-> b]
Str(n, t, u)    == [id |-> n, topic |-> t, user |-> u]

MCUsers == {"u1", "u2"}

Offer     == Cmd(1, "sdp", "u1", "u2")
SecondSDP == Cmd(2, "sdp", "u1", "u2")
Answer    == Cmd(3, "sdp", "u2", "u1")
Candidate == Cmd(4, "ice", "u1", "u2")

SDPStream == Str(1, "sdp", "u2")
ICEStream == Str(2, "ice", "u2")

MCMessages == {Offer, SecondSDP, Answer, Candidate}
MCSessions == {SDPStream, ICEStream}

\* One stream, with two commands for it and one that is not; or two streams
\* of u2, one per topic.
Scenarios == {{SDPStream, Offer, SecondSDP, Answer},
              {SDPStream, ICEStream, Offer, Candidate}}

Used == {m \in Messages : call[m] # "idle"} \cup
        {s \in Sessions : svc[s] # "idle"}

\* A client stops reading where it has the one stream.
InScenario ==
    /\ \E scenario \in Scenarios : Used \subseteq scenario
    /\ \A s \in Sessions : stalled[s] => svc[ICEStream] = "idle"

MCSpec == Init /\ [][Next /\ InScenario']_vars

\* One stream and the two commands for it.
MCLiveMessages == {Offer, SecondSDP}
MCLiveSessions == {SDPStream}
=============================================================================
