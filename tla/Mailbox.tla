------------------------------ MODULE Mailbox ------------------------------
(***************************************************************************)
(* What the signalling service promises about session descriptions and ICE *)
(* candidates, with no goroutine, channel or message bus in sight: a       *)
(* command that was accepted may be written to a stream of the user it is  *)
(* addressed to, at most once, in the order in which commands were         *)
(* accepted.  It may also never be written: delivery is at most once.      *)
(***************************************************************************)
EXTENDS Naturals, Sequences

CONSTANTS
    Messages,   \* the commands peers may send, [topic, from, to, ...]
    Sessions    \* the streams peers may open, [user, topic, ...]

VARIABLES
    accepted,   \* the commands accepted so far, in order
    inbox       \* inbox[s]: positions in accepted of what stream s carried

vars == <<accepted, inbox>>

Init ==
    /\ accepted = <<>>
    /\ inbox = [s \in Sessions |-> <<>>]

\* A command is accepted once.
Accept(m) ==
    /\ \A i \in 1..Len(accepted) : accepted[i] # m
    /\ accepted' = Append(accepted, m)
    /\ UNCHANGED inbox

\* Stream s carries the i-th accepted command.
Deliver(s, i) ==
    /\ accepted[i].to = s.user
    /\ accepted[i].topic = s.topic
    /\ \A k \in 1..Len(inbox[s]) : inbox[s][k] < i
    /\ inbox' = [inbox EXCEPT ![s] = Append(@, i)]
    /\ UNCHANGED accepted

Next ==
    \/ \E m \in Messages : Accept(m)
    \/ \E s \in Sessions, i \in 1..Len(accepted) : Deliver(s, i)

Spec == Init /\ [][Next]_vars
=============================================================================
