----------------------------- MODULE MCStartup -----------------------------
(***************************************************************************)
(* Instances of Startup for TLC.                                           *)
(***************************************************************************)
EXTENDS Startup

Call(n, k, ch) == [id |-> n, server |-> k, channel |-> ch]

MCCalls == {Call(1, "signaling", "events"), Call(2, "signaling", "onlines"),
            Call(3, "rooms", "events")}
=============================================================================
