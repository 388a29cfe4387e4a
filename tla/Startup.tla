------------------------------ MODULE Startup ------------------------------
(***************************************************************************)
(* The process from its start: it connects to the database and to NATS,    *)
(* starts two gRPC servers, and next to each the goroutine Run that wires  *)
(* the channels of the service and starts their publishers.  A server may  *)
(* serve calls before its Run has got that far.  When the signalling       *)
(* server ends, the process ends; when the room manager ends, that is only *)
(* logged.                                                                 *)
(***************************************************************************)
EXTENDS Naturals, Sequences

CONSTANT Calls      \* calls that publish, [id, server, channel]

Servers == {"signaling", "rooms"}

\* The channels of a service, in the order in which Run sets them.
Channels(k) == IF k = "rooms" THEN <<"events">>
                              ELSE <<"events", "commands", "ices", "onlines">>

ASSUME CallsAssumption ==
    \A c \in Calls : /\ c.server \in Servers
                     /\ \E i \in 1 .. Len(Channels(c.server)) :
                           Channels(c.server)[i] = c.channel

VARIABLES
    main,       \* where the main goroutine is
    server,     \* server[k]: where the start of server k is
    wired,      \* wired[k]: how many channels Run has set
    publishers, \* publishers[k]: how many publishers Run has started
    call        \* call[c]: where call c is

vars == <<main, server, wired, publishers, call>>

Init ==
    /\ main = "config"
    /\ server = [k \in Servers |-> "none"]
    /\ wired = [k \in Servers |-> 0]
    /\ publishers = [k \in Servers |-> 0]
    /\ call = [c \in Calls |-> "idle"]

-----------------------------------------------------------------------------
(* root.go: one step after the other, and any may fail.                    *)

Setup == [config |-> "logger", logger |-> "postgres", postgres |-> "nats",
          nats |-> "encode", encode |-> "servers"]

\* The error of the migration is not looked at: without tables it goes on.
Prepare ==
    /\ main \in DOMAIN Setup
    /\ main' = Setup[main]
    /\ UNCHANGED <<server, wired, publishers, call>>

\* log.Fatalf
Fatal ==
    /\ main \in DOMAIN Setup
    /\ main' = "exited"
    /\ UNCHANGED <<server, wired, publishers, call>>

\* go StartRoomManager; then StartSignaling.  Each starts Run, and listens.
StartServers ==
    /\ main = "servers"
    /\ main' = "running"
    /\ server' = [k \in Servers |-> "started"]
    /\ UNCHANGED <<wired, publishers, call>>

Running == main = "running"

\* go Run
GoRun(k) ==
    /\ Running
    /\ server[k] = "started"
    /\ server' = [server EXCEPT ![k] = "listen"]
    /\ UNCHANGED <<main, wired, publishers, call>>

Serve(k) ==
    /\ Running
    /\ server[k] = "listen"
    /\ server' = [server EXCEPT ![k] = "serve"]
    /\ UNCHANGED <<main, wired, publishers, call>>

\* Listen or Serve returns an error, which is logged; main returns after that
\* of the signalling server, and takes everything with it.
ServerFails(k) ==
    /\ Running
    /\ server[k] \in {"listen", "serve"}
    /\ server' = [server EXCEPT ![k] = "failed"]
    /\ main' = IF k = "signaling" THEN "exited" ELSE main
    /\ UNCHANGED <<wired, publishers, call>>

-----------------------------------------------------------------------------
(* Run.                                                                    *)

RunStarted(k) == Running /\ server[k] \in {"listen", "serve", "failed"}

\* SetEvents, SetRoomEvents, SetCommands, SetICEOffers, SetOnlineStatus
Wire(k) ==
    /\ RunStarted(k)
    /\ wired[k] < Len(Channels(k))
    /\ wired' = [wired EXCEPT ![k] = @ + 1]
    /\ UNCHANGED <<main, server, publishers, call>>

\* Faulty variant: the last publisher is forgotten.
AllButOne(k) == Len(Channels(k)) - 1

Publishers(k) == Len(Channels(k))

\* go PublishRoomEvent, go PublishSDPCommand, ...
StartPublisher(k) ==
    /\ RunStarted(k)
    /\ wired[k] = Len(Channels(k))
    /\ publishers[k] < Publishers(k)
    /\ publishers' = [publishers EXCEPT ![k] = @ + 1]
    /\ UNCHANGED <<main, server, wired, call>>

-----------------------------------------------------------------------------
(* Calls.                                                                  *)

\* A channel was set, or its publisher was started, among the first n.
Among(c, n) == \E i \in 1 .. n : Channels(c.server)[i] = c.channel

\* The call sends on the channel as it finds it; a nil channel takes nothing,
\* then or later.
Begin(c) ==
    /\ Running
    /\ call[c] = "idle"
    /\ server[c.server] = "serve"
    /\ call' = [call EXCEPT ![c] = IF Among(c, wired[c.server]) THEN "sending"
                                                              ELSE "stuck"]
    /\ UNCHANGED <<main, server, wired, publishers>>

Return(c) ==
    /\ Running
    /\ call[c] = "sending"
    /\ Among(c, publishers[c.server])
    /\ call' = [call EXCEPT ![c] = "returned"]
    /\ UNCHANGED <<main, server, wired, publishers>>

Start == Prepare \/ Fatal \/ StartServers
Run(k) == Wire(k) \/ StartPublisher(k)

Next ==
    \/ Start
    \/ \E k \in Servers : GoRun(k) \/ Serve(k) \/ ServerFails(k) \/ Run(k)
    \/ \E c \in Calls : Begin(c) \/ Return(c)

Spec == Init /\ [][Next]_vars

\* Goroutines that can run do run; nobody has to call, and nothing has to
\* fail.
FairSpec ==
    /\ Spec
    /\ WF_vars(Start)
    /\ \A k \in Servers : WF_vars(GoRun(k)) /\ WF_vars(Serve(k)) /\ WF_vars(Run(k))
    /\ \A c \in Calls : WF_vars(Return(c))

-----------------------------------------------------------------------------
Wired(k) == wired[k] = Len(Channels(k))

\* A call that begins when Run has set all channels of its service returns,
\* unless the process ends: it needs no publisher to be there yet, and no
\* call that was stuck before is in its way.
ReturnsOnceWired ==
    \A c \in Calls :
        [](call[c] = "idle" /\ Wired(c.server) =>
              [](call[c] # "idle" => <>(call[c] = "returned" \/ ~Running)))
=============================================================================
