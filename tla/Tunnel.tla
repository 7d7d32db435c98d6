------------------------------- MODULE Tunnel -------------------------------
(***************************************************************************)
(* The tunnel between host and runner: streams from the browser to a       *)
(* program on the machine of the runner, multiplexed on one WebSocket.     *)
(*                                                                         *)
(* The runner connects again when its connection is lost.  Either side may *)
(* notice the loss first: until the host does, it may already know the     *)
(* next connection.  A frame END from the host says that there is no more  *)
(* to send, whether the request is complete or its client has gone.  What  *)
(* the streams carry, and the headers of responses, are left out.          *)
(***************************************************************************)
EXTENDS Naturals, Sequences, FiniteSets

CONSTANTS
    MaxConnections, \* bound: connections of the tunnel
    MaxIds,         \* bound: streams
    HostLimit,      \* maxStreamsPerMachine
    RunnerLimit     \* maxStreams

Connection == 1..MaxConnections
Id == 1..MaxIds
None == 0

VARIABLES
    link,       \* connections: "new", "open", "lost" (the runner knows),
                \* "unseen" (only the host knows), "closed"
    ws,         \* wsRef, None while the runner waits to connect
    hubWs,      \* wsByMachineId
    toHost,     \* frames on their way, per connection
    toRunner,
    hub,        \* streams of the host: "none", "open", "ended" (END was read), "gone"
    on,         \* connection that a stream was opened on
    far,        \* streams of the runner: "none", "open", "finished" (END was read), "gone"
    unsent      \* history: streams with a frame that the host could not send

vars == <<link, ws, hubWs, toHost, toRunner, hub, on, far, unsent>>

Frame == [type : {"hello"}] \cup [type : {"OPEN", "END", "ERROR"}, id : Id]

TypeOK ==
    /\ link \in [Connection -> {"new", "open", "lost", "unseen", "closed"}]
    /\ ws \in Connection \cup {None} /\ hubWs \in Connection \cup {None}
    /\ toHost \in [Connection -> Seq(Frame)] /\ toRunner \in [Connection -> Seq(Frame)]
    /\ hub \in [Id -> {"none", "open", "ended", "gone"}]
    /\ on \in [Id -> Connection \cup {None}]
    /\ far \in [Id -> {"none", "open", "finished", "gone"}]
    /\ unsent \subseteq Id

Init ==
    /\ link = [c \in Connection |-> "new"] /\ ws = None /\ hubWs = None
    /\ toHost = [c \in Connection |-> <<>>] /\ toRunner = [c \in Connection |-> <<>>]
    /\ hub = [i \in Id |-> "none"] /\ on = [i \in Id |-> None]
    /\ far = [i \in Id |-> "none"] /\ unsent = {}

F(type, i) == [type |-> type, id |-> i]

\* The host takes connection c for open.
HostOpen(c) == c # None /\ link[c] \in {"open", "lost"}

\* TunnelHub.send of one frame per stream of ids.  It may find too much
\* buffered; what is sent on a lost connection goes nowhere.
HubSend(type, ids) ==
    IF ~HostOpen(hubWs) THEN UNCHANGED toRunner /\ unsent' = unsent \cup ids
    ELSE \E dropped \in SUBSET ids :
         /\ unsent' = unsent \cup dropped
         /\ IF link[hubWs] # "open" THEN UNCHANGED toRunner
            ELSE \E sent \in [1..Cardinality(ids \ dropped) -> ids \ dropped] :
                 /\ \A j, k \in DOMAIN sent : j < k => sent[j] < sent[k]
                 /\ \A i \in ids \ dropped : \E k \in DOMAIN sent : sent[k] = i
                 /\ toRunner' = [toRunner EXCEPT ![hubWs] =
                                  @ \o [k \in DOMAIN sent |-> F(type, sent[k])]]

\* sendFrame of the runner.
RunnerSend(type, i) ==
    toHost' = IF ws # None /\ link[ws] = "open"
              THEN [toHost EXCEPT ![ws] = Append(@, F(type, i))] ELSE toHost

Live(i) == hub[i] \in {"open", "ended"}
InHub == {i \in Id : hub[i] = "open"}

-----------------------------------------------------------------------------
(* Connections.                                                            *)

\* connect and its open event: the first frame is hello.
Connect(c) ==
    /\ ws = None /\ link[c] = "new" /\ \A d \in 1..(c - 1) : link[d] # "new"
    /\ ws' = c /\ link' = [link EXCEPT ![c] = "open"]
    /\ toHost' = [toHost EXCEPT ![c] = <<[type |-> "hello"]>>]
    /\ UNCHANGED <<hubWs, toRunner, hub, on, far, unsent>>

\* The close event of the runner: it destroys every stream.
RunnerLoses ==
    /\ ws # None
    /\ link' = [link EXCEPT ![ws] = IF @ = "unseen" THEN "closed" ELSE "lost"]
    /\ toRunner' = [toRunner EXCEPT ![ws] = <<>>] /\ ws' = None
    /\ far' = [i \in Id |-> IF far[i] = "none" THEN "none" ELSE "gone"]
    /\ UNCHANGED <<hubWs, toHost, hub, on, unsent>>

\* detachMachine: the streams in the hub are destroyed, whatever their connection.
Detach(c) ==
    /\ hubWs' = IF hubWs = c THEN None ELSE hubWs
    /\ hub' = [i \in Id |-> IF i \in InHub THEN "gone" ELSE hub[i]]

\* The close event of the host.  Streams that it destroys send END on the
\* connection that is attached now, if one is.
HostLoses(c) ==
    /\ link[c] \in {"open", "lost"}
    /\ link' = [link EXCEPT ![c] = IF @ = "open" THEN "unseen" ELSE "closed"]
    /\ toHost' = [toHost EXCEPT ![c] = <<>>]
    /\ IF toHost[c] # <<>> /\ Head(toHost[c]).type = "hello"
       THEN UNCHANGED <<hubWs, hub, toRunner, unsent>>
       ELSE /\ Detach(c)
            /\ IF hubWs = c THEN UNCHANGED <<toRunner, unsent>> ELSE HubSend("END", InHub)
    /\ UNCHANGED <<ws, on, far>>

\* hello: attachMachine.
Attach(c) ==
    /\ toHost[c] # <<>> /\ Head(toHost[c]).type = "hello"
    /\ toHost' = [toHost EXCEPT ![c] = Tail(@)] /\ hubWs' = c
    /\ hub' = IF hubWs = None THEN hub ELSE [i \in Id |-> IF i \in InHub THEN "gone" ELSE hub[i]]
    /\ UNCHANGED <<link, ws, toRunner, on, far, unsent>>

-----------------------------------------------------------------------------
(* The host.                                                               *)

\* A request below /vscode, while the tunnel of its machine is connected.
Requested(i) ==
    hub[i] = "none" /\ (\A j \in 1..(i - 1) : hub[j] # "none") /\ HostOpen(hubWs)

\* openStream.  If OPEN cannot be sent the stream stays in the hub.
OpenStream(i) ==
    /\ Requested(i) /\ Cardinality(InHub) < HostLimit
    /\ hub' = [hub EXCEPT ![i] = "open"] /\ on' = [on EXCEPT ![i] = hubWs]
    /\ HubSend("OPEN", {i})
    /\ UNCHANGED <<link, ws, hubWs, toHost, far>>

\* The request is complete.
Finish(i) ==
    /\ hub[i] = "open" /\ i \notin unsent
    /\ \A k \in 1..Len(toRunner[on[i]]) : toRunner[on[i]][k] # F("END", i)
    /\ far[i] \in {"none", "open"} /\ HubSend("END", {i})
    /\ UNCHANGED <<link, ws, hubWs, toHost, hub, on, far>>

\* _destroy of a stream.
Destroyed(i) == hub' = [hub EXCEPT ![i] = "gone"] /\ HubSend("END", {i})

\* Wrong: the runner is not told.
DestroySilently(i) ==
    /\ Live(i) /\ hub' = [hub EXCEPT ![i] = "gone"]
    /\ UNCHANGED <<link, ws, hubWs, toHost, toRunner, on, far, unsent>>

\* The client is gone, or the stream was idle, or waited for headers, too long.
Destroy(i) ==
    /\ Live(i) /\ Destroyed(i)
    /\ UNCHANGED <<link, ws, hubWs, toHost, on, far>>

\* handleFrame.
HostReads(c) ==
    /\ toHost[c] # <<>> /\ Head(toHost[c]).type # "hello" /\ link[c] \in {"open", "lost"}
    /\ toHost' = [toHost EXCEPT ![c] = Tail(@)]
    /\ LET f == Head(toHost[c]) IN
       IF hub[f.id] # "open" THEN UNCHANGED <<hub, toRunner, unsent>>
       ELSE IF f.type = "END" THEN hub' = [hub EXCEPT ![f.id] = "ended"] /\ UNCHANGED <<toRunner, unsent>>
       ELSE Destroyed(f.id)
    /\ UNCHANGED <<link, ws, hubWs, on, far>>

-----------------------------------------------------------------------------
(* The runner.                                                             *)

FarOpen == {i \in Id : far[i] \in {"open", "finished"}}

\* handleOpen, handleEnd.
RunnerReads ==
    /\ ws # None /\ toRunner[ws] # <<>>
    /\ toRunner' = [toRunner EXCEPT ![ws] = Tail(@)]
    /\ LET f == Head(toRunner[ws]) IN
       IF f.type = "END"
       THEN /\ far' = IF far[f.id] = "open" THEN [far EXCEPT ![f.id] = "finished"] ELSE far
            /\ UNCHANGED toHost
       ELSE IF Cardinality(FarOpen) >= RunnerLimit
            THEN far' = [far EXCEPT ![f.id] = "gone"] /\ RunnerSend("ERROR", f.id)
       ELSE far' = [far EXCEPT ![f.id] = "open"] /\ UNCHANGED toHost
    /\ UNCHANGED <<link, ws, hubWs, hub, on, unsent>>

\* Wrong: the host hears of errors only.
TargetEndsUntold(i) ==
    /\ i \in FarOpen /\ far' = [far EXCEPT ![i] = "gone"]
    /\ (RunnerSend("ERROR", i) \/ UNCHANGED toHost)
    /\ UNCHANGED <<link, ws, hubWs, toRunner, hub, on, unsent>>

\* The program on the other side has ended its response, closed it early or
\* cannot be reached.
TargetEnds(i) ==
    /\ i \in FarOpen /\ far' = [far EXCEPT ![i] = "gone"]
    /\ (RunnerSend("END", i) \/ RunnerSend("ERROR", i))
    /\ UNCHANGED <<link, ws, hubWs, toRunner, hub, on, unsent>>

Next ==
    \/ \E c \in Connection : Connect(c) \/ HostLoses(c) \/ Attach(c) \/ HostReads(c)
    \/ \E i \in Id : OpenStream(i) \/ Finish(i) \/ Destroy(i) \/ TargetEnds(i)
    \/ RunnerLoses \/ RunnerReads

Spec == Init /\ [][Next]_vars

\* Frames arrive, and a side learns at last that its connection is lost.
\* Neither the program nor a timer need end a stream.
Fairness ==
    /\ \A c \in Connection :
         /\ WF_vars(Attach(c)) /\ WF_vars(HostReads(c))
         /\ WF_vars(link[c] = "lost" /\ HostLoses(c))
    /\ WF_vars(RunnerReads) /\ WF_vars(ws # None /\ link[ws] = "unseen" /\ RunnerLoses)

FairSpec == Spec /\ Fairness

-----------------------------------------------------------------------------
(* Properties.                                                             *)

Underway(frames, type, i) == \E k \in 1..Len(frames) : frames[k] = F(type, i)

\* While both sides are on the same connection, a stream that one of them has
\* ended has ended for the other, or a frame that says so is underway, except
\* where the host could not send one.
EndsAgree ==
    \A i \in Id :
        ws # None /\ hubWs = ws /\ link[ws] = "open" /\ on[i] = ws /\ i \notin unsent =>
            /\ hub[i] = "open" /\ far[i] = "gone" =>
                 Underway(toHost[ws], "END", i) \/ Underway(toHost[ws], "ERROR", i)
            /\ hub[i] = "gone" /\ far[i] \in {"none", "open"} => Underway(toRunner[ws], "END", i)

\* A stream does not stay open in the hub when it is gone on the runner, or when
\* its connection is.
HubForgets ==
    \A i \in Id :
        hub[i] = "open" /\ (far[i] = "gone" \/ link[on[i]] # "open") ~> hub[i] # "open"

\* When the state of a connection changes, only streams of connections that are
\* not open are torn down.
OthersSurvive ==
    [][link' # link =>
        \A i \in Id : hub[i] = "open" /\ hub'[i] = "gone" => link'[on[i]] # "open"]_vars
=============================================================================
