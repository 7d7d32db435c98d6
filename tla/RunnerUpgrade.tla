----------------------------- MODULE RunnerUpgrade -----------------------------
(***************************************************************************)
(* The host replaces the Rootgrid of a runner: it packs a bundle of itself  *)
(* once, asks the runner, streams the bundle in chunks and waits until the  *)
(* runner has installed it; the runner writes the chunks to an archive,     *)
(* checks and unpacks it, switches ~/.rootgrid/current and restarts.        *)
(*                                                                         *)
(* Every request carries the one release of the host's bundle.  Messages in *)
(* both directions are lost with the connection.                           *)
(***************************************************************************)
EXTENDS Naturals, Sequences

CONSTANTS
    MaxUpgrades,    \* bound: requests
    Pieces,         \* chunks of the bundle
    MaxUpgradeFaults, \* bound: broken connections, failing writes and restarts
    None

Upgrade == 1..MaxUpgrades

VARIABLES
    link,       \* the runner is connected
    faults,     \* bounded
    request,    \* where the request of the host is
    sent,       \* chunks that the host has sent
    bundle,     \* releaseBundles: "none", "packing" or "cached"
    toRunner, toHost,   \* messages on their way
    opening,    \* transfers that begin has allowed and whose archive is being opened
    transfer,   \* this.transfer: the request, or None
    written,    \* what the archive was written of, for each transfer
    ending,     \* transfers in end, and how far they are
    release,    \* the directory of the release: "absent", "partial" or "whole"
    current,    \* current points to the release
    restarting, \* the service manager was told to restart the runner
    crashes     \* times the host ended on a rejection that nobody awaited

vars == <<link, faults, request, sent, bundle, toRunner, toHost, opening, transfer, written, ending,
          release, current, restarting, crashes>>
hostVars == <<request, sent, bundle, crashes>>
runnerVars == <<opening, transfer, written, ending, release, current, restarting>>

Message == {"start", "chunk", "end", "abort"}
Answer == {"accepted", "rejected", "received", "failed"}

TypeOK ==
    /\ link \in BOOLEAN /\ faults \in 0..MaxUpgradeFaults
    /\ request \in [Upgrade -> {"none", "packing", "asking", "streaming", "waiting", "done", "failed"}]
    /\ sent \in [Upgrade -> 0..Pieces] /\ bundle \in {"none", "packing", "cached"}
    /\ toRunner \in Seq(Message \X Upgrade) /\ toHost \in Seq(Answer \X Upgrade)
    /\ opening \subseteq Upgrade /\ transfer \in Upgrade \cup {None}
    /\ written \in [Upgrade -> 0..Pieces]
    /\ ending \in [Upgrade -> {"no", "closing", "unpacking", "switching", "switched"}]
    /\ release \in {"absent", "partial", "whole"} /\ current \in BOOLEAN
    /\ restarting \in BOOLEAN /\ crashes \in 0..MaxUpgrades

Init ==
    /\ link = TRUE /\ faults = 0 /\ request = [u \in Upgrade |-> "none"]
    /\ sent = [u \in Upgrade |-> 0] /\ bundle = "none" /\ toRunner = <<>> /\ toHost = <<>>
    /\ opening = {} /\ transfer = None /\ written = [u \in Upgrade |-> 0]
    /\ ending = [u \in Upgrade |-> "no"] /\ release = "absent" /\ current = FALSE
    /\ restarting = FALSE /\ crashes = 0

-----------------------------------------------------------------------------
(* The host: hostMachineApi, requestMachineUpgrade and releaseBundles.     *)

Goes(u, to) == request' = [request EXCEPT ![u] = to]
Tell(u, type) == toRunner' = Append(toRunner, <<type, u>>)

\* POST upgrade, for a runner that is connected and has no working session.
Ask(u) ==
    /\ request[u] = "none" /\ link /\ \A v \in 1..(u - 1) : request[v] # "none"
    /\ Goes(u, "packing") /\ bundle' = (IF bundle = "cached" THEN "cached" ELSE "packing")
    /\ UNCHANGED <<link, faults, sent, toRunner, toHost, crashes, runnerVars>>

\* getBundle: requests share the one that is being made, and its failure.
Packed ==
    /\ bundle = "packing" /\ bundle' = "cached"
    /\ UNCHANGED <<link, faults, request, sent, toRunner, toHost, crashes, runnerVars>>
PackFails ==
    /\ bundle = "packing" /\ bundle' = "none"
    /\ request' = [u \in Upgrade |-> IF request[u] = "packing" THEN "failed" ELSE request[u]]
    /\ UNCHANGED <<link, faults, sent, toRunner, toHost, crashes, runnerVars>>

\* sendBundleToMachine.
Offer(u) ==
    /\ request[u] = "packing" /\ bundle = "cached"
    /\ IF link THEN Goes(u, "asking") /\ Tell(u, "start")
       ELSE Goes(u, "failed") /\ UNCHANGED toRunner
    /\ UNCHANGED <<link, faults, sent, bundle, toHost, crashes, runnerVars>>

\* Wrong: one chunk more than there is.
StreamOn(u) ==
    /\ request[u] = "streaming" /\ link
    /\ IF sent[u] <= Pieces
       THEN Tell(u, "chunk") /\ sent' = [sent EXCEPT ![u] = @ + 1] /\ UNCHANGED request
       ELSE Tell(u, "end") /\ Goes(u, "waiting") /\ UNCHANGED sent
    /\ UNCHANGED <<link, faults, bundle, toHost, crashes, runnerVars>>

\* streamBundleToMachine: a chunk and, after the last one, the end.
Stream(u) ==
    /\ request[u] = "streaming" /\ link
    /\ IF sent[u] < Pieces
       THEN Tell(u, "chunk") /\ sent' = [sent EXCEPT ![u] = @ + 1] /\ UNCHANGED request
       ELSE Tell(u, "end") /\ Goes(u, "waiting") /\ UNCHANGED sent
    /\ UNCHANGED <<link, faults, bundle, toHost, crashes, runnerVars>>

\* The bundle cannot be read, or there is no connection to send it through.
StreamFails(u) ==
    /\ request[u] = "streaming" /\ Goes(u, "failed")
    /\ IF link THEN Tell(u, "abort") ELSE UNCHANGED toRunner
    /\ UNCHANGED <<link, faults, sent, bundle, toHost, crashes, runnerVars>>

\* Nothing awaits the promise of the result while the bundle is streamed: when
\* it is rejected then, the process of the host ends.
HostEnds ==
    /\ request' = [u \in Upgrade |->
            IF request[u] \in {"none", "done", "failed"} THEN request[u] ELSE "failed"]
    /\ crashes' = crashes + 1 /\ bundle' = "none" /\ link' = FALSE
    /\ toRunner' = <<>> /\ toHost' = <<>> /\ UNCHANGED <<sent, faults>>

Rejected(u) ==
    IF request[u] = "streaming" THEN HostEnds
    ELSE /\ Goes(u, "failed") /\ toHost' = Tail(toHost)
         /\ UNCHANGED <<link, faults, sent, bundle, toRunner, crashes>>

\* 10 s for the answer of the runner, 60 s for the installation.
TimesOut(u) ==
    /\ \/ /\ request[u] \in {"asking", "waiting"} /\ Goes(u, "failed")
          /\ UNCHANGED <<link, faults, sent, bundle, toRunner, toHost, crashes>>
       \/ request[u] = "streaming" /\ HostEnds
    /\ UNCHANGED runnerVars

\* hostRunnerEvents: machine.upgrade.*
HostReceives ==
    /\ toHost # <<>>
    /\ LET u == Head(toHost)[2]
           settles(stage, to) ==
               /\ request' = IF request[u] = stage THEN [request EXCEPT ![u] = to] ELSE request
               /\ toHost' = Tail(toHost)
               /\ UNCHANGED <<link, faults, sent, bundle, toRunner, crashes>>
       IN CASE Head(toHost)[1] = "accepted" -> settles("asking", "streaming")
            [] Head(toHost)[1] = "rejected" -> settles("asking", "failed")
            [] Head(toHost)[1] = "received" -> settles("waiting", "done")
            [] Head(toHost)[1] = "failed" ->
                 IF request[u] \in {"streaming", "waiting"} THEN Rejected(u)
                 ELSE settles("waiting", "failed")
    /\ UNCHANGED runnerVars

-----------------------------------------------------------------------------
(* The runner: RunnerReleaseManager and its handlers in sessionManager.    *)

Report(u, type) == toHost' = IF link THEN Append(toHost, <<type, u>>) ELSE toHost
Receives(u, type) ==
    toRunner # <<>> /\ Head(toRunner) = <<type, u>> /\ toRunner' = Tail(toRunner)

\* begin asks for its capabilities first; the transfer is set when the archive
\* is open.
Begin(u) ==
    /\ Receives(u, "start")
    /\ IF transfer # None THEN Report(u, "rejected") /\ UNCHANGED opening
       ELSE opening' = opening \cup {u} /\ UNCHANGED toHost
    /\ UNCHANGED <<link, faults, hostVars, transfer, written, ending, release, current, restarting>>
Opened(u) ==
    /\ u \in opening /\ opening' = opening \ {u}
    /\ transfer' = u /\ written' = [written EXCEPT ![u] = 0] /\ Report(u, "accepted")
    /\ UNCHANGED <<link, faults, hostVars, toRunner, ending, release, current, restarting>>

\* chunk: a write that fails leaves the rest of the transfer failing.
Chunk(u) ==
    /\ Receives(u, "chunk")
    /\ IF transfer = u
       THEN written' = [written EXCEPT ![u] = @ + 1] /\ UNCHANGED <<toHost, faults>>
       ELSE Report(u, "failed") /\ UNCHANGED <<written, faults>>
    /\ UNCHANGED <<link, hostVars, opening, transfer, ending, release, current, restarting>>
ChunkFails(u) ==
    /\ Receives(u, "chunk") /\ transfer = u /\ faults < MaxUpgradeFaults
    /\ faults' = faults + 1 /\ Report(u, "failed")
    /\ UNCHANGED <<link, hostVars, opening, transfer, written, ending, release, current, restarting>>

End(u) ==
    /\ Receives(u, "end")
    /\ ending' = IF transfer = u THEN [ending EXCEPT ![u] = "closing"] ELSE ending
    /\ UNCHANGED <<link, faults, hostVars, toHost, opening, transfer, written, release, current,
                   restarting>>

\* The catch and the finally of end: the directory is removed, whatever
\* current points to, and there is no transfer any more.
Undo(u) ==
    /\ ending' = [ending EXCEPT ![u] = "no"] /\ transfer' = None /\ release' = "absent"
    /\ UNCHANGED <<link, hostVars, toRunner, opening, written, current, restarting>>
EndFails(u) == Undo(u) /\ Report(u, "failed")

\* Wrong: a bundle is unpacked without a look at what was received.
CheckNothing(u) ==
    /\ ending[u] = "closing"
    /\ ending' = [ending EXCEPT ![u] = "unpacking"] /\ release' = "partial"
    /\ UNCHANGED <<link, faults, hostVars, toRunner, toHost, opening, transfer, written, current,
                   restarting>>

\* The size and the checksum; a copy that was there is removed to unpack it.
Check(u) ==
    /\ ending[u] = "closing"
    /\ IF written[u] = Pieces
       THEN /\ ending' = [ending EXCEPT ![u] = "unpacking"] /\ release' = "partial"
            /\ UNCHANGED <<link, hostVars, toRunner, toHost, opening, transfer, written, current,
                           restarting>>
       ELSE EndFails(u)
    /\ UNCHANGED faults

Unpacked(u) ==
    /\ ending[u] = "unpacking" /\ ending' = [ending EXCEPT ![u] = "switching"]
    /\ release' = "whole"
    /\ UNCHANGED <<link, faults, hostVars, toRunner, toHost, opening, transfer, written, current,
                   restarting>>
UnpackFails(u) ==
    /\ ending[u] = "unpacking" /\ faults < MaxUpgradeFaults /\ faults' = faults + 1 /\ EndFails(u)

\* switchCurrentRelease; the installation of bubblewrap that follows may fail.
Switch(u) ==
    /\ ending[u] = "switching" /\ ending' = [ending EXCEPT ![u] = "switched"] /\ current' = TRUE
    /\ UNCHANGED <<link, faults, hostVars, toRunner, toHost, opening, transfer, written, release,
                   restarting>>

\* machine.upgrade.bundle.received is sent before the restart is tried.
Restart(u) ==
    /\ ending[u] = "switched" /\ Report(u, "received")
    /\ ending' = [ending EXCEPT ![u] = "no"] /\ transfer' = None /\ restarting' = TRUE
    /\ UNCHANGED <<link, faults, hostVars, toRunner, opening, written, release, current>>

\* The restart cannot be asked for: failed is sent behind received, and the release
\* that current points to is removed.
RestartFails(u) ==
    /\ ending[u] = "switched" /\ faults < MaxUpgradeFaults /\ faults' = faults + 1 /\ Undo(u)
    /\ toHost' = IF link THEN Append(Append(toHost, <<"received", u>>), <<"failed", u>>) ELSE toHost

Abort(u) ==
    /\ Receives(u, "abort") /\ transfer' = (IF transfer = u THEN None ELSE transfer)
    /\ UNCHANGED <<link, faults, hostVars, toHost, opening, written, ending, release, current,
                   restarting>>

-----------------------------------------------------------------------------
(* The connection and the process of the runner.                           *)

\* onRunnerDisconnect rejects what is pending for the machine.
Disconnect ==
    /\ link /\ faults < MaxUpgradeFaults
    /\ IF \E u \in Upgrade : request[u] = "streaming"
       THEN HostEnds
       ELSE /\ request' = [u \in Upgrade |->
                    IF request[u] \in {"asking", "waiting"} THEN "failed" ELSE request[u]]
            /\ link' = FALSE /\ toRunner' = <<>> /\ toHost' = <<>> /\ faults' = faults + 1
            /\ UNCHANGED <<sent, bundle, crashes>>
    /\ UNCHANGED runnerVars

\* A new connection takes the place of one that the host still thought open.
Replaced ==
    /\ link /\ faults < MaxUpgradeFaults /\ faults' = faults + 1
    /\ toRunner' = <<>> /\ toHost' = <<>> /\ UNCHANGED <<link, hostVars, runnerVars>>

Connect == ~link /\ link' = TRUE /\ UNCHANGED <<faults, hostVars, toRunner, toHost, runnerVars>>

\* The service manager restarts the runner, or its process dies.
Restarted ==
    /\ \/ restarting /\ UNCHANGED faults
       \/ faults < MaxUpgradeFaults /\ faults' = faults + 1
    /\ opening' = {} /\ transfer' = None /\ ending' = [u \in Upgrade |-> "no"]
    /\ restarting' = FALSE /\ link' = FALSE /\ toRunner' = <<>> /\ toHost' = <<>>
    /\ request' = [u \in Upgrade |->
            IF request[u] \in {"asking", "streaming", "waiting"} THEN "failed" ELSE request[u]]
    /\ crashes' = IF \E u \in Upgrade : request[u] = "streaming" THEN crashes + 1 ELSE crashes
    /\ UNCHANGED <<sent, bundle, written, release, current>>

Next ==
    \/ \E u \in Upgrade :
        \/ Ask(u) \/ Offer(u) \/ Stream(u) \/ StreamFails(u) \/ TimesOut(u)
        \/ Begin(u) \/ Opened(u) \/ Chunk(u) \/ ChunkFails(u) \/ End(u) \/ Check(u)
        \/ Unpacked(u) \/ UnpackFails(u) \/ Switch(u) \/ Restart(u) \/ RestartFails(u) \/ Abort(u)
    \/ Packed \/ PackFails \/ HostReceives \/ Disconnect \/ Replaced \/ Connect \/ Restarted

Spec == Init /\ [][Next]_vars

-----------------------------------------------------------------------------

\* Who asked for an upgrade hears of its success only when the runner has
\* received the whole bundle and points to it, through lost chunks, transfers
\* that overlap and replaced connections (requestMachineUpgrade, end).  Whether the
\* service then restarts is not known when success is told: RestartFails takes the
\* release away afterwards.
SuccessIsInstalled ==
    \A u \in Upgrade : request[u] = "done" => written[u] = Pieces /\ current

\* ~/.rootgrid/current -> ~/.rootgrid/releases/<release-id>/ (docs/setup.md).
CurrentStands == current /\ ending = [u \in Upgrade |-> "no"] => release = "whole"

\* A rejected promise that is awaited later does not end the host.
HostStays == crashes = 0
=============================================================================
