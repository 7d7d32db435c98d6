---------------------------- MODULE MCMachineInv ----------------------------
(***************************************************************************)
(* The inductive invariants of the parts of MCMachine.  None of the        *)
(* properties is inductive.  Each part has an invariant that adds to it    *)
(* what the frames on their way will do, and that each of them is sent     *)
(* once:                                                                   *)
(*   TermsInv     a frame that waits tells the host what it does not know  *)
(*   PagesInv     a request is sent once; the page shows no older Git      *)
(*   IdeInv       an editor is shown, to be shown, or to be stopped        *)
(*   UploadsInv   chunks written, waiting and on their way make the file   *)
(*   SignInInv    a sign-in that is active is the present one              *)
(*   RequestsInv  the forms that were tried were refused                   *)
(*   UpgradeInv   a bundle is whole when the runner uses it                *)
(*   UpdateInv    a release that is about to be current is on the disk     *)
(*   ServiceInv   commands that change the service run one after another   *)
(***************************************************************************)
EXTENDS MCMachine, Sequences, FiniteSets

\* x is in a sequence; x comes before y in it; how often x is in it.
Occurs(s, x) == \E k \in 1..Len(s) : s[k] = x
Precedes(s, x, y) == \E k, m \in 1..Len(s) : k < m /\ s[k] = x /\ s[m] = y
Count(s, x) == Cardinality({k \in 1..Len(s) : s[k] = x})

-----------------------------------------------------------------------------
(* Terminals.                                                              *)

TermsBounded ==
    /\ MaxTerminals \in Nat /\ MaxCalls \in Nat /\ MaxFrames \in Nat /\ MaxBreaks \in Nat
    /\ Workspaces # {} /\ Terms!Nothing \notin Workspaces

\* A frame about terminal t is on its way, to the runner and to the host.
ToShell(t, m) == Occurs(terminalsToRunner, <<m, t>>)
OfShell(t, m) == Occurs(terminalsToHost, <<m, t>>)
Starts(t) == Count(terminalsToRunner, <<"start", t>>)

\* A terminal is started once, and nothing is told of it before it runs.
StartedOnce(t) ==
    /\ cwd[t] = Terms!Nothing => shell[t] = "none" /\ ~ToShell(t, "start") /\ t \notin cutOff
    /\ t \notin cutOff =>
        /\ Starts(t) <= 1
        /\ ToShell(t, "start") => shell[t] = "none"
        /\ shell[t] \in {"none", "starting"} =>
            /\ record[t] = "none" /\ ~ToShell(t, "close")
            /\ \A m \in {"started", "output", "exit"} : ~OfShell(t, m)
        /\ shell[t] # "none" => terminalsLink = "up"

\* The frames that are on their way tell the host what it does not know.
RunsAsKnown(t) ==
    t \notin cutOff =>
        /\ shell[t] = "mapped" =>
             record[t] = "connected" \/ OfShell(t, "started") \/ ToShell(t, "close")
        /\ record[t] = "exited" => shell[t] = "ended"
        /\ OfShell(t, "exit") => shell[t] = "ended"
        /\ shell[t] = "ended" =>
             /\ record[t] = "connected" => OfShell(t, "exit")
             /\ \A m \in {"started", "output"} : OfShell(t, m) => OfShell(t, "exit")
        /\ \A m \in {"started", "output"} : ~Precedes(terminalsToHost, <<"exit", t>>, <<m, t>>)

NothingSent == terminalsLink # "up" => (terminalsToRunner = <<>> /\ terminalsToHost = <<>>)
NoneConnected == terminalsLink = "down" => \A t \in Terms!Terminal : record[t] # "connected"

TermsRest ==
    /\ NothingSent /\ NoneConnected
    /\ \A t \in Terms!Terminal : StartedOnce(t) /\ RunsAsKnown(t)
TermsInv == Terms!TypeOK /\ TermsRest

-----------------------------------------------------------------------------
(* Files and Git.                                                          *)

PagesBounded == MaxRequests \in Nat /\ MaxSteps \in Nat /\ Workspaces # {}

\* A request is on its way to the runner, its result is on its way to the host.
Posted(r) == Occurs(pagesToRunner, r)
PageReported(r, ok) == Occurs(pagesToHost, <<r, ok>>)
Busy(r) == requests[r].kind \in Requests!Change /\ (jobs[r] \in {"begun", "acted"} \/ Posted(r))

\* A request is sent once, worked on once and reported of once.
DoneOnce(r) ==
    /\ Count(pagesToRunner, r) <= 1
    /\ requests[r].at \in {"none", "asked"} => jobs[r] = "none" /\ ~Posted(r)
    /\ Posted(r) => jobs[r] = "none"
    /\ \A ok \in BOOLEAN : PageReported(r, ok) => jobs[r] = "done"
    /\ requests[r].result = "ok" => jobs[r] = "done"

\* The requests that may have changed the repository of a workspace.
Changers(w) ==
    {r \in Requests!Request : jobs[r] \in {"acted", "done"} /\
        (requests[r].kind = "exec" \/ (requests[r].kind \in Requests!Change /\ requests[r].of = w))}
RepoBounded ==
    \A w \in Workspaces : repo[w] <= Cardinality(Changers(w)) /\ byShell[w] <= repo[w]

OneChange ==
    /\ \A q, r \in Requests!Underway(Requests!Change \cup {"again"}) : q = r
    /\ ~gitWorking => Requests!Underway(Requests!Change \cup {"again"}) = {}

\* What was read of the repository is as it is, or a shell command has changed it.
Fresh(read) ==
    read.version = repo[context] \/ read.version < byShell[context] \/ read.empty

\* Without a crossing, a request for git is alone, and one that is still at work
\* has left an error or nothing on the page when it is underway no more.
AloneOnPage(r) ==
    /\ r \in Requests!Underway(Requests!Git) =>
        /\ requests[r].of = context \/ requests[r].kind = "branch"
        /\ \A q \in Requests!Underway(Requests!Git) : q = r
    /\ Busy(r) => Requests!Underway(Requests!Git) \subseteq {r}
    /\ Busy(r) /\ r \notin Requests!Underway(Requests!Git) => gitError \/ gitStatus = None
    /\ r \in Requests!Underway(Requests!Git) /\ requests[r].kind # "branch"
        /\ (PageReported(r, TRUE) \/ requests[r].result = "ok") => Fresh(requests[r])
Uncrossed ==
    ~crossed =>
        /\ \A r \in Requests!Request : AloneOnPage(r)
        /\ gitStatus # None => gitStatus.of = context

PagesRest ==
    /\ \A r \in Requests!Request : DoneOnce(r)
    /\ RepoBounded /\ OneChange /\ Uncrossed /\ Requests!StatusIsFresh
PagesInv == Requests!TypeOK /\ PagesRest

-----------------------------------------------------------------------------
(* Editors.                                                                *)

IdeBounded ==
    MaxEditors \in Nat /\ MaxFaults \in Nat /\ MaxPanes \in Nat /\ None \notin Nat

\* A frame about editor i is on its way to the runner; an event about it was told, and
\* the host is still to handle it, also when it is for the second time.
IdeAsked(i, m) == Occurs(ideToRunner, <<m, i>>)
IdeTold(i, m) == Occurs(log, <<m, i>>)
IdeComing(i, m) == \E k \in (handled + 1)..Len(log) : log[k] = <<m, i>>
IdeAsks(i) == Count(ideToRunner, <<"start", i>>)

\* An editor is started once, and what is told of it is what happened.
IdeOnce(i) ==
    /\ IdeAsks(i) <= 1
    /\ ideCalls[i] = "none" => phase[i] = "none" /\ ~IdeAsked(i, "start")
    /\ IdeAsked(i, "start") => phase[i] = "none"
    /\ phase[i] \in {"none", "prepare"} => program[i] = "none" /\ i \notin managed
    /\ phase[i] = "wait" => program[i] \in {"alive", "dead"}
    /\ phase[i] \in {"none", "prepare", "wait"} =>
         i \notin ideKnown /\ ~IdeTold(i, "started") /\ ~IdeAsked(i, "stop")
    /\ IdeTold(i, "failed") => phase[i] = "over"
    /\ IdeTold(i, "stopped") => phase[i] \in {"started", "over"} /\ i \notin managed
    /\ program[i] \in {"alive", "ending"} /\ phase[i] # "over" => i \in managed

IdeUp(i) == phase[i] = "started" /\ program[i] \in {"alive", "ending"} /\ i \in managed
IdeLives(i) == program[i] = "alive" /\ phase[i] # "over"

\* The editors in the books of the host run, or their end is still to be handled; and
\* so it will be with those that it is told of.
IdeKnownRuns(i) ==
    i \notin stray =>
        /\ i \in ideKnown => IdeUp(i) \/ IdeComing(i, "stopped")
        /\ \A k \in 1..Len(log) : log[k] = <<"started", i>> =>
             IdeUp(i) \/ \E m \in (k + 1)..Len(log) : log[m] = <<"stopped", i>>

\* An editor that runs is in the books, or about to be, or about to be stopped.
IdeListed(i) ==
    i \notin ideLost =>
        /\ (IdeAsked(i, "start") \/ phase[i] \in {"prepare", "wait"}) => ideCalls[i] = "pending"
        /\ IdeLives(i) /\ phase[i] = "started" =>
             \/ i \in ideKnown \/ IdeAsked(i, "stop")
             \/ ideCalls[i] = "pending" /\ IdeComing(i, "started")

\* It is shown, or about to be, or a call has read that it was and will stop it.
IdeClosing(i) == \E p \in Editors!Pane : panes[p].at = "closing" /\ panes[p].of = i
IdeStops(i) ==
    i \notin ideLost \cup ideLeft /\ IdeLives(i) =>
        \/ ideCalls[i] \in {"pending", "ok"} \/ ideActive = i
        \/ IdeClosing(i) \/ IdeAsked(i, "stop")

\* What a call has read was shown; what it has stopped is about to be.
IdeGone(i) == i \in ideLost \/ ~IdeLives(i) \/ IdeAsked(i, "stop")
IdeRead(i) ==
    /\ ideActive = i \/ (\E p \in Editors!Pane : panes[p].of = i) => ideCalls[i] = "done"
    /\ \A p \in Editors!Pane : panes[p] = [at |-> "replacing", of |-> i] => IdeGone(i)

IdeCalling(i) == ideCalls[i] \in {"pending", "ok", "failed"}
IdeOneStarts ==
    /\ \A i, j \in Editors!Editor : IdeCalling(i) /\ IdeCalling(j) => i = j
    /\ \A i \in Editors!Editor : IdeCalling(i) => ideActive = None

IdeEditor(i) == IdeOnce(i) /\ IdeKnownRuns(i) /\ IdeListed(i) /\ IdeStops(i) /\ IdeRead(i)
IdeRest == IdeOneStarts /\ \A i \in Editors!Editor : IdeEditor(i)
IdeInv == Editors!TypeOK /\ IdeRest

-----------------------------------------------------------------------------
(* Attachments.                                                            *)

FileBounded == MaxUploads \in Nat \ {0} /\ Chunks \in Nat /\ MaxUploadFaults \in Nat
    /\ None \notin Nat

\* The operations on an upload that are still to be done, first those that wait on
\* the runner, then those on their way.
Has(u, x) == Occurs(ops[u], x) \/ Occurs(uploadToRunner, <<x, u>>)
Then(u, x, y) ==
    \/ Precedes(ops[u], x, y)
    \/ Occurs(ops[u], x) /\ Occurs(uploadToRunner, <<y, u>>)
    \/ Precedes(uploadToRunner, <<x, u>>, <<y, u>>)
Left(u) == Count(ops[u], "chunk") + Count(uploadToRunner, <<"chunk", u>>)

\* The order of the operations on an upload.
Before(x, y) ==
    \/ x = "begin" /\ y # "begin"
    \/ x = "chunk" /\ y \in {"chunk", "end", "delete"}
    \/ x = "end" /\ y = "delete"
Ordered(u) == \A x, y \in Files!Op : Then(u, x, y) => Before(x, y)

\* session.cleanup is on its way, or waits for the session to stop.
CleanupDue == cleaning \/ \E u \in Files!Upload : Occurs(uploadToRunner, <<"cleanup", u>>)

\* A report that the runner has the file is on its way.
FileTold(u) == Occurs(uploadOutbox, <<"uploaded", u>>)

\* What the host has of an upload goes with its request.
HostSide(u) ==
    /\ u \in rows <=> host[u] = "ok" /\ session
    /\ host[u] \in {"none", "failed"} \/ (host[u] = "ok" /\ ~session) => u \notin hostFile
    /\ host[u] \in {"stored", "streaming", "ended"} \/ u \in rows => u \in hostFile
    /\ entry[u] # "none" => host[u] \in {"streaming", "ended"}
    /\ host[u] \in {"none", "stored"} => uploadSent[u] = 0
    /\ host[u] \in {"ended", "ok"} => uploadSent[u] = Chunks

\* No chunk is counted twice.
ChunksCounted(u) ==
    /\ Left(u) <= uploadSent[u]
    /\ u \in stream /\ uploadFile[u] # None => uploadFile[u] + Left(u) <= uploadSent[u]

\* The operations on an upload are those that its request has sent.
OpsSent(u) ==
    /\ Ordered(u) /\ ~Has(u, "abort")
    /\ host[u] \in {"none", "stored"} => \A x \in Files!Op : ~Has(u, x)
    /\ host[u] # "failed" => ~Has(u, "delete")
    /\ host[u] = "streaming" => ~Has(u, "end")
    /\ Has(u, "end") => uploadSent[u] = Chunks
    /\ Has(u, "begin") => Left(u) = uploadSent[u] /\ (host[u] = "streaming" \/ Has(u, "end"))

\* The file on the runner has what was sent and is not on its way.
FileWhole(u) ==
    /\ host[u] \in {"none", "stored"} \/ Has(u, "begin") => u \notin stream /\ uploadFile[u] = None
    /\ u \in stream =>
         /\ uploadFile[u] # None /\ uploadFile[u] + Left(u) = uploadSent[u]
         /\ host[u] = "streaming" \/ Has(u, "end")
    /\ u \notin stream /\ uploadFile[u] # None =>
         /\ uploadFile[u] = Chunks /\ ~Has(u, "chunk") /\ ~Has(u, "end")
         /\ host[u] \in {"ended", "ok", "failed"}

\* The runner reports an upload when it has done the operations on it.
ReportTrue(u) ==
    FileTold(u) \/ entry[u] = "ok" \/ host[u] = "ok" =>
        /\ host[u] \in {"ended", "ok", "failed"}
        /\ ~Has(u, "begin") /\ ~Has(u, "chunk") /\ ~Has(u, "end") /\ u \notin stream
        /\ host[u] # "failed" /\ session => uploadFile[u] = Chunks

\* What failed is removed, and so is what belongs to a deleted session.
Removed(u) ==
    /\ host[u] = "failed" =>
         Has(u, "delete")
             \/ (u \notin stream /\ uploadFile[u] = None /\ \A x \in Files!Op : ~Has(u, x))
    /\ host[u] = "ok" /\ ~session => CleanupDue \/ (u \notin stream /\ uploadFile[u] = None)

Intact(u) == u \notin torn => OpsSent(u) /\ FileWhole(u) /\ ReportTrue(u) /\ Removed(u)

UploadsInv ==
    /\ Files!TypeOK /\ (CleanupDue => ~session)
    /\ \A u \in Files!Upload : HostSide(u) /\ ChunksCounted(u) /\ Intact(u)

-----------------------------------------------------------------------------
(* The sign-in of Codex.                                                   *)

SignInBounded ==
    MaxActions \in Nat /\ MaxFlows \in Nat /\ MaxIssues \in Nat /\ None \notin Nat

Stages == {"none", "running", "checking", "done", "failed"}

\* A sign-in that is active is the present one, and waits.
ActiveWaits ==
    /\ \A f \in SignIn!Flow : children[f] # "none" => flow \in SignIn!Flow
    /\ signinActive => flow \in SignIn!Flow /\ flows[flow] = "waiting"

\* What was not asked for yet is no start.
NoStartYet == \A a \in SignIn!Action : action[a].stage = "none" => action[a].kind # "start"

SignInInv ==
    SignIn!TypeOK /\ ActiveWaits /\ NoStartYet /\ SignIn!PendingHasProcess /\ SignIn!IssueStays

-----------------------------------------------------------------------------
(* The requests to Codex.                                                  *)

Method == {"thread/resume", "thread/start", "turn/start"}

\* What was tried of the forms of this method has been refused.
TriedRefused ==
    stage \in Method =>
        /\ left \subseteq Codex!Forms(stage, set)
        /\ \A f \in Codex!Forms(stage, set) \ left : ~Codex!Accepts(stage, f)

\* The options do not name a key, and there is no thread before one is opened.
Opening ==
    /\ "key" \notin set
    /\ stage \in {"idle", "thread/resume", "thread/start"} => threadForm = Codex!NoForm

RequestsInv == Codex!TypeOK /\ Opening /\ TriedRefused /\ Codex!OptionsKept /\ Codex!FailsForCause

-----------------------------------------------------------------------------
(* Upgrades of a runner.                                                   *)

UpgradeBounded ==
    /\ MaxUpgrades \in Nat /\ Pieces \in Nat /\ MaxUpgradeFaults \in Nat /\ None \notin Nat

\* A message about upgrade u is on its way, to the runner and to the host.
In(u, m) == Occurs(upgradeToRunner, <<m, u>>)
Out(u, a) == Occurs(upgradeToHost, <<a, u>>)
Coming(u, m) == Count(upgradeToRunner, <<m, u>>)

\* Before its request is offered, the runner has not heard of an upgrade.
UpgradeUntouched(u) ==
    upgradeRequest[u] \in {"none", "packing"} =>
        /\ \A m \in Runner!Message : ~In(u, m)
        /\ \A a \in Runner!Answer : ~Out(u, a)
        /\ u \notin opening /\ transfer # u /\ ending[u] = "no" /\ upgradeSent[u] = 0

\* The transfer of an upgrade begins once, and before anything is reported of it.
BegunOnce(u) ==
    /\ Coming(u, "start") <= 1 /\ (u \in opening => Coming(u, "start") = 0)
    /\ In(u, "start") \/ u \in opening =>
        /\ upgradeRequest[u] \in {"asking", "failed"} /\ ending[u] = "no" /\ transfer # u
        /\ ~Out(u, "accepted") /\ ~Out(u, "received")

\* No chunk is written twice.
ChunksFit(u) == written[u] + Coming(u, "chunk") <= upgradeSent[u]

\* What is unpacked, and then reported, was received whole.
WholeWhenUsed(u) ==
    /\ ending[u] \in {"unpacking", "switching", "switched"} => written[u] = Pieces
    /\ ending[u] = "switched" => upgradeCurrent
    /\ Out(u, "received") \/ upgradeRequest[u] = "done" => written[u] = Pieces /\ upgradeCurrent

UpgradeOk(u) == UpgradeUntouched(u) /\ BegunOnce(u) /\ ChunksFit(u) /\ WholeWhenUsed(u)

Failed == {u \in Runner!Upgrade : upgradeRequest[u] = "failed"}

UpgradeInv ==
    /\ Runner!TypeOK /\ crashes <= Cardinality(Failed)
    /\ \A u \in Runner!Upgrade : UpgradeOk(u)

-----------------------------------------------------------------------------
(* Updates of the host.                                                    *)

Accounted(r) == r \in disk \/ Host!Placing(r) \/ r \in updateLost

\* The release of a request that is about to switch to it.
SwitchIsThere == \A u \in Host!Update : updateRequest[u] = "switching" => Accounted(target[u])

\* What current was when a request looked is not among what it removes.
SeenSpared ==
    \A u \in Host!Update : updateRequest[u] = "removing" => <<"release", updateSeen[u]>> \notin doomed[u]

UpdateInv == Host!TypeOK /\ Host!CurrentIsThere /\ SwitchIsThere /\ SeenSpared

-----------------------------------------------------------------------------
(* The installed service.                                                  *)

ServiceBounded == MaxCommands \in Nat /\ MaxTroubles \in Nat

At(c, stages) == commands[c].at \in stages
OfKind(c, kinds) == commands[c].kind \in kinds

Fits(c) ==
    /\ At(c, {"fetch", "download", "tools"}) => OfKind(c, Service!Scripts)
    /\ At(c, {"ask"}) => OfKind(c, {"setup"})
    /\ At(c, {"check", "config", "written"}) => OfKind(c, Service!Scripts \cup {"setup"})
    /\ At(c, {"load"}) => OfKind(c, Service!Kind \ {"setup"})
    /\ At(c, {"release", "unit", "enable", "bootstrap", "restart"}) =>
        OfKind(c, Service!Kind \ {"remove-service"})
    /\ At(c, {"remove"}) => OfKind(c, {"remove-service"})
    /\ At(c, {"save", "saved"}) => OfKind(c, Service!Kind \ {"setup"})
    /\ At(c, {"none"}) => OfKind(c, {"none"})
    /\ At(c, {"config", "written"}) /\ OfKind(c, {"setup"}) => commands[c].config.at = "whole"
    /\ At(c, {"saved"}) => commands[c].config.at # "none"

Alone == ~overlapped => \A c, d \in Service!Underway : c = d

NoneYet == config.at = "none" => config = Service!NoConfig

Forced == \E c \in Service!Command : commands[c].kind = "forced"

\* From load on a command has the machineId that is written; before it, a setup
\* or a script has seen that there is none.
Loaded == {"release", "unit", "enable", "bootstrap", "restart", "remove", "save", "saved"}
MachineKept(c) ==
    /\ At(c, {"done"}) => commands[c].config.machine \in {0, config.machine}
    /\ At(c, Loaded) => commands[c].config.machine = config.machine
    /\ At(c, {"download", "tools", "ask", "config"}) => config.at = "none"
    /\ At(c, {"written"}) => config.machine = 0
OneMachine == ~overlapped /\ ~Forced => \A c \in Service!Command : MachineKept(c)

Agreed == config.at = "whole" => config.autostart = enabled
Enabling == {"unit", "enable", "bootstrap", "restart"}

StepAgrees(c) ==
    /\ At(c, {"fetch", "check", "download", "tools", "ask", "config", "remove"}) => Agreed
    /\ At(c, {"load"}) => IF OfKind(c, Service!Scripts) THEN config.at = "whole" ELSE Agreed
    /\ At(c, {"ask", "config", "written", "release"}) /\ OfKind(c, {"setup"}) => ~enabled
    /\ At(c, {"ask", "config"}) /\ OfKind(c, {"setup"}) => config.at = "none"
    /\ At(c, {"release"}) /\ OfKind(c, {"update-local"}) => Agreed
    /\ At(c, {"release", "remove"}) => commands[c].config = config /\ config.at # "torn"
    /\ At(c, {"release"}) /\ OfKind(c, Service!Kind \ {"update-local"}) => config.at = "whole"
    /\ At(c, Enabling \cup {"save"}) => config.at = "whole" /\ commands[c].config.at = "whole"
    /\ At(c, Enabling) /\ OfKind(c, {"setup"}) => config.autostart
    /\ At(c, {"restart"}) => enabled
    /\ At(c, {"save", "saved"}) => (enabled <=> commands[c].kind # "remove-service")
Current == service.at = "up" => service.release = serviceCurrent
CleanAgrees ==
    Service!Clean =>
        /\ \A c \in Service!Underway : StepAgrees(c)
        /\ Service!Underway = {} => Agreed
        /\ enabled \/ service.at = "down"
        /\ config.at = "none" => ~enabled
        /\ Current \/ \E c \in Service!Underway : At(c, Enabling)
ServiceInv == Service!TypeOK /\ Alone /\ NoneYet /\ OneMachine /\ CleanAgrees
    /\ \A c \in Service!Command : Fits(c)
=============================================================================
