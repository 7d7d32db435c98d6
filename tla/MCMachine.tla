----------------------------- MODULE MCMachine ------------------------------
(***************************************************************************)
(* Small instances of what the page asks of a machine: terminals, editors, *)
(* attachments, files and Git, the sign-in of Codex, its requests, the     *)
(* releases that the host and the runner install, and the service that     *)
(* they are.  The parts do not touch each other: one is chosen, and the    *)
(* others stand still.                                                     *)
(***************************************************************************)
EXTENDS Naturals

CONSTANTS
    Workspaces, MaxTerminals, MaxCalls, MaxFrames, MaxBreaks, None, MaxRequests,
    MaxSteps, MaxEditors, MaxFaults, MaxPanes, MaxUploads, Chunks, MaxUploadFaults, MaxActions,
    MaxFlows, MaxIssues, Spellings, MaxUpgrades, Pieces, MaxUpgradeFaults, MaxUpdates,
    MaxKills, Keep, MaxCommands, MaxTroubles

\* The bounds are numbers, there is a workspace and an attachment, and None is
\* neither of them.
ASSUME MCMachineAssumption ==
    /\ Workspaces # {} /\ 0 \notin Workspaces /\ None \notin Nat
    /\ MaxTerminals \in Nat /\ MaxCalls \in Nat /\ MaxFrames \in Nat /\ MaxBreaks \in Nat
    /\ MaxRequests \in Nat /\ MaxSteps \in Nat
    /\ MaxEditors \in Nat /\ MaxFaults \in Nat /\ MaxPanes \in Nat
    /\ MaxUploads \in Nat \ {0} /\ Chunks \in Nat /\ MaxUploadFaults \in Nat
    /\ MaxActions \in Nat /\ MaxFlows \in Nat /\ MaxIssues \in Nat
    /\ Spellings \in Nat
    /\ MaxUpgrades \in Nat /\ Pieces \in Nat /\ MaxUpgradeFaults \in Nat
    /\ MaxUpdates \in Nat /\ MaxKills \in Nat
    /\ MaxCommands \in Nat /\ MaxTroubles \in Nat

VARIABLES
    part,       \* the part of the system that is checked
    terminalsLink, breaks, terminalsToRunner, terminalsToHost, shell, record, placed,
    cwd, workspace, terminalsShown, live, starting, terminalsCalls, deletes, cutOff,
    pagesLink, steps, requests, pagesToRunner, pagesToHost, jobs, repo, context,
    gitStatus, gitLoading, gitWorking, gitError, entries, pagesFile, crossed, byShell,
    ideLink, ideFaults, ideActive, panes, ideCalls, ideKnown, ideToRunner, log, acked,
    handled, phase, managed, program, stray, ideLost, ideLeft,
    uploadLink, uploadFaults, session, host, uploadSent, entry, hostFile, rows,
    uploadToRunner, ops, stream, uploadFile, cleaning, uploadOutbox, torn,
    action, signinWorking, installed, signedIn, flows, signinActive, flow, process,
    children, checks, status, issue, issues, signinShown, loading,
    stage, set, codexKnown, accepted, turnsFail, left, codexSent, threadForm, warnings,
    upgradeLink, upgradeFaults, upgradeRequest, upgradeSent, bundle, upgradeToRunner,
    upgradeToHost, opening, transfer, written, ending, release, upgradeCurrent,
    restarting, crashes,
    updateRequest, target, updateWorking, awaiting, exitSet, timer, turn, pending,
    disk, updateCurrent, updateSeen, doomed, kills, updateLost,
    token, commands, config, serviceCurrent, unit, enabled, service, manager,
    overlapped, troubles

Terms == INSTANCE Terminals WITH
    link <- terminalsLink, toRunner <- terminalsToRunner, toHost <- terminalsToHost,
    shown <- terminalsShown, calls <- terminalsCalls
Requests == INSTANCE MachineRequests WITH
    link <- pagesLink, toRunner <- pagesToRunner, toHost <- pagesToHost,
    file <- pagesFile, shell <- byShell
Editors == INSTANCE IdeSessions WITH
    link <- ideLink, faults <- ideFaults, active <- ideActive, calls <- ideCalls,
    known <- ideKnown, toRunner <- ideToRunner, lost <- ideLost, left <- ideLeft
Files == INSTANCE Uploads WITH
    link <- uploadLink, faults <- uploadFaults, sent <- uploadSent,
    toRunner <- uploadToRunner, file <- uploadFile, outbox <- uploadOutbox
SignIn == INSTANCE CodexSignIn WITH
    working <- signinWorking, active <- signinActive, shown <- signinShown
Codex == INSTANCE CodexRequests WITH
    known <- codexKnown, sent <- codexSent
Runner == INSTANCE RunnerUpgrade WITH
    link <- upgradeLink, faults <- upgradeFaults, request <- upgradeRequest,
    sent <- upgradeSent, toRunner <- upgradeToRunner, toHost <- upgradeToHost,
    current <- upgradeCurrent
Host == INSTANCE HostUpdate WITH
    request <- updateRequest, working <- updateWorking, current <- updateCurrent,
    seen <- updateSeen, lost <- updateLost
Service == INSTANCE Installation WITH
    current <- serviceCurrent

terminalsVars == <<terminalsLink, breaks, terminalsToRunner, terminalsToHost, shell,
    record, placed, cwd, workspace, terminalsShown, live, starting, terminalsCalls,
    deletes, cutOff>>
pagesVars == <<pagesLink, steps, requests, pagesToRunner, pagesToHost, jobs, repo,
    context, gitStatus, gitLoading, gitWorking, gitError, entries, pagesFile, crossed,
    byShell>>
ideVars == <<ideLink, ideFaults, ideActive, panes, ideCalls, ideKnown, ideToRunner, log,
    acked, handled, phase, managed, program, stray, ideLost, ideLeft>>
uploadVars == <<uploadLink, uploadFaults, session, host, uploadSent, entry, hostFile,
    rows, uploadToRunner, ops, stream, uploadFile, cleaning, uploadOutbox, torn>>
signinVars == <<action, signinWorking, installed, signedIn, flows, signinActive, flow,
    process, children, checks, status, issue, issues, signinShown, loading>>
codexVars == <<stage, set, codexKnown, accepted, turnsFail, left, codexSent,
    threadForm, warnings>>
upgradeVars == <<upgradeLink, upgradeFaults, upgradeRequest, upgradeSent, bundle,
    upgradeToRunner, upgradeToHost, opening, transfer, written, ending, release,
    upgradeCurrent, restarting, crashes>>
updateVars == <<updateRequest, target, updateWorking, awaiting, exitSet, timer, turn,
    pending, disk, updateCurrent, updateSeen, doomed, kills, updateLost>>
serviceVars == <<token, commands, config, serviceCurrent, unit, enabled, service,
    manager, overlapped, troubles>>
vars == <<part, terminalsVars, pagesVars, ideVars, uploadVars, signinVars, codexVars,
    upgradeVars, updateVars, serviceVars>>

Init ==
    /\ part \in {"terminals", "pages", "ide", "upload", "signin", "codex", "upgrade",
        "update", "service"}
    /\ Terms!Init
    /\ Requests!Init
    /\ Editors!Init
    /\ Files!Init
    /\ SignIn!Init
    /\ Codex!Init
    /\ Runner!Init
    /\ Host!Init
    /\ Service!Init /\ (part # "service" => manager = "systemd")

Next ==
    \/ /\ part = "terminals" /\ Terms!Next
       /\ UNCHANGED <<part, pagesVars, ideVars, uploadVars, signinVars, codexVars,
                       upgradeVars, updateVars, serviceVars>>
    \/ /\ part = "pages" /\ Requests!Next
       /\ UNCHANGED <<part, terminalsVars, ideVars, uploadVars, signinVars, codexVars,
                       upgradeVars, updateVars, serviceVars>>
    \/ /\ part = "ide" /\ Editors!Next
       /\ UNCHANGED <<part, terminalsVars, pagesVars, uploadVars, signinVars,
                       codexVars, upgradeVars, updateVars, serviceVars>>
    \/ /\ part = "upload" /\ Files!Next
       /\ UNCHANGED <<part, terminalsVars, pagesVars, ideVars, signinVars, codexVars,
                       upgradeVars, updateVars, serviceVars>>
    \/ /\ part = "signin" /\ SignIn!Next
       /\ UNCHANGED <<part, terminalsVars, pagesVars, ideVars, uploadVars, codexVars,
                       upgradeVars, updateVars, serviceVars>>
    \/ /\ part = "codex" /\ Codex!Next
       /\ UNCHANGED <<part, terminalsVars, pagesVars, ideVars, uploadVars, signinVars,
                       upgradeVars, updateVars, serviceVars>>
    \/ /\ part = "upgrade" /\ Runner!Next
       /\ UNCHANGED <<part, terminalsVars, pagesVars, ideVars, uploadVars, signinVars,
                       codexVars, updateVars, serviceVars>>
    \/ /\ part = "update" /\ Host!Next
       /\ UNCHANGED <<part, terminalsVars, pagesVars, ideVars, uploadVars, signinVars,
                       codexVars, upgradeVars, serviceVars>>
    \/ /\ part = "service" /\ Service!Next
       /\ UNCHANGED <<part, terminalsVars, pagesVars, ideVars, uploadVars, signinVars,
                       codexVars, upgradeVars, updateVars>>

Spec == Init /\ [][Next]_vars

-----------------------------------------------------------------------------
(* The properties of the parts, named for the runs.                        *)

TypeOK ==
    /\ Terms!TypeOK /\ Requests!TypeOK /\ Editors!TypeOK /\ Files!TypeOK
    /\ SignIn!TypeOK /\ Codex!TypeOK /\ Runner!TypeOK /\ Host!TypeOK
    /\ Service!TypeOK

\* The page, the host and the runner agree on which shells run
\* (runnerTerminalManager, hostRunnerEvents, App.vue).
RecordsAgree == Terms!RecordsAgree

\* One change of the files of a workspace runs at a time, and what the page shows
\* of Git is not older than the last one (App.vue, runGitMutation).
GitIsFresh == Requests!OneMutation /\ Requests!StatusIsFresh

\* What the host lists of editors is what runs, and what nobody can reach is
\* stopped (ideManager, machineControls).
EditorsAgree == Editors!HostAgrees /\ Editors!NothingLeft

\* An attachment that counts as uploaded is whole, and none stays behind on the
\* disk of the host (uploads, runnerUploadManager).
UploadsAreWhole == Files!RowsAreWhole /\ Files!NothingLeft

\* What the page shows of the sign-in of Codex has a cause, and a request to Codex
\* is tried with every option that was set before it is given up, and given up
\* for a reason only (runnerToolsManager, codexSessionProtocol).
CodexReady == SignIn!SignInAgrees /\ Codex!OptionsKept /\ Codex!FailsForCause

\* A runner that reports an upgrade has installed it; the release that the host
\* would start next is on its disk; the service that runs, its unit and the
\* configuration are those that were written last (runnerReleaseManager,
\* managedRelease, runSetupWizard, localRuntimeCommands).
ReleasesAgree ==
    /\ Runner!SuccessIsInstalled /\ Host!CurrentIsThere
    /\ Service!AutostartAgrees /\ Service!RunsCurrent /\ Service!ConfigKept
=============================================================================
