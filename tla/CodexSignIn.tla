----------------------------- MODULE CodexSignIn -----------------------------
(***************************************************************************)
(* The tools of a runner, Codex above all: it is installed, signed in with  *)
(* a key or through a browser and signed out from the settings of the page. *)
(*                                                                         *)
(* The actions go through the host to the runner, which does one at a time. *)
(* A browser sign-in is a process that outlives its action; its end, a      *)
(* report of a session that Codex refuses to work, and the answers of       *)
(* `codex login status` come at any time.                                   *)
(***************************************************************************)
EXTENDS Naturals, FiniteSets

CONSTANTS
    MaxActions,     \* bound: actions asked for
    MaxFlows,       \* bound: browser sign-ins
    MaxIssues,      \* bound: reports of sessions
    None

Action == 1..MaxActions
Flow == 1..MaxFlows
Command == {"upgrade", "logout", "login"}      \* what runs a command of its own

VARIABLES
    action,     \* what was asked for, and how far it is
    working,    \* toolState.working
    installed,  \* the managed Codex was found
    signedIn,   \* what Codex itself knows
    flows,      \* the browser sign-ins: their status
    active,     \* authState.flow is active
    flow,       \* authState.flow
    process,    \* codexDeviceAuthProcess
    children,   \* processes of sign-ins
    checks,     \* runs of login status, by what waits for them, and what they saw
    status,     \* authState.status
    issue,      \* authState.detectedIssue
    issues,     \* bounded
    shown,      \* the status that the page shows
    loading     \* a GET of the page is underway, with the status it was answered

vars == <<action, working, installed, signedIn, flows, active, flow, process, children, checks,
          status, issue, issues, shown, loading>>
authVars == <<status, issue>>
flowVars == <<flows, active, flow, process, children>>
pageVars == <<shown, loading>>

Status == {"unknown", "pending", "authenticated", "not-authenticated", "reauth", "unavailable"}
Waits == Action \cup {0}            \* who waits for login status: an action, or the end of a sign-in

TypeOK ==
    /\ action \in [Action -> [kind : Command \cup {"start"}, stage : {"none", "running", "checking", "done", "failed"}]]
    /\ working \in BOOLEAN /\ installed \in BOOLEAN /\ signedIn \in BOOLEAN
    /\ flows \in [Flow -> {"none", "waiting", "cancelled", "completed", "failed"}]
    /\ active \in BOOLEAN /\ flow \in Flow \cup {None} /\ process \in Flow \cup {None}
    /\ children \in [Flow -> {"none", "runs", "signed-in", "closed"}]
    /\ checks \in SUBSET (Waits \X {"asked", "yes", "no"})
    /\ status \in Status /\ issue \in BOOLEAN /\ issues \in 0..MaxIssues
    /\ shown \in Status /\ loading \in Status \cup {None}

Init ==
    /\ action = [a \in Action |-> [kind |-> "upgrade", stage |-> "none"]]
    /\ working = FALSE /\ installed = TRUE /\ signedIn = FALSE
    /\ flows = [f \in Flow |-> "none"] /\ active = FALSE /\ flow = None /\ process = None
    /\ children = [f \in Flow |-> "none"] /\ checks = {} /\ status = "not-authenticated"
    /\ issue = FALSE /\ issues = 0 /\ shown = "unknown" /\ loading = None

-----------------------------------------------------------------------------
(* refreshCodexAuth.                                                       *)

Refresh(w, clear) ==
    /\ issue' = (issue /\ ~clear)
    /\ IF active' THEN status' = "pending" /\ UNCHANGED checks
       ELSE IF ~installed' THEN status' = "unavailable" /\ UNCHANGED checks
       ELSE checks' = checks \cup {<<w, "asked">>} /\ UNCHANGED status

\* Codex answers from what it knows at some moment of the run.
Look ==
    /\ \E c \in checks : c[2] = "asked" /\
           checks' = (checks \ {c}) \cup {<<c[1], IF signedIn THEN "yes" ELSE "no">>}
    /\ UNCHANGED <<action, working, installed, signedIn, flowVars, authVars, issues, pageVars>>

\* Wrong: the answer of Codex counts, whatever a session has met.
AnsweredForgetting(w, seen) ==
    /\ <<w, seen>> \in checks /\ seen # "asked" /\ checks' = checks \ {<<w, seen>>}
    /\ status' = IF seen = "yes" THEN "authenticated" ELSE "not-authenticated"
    /\ UNCHANGED issue

\* The answer counts, but for an issue that a session has met and that was not
\* cleared since.
Answered(w, seen) ==
    /\ <<w, seen>> \in checks /\ seen # "asked" /\ checks' = checks \ {<<w, seen>>}
    /\ status' = IF issue THEN "reauth"
                 ELSE IF seen = "yes" THEN "authenticated" ELSE "not-authenticated"
    /\ UNCHANGED issue

\* reportCodexAuthIssue: a session was refused.
ReportIssue ==
    /\ issues < MaxIssues /\ issues' = issues + 1 /\ issue' = TRUE /\ status' = "reauth"
    /\ UNCHANGED <<action, working, installed, signedIn, flowVars, checks, pageVars>>

-----------------------------------------------------------------------------
(* The actions: upgrade and auth of the tools manager, reached through      *)
(* machine.tools.upgrade and machine.tools.auth.                           *)

Stage(a, stage) == action' = [action EXCEPT ![a].stage = stage]
Ends(a, stage) == Stage(a, stage) /\ working' = FALSE
Waiting(a) == <<a, "asked">> \in checks'

\* After what an action did, its answer waits for the state of the sign-in, if
\* that has to be asked for.
RefreshFor(a, clear, ended) ==
    /\ Refresh(a, clear)
    /\ IF Waiting(a) THEN Stage(a, IF ended = "failed" THEN "failed" ELSE "checking") /\ working' = TRUE
       ELSE Ends(a, ended)

Asked(a) ==
    action[a].stage = "none" /\ (\A b \in 1..(a - 1) : action[b].stage # "none") /\ ~working

\* Actions are refused while one is at work; the page does not offer them then.
Refused(a) ==
    /\ action[a].stage = "none" /\ \A b \in 1..(a - 1) : action[b].stage # "none"
    /\ working /\ Stage(a, "failed")
    /\ UNCHANGED <<working, installed, signedIn, flowVars, checks, authVars, issues, pageVars>>

\* refresh.
AskRefresh(a) ==
    /\ Asked(a) /\ UNCHANGED flowVars /\ installed' = installed
    /\ RefreshFor(a, TRUE, "done") /\ UNCHANGED <<signedIn, issues, pageVars>>

\* The catch of auth, for what fails before anything has run: Codex is not installed,
\* or no key was given.
Denied(a) ==
    /\ Asked(a) /\ UNCHANGED <<flowVars, installed>> /\ RefreshFor(a, FALSE, "failed")
    /\ UNCHANGED <<signedIn, issues, pageVars>>

\* logout, login --with-api-key and the install command run for a while.
Run(a, k) ==
    /\ Asked(a) /\ (k = "upgrade" \/ installed) /\ working' = TRUE
    /\ action' = [action EXCEPT ![a] = [kind |-> k, stage |-> "running"]]
    /\ UNCHANGED <<installed, signedIn, flowVars, checks, authVars, issues, pageVars>>

\* Each may fail.  What was installed is looked for after the command.
Ran(a) ==
    /\ action[a].stage = "running" /\ UNCHANGED flowVars
    /\ \/ /\ action[a].kind \in {"logout", "login"} /\ signedIn' = (action[a].kind = "login")
          /\ UNCHANGED installed /\ RefreshFor(a, TRUE, "done")
       \/ /\ action[a].kind \in {"logout", "login"} /\ UNCHANGED <<signedIn, installed>>
          /\ RefreshFor(a, FALSE, "failed")
       \/ /\ action[a].kind = "upgrade" /\ installed' \in BOOLEAN /\ UNCHANGED signedIn
          /\ \E ended \in {"done", "failed"} : RefreshFor(a, FALSE, ended)
    /\ UNCHANGED <<issues, pageVars>>

Checked(a) ==
    /\ action[a].stage \in {"checking", "failed"} /\ \E seen \in {"yes", "no"} : Answered(a, seen)
    /\ Ends(a, IF action[a].stage = "failed" THEN "failed" ELSE "done")
    /\ UNCHANGED <<installed, signedIn, flowVars, issues, pageVars>>

NewFlow(f, as) ==
    /\ flows[f] = "none" /\ \A g \in 1..(f - 1) : flows[g] # "none"
    /\ flow' = f /\ flows' = [flows EXCEPT ![f] = as]

\* startDeviceAuth: a sign-in that is active is shown again.
Start(a) ==
    /\ Asked(a) /\ installed /\ Ends(a, "done")
    /\ IF process # None /\ active THEN UNCHANGED <<flowVars, status>>
       ELSE \E f \in Flow :
           /\ NewFlow(f, "waiting") /\ active' = TRUE
           /\ process' = f /\ children' = [children EXCEPT ![f] = "runs"] /\ status' = "pending"
    /\ UNCHANGED <<installed, signedIn, checks, issue, issues, pageVars>>

\* The process cannot be spawned: the sign-in has failed and Codex is taken to be
\* signed out, whatever a session has met, until login status has been asked.
StartFails(a) ==
    /\ Asked(a) /\ installed /\ ~(process # None /\ active)
    /\ \E f \in Flow : NewFlow(f, "failed")
    /\ active' = FALSE /\ status' = "not-authenticated" /\ checks' = checks \cup {<<a, "asked">>}
    /\ action' = [action EXCEPT ![a] = [kind |-> "start", stage |-> "failed"]] /\ working' = TRUE
    /\ UNCHANGED <<installed, signedIn, process, children, issue, issues, pageVars>>

\* cancelDeviceAuth.
Cancel(a) ==
    /\ Asked(a)
    /\ IF active /\ process # None
       THEN /\ flows' = [flows EXCEPT ![flow] = "cancelled"] /\ active' = FALSE
            /\ UNCHANGED installed /\ RefreshFor(a, TRUE, "done")
       ELSE /\ UNCHANGED <<flows, active, installed>> /\ RefreshFor(a, FALSE, "failed")
    /\ UNCHANGED <<signedIn, flow, process, children, issues, pageVars>>

-----------------------------------------------------------------------------
(* The process of a browser sign-in.                                       *)

SignsIn(f) ==
    /\ children[f] = "runs" /\ children' = [children EXCEPT ![f] = "signed-in"] /\ signedIn' = TRUE
    /\ UNCHANGED <<action, working, installed, flows, active, flow, process, checks, authVars, issues,
                   pageVars>>

\* Wrong: the end of a sign-in that was not completed is not looked at.
ClosedUnseen(f) ==
    /\ children[f] \in {"runs", "signed-in"} /\ children' = [children EXCEPT ![f] = "closed"]
    /\ process' = None
    /\ IF children[f] = "signed-in"
       THEN /\ flows' = [flows EXCEPT ![flow] = "completed"] /\ active' = FALSE
            /\ UNCHANGED installed /\ Refresh(0, TRUE)
       ELSE UNCHANGED <<flows, active, installed, checks, authVars>>
    /\ UNCHANGED <<action, working, signedIn, flow, issues, pageVars>>

\* finalizeCodexDeviceAuthFlow: whichever process has ended, the present flow
\* ends with it.  A cancelled one has a completion time already, and is left as
\* it is.
Closed(f) ==
    /\ children[f] \in {"runs", "signed-in"} /\ children' = [children EXCEPT ![f] = "closed"]
    /\ process' = None
    /\ IF flows[flow] # "waiting" THEN UNCHANGED <<flows, active, installed, checks, authVars>>
       ELSE /\ flows' = [flows EXCEPT ![flow] =
                    IF children[f] = "signed-in" THEN "completed" ELSE "failed"]
            /\ active' = FALSE /\ UNCHANGED installed /\ Refresh(0, children[f] = "signed-in")
    /\ UNCHANGED <<action, working, signedIn, flow, issues, pageVars>>

\* After a success login status is asked until it says so, eight times at most.
EndChecked ==
    /\ \E seen \in {"yes", "no"} : Answered(0, seen)
    /\ UNCHANGED <<action, working, installed, signedIn, flowVars, issues, pageVars>>

-----------------------------------------------------------------------------
(* The page: loadMachineTools, and the answers of its own actions.         *)

Load ==
    /\ loading = None /\ loading' = status
    /\ UNCHANGED <<action, working, installed, signedIn, flowVars, checks, authVars, issues, shown>>
Loaded ==
    /\ loading # None /\ shown' = loading /\ loading' = None
    /\ UNCHANGED <<action, working, installed, signedIn, flowVars, checks, authVars, issues>>

Next ==
    \/ \E a \in Action :
        \/ Refused(a) \/ AskRefresh(a) \/ Denied(a) \/ Start(a) \/ StartFails(a) \/ Cancel(a)
        \/ Ran(a) \/ Checked(a)
        \/ \E k \in Command : Run(a, k)
    \/ \E f \in Flow : SignsIn(f) \/ Closed(f)
    \/ Look \/ EndChecked \/ ReportIssue \/ Load \/ Loaded

Spec == Init /\ [][Next]_vars

-----------------------------------------------------------------------------

\* A sign-in that is shown as pending has a process that will end it: the page
\* does not wait for nothing (startCodexDeviceAuth, finalizeCodexDeviceAuthFlow).
PendingHasProcess ==
    active => \E f \in Flow : children[f] \in {"runs", "signed-in"}

\* The answer of login status that follows a sign-in that could not be started.
StartUnchecked ==
    \E a \in Action : action[a].kind = "start" /\ (\E c \in checks : c[1] = a)

\* What a session has met stays shown until an action or a sign-in clears it,
\* through every answer of login status that was asked for before or after; but for
\* the time that login status takes after a sign-in that could not be started
\* (reportCodexAuthIssue, refreshCodexAuth, startCodexDeviceAuth).
IssueStays == issue => status \in {"reauth", "pending", "unavailable"} \/ StartUnchecked

SignInAgrees == PendingHasProcess /\ IssueStays

\* A sign-in fails with its own process, if it has one.
FailsWithItsProcess ==
    \A f \in Flow : flows[f] \in {"completed", "failed"} => children[f] \in {"none", "closed"}
=============================================================================
