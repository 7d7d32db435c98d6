--------------------------- MODULE MachineRequests ---------------------------
(***************************************************************************)
(* Requests that the host passes on to the runner, and the panes for files *)
(* and git of a page, which make most of them.                             *)
(*                                                                         *)
(* A request has one entry in a book of the host until the result of the   *)
(* runner, ten seconds or the end of the connection settles it.  The page  *)
(* may change its workspace while it waits.  Git runs several commands for *)
(* one request: the first one changes the repository, of which only the    *)
(* number of changes is kept, and the status that is the result is read    *)
(* after it.  Two requests may be at work in one repository.  A request    *)
(* that changes the branch has no status in its result: the page asks for  *)
(* it in a second request.                                                 *)
(***************************************************************************)
EXTENDS Naturals, Sequences, FiniteSets

CONSTANTS
    Workspaces,
    None,           \* nothing is shown
    MaxRequests,    \* bound: requests
    MaxSteps        \* bound: broken connections and changes of the workspace

Request == 1..MaxRequests
Kind == {"list", "read", "status", "mutate", "branch", "again", "exec"}
Status == {"status", "again"}       \* "again": asked for after the branch was changed
Change == {"mutate", "branch"}
Git == Status \cup Change

VARIABLES
    link,       \* "up", "half" (broken, the host does not know) or "down"
    steps,      \* bounded steps so far
    requests,   \* kind, workspace and place of each request, and how it was settled
    toRunner, toHost,
    jobs,       \* what the runner does: "none", "begun", "acted", "done"
    repo,       \* changes made to the repository of each workspace
    shell,      \* history: repo when a shell command last changed it
    context,    \* currentWorkspaceContext
    gitStatus,  \* workspaceGitStatus: what the pane shows, or None
    gitLoading, gitWorking, gitError,
    entries,    \* the workspace of the directories shown, or None
    file,       \* the workspace of the file shown, or None
    crossed     \* history: a request for git was underway when the workspace changed,
                \* another one began, or the runner was still at work for one

vars == <<link, steps, requests, toRunner, toHost, jobs, repo, context, gitStatus, gitLoading,
          gitWorking, gitError, entries, file, crossed, shell>>
pane == <<context, gitStatus, gitLoading, gitWorking, gitError, entries, file, crossed>>
runnerVars == <<jobs, repo, shell>>

NoRequest == [kind |-> "exec", of |-> CHOOSE w \in Workspaces : TRUE, at |-> "none",
              result |-> "none", version |-> 0, empty |-> FALSE]

TypeOK ==
    /\ link \in {"up", "half", "down"} /\ steps \in 0..MaxSteps
    /\ requests \in [Request ->
         [kind : Kind, of : Workspaces, at : {"none", "asked", "pending", "answered", "done"},
          result : {"none", "ok", "failed", "unsent", "late", "lost"}, version : 0..MaxRequests,
          empty : BOOLEAN]]
    /\ toRunner \in Seq(Request) /\ toHost \in Seq(Request \X BOOLEAN)
    /\ jobs \in [Request -> {"none", "begun", "acted", "done"}]
    /\ repo \in [Workspaces -> 0..MaxRequests] /\ shell \in [Workspaces -> 0..MaxRequests]
    /\ context \in Workspaces
    /\ gitStatus = None \/ gitStatus \in
                             [of : Workspaces, version : 0..MaxRequests, empty : BOOLEAN]
    /\ gitLoading \in BOOLEAN /\ gitWorking \in BOOLEAN /\ gitError \in BOOLEAN
    /\ entries \in Workspaces \cup {None} /\ file \in Workspaces \cup {None}
    /\ crossed \in BOOLEAN

Init ==
    /\ link = "up" /\ steps = 0 /\ requests = [r \in Request |-> NoRequest]
    /\ toRunner = <<>> /\ toHost = <<>> /\ jobs = [r \in Request |-> "none"]
    /\ repo = [w \in Workspaces |-> 0] /\ shell = [w \in Workspaces |-> 0]
    /\ context = CHOOSE w \in Workspaces : TRUE
    /\ gitStatus = None /\ gitLoading = FALSE /\ gitWorking = FALSE /\ gitError = FALSE
    /\ entries = None /\ file = None /\ crossed = FALSE

-----------------------------------------------------------------------------
(* The page.                                                               *)

Underway(kinds) == {r \in Request : requests[r].kind \in kinds /\
                                    requests[r].at \in {"asked", "pending", "answered"}}
AtWork ==
    \E r \in Request : requests[r].kind \in Change /\
        (jobs[r] \in {"begun", "acted"} \/ \E i \in 1..Len(toRunner) : toRunner[i] = r)

Free(r) == requests[r].at = "none" /\ \A q \in 1..(r - 1) : requests[q].at # "none"
Asked(kind) == [kind |-> kind, of |-> context, at |-> "asked", result |-> "none",
                version |-> 0, empty |-> FALSE]

Ask(r, kind) ==
    /\ Free(r) /\ requests' = [requests EXCEPT ![r] = Asked(kind)]
    /\ crossed' = (crossed \/ (kind \in Git /\ (Underway(Git) # {} \/ AtWork)))
    /\ UNCHANGED <<link, steps, toRunner, toHost, runnerVars, context, gitStatus>>

\* loadWorkspaceFiles and ensureWorkspaceDirectoryLoaded; loadWorkspaceFile.
LoadFiles(r) == Ask(r, "list") /\ UNCHANGED <<gitLoading, gitWorking, gitError, entries, file>>
LoadFile(r) == Ask(r, "read") /\ UNCHANGED <<gitLoading, gitWorking, gitError, entries, file>>

\* refreshWorkspaceGit.
RefreshGit(r) ==
    /\ Ask(r, "status") /\ gitLoading' = TRUE /\ gitError' = FALSE
    /\ UNCHANGED <<gitWorking, entries, file>>

\* Wrong: only loading counts.
MutateWhileWorking(r) ==
    /\ ~gitLoading /\ gitWorking' = TRUE /\ gitError' = FALSE
    /\ \E kind \in Change : Ask(r, kind)
    /\ UNCHANGED <<gitLoading, entries, file>>

\* runWorkspaceGitMutation: stage, unstage, commit, push; switch and create branch.
Mutate(r) ==
    /\ ~gitLoading /\ ~gitWorking /\ gitWorking' = TRUE /\ gitError' = FALSE
    /\ \E kind \in Change : Ask(r, kind)
    /\ UNCHANGED <<gitLoading, entries, file>>

\* POST /api/terminal/exec has no caller on the page.
Exec(r) == Ask(r, "exec") /\ UNCHANGED <<gitLoading, gitWorking, gitError, entries, file>>

\* The watcher of the workspace context.  A change of the branch that is underway
\* does not cross it: the status is asked for with the context of a later moment.
ChangeContext(w) ==
    /\ w # context /\ context' = w /\ steps < MaxSteps /\ steps' = steps + 1
    /\ gitStatus' = None /\ gitError' = FALSE /\ entries' = None /\ file' = None
    /\ crossed' = (crossed \/ Underway(Git \ {"branch"}) # {})
    /\ UNCHANGED <<link, requests, toRunner, toHost, runnerVars, gitLoading, gitWorking>>

\* applyWorkspaceGitStatus.  The workspace it is of is not compared with the context.
ShowStatus(q) == [of |-> q.of, version |-> q.version, empty |-> q.empty]

\* The answer arrives on the page.
Shown(r) ==
    LET q == requests[r] IN
    /\ q.at = "answered" /\ ~(q.kind = "branch" /\ q.result = "ok")
    /\ requests' = [requests EXCEPT ![r].at = "done"]
    /\ gitStatus' = IF q.kind \in Git /\ q.result = "ok" THEN ShowStatus(q) ELSE gitStatus
    /\ gitError' = (gitError \/ (q.kind \in Git /\ q.result # "ok"))
    /\ gitLoading' = (gitLoading /\ q.kind \notin Status)
    /\ gitWorking' = (gitWorking /\ q.kind \notin {"mutate", "branch", "again"})
    /\ entries' = IF q.kind = "list" /\ q.result = "ok" THEN q.of ELSE entries
    /\ file' = IF q.kind # "read" THEN file ELSE IF q.result = "ok" THEN q.of ELSE None
    /\ UNCHANGED <<link, steps, toRunner, toHost, runnerVars, context, crossed>>

\* The answer to a change of the branch, which holds no status: refreshWorkspaceGit
\* again, for the context of now, while the page is still working.
ShownAgain(r) ==
    /\ requests[r].at = "answered" /\ requests[r].kind = "branch" /\ requests[r].result = "ok"
    /\ \E n \in Request :
         /\ Free(n)
         /\ requests' = [requests EXCEPT ![r].at = "done", ![n] = Asked("again")]
    /\ gitLoading' = TRUE /\ gitError' = FALSE
    /\ crossed' = (crossed \/ Underway(Git) # {r} \/ AtWork)
    /\ UNCHANGED <<link, steps, toRunner, toHost, runnerVars, context, gitStatus, gitWorking,
                   entries, file>>

Answered(r) == Shown(r) \/ ShownAgain(r)

-----------------------------------------------------------------------------
(* The host.                                                               *)

\* Settle: the first to come decides.
Settled(r, result) ==
    IF requests[r].at = "pending"
    THEN [requests EXCEPT ![r].at = "answered", ![r].result = result]
    ELSE requests

\* gitRequestOnRunner and its like: an entry in a book, and the request sent.
Pass(r) ==
    /\ requests' = [requests EXCEPT ![r].at = "pending"]
    /\ toRunner' = IF link = "up" THEN Append(toRunner, r) ELSE toRunner

\* No runner is connected: the entry is cancelled.
Refuse(r) ==
    /\ requests' = [requests EXCEPT ![r].at = "answered", ![r].result = "unsent"]
    /\ UNCHANGED toRunner

Route(r, kinds) ==
    /\ requests[r].at = "asked" /\ requests[r].kind \in kinds
    /\ IF link = "down" THEN Refuse(r) ELSE Pass(r)
    /\ UNCHANGED <<link, steps, toHost, runnerVars, pane>>

FileRoute(r) == Route(r, {"list", "read"})
StatusRoute(r) == Route(r, Status)
GitRoute(r) == Route(r, Change)
ExecRoute(r) == Route(r, {"exec"})

\* The timer of the entry.
TimesOut(r) ==
    /\ requests[r].at = "pending" /\ requests' = Settled(r, "late")
    /\ UNCHANGED <<link, steps, toRunner, toHost, runnerVars, pane>>

\* The results: what is not expected any more is dropped.
Result ==
    /\ toHost # <<>> /\ toHost' = Tail(toHost)
    /\ requests' = Settled(Head(toHost)[1], IF Head(toHost)[2] THEN "ok" ELSE "failed")
    /\ UNCHANGED <<link, steps, toRunner, runnerVars, pane>>

Break ==
    /\ link = "up" /\ steps < MaxSteps /\ steps' = steps + 1 /\ link' = "half"
    /\ toRunner' = <<>> /\ toHost' = <<>>
    /\ UNCHANGED <<requests, runnerVars, pane>>

\* onRunnerDisconnect, which a connection that was replaced does not call.
Disconnect ==
    /\ link = "half" /\ link' = "down"
    /\ requests' = [r \in Request |-> IF requests[r].at = "pending"
                      THEN [requests[r] EXCEPT !.at = "answered", !.result = "lost"]
                      ELSE requests[r]]
    /\ UNCHANGED <<steps, toRunner, toHost, runnerVars, pane>>

Reconnect ==
    /\ link \in {"half", "down"} /\ link' = "up"
    /\ UNCHANGED <<steps, requests, toRunner, toHost, runnerVars, pane>>

-----------------------------------------------------------------------------
(* The runner.                                                             *)

\* One handler for each type of request.
Receive(kinds) ==
    /\ toRunner # <<>> /\ toRunner' = Tail(toRunner) /\ requests[Head(toRunner)].kind \in kinds
    /\ jobs' = [jobs EXCEPT ![Head(toRunner)] = "begun"]
    /\ UNCHANGED <<link, steps, requests, toHost, repo, shell, pane>>

ReceiveFile == Receive({"list", "read"})
ReceiveGit == Receive(Git)
ReceiveExec == Receive({"exec"})

\* The git commands that change the repository.
Act(r) ==
    /\ jobs[r] = "begun" /\ requests[r].kind \in Change
    /\ jobs' = [jobs EXCEPT ![r] = "acted"] /\ repo' = [repo EXCEPT ![requests[r].of] = @ + 1]
    /\ UNCHANGED <<link, steps, requests, toRunner, toHost, shell, pane>>

\* A shell command may change any repository.
CommandActs(r, w) ==
    /\ jobs[r] = "begun" /\ requests[r].kind = "exec"
    /\ jobs' = [jobs EXCEPT ![r] = "acted"] /\ repo' = [repo EXCEPT ![w] = @ + 1]
    /\ shell' = [shell EXCEPT ![w] = repo[w] + 1]
    /\ UNCHANGED <<link, steps, requests, toRunner, toHost, pane>>

Report(r, ok) ==
    /\ jobs' = [jobs EXCEPT ![r] = "done"]
    /\ toHost' = IF link = "up" THEN Append(toHost, <<r, ok>>) ELSE toHost
    /\ UNCHANGED <<link, steps, toRunner, repo, shell, pane>>

\* getGitStatus, of a request that changes the repository after it has acted.  When
\* rev-parse fails or is killed the status is empty and the result is none the less
\* good.  Branches, remotes and differences, which are read afterwards and whose
\* failure is dropped, are not kept here.
ReadStatus(r) ==
    /\ requests[r].kind \in Status \cup {"mutate"}
    /\ jobs[r] = IF requests[r].kind = "mutate" THEN "acted" ELSE "begun"
    /\ \E empty \in BOOLEAN :
         requests' = [requests EXCEPT ![r].version = repo[requests[r].of], ![r].empty = empty]
    /\ Report(r, TRUE)

\* switchGitWithFallback: the name of the branch, and no status.
ReportBranch(r) ==
    /\ requests[r].kind = "branch" /\ jobs[r] = "acted"
    /\ Report(r, TRUE) /\ UNCHANGED requests

\* listWorkspaceEntries and readWorkspaceFile; execTerminalCommand.
ReadFiles(r) ==
    /\ requests[r].kind \in {"list", "read"} /\ jobs[r] = "begun"
    /\ Report(r, TRUE) /\ UNCHANGED requests
RunCommand(r) ==
    /\ requests[r].kind = "exec" /\ jobs[r] \in {"begun", "acted"}
    /\ Report(r, TRUE) /\ UNCHANGED requests

\* A command failed or was killed after its time, before or after the one that
\* changes the repository.
Fail(r) ==
    /\ jobs[r] \in {"begun", "acted"}
    /\ Report(r, FALSE) /\ UNCHANGED requests

Next ==
    \/ \E r \in Request :
         \/ LoadFiles(r) \/ LoadFile(r) \/ RefreshGit(r) \/ Mutate(r) \/ Exec(r) \/ Answered(r)
         \/ FileRoute(r) \/ StatusRoute(r) \/ GitRoute(r) \/ ExecRoute(r) \/ TimesOut(r)
         \/ Act(r) \/ ReadStatus(r) \/ ReportBranch(r) \/ ReadFiles(r) \/ RunCommand(r)
         \/ Fail(r)
    \/ \E r \in Request, w \in Workspaces : CommandActs(r, w)
    \/ \E w \in Workspaces : ChangeContext(w)
    \/ Result \/ Break \/ Disconnect \/ Reconnect
    \/ ReceiveFile \/ ReceiveGit \/ ReceiveExec

Spec == Init /\ [][Next]_vars

-----------------------------------------------------------------------------
(* Properties.                                                             *)

\* However the flags that requests share are set and cleared, the page has at most
\* one change of a repository underway, the status after it included.
OneMutation == Cardinality(Underway(Change \cup {"again"})) <= 1

\* When no request for git is underway and no error is shown, the pane shows the
\* workspace, and its repository as it is, unless a shell command changed it since it
\* was read, or the status is the empty one of a check that failed.  Exempt are pages
\* whose workspace changed, or where another request began, while one was underway.
StatusIsFresh ==
    ~crossed /\ ~gitError /\ Underway(Git) = {} /\ ~AtWork /\ gitStatus # None =>
        /\ gitStatus.of = context
        /\ \/ gitStatus.version = repo[context]
           \/ gitStatus.version < shell[context] \/ gitStatus.empty
=============================================================================
