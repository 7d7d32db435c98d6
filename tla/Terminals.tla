------------------------------ MODULE Terminals ------------------------------
(***************************************************************************)
(* Web terminals: the shells of the runner, the records that the host      *)
(* keeps of them and the one terminal that a page shows.                   *)
(*                                                                         *)
(* The frames between host and runner are not tracked: what is underway    *)
(* when the connection breaks is lost.  A request of the page waits for    *)
(* its answer; the page closes, opens and changes the workspace meanwhile. *)
(* What is typed and printed, and the size of the window, are left out.    *)
(***************************************************************************)
EXTENDS Naturals, Sequences, FiniteSets

CONSTANTS
    Workspaces,
    MaxTerminals,   \* bound: shells
    MaxCalls,       \* bound: openings by the page
    MaxFrames,      \* bound: frames underway in one direction
    MaxBreaks       \* bound: broken connections

Terminal == 1..MaxTerminals
Call == 1..MaxCalls
Nothing == 0

VARIABLES
    link,       \* "up", "half" (broken, the host does not know) or "down"
    breaks,     \* broken connections so far
    toRunner, toHost,
    shell,      \* "none", "starting", "mapped" (in terminals), "closing", "ended"
    record,     \* terminalSessions of the host: "none", "connected" or "exited"
    placed,     \* terminals whose cwd the host knows
    cwd,        \* the workspace each terminal was asked for, Nothing before
    workspace,  \* currentWorkspaceContext of the page
    shown,      \* workspaceTerminalSession: Nothing while it has no terminalId
    live,       \* its field connected
    starting,   \* workspaceTerminalStarting
    calls,      \* calls of ensureWorkspaceTerminal
    deletes,    \* DELETE requests of the page on their way
    cutOff      \* history: terminals that have seen a broken connection

vars == <<link, breaks, toRunner, toHost, shell, record, placed, cwd, workspace, shown, live,
          starting, calls, deletes, cutOff>>
wires == <<link, breaks>>
hostVars == <<record, placed, cwd>>
pageVars == <<workspace, shown, live, starting, calls, deletes>>

NoCall == [at |-> "none", cwd |-> CHOOSE w \in Workspaces : TRUE, reuse |-> TRUE,
           terminal |-> Nothing, live |-> FALSE]

TypeOK ==
    /\ link \in {"up", "half", "down"} /\ breaks \in 0..MaxBreaks
    /\ toRunner \in Seq({"start", "forward", "close"} \X Terminal)
    /\ toHost \in Seq({"started", "refused", "output", "exit"} \X Terminal)
    /\ shell \in [Terminal -> {"none", "starting", "mapped", "closing", "ended"}]
    /\ record \in [Terminal -> {"none", "connected", "exited"}]
    /\ placed \subseteq Terminal /\ cwd \in [Terminal -> Workspaces \cup {Nothing}]
    /\ workspace \in Workspaces /\ shown \in Terminal \cup {Nothing}
    /\ live \in BOOLEAN /\ starting \in BOOLEAN
    /\ calls \in [Call ->
         [at : {"none", "reopen", "change", "closing", "posting", "waiting", "answered", "done"},
          cwd : Workspaces, reuse : BOOLEAN, terminal : Terminal \cup {Nothing}, live : BOOLEAN]]
    /\ deletes \subseteq Terminal /\ cutOff \subseteq Terminal

Init ==
    LET w == CHOOSE w \in Workspaces : TRUE IN
    /\ link = "up" /\ breaks = 0 /\ toRunner = <<>> /\ toHost = <<>>
    /\ shell = [t \in Terminal |-> "none"] /\ record = [t \in Terminal |-> "none"]
    /\ placed = {} /\ cwd = [t \in Terminal |-> Nothing]
    /\ workspace = w /\ shown = Nothing /\ live = FALSE /\ starting = FALSE
    /\ calls = [c \in Call |-> NoCall] /\ deletes = {} /\ cutOff = {}

\* Untracked frames.
RunnerSend(frames) == toHost' = IF link = "up" THEN toHost \o frames ELSE toHost
SendToMachine(type, t) ==
    toRunner' = IF link = "up" THEN Append(toRunner, <<type, t>>) ELSE toRunner

-----------------------------------------------------------------------------
(* The page.                                                               *)

New(c) == calls[c].at = "none" /\ \A d \in 1..(c - 1) : calls[d].at # "none"

\* closeWorkspaceTerminalSession, up to its request.
CloseShown ==
    /\ deletes' = IF shown = Nothing THEN deletes ELSE deletes \cup {shown}
    /\ shown' = Nothing /\ live' = FALSE

\* ensureWorkspaceTerminal, up to the end of the session shown before.
Ensure(c, reuse) ==
    IF starting \/ (shown # Nothing /\ cwd[shown] = workspace /\ live)
    THEN calls' = [calls EXCEPT ![c].at = "done"] /\ UNCHANGED <<shown, live, deletes>>
    ELSE /\ CloseShown
         /\ calls' = [calls EXCEPT ![c] = [at |-> "closing", cwd |-> workspace, reuse |-> reuse,
                                           terminal |-> shown, live |-> FALSE]]

\* onWorkspaceTerminalReady.
Ready(c) ==
    /\ New(c) /\ Ensure(c, TRUE)
    /\ UNCHANGED <<wires, toRunner, toHost, shell, hostVars, workspace, starting, cutOff>>

\* reopenWorkspaceTerminal.
Reopen(c) ==
    /\ New(c) /\ shown # Nothing /\ ~live /\ CloseShown
    /\ calls' = [calls EXCEPT ![c] = [NoCall EXCEPT !.at = "reopen", !.terminal = shown]]
    /\ UNCHANGED <<wires, toRunner, toHost, shell, hostVars, workspace, starting, cutOff>>

\* The watcher of the workspace context.
ChangeWorkspace(c, w) ==
    /\ New(c) /\ w # workspace /\ workspace' = w
    /\ IF shown = Nothing THEN UNCHANGED <<calls, shown, live, deletes>>
       ELSE /\ CloseShown
            /\ calls' = [calls EXCEPT ![c] = [NoCall EXCEPT !.at = "change", !.terminal = shown]]
    /\ UNCHANGED <<wires, toRunner, toHost, shell, hostVars, starting, cutOff>>

\* closeWorkspacePane.
ClosePane ==
    /\ shown # Nothing /\ CloseShown
    /\ UNCHANGED <<wires, toRunner, toHost, shell, hostVars, workspace, starting, calls, cutOff>>

\* The DELETE request that a call awaits is answered.
Resume(c) ==
    /\ calls[c].terminal \notin deletes
    /\ \/ calls[c].at = "reopen" /\ Ensure(c, FALSE) /\ UNCHANGED starting
       \/ calls[c].at = "change" /\ Ensure(c, TRUE) /\ UNCHANGED starting
       \/ /\ calls[c].at = "closing"
          /\ starting' = TRUE /\ shown' = Nothing /\ live' = FALSE
          /\ calls' = [calls EXCEPT ![c].at = "posting", ![c].terminal = Nothing]
          /\ UNCHANGED deletes
    /\ UNCHANGED <<wires, toRunner, toHost, shell, hostVars, workspace, cutOff>>

\* The POST request is answered: with an error when there is no terminal.
Answered(c) ==
    /\ calls[c].at = "answered" /\ calls' = [calls EXCEPT ![c].at = "done"]
    /\ shown' = calls[c].terminal /\ live' = calls[c].live /\ starting' = FALSE
    /\ UNCHANGED <<wires, toRunner, toHost, shell, hostVars, workspace, deletes, cutOff>>

-----------------------------------------------------------------------------
(* The host.                                                               *)

Answer(c, t, connected) ==
    [calls EXCEPT ![c].at = "answered", ![c].terminal = t, ![c].live = connected]

\* findReusableTerminalSession: connected ones before others.
Reusable(w) ==
    LET found == {t \in placed : record[t] # "none" /\ cwd[t] = w}
        best  == {t \in found : record[t] = "connected"}
    IN IF best # {} THEN best ELSE found

\* POST /api/terminal/sessions.  Without reuse the exited records of the
\* workspace are dropped.
Post(c) ==
    LET w == calls[c].cwd
        kept == [t \in Terminal |->
                   IF ~calls[c].reuse /\ t \in placed /\ cwd[t] = w /\ record[t] = "exited"
                   THEN "none" ELSE record[t]]
    IN
    /\ calls[c].at = "posting"
    /\ IF calls[c].reuse /\ Reusable(w) # {}
       THEN /\ \E t \in Reusable(w) : calls' = Answer(c, t, record[t] = "connected")
            /\ UNCHANGED <<hostVars, toRunner>>
       ELSE /\ record' = kept
            /\ placed' = {t \in placed : kept[t] # "none"}
            /\ IF link = "down" THEN calls' = Answer(c, Nothing, FALSE) /\ UNCHANGED <<cwd, toRunner>>
               ELSE \E t \in Terminal :
                    /\ cwd[t] = Nothing /\ \A u \in 1..(t - 1) : cwd[u] # Nothing
                    /\ calls' = [calls EXCEPT ![c].at = "waiting", ![c].terminal = t]
                    /\ cwd' = [cwd EXCEPT ![t] = w] /\ SendToMachine("start", t)
    /\ UNCHANGED <<wires, toHost, shell, workspace, shown, live, starting, deletes, cutOff>>

\* No answer for ten seconds.
StartTimesOut(c) ==
    /\ calls[c].at = "waiting" /\ calls' = Answer(c, Nothing, FALSE)
    /\ UNCHANGED <<wires, toRunner, toHost, shell, hostVars, workspace, shown, live, starting,
                   deletes, cutOff>>

\* DELETE: the record goes first.
Delete(t) ==
    /\ t \in deletes /\ deletes' = deletes \ {t}
    /\ record' = [record EXCEPT ![t] = "none"] /\ placed' = placed \ {t}
    /\ IF record[t] = "none" THEN UNCHANGED toRunner ELSE SendToMachine("close", t)
    /\ UNCHANGED <<wires, toHost, shell, cwd, workspace, shown, live, starting, calls, cutOff>>

\* POST input and resize are passed on for a connected terminal.
Forward(t) ==
    /\ shown = t /\ record[t] = "connected" /\ Len(toRunner) < MaxFrames
    /\ SendToMachine("forward", t)
    /\ UNCHANGED <<wires, toHost, shell, hostVars, pageVars, cutOff>>

\* The pending start of terminal t, if it is still pending.
Settle(t, connected) ==
    calls' = [c \in Call |->
        IF calls[c].at = "waiting" /\ calls[c].terminal = t
        THEN [calls[c] EXCEPT !.at = "answered", !.terminal = IF connected THEN t ELSE Nothing,
                              !.live = connected]
        ELSE calls[c]]

\* applyTerminalStart, appendTerminalOutputRecord, applyTerminalExit: output and
\* exits make a record where there is none.
RecordAfter(type, before) ==
    CASE type = "started" -> "connected"
      [] type = "output" /\ before = "none" -> "connected"
      [] type = "exit" -> "exited"
      [] OTHER -> before

\* handleTerminalEnvelope: what the page makes of them.
LiveAfter(type, t) == live /\ ~(type = "exit" /\ shown = t)

\* The frames of the runner.
HostReads ==
    /\ toHost # <<>> /\ toHost' = Tail(toHost)
    /\ LET type == Head(toHost)[1]
           t    == Head(toHost)[2]
       IN
       /\ record' = [record EXCEPT ![t] = RecordAfter(type, @)]
       /\ placed' = IF type = "started" THEN placed \cup {t} ELSE placed
       /\ IF type \in {"started", "refused"} THEN Settle(t, type = "started") ELSE UNCHANGED calls
       /\ live' = LiveAfter(type, t)
    /\ UNCHANGED <<wires, toRunner, shell, cwd, workspace, shown, starting, deletes, cutOff>>

-----------------------------------------------------------------------------
(* The connection.                                                         *)

\* It breaks.
Break ==
    /\ link = "up" /\ breaks < MaxBreaks /\ breaks' = breaks + 1 /\ link' = "half"
    /\ toRunner' = <<>> /\ toHost' = <<>>
    /\ cutOff' = cutOff \cup {t \in Terminal : cwd[t] # Nothing}
    /\ UNCHANGED <<shell, hostVars, pageVars>>

\* Wrong: the terminals stay connected.
DisconnectRejects ==
    /\ link = "half" /\ link' = "down"
    /\ calls' = [c \in Call |-> IF calls[c].at = "waiting"
                                THEN [calls[c] EXCEPT !.at = "answered", !.terminal = Nothing]
                                ELSE calls[c]]
    /\ UNCHANGED <<breaks, toRunner, toHost, shell, hostVars, workspace, shown, live, starting,
                   deletes, cutOff>>

\* onRunnerDisconnect: waiting requests fail, all terminals have exited.
Disconnect ==
    /\ link = "half" /\ link' = "down"
    /\ record' = [t \in Terminal |-> IF record[t] = "none" THEN "none" ELSE "exited"]
    /\ live' = FALSE
    /\ calls' = [c \in Call |-> IF calls[c].at = "waiting"
                                THEN [calls[c] EXCEPT !.at = "answered", !.terminal = Nothing]
                                ELSE calls[c]]
    /\ UNCHANGED <<breaks, toRunner, toHost, shell, placed, cwd, workspace, shown, starting,
                   deletes, cutOff>>

\* The runner connects again.  A connection that the host still has is replaced:
\* then it does not handle the disconnect.
Reconnect ==
    /\ link \in {"half", "down"} /\ link' = "up"
    /\ UNCHANGED <<breaks, toRunner, toHost, shell, hostVars, pageVars, cutOff>>

-----------------------------------------------------------------------------
(* The runner.                                                             *)

\* start up to its await, input, resize and close.
ShellAfter(type, before) ==
    CASE type = "start" -> "starting"
      [] type = "close" /\ before = "mapped" -> "closing"
      [] OTHER -> before

\* terminal.pty.start, input, resize and close.
RunnerReads ==
    /\ toRunner # <<>> /\ toRunner' = Tail(toRunner)
    /\ LET type == Head(toRunner)[1]
           t    == Head(toRunner)[2]
       IN shell' = [shell EXCEPT ![t] = ShellAfter(type, @)]
    /\ UNCHANGED <<wires, toHost, hostVars, pageVars, cutOff>>

\* The process was spawned, or could not be.
Spawned(t) ==
    /\ shell[t] = "starting"
    /\ \/ shell' = [shell EXCEPT ![t] = "mapped"] /\ RunnerSend(<<<<"started", t>>>>)
       \/ shell' = [shell EXCEPT ![t] = "ended"] /\ RunnerSend(<<<<"refused", t>>>>)
    /\ UNCHANGED <<wires, toRunner, hostVars, pageVars, cutOff>>

Output(t) ==
    /\ shell[t] \in {"mapped", "closing"} /\ Len(toHost) < MaxFrames
    /\ RunnerSend(<<<<"output", t>>>>)
    /\ UNCHANGED <<wires, toRunner, shell, hostVars, pageVars, cutOff>>

\* Wrong: an exit is told only of shells that were not closed.
ExitUntold(t) ==
    /\ shell[t] \in {"mapped", "closing"} /\ shell' = [shell EXCEPT ![t] = "ended"]
    /\ IF shell[t] = "mapped" THEN RunnerSend(<<<<"exit", t>>>>) ELSE UNCHANGED toHost
    /\ UNCHANGED <<wires, toRunner, hostVars, pageVars, cutOff>>

\* The process exits: of itself, or because of SIGHUP.
Exit(t) ==
    /\ shell[t] \in {"mapped", "closing"} /\ shell' = [shell EXCEPT ![t] = "ended"]
    /\ RunnerSend(<<<<"exit", t>>>>)
    /\ UNCHANGED <<wires, toRunner, hostVars, pageVars, cutOff>>

Next ==
    \/ \E c \in Call :
         \/ Ready(c) \/ Reopen(c) \/ Resume(c) \/ Answered(c) \/ Post(c) \/ StartTimesOut(c)
         \/ \E w \in Workspaces : ChangeWorkspace(c, w)
    \/ \E t \in Terminal : Delete(t) \/ Forward(t) \/ Spawned(t) \/ Output(t) \/ Exit(t)
    \/ ClosePane \/ HostReads \/ RunnerReads \/ Break \/ Disconnect \/ Reconnect

Spec == Init /\ [][Next]_vars

-----------------------------------------------------------------------------
(* Properties.                                                             *)

Underway(frames, type, t) == \E i \in 1..Len(frames) : frames[i] = <<type, t>>

\* Unless its connection has broken: a shell that the runner can reach is
\* connected for the host, which otherwise is about to hear of it or has told the
\* runner to close it; and what the host has as connected is a process that
\* runs, or whose exit it is about to hear of, even after a late output has made
\* its record anew.  When the host knows of no connection, no terminal is connected.
RecordsAgree ==
    \A t \in Terminal :
        /\ link = "down" => record[t] # "connected"
        /\ t \notin cutOff /\ shell[t] = "mapped" =>
             record[t] = "connected" \/ Underway(toHost, "started", t) \/ Underway(toRunner, "close", t)
        /\ t \notin cutOff /\ record[t] = "connected" =>
             shell[t] \in {"mapped", "closing"} \/ Underway(toHost, "exit", t)
=============================================================================
