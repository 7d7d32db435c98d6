------------------------------ MODULE IdeSessions ------------------------------
(***************************************************************************)
(* Editors (code-server) in the workspace pane of a page: the page opens    *)
(* and stops them over the host, the runner starts the programs.           *)
(*                                                                         *)
(* What the host sends is lost with the connection.  The events of the     *)
(* runner go through its outbox: they arrive in order, and those that were *)
(* not acknowledged arrive again with the next connection, where the host  *)
(* handles them again, since it knows no event that belongs to no session. *)
(* A restart of the runner loses those that were not yet written.          *)
(***************************************************************************)
EXTENDS Naturals, Sequences

CONSTANTS
    MaxEditors,     \* bound: calls of openVSCode
    MaxFaults,      \* bound: broken connections, restarts and deleted sessions
    MaxPanes,       \* bound: calls of openWorkspace that replace and of closeWorkspacePane
    None

Editor == 1..MaxEditors
Pane == 1..MaxPanes

VARIABLES
    link,       \* "up", "half" (broken, the host does not know) or "down"
    faults,     \* bounded faults so far
    active,     \* activeIdeSession of the page, or None
    panes,      \* the calls of openWorkspace and closeWorkspacePane, which may overlap:
                \* what they wait for, and the editor they have read, or None
    calls,      \* POST /api/ide-sessions: "none", "pending", "ok", "failed", "done"
    known,      \* ideSessions of the host, and its table
    toRunner,   \* ide.start and ide.stop on their way
    log,        \* ide.started, ide.failed and ide.stopped, in the order of their numbers
    acked,      \* events that are acknowledged
    handled,    \* events that have arrived since the connection was opened, or before
    phase,      \* RunnerIdeManager.start: "none", "prepare", "wait", "started", "over"
    managed,    \* the map ideSessions of the runner
    program,    \* "none", "alive", "ending" (SIGTERM) or "dead"
    stray,      \* history: editors whose program ended or started without the map
    lost,       \* history: editors whose start or stop was lost, given up or refused
    left        \* history: editors that the page has forgotten without a call

vars == <<link, faults, active, panes, calls, known, toRunner, log, acked, handled, phase,
          managed, program, stray, lost, left>>
page == <<active, panes, left>>
events == <<log, acked, handled>>
runner == <<phase, managed, program, stray>>

TypeOK ==
    /\ link \in {"up", "half", "down"} /\ faults \in 0..MaxFaults
    /\ active \in Editor \cup {None}
    /\ panes \in [Pane -> [at : {"none", "closing", "replacing", "done"},
                           of : Editor \cup {None}]]
    /\ calls \in [Editor -> {"none", "pending", "ok", "failed", "done"}]
    /\ known \subseteq Editor
    /\ toRunner \in Seq({"start", "stop"} \X Editor)
    /\ log \in Seq({"started", "failed", "stopped"} \X Editor)
    /\ acked \in 0..handled /\ handled \in 0..Len(log)
    /\ phase \in [Editor -> {"none", "prepare", "wait", "started", "over"}]
    /\ managed \subseteq Editor
    /\ program \in [Editor -> {"none", "alive", "ending", "dead"}]
    /\ stray \subseteq Editor /\ lost \subseteq Editor /\ left \subseteq Editor

Init ==
    /\ link = "up" /\ faults = 0 /\ active = None
    /\ panes = [p \in Pane |-> [at |-> "none", of |-> None]]
    /\ calls = [i \in Editor |-> "none"] /\ known = {} /\ toRunner = <<>>
    /\ log = <<>> /\ acked = 0 /\ handled = 0
    /\ phase = [i \in Editor |-> "none"] /\ managed = {}
    /\ program = [i \in Editor |-> "none"] /\ stray = {} /\ lost = {} /\ left = {}

-----------------------------------------------------------------------------
(* The page and the routes of the host.                                    *)

Send(what, i) == toRunner' = IF link = "up" THEN Append(toRunner, <<what, i>>) ELSE toRunner
Starting == \E i \in Editor : calls[i] \in {"pending", "ok", "failed"}

\* openVSCode, unless one is starting, and POST /api/ide-sessions.
Open(i) ==
    /\ ~Starting /\ calls[i] = "none" /\ \A j \in 1..(i - 1) : calls[j] # "none"
    /\ IF link = "down"
       THEN calls' = [calls EXCEPT ![i] = "failed"] /\ UNCHANGED toRunner
       ELSE calls' = [calls EXCEPT ![i] = "pending"] /\ Send("start", i)

\* openWorkspace, when no editor is shown.
OpenWorkspace(i) ==
    /\ active = None /\ Open(i)
    /\ UNCHANGED <<link, faults, page, known, events, runner, lost>>

\* Wrong: the editor is forgotten although nothing could be sent.
StopUnsent(i) ==
    IF i \in known
    THEN known' = known \ {i} /\ Send("stop", i) /\ UNCHANGED lost
    ELSE UNCHANGED <<known, toRunner, lost>>

\* POST /api/ide-sessions/:id/stop: not found, not connected, or sent.
Stop(i) ==
    IF i \notin known THEN UNCHANGED <<known, toRunner, lost>>
    ELSE IF link = "down" THEN lost' = lost \cup {i} /\ UNCHANGED <<known, toRunner>>
    ELSE /\ known' = known \ {i} /\ Send("stop", i)
         /\ lost' = IF link = "up" THEN lost ELSE lost \cup {i}

Begins(p, what) ==
    /\ panes[p].at = "none" /\ \A q \in 1..(p - 1) : panes[q].at # "none"
    /\ panes' = [panes EXCEPT ![p] = [at |-> what, of |-> active]]
Ends(p) == panes' = [panes EXCEPT ![p].at = "done"]

\* Nothing is shown any more: an editor that no call has read is forgotten.
Clear ==
    /\ active' = None
    /\ left' = IF \E p \in Pane : panes[p].at \in {"closing", "replacing"} /\
                                   panes[p].of = active
                THEN left ELSE left \cup ({active} \ {None})

\* openWorkspace for another workspace: the editor shown is stopped first.
ReplaceEditor(p) ==
    /\ active # None /\ Begins(p, "replacing") /\ Stop(active)
    /\ UNCHANGED <<link, faults, active, left, calls, events, runner>>

\* The answer to that: nothing is shown, and one is opened unless one is starting.
Replaced(p) ==
    /\ panes[p].at = "replacing" /\ Ends(p) /\ Clear
    /\ \/ \E i \in Editor : Open(i)
       \/ (Starting \/ calls[MaxEditors] # "none") /\ UNCHANGED <<calls, toRunner>>
    /\ UNCHANGED <<link, faults, known, events, runner, lost>>

\* closeWorkspacePane reads which editor is shown, and waits for the terminal.
ClosePane(p) ==
    /\ Begins(p, "closing")
    /\ UNCHANGED <<link, faults, active, left, calls, known, toRunner, events, runner, lost>>

\* Then nothing is shown, and the editor that was read is stopped.
PaneClosed(p) ==
    /\ panes[p].at = "closing" /\ Ends(p) /\ Clear
    /\ IF panes[p].of # None THEN Stop(panes[p].of) ELSE UNCHANGED <<known, toRunner, lost>>
    /\ UNCHANGED <<link, faults, calls, events, runner>>

\* handleSelectedSessionDeleted hides the editor and does not stop it.
SessionDeleted ==
    /\ active # None /\ Clear /\ faults < MaxFaults /\ faults' = faults + 1
    /\ UNCHANGED <<link, panes, calls, known, toRunner, events, runner, lost>>

\* onIdeSessionStarted, or an error is shown.
Answered(i) ==
    /\ calls[i] \in {"ok", "failed"} /\ calls' = [calls EXCEPT ![i] = "done"]
    /\ active' = IF calls[i] = "ok" THEN i ELSE active
    /\ UNCHANGED <<link, faults, panes, left, known, toRunner, events, runner, lost>>

-----------------------------------------------------------------------------
(* The host.                                                               *)

Settle(i, result) == IF calls[i] = "pending" THEN [calls EXCEPT ![i] = result] ELSE calls

\* The entry of pendingIdeStarts, after 15 s.
TimesOut(i) ==
    /\ calls[i] = "pending" /\ calls' = Settle(i, "failed") /\ lost' = lost \cup {i}
    /\ UNCHANGED <<link, faults, page, known, toRunner, events, runner>>

\* ide.started, ide.failed, ide.stopped; the acknowledgements that follow.
HostEvent ==
    /\ link = "up" /\ handled < Len(log) /\ handled' = handled + 1
    /\ LET i == log[handled + 1][2]
           what == log[handled + 1][1] IN
       /\ known' = IF what = "started" THEN known \cup {i} ELSE known \ {i}
       /\ calls' = CASE what = "started" -> Settle(i, "ok")
                     [] what = "failed" -> Settle(i, "failed")
                     [] OTHER -> calls
    /\ UNCHANGED <<link, faults, page, toRunner, log, acked, runner, lost>>

Acknowledged ==
    /\ link = "up" /\ \E n \in (acked + 1)..handled : acked' = n
    /\ UNCHANGED <<link, faults, page, calls, known, toRunner, log, handled, runner, lost>>

Abandoned == {i \in Editor : calls[i] = "pending"}

\* Connections break; onRunnerDisconnect, which a replaced connection does not
\* call; a restart of the host, which reads the editors from its table.  What was not
\* acknowledged will be sent again.
Break ==
    /\ link = "up" /\ faults < MaxFaults /\ faults' = faults + 1 /\ link' = "half"
    /\ lost' = lost \cup {toRunner[n][2] : n \in 1..Len(toRunner)} /\ toRunner' = <<>>
    /\ handled' = acked
    /\ UNCHANGED <<page, calls, known, log, acked, runner>>

Fails(reach) ==
    /\ link' = reach /\ lost' = lost \cup Abandoned
    /\ calls' = [i \in Editor |-> Settle(i, "failed")[i]]

Disconnect ==
    /\ link = "half" /\ Fails("down")
    /\ UNCHANGED <<faults, page, known, toRunner, events, runner>>

RestartHost ==
    /\ faults < MaxFaults /\ faults' = faults + 1
    /\ link' = "down" /\ toRunner' = <<>> /\ handled' = acked
    /\ lost' = lost \cup Abandoned \cup {toRunner[n][2] : n \in 1..Len(toRunner)}
    /\ calls' = [i \in Editor |-> Settle(i, "failed")[i]]
    /\ UNCHANGED <<page, known, log, acked, runner>>

Reconnect ==
    /\ link # "up" /\ link' = "up"
    /\ UNCHANGED <<faults, page, calls, known, toRunner, events, runner, lost>>

-----------------------------------------------------------------------------
(* The runner.                                                             *)

Emit(what, i) == log' = Append(log, <<what, i>>) /\ UNCHANGED <<acked, handled>>

\* RunnerIdeManager.start up to its first await; stop.
Receive ==
    /\ toRunner # <<>> /\ toRunner' = Tail(toRunner)
    /\ LET i == Head(toRunner)[2] IN
       IF Head(toRunner)[1] = "start"
       THEN phase' = [phase EXCEPT ![i] = "prepare"] /\ UNCHANGED program
       ELSE /\ program' = IF i \in managed /\ program[i] = "alive"
                          THEN [program EXCEPT ![i] = "ending"] ELSE program
            /\ UNCHANGED phase
    /\ UNCHANGED <<link, faults, page, calls, known, events, managed, stray, lost>>

\* readCodeServerCapabilities finds no code-server, or preparing fails.
NotInstalled(i) ==
    /\ phase[i] = "prepare" /\ phase' = [phase EXCEPT ![i] = "over"] /\ Emit("failed", i)
    /\ UNCHANGED <<link, faults, page, calls, known, toRunner, managed, program, stray, lost>>

\* spawn, and the entry in the map.
Spawn(i) ==
    /\ phase[i] = "prepare" /\ phase' = [phase EXCEPT ![i] = "wait"]
    /\ program' = [program EXCEPT ![i] = "alive"] /\ managed' = managed \cup {i}
    /\ UNCHANGED <<link, faults, page, calls, known, toRunner, events, stray, lost>>

\* The port answers; it may be another program that does.
Ready(i) ==
    /\ phase[i] = "wait" /\ phase' = [phase EXCEPT ![i] = "started"] /\ Emit("started", i)
    /\ stray' = IF program[i] = "dead" THEN stray \cup {i} ELSE stray
    /\ UNCHANGED <<link, faults, page, calls, known, toRunner, managed, program, lost>>

\* The port did not answer for 10 s.
NotReady(i) ==
    /\ phase[i] = "wait" /\ phase' = [phase EXCEPT ![i] = "over"] /\ Emit("failed", i)
    /\ program' = [program EXCEPT ![i] = "dead"] /\ managed' = managed \ {i}
    /\ UNCHANGED <<link, faults, page, calls, known, toRunner, stray, lost>>

\* Wrong: only an end that was asked for is reported.
ExitAsked(i) ==
    /\ program[i] \in {"alive", "ending"} /\ program' = [program EXCEPT ![i] = "dead"]
    /\ IF i \in managed /\ phase[i] = "started"
       THEN /\ managed' = managed \ {i}
            /\ IF program[i] = "ending" THEN Emit("stopped", i) ELSE UNCHANGED events
       ELSE UNCHANGED <<managed, events>>
    /\ UNCHANGED <<link, faults, page, calls, known, toRunner, phase, stray, lost>>

\* The program ends: before it was ready, that is only noted.
Exit(i) ==
    /\ program[i] \in {"alive", "ending"} /\ program' = [program EXCEPT ![i] = "dead"]
    /\ IF i \in managed /\ phase[i] = "started"
       THEN managed' = managed \ {i} /\ Emit("stopped", i)
       ELSE UNCHANGED <<managed, events>>
    /\ UNCHANGED <<link, faults, page, calls, known, toRunner, phase, stray, lost>>

\* The runner restarts; programs that it started may go on.  Of the events, the first n
\* were written, and of the acknowledgements a.
RestartRunner ==
    /\ faults < MaxFaults /\ faults' = faults + 1
    /\ managed' = {} /\ toRunner' = <<>> /\ link' = "half"
    /\ \E n \in 0..Len(log) : \E a \in 0..n :
         /\ a <= acked /\ log' = SubSeq(log, 1, n) /\ acked' = a /\ handled' = a
         /\ stray' = stray \cup managed \cup {log[m][2] : m \in (n + 1)..Len(log)}
    /\ lost' = lost \cup managed \cup {toRunner[n][2] : n \in 1..Len(toRunner)}
                    \cup {i \in Editor : phase[i] = "prepare"}
    /\ phase' = [i \in Editor |-> IF phase[i] = "none" THEN "none" ELSE "over"]
    /\ \/ UNCHANGED program
       \/ program' = [i \in Editor |-> IF program[i] = "none" THEN "none" ELSE "dead"]
    /\ UNCHANGED <<page, calls, known>>

Next ==
    \/ \E i \in Editor :
         \/ OpenWorkspace(i) \/ Answered(i) \/ TimesOut(i)
         \/ NotInstalled(i) \/ Spawn(i) \/ Ready(i) \/ NotReady(i) \/ Exit(i)
    \/ \E p \in Pane : ReplaceEditor(p) \/ Replaced(p) \/ ClosePane(p) \/ PaneClosed(p)
    \/ SessionDeleted
    \/ HostEvent \/ Acknowledged \/ Break \/ Disconnect \/ RestartHost \/ Reconnect
    \/ Receive \/ RestartRunner

Spec == Init /\ [][Next]_vars

-----------------------------------------------------------------------------
(* Properties.                                                             *)

Quiet == handled = Len(log) /\ toRunner = <<>>

\* When nothing is on its way, the editors in the books of the host are those that
\* have started, still run and were not stopped, whatever order starts, stops, ends,
\* timeouts and lost connections came in and whatever was told twice; but for editors
\* that a restart of the runner took from its map or whose events it lost, or whose
\* port another program answered.
HostAgrees ==
    Quiet =>
        /\ \A i \in known \ stray :
             phase[i] = "started" /\ program[i] \in {"alive", "ending"} /\ i \in managed
        /\ \A i \in managed \ lost :
             phase[i] = "started" /\ program[i] = "alive" => i \in known

\* No program is left behind: when nothing is on its way and no call is underway,
\* the only editor that runs is the one shown, unless a call was lost, given up or
\* refused, or the page forgot an editor that came while it was closing another.
NothingLeft ==
    Quiet /\ ~Starting /\ (\A p \in Pane : panes[p].at \in {"none", "done"}) =>
        \A i \in Editor : program[i] = "alive" /\ phase[i] # "over" =>
            i = active \/ i \in lost \/ i \in left
=============================================================================
