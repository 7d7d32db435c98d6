--------------------------- MODULE RunnerSessions ---------------------------
(***************************************************************************)
(* The session manager of the runner: which Codex processes it starts, and *)
(* which of them it can still reach.                                       *)
(*                                                                         *)
(* Every command from the host is handled by an asynchronous function.     *)
(* Commands that come while one waits are handled in between: for the same *)
(* session too.  Command c is the c-th, and the session object it creates  *)
(* is object c.  A request to a Codex process that has ended is never      *)
(* answered: the function that awaits the answer stays there ("hung").     *)
(*                                                                         *)
(* The host keeps the options of a session; versions of them are counted.  *)
(***************************************************************************)
EXTENDS Naturals

CONSTANTS
    Sessions,
    MaxCommands,    \* bound: commands of the host
    MaxOptions      \* bound: updates of the options of one session

Command == 1..MaxCommands
None == 0
Waiting == {"check", "begin", "opening", "next", "turn", "interrupt"}
Settled == {"rejected", "begun", "failed", "reported", "done"}

VARIABLES
    sessions,   \* the map sessions: the object of a session, or None
    commands,   \* what became of each command
    objects,    \* the session objects
    uploads,    \* sessions with copies of uploads on the disk
    status,     \* the last session.status emitted of each session
    options,    \* the options that the host has of each session
    contested   \* history: sessions that were opened by a command while another
                \* one opened or closed them, or closed while one opened them

vars == <<sessions, commands, objects, uploads, status, options, contested>>

Unused == [kind |-> "none", session |-> CHOOSE s \in Sessions : TRUE, at |-> "none",
           object |-> None, version |-> 0]
NoObject == [process |-> "none", thread |-> FALSE, version |-> 0, killed |-> FALSE,
             failed |-> FALSE]

TypeOK ==
    /\ sessions \in [Sessions -> Command \cup {None}]
    /\ commands \in [Command ->
         [kind : {"none", "start", "send", "stop", "cleanup", "cancel"}, session : Sessions,
          at : Waiting \cup Settled \cup {"none", "hung"},
          object : Command \cup {None}, version : 0..MaxOptions]]
    /\ objects \in [Command ->
         [process : {"none", "runs", "ended"}, thread : BOOLEAN, version : 0..MaxOptions,
          killed : BOOLEAN, failed : BOOLEAN]]
    /\ uploads \subseteq Sessions
    /\ status \in [Sessions -> {"none", "starting", "running", "exited", "failed"}]
    /\ options \in [Sessions -> 0..MaxOptions]
    /\ contested \subseteq Sessions

Init ==
    /\ sessions = [s \in Sessions |-> None]
    /\ commands = [c \in Command |-> Unused] /\ objects = [c \in Command |-> NoObject]
    /\ uploads = Sessions /\ status = [s \in Sessions |-> "none"]
    /\ options = [s \in Sessions |-> 0] /\ contested = {}

\* The command that comes next.
New(c) == commands[c].kind = "none" /\ \A d \in 1..(c - 1) : commands[d].kind # "none"

\* Command c opens its session, until its first turn has begun.
Opens(c) ==
    \/ commands[c].at \in {"check", "begin", "opening"}
    \/ commands[c].at = "turn" /\ commands[c].object = c
Closes(c) == commands[c].kind \in {"stop", "cleanup"} /\ commands[c].at = "interrupt"

\* History: a command of this kind would meet another one of session s.
Overlaps(kind, at, s) ==
    \E c \in Command : commands[c].session = s /\
        \/ (at = "check" \/ kind \in {"stop", "cleanup"}) /\ Opens(c)
        \/ at = "check" /\ Closes(c)

\* An answer to a request to this object will come, or the end of its process.
Reachable(o) == objects[o].process = "runs"

Moved(c, at) == commands' = [commands EXCEPT ![c].at = at]

Received(c, kind, s, at, o) ==
    /\ New(c)
    /\ commands' = [commands EXCEPT ![c] =
         [kind |-> kind, session |-> s, at |-> at, object |-> o, version |-> options[s]]]
    /\ contested' = IF Overlaps(kind, at, s) THEN contested \cup {s} ELSE contested

-----------------------------------------------------------------------------
(* Commands of the host.                                                   *)

\* session.start.
SessionStart(c, s) ==
    /\ Received(c, "start", s, IF sessions[s] # None THEN "rejected" ELSE "check", None)
    /\ UNCHANGED <<sessions, objects, uploads, status, options>>

\* session.send: to the session in the map, or to one that it opens.
SessionSend(c, s) ==
    /\ Received(c, "send", s, IF sessions[s] # None THEN "next" ELSE "check", sessions[s])
    /\ UNCHANGED <<sessions, objects, uploads, status, options>>

\* cancel sends turn/interrupt, which needs a thread and an answer.
Interrupt(o) ==
    IF ~objects[o].thread THEN "done" ELSE IF Reachable(o) THEN "interrupt" ELSE "hung"

\* session.cancel.
SessionCancel(c, s) ==
    /\ sessions[s] # None
    /\ Received(c, "cancel", s, Interrupt(sessions[s]), sessions[s])
    /\ UNCHANGED <<sessions, objects, uploads, status, options>>

\* What follows stop's cancel: the process is sent SIGTERM, and the session is
\* taken out of the map.  cleanup deletes the copies of its uploads.
Close(kind, s, o) ==
    /\ objects' = [objects EXCEPT ![o].killed = TRUE]
    /\ sessions' = [sessions EXCEPT ![s] = None]
    /\ uploads' = IF kind = "cleanup" THEN uploads \ {s} ELSE uploads

\* session.stop and session.cleanup.
SessionClose(c, s, kind) ==
    LET o  == sessions[s]
        at == IF o = None THEN "done" ELSE Interrupt(o)
    IN
    /\ kind \in {"stop", "cleanup"} /\ Received(c, kind, s, at, o)
    /\ IF o # None /\ at = "done" THEN Close(kind, s, o)
       ELSE /\ uploads' = IF at = "done" /\ kind = "cleanup" THEN uploads \ {s} ELSE uploads
            /\ UNCHANGED <<sessions, objects>>
    /\ UNCHANGED <<status, options>>

\* The host stores options and sends session.options.update.
OptionsUpdate(s) ==
    /\ options[s] < MaxOptions /\ options' = [options EXCEPT ![s] = @ + 1]
    /\ objects' = IF sessions[s] = None THEN objects
                  ELSE [objects EXCEPT ![sessions[s]].version = options[s] + 1]
    /\ UNCHANGED <<sessions, commands, uploads, status, contested>>

-----------------------------------------------------------------------------
(* What the commands await.                                                *)

\* Wrong: the failed session stays in the map.
FailedInMap(c, s) ==
    /\ Moved(c, "failed") /\ status' = [status EXCEPT ![s] = "failed"]
    /\ objects' = [objects EXCEPT ![c].failed = TRUE] /\ UNCHANGED sessions

\* The catch of a command that opens a session.  The process is not stopped.
Failed(c, s) ==
    /\ Moved(c, "failed") /\ status' = [status EXCEPT ![s] = "failed"]
    /\ objects' = [objects EXCEPT ![c].failed = TRUE]
    /\ sessions' = [sessions EXCEPT ![s] = None]

\* The installation was checked: the object is created and put into the map.
Checked(c) ==
    LET s == commands[c].session IN
    /\ commands[c].at = "check"
    /\ commands' = [commands EXCEPT ![c].at = "begin", ![c].object = c]
    /\ sessions' = [sessions EXCEPT ![s] = c]
    /\ objects' = [objects EXCEPT ![c].version = commands[c].version]
    /\ UNCHANGED <<uploads, status, options, contested>>

\* Codex is not installed.
CodexMissing(c) ==
    /\ commands[c].at = "check" /\ Moved(c, "failed")
    /\ status' = [status EXCEPT ![commands[c].session] = "failed"]
    /\ UNCHANGED <<sessions, objects, uploads, options, contested>>

\* session.start: the process is spawned.
Begin(c) ==
    /\ commands[c].at = "begin" /\ Moved(c, "opening")
    /\ objects' = [objects EXCEPT ![c].process = "runs"]
    /\ status' = [status EXCEPT ![commands[c].session] = "starting"]
    /\ UNCHANGED <<sessions, uploads, options, contested>>

\* Codex is gone by now.
SpawnFails(c) ==
    /\ commands[c].at = "begin" /\ Failed(c, commands[c].session)
    /\ UNCHANGED <<uploads, options, contested>>

\* initialize, then thread/resume or thread/start are answered; turn/start is
\* sent.
Opened(c) ==
    /\ commands[c].at = "opening" /\ Reachable(c)
    /\ Moved(c, "turn") /\ objects' = [objects EXCEPT ![c].thread = TRUE]
    /\ status' = [status EXCEPT ![commands[c].session] = "running"]
    /\ UNCHANGED <<sessions, uploads, options, contested>>

\* Codex refuses every form of thread/start.
Refused(c) ==
    /\ commands[c].at = "opening" /\ Reachable(c) /\ Failed(c, commands[c].session)
    /\ UNCHANGED <<uploads, options, contested>>

\* session.send goes on in the next turn of the event loop.
Send(c) ==
    LET o == commands[c].object IN
    /\ commands[c].at = "next"
    /\ Moved(c, IF ~objects[o].thread THEN "reported" ELSE IF Reachable(o) THEN "turn" ELSE "hung")
    /\ UNCHANGED <<sessions, objects, uploads, status, options, contested>>

\* turn/start is answered.
TurnStarted(c) ==
    /\ commands[c].at = "turn" /\ Reachable(commands[c].object) /\ Moved(c, "begun")
    /\ UNCHANGED <<sessions, objects, uploads, status, options, contested>>

\* The command that opened the session fails, any other writes to its output.
TurnFails(c) ==
    IF commands[c].object = c THEN Failed(c, commands[c].session)
    ELSE Moved(c, "reported") /\ UNCHANGED <<sessions, objects, status>>

\* Codex refuses every form of turn/start.
TurnRefused(c) ==
    /\ commands[c].at = "turn" /\ Reachable(commands[c].object) /\ TurnFails(c)
    /\ UNCHANGED <<uploads, options, contested>>

\* Wrong: the session stays in the map when its process was sent SIGTERM.
InterruptedInMap(c) ==
    LET k == commands[c] IN
    /\ k.at = "interrupt" /\ Reachable(k.object) /\ Moved(c, "done")
    /\ IF k.kind = "cancel" THEN UNCHANGED <<sessions, objects, uploads>>
       ELSE /\ objects' = [objects EXCEPT ![k.object].killed = TRUE]
            /\ uploads' = IF k.kind = "cleanup" THEN uploads \ {k.session} ELSE uploads
            /\ UNCHANGED sessions
    /\ UNCHANGED <<status, options, contested>>

\* turn/interrupt is answered.
Interrupted(c) ==
    LET k == commands[c] IN
    /\ k.at = "interrupt" /\ Reachable(k.object) /\ Moved(c, "done")
    /\ IF k.kind = "cancel" THEN UNCHANGED <<sessions, objects, uploads>>
       ELSE Close(k.kind, k.session, k.object)
    /\ UNCHANGED <<status, options, contested>>

-----------------------------------------------------------------------------
(* The process ends.                                                       *)

Awaits(c, o) == commands[c].object = o /\ commands[c].at \in {"opening", "turn"}

\* Wrong: requests without an answer stay without one.
RejectNoPending(c, o, again) == commands[c].at

\* What becomes of a command when process o ends: its request fails.  Those in
\* again try the next form of it, which is never answered.
RejectPending(c, o, again) ==
    IF c \in again THEN "hung"
    ELSE IF Awaits(c, o) THEN IF c = o THEN "failed" ELSE "reported"
    ELSE IF commands[c].object = o /\ commands[c].at = "interrupt" THEN "done"
    ELSE commands[c].at

\* Wrong: only a command that fails reports the end.
EndStatusOfCommand(s, fails, end) == IF fails THEN "failed" ELSE status[s]

\* onExit reports the end, then perhaps the command that opens the session.
EndStatus(s, fails, end) == IF fails THEN "failed" ELSE end

\* onExit reports the end.  Then the commands go on: those that close the
\* session take it out of the map.
ProcessEnds(o) ==
    /\ Reachable(o)
    /\ \E again \in SUBSET {c \in Command : Awaits(c, o)} :
         LET fails   == Awaits(o, o) /\ o \notin again
             closing == {c \in Command : commands[c].object = o /\ Closes(c)}
             s       == commands[o].session
         IN
         /\ commands' = [c \in Command |-> [commands[c] EXCEPT !.at = RejectPending(c, o, again)]]
         /\ objects' = [objects EXCEPT ![o].process = "ended",
                          ![o].killed = @ \/ closing # {}, ![o].failed = @ \/ fails]
         /\ sessions' = IF closing # {} \/ fails THEN [sessions EXCEPT ![s] = None] ELSE sessions
         /\ uploads' = IF \E c \in closing : commands[c].kind = "cleanup" THEN uploads \ {s}
                       ELSE uploads
         /\ \E end \in {"exited", "failed"} : status' = [status EXCEPT ![s] = EndStatus(s, fails, end)]
    /\ UNCHANGED <<options, contested>>

Next ==
    \/ \E c \in Command, s \in Sessions :
         \/ SessionStart(c, s) \/ SessionSend(c, s) \/ SessionCancel(c, s)
         \/ SessionClose(c, s, "stop") \/ SessionClose(c, s, "cleanup")
    \/ \E s \in Sessions : OptionsUpdate(s)
    \/ \E c \in Command :
         \/ Checked(c) \/ CodexMissing(c) \/ Begin(c) \/ SpawnFails(c) \/ Opened(c) \/ Refused(c)
         \/ Send(c) \/ TurnStarted(c) \/ TurnRefused(c) \/ Interrupted(c) \/ ProcessEnds(c)

Spec == Init /\ [][Next]_vars

\* Codex answers every request, unless its process ends.
Fairness ==
    \A c \in Command :
        /\ WF_vars(Checked(c) \/ CodexMissing(c)) /\ WF_vars(Begin(c) \/ SpawnFails(c))
        /\ WF_vars(Opened(c) \/ Refused(c)) /\ WF_vars(Send(c))
        /\ WF_vars(TurnStarted(c) \/ TurnRefused(c)) /\ WF_vars(Interrupted(c))

FairSpec == Spec /\ Fairness

-----------------------------------------------------------------------------
(* Properties.                                                             *)

\* Unless commands that open or close a session overlap, a Codex process that
\* nobody has sent SIGTERM is the one in the map, where stop and cancel find it,
\* or belongs to a command that has failed; and the map holds no other object.
ProcessInMap ==
    \A s \in Sessions \ contested :
        /\ \A o \in Command :
             commands[o].session = s /\ objects[o].process = "runs" =>
                 objects[o].killed \/ objects[o].failed \/ sessions[s] = o
        /\ sessions[s] # None =>
             LET o == sessions[s] IN
             /\ commands[o].session = s /\ ~objects[o].killed /\ ~objects[o].failed
             /\ Opens(o) \/ objects[o].thread \/ commands[o].at = "hung"

\* A session whose last status is running has a process that runs, even when
\* processes end late and commands overlap.
RunningRuns ==
    \A s \in Sessions : status[s] = "running" =>
        \E o \in Command : commands[o].session = s /\ objects[o].process = "runs"

\* Every command that waits goes on, whatever ends meanwhile; what no one will
\* answer is a request sent to a process that had ended.
CommandGoesOn ==
    \A c \in Command :
        commands[c].at \in Waiting ~> commands[c].at \in Settled \cup {"hung"}

\* The runner stops the session, if it runs, and deletes its uploads.
CleanupDeletesUploads ==
    \A c \in Command :
        commands[c].kind = "cleanup" ~> commands[c].session \notin uploads

\* The options that the host has are those of the next turn.
OptionsApplied ==
    \A s \in Sessions : \A c \in Command :
        sessions[s] = c /\ objects[c].thread => objects[c].version = options[s]
=============================================================================
