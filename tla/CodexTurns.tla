----------------------------- MODULE CodexTurns -----------------------------
(***************************************************************************)
(* The turns of one Codex app-server session, as the runner reports them.  *)
(*                                                                         *)
(* Codex writes what happens in a turn to its standard output.  Some       *)
(* builds write every notification as an event of the stream codex/event,  *)
(* some as a direct notification, some in both forms.  The session takes   *)
(* one form only: the direct one if it shows within 150 ms, until then     *)
(* wrapped ones are held back.  Output is buffered for 40 ms.  A cancelled *)
(* turn is completed by a timer if Codex does not complete it.             *)
(*                                                                         *)
(* The session has its thread.  Codex works on one turn at a time, names   *)
(* it in every notification, and the n-th turn is n; the k-th piece of its *)
(* output is k.  What the runner tells the host is log.                    *)
(***************************************************************************)
EXTENDS Naturals, Sequences

CONSTANTS
    Builds,         \* how Codex may write notifications, see BuildKinds
    MaxTurns,       \* bound: turns
    MaxPieces,      \* bound: pieces of output of one turn
    MaxCancels      \* bound: session.cancel and session.stop

BuildKinds == {"direct", "wrapped", "wrappedTwice", "wrappedFirst", "directFirst"}

Turn == 1..MaxTurns
None == 0
Request == [turn : Turn \cup {None}, stop : BOOLEAN]    \* turn/interrupt
Line ==
    [kind : {"started", "output", "completed"}, turn : Turn, piece : 0..MaxPieces,
     wrapped : BOOLEAN] \cup [kind : {"answer"}, request : Request]
Entry ==
    [kind : {"started", "output", "completed", "forced"}, turn : Turn, piece : 0..MaxPieces]
    \cup [kind : {"exited"}]

VARIABLES
    build,
    turns,          \* turns that Codex has begun
    busy,           \* it works on the last of them, or did when it ended
    written,        \* pieces of output that Codex has written
    running,        \* the process runs
    pipe,           \* lines that were not read yet
    mode,           \* notificationMode: "none", "direct", "wrapped"
    held,           \* pendingWrappedNotifications
    active,         \* activeTurnId
    lastStarted,    \* lastTurnStartedId
    lastCompleted,  \* lastTurnCompletedId
    buffer,         \* outputBuffers
    requests,       \* turn/interrupt requests without an answer
    timers,         \* turns that the timers of cancel are about
    log,            \* history: what was emitted
    cancelled,      \* history: turns that were active when cancel was called
    unnamed,        \* history: turns ended in silence by an interrupt that did
                    \* not name them
    cut,            \* history: held lines were dropped at the end of the session
    cancels         \* counts towards MaxCancels

codexVars == <<build, turns, busy, written, running>>
pastVars  == <<cancelled, unnamed, cut, cancels>>
turnVars  == <<active, lastStarted, lastCompleted>>
vars == <<codexVars, pipe, mode, held, turnVars, buffer, requests, timers, log, cancelled,
          pastVars>>

TypeOK ==
    /\ build \in Builds /\ turns \in 0..MaxTurns /\ busy \in BOOLEAN
    /\ written \in [Turn -> 0..MaxPieces] /\ running \in BOOLEAN
    /\ pipe \in Seq(Line) /\ mode \in {"none", "direct", "wrapped"} /\ held \in Seq(Line)
    /\ active \in Turn \cup {None}
    /\ lastStarted \in Turn \cup {None} /\ lastCompleted \in Turn \cup {None}
    /\ buffer \in Seq(Entry) /\ log \in Seq(Entry)
    /\ requests \subseteq Request /\ timers \subseteq Turn
    /\ cancelled \subseteq Turn /\ unnamed \subseteq Turn /\ cut \in BOOLEAN /\ cancels \in 0..MaxCancels

Init ==
    /\ build \in Builds /\ turns = 0 /\ busy = FALSE /\ written = [t \in Turn |-> 0]
    /\ running = TRUE /\ pipe = <<>> /\ mode = "none" /\ held = <<>>
    /\ active = None /\ lastStarted = None /\ lastCompleted = None
    /\ buffer = <<>> /\ requests = {} /\ timers = {} /\ log = <<>>
    /\ cancelled = {} /\ unnamed = {} /\ cut = FALSE /\ cancels = 0

Event(kind, t, k) == [kind |-> kind, turn |-> t, piece |-> k]

-----------------------------------------------------------------------------
(* Codex.                                                                  *)

\* The forms in which a build writes a notification.  Wrapped, the end of a
\* turn is task_complete, turn_complete or both.
Written(kind, t, k) ==
    LET wrapped == [kind |-> kind, turn |-> t, piece |-> k, wrapped |-> TRUE]
        direct  == [kind |-> kind, turn |-> t, piece |-> k, wrapped |-> FALSE]
    IN CASE build = "direct"       -> <<direct>>
         [] build = "wrapped"      -> <<wrapped>>
         [] build = "wrappedTwice" ->
              IF kind = "completed" THEN <<wrapped, wrapped>> ELSE <<wrapped>>
         [] build = "wrappedFirst" -> <<wrapped, direct>>
         [] build = "directFirst"  -> <<direct, wrapped>>

CodexStarts ==
    /\ running /\ ~busy /\ turns < MaxTurns
    /\ turns' = turns + 1 /\ busy' = TRUE
    /\ pipe' = pipe \o Written("started", turns + 1, 0)
    /\ UNCHANGED <<build, written, running, mode, held, turnVars, buffer, requests, timers, log,
                   pastVars>>

CodexWrites ==
    /\ running /\ busy /\ written[turns] < MaxPieces
    /\ written' = [written EXCEPT ![turns] = @ + 1]
    /\ pipe' = pipe \o Written("output", turns, written[turns] + 1)
    /\ UNCHANGED <<build, turns, busy, running, mode, held, turnVars, buffer, requests, timers,
                   log, pastVars>>

CodexCompletes ==
    /\ running /\ busy /\ busy' = FALSE /\ pipe' = pipe \o Written("completed", turns, 0)
    /\ UNCHANGED <<build, turns, written, running, mode, held, turnVars, buffer, requests, timers,
                   log, pastVars>>

\* turn/interrupt is answered.  The turn ends if the request names it or names
\* none, with a notification or without.
CodexInterrupts ==
    \E r \in requests :
        /\ running /\ requests' = requests \ {r}
        /\ LET answer == [kind |-> "answer", request |-> r] IN
           \/ /\ ~(busy /\ r.turn \in {None, turns})
              /\ pipe' = Append(pipe, answer) /\ UNCHANGED <<busy, unnamed>>
           \/ /\ busy /\ r.turn \in {None, turns} /\ busy' = FALSE
              /\ pipe' = pipe \o Written("completed", turns, 0) \o <<answer>>
              /\ UNCHANGED unnamed
           \/ /\ busy /\ r.turn \in {None, turns} /\ busy' = FALSE
              /\ pipe' = Append(pipe, answer)
              /\ unnamed' = IF r.turn = None THEN unnamed \cup {turns} ELSE unnamed
    /\ UNCHANGED <<build, turns, written, running, mode, held, turnVars, buffer, timers, log,
                   cancelled, cut, cancels>>

-----------------------------------------------------------------------------
(* The session.                                                            *)

\* The timer of pendingWrappedNotifications passes held lines on, one after
\* the other and without a pause.
Replaying == mode = "wrapped" /\ held # <<>>

\* Wrong: the list of buffered entries goes into the log as one entry.
EmitAfterFlushNested(e) == log' = log \o <<buffer, e>> /\ buffer' = <<>>

\* Wrong: the buffers are cleared, not flushed.
EmitAfterFlushDropping(e) == log' = Append(log, e) /\ buffer' = <<>>

\* #flushAllOutputBuffers, then an event.
EmitAfterFlush(e) == log' = log \o buffer \o <<e>> /\ buffer' = <<>>

\* Wrong: output is left in the buffer at the boundary.
TurnCompletedUnflushed(t) ==
    IF t = lastCompleted THEN UNCHANGED <<turnVars, buffer, log>>
    ELSE /\ lastCompleted' = t /\ active' = None /\ UNCHANGED lastStarted
         /\ log' = Append(log, Event("completed", t, 0)) /\ UNCHANGED buffer

\* Wrong: repeated notifications are passed on.
TurnCompletedAgain(t) ==
    /\ lastCompleted' = t /\ active' = None /\ UNCHANGED lastStarted
    /\ EmitAfterFlush(Event("completed", t, 0))

TurnStarted(t) ==
    IF t \in {active, lastStarted} THEN UNCHANGED <<turnVars, buffer, log>>
    ELSE /\ active' = t /\ lastStarted' = t /\ UNCHANGED lastCompleted
         /\ EmitAfterFlush(Event("started", t, 0))

TurnCompleted(t) ==
    IF t = lastCompleted THEN UNCHANGED <<turnVars, buffer, log>>
    ELSE /\ lastCompleted' = t /\ active' = None /\ UNCHANGED lastStarted
         /\ EmitAfterFlush(Event("completed", t, 0))

\* #onNotification for a line of the form in use.
Process(line) ==
    \/ line.kind = "started" /\ TurnStarted(line.turn)
    \/ line.kind = "completed" /\ TurnCompleted(line.turn)
    \/ /\ line.kind = "output"
       /\ buffer' = Append(buffer, Event("output", line.turn, line.piece))
       /\ UNCHANGED <<turnVars, log>>

ReadLine(line) ==
    /\ ~Replaying /\ pipe # <<>> /\ Head(pipe) = line /\ pipe' = Tail(pipe)

\* A notification of codex/event.
ReadWrapped ==
    /\ pipe # <<>>
    /\ LET line == Head(pipe) IN
       /\ ReadLine(line) /\ line.kind # "answer" /\ line.wrapped
       /\ \/ mode = "direct" /\ UNCHANGED <<held, turnVars, buffer, log>>
          \/ mode = "none" /\ held' = Append(held, line) /\ UNCHANGED <<turnVars, buffer, log>>
          \/ mode = "wrapped" /\ Process(line) /\ UNCHANGED held
    /\ UNCHANGED <<codexVars, mode, requests, timers, pastVars>>

\* Wrong: direct notifications are handled beside wrapped ones.
ReadDirectAlways ==
    /\ pipe # <<>>
    /\ LET line == Head(pipe) IN
       /\ ReadLine(line) /\ line.kind # "answer" /\ ~line.wrapped
       /\ mode' = IF mode = "none" THEN "direct" ELSE mode
       /\ Process(line) /\ held' = IF mode = "none" THEN <<>> ELSE held
    /\ UNCHANGED <<codexVars, requests, timers, pastVars>>

ReadDirect ==
    /\ pipe # <<>>
    /\ LET line == Head(pipe) IN
       /\ ReadLine(line) /\ line.kind # "answer" /\ ~line.wrapped
       /\ mode' = IF mode = "none" THEN "direct" ELSE mode
       /\ IF mode = "wrapped" THEN UNCHANGED <<held, turnVars, buffer, log>>
          ELSE Process(line) /\ held' = <<>>
    /\ UNCHANGED <<codexVars, requests, timers, pastVars>>

\* Wrong: the timer is about the turn that is active now.
ReadAnswerLate ==
    /\ pipe # <<>>
    /\ LET line == Head(pipe) IN
       /\ ReadLine(line) /\ line.kind = "answer"
       /\ timers' = IF running THEN timers \cup ({active} \ {None}) ELSE timers
       /\ IF running /\ line.request.stop
          THEN /\ held' = <<>> /\ cut' = (cut \/ held # <<>>)
               /\ log' = log \o buffer /\ buffer' = <<>>
          ELSE UNCHANGED <<held, cut, log, buffer>>
    /\ UNCHANGED <<codexVars, mode, turnVars, requests, cancelled, unnamed, cancels>>

\* Wrong: no timer.
ReadAnswerTrusting ==
    /\ pipe # <<>>
    /\ LET line == Head(pipe) IN
       /\ ReadLine(line) /\ line.kind = "answer"
       /\ IF running /\ line.request.stop
          THEN /\ held' = <<>> /\ cut' = (cut \/ held # <<>>)
               /\ log' = log \o buffer /\ buffer' = <<>>
          ELSE UNCHANGED <<held, cut, log, buffer>>
    /\ UNCHANGED <<codexVars, mode, turnVars, requests, timers, cancelled, unnamed, cancels>>

\* The answer to turn/interrupt: cancel sets its timer, stop goes on.
ReadAnswer ==
    /\ pipe # <<>>
    /\ LET line == Head(pipe) IN
       /\ ReadLine(line) /\ line.kind = "answer"
       /\ timers' = IF running THEN timers \cup ({line.request.turn} \ {None}) ELSE timers
       /\ IF running /\ line.request.stop
          THEN /\ held' = <<>> /\ cut' = (cut \/ held # <<>>)
               /\ log' = log \o buffer /\ buffer' = <<>>
          ELSE UNCHANGED <<held, cut, log, buffer>>
    /\ UNCHANGED <<codexVars, mode, turnVars, requests, cancelled, unnamed, cancels>>

\* 150 ms after the first held line.
HoldTimer ==
    /\ mode = "none" /\ held # <<>> /\ mode' = "wrapped"
    /\ UNCHANGED <<codexVars, pipe, held, turnVars, buffer, requests, timers, log, pastVars>>

Replay ==
    /\ Replaying /\ held' = Tail(held) /\ Process(Head(held))
    /\ UNCHANGED <<codexVars, pipe, mode, requests, timers, pastVars>>

\* 40 ms after the first buffered piece, or when there is too much of it.
FlushOutput ==
    /\ ~Replaying /\ buffer # <<>> /\ log' = log \o buffer /\ buffer' = <<>>
    /\ UNCHANGED <<codexVars, pipe, mode, held, turnVars, requests, timers, pastVars>>

\* session.cancel and session.stop.  A process that has ended does not answer.
Cancel ==
    /\ ~Replaying /\ running /\ cancels < MaxCancels /\ cancels' = cancels + 1
    /\ cancelled' = cancelled \cup ({active} \ {None})
    /\ \E stop \in BOOLEAN : requests' = requests \cup {[turn |-> active, stop |-> stop]}
    /\ UNCHANGED <<codexVars, pipe, mode, held, turnVars, buffer, timers, log, unnamed, cut>>

\* Wrong: the event is emitted, the turn stays active.
ForceCompleteStaysActive(t) ==
    /\ ~Replaying /\ t \in timers /\ timers' = timers \ {t}
    /\ UNCHANGED turnVars
    /\ IF active # t THEN UNCHANGED <<buffer, log>>
       ELSE EmitAfterFlush(Event("forced", t, 0))
    /\ UNCHANGED <<codexVars, pipe, mode, held, requests, pastVars>>

\* 1.5 s after the answer.
ForceComplete(t) ==
    /\ ~Replaying /\ t \in timers /\ timers' = timers \ {t}
    /\ IF active # t THEN UNCHANGED <<turnVars, buffer, log>>
       ELSE /\ active' = None /\ UNCHANGED <<lastStarted, lastCompleted>>
            /\ EmitAfterFlush(Event("forced", t, 0))
    /\ UNCHANGED <<codexVars, pipe, mode, held, requests, pastVars>>

\* The process ends: lines that were not read are read after this event.
\* Requests without an answer fail, which cancel takes for an answer.
CodexExits ==
    /\ ~Replaying /\ running /\ running' = FALSE
    /\ held' = <<>> /\ cut' = (cut \/ held # <<>>)
    /\ EmitAfterFlush([kind |-> "exited"])
    /\ requests' = {}
    /\ timers' = timers \cup
         ({r.turn : r \in requests \cup {r \in Request : \E i \in 1..Len(pipe) :
                                            pipe[i] = [kind |-> "answer", request |-> r]}} \ {None})
    /\ UNCHANGED <<build, turns, busy, written, pipe, mode, turnVars, cancelled, unnamed, cancels>>

Next ==
    \/ CodexStarts \/ CodexWrites \/ CodexCompletes \/ CodexInterrupts \/ CodexExits
    \/ ReadWrapped \/ ReadDirect \/ ReadAnswer \/ HoldTimer \/ Replay \/ FlushOutput
    \/ Cancel \/ \E t \in Turn : ForceComplete(t)

Spec == Init /\ [][Next]_vars

\* Lines are read and timers fire.  Codex need do nothing.
Fairness ==
    /\ WF_vars(ReadWrapped) /\ WF_vars(ReadDirect) /\ WF_vars(ReadAnswer)
    /\ WF_vars(HoldTimer) /\ WF_vars(Replay) /\ WF_vars(FlushOutput)
    /\ \A t \in Turn : WF_vars(ForceComplete(t))

FairSpec == Spec /\ Fairness

-----------------------------------------------------------------------------
(* Properties.                                                             *)

Exited == \E i \in 1..Len(log) : log[i].kind = "exited"
Is(i, kind, t) == log[i].kind = kind /\ log[i].turn = t
Ends(i, t) == Is(i, "completed", t) \/ Is(i, "forced", t)

\* The turn that shows as running to whoever has read the log.
Shows(t) ==
    \E i \in 1..Len(log) :
        /\ Is(i, "started", t)
        /\ \A j \in (i + 1)..Len(log) : log[j].kind = "output"

\* The session and the host agree on the turn that runs, whatever timer or late
\* or repeated notification ends it: no turn stays active in one of them only.
TurnAgrees == ~Exited => \A t \in Turn : active = t <=> Shows(t)

\* A turn is reported as completed when Codex has ended it, or when a cancel was
\* called while it was active: a cancel that is answered after the next turn has
\* begun ends none.
EndsForCause ==
    \A i \in 1..Len(log) : \A t \in Turn : Ends(i, t) =>
        t \in cancelled \/ (turns >= t /\ ~(busy /\ turns = t))

\* Whatever forms Codex uses and whenever the timer of held lines fires, a turn
\* is reported as started once and as completed once; a cancel may add one
\* completion of its own.
BoundaryOnce ==
    \A i, j \in 1..Len(log) : \A t \in Turn : \A kind \in {"started", "completed", "forced"} :
        Is(i, kind, t) /\ Is(j, kind, t) => i = j

\* A piece of output follows the start of its turn and precedes its completion,
\* and pieces keep their order: those before it are there, and none is twice,
\* unless the session ended while lines were held: later ones are then read
\* without them.
OutputInTurn ==
    ~cut => \A i \in 1..Len(log) : log[i].kind = "output" =>
        LET t == log[i].turn IN
        /\ \E j \in 1..(i - 1) : Is(j, "started", t)
        /\ \A j \in 1..(i - 1) : ~Is(j, "completed", t) /\ log[j] # log[i]
        /\ \A k \in 1..(log[i].piece - 1) :
              \E j \in 1..(i - 1) : log[j] = Event("output", t, k)

\* When everything was read and flushed, everything that Codex has written is
\* in the log, unless the session ended while lines were held.
OutputComplete ==
    pipe = <<>> /\ held = <<>> /\ buffer = <<>> /\ ~cut =>
        \A t \in Turn : \A k \in 1..written[t] :
            \E i \in 1..Len(log) : log[i] = Event("output", t, k)

\* A turn that Codex has ended does not stay active, unless an interrupt that
\* did not name it has ended it in silence.
TurnEnds ==
    \A t \in Turn :
        (turns >= t /\ ~(busy /\ turns = t) /\ t \notin unnamed /\ ~cut) ~> (active # t \/ cut)
=============================================================================
