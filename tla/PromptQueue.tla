---------------------------- MODULE PromptQueue ----------------------------
(***************************************************************************)
(* Queued prompts and direct messages of one session.                      *)
(*                                                                         *)
(* A prompt that is written while Codex works is put into the table        *)
(* queued_prompts.  The host sends it when a user asks for it, or by       *)
(* itself after the next turn.  Sending takes a lock of the session and    *)
(* waits for the runner to accept the command: what happens to the prompt  *)
(* is decided when the answer, a timeout or the end of the connection      *)
(* settles the entry in pendingRunnerCommands.                             *)
(*                                                                         *)
(* The host is one JavaScript thread.  What follows an await runs as a     *)
(* microtask: before any request, timer or close, but perhaps after other  *)
(* frames of the chunk that the socket has delivered.                      *)
(*                                                                         *)
(* The turn events reach the host once and in order (see RunnerDelivery);  *)
(* the answer to a command is not tracked and is lost with its connection. *)
(* The n-th prompt is n, the n-th command is n.                            *)
(***************************************************************************)
EXTENDS Integers, Sequences, FiniteSets

CONSTANTS
    Toasts,         \* notifications.sseToasts may be other than 'never'
    MaxPrompts,     \* bound: prompts queued
    MaxMessages,    \* bound: messages sent without the queue
    MaxSends,       \* bound: commands, not below what the other bounds allow
    MaxEdits,       \* bound: prompts edited
    MaxBreaks       \* bound: connections and processes that end

ASSUME PromptQueueAssumption ==
    /\ Toasts \subseteq BOOLEAN
    /\ MaxPrompts \in Nat /\ MaxMessages \in Nat /\ MaxSends \in Nat
    /\ MaxEdits \in Nat /\ MaxBreaks \in Nat

Prompt == 1..MaxPrompts
None == 0                       \* no prompt; the prompt of a direct message
Send == 1..MaxSends
Phase == {"unused", "waiting", "accepted", "failed", "sent", "rejected", "dropped"}
Answer == [type : {"accepted"}, send : Send]
Event == [type : {"started", "completed", "broken"}]
    \* turn.started; turn.completed with status completed; turn.completed
    \* with another status, or session.status failed

VARIABLES
    toasts,         \* whether sseToasts is other than 'never'
    created,        \* prompts queued so far
    table,          \* queued_prompts
    blank,          \* prompts whose text an edit has emptied
    editing,        \* the prompt that a PATCH has looked up
    lock,           \* queuedPromptSendLocks has the session
    phase,          \* of every command; waiting is in pendingRunnerCommands
    prompt,         \* the queued prompt that a command sends
    sends,          \* commands so far
    drain,          \* a drain is in the microtask queue
    turnState,      \* sessions.turn_state is running
    connected,      \* the machine is in connections
    toRunner, toHost,   \* messages on the way, and events not delivered yet
    loaded,         \* the runner has the session
    starting,       \* commands accepted by the runner, turn/start not done
    active,         \* Codex works on a turn
    newBoot,        \* the runner process has not said hello yet
    removed, returned,      \* history: prompts deleted by the user, given back
    revived,        \* history: edits that put a prompt back into the table
    due,            \* history: a turn completed while prompts were queued
    messages, edits, breaks     \* count towards the bounds

queueVars  == <<created, table, blank, editing>>
sendVars   == <<lock, phase, prompt, sends>>
linkVars   == <<connected, toRunner, toHost>>
runnerVars == <<loaded, starting, active, newBoot>>
userVars   == <<removed, returned, revived>>
countVars  == <<messages, edits, breaks>>
vars == <<toasts, queueVars, sendVars, drain, turnState, linkVars, runnerVars,
                    userVars, due, countVars>>

TypeOK ==
    /\ toasts \in BOOLEAN /\ created \in 0..MaxPrompts /\ table \subseteq Prompt
    /\ blank \subseteq Prompt /\ editing \in Prompt \cup {None}
    /\ lock \in BOOLEAN /\ phase \in [Send -> Phase]
    /\ prompt \in [Send -> Prompt \cup {None}] /\ sends \in 0..MaxSends
    /\ drain \in BOOLEAN /\ turnState \in BOOLEAN
    /\ connected \in BOOLEAN /\ toRunner \in Seq(Send) /\ toHost \in Seq(Answer \cup Event)
    /\ loaded \in BOOLEAN /\ starting \subseteq Send /\ active \in BOOLEAN /\ newBoot \in BOOLEAN
    /\ removed \subseteq Prompt /\ returned \subseteq Prompt
    /\ revived \in [Prompt -> Nat] /\ due \in BOOLEAN
    /\ messages \in Nat /\ edits \in Nat /\ breaks \in Nat

Init ==
    /\ toasts \in Toasts /\ created = 0 /\ table = {} /\ blank = {} /\ editing = None
    /\ lock = FALSE /\ phase = [n \in Send |-> "unused"] /\ prompt = [n \in Send |-> None]
    /\ sends = 0 /\ drain = FALSE /\ turnState = FALSE
    /\ connected = TRUE /\ toRunner = <<>> /\ toHost = <<>>
    /\ loaded = TRUE /\ starting = {} /\ active = FALSE /\ newBoot = FALSE
    /\ removed = {} /\ returned = {}
    /\ revived = [p \in Prompt |-> 0] /\ due = FALSE
    /\ messages = 0 /\ edits = 0 /\ breaks = 0

InFlight == {n \in Send : phase[n] \in {"waiting", "accepted", "failed"}}
Settled == {n \in Send : phase[n] \in {"accepted", "failed"}}

\* No microtask is left: the next request, timer or close may be handled.
HostIdle == Settled = {} /\ ~drain

KeepDue == due' = (due /\ connected' /\ ~lock' /\ table' # {})

-----------------------------------------------------------------------------
(* The browser.                                                            *)

\* POST queued-prompts.
Enqueue ==
    /\ HostIdle /\ created < MaxPrompts
    /\ created' = created + 1 /\ table' = table \cup {created + 1}
    /\ UNCHANGED <<toasts, blank, editing, sendVars, drain, turnState, linkVars, runnerVars,
                   userVars, due, countVars>>

\* PATCH up to the await of the body.
EditArrives ==
    /\ HostIdle /\ editing = None /\ edits < MaxEdits /\ edits' = edits + 1
    /\ editing' \in table
    /\ UNCHANGED <<toasts, created, table, blank, sendVars, drain, turnState, linkVars, runnerVars,
                    userVars, due, messages, breaks>>

\* Wrong: a prompt that was not found is not refused.
EditAppliesAlways ==
    /\ HostIdle /\ editing' = None
    /\ table' = table \cup {editing}
    /\ UNCHANGED <<toasts, created, blank, sendVars, drain, turnState, linkVars, runnerVars,
                   userVars, due, countVars>>

\* The rest of PATCH.  The row is inserted if it is gone meanwhile.
EditApplies ==
    /\ HostIdle /\ editing # None /\ editing' = None
    /\ table' = table \cup {editing}
    /\ blank' \in {blank \cup {editing}, blank \ {editing}}
    /\ revived' = IF editing \in table THEN revived
                  ELSE [revived EXCEPT ![editing] = @ + 1]
    /\ UNCHANGED <<toasts, created, sendVars, drain, turnState, linkVars, runnerVars,
                   removed, returned, due, countVars>>

\* The body of PATCH is invalid.
EditRefused ==
    /\ HostIdle /\ editing # None /\ editing' = None
    /\ UNCHANGED <<toasts, created, table, blank, sendVars, drain, turnState, linkVars, runnerVars,
                    userVars, due, countVars>>

\* DELETE queued-prompts.
Remove ==
    /\ HostIdle
    /\ \E p \in table : table' = table \ {p} /\ removed' = removed \cup {p}
    /\ UNCHANGED <<toasts, created, blank, editing, sendVars, drain, turnState, linkVars, runnerVars,
                    returned, revived, countVars>>
    /\ KeepDue

-----------------------------------------------------------------------------
(* Sending.                                                                *)

\* The prompt leaves the table and is offered to the browsers that watch,
\* if any does; the offer is not kept for a browser that comes later.
GiveBack(p) ==
    /\ table' = table \ {p}
    /\ returned' = returned \cup ({p} \ {None})
    /\ UNCHANGED <<removed, revived>>

\* sendRunnerCommandAndAwait for prompt p, or for a direct message.
BeginSend(p) ==
    /\ sends < MaxSends /\ sends' = sends + 1
    /\ prompt' = [prompt EXCEPT ![sends + 1] = p]
    /\ IF connected
       THEN /\ phase' = [phase EXCEPT ![sends + 1] = "waiting"]
            /\ toRunner' = Append(toRunner, sends + 1)
            /\ lock' = (lock \/ p # None)
            /\ UNCHANGED <<table, userVars>>
       ELSE /\ phase' = [phase EXCEPT ![sends + 1] = "rejected"]
            /\ GiveBack(p) /\ UNCHANGED <<toRunner, lock>>
    /\ UNCHANGED <<toasts, created, blank, editing, turnState, connected, toHost, runnerVars,
                   edits, breaks>>
    /\ KeepDue

\* sendQueuedPromptNowBackend: a blank prompt is dropped, without the lock.
SendQueued(p) ==
    \/ p \notin blank /\ BeginSend(p)
    \/ /\ p \in blank /\ table' = table \ {p} /\ removed' = removed \cup {p} /\ due' = FALSE
       /\ UNCHANGED <<toasts, created, blank, editing, sendVars, turnState, linkVars, runnerVars,
                      returned, revived, edits, breaks>>

\* POST queued-prompts/:id/send.
SendNow ==
    /\ HostIdle /\ ~lock
    /\ \E p \in table : SendQueued(p)
    /\ UNCHANGED <<drain, messages>>

\* POST messages: no lock is taken.
SendMessage ==
    /\ HostIdle /\ messages < MaxMessages /\ messages' = messages + 1
    /\ BeginSend(None) /\ UNCHANGED drain

Oldest(p) == \A q \in table : p <= q

\* Wrong: the lock is not looked at.
DrainIgnoresLock ==
    /\ drain /\ drain' = FALSE
    /\ IF table = {} THEN UNCHANGED <<table, toRunner, sendVars, due, userVars>>
       ELSE \E p \in table : Oldest(p) /\ SendQueued(p)
    /\ UNCHANGED <<toasts, created, blank, editing, turnState, connected, toHost, runnerVars,
                   countVars>>

\* onSessionTurnCompleted: skipIfBusy.
Drain ==
    /\ drain /\ drain' = FALSE
    /\ IF lock \/ table = {}
       THEN UNCHANGED <<table, toRunner, sendVars, due, userVars>>
       ELSE \E p \in table : Oldest(p) /\ SendQueued(p)
    /\ UNCHANGED <<toasts, created, blank, editing, turnState, connected, toHost, runnerVars,
                   countVars>>

Conclude(n) == phase' = [phase EXCEPT ![n] = IF @ = "accepted" THEN "sent" ELSE "rejected"]

\* Wrong: a failed prompt is deleted and not offered to the browsers.
SendContinuesSilently(n) ==
    /\ n \in Settled /\ Conclude(n)
    /\ turnState' = (turnState \/ phase[n] = "accepted")
    /\ table' = table \ {prompt[n]} /\ UNCHANGED userVars
    /\ lock' = (lock /\ prompt[n] = None)
    /\ UNCHANGED <<toasts, created, blank, editing, prompt, sends, drain, linkVars, runnerVars,
                   countVars>>
    /\ KeepDue

\* Wrong: the prompt stays in the table when the command fails.
SendContinuesKeeping(n) ==
    /\ n \in Settled /\ Conclude(n)
    /\ turnState' = (turnState \/ phase[n] = "accepted")
    /\ IF phase[n] = "accepted" THEN table' = table \ {prompt[n]} ELSE UNCHANGED table
    /\ UNCHANGED userVars
    /\ lock' = (lock /\ prompt[n] = None)
    /\ UNCHANGED <<toasts, created, blank, editing, prompt, sends, drain, linkVars, runnerVars,
                   countVars>>
    /\ KeepDue

\* Wrong: the lock is released only after success.
SendContinuesLocked(n) ==
    /\ n \in Settled /\ Conclude(n)
    /\ turnState' = (turnState \/ phase[n] = "accepted")
    /\ IF phase[n] = "accepted" THEN table' = table \ {prompt[n]} /\ UNCHANGED userVars
       ELSE GiveBack(prompt[n])
    /\ lock' = (lock /\ (prompt[n] = None \/ phase[n] = "failed"))
    /\ UNCHANGED <<toasts, created, blank, editing, prompt, sends, drain, linkVars, runnerVars,
                   countVars>>
    /\ KeepDue

\* What follows the await: session.input is stored, or the prompt is given
\* back; the lock is released in either case.
SendContinues(n) ==
    /\ n \in Settled /\ Conclude(n)
    /\ turnState' = (turnState \/ phase[n] = "accepted")
    /\ IF phase[n] = "accepted" THEN table' = table \ {prompt[n]} /\ UNCHANGED userVars
       ELSE GiveBack(prompt[n])
    /\ lock' = (lock /\ prompt[n] = None)
    /\ UNCHANGED <<toasts, created, blank, editing, prompt, sends, drain, linkVars, runnerVars,
                   countVars>>
    /\ KeepDue

\* The timer of the entry in pendingRunnerCommands.
Timeout(n) ==
    /\ HostIdle /\ phase[n] = "waiting" /\ phase' = [phase EXCEPT ![n] = "failed"]
    /\ UNCHANGED <<toasts, queueVars, lock, prompt, sends, drain, turnState, linkVars, runnerVars,
                    userVars, due, countVars>>

-----------------------------------------------------------------------------
(* The runner and Codex.                                                   *)

Tell(e) == toHost' = Append(toHost, [type |-> e])

\* #onSessionSend answers before it starts the turn.
RunnerAccepts ==
    /\ connected /\ toRunner # <<>> /\ toRunner' = Tail(toRunner)
    /\ toHost' = Append(toHost, [type |-> "accepted", send |-> Head(toRunner)])
    /\ starting' = starting \cup {Head(toRunner)}
    /\ UNCHANGED <<toasts, queueVars, sendVars, drain, turnState, connected, loaded, active,
                   newBoot, userVars, due, countVars>>

\* turn/start: Codex begins a turn, or the input joins the one it works on.
RunnerStarts(n) ==
    /\ n \in starting /\ starting' = starting \ {n}
    /\ active' = TRUE /\ loaded' = TRUE
    /\ IF active THEN UNCHANGED toHost ELSE Tell("started")
    /\ UNCHANGED <<toasts, queueVars, sendVars, drain, turnState, connected, toRunner, newBoot,
                    userVars, due, countVars>>

\* turn/start fails: for a session the runner has, the host gets output only.
RunnerFails(n) ==
    /\ n \in starting /\ starting' = starting \ {n}
    /\ IF loaded THEN UNCHANGED toHost ELSE Tell("broken")
    /\ UNCHANGED <<toasts, queueVars, sendVars, drain, turnState, connected, toRunner, loaded,
                   active, newBoot, userVars, due, countVars>>

TurnEnds ==
    /\ active /\ active' = FALSE
    /\ \E e \in {"completed", "broken"} : Tell(e)
    /\ UNCHANGED <<toasts, queueVars, sendVars, drain, turnState, connected, toRunner, loaded,
                   starting, newBoot, userVars, due, countVars>>

-----------------------------------------------------------------------------
(* What the host receives.                                                 *)

\* A frame of the chunk at hand.  A command that has failed was settled by a
\* timer or a close, and no frame comes before what follows its await.
Received(type) ==
    /\ \A n \in Send : phase[n] # "failed"
    /\ connected /\ toHost # <<>> /\ Head(toHost).type = type
    /\ toHost' = Tail(toHost)

\* session.command.accepted for an entry that is still pending.
HostAccepted ==
    /\ Received("accepted")
    /\ LET n == Head(toHost).send IN
       phase' = IF phase[n] = "waiting" THEN [phase EXCEPT ![n] = "accepted"] ELSE phase
    /\ UNCHANGED <<toasts, queueVars, lock, prompt, sends, drain, turnState, connected, toRunner,
                   runnerVars, userVars, due, countVars>>

HostTurnStarted ==
    /\ Received("started") /\ turnState' = TRUE
    /\ UNCHANGED <<toasts, queueVars, sendVars, drain, connected, toRunner, runnerVars,
                   userVars, due, countVars>>

\* Wrong: the drain starts only if no turn runs by the host's own account,
\* which still is the completed one.
HostTurnCompletedIfIdle ==
    /\ Received("completed") /\ turnState' = FALSE
    /\ drain' = (drain \/ (toasts /\ ~turnState))
    /\ due' = (due \/ (table # {} /\ ~lock))
    /\ UNCHANGED <<toasts, queueVars, sendVars, connected, toRunner, runnerVars,
                   userVars, countVars>>

\* The handler returns before onSessionTurnCompleted when toasts are off.
HostTurnCompleted ==
    /\ Received("completed") /\ turnState' = FALSE
    /\ drain' = (drain \/ toasts)
    /\ due' = (due \/ (table # {} /\ ~lock))
    /\ UNCHANGED <<toasts, queueVars, sendVars, connected, toRunner, runnerVars,
                   userVars, countVars>>

HostTurnBroken ==
    /\ Received("broken") /\ turnState' = FALSE
    /\ UNCHANGED <<toasts, queueVars, sendVars, drain, connected, toRunner, runnerVars,
                   userVars, due, countVars>>

-----------------------------------------------------------------------------
(* Connections and processes.                                              *)

Tracked(m) == m.type # "accepted"

\* The k-th smallest of a set of numbers.
Nth(places, k) == CHOOSE i \in places : Cardinality({j \in places : j <= i}) = k

\* Messages on the way are lost, events are sent again.
LinkLost ==
    /\ toRunner' = <<>>
    /\ LET events == {i \in DOMAIN toHost : Tracked(toHost[i])}
       IN toHost' = [k \in 1..Cardinality(events) |-> toHost[Nth(events, k)]]

\* onRunnerDisconnect: rejectByMachine.
RejectWaiting == phase' = [n \in Send |-> IF phase[n] = "waiting" THEN "failed" ELSE phase[n]]

Break == breaks < MaxBreaks /\ breaks' = breaks + 1

ConnectionBreaks ==
    /\ HostIdle /\ connected /\ Break
    /\ connected' = FALSE /\ LinkLost /\ RejectWaiting
    /\ UNCHANGED <<toasts, queueVars, lock, prompt, sends, drain, turnState, runnerVars,
                   userVars, messages, edits>>
    /\ KeepDue

\* The runner connects again before the host has seen the old connection
\* close: nothing is rejected.
ConnectionReplaced ==
    /\ HostIdle /\ connected /\ Break /\ LinkLost
    /\ UNCHANGED <<toasts, queueVars, sendVars, drain, turnState, connected, runnerVars,
                   userVars, due, messages, edits>>

RunnerRestart ==
    /\ HostIdle /\ Break
    /\ connected' = FALSE /\ LinkLost /\ RejectWaiting
    /\ loaded' = FALSE /\ starting' = {} /\ active' = FALSE /\ newBoot' = TRUE
    /\ UNCHANGED <<toasts, queueVars, lock, prompt, sends, drain, turnState, userVars,
                   messages, edits>>
    /\ KeepDue

\* Wrong: every hello recovers.
HostHelloRecovers ==
    /\ HostIdle /\ ~connected /\ connected' = TRUE
    /\ turnState' = FALSE /\ newBoot' = FALSE
    /\ UNCHANGED <<toasts, queueVars, sendVars, drain, toRunner, toHost, loaded, starting, active,
                    userVars, due, countVars>>

\* hello: a new process makes the host store turn.completed (interrupted).
HostHello ==
    /\ HostIdle /\ ~connected /\ connected' = TRUE
    /\ turnState' = (turnState /\ ~newBoot) /\ newBoot' = FALSE
    /\ UNCHANGED <<toasts, queueVars, sendVars, drain, toRunner, toHost, loaded, starting, active,
                    userVars, due, countVars>>

\* The table and turn_state survive; locks, commands and requests do not.
HostRestart ==
    /\ Break
    /\ connected' = FALSE /\ LinkLost
    /\ lock' = FALSE /\ drain' = FALSE /\ editing' = None
    /\ phase' = [n \in Send |-> IF n \in InFlight THEN "dropped" ELSE phase[n]]
    /\ due' = FALSE
    /\ UNCHANGED <<toasts, created, table, blank, prompt, sends, turnState, runnerVars, userVars,
                   messages, edits>>

Next ==
    \/ Enqueue \/ EditArrives \/ EditApplies \/ EditRefused \/ Remove
    \/ SendNow \/ SendMessage \/ Drain
    \/ \E n \in Send : SendContinues(n) \/ Timeout(n) \/ RunnerStarts(n) \/ RunnerFails(n)
    \/ RunnerAccepts \/ TurnEnds
    \/ HostAccepted \/ HostTurnStarted \/ HostTurnCompleted \/ HostTurnBroken
    \/ ConnectionBreaks \/ ConnectionReplaced \/ RunnerRestart \/ HostHello \/ HostRestart

Spec == Init /\ [][Next]_vars

\* Microtasks run and timers fire.  The network, Codex and the users need do
\* nothing.
Fairness ==
    /\ WF_vars(Drain)
    /\ \A n \in Send : WF_vars(SendContinues(n)) /\ WF_vars(Timeout(n))

FairSpec == Spec /\ Fairness

-----------------------------------------------------------------------------
(* Properties.                                                             *)

Attempts(p) == {n \in Send : prompt[n] = p}
QueuedInFlight == {n \in InFlight : prompt[n] # None}

\* At most one queued prompt is on its way, and exactly then the session is
\* locked: neither a drain that meets a user's own send nor a send that fails
\* leaves two of them, or a lock that nobody holds.
LockExact ==
    /\ lock <=> QueuedInFlight # {}
    /\ \A m, n \in QueuedInFlight : m = n

\* A prompt is sent once, and again only if the host died while it was on its
\* way or if a late edit put it back into the table.
SentOnce ==
    \A p \in Prompt :
        Cardinality(Attempts(p)) <=
            1 + revived[p] + Cardinality({n \in Attempts(p) : phase[n] = "dropped"})

\* A queued prompt is in the table until the user removes or empties it, it is
\* recorded as the input of a turn, or it is offered back to the browsers that
\* watch when it fails: no other step makes it vanish.
PromptKept ==
    \A p \in 1..created :
        \/ p \in table \cup removed \cup returned
        \/ \E n \in Attempts(p) : phase[n] = "sent"

\* As long as Codex works on a turn of which the host has all events, the
\* session shows as running, so that it can be stopped and prompts are queued.
ActiveShowsRunning ==
    active /\ (\A i \in 1..Len(toHost) : toHost[i].type = "accepted") => turnState

\* The lock is always released.
LockReleased == lock ~> ~lock

\* "queued prompts [...] auto-drain after turn completion": when a turn has
\* completed while prompts were queued and no other was on its way, one is
\* sent, unless the connection ends or the table is emptied.
AutoDrain == due ~> ~due
AutoDrainWithToasts == (due /\ toasts) ~> ~due
=============================================================================
