----------------------------- MODULE Approvals -----------------------------
(***************************************************************************)
(* Approval requests of one session.                                       *)
(*                                                                         *)
(* Codex asks, the runner waits for the decision and reports the request;  *)
(* the host stores the event, counts it in sessions.pending_approvals and  *)
(* keeps the request open in two places, the approvals map in memory and   *)
(* the approvals table.  A browser decides with POST /api/approvals/:id:   *)
(* the host looks the request up, reads the body, sends approval.respond   *)
(* to the runner and closes the request.  A runner that comes back with a  *)
(* new bootId makes the host close whatever is open for that machine.      *)
(*                                                                         *)
(* How events reach the host is the subject of RunnerDelivery.  Here they  *)
(* wait in outbox until they are acknowledged, the host handles them in    *)
(* order, and after a reconnect it handles the unacknowledged ones again.  *)
(* The n-th request that the runner reports has the approvalId n.          *)
(***************************************************************************)
EXTENDS Integers, Sequences, FiniteSets

CONSTANTS
    Request,        \* HTTP requests that may be open at the same time
    Deployments,    \* whether the runner may be part of the host process
    MaxAsked,       \* bound: approvals requested
    MaxBoots,       \* bound: runner processes
    MaxPosts,       \* bound: HTTP requests made
    MaxBreaks       \* bound: connections broken, host processes ended

ASSUME ApprovalsAssumption ==
    /\ Deployments \subseteq BOOLEAN
    /\ MaxAsked \in Nat /\ MaxBoots \in Nat \ {0} /\ MaxPosts \in Nat /\ MaxBreaks \in Nat

Id == 1..MaxAsked
None == 0           \* no approval; in toRunner: session.cleanup

VARIABLES
    local,          \* the runner is part of the host process
    boot,           \* runnerBootId, the processes are counted
    asked,          \* approvals requested so far
    askedBy,        \* the process that requested an approval
    waiting,        \* pendingApprovals of the running session
    outbox,         \* approval.request events not acknowledged yet
    connected,      \* connections has an open socket of the machine
    handled,        \* events of outbox handled on this connection
    toRunner,       \* approval.respond messages in flight
    seenBoot,       \* machines.capabilities.bootId
    approvals,      \* the keys of the map approvals
    rows,           \* the table approvals
    recordedUnder,  \* seenBoot when the event was stored, 0 if it is not
    resolved,       \* number of approval.resolved events stored
    pendingCount,   \* sessions.pending_approvals
    exists,         \* the session's row is there
    posts,          \* the approval an HTTP request is about
    answered,       \* history: approvals decided by a user
    posted, breaks  \* count towards MaxPosts, MaxBreaks

runnerVars == <<local, boot, asked, askedBy, waiting>>
linkVars   == <<outbox, connected, handled, toRunner>>
storeVars  == <<seenBoot, rows, recordedUnder, resolved, pendingCount, exists>>
httpVars   == <<posts, answered, posted>>
vars == <<runnerVars, linkVars, storeVars, approvals, httpVars, breaks>>

TypeOK ==
    /\ local \in BOOLEAN /\ boot \in 1..MaxBoots /\ seenBoot \in 1..MaxBoots
    /\ asked \in 0..MaxAsked /\ askedBy \in [Id -> 0..MaxBoots] /\ waiting \subseteq Id
    /\ outbox \in Seq(Id) /\ toRunner \in Seq(Id \cup {None})
    /\ connected \in BOOLEAN /\ handled \in 0..Len(outbox)
    /\ approvals \subseteq Id /\ rows \subseteq Id /\ answered \subseteq Id
    /\ recordedUnder \in [Id -> 0..MaxBoots] /\ resolved \in [Id -> Nat]
    /\ pendingCount \in Nat /\ exists \in BOOLEAN
    /\ posts \in [Request -> Id \cup {None}] /\ posted \in Nat /\ breaks \in Nat

Recorded == {id \in Id : recordedUnder[id] # 0}

Init ==
    /\ local \in Deployments
    /\ boot = 1 /\ asked = 0 /\ askedBy = [id \in Id |-> 0] /\ waiting = {}
    /\ outbox = <<>> /\ connected = TRUE /\ handled = 0 /\ toRunner = <<>>
    /\ seenBoot = 1 /\ rows = {} /\ recordedUnder = [id \in Id |-> 0]
    /\ resolved = [id \in Id |-> 0] /\ pendingCount = 0 /\ exists = TRUE
    /\ approvals = {}
    /\ posts = [r \in Request |-> None] /\ answered = {} /\ posted = 0 /\ breaks = 0

-----------------------------------------------------------------------------
(* The runner.                                                             *)

\* #onRequest: Codex waits for the decision.
RunnerAsk ==
    /\ asked < MaxAsked
    /\ asked' = asked + 1
    /\ askedBy' = [askedBy EXCEPT ![asked + 1] = boot]
    /\ waiting' = waiting \cup {asked + 1}
    /\ outbox' = Append(outbox, asked + 1)
    /\ UNCHANGED <<local, boot, connected, handled, toRunner, storeVars, approvals, httpVars, breaks>>

\* Codex exits or the session is stopped: #rejectPendingApprovals, of which
\* the host is not told.
RunnerSessionEnds ==
    /\ waiting # {} /\ waiting' = {}
    /\ UNCHANGED <<local, boot, asked, askedBy, linkVars, storeVars, approvals, httpVars, breaks>>

\* approval.respond, or session.cleanup when the session was deleted.
RunnerReceive ==
    /\ connected /\ toRunner # <<>>
    /\ waiting' = IF Head(toRunner) = None THEN {} ELSE waiting \ {Head(toRunner)}
    /\ toRunner' = Tail(toRunner)
    /\ UNCHANGED <<local, boot, asked, askedBy, outbox, connected, handled, storeVars,
                   approvals, httpVars, breaks>>

\* Wrong: the position in the stream does not move with the acknowledgement.
RunnerAckedKeepsPosition ==
    /\ connected /\ handled > 0
    /\ outbox' = Tail(outbox)
    /\ UNCHANGED <<runnerVars, connected, handled, toRunner, storeVars, approvals, httpVars, breaks>>

\* The host's acknowledgement of an event it handled arrives.
RunnerAcked ==
    /\ connected /\ handled > 0
    /\ outbox' = Tail(outbox) /\ handled' = handled - 1
    /\ UNCHANGED <<runnerVars, connected, toRunner, storeVars, approvals, httpVars, breaks>>

\* What the end of a connection leaves: a response in flight is lost.
Disconnected == connected' = FALSE /\ handled' = 0 /\ toRunner' = <<>>

\* The next runner process finds the spooled events, the last ones may not
\* have reached the disk.
NextRunner ==
    /\ boot < MaxBoots /\ boot' = boot + 1
    /\ waiting' = {}
    /\ \E n \in 0..Len(outbox) : outbox' = SubSeq(outbox, 1, n)
    /\ UNCHANGED <<local, asked, askedBy>>

RunnerRestart ==
    /\ ~local /\ NextRunner /\ Disconnected
    /\ UNCHANGED <<storeVars, approvals, httpVars, breaks>>

ConnectionBreaks ==
    /\ connected /\ breaks < MaxBreaks /\ breaks' = breaks + 1
    /\ Disconnected
    /\ UNCHANGED <<runnerVars, outbox, storeVars, approvals, httpVars>>

-----------------------------------------------------------------------------
(* The host.                                                               *)

\* approval.resolved is stored for each of ids: MAX(pending_approvals - 1, 0).
StoreResolved(ids) ==
    /\ resolved' = [id \in Id |-> resolved[id] + (IF id \in ids THEN 1 ELSE 0)]
    /\ LET n == pendingCount - Cardinality(ids) IN pendingCount' = IF n > 0 THEN n ELSE 0

\* Wrong: the rows are deleted, the events that close them are not stored.
RecoverDeletesOnly == rows' = {} /\ UNCHANGED <<resolved, pendingCount>>

\* Wrong: the events are stored, the rows stay.
RecoverKeepsRows == StoreResolved(rows) /\ UNCHANGED rows

\* recoverAfterRunnerRestart, as far as approvals go.  The map is not touched.
Recover == StoreResolved(rows) /\ rows' = {}

\* Wrong: every hello is taken for a restart.
BootChangedAlways == TRUE

\* The machine said hello before: the session was started over a connection.
BootChanged == seenBoot # boot

\* hello on a new connection.
HostHello ==
    /\ ~connected
    /\ connected' = TRUE /\ handled' = 0 /\ toRunner' = <<>>
    /\ IF BootChanged THEN Recover ELSE UNCHANGED <<rows, resolved, pendingCount>>
    /\ seenBoot' = boot
    /\ UNCHANGED <<runnerVars, outbox, recordedUnder, exists, approvals, httpVars, breaks>>

\* Wrong: a request that is stored already is opened again.
HostRecordReopens ==
    /\ connected /\ handled < Len(outbox)
    /\ handled' = handled + 1
    /\ LET id == outbox[handled + 1] IN
       /\ IF exists /\ id \notin Recorded
          THEN /\ recordedUnder' = [recordedUnder EXCEPT ![id] = seenBoot]
               /\ pendingCount' = pendingCount + 1
          ELSE UNCHANGED <<recordedUnder, pendingCount>>
       /\ approvals' = approvals \cup {id}
       /\ rows' = IF exists THEN rows \cup {id} ELSE rows
    /\ UNCHANGED <<runnerVars, outbox, connected, toRunner, seenBoot, resolved, exists, httpVars, breaks>>

\* The event is stored unless it is stored already or the session is gone;
\* only then onApprovalRequest opens the request.
HostRecord ==
    /\ connected /\ handled < Len(outbox)
    /\ handled' = handled + 1
    /\ LET id == outbox[handled + 1] IN
       IF exists /\ id \notin Recorded
       THEN /\ recordedUnder' = [recordedUnder EXCEPT ![id] = seenBoot]
            /\ pendingCount' = pendingCount + 1
            /\ approvals' = approvals \cup {id} /\ rows' = rows \cup {id}
       ELSE UNCHANGED <<recordedUnder, pendingCount, approvals, rows>>
    /\ UNCHANGED <<runnerVars, outbox, connected, toRunner, seenBoot, resolved, exists, httpVars, breaks>>

\* POST /api/approvals/:id up to the first await: the request is looked up
\* in the map and in the table.
PostArrives(r) ==
    /\ posts[r] = None /\ posted < MaxPosts /\ posted' = posted + 1
    /\ \E id \in approvals \cup rows : posts' = [posts EXCEPT ![r] = id]
    /\ UNCHANGED <<runnerVars, linkVars, storeVars, approvals, answered, breaks>>

\* The body is invalid or the runner is not connected.
PostRefused(r) ==
    /\ posts[r] # None /\ posts' = [posts EXCEPT ![r] = None]
    /\ UNCHANGED <<runnerVars, linkVars, storeVars, approvals, answered, posted, breaks>>

\* Wrong: the table keeps the request.
PostDecidesInMemory(r) ==
    /\ posts[r] # None /\ connected
    /\ toRunner' = Append(toRunner, posts[r])
    /\ IF exists THEN StoreResolved({posts[r]}) ELSE UNCHANGED <<resolved, pendingCount>>
    /\ approvals' = approvals \ {posts[r]} /\ UNCHANGED rows
    /\ answered' = answered \cup {posts[r]}
    /\ posts' = [posts EXCEPT ![r] = None]
    /\ UNCHANGED <<runnerVars, outbox, connected, handled, seenBoot, recordedUnder, exists, posted, breaks>>

\* The rest of the handler.  Nothing is looked up again: the request may be
\* closed by now.
PostDecides(r) ==
    /\ posts[r] # None /\ connected
    /\ toRunner' = Append(toRunner, posts[r])
    /\ IF exists THEN StoreResolved({posts[r]}) ELSE UNCHANGED <<resolved, pendingCount>>
    /\ approvals' = approvals \ {posts[r]} /\ rows' = rows \ {posts[r]}
    /\ answered' = answered \cup {posts[r]}
    /\ posts' = [posts EXCEPT ![r] = None]
    /\ UNCHANGED <<runnerVars, outbox, connected, handled, seenBoot, recordedUnder, exists, posted, breaks>>

\* DELETE /api/sessions/:id: the rows of the session go with it.
SessionDelete ==
    /\ exists /\ exists' = FALSE
    /\ toRunner' = IF connected THEN Append(toRunner, None) ELSE toRunner
    /\ approvals' = {} /\ rows' = {}
    /\ UNCHANGED <<runnerVars, outbox, connected, handled, seenBoot, recordedUnder, resolved,
                   pendingCount, httpVars, breaks>>

\* The host process ends and startHost runs again.  With a local runner that
\* process ends too, and startHost closes its requests at once.
HostRestart ==
    /\ breaks < MaxBreaks /\ breaks' = breaks + 1
    /\ Disconnected
    /\ IF local THEN NextRunner /\ Recover
       ELSE UNCHANGED <<runnerVars, outbox, rows, resolved, pendingCount>>
    /\ approvals' = rows'
    /\ posts' = [r \in Request |-> None]
    /\ UNCHANGED <<seenBoot, recordedUnder, exists, answered, posted>>

Next ==
    \/ RunnerAsk \/ RunnerSessionEnds \/ RunnerReceive \/ RunnerAcked
    \/ RunnerRestart \/ ConnectionBreaks
    \/ HostHello \/ HostRecord \/ SessionDelete \/ HostRestart
    \/ \E r \in Request : PostArrives(r) \/ PostRefused(r) \/ PostDecides(r)

Spec == Init /\ [][Next]_vars

-----------------------------------------------------------------------------
(* Properties.                                                             *)

\* A request that was closed, by whomever, never shows up again: not by an
\* event that is delivered twice, nor by a host that starts again.
ClosedStaysClosed == exists => \A id \in Id : resolved[id] > 0 => id \notin rows

\* While Codex waits for a decision and the host knows it, the request is
\* open in the table, so that any browser, and the host after a restart, can
\* find it, unless a user has decided.  In particular neither a reconnect of
\* the same process nor a stale HTTP request closes it.
WaitingIsOpen == exists => \A id \in waiting \cap Recorded : id \in rows \/ id \in answered

\* The counter that the session list shows equals the number of open
\* requests, unless one of them was closed twice.
BadgeExact ==
    exists /\ (\A id \in Id : resolved[id] <= 1) => pendingCount = Cardinality(rows)

\* Closing twice makes the counter too low, never too high: no session shows
\* a request that nobody can answer.
BadgeNotTooHigh == exists => pendingCount <= Cardinality(rows)

\* Once a new runner process has said hello, no request that was stored under
\* an earlier one is open.
RecoveryCloses ==
    connected => \A id \in rows : recordedUnder[id] = boot

\* The invariant behind the properties above.  A request is in the table from
\* the moment its event is stored until its first approval.resolved, and what
\* is stored while a process waits was stored under that process.
AskedInv ==
    /\ \A i \in 1..Len(outbox) : outbox[i] <= asked
    /\ \A id \in waiting \cup Recorded : id <= asked
OpenInv ==
    /\ approvals \subseteq Recorded
    /\ \A r \in Request : posts[r] \in Recorded \cup {None}
    /\ \A id \in Id : resolved[id] > 0 => id \in Recorded
    /\ rows = {id \in Recorded : exists /\ resolved[id] = 0}
BootInv ==
    /\ connected => seenBoot = boot
    /\ waiting \cap Recorded # {} => seenBoot = boot
    /\ \A id \in rows : recordedUnder[id] = seenBoot

ApprovalInv ==
    /\ AskedInv /\ OpenInv /\ BootInv
    /\ WaitingIsOpen /\ BadgeExact /\ BadgeNotTooHigh

\* What recovery promises: "Clear stale pending approvals (they cannot be
\* answered after restart)".  Once everything is delivered, no request of a
\* process that is gone is open.
StaleCleared ==
    connected /\ handled = Len(outbox) => \A id \in rows : askedBy[id] = boot
=============================================================================
