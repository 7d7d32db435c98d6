--------------------------- MODULE RunnerDelivery ---------------------------
(***************************************************************************)
(* Delivery of runner events to the host's event table.                    *)
(*                                                                         *)
(* The runner numbers every tracked envelope, keeps it in memory until it  *)
(* is acknowledged, spools it to disk, and sends it on whatever WebSocket  *)
(* is open.  After a reconnect it says hello and sends everything still    *)
(* unacknowledged again.  The host stores an event once per event id,      *)
(* batches session.output events, and acknowledges a sequence number when  *)
(* it is done with the message.  Acknowledgements are cumulative.          *)
(*                                                                         *)
(* Runner side: startRunnerClient.js, outboxSpool.js.                      *)
(* Host side: wsRunner.js, Store.appendEvent and Store.appendEventsBatch.  *)
(*                                                                         *)
(* One machine and one of its sessions.  An event is <<boot, n>>: the n-th *)
(* event emitted by the boot-th runner process; it stands for the random   *)
(* event id and the payload of the envelope.                               *)
(***************************************************************************)
EXTENDS Integers, Sequences, FiniteSets

CONSTANTS
    Conn,       \* slots for WebSocket connections, reused once both ends closed
    NoConn,     \* no connection
    BatchSize,  \* RUNNER_OUTPUT_BATCH_SIZE
    MaxBoots,   \* bound: runner processes started
    MaxEvents,  \* bound: events emitted by one runner process
    MaxDrops,   \* bound: connections broken by the network, the host or a restart
    Outputs,    \* the n for which the n-th event of a process may be session.output
    LogSizes,   \* sizes of the spool file, as seen by #maybeCompact: see LogSizeKinds
    Faults      \* the faults of the environment that may happen, see FaultKinds

\* tornAppend: the runner dies while a spool line is half written.
\* storeError: SQLite rejects a write (disk full, I/O error, database busy).
\* midAppend:  the host dies between the two statements of Store.appendEvent.
FaultKinds == {"tornAppend", "storeError", "midAppend"}

\* small: nothing to do.  large: compact.  tooLarge: compact, and what is left
\* exceeds maxBytes.
LogSizeKinds == {"small", "large", "tooLarge"}

ASSUME ConnAssumption   == NoConn \notin Conn
ASSUME BoundsAssumption == /\ BatchSize \in Nat \ {0}
                           /\ MaxBoots \in Nat /\ MaxEvents \in Nat /\ MaxDrops \in Nat
ASSUME FaultsAssumption == Faults \subseteq FaultKinds /\ LogSizes \subseteq LogSizeKinds

VARIABLES
    up,         \* the runner process is running
    boot,       \* number of runner processes started so far (runnerBootId)
    emits,      \* events emitted by each process so far
    sendSeq,    \* startRunnerClient: sendSeq
    pending,    \* startRunnerClient: pending, its values
    ackSeq,     \* startRunnerClient: lastAckSeq
    spoolAck,   \* OutboxSpool.lastAckSeq
    disabled,   \* OutboxSpool.disabled
    jobs,       \* OutboxSpool.queue: disk writes not done yet
    spoolLog,   \* complete lines of runner-<id>.jsonl
    tornTail,   \* the file ends in a partial line
    diskAck,    \* lastAckSeq of the state file, 0 if it is unreadable
    cur,        \* wsRef, as long as that socket is open
    phase,      \* "off", "open" (no hello sent yet), "live"
    r2h, h2r,   \* messages in flight on each connection
    hostEnd,    \* the host's end: "none", "fresh" (not authed), "authed"
    closing,    \* the host called close() on its end
    batch,      \* pendingOutputBatch of the connection
    active,     \* connections.get(machineId)
    rows,       \* the session's rows of table events: [ev, seq]
    lastSeq,    \* sessions.last_seq
    durable,    \* history: events whose spool append was completed
    drops       \* counts towards MaxDrops

runnerVars == <<up, boot, emits, sendSeq, pending, ackSeq>>
spoolVars  == <<spoolAck, disabled, jobs, spoolLog, tornTail, diskAck, durable>>
linkVars   == <<cur, phase, r2h, h2r>>
hostVars   == <<hostEnd, closing, batch, active>>
storeVars  == <<rows, lastSeq>>
vars == <<runnerVars, spoolVars, linkVars, hostVars, storeVars, drops>>

Event == (Nat \ {0}) \X (Nat \ {0})
Env   == [seq : Nat \ {0}, ev : Event, out : BOOLEAN]
Hello == [seq |-> 0, ev |-> <<0, 0>>, out |-> FALSE]
Job   == [op : {"append"}, env : Env] \cup [op : {"ack"}]
Row   == [ev : Event, seq : Nat \ {0}]

RunnerTypeOK ==
    /\ up \in BOOLEAN /\ boot \in 0..MaxBoots /\ (up => boot > 0)
    /\ emits \in [1..MaxBoots -> Nat] /\ sendSeq \in Nat /\ ackSeq \in Nat
    /\ pending \subseteq Env /\ IsFiniteSet(pending)
SpoolTypeOK ==
    /\ spoolAck \in Nat /\ disabled \in BOOLEAN /\ jobs \in Seq(Job)
    /\ spoolLog \subseteq Env /\ IsFiniteSet(spoolLog)
    /\ tornTail \in BOOLEAN /\ diskAck \in Nat
    /\ durable \subseteq Event
LinkTypeOK ==
    /\ cur \in Conn \cup {NoConn} /\ phase \in {"off", "open", "live"}
    /\ r2h \in [Conn -> Seq(Env \cup {Hello})] /\ h2r \in [Conn -> Seq(Nat)]
HostTypeOK ==
    /\ hostEnd \in [Conn -> {"none", "fresh", "authed"}]
    /\ closing \in [Conn -> BOOLEAN] /\ batch \in [Conn -> Seq(Env)]
    /\ active \in Conn \cup {NoConn}
StoreTypeOK == rows \subseteq Row /\ lastSeq \in Nat /\ drops \in Nat

TypeOK == RunnerTypeOK /\ SpoolTypeOK /\ LinkTypeOK /\ HostTypeOK /\ StoreTypeOK

Recorded == {r.ev : r \in rows}

Init ==
    /\ up = FALSE /\ boot = 0 /\ emits = [b \in 1..MaxBoots |-> 0] /\ sendSeq = 0 /\ pending = {} /\ ackSeq = 0
    /\ spoolAck = 0 /\ disabled = FALSE /\ jobs = <<>>
    /\ spoolLog = {} /\ tornTail = FALSE /\ diskAck = 0 /\ durable = {}
    /\ cur = NoConn /\ phase = "off"
    /\ r2h = [c \in Conn |-> <<>>] /\ h2r = [c \in Conn |-> <<>>]
    /\ hostEnd = [c \in Conn |-> "none"] /\ closing = [c \in Conn |-> FALSE]
    /\ batch = [c \in Conn |-> <<>>] /\ active = NoConn
    /\ rows = {} /\ lastSeq = 0 /\ drops = 0

-----------------------------------------------------------------------------
(* The runner process and its spool.                                       *)

\* Definitions marked "Wrong" are the bugs the properties are tested against:
\* each is what the definition after it would be with that bug.

\* Wrong: numbering restarts at the saved cursor, below what is still pending.
RunnerStartReusesNumbers ==
    /\ ~up /\ boot < MaxBoots
    /\ up' = TRUE /\ boot' = boot + 1
    /\ pending' = {e \in spoolLog : e.seq > diskAck}
    /\ ackSeq' = diskAck /\ spoolAck' = diskAck /\ sendSeq' = diskAck
    /\ disabled' = FALSE /\ jobs' = <<>>
    /\ UNCHANGED <<emits, spoolLog, tornTail, diskAck, durable, linkVars, hostVars, storeVars, drops>>

\* OutboxSpool.load and the start of startRunnerClient: what is on disk
\* beyond the saved cursor becomes pending, and numbering goes on after it.
RunnerStart ==
    /\ ~up /\ boot < MaxBoots
    /\ up' = TRUE /\ boot' = boot + 1
    /\ pending' = {e \in spoolLog : e.seq > diskAck}
    /\ ackSeq' = diskAck /\ spoolAck' = diskAck
    /\ \E m \in {diskAck} \cup {e.seq : e \in pending'} :
          /\ m >= diskAck /\ \A e \in pending' : e.seq <= m
          /\ sendSeq' = m
    /\ disabled' = FALSE /\ jobs' = <<>>
    /\ UNCHANGED <<emits, spoolLog, tornTail, diskAck, durable, linkVars, hostVars, storeVars, drops>>

\* The process dies.  A disk write that was under way may leave a partial
\* line, or a truncated state file that readJsonFile rejects.  The socket
\* goes with the process; what it already sent may still reach the host.
RunnerCrash ==
    /\ up /\ boot < MaxBoots
    /\ up' = FALSE /\ sendSeq' = 0 /\ pending' = {} /\ ackSeq' = 0
    /\ spoolAck' = 0 /\ disabled' = FALSE /\ jobs' = <<>>
    /\ \/ UNCHANGED <<tornTail, diskAck>>
       \/ /\ "tornAppend" \in Faults /\ jobs # <<>> /\ Head(jobs).op = "append"
          /\ tornTail' = TRUE /\ UNCHANGED diskAck
       \/ /\ jobs # <<>> /\ Head(jobs).op = "ack"
          /\ diskAck' = 0 /\ UNCHANGED tornTail
    /\ cur' = NoConn /\ phase' = "off"
    /\ h2r' = IF cur = NoConn THEN h2r ELSE [h2r EXCEPT ![cur] = <<>>]
    /\ UNCHANGED <<boot, emits, spoolLog, durable, r2h, hostVars, storeVars, drops>>

\* ws.send on the current socket; lost if the host's end is gone already.
Transmit(msgs) ==
    r2h' = IF cur # NoConn /\ hostEnd[cur] # "none"
           THEN [r2h EXCEPT ![cur] = @ \o msgs] ELSE r2h

\* makeTrackedEnvelope with track = true, then sendToHost.
RunnerEmit(out) ==
    LET n   == emits[boot] + 1
        env == [seq |-> sendSeq + 1, ev |-> <<boot, n>>, out |-> out]
    IN /\ up /\ n <= MaxEvents /\ (out => n \in Outputs)
       /\ emits' = [emits EXCEPT ![boot] = n] /\ sendSeq' = sendSeq + 1
       /\ pending' = pending \cup {env}
       /\ jobs' = IF disabled THEN jobs ELSE Append(jobs, [op |-> "append", env |-> env])
       /\ Transmit(<<env>>)
       /\ UNCHANGED <<up, boot, ackSeq, spoolAck, disabled, spoolLog, tornTail, diskAck,
                      durable, cur, phase, h2r, hostVars, storeVars, drops>>

\* #maybeCompact after a disk write.  How many bytes the file has and when it
\* was last looked at are not modelled, so each size is possible every time.
MaybeCompact(lines, torn) ==
    \E size \in LogSizes :
       IF disabled \/ size = "small"
       THEN spoolLog' = lines /\ tornTail' = torn /\ UNCHANGED disabled
       ELSE /\ spoolLog' = {e \in lines : e.seq > spoolAck} /\ tornTail' = FALSE
            /\ disabled' = (size = "tooLarge")

\* One link of the promise chain OutboxSpool.queue.  An appended line that
\* follows a partial one is glued to it and neither can be parsed.
SpoolAppend ==
    /\ up /\ jobs # <<>> /\ Head(jobs).op = "append"
    /\ MaybeCompact(IF tornTail THEN spoolLog ELSE spoolLog \cup {Head(jobs).env}, FALSE)
    /\ durable' = durable \cup {Head(jobs).env.ev}
    /\ jobs' = Tail(jobs)
    /\ UNCHANGED <<runnerVars, spoolAck, diskAck, linkVars, hostVars, storeVars, drops>>

SpoolSaveAck ==
    /\ up /\ jobs # <<>> /\ Head(jobs).op = "ack"
    /\ diskAck' = spoolAck
    /\ MaybeCompact(spoolLog, tornTail)
    /\ jobs' = Tail(jobs)
    /\ UNCHANGED <<runnerVars, spoolAck, durable, linkVars, hostVars, storeVars, drops>>

-----------------------------------------------------------------------------
(* Connections.                                                            *)

\* connect(): the handshake is done, the host's 'connection' handler has run
\* and the runner's 'open' handler is looking up capabilities.
RunnerConnect(c) ==
    /\ up /\ cur = NoConn /\ hostEnd[c] = "none"
    /\ cur' = c /\ phase' = "open"
    /\ r2h' = [r2h EXCEPT ![c] = <<>>] /\ h2r' = [h2r EXCEPT ![c] = <<>>]
    /\ hostEnd' = [hostEnd EXCEPT ![c] = "fresh"]
    /\ closing' = [closing EXCEPT ![c] = FALSE]
    /\ UNCHANGED <<runnerVars, spoolVars, batch, active, storeVars, drops>>

\* Wrong: pending is sent in any order.
InAnyOrder(s) == \A e \in pending : \E i \in DOMAIN s : s[i] = e

\* All of pending in the order of its sequence numbers.
InSeqOrder(s) ==
    /\ \A e \in pending : \E i \in DOMAIN s : s[i] = e
    /\ \A i, j \in DOMAIN s : i < j => s[i].seq < s[j].seq

\* Wrong: nothing is sent again after a reconnect.
RunnerHelloOnly ==
    /\ cur # NoConn /\ phase = "open"
    /\ phase' = "live"
    /\ Transmit(<<Hello>>)
    /\ UNCHANGED <<runnerVars, spoolVars, cur, h2r, hostVars, storeVars, drops>>

\* The rest of the 'open' handler: send hello, then flushPending.
RunnerHello ==
    /\ cur # NoConn /\ phase = "open"
    /\ phase' = "live"
    /\ \E s \in [1..Cardinality(pending) -> pending] :
          /\ InSeqOrder(s)
          /\ Transmit(<<Hello>> \o s)
    /\ UNCHANGED <<runnerVars, spoolVars, cur, h2r, hostVars, storeVars, drops>>

\* Wrong: the acknowledged envelope itself is kept.
RunnerAckKeepsLast ==
    /\ cur # NoConn /\ h2r[cur] # <<>>
    /\ h2r' = [h2r EXCEPT ![cur] = Tail(@)]
    /\ LET n == Head(h2r[cur]) IN
       /\ ackSeq' = n /\ pending' = {e \in pending : e.seq >= n}
       /\ UNCHANGED <<up, boot, emits, sendSeq, spoolVars>>
    /\ UNCHANGED <<cur, phase, r2h, hostVars, storeVars, drops>>

\* onAck: the cursor only moves forward, and takes everything below it along.
RunnerAck ==
    /\ cur # NoConn /\ h2r[cur] # <<>>
    /\ h2r' = [h2r EXCEPT ![cur] = Tail(@)]
    /\ LET n == Head(h2r[cur]) IN
       \/ n <= ackSeq /\ UNCHANGED <<runnerVars, spoolVars>>
       \/ /\ n > ackSeq
          /\ ackSeq' = n /\ pending' = {e \in pending : e.seq > n}
          /\ IF disabled \/ n <= spoolAck THEN UNCHANGED <<spoolAck, jobs>>
             ELSE spoolAck' = n /\ jobs' = Append(jobs, [op |-> "ack"])
          /\ UNCHANGED <<up, boot, emits, sendSeq, disabled, spoolLog, tornTail, diskAck, durable>>
    /\ UNCHANGED <<cur, phase, r2h, hostVars, storeVars, drops>>

\* The runner sees its socket close: because the host closed it, because the
\* host's end is gone, or because the network broke.  What is in flight to
\* the host may still arrive there.
RunnerConnClosed ==
    /\ cur # NoConn
    /\ IF closing[cur] \/ hostEnd[cur] = "none" THEN UNCHANGED drops
       ELSE drops < MaxDrops /\ drops' = drops + 1
    /\ cur' = NoConn /\ phase' = "off" /\ h2r' = [h2r EXCEPT ![cur] = <<>>]
    /\ UNCHANGED <<runnerVars, spoolVars, r2h, hostVars, storeVars>>

-----------------------------------------------------------------------------
(* The host.                                                               *)

\* The writes that fail: none, or any of them when SQLite can reject one.
\* After a failed transaction flushPendingOutputBatch stores one by one.
Failures(msgs) == IF "storeError" \in Faults THEN SUBSET DOMAIN msgs ELSE {{}}

\* Wrong: no check of the event id.
FreshAlways(msgs, failed) == DOMAIN msgs \ failed

\* INSERT OR IGNORE: the messages that become rows.
Fresh(msgs, failed) ==
    {i \in DOMAIN msgs \ failed :
        /\ msgs[i].ev \notin Recorded
        /\ \A j \in 1..(i - 1) : j \in failed \/ msgs[j].ev # msgs[i].ev}

\* Wrong: the first new row takes last_seq itself.
NewRowsFromLastSeq(msgs, fresh) ==
    {[ev |-> msgs[i].ev, seq |-> lastSeq + Cardinality({j \in fresh : j < i})] : i \in fresh}

\* last_seq + 1 for each new row, in order.
NewRows(msgs, fresh) ==
    {[ev |-> msgs[i].ev, seq |-> lastSeq + Cardinality({j \in fresh : j <= i})] : i \in fresh}

\* Wrong: last_seq grows by one for a whole batch.
PersistCountsBatchOnce(msgs) ==
    \E failed \in Failures(msgs) :
        LET fresh == Fresh(msgs, failed)
        IN /\ rows' = rows \cup NewRows(msgs, fresh)
           /\ lastSeq' = lastSeq + (IF fresh = {} THEN 0 ELSE 1)

Persist(msgs) ==
    \E failed \in Failures(msgs) :
        LET fresh == Fresh(msgs, failed)
        IN rows' = rows \cup NewRows(msgs, fresh) /\ lastSeq' = lastSeq + Cardinality(fresh)

\* finalizePersistedMessage acknowledges every message, stored or not; a
\* socket that is closing sends nothing.
Acknowledge(c, msgs) ==
    h2r' = IF cur = c /\ ~closing[c]
           THEN [h2r EXCEPT ![c] = @ \o [i \in DOMAIN msgs |-> msgs[i].seq]] ELSE h2r

\* First message on a connection: a hello is accepted and replaces the
\* machine's previous connection, anything else is an error.
HostHello(c) ==
    /\ hostEnd[c] = "fresh" /\ r2h[c] # <<>>
    /\ r2h' = [r2h EXCEPT ![c] = Tail(@)]
    /\ IF Head(r2h[c]) = Hello
       THEN /\ hostEnd' = [hostEnd EXCEPT ![c] = "authed"]
            /\ active' = c
            /\ closing' = IF active \in Conn \ {c} THEN [closing EXCEPT ![active] = TRUE] ELSE closing
       ELSE /\ closing' = [closing EXCEPT ![c] = TRUE]
            /\ UNCHANGED <<hostEnd, active>>
    /\ UNCHANGED <<runnerVars, spoolVars, cur, phase, h2r, batch, storeVars, drops>>

\* Wrong: output is acknowledged when it is queued, not when it is stored.
HostOutputAcksEarly(c) ==
    /\ hostEnd[c] = "authed" /\ r2h[c] # <<>> /\ Head(r2h[c]).out
    /\ r2h' = [r2h EXCEPT ![c] = Tail(@)]
    /\ batch' = [batch EXCEPT ![c] = Append(@, Head(r2h[c]))]
    /\ Acknowledge(c, <<Head(r2h[c])>>)
    /\ UNCHANGED <<runnerVars, spoolVars, storeVars, cur, phase, hostEnd, closing, active, drops>>

\* queueRunnerOutput: wait for the timer or for a full batch.
HostOutput(c) ==
    /\ hostEnd[c] = "authed" /\ r2h[c] # <<>> /\ Head(r2h[c]).out
    /\ r2h' = [r2h EXCEPT ![c] = Tail(@)]
    /\ LET msgs == Append(batch[c], Head(r2h[c])) IN
       IF Len(msgs) >= BatchSize
       THEN Persist(msgs) /\ Acknowledge(c, msgs) /\ batch' = [batch EXCEPT ![c] = <<>>]
       ELSE batch' = [batch EXCEPT ![c] = msgs] /\ UNCHANGED <<storeVars, h2r>>
    /\ UNCHANGED <<runnerVars, spoolVars, cur, phase, hostEnd, closing, active, drops>>

\* Wrong: the event overtakes the output waiting in the batch.
HostEventSkipsFlush(c) ==
    /\ hostEnd[c] = "authed" /\ r2h[c] # <<>>
    /\ Head(r2h[c]) # Hello /\ ~Head(r2h[c]).out
    /\ r2h' = [r2h EXCEPT ![c] = Tail(@)]
    /\ Persist(<<Head(r2h[c])>>) /\ Acknowledge(c, <<Head(r2h[c])>>)
    /\ UNCHANGED <<runnerVars, spoolVars, cur, phase, hostEnd, closing, batch, active, drops>>

\* Any other event: flush the batch first, then store the event.
HostEvent(c) ==
    /\ hostEnd[c] = "authed" /\ r2h[c] # <<>>
    /\ Head(r2h[c]) # Hello /\ ~Head(r2h[c]).out
    /\ r2h' = [r2h EXCEPT ![c] = Tail(@)]
    /\ LET msgs == Append(batch[c], Head(r2h[c])) IN Persist(msgs) /\ Acknowledge(c, msgs)
    /\ batch' = [batch EXCEPT ![c] = <<>>]
    /\ UNCHANGED <<runnerVars, spoolVars, cur, phase, hostEnd, closing, active, drops>>

\* pendingOutputTimer fires.
HostFlush(c) ==
    /\ batch[c] # <<>>
    /\ Persist(batch[c]) /\ Acknowledge(c, batch[c])
    /\ batch' = [batch EXCEPT ![c] = <<>>]
    /\ UNCHANGED <<runnerVars, spoolVars, cur, phase, r2h, hostEnd, closing, active, drops>>

\* The host sees a connection close, in good order or broken: it stores the
\* batch (its acknowledgements are lost) and forgets the connection.
HostConnClosed(c) ==
    /\ hostEnd[c] # "none"
    /\ IF cur # c THEN UNCHANGED drops ELSE drops < MaxDrops /\ drops' = drops + 1
    /\ Persist(batch[c]) /\ batch' = [batch EXCEPT ![c] = <<>>]
    /\ hostEnd' = [hostEnd EXCEPT ![c] = "none"]
    /\ r2h' = [r2h EXCEPT ![c] = <<>>]
    /\ active' = IF active = c THEN NoConn ELSE active
    /\ UNCHANGED <<runnerVars, spoolVars, cur, phase, h2r, closing>>

\* disconnectMachine.
HostDisconnect ==
    /\ active # NoConn /\ ~closing[active]
    /\ drops < MaxDrops /\ drops' = drops + 1
    /\ closing' = [closing EXCEPT ![active] = TRUE]
    /\ UNCHANGED <<runnerVars, spoolVars, linkVars, hostEnd, batch, active, storeVars>>

\* What the end of the host process leaves of its side.
HostGone ==
    /\ drops < MaxDrops /\ drops' = drops + 1
    /\ hostEnd' = [c \in Conn |-> "none"] /\ batch' = [c \in Conn |-> <<>>]
    /\ r2h' = [c \in Conn |-> <<>>] /\ active' = NoConn
    /\ UNCHANGED <<runnerVars, spoolVars, cur, phase, h2r, closing>>

\* The host process dies between two messages and is started again.
HostRestart == HostGone /\ UNCHANGED storeVars

\* It dies inside Store.appendEvent, which is not a transaction: the event
\* is inserted, sessions.last_seq is not updated.
HostDiesMidAppend(c) ==
    /\ "midAppend" \in Faults
    /\ hostEnd[c] = "authed" /\ r2h[c] # <<>>
    /\ Head(r2h[c]) # Hello /\ ~Head(r2h[c]).out
    /\ LET msgs  == Append(batch[c], Head(r2h[c]))
           fresh == Fresh(msgs, {})
       IN /\ Len(msgs) \in fresh
          /\ rows' = rows \cup NewRows(msgs, fresh)
          /\ lastSeq' = lastSeq + Cardinality(fresh) - 1
    /\ HostGone

Next ==
    \/ RunnerStart \/ RunnerCrash
    \/ \E out \in BOOLEAN : RunnerEmit(out)
    \/ SpoolAppend \/ SpoolSaveAck
    \/ RunnerHello \/ RunnerAck \/ RunnerConnClosed
    \/ \E c \in Conn : \/ RunnerConnect(c)
                       \/ HostHello(c) \/ HostOutput(c) \/ HostEvent(c) \/ HostFlush(c)
                       \/ HostConnClosed(c) \/ HostDiesMidAppend(c)
    \/ HostDisconnect \/ HostRestart

Spec == Init /\ [][Next]_vars

\* Every queued disk write, message and acknowledgement is handled in the end,
\* the timer of a batch fires, a socket whose other end is gone is noticed,
\* the 'open' handler goes on, connect() is retried after the backoff, and
\* the service manager starts the runner again.  Nothing is assumed of
\* RunnerEmit, of crashes or of the network.
Fairness ==
    /\ WF_vars(RunnerStart)
    /\ WF_vars(SpoolAppend) /\ WF_vars(SpoolSaveAck)
    /\ WF_vars(\E c \in Conn : RunnerConnect(c))
    /\ WF_vars(RunnerHello) /\ WF_vars(RunnerAck)
    /\ WF_vars(cur # NoConn /\ (closing[cur] \/ hostEnd[cur] = "none") /\ RunnerConnClosed)
    /\ \A c \in Conn :
          /\ WF_vars(HostHello(c)) /\ WF_vars(HostOutput(c))
          /\ WF_vars(HostEvent(c)) /\ WF_vars(HostFlush(c))
          /\ WF_vars(cur # c /\ HostConnClosed(c))

FairSpec == Spec /\ Fairness

-----------------------------------------------------------------------------
(* Properties.                                                             *)

\* An event of the running process leaves pending only after the host has
\* recorded it: a cumulative acknowledgement never covers an event that is
\* still in a batch, in flight, or was lost with a connection.
NoLossWhileUp ==
    up => \A n \in 1..emits[boot] :
             <<boot, n>> \in Recorded \/ \E e \in pending : e.ev = <<boot, n>>

\* An event whose spool write was completed is recorded, or the next process
\* will find it: the saved cursor, a compaction or a crash never hides it.
SpoolSurvives ==
    \A x \in durable : x \in Recorded \/ \E e \in spoolLog : e.ev = x /\ e.seq > diskAck

\* The same promise as the user sees it: an event once on disk is recorded,
\* or the running process still has it, or the next one will.
DurableNotLost ==
    \A x \in durable :
        \/ x \in Recorded
        \/ \E e \in pending : e.ev = x
        \/ \E e \in spoolLog : e.ev = x /\ e.seq > diskAck

\* The events of one runner process are recorded in the order it emitted
\* them and without a gap, whatever is resent and however many connections
\* the host is still reading from.
BootFIFO ==
    \A r \in rows :
        /\ \A n \in 1..(r.ev[2] - 1) : <<r.ev[1], n>> \in Recorded
        /\ \A q \in rows : q.ev[1] = r.ev[1] /\ q.ev[2] < r.ev[2] => q.seq <= r.seq

\* The seq of an event is its identity within the session: clients page and
\* backfill by it, so no two events may share one (docs/protocol.md asks for
\* a monotonic seq per session).
UniqueSeq == \A q, r \in rows : q.seq = r.seq => q = r

\* What the spool comment promises: an event once on disk reaches the host,
\* through disconnects, host restarts and runner restarts.
EventuallyRecorded ==
    \A b \in 1..MaxBoots, n \in 1..MaxEvents :
        <<b, n>> \in durable ~> <<b, n>> \in Recorded

\* The outbox does not grow for ever: once nothing is emitted any more, the
\* runner is told that everything was recorded.
EventuallyDrained == []<>(pending = {})

\* The delivery as a whole is a first-in first-out log that records every
\* event at most once.
Stream ==
    INSTANCE EventStream WITH
        emitted <- {x \in (1..MaxBoots) \X (1..MaxEvents) : x[2] <= emits[x[1]]},
        mark    <- lastSeq

StreamSpec == Stream!Spec
=============================================================================
