-------------------------- MODULE RunnerDeliveryInv --------------------------
(***************************************************************************)
(* The inductive invariant behind NoLossWhileUp and SpoolSurvives.  It     *)
(* says how the four places that hold an event relate: pending, the spool, *)
(* the stream of the current connection with the host's batch at its end,  *)
(* and the rows.                                                           *)
(***************************************************************************)
EXTENDS RunnerDelivery

\* Lines on disk and lines waiting to be written.
Spooled == spoolLog \cup {jobs[i].env : i \in {k \in 1..Len(jobs) : jobs[k].op = "append"}}

ProcessInv ==
    /\ ~up => pending = {} /\ jobs = <<>> /\ cur = NoConn
    /\ (cur = NoConn) <=> (phase = "off")
    /\ \A b \in 1..MaxBoots : b > boot => emits[b] = 0
    /\ ~tornTail

\* Sequence numbers identify pending envelopes and lie above the cursor.
PendingInv ==
    /\ ackSeq <= sendSeq
    /\ \A p \in pending : ackSeq < p.seq /\ p.seq <= sendSeq
    /\ \A p, q \in pending : p.seq = q.seq => p = q

\* The saved cursors lag behind the real one; below it everything spooled is
\* recorded, above it everything spooled is pending.
SpoolInv ==
    /\ up => diskAck <= spoolAck /\ spoolAck <= ackSeq
    /\ up => \A e \in Spooled : (e.seq <= ackSeq /\ e.ev \in Recorded) \/ e \in pending
    /\ \A e \in spoolLog : e.seq <= diskAck => e.ev \in Recorded
    /\ \A d, e \in Spooled : d.seq = e.seq => d = e

\* The host's ends: only an accepted connection has a batch.
HostInv ==
    \A c \in Conn :
        /\ hostEnd[c] # "authed" => batch[c] = <<>>
        /\ hostEnd[c] = "none" => r2h[c] = <<>>

-----------------------------------------------------------------------------
(* The stream of one connection: first the batch, then what is in flight.  *)

\* The host will take message i as an event: it has already accepted the
\* connection, or the hello comes before it.
Ready(c, i) ==
    \/ hostEnd[c] = "authed"
    \/ \E h \in 1..(i - 1) : r2h[c][h] = Hello

InBatch(c, e, limit) == \E k \in 1..(limit - 1) : batch[c][k] = e
InQueue(c, e, limit) == \E j \in 1..(limit - 1) : Ready(c, j) /\ r2h[c][j] = e

\* e is recorded, or on its way into the table before message limit.
Ahead(c, e, limit) ==
    \/ e.ev \in Recorded
    \/ InBatch(c, e, Len(batch[c]) + 1)
    \/ InQueue(c, e, limit)

\* Before the hello is sent nothing is taken as an event.
OpenInv(c) ==
    phase = "open" =>
        hostEnd[c] # "authed" /\ \A i \in 1..Len(r2h[c]) : r2h[c][i] # Hello

\* Whatever is pending and has a lower number than a message in flight is
\* recorded or ahead of it.
QueueInv(c) ==
    \A i \in 1..Len(r2h[c]) : Ready(c, i) /\ r2h[c][i] # Hello =>
        /\ r2h[c][i].seq <= sendSeq
        /\ \A p \in pending : p.seq = r2h[c][i].seq => p = r2h[c][i]
        /\ \A p \in pending : p.seq < r2h[c][i].seq => Ahead(c, p, i)

\* The same of a sequence of messages that no other messages are ahead of.
InOrder(msgs) ==
    \A k \in 1..Len(msgs) :
        /\ msgs[k].seq <= sendSeq
        /\ \A p \in pending : p.seq = msgs[k].seq => p = msgs[k]
        /\ \A p \in pending : p.seq < msgs[k].seq =>
                                 p.ev \in Recorded \/ \E i \in 1..(k - 1) : msgs[i] = p

BatchInv(c) == InOrder(batch[c])

\* Once the hello is sent everything pending is recorded or on its way.
FlowInv(c) ==
    Ready(c, Len(r2h[c]) + 1) => \A p \in pending : Ahead(c, p, Len(r2h[c]) + 1)

\* An acknowledgement in flight covers recorded events only.
AckInv(c) ==
    \A i \in 1..Len(h2r[c]) :
        /\ h2r[c][i] <= sendSeq
        /\ \A p \in pending : p.seq <= h2r[c][i] => p.ev \in Recorded

StreamOf(c) == OpenInv(c) /\ QueueInv(c) /\ BatchInv(c) /\ FlowInv(c) /\ AckInv(c)

StreamInv == cur # NoConn => StreamOf(cur)

DeliveryInv ==
    /\ TypeOK
    /\ ProcessInv /\ PendingInv /\ SpoolInv /\ HostInv /\ StreamInv
    /\ NoLossWhileUp /\ SpoolSurvives

-----------------------------------------------------------------------------
(* The inductive invariant behind BootFIFO: wherever events of one process *)
(* are kept, the earlier ones come first.                                  *)

\* The events that the process of x emitted before x.
Earlier(x) == {<<x[1], n>> : n \in 1..(x[2] - 1)}

\* A set of envelopes ordered by their numbers: what was emitted before one of
\* them is recorded or has a lower number.
InEmitOrder(envs) ==
    \A e \in envs : \A x \in Earlier(e.ev) :
        x \in Recorded \/ \E d \in envs : d.ev = x /\ d.seq < e.seq

\* A queued line is written after the lines of earlier events.
JobsInOrder ==
    \A i \in 1..Len(jobs) : jobs[i].op = "append" => \A x \in Earlier(jobs[i].env.ev) :
        \/ x \in Recorded
        \/ \E d \in spoolLog : d.ev = x /\ d.seq < jobs[i].env.seq
        \/ \E k \in 1..(i - 1) : /\ jobs[k].op = "append" /\ jobs[k].env.ev = x
                                  /\ jobs[k].env.seq < jobs[i].env.seq

SpoolOrder ==
    /\ InEmitOrder(pending) /\ InEmitOrder(spoolLog) /\ JobsInOrder
    /\ up /\ ~disabled => pending \subseteq Spooled

\* What was emitted before a message of a sequence is recorded or ahead of it.
Consecutive(msgs) ==
    \A k \in 1..Len(msgs) : \A x \in Earlier(msgs[k].ev) :
        x \in Recorded \/ \E i \in 1..(k - 1) : msgs[i].ev = x

\* x is recorded, in the batch, or taken by the host before message limit.
Underway(c, x, limit) ==
    \/ x \in Recorded
    \/ \E k \in 1..Len(batch[c]) : batch[c][k].ev = x
    \/ \E j \in 1..(limit - 1) : Ready(c, j) /\ r2h[c][j].ev = x

\* On every connection the host reads from, replaced ones included.
ArrivalOf(c) ==
    /\ Consecutive(batch[c])
    /\ \A i \in 1..Len(r2h[c]) : Ready(c, i) =>
          \A x \in Earlier(r2h[c][i].ev) : Underway(c, x, i)

ArrivalOrder == \A c \in Conn : ArrivalOf(c)

\* Only emitted events are on their way, or recorded.
Emitted == {x \in (1..MaxBoots) \X (1..MaxEvents) : x[2] <= emits[x[1]]}

Sent(c) == {batch[c][k] : k \in 1..Len(batch[c])} \cup {r2h[c][i] : i \in 1..Len(r2h[c])}

OnTheWay == pending \cup Spooled \cup ((UNION {Sent(c) : c \in Conn}) \ {Hello})

OriginInv ==
    /\ \A b \in 1..MaxBoots : emits[b] <= MaxEvents
    /\ \A e \in OnTheWay : e.ev \in Emitted
    /\ Recorded \subseteq Emitted

\* A row is at most one above last_seq: the host may have died in between.
RowsNumbered == \A r \in rows : r.seq <= lastSeq + 1

OrderInv == SpoolOrder /\ ArrivalOrder /\ OriginInv /\ RowsNumbered /\ BootFIFO
=============================================================================
