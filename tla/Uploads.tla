-------------------------------- MODULE Uploads --------------------------------
(***************************************************************************)
(* Attachments of one session: a file is stored on the host and copied to   *)
(* the runner in chunks, and a row is made when the runner has it.         *)
(*                                                                         *)
(* What the host sends is lost with the connection; what the runner reports *)
(* arrives once and in order (RunnerDelivery).  The runner does the         *)
(* operations on one upload one after another.                             *)
(***************************************************************************)
EXTENDS Naturals, Sequences

CONSTANTS
    MaxUploads,     \* bound: attachments
    Chunks,         \* pieces that a file is sent in
    MaxUploadFaults,\* bound: broken connections and restarts of the runner
    None

Upload == 1..MaxUploads

VARIABLES
    link,       \* "up", "half" (broken, the host does not know) or "down"
    faults,     \* bounded faults so far
    session,    \* the session has a row
    host,       \* the request: "none", "stored", "streaming", "ended", "ok", "failed"
    sent,       \* chunks sent
    entry,      \* the entry of pendingUploads: "none", "pending", "ok", "failed"
    hostFile,   \* uploads that have a file on the host
    rows,       \* the table uploads
    toRunner,   \* messages on their way
    ops,        \* uploadOpQueues: operations to do on an upload
    stream,     \* uploadStreams: whether an upload is open on the runner
    file,       \* chunks in the file on the runner, or None
    cleaning,   \* session.cleanup was received and waits for the session to stop
    outbox,     \* reports on their way
    torn        \* history: uploads that messages, or their operations, were lost of

vars == <<link, faults, session, host, sent, entry, hostFile, rows, toRunner, ops, stream, file,
          cleaning, outbox, torn>>
hostVars == <<session, host, sent, entry, hostFile, rows>>
runnerVars == <<ops, stream, file, cleaning>>

Op == {"begin", "chunk", "end", "abort", "delete"}

TypeOK ==
    /\ link \in {"up", "half", "down"} /\ faults \in 0..MaxUploadFaults /\ session \in BOOLEAN
    /\ host \in [Upload -> {"none", "stored", "streaming", "ended", "ok", "failed"}]
    /\ sent \in [Upload -> 0..Chunks]
    /\ entry \in [Upload -> {"none", "pending", "ok", "failed"}]
    /\ hostFile \subseteq Upload /\ rows \subseteq Upload
    /\ toRunner \in Seq((Op \cup {"cleanup"}) \X Upload) /\ ops \in [Upload -> Seq(Op)]
    /\ stream \subseteq Upload /\ file \in [Upload -> (0..Chunks) \cup {None}]
    /\ cleaning \in BOOLEAN
    /\ outbox \in Seq({"uploaded", "failed"} \X Upload) /\ torn \subseteq Upload

Init ==
    /\ link = "up" /\ faults = 0 /\ session = TRUE
    /\ host = [u \in Upload |-> "none"] /\ sent = [u \in Upload |-> 0]
    /\ entry = [u \in Upload |-> "none"] /\ hostFile = {} /\ rows = {} /\ toRunner = <<>>
    /\ ops = [u \in Upload |-> <<>>] /\ stream = {} /\ file = [u \in Upload |-> None]
    /\ cleaning = FALSE /\ outbox = <<>> /\ torn = {}

-----------------------------------------------------------------------------
(* The host.                                                               *)

\* sendToMachine, when a runner is connected; what is sent into a broken
\* connection is lost.
Send(u, msgs) ==
    /\ toRunner' = IF link = "up" THEN toRunner \o [n \in 1..Len(msgs) |-> <<msgs[n], u>>]
                   ELSE toRunner
    /\ torn' = IF link = "up" THEN torn ELSE torn \cup {u}

\* The request fails: what it made is removed on both sides.
Fail(u, msgs) ==
    /\ host' = [host EXCEPT ![u] = "failed"] /\ entry' = [entry EXCEPT ![u] = "none"]
    /\ hostFile' = hostFile \ {u} /\ rows' = rows \ {u} /\ Send(u, msgs)

\* storeHostUploadFromRequest: the file is stored, or removed when it is too
\* large or breaks off.
Store(u) ==
    /\ host[u] = "none" /\ session /\ \A v \in 1..(u - 1) : host[v] # "none"
    /\ \/ /\ host' = [host EXCEPT ![u] = "stored"] /\ hostFile' = hostFile \cup {u}
          /\ UNCHANGED <<entry, rows, toRunner, torn>>
       \/ Fail(u, <<"delete">>)
    /\ UNCHANGED <<link, faults, session, sent, runnerVars, outbox>>

\* uploadToRunnerFromFile up to its first await.
Begin(u) ==
    /\ host[u] = "stored"
    /\ IF link = "down" THEN Fail(u, <<"delete">>)
       ELSE /\ host' = [host EXCEPT ![u] = "streaming"] /\ Send(u, <<"begin">>)
            /\ entry' = [entry EXCEPT ![u] = "pending"] /\ UNCHANGED <<hostFile, rows>>
    /\ UNCHANGED <<link, faults, session, sent, runnerVars, outbox>>

\* The chunks and the end: the upload is aborted when no runner is connected.
SendChunk(u) ==
    /\ host[u] = "streaming" /\ sent[u] < Chunks
    /\ IF link = "down" THEN Fail(u, <<"abort", "delete">>) /\ UNCHANGED sent
       ELSE /\ sent' = [sent EXCEPT ![u] = @ + 1] /\ Send(u, <<"chunk">>)
            /\ UNCHANGED <<host, entry, hostFile, rows>>
    /\ UNCHANGED <<link, faults, session, runnerVars, outbox>>

SendEnd(u) ==
    /\ host[u] = "streaming" /\ sent[u] = Chunks
    /\ IF link = "down" THEN Fail(u, <<"abort", "delete">>)
       ELSE /\ host' = [host EXCEPT ![u] = "ended"] /\ Send(u, <<"end">>)
            /\ UNCHANGED <<entry, hostFile, rows>>
    /\ UNCHANGED <<link, faults, session, sent, runnerVars, outbox>>

\* Wrong: the copy on the runner is not removed.
FinishKeeping(u) ==
    /\ host[u] = "ended" /\ entry[u] \in {"ok", "failed"}
    /\ IF entry[u] = "ok" /\ session
       THEN /\ host' = [host EXCEPT ![u] = "ok"] /\ rows' = rows \cup {u}
            /\ entry' = [entry EXCEPT ![u] = "none"] /\ UNCHANGED <<hostFile, toRunner, torn>>
       ELSE Fail(u, <<>>)
    /\ UNCHANGED <<link, faults, session, sent, runnerVars, outbox>>

\* Wrong: the row is made before the runner has the file.
FinishEarly(u) ==
    /\ host[u] = "ended" /\ entry[u] # "none"
    /\ IF entry[u] # "failed" /\ session
       THEN /\ host' = [host EXCEPT ![u] = "ok"] /\ rows' = rows \cup {u}
            /\ entry' = [entry EXCEPT ![u] = "none"] /\ UNCHANGED <<hostFile, toRunner, torn>>
       ELSE Fail(u, <<"delete">>)
    /\ UNCHANGED <<link, faults, session, sent, runnerVars, outbox>>

\* The upload is settled: a row is made, which fails when the session is gone.
Finish(u) ==
    /\ host[u] = "ended" /\ entry[u] \in {"ok", "failed"}
    /\ IF entry[u] = "ok" /\ session
       THEN /\ host' = [host EXCEPT ![u] = "ok"] /\ rows' = rows \cup {u}
            /\ entry' = [entry EXCEPT ![u] = "none"] /\ UNCHANGED <<hostFile, toRunner, torn>>
       ELSE Fail(u, <<"delete">>)
    /\ UNCHANGED <<link, faults, session, sent, runnerVars, outbox>>

\* cleanupUploadedDescriptors: the message that it belongs to could not be sent.
Discard(u) ==
    /\ host[u] = "ok" /\ Fail(u, <<"delete">>)
    /\ UNCHANGED <<link, faults, session, sent, runnerVars, outbox>>

\* DELETE of the session.
DeleteSession ==
    /\ session /\ session' = FALSE /\ rows' = {} /\ hostFile' = hostFile \ rows
    /\ IF link = "up" THEN toRunner' = Append(toRunner, <<"cleanup", 1>>) /\ UNCHANGED torn
       ELSE torn' = Upload /\ UNCHANGED toRunner
    /\ UNCHANGED <<link, faults, host, sent, entry, runnerVars, outbox>>

Settled(u, result) == IF entry[u] = "pending" THEN [entry EXCEPT ![u] = result] ELSE entry

\* handleRunnerMessage.
Reported ==
    /\ link = "up" /\ outbox # <<>> /\ outbox' = Tail(outbox)
    /\ entry' = Settled(Head(outbox)[2], IF Head(outbox)[1] = "uploaded" THEN "ok" ELSE "failed")
    /\ UNCHANGED <<link, faults, session, host, sent, hostFile, rows, toRunner, runnerVars, torn>>

\* The timer, which runs from the begin on.
TimesOut(u) ==
    /\ entry[u] = "pending" /\ entry' = Settled(u, "failed")
    /\ UNCHANGED <<link, faults, session, host, sent, hostFile, rows, toRunner, runnerVars,
                   outbox, torn>>

Break ==
    /\ link = "up" /\ faults < MaxUploadFaults /\ faults' = faults + 1 /\ link' = "half"
    /\ torn' = IF \E n \in 1..Len(toRunner) : toRunner[n][1] = "cleanup" THEN Upload
               ELSE torn \cup {toRunner[n][2] : n \in 1..Len(toRunner)}
    /\ toRunner' = <<>>
    /\ UNCHANGED <<hostVars, runnerVars, outbox>>

\* handleRunnerDisconnect, which a connection that was replaced does not call.
Disconnect ==
    /\ link = "half" /\ link' = "down"
    /\ entry' = [u \in Upload |-> Settled(u, "failed")[u]]
    /\ UNCHANGED <<faults, session, host, sent, hostFile, rows, toRunner, runnerVars, outbox, torn>>

Reconnect ==
    /\ link # "up" /\ link' = "up"
    /\ UNCHANGED <<faults, hostVars, toRunner, runnerVars, outbox, torn>>

-----------------------------------------------------------------------------
(* RunnerUploadManager.                                                    *)

\* An operation on an upload goes behind the ones before it.
Receive ==
    /\ toRunner # <<>> /\ toRunner' = Tail(toRunner)
    /\ IF Head(toRunner)[1] = "cleanup" THEN cleaning' = TRUE /\ UNCHANGED ops
       ELSE ops' = [ops EXCEPT ![Head(toRunner)[2]] = Append(@, Head(toRunner)[1])]
            /\ UNCHANGED cleaning
    /\ UNCHANGED <<link, faults, hostVars, stream, file, outbox, torn>>

Doing(u, op) ==
    /\ ops[u] # <<>> /\ Head(ops[u]) = op /\ ops' = [ops EXCEPT ![u] = Tail(@)]
    /\ UNCHANGED <<link, faults, hostVars, toRunner, cleaning, torn>>

CloseStream(u) ==
    /\ stream' = stream \ {u} /\ file' = IF u \in stream THEN [file EXCEPT ![u] = None] ELSE file

Report(what, u) == outbox' = Append(outbox, <<what, u>>)

DoBegin(u) ==
    /\ Doing(u, "begin")
    /\ \/ /\ stream' = stream \cup {u} /\ file' = [file EXCEPT ![u] = 0] /\ UNCHANGED outbox
       \/ CloseStream(u) /\ Report("failed", u)

DoChunk(u) ==
    /\ Doing(u, "chunk")
    /\ \/ /\ u \in stream /\ UNCHANGED <<stream, outbox>>
          /\ file' = [file EXCEPT ![u] = IF @ = None THEN None ELSE @ + 1]
       \/ CloseStream(u) /\ Report("failed", u)

DoEnd(u) ==
    /\ Doing(u, "end")
    /\ \/ /\ u \in stream /\ stream' = stream \ {u} /\ Report("uploaded", u) /\ UNCHANGED file
       \/ CloseStream(u) /\ Report("failed", u)

DoAbort(u) == Doing(u, "abort") /\ CloseStream(u) /\ UNCHANGED outbox

\* The files of an upload are removed; one that is open stays open.
DoDelete(u) ==
    /\ Doing(u, "delete") /\ file' = [file EXCEPT ![u] = None] /\ UNCHANGED <<stream, outbox>>

\* cleanupSession, which does not wait for the operations underway.
CleanupSession ==
    /\ cleaning /\ cleaning' = FALSE /\ stream' = {} /\ file' = [u \in Upload |-> None]
    /\ UNCHANGED <<link, faults, hostVars, toRunner, ops, outbox, torn>>

RestartRunner ==
    /\ faults < MaxUploadFaults /\ faults' = faults + 1 /\ link' = "half"
    /\ stream' = {} /\ ops' = [u \in Upload |-> <<>>] /\ cleaning' = FALSE /\ toRunner' = <<>>
    /\ torn' = Upload
    /\ UNCHANGED <<hostVars, file, outbox>>

Next ==
    \/ \E u \in Upload :
         \/ Store(u) \/ Begin(u) \/ SendChunk(u) \/ SendEnd(u) \/ Finish(u) \/ Discard(u)
         \/ TimesOut(u)
         \/ DoBegin(u) \/ DoChunk(u) \/ DoEnd(u) \/ DoAbort(u) \/ DoDelete(u)
    \/ DeleteSession \/ Reported \/ Break \/ Disconnect \/ Reconnect
    \/ Receive \/ CleanupSession \/ RestartRunner

Spec == Init /\ [][Next]_vars

-----------------------------------------------------------------------------
(* Properties.                                                             *)

\* An attachment that has a row is there in full on the host and on the runner, as
\* long as its session exists and no connection broke while it was sent: a failing,
\* late or given up operation leaves no row.
RowsAreWhole ==
    \A u \in rows : u \in hostFile /\ (u \in torn \/ (u \notin stream /\ file[u] = Chunks))

Idle(u) == toRunner = <<>> /\ ops[u] = <<>> /\ ~cleaning

\* When nothing is on its way and no operation waits, an upload that failed has left
\* no file on either side and no open stream, unless messages were lost; and no
\* upload of a session has when it was deleted.
NothingLeft ==
    \A u \in Upload \ torn :
        Idle(u) /\ (host[u] = "failed" \/ (host[u] = "ok" /\ ~session)) =>
            u \notin hostFile /\ u \notin rows /\ u \notin stream /\ file[u] = None
=============================================================================
