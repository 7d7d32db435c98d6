----------------------------- MODULE SseResume -----------------------------
(***************************************************************************)
(* The stream of server-sent events from the host to one browser.          *)
(*                                                                         *)
(* The host numbers what it sends and keeps the last HistorySize envelopes *)
(* in memory.  A browser that connects again names the last number it has  *)
(* got: if the history reaches back that far it gets registry.hello and    *)
(* the envelopes behind the number, otherwise a registry.snapshot.  A      *)
(* client whose socket does not take a write at once is dropped, in the    *)
(* middle of a replay as well.                                             *)
(*                                                                         *)
(* The k-th change of machines, sessions or approvals is k.  The browser   *)
(* is there when it has got every change or a snapshot that includes it.   *)
(***************************************************************************)
EXTENDS Naturals, Sequences

CONSTANTS
    HistorySize,    \* historySize, 5000 in the code
    MaxChanges,     \* bound: changes
    MaxIds,         \* bound: numbers given by one host process
    MaxConnects,    \* bound: GET /api/events
    MaxBreaks,      \* bound: connections that break, pages that are loaded again
    MaxBoots        \* bound: host processes

Change == 1..MaxChanges
Other == 0          \* recorded, but not for this browser: the output of another
                    \* session
Id == 0..(MaxIds + MaxConnects)
NoId == [sseId |-> 0, boot |-> 0]
Cursor == [sseId : Id, boot : 0..MaxBoots]  \* the code has the number alone
Entry == [sseId : Id, change : Change \cup {Other}]

\* rest: how many envelopes of the replay follow; change: of a snapshot, the
\* last change it includes.
Frame == [type : {"snapshot", "hello", "event", "heartbeat"}, sseId : Id,
          change : 0..MaxChanges, rest : Nat]

VARIABLES
    boot,           \* the host process
    nextSseId, history,
    changes,        \* changes so far, all of them in the store
    client,         \* of this browser in clients: "active", "ended" after
                    \* res.end, "none"
    frames,         \* on the way to the browser
    source,         \* the EventSource: "none", "open", "failed"
    sourceId,       \* the last event id of the EventSource
    url, urlResume, \* lastEventId and resume of its URL
    cursor,         \* lastSseEventId, also in sessionStorage
    hasSnapshot,
    seen,           \* how often the browser has applied a change
    behind,         \* history: the number of a hello whose replay is not complete
    skipped,        \* history: why changes may have been skipped since the snapshot
    overlaid,       \* history: a replay followed the last snapshot
    connects, breaks

hostVars == <<boot, nextSseId, history, changes>>
linkVars == <<client, frames>>
sourceVars == <<source, sourceId, url, urlResume>>
pageVars == <<cursor, hasSnapshot, seen, behind, skipped, overlaid>>
vars == <<hostVars, linkVars, sourceVars, pageVars, connects, breaks>>

TypeOK ==
    /\ boot \in 1..MaxBoots /\ nextSseId \in Id /\ changes \in 0..MaxChanges
    /\ history \in Seq(Entry) /\ Len(history) <= HistorySize
    /\ client \in {"active", "ended", "none"} /\ frames \in Seq(Frame)
    /\ source \in {"none", "open", "failed"} /\ sourceId \in Cursor
    /\ url \in Cursor /\ urlResume \in BOOLEAN
    /\ cursor \in Cursor /\ hasSnapshot \in BOOLEAN /\ seen \in [Change -> Nat]
    /\ behind \in Id /\ skipped \subseteq {"overtaken", "aliased"} /\ overlaid \in BOOLEAN
    /\ connects \in Nat /\ breaks \in Nat

Init ==
    /\ boot = 1 /\ nextSseId = 0 /\ history = <<>> /\ changes = 0
    /\ client = "none" /\ frames = <<>>
    /\ source = "none" /\ sourceId = NoId /\ url = NoId /\ urlResume = FALSE
    /\ cursor = NoId /\ hasSnapshot = FALSE /\ seen = [k \in Change |-> 0]
    /\ behind = 0 /\ skipped = {} /\ overlaid = FALSE
    /\ connects = 0 /\ breaks = 0

-----------------------------------------------------------------------------
(* The host.                                                               *)

\* Wrong: the history grows without limit.
KeepAll(s) == s

KeepLast(s) == IF Len(s) > HistorySize THEN SubSeq(s, Len(s) - HistorySize + 1, Len(s)) ELSE s

\* prepareEnvelope with recordHistory.
Record(change) ==
    /\ nextSseId < MaxIds /\ nextSseId' = nextSseId + 1
    /\ history' = KeepLast(Append(history, [sseId |-> nextSseId + 1, change |-> change]))

\* writeOrDrop: what is written arrives before the end of the response.
Write(type, change) ==
    IF client = "active"
    THEN /\ frames' = Append(frames, [type |-> type, sseId |-> nextSseId + 1,
                                      change |-> change, rest |-> 0])
         /\ client' \in {"active", "ended"}
    ELSE UNCHANGED linkVars

\* A change is stored and sent to every client in one step of the host.
SendChange ==
    /\ changes < MaxChanges /\ changes' = changes + 1
    /\ Record(changes + 1) /\ Write("event", changes + 1)
    /\ UNCHANGED <<boot, sourceVars, pageVars, connects, breaks>>

SendOther ==
    /\ Record(Other)
    /\ UNCHANGED <<boot, changes, linkVars, sourceVars, pageVars, connects, breaks>>

\* A number for what is not recorded: a heartbeat to all, or the handshake of
\* another browser.
SendUnrecorded ==
    /\ nextSseId < MaxIds /\ nextSseId' = nextSseId + 1
    /\ Write("heartbeat", 0) \/ UNCHANGED linkVars
    /\ UNCHANGED <<boot, history, changes, sourceVars, pageVars, connects, breaks>>

\* Wrong: the history is taken to reach back one envelope further.
CanReplayFromEarlier(id) ==
    /\ id > 0 /\ history # <<>>
    /\ id + 2 >= history[1].sseId /\ id <= history[Len(history)].sseId

\* Wrong: only the upper end is looked at.
CanReplayAlways(id) ==
    id > 0 /\ history # <<>> /\ id <= history[Len(history)].sseId

CanReplayFrom(id) ==
    /\ id > 0 /\ history # <<>>
    /\ id + 1 >= history[1].sseId /\ id <= history[Len(history)].sseId

\* Wrong: the envelope that the browser names is sent again.
BehindOrAt(id) ==
    LET kept[n \in 0..Len(history)] ==
            IF n = 0 THEN <<>>
            ELSE IF id > 0 /\ history[n].sseId >= id /\ history[n].change # Other
                 THEN Append(kept[n - 1], history[n]) ELSE kept[n - 1]
    IN  kept[Len(history)]

\* replayClient, over the envelopes of the history in turn; without a number nothing is
\* replayed.
Behind(id) ==
    LET kept[n \in 0..Len(history)] ==
            IF n = 0 THEN <<>>
            ELSE IF id > 0 /\ history[n].sseId > id /\ history[n].change # Other
                 THEN Append(kept[n - 1], history[n]) ELSE kept[n - 1]
    IN  kept[Len(history)]

\* GET /api/events with the number of cursor c.  The handshake takes a number
\* of its own, above those of the envelopes that follow it.
Connect(c, resume) ==
    LET hello == resume /\ CanReplayFrom(c.sseId)
        replay == Behind(c.sseId)
        first == [type |-> IF hello THEN "hello" ELSE "snapshot", sseId |-> nextSseId + 1,
                  change |-> IF hello THEN 0 ELSE changes, rest |-> Len(replay)]
        Replayed(i) == [type |-> "event", sseId |-> replay[i].sseId,
                        change |-> replay[i].change, rest |-> Len(replay) - i]
    IN /\ connects < MaxConnects /\ connects' = connects + 1
       /\ nextSseId' = nextSseId + 1
       /\ \E written \in 0..Len(replay) :
             /\ frames' = <<first>> \o [i \in 1..written |-> Replayed(i)]
             /\ client' \in {"ended"} \cup IF written = Len(replay) THEN {"active"} ELSE {}
       /\ source' = "open"
       /\ skipped' = skipped
            \cup (IF hello /\ behind # 0 /\ c.sseId >= behind THEN {"overtaken"} ELSE {})
            \cup (IF hello /\ c.boot # boot THEN {"aliased"} ELSE {})
       /\ UNCHANGED <<boot, history, changes, cursor, hasSnapshot, seen, behind, overlaid, breaks>>

-----------------------------------------------------------------------------
(* The browser.                                                            *)

\* connectSse: after five seconds without a connection, when the page gets
\* visible or the network is back, or when no heartbeat comes.
ConnectSse ==
    /\ sourceId' = NoId /\ url' = cursor
    /\ urlResume' = (hasSnapshot /\ cursor.sseId > 0)
    /\ Connect(cursor, urlResume')

\* The EventSource connects again by itself; the header Last-Event-ID is
\* stronger than the URL.
SourceReconnects ==
    /\ source = "failed"
    /\ Connect(IF sourceId.sseId > 0 THEN sourceId ELSE url, urlResume)
    /\ UNCHANGED <<sourceId, url, urlResume>>

\* handleEnvelope.
Apply(f) ==
    /\ hasSnapshot' = (hasSnapshot \/ f.type = "snapshot")
    /\ seen' = IF f.type = "snapshot" THEN [k \in Change |-> IF k <= f.change THEN 1 ELSE 0]
               ELSE IF f.type = "event" THEN [seen EXCEPT ![f.change] = @ + 1] ELSE seen

\* onmessage.
Receive ==
    /\ frames # <<>> /\ frames' = Tail(frames)
    /\ LET f == Head(frames)
           id == [sseId |-> f.sseId, boot |-> boot]
       IN /\ sourceId' = id
          /\ cursor' = IF id.sseId > cursor.sseId THEN id ELSE cursor
          /\ Apply(f)
          /\ behind' = IF f.type = "snapshot" \/ f.rest = 0 THEN 0
                       ELSE IF f.type = "hello" THEN f.sseId ELSE behind
          /\ skipped' = IF f.type = "snapshot" THEN {} ELSE skipped
          /\ overlaid' = IF f.type = "snapshot" THEN f.rest > 0 ELSE overlaid
    /\ UNCHANGED <<hostVars, client, source, url, urlResume, connects, breaks>>

\* The page is loaded again: sessionStorage has the cursor only.
Reload ==
    /\ breaks < MaxBreaks /\ breaks' = breaks + 1
    /\ client' = "none" /\ frames' = <<>>
    /\ source' = "none" /\ sourceId' = NoId /\ url' = NoId /\ urlResume' = FALSE
    /\ hasSnapshot' = FALSE /\ seen' = [k \in Change |-> 0]
    /\ UNCHANGED <<hostVars, cursor, behind, skipped, overlaid, connects>>

-----------------------------------------------------------------------------
(* Connections and processes.                                              *)

Lost ==
    /\ client' = "none" /\ frames' = <<>>
    /\ source' = IF source = "open" THEN "failed" ELSE source
    /\ UNCHANGED <<sourceId, url, urlResume, cursor, hasSnapshot, seen, skipped, overlaid, connects>>

ConnectionBreaks ==
    /\ source = "open" /\ breaks < MaxBreaks /\ breaks' = breaks + 1
    /\ Lost /\ UNCHANGED <<hostVars, behind>>

\* The response that the host has ended was read to its end.
StreamEnds ==
    /\ source = "open" /\ client = "ended" /\ frames = <<>>
    /\ Lost /\ UNCHANGED <<hostVars, behind, breaks>>

HostRestart ==
    /\ boot < MaxBoots /\ boot' = boot + 1
    /\ nextSseId' = 0 /\ history' = <<>> /\ behind' = 0
    /\ Lost /\ UNCHANGED <<changes, breaks>>

Next ==
    \/ SendChange \/ SendOther \/ SendUnrecorded
    \/ ConnectSse \/ SourceReconnects \/ Receive \/ Reload
    \/ ConnectionBreaks \/ StreamEnds \/ HostRestart

Spec == Init /\ [][Next]_vars

-----------------------------------------------------------------------------
(* Properties.                                                             *)

\* The connection is up and the page has read what was sent on it.
UpToDate == client = "active" /\ frames = <<>> /\ hasSnapshot

Gapless == \A k \in 1..changes : seen[k] >= 1

\* A page that is connected and has read everything has every change, however
\* often it connected again and whatever the host gave up: unless it resumed
\* behind a handshake whose replay it did not get, or with a number of an
\* earlier host process.
Complete == UpToDate /\ skipped = {} => Gapless

\* No change is applied before an earlier one, with the same exceptions.
InOrder ==
    hasSnapshot /\ skipped = {} =>
        \A k \in Change : seen[k] >= 1 => \A j \in 1..k : seen[j] >= 1

\* No change is applied twice, unless the host sent a replay after a snapshot.
AppliedOnce == overlaid \/ \A k \in Change : seen[k] <= 1

\* "when [...] the host's replay buffer still covers the gap, the host may send
\* a lightweight `registry.hello` handshake instead of a full
\* `registry.snapshot`, then replay missed SSE events": nothing is missing then.
ResumeComplete == UpToDate => Gapless
=============================================================================
