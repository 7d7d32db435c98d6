---------------------------- MODULE SessionLists ----------------------------
(***************************************************************************)
(* The list of sessions on one page, and the marks of what has been read.  *)
(*                                                                         *)
(* The host sends the newest sessions with a snapshot; the page loads the  *)
(* older ones behind a cursor on the time of their last event.  Meanwhile  *)
(* sessions are made, written to, archived, read and deleted; the page     *)
(* gets rows from the snapshot, from pages, from upserts on the stream and *)
(* from the answers to its own calls, in whatever order these arrive.      *)
(***************************************************************************)
EXTENDS Integers, Sequences, FiniteSets

CONSTANTS
    Session,
    NoSession,      \* no session is selected, or about to be marked
    ListPage,       \* sessions in an answer, 200 in the code
    MaxListChanges, \* bound: changes of the table
    MaxCalls,       \* bound: calls of the page that change a session
    MaxSnapshots    \* bound: streams that start anew

VARIABLES
    table,          \* the sessions of the host
    made,           \* those that are, or were, in it: no id is used twice
    updates,        \* frames on the stream
    rows,           \* sessions and sessionRowsById
    list,           \* the cursor: sessionListHasMore, sessionListNextBefore...
    paging,         \* the call for a page of the list
    answers,        \* answers to the calls of the page that change a session
    current,        \* selectedSessionId
    needs,          \* the sessions sessionReadGate wants an interaction for
    timer,          \* the session markReadTimer is for
    unmoved,        \* history: unread sessions with no interaction since their news
    hasty,          \* history: sessions marked as read all the same
    passed,         \* history: sessions that have gone to the other side of the cursor
    ghosts,         \* history: rows that came, or stayed, after their session was gone
    stale,          \* history: rows an older answer has taken the place of
    changes, calls, snapshots

hostVars == <<table, made, updates>>
gateVars == <<current, needs, timer, unmoved, hasty>>
historyVars == <<passed, ghosts, stale>>
bounds == <<changes, calls, snapshots>>
vars == <<hostVars, rows, list, paging, answers, gateVars, historyVars, bounds>>

Time == 0..(MaxListChanges + MaxCalls)
Entry == [archived : BOOLEAN, at : Time, seq : Time, read : Time]
NoEntry == [archived |-> FALSE, at |-> 0, seq |-> 0, read |-> 0]

\* A session that is in the table, or a row that is on the page, has at # 0.
There(t, s) == t[s].at # 0
Known == {s \in Session : There(rows, s)}
Unread(e) == e.seq > e.read

TypeOK ==
    /\ table \in [Session -> Entry] /\ rows \in [Session -> Entry]
    /\ \A i \in 1..Len(updates) : updates[i].kind \in {"snapshot", "upsert", "delete", "event"}
    /\ list \in [loaded : BOOLEAN, more : BOOLEAN, before : Time]
    /\ paging.at \in {"none", "asked", "answered"} /\ paging.rows \subseteq Session
    /\ {a.s : a \in answers} \subseteq Session
    /\ {current, timer} \subseteq Session \cup {NoSession}
    /\ \A a \in {needs, unmoved, hasty, passed, ghosts, stale, made} : a \subseteq Session
    /\ changes \in 0..MaxListChanges /\ calls \in 0..MaxCalls /\ snapshots \in 0..MaxSnapshots

NoPaging == [at |-> "none", before |-> 0, rows |-> {}, entries |-> [s \in Session |-> NoEntry], more |-> FALSE, next |-> 0,
             former |-> FALSE]

Init ==
    /\ table = [s \in Session |-> NoEntry] /\ made = {} /\ rows = table /\ updates = <<>>
    /\ list = [loaded |-> FALSE, more |-> FALSE, before |-> 0] /\ paging = NoPaging /\ answers = {}
    /\ current = NoSession /\ needs = {} /\ timer = NoSession /\ unmoved = {} /\ hasty = {}
    /\ passed = {} /\ ghosts = {} /\ stale = {}
    /\ changes = 0 /\ calls = 0 /\ snapshots = 0

-----------------------------------------------------------------------------
(* The host.                                                               *)

Now == changes + 1

\* listSessionsPage: sessions that are not archived, last written before a time; 0
\* for the newest.
Before(b) == {s \in Session : There(table, s) /\ ~table[s].archived /\ (b = 0 \/ table[s].at < b)}
Newest(S, n) == {s \in S : Cardinality({u \in S : table[u].at > table[s].at}) < n}

\* Wrong: the row that tells of another page is not asked for.
PageBeforeOnly(b) ==
    LET page == Newest(Before(b), ListPage) IN
    [rows |-> page, entries |-> [s \in Session |-> IF s \in page THEN table[s] ELSE NoEntry],
     more |-> FALSE, next |-> 0]

PageBefore(b) ==
    LET page == Newest(Before(b), ListPage) IN
    [rows |-> page, entries |-> [s \in Session |-> IF s \in page THEN table[s] ELSE NoEntry],
     more |-> Before(b) # page,
     next |-> IF page = {} THEN 0 ELSE CHOOSE t \in {table[s].at : s \in page} : \A s \in page : t <= table[s].at]

Send(kind, s, e) == [kind |-> kind, s |-> s, entry |-> e]

\* A draft of somebody is stored.
Create(s) ==
    /\ s \notin made /\ made' = made \cup {s} /\ changes < MaxListChanges /\ changes' = Now
    /\ table' = [table EXCEPT ![s] = [NoEntry EXCEPT !.at = Now]]
    /\ updates' = IF snapshots > 0 THEN Append(updates, Send("upsert", s, table'[s])) ELSE updates
    /\ UNCHANGED <<rows, list, paging, answers, gateVars, historyVars, calls, snapshots>>

\* recordRunnerEvent: the session goes to the front, and no row is sent.
Event(s) ==
    /\ There(table, s) /\ changes < MaxListChanges /\ changes' = Now
    /\ UNCHANGED made /\ table' = [table EXCEPT ![s].at = Now, ![s].seq = @ + 1]
    /\ updates' = IF snapshots > 0 THEN Append(updates, Send("event", s, table'[s])) ELSE updates
    /\ passed' = IF s \in Known THEN passed ELSE passed \cup {s}
    /\ UNCHANGED <<rows, list, paging, answers, gateVars, ghosts, stale, calls, snapshots>>

\* What POST .../read, .../archive and .../unarchive do to a session.
Changed(kind, e) ==
    CASE kind = "read" -> [e EXCEPT !.read = e.seq]
      [] kind = "archive" -> [e EXCEPT !.archived = TRUE]
      [] kind = "unarchive" -> [e EXCEPT !.archived = FALSE]

\* A call of this page; its answer is the row too.
Call(kind, s) ==
    /\ There(table, s) /\ calls < MaxCalls /\ calls' = calls + 1
    /\ UNCHANGED made /\ table' = [table EXCEPT ![s] = Changed(kind, @)]
    /\ updates' = Append(updates, Send("upsert", s, table'[s]))
    /\ answers' = answers \cup {[kind |-> kind, s |-> s, entry |-> table'[s]]}
    /\ passed' = IF kind = "unarchive" /\ s \notin Known THEN passed \cup {s} ELSE passed

Archive(kind, s) ==
    /\ s \in Known /\ kind = (IF rows[s].archived THEN "unarchive" ELSE "archive") /\ Call(kind, s)
    /\ UNCHANGED <<rows, list, paging, gateVars, ghosts, stale, changes, snapshots>>

\* DELETE /api/sessions/..., of this page or of another one.
Delete(s) ==
    /\ There(table, s) /\ list.loaded /\ changes < MaxListChanges /\ changes' = Now
    /\ UNCHANGED made /\ table' = [table EXCEPT ![s] = NoEntry]
    /\ updates' = Append(updates, Send("delete", s, NoEntry))
    /\ UNCHANGED <<rows, list, paging, answers, gateVars, historyVars, calls, snapshots>>

\* runRetention: nobody is told.
Prune(s) ==
    /\ There(table, s) /\ changes < MaxListChanges /\ changes' = Now
    /\ table' = [table EXCEPT ![s] = NoEntry] /\ ghosts' = ghosts \cup {s}
    /\ UNCHANGED <<made, updates, rows, list, paging, answers, gateVars, passed, stale, calls, snapshots>>

\* A stream begins with a snapshot.
Connect ==
    /\ snapshots < MaxSnapshots /\ snapshots' = snapshots + 1
    /\ updates' = <<[kind |-> "snapshot", page |-> PageBefore(0)]>>
    /\ paging' = [paging EXCEPT !.former = (paging.at = "answered")]
    /\ UNCHANGED <<table, made, rows, list, answers, gateVars, historyVars, changes, calls>>

-----------------------------------------------------------------------------
(* Rows on the page.                                                       *)

\* Wrong: news for a session that is unread ask for no other interaction.
NeedsOfOnce(n, s, e) == IF Unread(e) /\ e.seq = e.read + 1 THEN n \cup {s} ELSE n \ {s}

\* syncSessionUnread.
NeedsOf(n, s, e) == IF Unread(e) THEN n \cup {s} ELSE n \ {s}

\* An entry of the table, and a row that an answer has brought and that is no longer
\* true: nothing on the stream tells so.
Gone(s) == ~There(table, s) /\ \A i \in 1..Len(updates) : updates[i].kind = "delete" => updates[i].s # s
Old(s, e) == There(table, s) /\ e # table[s]

\* replaceSessionRows, applySessionPageInfo.
Snapshot ==
    /\ updates # <<>> /\ Head(updates).kind = "snapshot" /\ updates' = Tail(updates)
    /\ LET p == Head(updates).page
           told == {Tail(updates)[i].s : i \in {j \in 1..Len(Tail(updates)) : Tail(updates)[j].kind # "delete"}} IN
       /\ rows' = p.entries
       /\ list' = [loaded |-> TRUE, more |-> p.more, before |-> p.next]
       /\ needs' = {s \in needs \cup p.rows : s \in p.rows => Unread(p.entries[s])}
       /\ unmoved' = unmoved \cap {s \in Session : Unread(p.entries[s])}
       /\ passed' = (passed \cap told) \ p.rows
       /\ stale' = {}
    /\ UNCHANGED <<table, made, paging, answers, current, timer, hasty, ghosts, bounds>>

\* Wrong: what a row says of reading and archiving is kept.
RowOfKeeping(s, e) == IF s \in Known THEN [e EXCEPT !.read = rows[s].read, !.archived = rows[s].archived] ELSE e

\* Object.assign: every column of the new row.
RowOf(s, e) == [rows[s] EXCEPT !.archived = e.archived, !.at = e.at, !.seq = e.seq, !.read = e.read]

\* upsertSessionRow.
Put(s, e) ==
    /\ rows' = [rows EXCEPT ![s] = RowOf(s, e)]
    /\ needs' = NeedsOf(needs, s, e) /\ unmoved' = IF Unread(e) THEN unmoved ELSE unmoved \ {s}

Upsert ==
    /\ updates # <<>> /\ Head(updates).kind = "upsert" /\ updates' = Tail(updates)
    /\ LET s == Head(updates).s IN
       /\ Put(s, Head(updates).entry)
       /\ stale' = stale \ {s} /\ passed' = passed \ {s}
    /\ UNCHANGED <<table, made, list, paging, answers, current, timer, hasty, ghosts, bounds>>

\* removeSessionRow.
Removed ==
    /\ updates # <<>> /\ Head(updates).kind = "delete" /\ updates' = Tail(updates)
    /\ LET s == Head(updates).s IN
       /\ rows' = [rows EXCEPT ![s] = NoEntry] /\ needs' = needs \ {s} /\ unmoved' = unmoved \ {s}
       /\ current' = IF current = s THEN NoSession ELSE current
    /\ UNCHANGED <<table, made, list, paging, answers, timer, hasty, historyVars, bounds>>

\* scheduleMarkRead, for the session that is selected.
Scheduled(s, r, n) == IF Unread(r[s]) /\ s \notin n THEN s ELSE NoSession

\* handleEnvelope: the mark is scheduled before the gate hears of the news.
Told ==
    /\ updates # <<>> /\ Head(updates).kind = "event" /\ updates' = Tail(updates)
    /\ LET s == Head(updates).s IN
       IF s \in Known
       THEN /\ rows' = [rows EXCEPT ![s].seq = IF @ > Head(updates).entry.seq THEN @ ELSE Head(updates).entry.seq,
                                    ![s].at = IF @ > Head(updates).entry.at THEN @ ELSE Head(updates).entry.at]
            /\ timer' \in {timer} \cup (IF s = current THEN {Scheduled(s, rows', needs)} ELSE {})
            /\ needs' = NeedsOf(needs, s, rows'[s])
            /\ unmoved' = IF Unread(rows'[s]) THEN unmoved \cup {s} ELSE unmoved \ {s}
            /\ UNCHANGED passed
       ELSE passed' = passed \cup {s} /\ UNCHANGED <<rows, timer, needs, unmoved>>
    /\ UNCHANGED <<table, made, list, paging, answers, current, hasty, ghosts, stale, bounds>>

\* An answer to a call of the page.  Archiving leaves the session.
Answered(a) ==
    /\ a \in answers /\ answers' = answers \ {a} /\ Put(a.s, a.entry)
    /\ current' = IF a.kind = "archive" /\ current = a.s THEN NoSession ELSE current
    /\ ghosts' = IF Gone(a.s) THEN ghosts \cup {a.s} ELSE ghosts
    /\ stale' = IF Old(a.s, a.entry) THEN stale \cup {a.s} ELSE stale
    /\ passed' = passed \ {a.s}
    /\ UNCHANGED <<hostVars, list, paging, timer, hasty, bounds>>

Unanswered(a) ==
    /\ a \in answers /\ answers' = answers \ {a}
    /\ UNCHANGED <<hostVars, rows, list, paging, gateVars, historyVars, bounds>>

-----------------------------------------------------------------------------
(* Pages.                                                                  *)

\* loadMoreSessions, when the user scrolls or the list is warmed.
More ==
    /\ list.loaded /\ list.more /\ list.before # 0 /\ paging.at = "none"
    /\ paging' = [NoPaging EXCEPT !.at = "asked", !.before = list.before]
    /\ UNCHANGED <<hostVars, rows, list, answers, gateVars, historyVars, bounds>>

PageAnswer(b) ==
    LET p == PageBefore(b) IN
    [at |-> "answered", before |-> b, rows |-> p.rows, entries |-> p.entries, more |-> p.more, next |-> p.next,
     former |-> FALSE]

MoreAnswered ==
    /\ paging.at = "asked" /\ paging' = PageAnswer(paging.before)
    /\ UNCHANGED <<hostVars, rows, list, answers, gateVars, historyVars, bounds>>

\* appendSessionRowsPage, applySessionPageInfo: whatever the cursor is by now.
MoreApplied ==
    /\ paging.at = "answered" /\ paging' = NoPaging
    /\ rows' = [s \in Session |-> IF s \in paging.rows THEN paging.entries[s] ELSE rows[s]]
    /\ list' = [list EXCEPT !.more = paging.more, !.before = paging.next]
    /\ passed' = (passed \ paging.rows) \cup (IF paging.before = list.before /\ ~paging.former THEN {} ELSE Session \ (Known \cup paging.rows))
    /\ ghosts' = ghosts \cup {s \in paging.rows : Gone(s)}
    /\ stale' = stale \cup {s \in paging.rows : Old(s, paging.entries[s])}
    /\ unmoved' = unmoved \ {s \in paging.rows : ~Unread(paging.entries[s])}
    /\ UNCHANGED <<hostVars, answers, current, needs, timer, hasty, bounds>>

MoreFails ==
    /\ paging.at = "asked" /\ paging' = NoPaging
    /\ UNCHANGED <<hostVars, rows, list, answers, gateVars, historyVars, bounds>>

-----------------------------------------------------------------------------
(* What has been read.                                                     *)

Select(s) ==
    /\ s # current /\ (s # NoSession => s \in Known) /\ current' = s
    /\ timer' = IF s = NoSession THEN timer ELSE Scheduled(s, rows, needs)
    /\ needs' = IF s # NoSession /\ ~Unread(rows[s]) THEN needs \ {s} ELSE needs
    /\ UNCHANGED <<hostVars, rows, list, paging, answers, unmoved, hasty, historyVars, bounds>>

\* noteInteraction: a click anywhere; the chat is at its end, or is not.
Interact ==
    /\ needs # {} \/ unmoved # {} \/ timer # current
    /\ needs' = {} /\ unmoved' = {}
    /\ timer' \in {timer} \cup (IF current = NoSession THEN {} ELSE {Scheduled(current, rows, {})})
    /\ UNCHANGED <<hostVars, rows, list, paging, answers, current, hasty, historyVars, bounds>>

\* Wrong: the gate is not asked again.
MayMarkSoon(s) == Unread(rows[s])

\* The timer fires 500 ms later; the gate is asked again.
MayMark(s) == Unread(rows[s]) /\ s \notin needs

Mark ==
    /\ timer # NoSession /\ timer' = NoSession
    /\ IF MayMark(timer)
       THEN /\ IF There(table, timer) THEN Call("read", timer)
               ELSE UNCHANGED <<hostVars, answers, passed, calls>>
            /\ hasty' = IF timer \in unmoved THEN hasty \cup {timer} ELSE hasty
            /\ UNCHANGED needs
       ELSE /\ needs' = IF Unread(rows[timer]) THEN needs ELSE needs \ {timer}
            /\ UNCHANGED <<hostVars, answers, passed, calls, hasty>>
    /\ UNCHANGED <<rows, list, paging, current, unmoved, ghosts, stale, changes, snapshots>>

Next ==
    \/ \E s \in Session :
         \/ Create(s) \/ Event(s) \/ Delete(s) \/ Prune(s)
         \/ \E kind \in {"archive", "unarchive"} : Archive(kind, s)
    \/ \E s \in Session \cup {NoSession} : Select(s)
    \/ \E a \in answers : Answered(a) \/ Unanswered(a)
    \/ Connect \/ Snapshot \/ Upsert \/ Removed \/ Told
    \/ More \/ MoreAnswered \/ MoreApplied \/ MoreFails \/ Interact \/ Mark

Spec == Init /\ [][Next]_vars

-----------------------------------------------------------------------------
(* Properties.                                                             *)

Settled == list.loaded /\ updates = <<>> /\ answers = {} /\ paging.at = "none"

\* A page that has read everything and has no more pages to load lists every session
\* that is not archived, but for those that got to the front of the list unseen.
ListWhole ==
    Settled /\ ~list.more =>
        \A s \in Session : There(table, s) /\ ~table[s].archived => s \in Known \cup passed

\* It lists no session that is gone, and its rows are those of the host, but for the
\* rows that an answer has brought after the stream had told more.
RowsAgree ==
    Settled => \A s \in Known : /\ There(table, s) \/ s \in ghosts
                                /\ There(table, s) => rows[s] = table[s] \/ s \in stale

\* News that came while nobody touched the page are not marked as read.
ReadIsSeen == hasty = {}
=============================================================================
