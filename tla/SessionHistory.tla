--------------------------- MODULE SessionHistory ---------------------------
(***************************************************************************)
(* What one page shows of the history of one session.                      *)
(*                                                                         *)
(* The events of a session have the numbers 1, 2, ...  The page loads the  *)
(* newest of them when the session is selected, older ones when the user   *)
(* scrolls up, and those it has not got when the session is selected again *)
(* or the stream starts anew.  Meanwhile events come on the stream: text   *)
(* only when the host has been told that the session is selected, which it *)
(* is 150 ms later.  None of these waits for another.                      *)
(***************************************************************************)
EXTENDS Integers, Sequences, FiniteSets

CONSTANTS
    PageSize,       \* events in an answer, 500 or 800 in the code
    MaxPages,       \* pages that one backfill reads, 10 in the code
    MaxEvents,      \* bound: events of the session
    MaxSelects,     \* bound: selections of the session
    MaxFails,       \* bound: calls that fail
    MaxConnects,    \* bound: streams that start anew
    MaxWork         \* bound: all of these together

Event == 1..MaxEvents
Kind == {"start", "end", "text"}

VARIABLES
    log,            \* the events in the table of the host
    subscribed,     \* the session of this client in clients is this one
    frames,         \* on the stream: an event, or a snapshot with lastSeq
    selected,       \* selectedSessionId is this session
    row,            \* lastSeq of the row of the session
    store,          \* the store of the session
    load,           \* the call of loadSessionHistory, and the lastSeq of its answer
    older,          \* beforeSeq of the calls of loadMoreSessionHistoryBefore
    newer,          \* the calls of backfillSessionAfter
    missed,         \* history: events the page was not sent, or has given up
    merged,         \* history: texts that were added to a pending one
    raced,          \* history: live events came while others were held up
    selects, fails, connects

hostVars == <<log, subscribed, frames>>
historyVars == <<missed, merged, raced>>
bounds == <<selects, fails, connects>>
vars == <<hostVars, selected, row, store, load, older, newer, historyVars, bounds>>

\* events: what the page shows; real: lastRealtimeSeqSeen; turn: the event that
\* started currentTurnId.
NoStore == [there |-> FALSE, loaded |-> FALSE, events |-> <<>>, seen |-> {}, last |-> 0,
            real |-> 0, more |-> TRUE, before |-> 0, pending |-> <<>>, turn |-> 0,
            loadingBefore |-> FALSE, loadingAfter |-> FALSE]
NoLoad == [at |-> "none", upto |-> 0]

TypeOK ==
    /\ log \in Seq(Kind) /\ Len(log) <= MaxEvents /\ subscribed \in BOOLEAN
    /\ \A i \in 1..Len(frames) : frames[i][1] \in {"event", "snapshot"} /\ frames[i][2] \in 0..MaxEvents
    /\ selected \in BOOLEAN /\ row \in 0..MaxEvents
    /\ DOMAIN store = DOMAIN NoStore /\ store.events \in Seq(Event) /\ store.seen \subseteq Event
    /\ store.seen \subseteq {store.events[i] : i \in 1..Len(store.events)}
    /\ {store.last, store.real, store.before, store.turn} \subseteq 0..MaxEvents
    /\ load \in [at : {"none", "asked", "answered"}, upto : 0..MaxEvents]
    /\ older \subseteq Event
    /\ newer \subseteq [after : 0..MaxEvents, at : {"asked", "answered"}, upto : 0..MaxEvents, more : BOOLEAN, selecting : BOOLEAN, page : 1..MaxPages]
    /\ missed \subseteq Event /\ merged \subseteq Event /\ raced \in BOOLEAN
    /\ selects \in 0..MaxSelects /\ fails \in 0..MaxFails /\ connects \in 0..MaxConnects

Init ==
    /\ log = <<>> /\ subscribed = FALSE /\ frames = <<>>
    /\ selected = FALSE /\ row = 0 /\ store = NoStore
    /\ load = NoLoad /\ older = {} /\ newer = {}
    /\ missed = {} /\ merged = {} /\ raced = FALSE
    /\ selects = 0 /\ fails = 0 /\ connects = 0

\* The bound on all of them together; a connection or a failure counts twice.
InBound(n) == Len(log) + selects + 2 * (connects + fails) + n <= MaxWork
MaxOf(a, b) == IF a > b THEN a ELSE b
MinOf(a, b) == IF a < b THEN a ELSE b
Shown(s) == {s.events[i] : i \in 1..Len(s.events)}

\* deriveCurrentTurnId.
TurnIn(from, upto) ==
    LET marks == {i \in from..upto : log[i] # "text"}
        newest == {i \in marks : \A j \in marks : j <= i} IN
    IF \E i \in newest : log[i] = "start" THEN CHOOSE i \in newest : TRUE ELSE 0

-----------------------------------------------------------------------------
(* The host.                                                               *)

\* #shouldSend: text goes to the clients of the session, the rest to all.  The
\* runner starts and ends turns in turn (CodexTurns).
Store(kind) ==
    LET i == Len(log) + 1
        sent == kind # "text" \/ subscribed IN
    /\ i <= MaxEvents /\ InBound(1) /\ log' = Append(log, kind)
    /\ kind # "text" => (kind = "end") = (TurnIn(1, Len(log)) # 0)
    /\ frames' = IF sent THEN Append(frames, <<"event", i>>) ELSE frames
    /\ missed' = IF sent THEN missed ELSE missed \cup {i}
    /\ UNCHANGED <<subscribed, selected, row, store, load, older, newer, merged, raced, bounds>>

\* POST /api/visibility, 150 ms after a selection.
Post ==
    /\ subscribed # selected /\ subscribed' = selected
    /\ UNCHANGED <<log, frames, selected, row, store, load, older, newer, historyVars, bounds>>

\* A connection that starts with a snapshot; what was on the former one is lost.
Reconnect ==
    /\ connects < MaxConnects /\ InBound(2) /\ connects' = connects + 1
    /\ frames' = <<<<"snapshot", Len(log)>>>> /\ subscribed' = selected
    /\ UNCHANGED <<log, selected, row, store, load, older, newer, historyVars, selects, fails>>

-----------------------------------------------------------------------------
(* Events on the page.                                                     *)

\* Wrong: an event is added again.
AddAgain(s, i) == [s EXCEPT !.seen = @ \cup {i}, !.events = Append(@, i), !.last = MaxOf(@, i)]

\* addSessionEvent.
Add(s, i) ==
    IF i \in s.seen THEN s
    ELSE [s EXCEPT !.seen = @ \cup {i}, !.events = Append(@, i), !.last = MaxOf(@, i)]

\* Text that follows text is added to it; only the first has an eventId.
Held(s, i) ==
    LET p == s.pending
        merge == p # <<>> /\ log[p[Len(p)][1]] = "text" /\ log[i] = "text" IN
    [s EXCEPT !.pending = IF merge THEN [p EXCEPT ![Len(p)] = Append(@, i)] ELSE Append(p, <<i>>)]

\* handleEnvelope; above: the event is held back until the older ones are there,
\* since the user has scrolled up.
Handled(s, i, above) ==
    LET t == [s EXCEPT !.real = IF s.there THEN MaxOf(@, i) ELSE @] IN
    IF ~selected THEN t
    ELSE LET u == [t EXCEPT !.there = TRUE,
                            !.turn = CASE log[i] = "start" -> i [] log[i] = "end" -> 0 [] OTHER -> @] IN
         IF u.loadingBefore /\ above THEN Held(u, i) ELSE Add(u, i)

\* The n events behind after, in turn.
HandledAll(s, after, n, above) ==
    LET done[k \in 0..n] == IF k = 0 THEN s ELSE Handled(done[k - 1], after + k, above)
    IN  done[n]

\* The held events are added, without a number.
Joined(s, g) ==
    IF g[1] \in s.seen THEN s ELSE [s EXCEPT !.seen = @ \cup {g[1]}, !.events = @ \o g]
Flushed(s) ==
    LET joined[k \in 0..Len(s.pending)] ==
            IF k = 0 THEN [s EXCEPT !.pending = <<>>] ELSE Joined(joined[k - 1], s.pending[k])
    IN  joined[Len(s.pending)]

MergedIn(s) == UNION {{s.pending[k][j] : j \in 2..Len(s.pending[k])} : k \in 1..Len(s.pending)}
HeldIn(s) == UNION {{s.pending[k][j] : j \in 1..Len(s.pending[k])} : k \in 1..Len(s.pending)}

Receive ==
    /\ frames # <<>> /\ Head(frames)[1] = "event" /\ frames' = Tail(frames)
    /\ LET i == Head(frames)[2] IN
       /\ \E above \in BOOLEAN : store' = Handled(store, i, above)
       /\ row' = MaxOf(row, i)
       /\ raced' = (raced \/ (selected /\ (newer # {} \/ (store.pending # <<>> /\ i \in Shown(store'))
                                    \/ \E j \in Shown(store) \cup HeldIn(store) : j > i)))
       /\ merged' = merged \cup MergedIn(store')
    /\ UNCHANGED <<log, subscribed, selected, load, older, newer, missed, bounds>>

\* backfillSessionAfter, of which this is a page.
BackfillPage(after, selecting, page) ==
    [after |-> after, at |-> "asked", upto |-> 0, more |-> FALSE, selecting |-> selecting, page |-> page]
Backfill(after, selecting) == BackfillPage(after, selecting, 1)

\* registry.snapshot.
Snapshot ==
    /\ frames # <<>> /\ Head(frames)[1] = "snapshot" /\ frames' = Tail(frames)
    /\ LET n == Head(frames)[2]
           asks == selected /\ store.real > 0 /\ n > store.real /\ ~store.loadingAfter IN
       /\ row' = n
       /\ newer' = IF asks THEN newer \cup {Backfill(store.real, FALSE)} ELSE newer
       /\ store' = IF asks THEN [store EXCEPT !.loadingAfter = TRUE] ELSE store
       /\ missed' = IF selected /\ store.there /\ ~asks
                    THEN missed \cup ((1..n) \ (Shown(store) \cup HeldIn(store))) ELSE missed
    /\ UNCHANGED <<log, subscribed, selected, load, older, merged, raced, bounds>>

-----------------------------------------------------------------------------
(* The session is selected or left.                                        *)

\* Wrong: what has been loaded is taken to be enough.
StrategyReusing == IF store.loaded THEN "reuse" ELSE "load"

\* resolveSessionLoadStrategy.
Strategy ==
    IF ~store.loaded THEN "load"
    ELSE IF row = 0 \/ store.last >= row THEN "reuse"
    ELSE IF store.last > 0 THEN "backfill" ELSE "load"

Select ==
    /\ ~selected /\ selects < MaxSelects /\ InBound(1) /\ selects' = selects + 1 /\ selected' = TRUE
    /\ load' = IF Strategy = "load" THEN [at |-> "asked", upto |-> 0] ELSE load
    /\ LET asks == Strategy = "backfill" /\ ~store.loadingAfter IN
       /\ newer' = IF asks THEN newer \cup {Backfill(store.last, TRUE)} ELSE newer
       /\ store' = IF Strategy = "backfill" THEN [store EXCEPT !.loadingAfter = TRUE] ELSE store
       /\ missed' = IF Strategy = "backfill" /\ ~asks
                    THEN missed \cup ((1..row) \ (Shown(store) \cup HeldIn(store))) ELSE missed
    /\ UNCHANGED <<hostVars, row, older, merged, raced, fails, connects>>

\* Another session, or none: its load, if there is one, ends that of this session.
Leave ==
    /\ selected /\ selected' = FALSE /\ load' \in {load, NoLoad}
    /\ missed' = IF load' = load THEN missed ELSE missed \cup ((1..Len(log)) \ Shown(store))
    /\ UNCHANGED <<hostVars, row, store, older, newer, merged, raced, bounds>>

-----------------------------------------------------------------------------
(* loadSessionHistory.                                                     *)

LoadAnswered ==
    /\ load.at = "asked" /\ load' = [at |-> "answered", upto |-> Len(log)]
    /\ UNCHANGED <<hostVars, selected, row, store, older, newer, historyVars, bounds>>

LoadFails ==
    /\ load.at = "asked" /\ load' = NoLoad /\ fails < MaxFails /\ InBound(2) /\ fails' = fails + 1
    /\ missed' = missed \cup ((1..Len(log)) \ Shown(store))
    /\ UNCHANGED <<hostVars, selected, row, store, older, newer, merged, raced, selects, connects>>

\* Wrong: the events of before stay.
LoadAppliedOver(s, upto) ==
    [s EXCEPT !.there = TRUE, !.loaded = TRUE, !.last = upto,
              !.events = @ \o [i \in 1..MinOf(PageSize, upto) |-> upto - MinOf(PageSize, upto) + i]]

\* resetSessionStoreState, then the newest page.
LoadApplied(s, upto) ==
    LET n == MinOf(PageSize, upto) IN
    [NoStore EXCEPT !.there = TRUE, !.loaded = TRUE, !.last = upto,
                    !.events = [i \in 1..n |-> upto - n + i], !.seen = (upto - n + 1)..upto,
                    !.more = (n < upto), !.before = IF n = 0 THEN 0 ELSE upto - n + 1,
                    !.turn = TurnIn(upto - n + 1, upto)]

LoadApply ==
    /\ load.at = "answered" /\ load' = NoLoad
    /\ LET upto == load.upto IN
       /\ row' = upto
       /\ store' = LoadApplied(store, upto)
       /\ missed' = {i \in missed \cup Shown(store) \cup HeldIn(store) : i > upto} \cup (upto + 1)..row
    /\ UNCHANGED <<hostVars, selected, older, newer, merged, raced, bounds>>

-----------------------------------------------------------------------------
(* loadMoreSessionHistoryBefore.                                           *)

\* The user scrolls up, or the page warms the history after a load.
OlderAsk ==
    /\ selected /\ store.there /\ ~store.loadingBefore /\ store.more /\ store.before > 0
    /\ older' = older \cup {store.before} /\ store' = [store EXCEPT !.loadingBefore = TRUE]
    /\ UNCHANGED <<hostVars, selected, row, load, newer, historyVars, bounds>>

\* Wrong: what the page has already is put before it again.
OlderPageAgain(s, b) ==
    LET from == MaxOf(1, b - PageSize) IN
    [s EXCEPT !.events = [k \in 1..(b - from) |-> from + k - 1] \o @, !.seen = @ \cup from..(b - 1),
              !.more = from > 1, !.before = from, !.loadingBefore = FALSE]

\* Of n events from the given one on, those that are not there.
Unseen(s, from, n) ==
    LET fresh[k \in 0..n] ==
            IF k = 0 THEN <<>>
            ELSE IF from + k - 1 \in s.seen THEN fresh[k - 1] ELSE Append(fresh[k - 1], from + k - 1)
    IN  fresh[n]

OlderPage(s, b) ==
    LET from == MaxOf(1, b - PageSize) IN
    [s EXCEPT !.events = Unseen(s, from, b - from) \o @, !.seen = @ \cup from..(b - 1),
              !.more = from > 1, !.before = from, !.loadingBefore = FALSE]

OlderApply(b) ==
    /\ b \in older /\ older' = older \ {b}
    /\ store' = Flushed(OlderPage(store, b))
    /\ raced' = (raced \/ (newer # {} /\ store.pending # <<>>) \/ b # store.before)
    /\ missed' = missed \cup b..(store.before - 1)
                 \cup {i \in HeldIn(store) : i \notin Shown(store')}
    /\ UNCHANGED <<hostVars, selected, row, load, newer, merged, bounds>>

OlderFails(b) ==
    /\ b \in older /\ older' = older \ {b} /\ fails < MaxFails /\ InBound(2) /\ fails' = fails + 1
    /\ store' = Flushed([store EXCEPT !.loadingBefore = FALSE])
    /\ raced' = (raced \/ (newer # {} /\ store.pending # <<>>))
    /\ missed' = missed \cup {i \in HeldIn(store) : i \notin Shown(store')}
    /\ UNCHANGED <<hostVars, selected, row, load, newer, merged, selects, connects>>

-----------------------------------------------------------------------------
(* backfillSessionAfter.                                                   *)

NewerAnswered(c) ==
    LET upto == MinOf(c.after + PageSize, Len(log)) IN
    /\ c \in newer /\ c.at = "asked"
    /\ newer' = (newer \ {c}) \cup {[c EXCEPT !.at = "answered", !.upto = upto, !.more = upto < Len(log)]}
    /\ UNCHANGED <<hostVars, selected, row, store, load, older, historyVars, bounds>>

\* Wrong: the pages behind the first are not asked for.
NextPageNever(c) == {}

\* The loop: it stops at the last page it may read, though there are more.
NextPage(c) ==
    IF c.more /\ c.upto > c.after /\ c.page < MaxPages
    THEN {BackfillPage(c.upto, c.selecting, c.page + 1)} ELSE {}
\* What it leaves behind then, which nothing asks for.
LeftBehind(c) == IF c.more /\ c.page = MaxPages THEN (c.upto + 1)..Len(log) ELSE {}

\* Every event goes through handleEnvelope, which leaves it out when another
\* session is selected by now.
NewerApply(c) ==
    /\ c \in newer /\ c.at = "answered"
    /\ newer' = (newer \ {c}) \cup NextPage(c)
    /\ \E above \in BOOLEAN :
         LET s == HandledAll(store, c.after, c.upto - c.after, above) IN
         store' = IF NextPage(c) = {} THEN [s EXCEPT !.loadingAfter = FALSE] ELSE s
    /\ row' = MaxOf(row, c.upto)
    /\ missed' = missed \cup LeftBehind(c) \cup IF selected THEN {} ELSE (c.after + 1)..c.upto
    /\ merged' = merged \cup MergedIn(store')
    /\ raced' = (raced \/ (selected /\ (Cardinality(newer) > 1 \/ store.pending # <<>>
                                    \/ \E i \in Shown(store) : i > c.after)))
    /\ UNCHANGED <<hostVars, selected, load, older, bounds>>

\* An answer that is not ok ends the backfill; without an answer, one that a
\* selection has made leads to loadSession, whichever session is selected by now.
NewerFails(c) ==
    /\ c \in newer /\ c.at = "asked" /\ newer' = newer \ {c} /\ fails < MaxFails /\ InBound(2) /\ fails' = fails + 1
    /\ store' = [store EXCEPT !.loadingAfter = FALSE]
    /\ \/ c.selecting /\ load' = [at |-> "asked", upto |-> 0] /\ UNCHANGED missed
       \/ UNCHANGED load /\ missed' = missed \cup (c.after + 1)..MaxOf(row, Len(log))
    /\ UNCHANGED <<hostVars, selected, row, older, merged, raced, selects, connects>>

Next ==
    \/ \E kind \in Kind : Store(kind)
    \/ Post \/ Reconnect \/ Receive \/ Snapshot \/ Select \/ Leave
    \/ LoadAnswered \/ LoadFails \/ LoadApply \/ OlderAsk
    \/ \E b \in older : OlderApply(b) \/ OlderFails(b)
    \/ \E c \in newer : NewerAnswered(c) \/ NewerApply(c) \/ NewerFails(c)

Spec == Init /\ [][Next]_vars

-----------------------------------------------------------------------------
(* Properties.                                                             *)

\* No event is shown twice, however live events, pages and backfills meet: but for
\* a text that was added to another while both were held back.
Once ==
    \A i, j \in 1..Len(store.events) :
        i < j /\ store.events[i] = store.events[j] => store.events[i] \in merged

\* A page that has read everything shows every event from the oldest it has loaded
\* on, but for those it was not sent, or has given up.
Settled == selected /\ store.loaded /\ frames = <<>> /\ load = NoLoad /\ older = {} /\ newer = {}
NoGap ==
    Settled => \A i \in MaxOf(1, store.before)..Len(log) : i \in Shown(store) \cup missed

\* The events are in their order, unless live ones came while others were held up.
InOrder == ~raced => \A i, j \in 1..Len(store.events) : i < j => store.events[i] <= store.events[j]

\* The turn that the page shows as running does run, with the same exceptions.  (One
\* that started before the oldest event of the load is not shown.)
TurnShown ==
    Settled /\ ~raced /\ missed = {} /\ store.turn # 0 => store.turn = TurnIn(1, Len(log))
=============================================================================
