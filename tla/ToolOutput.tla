----------------------------- MODULE ToolOutput -----------------------------
(***************************************************************************)
(* What one page shows of the output of one command, and of the reasoning  *)
(* of one turn.                                                            *)
(*                                                                         *)
(* Neither is part of the history that a page loads: the user opens the    *)
(* command or the turn and the page asks for it then.  The output of a     *)
(* command also comes on the stream while the session is selected, and     *)
(* with a backfill after that, where no eventId is looked at.              *)
(***************************************************************************)
EXTENDS Integers, Sequences

CONSTANTS
    OutputPage,     \* texts in an answer, 500 in the code
    MaxTexts,       \* bound: texts the command writes
    MaxLeaves,      \* bound: times the user goes to another session
    MaxReloads,     \* bound: times the history is loaded anew
    MaxPieces       \* bound: pieces of reasoning

Text == 1..MaxTexts

VARIABLES
    stored,         \* texts in the table of the host
    frames,         \* texts on the stream, and in answers to a backfill
    selected,       \* selectedSessionId is this session
    output,         \* the entry of toolOutputByItemId
    call,           \* the call for the output
    again,          \* history: texts that came when they, or later ones, were there
    missed,         \* history: texts the page was not sent, or has wiped out
    pieces,         \* reasoning of the turn in the table
    turn,           \* "runs", "over", or "ended": the page has turn.completed
    early,          \* history: the turn was opened while it went on
    reasoning,      \* the entry of reasoningByTurnId
    meta, body,     \* the calls for the titles and for the bodies, pieces in the answer
    leaves, reloads

outputVars == <<stored, frames, selected, output, call, again, missed, leaves>>
reasoningVars == <<pieces, turn, early, reasoning, meta, body>>
vars == <<outputVars, reasoningVars, reloads>>

NoOutput == [texts |-> <<>>, loaded |-> FALSE, loading |-> FALSE, more |-> FALSE, before |-> 0]
NoReasoning == [loading |-> FALSE, loaded |-> FALSE, loadingBody |-> FALSE, bodyLoaded |-> FALSE,
                pieces |-> 0, bodies |-> FALSE]
NoCall == [at |-> "none", before |-> 0, upto |-> 0]
NoAnswer == [at |-> "none", pieces |-> 0]

TypeOK ==
    /\ stored \in 0..MaxTexts /\ frames \in Seq(Text) /\ selected \in BOOLEAN
    /\ DOMAIN output = DOMAIN NoOutput /\ output.texts \in Seq(Text) /\ output.before \in 0..MaxTexts
    /\ call \in [at : {"none", "asked", "answered"}, before : 0..MaxTexts, upto : 0..MaxTexts]
    /\ output.loading = (call.at # "none")
    /\ again \subseteq Text /\ missed \subseteq Text
    /\ pieces \in 0..MaxPieces /\ turn \in {"runs", "over", "ended"} /\ early \in BOOLEAN
    /\ reasoning \in [loading : BOOLEAN, loaded : BOOLEAN, loadingBody : BOOLEAN, bodyLoaded : BOOLEAN,
                      pieces : 0..MaxPieces, bodies : BOOLEAN]
    /\ {meta, body} \subseteq [at : {"none", "asked", "answered"}, pieces : 0..MaxPieces]
    /\ reasoning.loading = (meta.at # "none") /\ reasoning.loadingBody = (body.at # "none")
    /\ leaves \in 0..MaxLeaves /\ reloads \in 0..MaxReloads

Init ==
    /\ stored = 0 /\ frames = <<>> /\ selected = TRUE
    /\ output = NoOutput /\ call = NoCall /\ again = {} /\ missed = {}
    /\ pieces = 0 /\ turn = "runs" /\ early = FALSE
    /\ reasoning = NoReasoning /\ meta = NoAnswer /\ body = NoAnswer
    /\ leaves = 0 /\ reloads = 0

Shown == {output.texts[i] : i \in 1..Len(output.texts)}

-----------------------------------------------------------------------------
(* The stream.                                                             *)

\* Text goes only to the clients that have the session selected.
Write ==
    LET i == stored + 1 IN
    /\ turn = "runs" /\ i <= MaxTexts /\ stored' = i
    /\ frames' = IF selected THEN Append(frames, i) ELSE frames
    /\ missed' = IF selected THEN missed ELSE missed \cup {i}
    /\ UNCHANGED <<selected, output, call, again, leaves, reasoningVars, reloads>>

\* appendToolOutput: whatever comes is added, and the output counts as loaded.
Appended(o, i) == [o EXCEPT !.texts = Append(@, i), !.loaded = TRUE]

Receive ==
    /\ frames # <<>> /\ frames' = Tail(frames)
    /\ LET i == Head(frames) IN
       /\ output' = IF selected THEN Appended(output, i) ELSE output
       /\ again' = IF selected /\ (\E j \in Shown : j >= i) THEN again \cup {i} ELSE again
       /\ missed' = IF selected THEN (missed \ {i}) \cup (IF output.loaded THEN {} ELSE 1..(i - 1))
                    ELSE missed \cup ({i} \ Shown)
    /\ UNCHANGED <<stored, selected, call, leaves, reasoningVars, reloads>>

Leave ==
    /\ selected /\ leaves < MaxLeaves /\ selected' = FALSE /\ leaves' = leaves + 1
    /\ UNCHANGED <<stored, frames, output, call, again, missed, reasoningVars, reloads>>

\* The backfill begins at the newest event that is in the chat, and the output of
\* a command is not: everything since then comes again.
Return ==
    /\ ~selected /\ frames = <<>> /\ selected' = TRUE
    /\ \E from \in 1..(stored + 1) : frames' = [k \in 1..(stored + 1 - from) |-> from + k - 1]
    /\ UNCHANGED <<stored, output, call, again, missed, leaves, reasoningVars, reloads>>

\* resetSessionStoreState: a call that is on its way fills an entry that is gone.
Reload ==
    /\ selected /\ reloads < MaxReloads /\ reloads' = reloads + 1
    /\ output' = NoOutput /\ call' = NoCall /\ reasoning' = NoReasoning /\ meta' = NoAnswer /\ body' = NoAnswer
    /\ again' = {} /\ missed' = {} /\ early' = FALSE
    /\ UNCHANGED <<stored, frames, selected, leaves, pieces, turn>>

-----------------------------------------------------------------------------
(* The output of the command.                                              *)

\* ensureToolOutputLoaded, when the user opens the command.
Open ==
    /\ selected /\ ~output.loading /\ ~output.loaded
    /\ output' = [output EXCEPT !.loading = TRUE] /\ call' = [NoCall EXCEPT !.at = "asked"]
    /\ UNCHANGED <<stored, frames, selected, again, missed, leaves, reasoningVars, reloads>>

\* loadMoreToolOutputBefore.
OpenOlder ==
    /\ selected /\ ~output.loading /\ output.more /\ output.before > 0
    /\ output' = [output EXCEPT !.loading = TRUE]
    /\ call' = [at |-> "asked", before |-> output.before, upto |-> 0]
    /\ UNCHANGED <<stored, frames, selected, again, missed, leaves, reasoningVars, reloads>>

Answer ==
    /\ call.at = "asked"
    /\ call' = [call EXCEPT !.at = "answered", !.upto = IF call.before = 0 THEN stored ELSE call.before - 1]
    /\ UNCHANGED <<stored, frames, selected, output, again, missed, leaves, reasoningVars, reloads>>

\* listItemOutputEvents.
From(upto) == IF upto > OutputPage THEN upto - OutputPage + 1 ELSE 1
PageOf(upto) == [k \in 1..(upto + 1 - From(upto)) |-> From(upto) + k - 1]

\* Wrong: the next call begins where this one has begun.
FilledAgain(o, c) ==
    [o EXCEPT !.texts = IF c.before = 0 THEN PageOf(c.upto) ELSE PageOf(c.upto) \o @, !.loaded = TRUE,
              !.loading = FALSE, !.more = From(c.upto) > 1, !.before = c.upto]

\* The newest page takes the place of what is there, an older one is put before it.
Filled(o, c) ==
    [o EXCEPT !.texts = IF c.before = 0 THEN PageOf(c.upto) ELSE PageOf(c.upto) \o @, !.loaded = TRUE,
              !.loading = FALSE, !.more = From(c.upto) > 1, !.before = IF c.upto = 0 THEN 0 ELSE From(c.upto)]

Apply ==
    /\ call.at = "answered" /\ call' = NoCall /\ output' = Filled(output, call)
    /\ IF call.before = 0
       THEN /\ missed' = {i \in missed \cup Shown : i > call.upto}
            /\ again' = again \cap {i \in Text : i > call.upto}
       ELSE UNCHANGED <<missed, again>>
    /\ UNCHANGED <<stored, frames, selected, leaves, reasoningVars, reloads>>

Fail ==
    /\ call.at = "asked" /\ call' = NoCall /\ output' = [output EXCEPT !.loading = FALSE]
    /\ UNCHANGED <<stored, frames, selected, again, missed, leaves, reasoningVars, reloads>>

-----------------------------------------------------------------------------
(* The reasoning of the turn.                                              *)

Think ==
    /\ turn = "runs" /\ pieces < MaxPieces /\ pieces' = pieces + 1
    /\ UNCHANGED <<outputVars, turn, early, reasoning, meta, body, reloads>>

\* turn.completed is stored; and reaches the page.
Complete ==
    /\ \/ turn = "runs" /\ turn' = "over"
       \/ turn = "over" /\ turn' = "ended"
    /\ UNCHANGED <<outputVars, pieces, early, reasoning, meta, body, reloads>>

\* A page that has not loaded the start of the turn, or has taken an old event of
\* a backfill for news, lets the user open a turn that goes on.
Mistaken == turn # "ended"

\* ensureTurnReasoningLoaded.
AskTitles ==
    /\ selected /\ ~reasoning.loading /\ ~reasoning.loaded
    /\ reasoning' = [reasoning EXCEPT !.loading = TRUE] /\ meta' = [at |-> "asked", pieces |-> 0]
    /\ early' = (early \/ Mistaken)
    /\ UNCHANGED <<outputVars, pieces, turn, body, reloads>>

\* ensureTurnReasoningBodyLoaded, when the user opens one of the titles.
AskBodies ==
    /\ selected /\ reasoning.pieces > 0 /\ ~reasoning.loadingBody /\ ~reasoning.bodyLoaded
    /\ reasoning' = [reasoning EXCEPT !.loadingBody = TRUE] /\ body' = [at |-> "asked", pieces |-> 0]
    /\ UNCHANGED <<outputVars, pieces, turn, early, meta, reloads>>

\* getTurnReasoningSections: to the end of the turn, or to the newest event.
AnswerReasoning ==
    \/ /\ meta.at = "asked" /\ meta' = [at |-> "answered", pieces |-> pieces]
       /\ UNCHANGED <<outputVars, pieces, turn, early, reasoning, body, reloads>>
    \/ /\ body.at = "asked" /\ body' = [at |-> "answered", pieces |-> pieces]
       /\ UNCHANGED <<outputVars, pieces, turn, early, reasoning, meta, reloads>>

Titles(r, n) == [r EXCEPT !.loading = FALSE, !.loaded = TRUE, !.pieces = n, !.bodies = FALSE, !.bodyLoaded = FALSE]
Bodies(r, n) == [r EXCEPT !.loadingBody = FALSE, !.loaded = TRUE, !.pieces = n, !.bodies = TRUE, !.bodyLoaded = TRUE]

ApplyReasoning ==
    \/ /\ meta.at = "answered" /\ meta' = NoAnswer /\ reasoning' = Titles(reasoning, meta.pieces)
       /\ UNCHANGED <<outputVars, pieces, turn, early, body, reloads>>
    \/ /\ body.at = "answered" /\ body' = NoAnswer /\ reasoning' = Bodies(reasoning, body.pieces)
       /\ UNCHANGED <<outputVars, pieces, turn, early, meta, reloads>>

\* Wrong: a call that fails counts as an answer.
TitlesFailLoaded(r) == [r EXCEPT !.loading = FALSE, !.loaded = TRUE]
TitlesFail(r) == [r EXCEPT !.loading = FALSE]

FailReasoning ==
    \/ /\ meta.at = "asked" /\ meta' = NoAnswer /\ reasoning' = TitlesFail(reasoning)
       /\ UNCHANGED <<outputVars, pieces, turn, early, body, reloads>>
    \/ /\ body.at = "asked" /\ body' = NoAnswer /\ reasoning' = [reasoning EXCEPT !.loadingBody = FALSE]
       /\ UNCHANGED <<outputVars, pieces, turn, early, meta, reloads>>

Next ==
    \/ Write \/ Receive \/ Leave \/ Return \/ Reload
    \/ Open \/ OpenOlder \/ Answer \/ Apply \/ Fail
    \/ Think \/ Complete \/ AskTitles \/ AskBodies
    \/ AnswerReasoning \/ ApplyReasoning \/ FailReasoning

Spec == Init /\ [][Next]_vars

-----------------------------------------------------------------------------
(* Properties.                                                             *)

\* The output of a command is in its order and no text of it is there twice, as long
\* as the stream has brought none that an answer or an earlier frame had brought; and
\* from the oldest text that is loaded none is left out, but for those the page was
\* not sent or has wiped out.
OutputAgrees ==
    LET o == output.texts IN
    /\ again = {} => \A i, j \in 1..Len(o) : i < j => o[i] < o[j]
    /\ output.loaded /\ ~output.loading /\ frames = <<>> =>
         \A i \in (IF output.more THEN output.before ELSE 1)..stored : i \in Shown \cup missed

\* The reasoning of a turn that was opened when it was over is whole, whichever of
\* the two calls has brought it and in whatever order their answers come.
ReasoningAgrees == reasoning.loaded /\ ~early => reasoning.pieces = pieces
=============================================================================
