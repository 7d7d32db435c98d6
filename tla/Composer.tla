-------------------------------- MODULE Composer --------------------------------
(***************************************************************************)
(* The composer of a page: one draft for each session and one for a new     *)
(* session, and the calls that send or queue what it holds.                *)
(*                                                                         *)
(* A call keeps the text it was made with, and the draft is read again only *)
(* when the call has ended.  An attachment is uploaded first, and its id is *)
(* kept in the draft, so that it is not uploaded again.  Of the host there  *)
(* are the messages routes, and the rows of the uploads (Uploads).         *)
(***************************************************************************)
EXTENDS Naturals, FiniteSets

CONSTANTS
    MaxTexts,       \* bound: texts typed and attachments added
    MaxSubmits,     \* bound: calls
    MaxTurns,       \* bound: turns that start or end
    Local,          \* an attachment that has no upload
    None

Text == 1..MaxTexts
Call == 1..MaxSubmits
Key == {"new", "open", "made"}      \* made: the session that was created last

VARIABLES
    selected,   \* selectedSessionId
    drafts,     \* text and attachment of each composer
    edits,      \* texts typed and attachments added so far
    typed,      \* the texts; a text has the number of its edit
    running,    \* sessions with a running turn
    turns,      \* bounded turns so far
    calls,      \* kind, draft, text and attachment of a call, and how far it is
    rows,       \* uploads that the host has; an upload has the name of its call
    accepted,   \* calls whose message the runner took, or that were queued
    canceled,   \* history: calls that ended in a cancel of the turn
    replaced,   \* history: texts the user typed over, or a restored prompt did
    late        \* history: texts typed or restored while a call for the draft was underway

vars == <<selected, drafts, edits, typed, running, turns, calls, rows, accepted, canceled,
          replaced, late>>

Empty == [text |-> 0, att |-> None]
NoCall == [kind |-> "none", key |-> "new", text |-> 0, att |-> None, at |-> "none"]

TypeOK ==
    /\ selected \in Key /\ edits \in 0..MaxTexts /\ typed \subseteq Text /\ turns \in 0..MaxTurns
    /\ drafts \in [Key -> [text : 0..MaxTexts, att : Call \cup {Local, None}]]
    /\ running \subseteq {"open", "made"}
    /\ calls \in [Call -> [kind : {"none", "send", "create", "queue"}, key : Key,
                           text : 0..MaxTexts, att : Call \cup {Local, None},
                           at : {"none", "create", "upload", "post", "runner", "ok", "failed", "done",
                                 "gone"}]]
    /\ rows \subseteq Call /\ accepted \subseteq Call /\ canceled \subseteq Call
    /\ replaced \subseteq Text /\ late \subseteq 0..MaxTexts

Init ==
    /\ selected = "open" /\ drafts = [k \in Key |-> Empty] /\ edits = 0 /\ typed = {}
    /\ running = {} /\ turns = 0 /\ calls = [c \in Call |-> NoCall]
    /\ rows = {} /\ accepted = {} /\ canceled = {} /\ replaced = {} /\ late = {}

-----------------------------------------------------------------------------
(* The user.                                                               *)

Underway(kinds) == {c \in Call : calls[c].kind \in kinds /\ calls[c].at \notin {"done", "gone"}}
Sending == Underway({"send", "create"}) # {}
For(k) == {c \in Underway({"send", "create", "queue"}) : calls[c].key = k}

Type ==
    /\ edits < MaxTexts /\ edits' = edits + 1 /\ typed' = typed \cup {edits + 1}
    /\ drafts' = [drafts EXCEPT ![selected].text = edits + 1]
    /\ replaced' = replaced \cup ({drafts[selected].text} \ {0})
    /\ late' = IF For(selected) = {} THEN late ELSE late \cup {edits + 1}
    /\ UNCHANGED <<selected, running, turns, calls, rows, accepted, canceled>>

\* addFiles; removeAttachment.
Attach ==
    /\ drafts[selected].att = None /\ drafts' = [drafts EXCEPT ![selected].att = Local]
    /\ edits < MaxTexts /\ edits' = edits + 1
    /\ UNCHANGED <<selected, typed, running, turns, calls, rows, accepted, canceled, replaced, late>>
Detach ==
    /\ drafts[selected].att # None /\ drafts' = [drafts EXCEPT ![selected].att = None]
    /\ UNCHANGED <<selected, edits, typed, running, turns, calls, rows, accepted, canceled, replaced, late>>

Select(k) ==
    /\ selected # k /\ selected' = k
    /\ UNCHANGED <<drafts, edits, typed, running, turns, calls, rows, accepted, canceled, replaced, late>>

Turn(k) ==
    /\ turns < MaxTurns /\ turns' = turns + 1
    /\ running' = IF k \in running THEN running \ {k} ELSE running \cup {k}
    /\ UNCHANGED <<selected, drafts, edits, typed, calls, rows, accepted, canceled, replaced, late>>

Made(c, kind, at) ==
    /\ calls[c].kind = "none" /\ \A d \in 1..(c - 1) : calls[d].kind # "none"
    /\ drafts[selected] # Empty
    /\ calls' = [calls EXCEPT ![c] = [kind |-> kind, key |-> selected, text |-> drafts[selected].text,
                                      att |-> drafts[selected].att, at |-> at]]
    /\ UNCHANGED <<selected, drafts, edits, typed, running, turns, rows, accepted, canceled, replaced, late>>

Posts == IF drafts[selected].att = None THEN "post" ELSE "upload"

\* submit with a running turn: queueCurrentDraftForSession, which may be called
\* again before it has ended.
Queue(c) == selected \in running /\ Made(c, "queue", Posts)

\* Wrong: submit does not look whether it is sending.
SendTwice(c) == selected # "new" /\ selected \notin running /\ Made(c, "send", Posts)

\* submit for a session; for a new session, which is created first.
Send(c) == selected # "new" /\ selected \notin running /\ ~Sending /\ Made(c, "send", Posts)
Create(c) == selected = "new" /\ ~Sending /\ Made(c, "create", "create")

-----------------------------------------------------------------------------
(* The calls.                                                              *)

Goes(c, at) == calls' = [calls EXCEPT ![c].at = at]

\* POST /api/sessions/draft.
Created(c) ==
    /\ calls[c].at = "create"
    /\ \/ /\ Goes(c, IF calls[c].att = None THEN "post" ELSE "upload")
          /\ drafts' = [drafts EXCEPT !["made"] = Empty]
          /\ replaced' = replaced \cup ({drafts["made"].text} \ {0})
       \/ Goes(c, "failed") /\ UNCHANGED <<drafts, replaced>>
    /\ UNCHANGED <<selected, edits, typed, running, turns, rows, accepted, canceled, late>>

\* uploadComposerAttachments: what was uploaded for this session is not uploaded again.
Uploaded(c) ==
    LET q == calls[c] IN
    /\ q.at = "upload"
    /\ IF q.att \in Call /\ q.kind # "create"
       THEN Goes(c, "post") /\ UNCHANGED <<drafts, rows>>
       ELSE \/ Goes(c, "failed") /\ UNCHANGED <<drafts, rows>>
            \/ /\ rows' = rows \cup {c}
               /\ calls' = [calls EXCEPT ![c].at = "post", ![c].att = c]
               /\ drafts' = IF drafts[q.key].att = q.att THEN [drafts EXCEPT ![q.key].att = c] ELSE drafts
    /\ UNCHANGED <<selected, edits, typed, running, turns, accepted, canceled, replaced, late>>

\* POST .../messages and .../queued-prompts: resolveAttachmentInputs.
Posted(c) ==
    LET q == calls[c] IN
    /\ q.at = "post"
    /\ IF q.att \in Call /\ q.att \notin rows THEN Goes(c, "failed") /\ UNCHANGED accepted
       ELSE IF q.kind = "queue"
       THEN \/ Goes(c, "ok") /\ accepted' = accepted \cup {c}
            \/ Goes(c, "failed") /\ UNCHANGED accepted
       ELSE Goes(c, "runner") /\ UNCHANGED accepted
    /\ UNCHANGED <<selected, drafts, edits, typed, running, turns, rows, canceled, replaced, late>>

\* The runner takes the message.
Taken(c) ==
    /\ calls[c].at = "runner" /\ Goes(c, "ok") /\ accepted' = accepted \cup {c}
    /\ UNCHANGED <<selected, drafts, edits, typed, running, turns, rows, canceled, replaced, late>>

\* It does not, or its answer is late: the uploads of the message are removed.
NotSent(c) ==
    /\ calls[c].at = "runner" /\ Goes(c, "failed") /\ rows' = rows \ {calls[c].att}
    /\ accepted' \in {accepted, accepted \cup {c}}
    /\ UNCHANGED <<selected, drafts, edits, typed, running, turns, canceled, replaced, late>>

\* Wrong: the draft is cleared before the answer is known.
EndedClearing(c) ==
    LET q == calls[c] IN
    /\ q.at \in {"ok", "failed"} /\ Goes(c, IF q.at = "ok" THEN "done" ELSE "gone")
    /\ drafts' = [drafts EXCEPT ![q.key] = Empty]
    /\ selected' = IF q.at = "ok" /\ q.kind = "create" THEN "made" ELSE selected
    /\ canceled' = IF q.at = "failed" /\ q.kind = "queue" THEN canceled \cup {c} ELSE canceled
    /\ running' = IF q.at = "failed" /\ q.kind = "queue" THEN running \ {selected} ELSE running
    /\ UNCHANGED <<edits, typed, turns, rows, accepted, replaced, late>>

\* The call ends: the draft it was made from is cleared, whatever it holds by now.  A
\* draft that could not be queued leads on to stopGenerating for the selected session.
Ended(c) ==
    LET q == calls[c] IN
    /\ q.at \in {"ok", "failed"} /\ Goes(c, IF q.at = "ok" THEN "done" ELSE "gone")
    /\ drafts' = IF q.at = "ok" THEN [drafts EXCEPT ![q.key] = Empty] ELSE drafts
    /\ selected' = IF q.at = "ok" /\ q.kind = "create" THEN "made" ELSE selected
    /\ canceled' = IF q.at = "failed" /\ q.kind = "queue" THEN canceled \cup {c} ELSE canceled
    /\ running' = IF q.at = "failed" /\ q.kind = "queue" THEN running \ {selected} ELSE running
    /\ UNCHANGED <<edits, typed, turns, rows, accepted, replaced, late>>

\* applyRestoredQueuedPromptToComposer: a queued prompt could not be sent.
Restored(c) ==
    LET q == calls[c] IN
    /\ q.kind = "queue" /\ q.at = "done" /\ c \in accepted
    /\ accepted' = accepted \ {c} /\ drafts' = [drafts EXCEPT ![q.key] = [text |-> q.text, att |-> q.att]]
    /\ replaced' = replaced \cup ({drafts[q.key].text} \ {0})
    /\ late' = IF For(q.key) = {} THEN late ELSE late \cup {q.text}
    /\ UNCHANGED <<selected, edits, typed, running, turns, calls, rows, canceled>>

Next ==
    \/ Type \/ Attach \/ Detach
    \/ \E k \in Key : Select(k)
    \/ \E k \in {"open", "made"} : Turn(k)
    \/ \E c \in Call :
         \/ Queue(c) \/ Send(c) \/ Create(c) \/ Created(c) \/ Uploaded(c) \/ Posted(c)
         \/ Taken(c) \/ NotSent(c) \/ Ended(c) \/ Restored(c)

Spec == Init /\ [][Next]_vars

-----------------------------------------------------------------------------
(* Properties.                                                             *)

\* What was typed is not lost: it is in a draft or was accepted, until the user, or
\* a prompt that is restored, puts something else in its place; but for what is
\* put into a draft while a call for it is underway.
DraftKept ==
    \A t \in typed :
        \/ t \in replaced \cup late
        \/ \E k \in Key : drafts[k].text = t
        \/ \E c \in accepted : calls[c].text = t

\* A prompt that was queued came back to its draft.
CameBack(t) == \E q \in Call : calls[q].kind = "queue" /\ calls[q].text = t /\ calls[q].at = "done" /\ q \notin accepted

\* A text is sent twice only after it was reported not to have been sent, or after
\* it was queued besides and came back.
SentOnce ==
    \A c, d \in accepted :
        c < d /\ calls[c].text = calls[d].text /\ calls[c].text # 0
        /\ {calls[c].kind, calls[d].kind} \subseteq {"send", "create"} =>
            calls[c].at \in {"failed", "gone"} \/ CameBack(calls[c].text)

\* An attachment whose id the page keeps can be sent again: when no call is
\* underway, the host has every upload that a draft names.
AttachmentsUsable ==
    Underway({"send", "create", "queue"}) = {} =>
        \A k \in {"open", "made"} : drafts[k].att \in Call => drafts[k].att \in rows

\* submit cancels the turn only when there is no draft.
CancelsWithoutDraft == canceled = {}
=============================================================================
