--------------------------- MODULE SessionOptions ---------------------------
(***************************************************************************)
(* The options of the selected session, as the composer chooses them.      *)
(*                                                                         *)
(* An option that is chosen is put to the host at once, one call per       *)
(* choice.  The calls reach the host, and their answers the page, in any   *)
(* order, and the host tells every page of each change on the stream.      *)
(***************************************************************************)
EXTENDS Naturals, Sequences, FiniteSets

CONSTANTS
    Model, Effort,  \* what may be chosen for the two options that are followed
    None,
    MaxChoices      \* bound: options that are chosen

VARIABLES
    put,            \* the session's options on the host, and their changes so far
    updates,        \* session.upsert frames on the stream
    row,            \* the session's options on the page
    defaults,       \* the options of the next session
    puts,           \* PUT .../options calls of the page
    selected,       \* the session is selected
    wanted,         \* history: what was chosen last
    lost,           \* history: options whose last choice did not come first
    newest,         \* history: the newest row the page has seen
    choices

vars == <<put, updates, row, defaults, puts, selected, wanted, lost, newest, choices>>

Field == {"model", "effort"}
Value(f) == {None} \cup (IF f = "model" THEN Model ELSE Effort)
Options == [model : Value("model"), effort : Value("effort")]
Row == [n : 0..MaxChoices, options : Options]
NoOptions == [model |-> None, effort |-> None]

TypeOK ==
    /\ put \in Row /\ row \in Row /\ defaults \in Options /\ selected \in BOOLEAN
    /\ \A i \in 1..Len(updates) : updates[i] \in Row
    /\ \A p \in puts : p.field \in Field /\ p.at \in {"asked", "answered"} /\ p.row \in Row
    /\ wanted \in Options /\ lost \subseteq Field /\ newest \in 0..MaxChoices
    /\ choices \in 0..MaxChoices

Init ==
    /\ put = [n |-> 0, options |-> NoOptions] /\ row = put /\ updates = <<>> /\ defaults = NoOptions
    /\ puts = {} /\ selected = FALSE /\ wanted = NoOptions /\ lost = {} /\ newest = 0 /\ choices = 0

-----------------------------------------------------------------------------
(* The options: composerModel and its likes, patchSelectedSessionOptions.  *)

\* composerModelValue and its likes.
Current == IF selected THEN row.options ELSE defaults

Same(p, q) == p.field = q.field /\ p.id # q.id

\* An option is chosen on the menu.  What the row already says is not put again,
\* be another choice underway or not.
Choose(f, v) ==
    /\ choices < MaxChoices /\ choices' = choices + 1
    /\ v \in Value(f)
    /\ wanted' = IF selected THEN [wanted EXCEPT ![f] = v] ELSE wanted
    /\ \/ /\ v = Current[f] /\ UNCHANGED <<defaults, puts>>
          /\ lost' = IF selected /\ (v # put.options[f] \/ \E p \in puts : p.field = f) THEN lost \cup {f} ELSE lost
       \/ /\ v # Current[f] /\ defaults' = [defaults EXCEPT ![f] = v]
          /\ puts' = IF ~selected THEN puts
                     ELSE puts \cup {[id |-> choices + 1, field |-> f, value |-> v, at |-> "asked",
                                      whole |-> [row.options EXCEPT ![f] = v], row |-> put]}
          /\ lost' = lost
    /\ UNCHANGED <<put, updates, row, newest, selected>>

\* Wrong: all options are put, as the page knew them.
PatchedWhole(p) == p.whole

\* updateSession: the options that are not in the call stay.
Patched(p) == [put.options EXCEPT ![p.field] = p.value]

\* PUT /api/sessions/:id/options: the row changes, every page is told, and the
\* answer is the row.
Put(p) ==
    /\ p \in puts /\ p.at = "asked"
    /\ put' = [n |-> put.n + 1, options |-> Patched(p)]
    /\ updates' = Append(updates, put')
    /\ puts' = (puts \ {p}) \cup {[p EXCEPT !.at = "answered", !.row = put']}
    /\ lost' = IF \E q \in puts : Same(p, q) /\ q.id < p.id /\ q.at = "asked" THEN lost \cup {p.field} ELSE lost
    /\ UNCHANGED <<row, defaults, wanted, newest, selected, choices>>

\* The answer is lost, before or after the host has changed the row.
PutFails(p) ==
    /\ p \in puts /\ puts' = puts \ {p}
    /\ lost' = IF p.at = "asked" THEN lost \cup {p.field} ELSE lost
    /\ UNCHANGED <<put, updates, row, defaults, wanted, newest, selected, choices>>

Larger(a, b) == IF a > b THEN a ELSE b

\* upsertSessionRow: the answer replaces the row, be it older or not.
PutAnswered(p) ==
    /\ p \in puts /\ p.at = "answered" /\ puts' = puts \ {p}
    /\ row' = p.row /\ newest' = Larger(newest, p.row.n)
    /\ UNCHANGED <<put, updates, defaults, wanted, lost, selected, choices>>

\* session.upsert on the stream.
Upsert ==
    /\ updates # <<>> /\ updates' = Tail(updates)
    /\ row' = Head(updates) /\ newest' = Larger(newest, Head(updates).n)
    /\ UNCHANGED <<put, defaults, puts, wanted, lost, selected, choices>>

\* Another page chooses.
Elsewhere(f, v) ==
    /\ choices < MaxChoices /\ choices' = choices + 1
    /\ v \in Value(f) /\ v # put.options[f]
    /\ put' = [n |-> put.n + 1, options |-> [put.options EXCEPT ![f] = v]]
    /\ updates' = Append(updates, put') /\ lost' = lost \cup {f}
    /\ UNCHANGED <<row, defaults, puts, wanted, newest, selected>>

\* The page shows the session, or a new thread.
Select ==
    /\ selected' = ~selected
    /\ UNCHANGED <<put, updates, row, defaults, puts, wanted, lost, newest, choices>>

-----------------------------------------------------------------------------
Next ==
    \/ Select \/ Upsert
    \/ \E f \in Field : \E v \in Value(f) : Choose(f, v) \/ Elsewhere(f, v)
    \/ \E p \in puts : Put(p) \/ PutFails(p) \/ PutAnswered(p)

Spec == Init /\ [][Next]_vars

-----------------------------------------------------------------------------
\* Once the calls are answered and the stream is read, each option of the session
\* is what was chosen last on this page, unless the choice was dropped, failed or
\* overtaken, or another page chose too; and the row is the host's unless an older
\* answer has taken its place (patchSelectedSessionOptions, upsertSessionRow).
OptionsAgree ==
    puts = {} /\ updates = <<>> =>
        /\ \A f \in Field \ lost : put.options[f] = wanted[f]
        /\ row.n = newest => row = put
=============================================================================
