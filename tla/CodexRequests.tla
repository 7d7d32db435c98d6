--------------------------- MODULE CodexRequests ----------------------------
(***************************************************************************)
(* How a session finds requests that the installed Codex build accepts.    *)
(*                                                                         *)
(* The names of parameters and the spellings of their values differ from   *)
(* build to build.  thread/resume, thread/start and turn/start are tried   *)
(* in one form after the other: the forms are built from the options that  *)
(* the user has set.  A build accepts a form when it accepts each of the   *)
(* parameters in it.                                                       *)
(*                                                                         *)
(* A parameter of a form is the number of its spelling, or Omitted.  The   *)
(* loops that build the forms are nested in the order of Parameters, and   *)
(* Omitted comes last in each.                                             *)
(***************************************************************************)
EXTENDS Naturals

CONSTANTS
    Spellings       \* bound: spellings of one parameter

Omitted == 0
Parameters == <<"approval", "sandbox", "key", "tier", "effort">>
Parameter == {Parameters[i] : i \in 1..5}
Form == [Parameter -> 0..Spellings]

VARIABLES
    stage,      \* the method that is tried
    set,        \* options that the user has set
    known,      \* the thread to resume, if there is one
    accepted,   \* the spelling that this build of Codex accepts, or Omitted
    turnsFail,  \* it refuses turns for a reason of its own
    left,       \* forms of this method that were not tried
    sent,       \* the last form sent
    threadForm, \* the form in which the thread was opened
    warnings    \* session.error: a retry with another form, or the failure

vars == <<stage, set, known, accepted, turnsFail, left, sent, threadForm, warnings>>

NoForm == [p \in Parameter |-> Omitted]

TypeOK ==
    /\ stage \in {"idle", "thread/resume", "thread/start", "turn/start", "begun", "failed"}
    /\ set \subseteq Parameter /\ known \in BOOLEAN
    /\ accepted \in [Parameter -> 0..Spellings] /\ turnsFail \in BOOLEAN
    /\ left \subseteq Form /\ sent \in Form /\ threadForm \in Form
    /\ warnings \in SUBSET {"retry", "failure"}

Init ==
    /\ stage = "idle" /\ set = {} /\ known = FALSE
    /\ accepted = [p \in Parameter |-> Omitted] /\ turnsFail = FALSE
    /\ left = {} /\ sent = NoForm /\ threadForm = NoForm /\ warnings = {}

\* *Candidates: the spellings of an option, if it is given.
Named(p, given) == IF p \in given THEN 1..Spellings ELSE {Omitted}

\* Wrong: requests without the policies are among the forms of a thread.
FormsOpen(method, given) ==
    {f \in Form :
        /\ \A p \in Parameter \ {"key"} : f[p] \in Named(p, given) \cup {Omitted}
        /\ f["key"] \in IF method = "thread/resume" THEN 1..2 ELSE {Omitted}}

\* buildResumeThreadAttempts, buildStartThreadAttempts, buildStartTurnAttempts:
\* the last forms of a turn have neither policy.
Forms(method, given) ==
    {f \in Form :
        /\ \/ f["approval"] \in Named("approval", given) /\ f["sandbox"] \in Named("sandbox", given)
           \/ method = "turn/start" /\ f["approval"] = Omitted /\ f["sandbox"] = Omitted
        /\ f["key"] \in IF method = "thread/resume" THEN 1..2 ELSE {Omitted}
        /\ f["tier"] \in Named("tier", given) \cup {Omitted}
        /\ f["effort"] \in Named("effort", given) \cup {Omitted}}

\* Wrong: forms without a parameter come before those with it.
BeforeOmitting(f, g) ==
    \E i \in 1..5 :
        /\ \A j \in 1..(i - 1) : f[Parameters[j]] = g[Parameters[j]]
        /\ f[Parameters[i]] < g[Parameters[i]]

\* Form f is built before form g.
Before(f, g) ==
    \E i \in 1..5 :
        /\ \A j \in 1..(i - 1) : f[Parameters[j]] = g[Parameters[j]]
        /\ f[Parameters[i]] # g[Parameters[i]] /\ f[Parameters[i]] # Omitted
        /\ g[Parameters[i]] = Omitted \/ f[Parameters[i]] < g[Parameters[i]]

Accepts(method, f) ==
    /\ \A p \in Parameter : f[p] \in {Omitted, accepted[p]}
    /\ method = "turn/start" => ~turnsFail

-----------------------------------------------------------------------------
(* start, then #startTurn.                                                 *)

Goto(method) == stage' = method /\ left' = Forms(method, set')

Start ==
    /\ stage = "idle"
    /\ \E given \in SUBSET (Parameter \ {"key"}) : set' = given
    /\ known' \in BOOLEAN /\ turnsFail' \in BOOLEAN
    /\ \E values \in [Parameter -> 0..Spellings] :
         /\ \A p \in Parameter \ {"key"} : p \notin set' => values[p] = Omitted
         /\ known' \/ values["key"] = Omitted
         /\ accepted' = values
    /\ Goto(IF known' THEN "thread/resume" ELSE "thread/start")
    /\ UNCHANGED <<sent, threadForm, warnings>>

Accepted(method, f) ==
    /\ UNCHANGED warnings
    /\ IF method = "turn/start" THEN stage' = "begun" /\ left' = {} /\ UNCHANGED threadForm
       ELSE Goto("turn/start") /\ threadForm' = f

\* Wrong: a thread that cannot be resumed is not started anew.
RefusedForGood(method, f) ==
    /\ UNCHANGED threadForm
    /\ IF left # {f} THEN left' = left \ {f} /\ UNCHANGED <<stage, warnings>>
       ELSE /\ stage' = "failed" /\ left' = {}
            /\ warnings' = warnings \cup IF method = "turn/start" THEN {"failure"} ELSE {}

\* A form that is refused may warn, once, that another follows.
Refused(method, f) ==
    /\ UNCHANGED threadForm
    /\ IF left # {f}
       THEN /\ left' = left \ {f} /\ UNCHANGED stage
            /\ warnings' \in {warnings} \cup
                 IF method = "turn/start" THEN {warnings \cup {"retry"}} ELSE {}
       ELSE IF method = "thread/resume" THEN Goto("thread/start") /\ UNCHANGED warnings
       ELSE /\ stage' = "failed" /\ left' = {}
            /\ warnings' = warnings \cup IF method = "turn/start" THEN {"failure"} ELSE {}

\* The answer to the form that is next.
Try(method) ==
    /\ stage = method /\ UNCHANGED <<set, known, accepted, turnsFail>>
    /\ \E f \in left :
         /\ \A g \in left : f = g \/ Before(f, g)
         /\ sent' = f
         /\ IF Accepts(method, f) THEN Accepted(method, f) ELSE Refused(method, f)

Next ==
    \/ Start
    \/ Try("thread/resume") \/ Try("thread/start") \/ Try("turn/start")

Spec == Init /\ [][Next]_vars

-----------------------------------------------------------------------------
(* Properties.                                                             *)

Has(f, p) == p \in set => f[p] # Omitted
Acceptable(p) == p \in set => accepted[p] # Omitted

\* No option that the user has set is left out of a turn that a form with all
\* of them would have started; no thread is opened without the two policies; and
\* a turn goes without one of them only where this build accepts no spelling of
\* one of the two.
OptionsKept ==
    /\ threadForm # NoForm => Has(threadForm, "approval") /\ Has(threadForm, "sandbox")
    /\ stage = "begun" =>
         /\ \A p \in {"tier", "effort"} : Acceptable(p) => Has(sent, p)
         /\ Acceptable("approval") /\ Acceptable("sandbox") =>
              Has(sent, "approval") /\ Has(sent, "sandbox")

\* A session fails to open only if this build accepts no spelling of a policy;
\* a turn that fails has said so.
FailsForCause ==
    stage = "failed" =>
        \/ threadForm = NoForm /\ ~(Acceptable("approval") /\ Acceptable("sandbox"))
        \/ turnsFail /\ "failure" \in warnings
=============================================================================
