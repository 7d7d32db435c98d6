-------------------------- MODULE CodexTurnsProofs --------------------------
(***************************************************************************)
(* Proofs about the turns of a Codex session, for any number of turns,     *)
(* pieces of output and cancels, and for every build of Codex: session and *)
(* host agree on the active turn, a turn ends for a cause, its boundaries  *)
(* are reported once, and its output is whole and between them.            *)
(*                                                                         *)
(* What the host will have read is the log and then the buffer; what the   *)
(* session has yet to handle is the list of held lines and then the pipe.  *)
(* The invariant is about these two sequences: Sorted orders the second,   *)
(* Behind says that it goes on where the first ends, and Covered that      *)
(* nothing is in neither.                                                  *)
(***************************************************************************)
EXTENDS CodexTurns, SequenceTheorems, TLAPS

\* The bounds are numbers, and Codex is one of the builds.
Bounded ==
    /\ Builds \subseteq BuildKinds /\ MaxTurns \in Nat /\ MaxPieces \in Nat /\ MaxCancels \in Nat

Notice == [kind : {"started", "output", "completed"}, turn : Turn, piece : 0..MaxPieces,
           wrapped : BOOLEAN]
Reply == [kind : {"answer"}, request : Request]
Report == [kind : {"started", "output", "completed", "forced"}, turn : Turn,
           piece : 0..MaxPieces]

Emitted == log \o buffer
Pending == held \o pipe

Boundary == {"started", "completed", "forced"}

\* The forms that the build writes, and the lines that the session will not skip.
Writes(wrapped) ==
    IF wrapped THEN build # "direct" ELSE build \notin {"wrapped", "wrappedTwice"}
Heeds(wrapped) == Writes(wrapped) /\ (mode = "none" \/ wrapped = (mode = "wrapped"))
Counts(line) == line.kind # "answer" /\ Heeds(line.wrapped)

\* The order in which Codex reports a and b; of a turn, the end comes last.
Before(a, b) ==
    \/ a.turn < b.turn
    \/ /\ a.turn = b.turn
       /\ \/ b.kind = "completed"
          \/ a.kind = "started" /\ b.kind = "output"
          \/ a.kind = "output" /\ b.kind = "output" /\ a.piece < b.piece

\* What a report or a line tells has happened.
Happened(a) ==
    /\ a.turn <= turns
    /\ a.kind = "output" => a.piece \in 1..written[a.turn]
    /\ a.kind = "completed" => ~(busy /\ turns = a.turn)

Shaped ==
    /\ build \in Builds /\ turns \in 0..MaxTurns /\ busy \in BOOLEAN /\ (busy => turns # 0)
    /\ written \in [Turn -> 0..MaxPieces] /\ running \in BOOLEAN
    /\ \A t \in Turn : t > turns => written[t] = 0
    /\ mode \in {"none", "direct", "wrapped"}
    /\ held \in Seq(Notice) /\ pipe \in Seq(Line)
    /\ buffer \in Seq(Report) /\ log \in Seq(Entry)
    /\ active \in Turn \cup {None}
    /\ lastStarted \in Turn \cup {None} /\ lastCompleted \in Turn \cup {None}
    /\ requests \subseteq Request /\ timers \subseteq Turn
    /\ cancelled \subseteq Turn /\ unnamed \subseteq Turn /\ cut \in BOOLEAN
    /\ cancels \in 0..MaxCancels

\* Held lines are wrapped, and dropped or replayed once a form is chosen; only
\* output is buffered; without a form nothing is reported but the end.
Forms ==
    /\ \A i \in 1..Len(held) : held[i].wrapped
    /\ \A i \in 1..Len(buffer) : buffer[i].kind = "output"
    /\ mode = "direct" => held = <<>>
    /\ mode # "none" => Writes(mode = "wrapped")
    /\ mode = "none" => \A i \in 1..Len(Emitted) : Emitted[i].kind = "exited"
    /\ \A i \in 1..Len(Pending) : Pending[i].kind # "answer" => Writes(Pending[i].wrapped)

\* No line and no report is ahead of Codex.
Past ==
    /\ \A i \in 1..Len(Pending) : Pending[i].kind # "answer" => Happened(Pending[i])
    /\ \A i \in 1..Len(Emitted) : Emitted[i].kind # "exited" => Happened(Emitted[i])

\* Lines of one form are in the order of what happened.
Sorted ==
    \A j \in 1..Len(Pending) : \A i \in 1..(j - 1) :
        /\ Pending[i].kind # "answer" /\ Pending[j].kind # "answer"
        /\ Pending[i].wrapped = Pending[j].wrapped
        => Before(Pending[i], Pending[j])

\* The lines that count come after what was reported.
Behind ==
    \A i \in 1..Len(Emitted) : \A j \in 1..Len(Pending) :
        Emitted[i].kind \notin {"exited", "forced"} /\ Counts(Pending[j])
        => Before(Emitted[i], Pending[j])

Reported(kind, t, k) == \E i \in 1..Len(Emitted) : Emitted[i] = Event(kind, t, k)
Awaited(kind, t, k, wrapped) ==
    \E i \in 1..Len(Pending) :
        Pending[i] = [kind |-> kind, turn |-> t, piece |-> k, wrapped |-> wrapped]

\* Unless held lines were dropped, all starts and all output are reported, or
\* are awaited in each form that counts.
Covered ==
    ~cut => \A wrapped \in BOOLEAN : Heeds(wrapped) => \A t \in 1..turns :
        /\ Reported("started", t, 0) \/ Awaited("started", t, 0, wrapped)
        /\ \A k \in 1..written[t] : Reported("output", t, k) \/ Awaited("output", t, k, wrapped)

\* Each of a turn's boundaries is reported once, and the session remembers the
\* last ones.
Bounds ==
    /\ \A j \in 1..Len(Emitted) : \A i \in 1..(j - 1) :
          Emitted[j].kind \in Boundary =>
              ~(Emitted[i].kind = Emitted[j].kind /\ Emitted[i].turn = Emitted[j].turn)
    /\ \A i \in 1..Len(Emitted) :
          /\ Emitted[i].kind = "completed" => Emitted[i].turn <= lastCompleted
          /\ Emitted[i].kind = "forced" =>
               Emitted[i].turn # active /\ Reported("started", Emitted[i].turn, 0)
    /\ active # None => Reported("started", active, 0)
    /\ lastStarted # None => Reported("started", lastStarted, 0)
    /\ lastCompleted # None => Reported("completed", lastCompleted, 0)

\* Output is within its turn, and all that was written before it precedes it.
Orderly ==
    ~cut => \A j \in 1..Len(Emitted) : Emitted[j].kind = "output" =>
        LET t == Emitted[j].turn IN
        /\ \E i \in 1..(j - 1) : Emitted[i].kind = "started" /\ Emitted[i].turn = t
        /\ \A i \in 1..(j - 1) :
              ~(Emitted[i].kind = "completed" /\ Emitted[i].turn = t) /\ Emitted[i] # Emitted[j]
        /\ \A k \in 1..(Emitted[j].piece - 1) :
              \E i \in 1..(j - 1) : Emitted[i] = Event("output", t, k)

\* What a cancel may end was active when it was called.
Caused ==
    /\ timers \subseteq cancelled
    /\ \A r \in requests : r.turn \in cancelled \cup {None}
    /\ \A i \in 1..Len(Pending) :
          Pending[i].kind = "answer" => Pending[i].request.turn \in cancelled \cup {None}
    /\ \A i \in 1..Len(Emitted) :
          Emitted[i].kind = "forced" => Emitted[i].turn \in cancelled

\* TurnAgrees, of the reports that are still in the buffer as well.
Agrees ==
    (\A i \in 1..Len(Emitted) : Emitted[i].kind # "exited") =>
        \A t \in Turn : active = t <=>
            \E i \in 1..Len(Emitted) :
                /\ Emitted[i].kind = "started" /\ Emitted[i].turn = t
                /\ \A j \in (i + 1)..Len(Emitted) : Emitted[j].kind = "output"

TurnsInv ==
    /\ Shaped /\ Forms /\ Past /\ Sorted /\ Behind /\ Covered /\ Bounds /\ Orderly /\ Caused
    /\ Agrees

-----------------------------------------------------------------------------
(* Records and sequences.                                                  *)

LEMMA LineFacts ==
    /\ Line = Notice \cup Reply
    /\ \A l \in Line : l.kind = "answer" <=> l \in Reply
    /\ \A l \in Notice : /\ l.kind \in {"started", "output", "completed"} /\ l.turn \in Turn
                         /\ l.piece \in 0..MaxPieces /\ l.wrapped \in BOOLEAN
    /\ \A kind \in {"started", "output", "completed"}, t \in Turn, k \in 0..MaxPieces,
          w \in BOOLEAN : [kind |-> kind, turn |-> t, piece |-> k, wrapped |-> w] \in Notice
    /\ \A q \in Request : [kind |-> "answer", request |-> q] \in Reply
    /\ \A l \in Reply : l.kind = "answer" /\ l.request \in Request
BY DEF Line, Notice, Reply

LEMMA EntryFacts ==
    /\ Report \subseteq Entry /\ [kind |-> "exited"] \in Entry
    /\ \A e \in Entry : e.kind = "exited" \/ e \in Report
    /\ \A e \in Report : e.kind \in Boundary \cup {"output"} /\ e.turn \in Turn /\ e.piece \in 0..MaxPieces
    /\ \A e \in Report : e = Event(e.kind, e.turn, e.piece)
    /\ \A kind \in Boundary \cup {"output"}, t \in Turn, k \in 0..MaxPieces : Event(kind, t, k) \in Report
    /\ \A kind, t, k : /\ Event(kind, t, k).kind = kind /\ Event(kind, t, k).turn = t
                       /\ Event(kind, t, k).piece = k
BY DEF Report, Entry, Event, Boundary

LEMMA NumberFacts ==
    ASSUME Bounded
    PROVE  /\ MaxTurns \in Nat /\ MaxPieces \in Nat /\ Turn \subseteq Nat /\ None \notin Turn
           /\ None \in Nat /\ 0..MaxPieces \subseteq Nat /\ 0 \in 0..MaxPieces
BY DEF Bounded, Turn, None

LEMMA SequenceFacts ==
    ASSUME Shaped
    PROVE  /\ Emitted \in Seq(Entry) /\ Pending \in Seq(Line) /\ buffer \in Seq(Entry)
           /\ held \in Seq(Line)
           /\ Len(held) \in Nat /\ Len(pipe) \in Nat /\ Len(Pending) = Len(held) + Len(pipe)
           /\ \A i \in 1..Len(Pending) :
                 Pending[i] = IF i <= Len(held) THEN held[i] ELSE pipe[i - Len(held)]
           /\ Len(log) \in Nat /\ Len(buffer) \in Nat /\ Len(Emitted) = Len(log) + Len(buffer)
           /\ \A i \in 1..Len(Emitted) :
                 Emitted[i] = IF i <= Len(log) THEN log[i] ELSE buffer[i - Len(log)]
<1>1. log \in Seq(Entry) /\ buffer \in Seq(Entry)
    BY EntryFacts, SeqMonotonic DEF Shaped
<1>2. held \in Seq(Line) /\ pipe \in Seq(Line)
    BY LineFacts, SeqMonotonic DEF Shaped
<1>3. Emitted \in Seq(Entry) /\ Pending \in Seq(Line)
    BY <1>1, <1>2, ConcatProperties DEF Emitted, Pending
<1>4. Len(held) \in Nat /\ Len(pipe) \in Nat /\ Len(log) \in Nat /\ Len(buffer) \in Nat
    BY <1>1, <1>2, LenProperties
<1>5. /\ Len(Pending) = Len(held) + Len(pipe)
      /\ \A i \in 1..Len(held) + Len(pipe) :
            Pending[i] = IF i <= Len(held) THEN held[i] ELSE pipe[i - Len(held)]
    BY <1>2, ConcatProperties DEF Pending
<1>6. /\ Len(Emitted) = Len(log) + Len(buffer)
      /\ \A i \in 1..Len(log) + Len(buffer) :
            Emitted[i] = IF i <= Len(log) THEN log[i] ELSE buffer[i - Len(log)]
    BY <1>1, ConcatProperties DEF Emitted
<1> QED
    BY <1>1, <1>2, <1>3, <1>4, <1>5, <1>6

\* A flush tells the host nothing that is not emitted yet.
LEMMA FlushFacts ==
    ASSUME Shaped, log' = log \o buffer, buffer' = <<>>
    PROVE  Emitted' = Emitted /\ log' \in Seq(Entry)
<1>1. Emitted \in Seq(Entry) /\ Emitted = log \o buffer
    BY SequenceFacts DEF Emitted
<1>2. Emitted' = (log \o buffer) \o <<>>
    BY DEF Emitted
<1> QED
    BY <1>1, <1>2, ConcatEmptySeq

\* #flushAllOutputBuffers, then an event: one more report.
LEMMA EmitFacts ==
    ASSUME Shaped, NEW e \in Entry, EmitAfterFlush(e)
    PROVE  Emitted' = Append(Emitted, e) /\ log' \in Seq(Entry) /\ buffer' = <<>>
<1>1. Emitted \in Seq(Entry) /\ Emitted = log \o buffer
    BY SequenceFacts DEF Emitted
<1>2. log' = Append(Emitted, e) /\ Append(Emitted, e) \in Seq(Entry)
    BY <1>1, AppendProperties, AppendIsConcat DEF EmitAfterFlush
<1>3. Emitted' = log' \o <<>> /\ buffer' = <<>>
    BY DEF Emitted, EmitAfterFlush
<1> QED
    BY <1>2, <1>3, ConcatEmptySeq

\* Output is buffered: one more report.
LEMMA BufferFacts ==
    ASSUME Shaped, NEW e \in Report, buffer' = Append(buffer, e), log' = log
    PROVE  Emitted' = Append(Emitted, e) /\ buffer' \in Seq(Report)
<1>1. log \in Seq(Entry) /\ buffer \in Seq(Report) /\ buffer \in Seq(Entry) /\ e \in Entry
    BY SequenceFacts, EntryFacts DEF Shaped
<1>2. Append(buffer, e) \in Seq(Report)
    BY <1>1, AppendProperties
<1>3. <<e>> \in Seq(Entry) /\ Append(buffer, e) = buffer \o <<e>>
    BY <1>1, AppendIsConcat
<1>4. log \o (buffer \o <<e>>) = (log \o buffer) \o <<e>>
    BY <1>1, <1>3, ConcatAssociative
<1>5. (log \o buffer) \o <<e>> = Append(log \o buffer, e)
    BY <1>1, ConcatProperties, AppendIsConcat
<1> QED
    BY <1>2, <1>3, <1>4, <1>5 DEF Emitted

-----------------------------------------------------------------------------
(* Steps of the session: lines leave, reports come.                        *)

\* Lines that are left keep their order.
Thinned ==
    \E f \in [1..Len(Pending') -> 1..Len(Pending)] :
        /\ \A i, j \in 1..Len(Pending') : i < j => f[i] < f[j]
        /\ \A i \in 1..Len(Pending') : Pending'[i] = Pending[f[i]]

\* e says what has happened, and before what the lines that are left say.
Timely(e) ==
    /\ e.kind # "exited" => Happened(e)
    /\ e.kind \notin {"exited", "forced"} =>
         (\A j \in 1..Len(Pending) : Counts(Pending[j]) => Before(e, Pending[j]))'

\* A step of the session loses no line that counts, and reports in time.
Careful ==
    /\ UNCHANGED <<build, turns, busy, written>> /\ Thinned /\ (cut => cut')
    /\ \A w \in BOOLEAN : Heeds(w)' => Heeds(w)
    /\ \/ Emitted' = Emitted
       \/ \E e \in Entry : Emitted' = Append(Emitted, e) /\ Timely(e)
    /\ ~cut' => \A w \in BOOLEAN, kind \in {"started", "output"} : \A t, k :
          Heeds(w)' /\ Awaited(kind, t, k, w) /\ (kind = "started" => k = 0)
          => Reported(kind, t, k)' \/ Awaited(kind, t, k, w)'

LEMMA ReportsGrow ==
    ASSUME Emitted \in Seq(Entry),
           Emitted' = Emitted \/ \E e \in Entry : Emitted' = Append(Emitted, e)
    PROVE  /\ Len(Emitted) \in Nat /\ Len(Emitted') \in Nat /\ Len(Emitted) <= Len(Emitted')
           /\ \A i \in 1..Len(Emitted) : Emitted'[i] = Emitted[i]
           /\ \A kind, t, k : Reported(kind, t, k) => Reported(kind, t, k)'
<1>1. /\ Len(Emitted) \in Nat /\ Len(Emitted') \in Nat /\ Len(Emitted) <= Len(Emitted')
      /\ \A i \in 1..Len(Emitted) : Emitted'[i] = Emitted[i]
    <2>1. CASE Emitted' = Emitted
        BY <2>1, LenProperties
    <2>2. ASSUME NEW e \in Entry, Emitted' = Append(Emitted, e)
          PROVE  /\ Len(Emitted) \in Nat /\ Len(Emitted') \in Nat /\ Len(Emitted) <= Len(Emitted')
                 /\ \A i \in 1..Len(Emitted) : Emitted'[i] = Emitted[i]
        BY <2>2, LenProperties, AppendProperties
    <2> QED
        BY <2>1, <2>2
<1>2. ASSUME NEW kind, NEW t, NEW k, Reported(kind, t, k)
      PROVE  Reported(kind, t, k)'
    <2>1. PICK i \in 1..Len(Emitted) : Emitted[i] = Event(kind, t, k)
        BY <1>2 DEF Reported
    <2>2. i \in 1..Len(Emitted') /\ Emitted'[i] = Event(kind, t, k)
        BY <1>1, <2>1
    <2> QED
        BY <2>2 DEF Reported, Event
<1> QED
    BY <1>1, <1>2

LEMMA CarefulKeeps ==
    ASSUME Bounded, TurnsInv, Shaped', Careful
    PROVE  Past' /\ Sorted' /\ Behind' /\ Covered'
<1>1. PICK f \in [1..Len(Pending') -> 1..Len(Pending)] :
          /\ \A i, j \in 1..Len(Pending') : i < j => f[i] < f[j]
          /\ \A i \in 1..Len(Pending') : Pending'[i] = Pending[f[i]]
    BY DEF Careful, Thinned
<1>2. \A i \in 1..Len(Pending') : f[i] \in 1..Len(Pending) /\ Pending'[i] = Pending[f[i]]
    BY <1>1
<1>3. /\ Emitted \in Seq(Entry) /\ Pending \in Seq(Line) /\ Len(Pending) \in Nat
      /\ Len(Pending') \in Nat
    BY SequenceFacts, LenProperties DEF TurnsInv
<1>4. UNCHANGED <<build, turns, busy, written>> /\ (cut => cut')
    BY DEF Careful
<1>5. /\ Len(Emitted) \in Nat /\ Len(Emitted') \in Nat /\ Len(Emitted) <= Len(Emitted')
      /\ \A i \in 1..Len(Emitted) : Emitted'[i] = Emitted[i]
      /\ \A kind, t, k : Reported(kind, t, k) => Reported(kind, t, k)'
    BY <1>3, ReportsGrow DEF Careful
<1>6. \A i \in 1..Len(Emitted') : i \in 1..Len(Emitted) \/
         \E e \in Entry : Emitted'[i] = e /\ Timely(e)
    <2>1. CASE Emitted' = Emitted
        BY <2>1
    <2>2. ASSUME NEW e \in Entry, Emitted' = Append(Emitted, e), Timely(e)
          PROVE  \A i \in 1..Len(Emitted') : i \in 1..Len(Emitted) \/
                    \E a \in Entry : Emitted'[i] = a /\ Timely(a)
        <3>1. Len(Emitted') = Len(Emitted) + 1 /\ Emitted'[Len(Emitted) + 1] = e
            BY <1>3, <2>2, AppendProperties
        <3>2. \A i \in 1..Len(Emitted') : i \in 1..Len(Emitted) \/ Emitted'[i] = e
            BY <1>5, <3>1
        <3> QED
            BY <2>2, <3>2
    <2> QED
        BY <2>1, <2>2 DEF Careful
<1>7. \A a : Happened(a)' <=> Happened(a)
    BY <1>4 DEF Happened
<1>8. Past'
    <2>1. ASSUME NEW i \in 1..Len(Pending'), Pending'[i].kind # "answer"
          PROVE  Happened(Pending'[i])
        BY <1>2, <2>1 DEF TurnsInv, Past
    <2>2. ASSUME NEW i \in 1..Len(Emitted'), Emitted'[i].kind # "exited"
          PROVE  Happened(Emitted'[i])
        <3>1. CASE i \in 1..Len(Emitted)
            BY <1>5, <2>2, <3>1 DEF TurnsInv, Past
        <3>2. ASSUME NEW e \in Entry, Emitted'[i] = e, Timely(e)
              PROVE  Happened(Emitted'[i])
            BY <2>2, <3>2 DEF Timely
        <3> QED
            BY <1>6, <3>1, <3>2
    <2> QED
        BY <1>4, <2>1, <2>2 DEF Past, Happened
<1>9. Sorted'
    <2> SUFFICES ASSUME NEW j \in 1..Len(Pending'), NEW i \in 1..(j - 1),
                        Pending'[i].kind # "answer", Pending'[j].kind # "answer",
                        Pending'[i].wrapped = Pending'[j].wrapped
                 PROVE  Before(Pending'[i], Pending'[j])
        BY DEF Sorted, Before
    <2>1. i \in 1..Len(Pending') /\ i < j
        BY <1>3
    <2>2. /\ f[i] \in 1..Len(Pending) /\ f[j] \in 1..Len(Pending) /\ f[i] < f[j]
          /\ Pending'[i] = Pending[f[i]] /\ Pending'[j] = Pending[f[j]]
        BY <1>1, <2>1
    <2>3. f[i] \in 1..(f[j] - 1)
        BY <1>3, <2>2
    <2> QED
        BY <2>2, <2>3 DEF TurnsInv, Sorted
<1>10. Behind'
    <2> SUFFICES ASSUME NEW i \in 1..Len(Emitted'), NEW j \in 1..Len(Pending'),
                        Emitted'[i].kind \notin {"exited", "forced"}, Counts(Pending[j])'
                 PROVE  Before(Emitted'[i], Pending'[j])
        BY DEF Behind, Before
    <2>1. CASE i \in 1..Len(Emitted)
        <3>1. f[j] \in 1..Len(Pending) /\ Pending'[j] = Pending[f[j]]
            BY <1>2
        <3>2. Pending'[j] \in Line /\ Pending'[j].kind # "answer" /\ Heeds(Pending[j].wrapped)'
            BY <1>3, <3>1, ElementOfSeq DEF Counts
        <3>3. Pending'[j].wrapped \in BOOLEAN
            BY <3>2, LineFacts
        <3>4. \A w \in BOOLEAN : w = Pending'[j].wrapped => Heeds(w)
            BY <3>2 DEF Careful, Heeds, Writes
        <3>5. Counts(Pending[f[j]])
            BY <3>1, <3>2, <3>3, <3>4 DEF Counts
        <3>6. Emitted'[i] = Emitted[i]
            BY <1>5, <2>1
        <3> QED
            BY <2>1, <3>1, <3>5, <3>6 DEF TurnsInv, Behind
    <2>2. ASSUME NEW e \in Entry, Emitted'[i] = e, Timely(e)
          PROVE  Before(Emitted'[i], Pending'[j])
        BY <2>2 DEF Timely, Before
    <2> QED
        BY <1>6, <2>1, <2>2
<1>11. Covered'
    <2> SUFFICES ASSUME ~cut', NEW w \in BOOLEAN, Heeds(w)', NEW t \in 1..turns
                 PROVE  /\ Reported("started", t, 0)' \/ Awaited("started", t, 0, w)'
                        /\ \A k \in 1..written[t] :
                              Reported("output", t, k)' \/ Awaited("output", t, k, w)'
        BY <1>4 DEF Covered
    <2>1. ~cut /\ Heeds(w)
        BY <1>4 DEF Careful
    <2>2. ASSUME NEW kind \in {"started", "output"}, NEW k, kind = "started" => k = 0,
                 Reported(kind, t, k) \/ Awaited(kind, t, k, w)
          PROVE  Reported(kind, t, k)' \/ Awaited(kind, t, k, w)'
        <3>1. CASE Reported(kind, t, k)
            BY <1>5, <3>1
        <3>2. CASE Awaited(kind, t, k, w)
            BY <2>2, <3>2 DEF Careful
        <3> QED
            BY <2>2, <3>1, <3>2
    <2> QED
        BY <2>1, <2>2 DEF TurnsInv, Covered
<1> QED
    BY <1>8, <1>9, <1>10, <1>11

\* The first n lines leave.
Dropped(n) ==
    /\ n \in 0..Len(Pending) /\ Len(Pending') = Len(Pending) - n
    /\ \A i \in 1..Len(Pending') : Pending'[i] = Pending[i + n]

LEMMA DropFacts ==
    ASSUME Shaped, Shaped'
    PROVE  /\ UNCHANGED <<held, pipe>> => Dropped(0)
           /\ pipe # <<>> /\ held' = Append(held, Head(pipe)) /\ pipe' = Tail(pipe) => Dropped(0)
           /\ held # <<>> /\ held' = Tail(held) /\ pipe' = pipe => Dropped(1)
           /\ held' = <<>> /\ pipe' = pipe => Dropped(Len(held))
           /\ pipe # <<>> /\ held' = <<>> /\ pipe' = Tail(pipe) => Dropped(Len(held) + 1)
<1>1. /\ held \in Seq(Line) /\ pipe \in Seq(Line) /\ Len(held) \in Nat /\ Len(pipe) \in Nat
      /\ Len(Pending) = Len(held) + Len(pipe)
      /\ \A i \in 1..Len(Pending) :
            Pending[i] = IF i <= Len(held) THEN held[i] ELSE pipe[i - Len(held)]
    BY SequenceFacts DEF Shaped
<1>2. /\ Len(held') \in Nat /\ Len(pipe') \in Nat /\ Len(Pending') = Len(held') + Len(pipe')
      /\ \A i \in 1..Len(Pending') :
            Pending'[i] = IF i <= Len(held') THEN held'[i] ELSE pipe'[i - Len(held')]
    <2>1. held' \in Seq(Line) /\ pipe' \in Seq(Line)
        BY LineFacts, SeqMonotonic DEF Shaped
    <2> QED
        BY <2>1, ConcatProperties, LenProperties DEF Pending
<1>3. ASSUME pipe # <<>>
      PROVE  /\ Head(pipe) = pipe[1] /\ Len(Tail(pipe)) = Len(pipe) - 1 /\ Len(pipe) # 0
             /\ Head(pipe) \in Line
             /\ \A i \in 1..(Len(pipe) - 1) : Tail(pipe)[i] = pipe[i + 1]
    BY <1>1, <1>3, HeadTailProperties, EmptySeq
<1>4. ASSUME held # <<>>
      PROVE  /\ Len(Tail(held)) = Len(held) - 1 /\ Len(held) # 0
             /\ \A i \in 1..(Len(held) - 1) : Tail(held)[i] = held[i + 1]
    BY <1>1, <1>4, HeadTailProperties, EmptySeq
<1>5. ASSUME UNCHANGED <<held, pipe>> PROVE Dropped(0)
    <2>1. Pending' = Pending /\ Len(Pending) \in Nat
        BY <1>1, <1>5 DEF Pending
    <2>2. \A i \in 1..Len(Pending) : i + 0 = i
        BY <2>1
    <2> QED
        BY <2>1, <2>2 DEF Dropped
<1>6. ASSUME pipe # <<>>, held' = Append(held, Head(pipe)), pipe' = Tail(pipe) PROVE Dropped(0)
    <2>1. /\ Len(held') = Len(held) + 1 /\ held'[Len(held) + 1] = pipe[1]
          /\ \A i \in 1..Len(held) : held'[i] = held[i]
        BY <1>1, <1>3, <1>6, AppendProperties
    <2>2. Len(Pending') = Len(Pending) /\ 0 \in 0..Len(Pending)
        BY <1>1, <1>2, <1>3, <1>6, <2>1
    <2>3. ASSUME NEW i \in 1..Len(Pending') PROVE Pending'[i] = Pending[i + 0]
        <3>1. CASE i <= Len(held)
            BY <1>1, <1>2, <2>1, <2>2, <3>1
        <3>2. CASE i = Len(held) + 1
            BY <1>1, <1>2, <2>1, <2>2, <3>2
        <3>3. CASE i > Len(held) + 1
            <4>1. i - Len(held') \in 1..(Len(pipe) - 1) /\ i - Len(held') + 1 = i - Len(held)
                BY <1>1, <1>2, <2>1, <2>2, <3>3
            <4>2. Pending'[i] = pipe'[i - Len(held')]
                BY <1>1, <1>2, <2>1, <3>3
            <4>3. pipe'[i - Len(held')] = pipe[i - Len(held)]
                BY <1>3, <1>6, <4>1
            <4>4. Pending[i + 0] = pipe[i - Len(held)]
                BY <1>1, <2>2, <3>3
            <4> QED
                BY <4>2, <4>3, <4>4
        <3> QED
            BY <1>1, <1>2, <3>1, <3>2, <3>3
    <2> QED
        BY <1>1, <2>2, <2>3 DEF Dropped
<1>7. ASSUME held # <<>>, held' = Tail(held), pipe' = pipe PROVE Dropped(1)
    <2>1. Len(Pending') = Len(Pending) - 1 /\ 1 \in 0..Len(Pending)
        BY <1>1, <1>2, <1>4, <1>7
    <2>2. ASSUME NEW i \in 1..Len(Pending') PROVE Pending'[i] = Pending[i + 1]
        BY <1>1, <1>2, <1>4, <1>7, <2>1
    <2> QED
        BY <2>1, <2>2 DEF Dropped
<1>8. ASSUME held' = <<>>, pipe' = pipe PROVE Dropped(Len(held))
    BY <1>1, <1>2, <1>8 DEF Dropped
<1>9. ASSUME pipe # <<>>, held' = <<>>, pipe' = Tail(pipe) PROVE Dropped(Len(held) + 1)
    <2>1. Len(Pending') = Len(Pending) - (Len(held) + 1) /\ Len(held) + 1 \in 0..Len(Pending)
        BY <1>1, <1>2, <1>3, <1>9
    <2>2. ASSUME NEW i \in 1..Len(Pending') PROVE Pending'[i] = Pending[i + (Len(held) + 1)]
        <3>1. Pending'[i] = pipe[i + 1] /\ i + 1 \in 1..Len(pipe)
            BY <1>1, <1>2, <1>3, <1>9, <2>1
        <3>2. i + (Len(held) + 1) \in 1..Len(Pending) /\ ~(i + (Len(held) + 1) <= Len(held))
            BY <1>1, <1>2, <2>1
        <3>3. Pending[i + (Len(held) + 1)] = pipe[i + (Len(held) + 1) - Len(held)]
            BY <1>1, <3>2
        <3>4. i + (Len(held) + 1) - Len(held) = i + 1
            BY <1>1, <1>2
        <3> QED
            BY <3>1, <3>3, <3>4
    <2> QED
        BY <2>1, <2>2 DEF Dropped
<1> QED
    BY <1>5, <1>6, <1>7, <1>8, <1>9

LEMMA DropThins ==
    ASSUME Shaped, Shaped', NEW n, Dropped(n)
    PROVE  /\ Thinned
           /\ \A kind, t, k, w : Awaited(kind, t, k, w) => Awaited(kind, t, k, w)' \/
                 \E i \in 1..n :
                    Pending[i] = [kind |-> kind, turn |-> t, piece |-> k, wrapped |-> w]
<1>1. Len(Pending) \in Nat /\ Len(Pending') \in Nat
    <2>1. Pending' \in Seq(Line)
        BY LineFacts, SeqMonotonic, ConcatProperties DEF Shaped, Pending
    <2> QED
        BY <2>1, SequenceFacts, LenProperties
<1>2. /\ n \in 0..Len(Pending) /\ Len(Pending') = Len(Pending) - n
      /\ \A i \in 1..Len(Pending') : Pending'[i] = Pending[i + n]
    BY DEF Dropped
<1>3. Thinned
    <2> DEFINE f == [i \in 1..Len(Pending') |-> i + n]
    <2>1. f \in [1..Len(Pending') -> 1..Len(Pending)]
        BY <1>1, <1>2
    <2>2. \A i, j \in 1..Len(Pending') : i < j => f[i] < f[j]
        BY <1>1, <1>2
    <2>3. \A i \in 1..Len(Pending') : Pending'[i] = Pending[f[i]]
        BY <1>2
    <2> HIDE DEF f
    <2> QED
        BY <2>1, <2>2, <2>3 DEF Thinned
<1>4. ASSUME NEW kind, NEW t, NEW k, NEW w, Awaited(kind, t, k, w)
      PROVE  Awaited(kind, t, k, w)' \/
             \E i \in 1..n : Pending[i] = [kind |-> kind, turn |-> t, piece |-> k, wrapped |-> w]
    <2>1. PICK i \in 1..Len(Pending) :
              Pending[i] = [kind |-> kind, turn |-> t, piece |-> k, wrapped |-> w]
        BY <1>4 DEF Awaited
    <2>2. CASE i <= n
        BY <1>2, <2>1, <2>2
    <2>3. CASE i > n
        <3>1. i - n \in 1..Len(Pending') /\ i - n + n = i
            BY <1>1, <1>2, <2>1, <2>3
        <3>2. Pending'[i - n] = Pending[i]
            BY <1>2, <3>1
        <3> QED
            BY <2>1, <3>1, <3>2 DEF Awaited
    <2> QED
        BY <1>1, <1>2, <2>2, <2>3
<1> QED
    BY <1>3, <1>4

\* An answer leaves the pipe while lines are held.
LEMMA AnswerThins ==
    ASSUME Shaped, Shaped', pipe # <<>>, Head(pipe).kind = "answer",
           held' = held, pipe' = Tail(pipe)
    PROVE  /\ Thinned
           /\ \A kind \in {"started", "output"} : \A t, k, w :
                 Awaited(kind, t, k, w) => Awaited(kind, t, k, w)'
<1> DEFINE n == Len(held) + 1
<1>1. /\ pipe \in Seq(Line) /\ Len(held) \in Nat /\ Len(pipe) \in Nat
      /\ Len(Pending) = Len(held) + Len(pipe)
      /\ \A i \in 1..Len(Pending) :
            Pending[i] = IF i <= Len(held) THEN held[i] ELSE pipe[i - Len(held)]
    BY SequenceFacts DEF Shaped
<1>2. /\ Len(pipe') \in Nat /\ Len(Pending') = Len(held) + Len(pipe')
      /\ \A i \in 1..Len(Pending') :
            Pending'[i] = IF i <= Len(held) THEN held[i] ELSE pipe'[i - Len(held)]
    <2>1. held' \in Seq(Line) /\ pipe' \in Seq(Line) /\ held' = held
        BY LineFacts, SeqMonotonic DEF Shaped
    <2> QED
        BY <2>1, ConcatProperties, LenProperties DEF Pending
<1>3. /\ Head(pipe) = pipe[1] /\ Len(pipe') = Len(pipe) - 1 /\ Len(pipe) # 0
      /\ \A i \in 1..(Len(pipe) - 1) : pipe'[i] = pipe[i + 1]
    BY <1>1, HeadTailProperties, EmptySeq
<1>4. n \in 1..Len(Pending) /\ Len(Pending') = Len(Pending) - 1 /\ Pending[n].kind = "answer"
    BY <1>1, <1>2, <1>3
<1>5. \A i \in 1..Len(Pending') : Pending'[i] = Pending[IF i < n THEN i ELSE i + 1]
    <2> SUFFICES ASSUME NEW i \in 1..Len(Pending')
                 PROVE  Pending'[i] = Pending[IF i < n THEN i ELSE i + 1]
        OBVIOUS
    <2>1. CASE i < n
        BY <1>1, <1>2, <1>3, <1>4, <2>1
    <2>2. CASE ~(i < n)
        <3>1. i - Len(held) \in 1..(Len(pipe) - 1) /\ i + 1 \in 1..Len(Pending)
            BY <1>1, <1>2, <1>3, <1>4, <2>2
        <3>5. ~(i <= Len(held))
            BY <1>1, <1>2, <2>2
        <3>4. Pending'[i] = pipe'[i - Len(held)]
            <4> HIDE DEF n
            <4> QED
                BY <1>2, <3>5
        <3>2. Pending'[i] = pipe[i - Len(held) + 1]
            BY <1>3, <3>1, <3>4
        <3>3. Pending[i + 1] = pipe[i + 1 - Len(held)]
            BY <1>1, <2>2, <3>1
        <3> QED
            BY <1>1, <2>2, <3>2, <3>3
    <2> QED
        BY <2>1, <2>2
<1>6. Len(Pending) \in Nat /\ n \in Nat
    BY <1>1
<1> HIDE DEF n
<1>7. Thinned
    <2> DEFINE f == [i \in 1..Len(Pending') |-> IF i < n THEN i ELSE i + 1]
    <2>1. f \in [1..Len(Pending') -> 1..Len(Pending)]
        BY <1>4, <1>6
    <2>2. \A i, j \in 1..Len(Pending') : i < j => f[i] < f[j]
        BY <1>4, <1>6
    <2>3. \A i \in 1..Len(Pending') : Pending'[i] = Pending[f[i]]
        BY <1>5
    <2> HIDE DEF f
    <2> QED
        BY <2>1, <2>2, <2>3 DEF Thinned
<1>8. ASSUME NEW kind \in {"started", "output"}, NEW t, NEW k, NEW w, Awaited(kind, t, k, w)
      PROVE  Awaited(kind, t, k, w)'
    <2>1. PICK i \in 1..Len(Pending) :
              Pending[i] = [kind |-> kind, turn |-> t, piece |-> k, wrapped |-> w]
        BY <1>8 DEF Awaited
    <2>2. i # n
        BY <1>4, <2>1
    <2>3. CASE i < n
        <3>1. i \in 1..Len(Pending') /\ Pending'[i] = Pending[i]
            BY <1>4, <1>5, <1>6, <2>1, <2>3
        <3> QED
            BY <2>1, <3>1 DEF Awaited
    <2>4. CASE i > n
        <3>1. i - 1 \in 1..Len(Pending') /\ ~(i - 1 < n) /\ i - 1 + 1 = i
            BY <1>4, <1>6, <2>1, <2>4
        <3>2. Pending'[i - 1] = Pending[i]
            BY <1>5, <3>1
        <3> QED
            BY <2>1, <3>1, <3>2 DEF Awaited
    <2> QED
        BY <1>6, <2>2, <2>3, <2>4
<1> QED
    BY <1>7, <1>8
\* Nothing is reported.
LEMMA QuietKeeps ==
    ASSUME TurnsInv, Emitted' = Emitted, UNCHANGED turnVars, cut => cut'
    PROVE  Bounds' /\ Orderly' /\ Agrees'
<1>1. UNCHANGED <<active, lastStarted, lastCompleted>>
    BY DEF turnVars
<1>2. Bounds'
    BY <1>1 DEF TurnsInv, Bounds, Reported, Event
<1>3. Orderly'
    BY DEF TurnsInv, Orderly, Event
<1>4. Agrees'
    BY <1>1 DEF TurnsInv, Agrees
<1> QED
    BY <1>2, <1>3, <1>4

\* e is reported after all that was.
LEMMA SaidFacts ==
    ASSUME Shaped, NEW e \in Entry, Emitted' = Append(Emitted, e)
    PROVE  /\ Len(Emitted) \in Nat /\ Len(Emitted') = Len(Emitted) + 1
           /\ \A i \in 1..Len(Emitted) : Emitted'[i] = Emitted[i]
           /\ Emitted'[Len(Emitted) + 1] = e
           /\ \A i \in 1..Len(Emitted') : i \in 1..Len(Emitted) \/ i = Len(Emitted) + 1
           /\ \A i \in 1..Len(Emitted) : Emitted[i] \in Entry
           /\ \A kind, t, k : Reported(kind, t, k) => Reported(kind, t, k)'
           /\ \A kind, t, k : e = Event(kind, t, k) => Reported(kind, t, k)'
<1>1. Emitted \in Seq(Entry)
    BY SequenceFacts
<1>2. /\ Len(Emitted) \in Nat /\ Len(Emitted') = Len(Emitted) + 1
      /\ \A i \in 1..Len(Emitted) : Emitted'[i] = Emitted[i]
      /\ Emitted'[Len(Emitted) + 1] = e
    BY <1>1, AppendProperties, LenProperties
<1>3. \A kind, t, k : Reported(kind, t, k) => Reported(kind, t, k)'
    BY <1>1, ReportsGrow
<1>4. ASSUME NEW kind, NEW t, NEW k, e = Event(kind, t, k) PROVE Reported(kind, t, k)'
    <2>1. Len(Emitted) + 1 \in 1..Len(Emitted') /\ Emitted'[Len(Emitted) + 1] = Event(kind, t, k)
        BY <1>2, <1>4
    <2> QED
        BY <2>1 DEF Reported, Event
<1>5. \A i \in 1..Len(Emitted) : Emitted[i] \in Entry
    BY <1>1, ElementOfSeq
<1> QED
    BY <1>2, <1>3, <1>4, <1>5

\* Its predecessors keep the order of output.
LEMMA OrderlyKeeps ==
    ASSUME Shaped, Orderly, NEW e \in Entry, Emitted' = Append(Emitted, e), cut => cut',
           e.kind # "output"
    PROVE  Orderly'
<1>1. /\ Len(Emitted) \in Nat /\ Len(Emitted') = Len(Emitted) + 1
      /\ \A i \in 1..Len(Emitted) : Emitted'[i] = Emitted[i]
      /\ Emitted'[Len(Emitted) + 1] = e
      /\ \A i \in 1..Len(Emitted') : i \in 1..Len(Emitted) \/ i = Len(Emitted) + 1
    BY SaidFacts
<1> SUFFICES ASSUME ~cut', NEW j \in 1..Len(Emitted'), Emitted'[j].kind = "output"
             PROVE  LET t == Emitted'[j].turn IN
                    /\ \E i \in 1..(j - 1) : Emitted'[i].kind = "started" /\ Emitted'[i].turn = t
                    /\ \A i \in 1..(j - 1) :
                          ~(Emitted'[i].kind = "completed" /\ Emitted'[i].turn = t) /\ Emitted'[i] # Emitted'[j]
                    /\ \A k \in 1..(Emitted'[j].piece - 1) :
                          \E i \in 1..(j - 1) : Emitted'[i] = Event("output", t, k)
    BY DEF Orderly, Event
<1>2. j \in 1..Len(Emitted) /\ Emitted'[j] = Emitted[j]
    BY <1>1
<1>3. \A i \in 1..(j - 1) : i \in 1..Len(Emitted) /\ Emitted'[i] = Emitted[i]
    BY <1>1, <1>2
<1>4. LET t == Emitted[j].turn IN
      /\ \E i \in 1..(j - 1) : Emitted[i].kind = "started" /\ Emitted[i].turn = t
      /\ \A i \in 1..(j - 1) :
            ~(Emitted[i].kind = "completed" /\ Emitted[i].turn = t) /\ Emitted[i] # Emitted[j]
      /\ \A k \in 1..(Emitted[j].piece - 1) :
            \E i \in 1..(j - 1) : Emitted[i] = Event("output", t, k)
    BY <1>2 DEF Orderly
<1> HIDE DEF Orderly
<1> QED
    BY <1>2, <1>3, <1>4

\* A boundary is reported once, and remembered.
LEMMA BoundsKeeps ==
    ASSUME Shaped, Bounds, NEW e \in Entry, Emitted' = Append(Emitted, e),
           e.kind \in Boundary =>
              \A i \in 1..Len(Emitted) : ~(Emitted[i].kind = e.kind /\ Emitted[i].turn = e.turn),
           \A i \in 1..Len(Emitted) : Emitted[i].kind = "completed" => Emitted[i].turn <= lastCompleted',
           e.kind = "completed" => e.turn <= lastCompleted',
           \A i \in 1..Len(Emitted) : Emitted[i].kind = "forced" => Emitted[i].turn # active',
           e.kind = "forced" => e.turn # active' /\ Reported("started", e.turn, 0),
           active' # None => Reported("started", active, 0)',
           lastStarted' # None => Reported("started", lastStarted, 0)',
           lastCompleted' # None => Reported("completed", lastCompleted, 0)'
    PROVE  Bounds'
<1>1. /\ Len(Emitted) \in Nat /\ Len(Emitted') = Len(Emitted) + 1
      /\ \A i \in 1..Len(Emitted) : Emitted'[i] = Emitted[i]
      /\ Emitted'[Len(Emitted) + 1] = e
      /\ \A i \in 1..Len(Emitted') : i \in 1..Len(Emitted) \/ i = Len(Emitted) + 1
      /\ \A kind, t, k : Reported(kind, t, k) => Reported(kind, t, k)'
    BY SaidFacts
<1>2. ASSUME NEW j \in 1..Len(Emitted'), NEW i \in 1..(j - 1), Emitted'[j].kind \in Boundary
      PROVE  ~(Emitted'[i].kind = Emitted'[j].kind /\ Emitted'[i].turn = Emitted'[j].turn)
    <2>1. i \in 1..Len(Emitted) /\ Emitted'[i] = Emitted[i]
        BY <1>1
    <2>2. CASE j \in 1..Len(Emitted)
        BY <1>1, <1>2, <2>1, <2>2 DEF Bounds
    <2>3. CASE j = Len(Emitted) + 1
        BY <1>1, <1>2, <2>1, <2>3
    <2> QED
        BY <1>1, <2>2, <2>3
<1>3. ASSUME NEW i \in 1..Len(Emitted')
      PROVE  /\ Emitted'[i].kind = "completed" => Emitted'[i].turn <= lastCompleted'
             /\ Emitted'[i].kind = "forced" => /\ Emitted'[i].turn # active'
                                               /\ Reported("started", Emitted[i].turn, 0)'
    <2>1. CASE i \in 1..Len(Emitted)
        <3>1. Emitted'[i] = Emitted[i]
            BY <1>1, <2>1
        <3>2. Emitted[i].kind = "forced" => \E t : t = Emitted[i].turn /\ Reported("started", t, 0)'
            BY <1>1, <2>1 DEF Bounds
        <3> QED
            BY <2>1, <3>1, <3>2 DEF Reported, Event
    <2>2. CASE i = Len(Emitted) + 1
        <3>1. e.kind = "forced" => \E t : t = e.turn /\ Reported("started", t, 0)'
            BY <1>1
        <3> QED
            BY <1>1, <2>2, <3>1 DEF Reported, Event
    <2> QED
        BY <1>1, <2>1, <2>2
<1> QED
    BY <1>2, <1>3 DEF Bounds

\* After a boundary, the turn that shows is the active one.
LEMMA AgreesKeeps ==
    ASSUME Shaped, NEW e \in Entry, Emitted' = Append(Emitted, e), e.kind \in Boundary,
           \A t \in Turn : active' = t <=> e.kind = "started" /\ e.turn = t
    PROVE  Agrees'
<1>1. /\ Len(Emitted) \in Nat /\ Len(Emitted') = Len(Emitted) + 1
      /\ Emitted'[Len(Emitted) + 1] = e
      /\ \A i \in 1..Len(Emitted') : i \in 1..Len(Emitted) \/ i = Len(Emitted) + 1
    BY SaidFacts
<1> SUFFICES ASSUME NEW t \in Turn
             PROVE  active' = t <=>
                        \E i \in 1..Len(Emitted') :
                            /\ Emitted'[i].kind = "started" /\ Emitted'[i].turn = t
                            /\ \A j \in (i + 1)..Len(Emitted') : Emitted'[j].kind = "output"
    BY DEF Agrees
<1>2. ASSUME active' = t
      PROVE  \E i \in 1..Len(Emitted') :
                 /\ Emitted'[i].kind = "started" /\ Emitted'[i].turn = t
                 /\ \A j \in (i + 1)..Len(Emitted') : Emitted'[j].kind = "output"
    <2>1. (Len(Emitted) + 1 + 1)..Len(Emitted') = {} /\ Len(Emitted) + 1 \in 1..Len(Emitted')
        BY <1>1
    <2> QED
        BY <1>1, <1>2, <2>1
<1>3. ASSUME NEW i \in 1..Len(Emitted'), Emitted'[i].kind = "started", Emitted'[i].turn = t,
             \A j \in (i + 1)..Len(Emitted') : Emitted'[j].kind = "output"
      PROVE  active' = t
    <2>1. CASE i \in 1..Len(Emitted)
        <3>1. Len(Emitted) + 1 \in (i + 1)..Len(Emitted')
            BY <1>1, <2>1
        <3> QED
            BY <1>1, <1>3, <3>1 DEF Boundary
    <2>2. CASE i = Len(Emitted) + 1
        BY <1>1, <1>3, <2>2
    <2> QED
        BY <1>1, <2>1, <2>2
<1> QED
    BY <1>2, <1>3

\* The session ends.
LEMMA ExitedKeeps ==
    ASSUME TurnsInv, Emitted' = Append(Emitted, [kind |-> "exited"]), UNCHANGED turnVars,
           cut => cut'
    PROVE  Bounds' /\ Orderly' /\ Agrees'
<1> DEFINE e == [kind |-> "exited"]
<1>1. e \in Entry /\ e.kind = "exited" /\ Emitted' = Append(Emitted, e)
    BY EntryFacts
<1> HIDE DEF e
<1>2. /\ Len(Emitted) \in Nat /\ Len(Emitted') = Len(Emitted) + 1
      /\ Emitted'[Len(Emitted) + 1] = e
      /\ \A kind, t, k : Reported(kind, t, k) => Reported(kind, t, k)'
    BY <1>1, SaidFacts DEF TurnsInv
<1>3. UNCHANGED <<active, lastStarted, lastCompleted>>
    BY DEF turnVars
<1>4. /\ active' # None => Reported("started", active, 0)'
      /\ lastStarted' # None => Reported("started", lastStarted, 0)'
      /\ lastCompleted' # None => Reported("completed", lastCompleted, 0)'
    BY <1>2, <1>3 DEF TurnsInv, Bounds, Reported, Event
<1>5. e.kind \notin Boundary
    BY <1>1 DEF Boundary
<1>6. Shaped /\ Bounds /\ Orderly
    BY DEF TurnsInv
<1>7. Bounds'
    <2>1. \A i \in 1..Len(Emitted) :
             /\ Emitted[i].kind = "completed" => Emitted[i].turn <= lastCompleted'
             /\ Emitted[i].kind = "forced" => Emitted[i].turn # active'
        BY <1>3, <1>6 DEF Bounds
    <2> QED
        BY <1>1, <1>4, <1>5, <1>6, <2>1, BoundsKeeps
<1>8. Orderly'
    BY <1>1, <1>6, OrderlyKeeps
<1>9. Agrees'
    <2>1. Len(Emitted) + 1 \in 1..Len(Emitted') /\ Emitted'[Len(Emitted) + 1].kind = "exited"
        BY <1>1, <1>2
    <2> QED
        BY <2>1 DEF Agrees
<1> QED
    BY <1>7, <1>8, <1>9

LEMMA StartedKeeps ==
    ASSUME Bounded, TurnsInv, NEW t \in Turn, Emitted' = Append(Emitted, Event("started", t, 0)),
           \A i \in 1..Len(Emitted) : ~(Emitted[i].kind = "started" /\ Emitted[i].turn = t),
           active' = t, lastStarted' = t, lastCompleted' = lastCompleted, cut => cut'
    PROVE  Bounds' /\ Orderly' /\ Agrees'
<1> DEFINE e == Event("started", t, 0)
<1>1. /\ e \in Entry /\ e.kind = "started" /\ e.turn = t /\ Emitted' = Append(Emitted, e)
      /\ e.kind \in Boundary
    BY EntryFacts, NumberFacts DEF Boundary
<1>2. e = Event("started", t, 0)
    OBVIOUS
<1> HIDE DEF e
<1>3. /\ \A kind, u, k : Reported(kind, u, k) => Reported(kind, u, k)'
      /\ Reported("started", t, 0)'
    BY <1>1, <1>2, SaidFacts DEF TurnsInv
<1>4. Shaped /\ Bounds /\ Orderly
    BY DEF TurnsInv
<1>5. /\ active' # None => Reported("started", active, 0)'
      /\ lastStarted' # None => Reported("started", lastStarted, 0)'
      /\ lastCompleted' # None => Reported("completed", lastCompleted, 0)'
    BY <1>3, <1>4 DEF Bounds, Reported, Event
<1>6. \A i \in 1..Len(Emitted) : Emitted[i].kind = "forced" => Emitted[i].turn # active'
    <2> SUFFICES ASSUME NEW i \in 1..Len(Emitted), Emitted[i].kind = "forced", Emitted[i].turn = t
                 PROVE  FALSE
        OBVIOUS
    <2>1. Reported("started", t, 0)
        BY <1>4 DEF Bounds
    <2> QED
        BY <2>1, EntryFacts DEF Reported
<1>7. Bounds'
    <2>1. \A i \in 1..Len(Emitted) :
             Emitted[i].kind = "completed" => Emitted[i].turn <= lastCompleted'
        BY <1>4 DEF Bounds
    <2> QED
        BY <1>1, <1>4, <1>5, <1>6, <2>1, BoundsKeeps
<1>8. Orderly'
    BY <1>1, <1>4, OrderlyKeeps
<1>9. Agrees'
    BY <1>1, <1>4, AgreesKeeps
<1> QED
    BY <1>7, <1>8, <1>9

LEMMA CompletedKeeps ==
    ASSUME Bounded, TurnsInv, NEW t \in Turn, Emitted' = Append(Emitted, Event("completed", t, 0)),
           \A i \in 1..Len(Emitted) : Emitted[i].kind = "completed" => Emitted[i].turn < t,
           active' = None, lastStarted' = lastStarted, lastCompleted' = t, cut => cut'
    PROVE  Bounds' /\ Orderly' /\ Agrees'
<1> DEFINE e == Event("completed", t, 0)
<1>1. /\ e \in Entry /\ e.kind = "completed" /\ e.turn = t /\ Emitted' = Append(Emitted, e)
      /\ e.kind \in Boundary /\ t \in Nat
    BY EntryFacts, NumberFacts DEF Boundary
<1>2. e = Event("completed", t, 0)
    OBVIOUS
<1> HIDE DEF e
<1>3. /\ \A kind, u, k : Reported(kind, u, k) => Reported(kind, u, k)'
      /\ Reported("completed", t, 0)' /\ \A i \in 1..Len(Emitted) : Emitted[i] \in Entry
    BY <1>1, <1>2, SaidFacts DEF TurnsInv
<1>4. Shaped /\ Bounds /\ Orderly
    BY DEF TurnsInv
<1>5. /\ active' # None => Reported("started", active, 0)'
      /\ lastStarted' # None => Reported("started", lastStarted, 0)'
      /\ lastCompleted' # None => Reported("completed", lastCompleted, 0)'
    BY <1>3, <1>4 DEF Bounds, Reported, Event
<1>6. \A i \in 1..Len(Emitted) :
         /\ Emitted[i].kind = "forced" => Emitted[i].turn # active'
         /\ Emitted[i].kind = "completed" => Emitted[i].turn <= lastCompleted' /\ Emitted[i].turn # t
    <2> SUFFICES ASSUME NEW i \in 1..Len(Emitted), Emitted[i].kind \in {"forced", "completed"}
                 PROVE  /\ Emitted[i].kind = "forced" => Emitted[i].turn # active'
                        /\ Emitted[i].kind = "completed" =>
                             Emitted[i].turn <= lastCompleted' /\ Emitted[i].turn # t
        OBVIOUS
    <2>1. Emitted[i].turn \in Turn
        BY <1>3, EntryFacts
    <2>2. Emitted[i].turn \in Nat /\ Emitted[i].turn # None /\ t \in Nat
        BY <1>1, <2>1, NumberFacts
    <2>3. CASE Emitted[i].kind = "forced"
        BY <2>2, <2>3
    <2>4. CASE Emitted[i].kind = "completed"
        <3>1. Emitted[i].turn < t
            BY <2>4
        <3> QED
            BY <2>2, <2>4, <3>1
    <2> QED
        BY <2>3, <2>4
<1>7. Bounds'
    <2>1. e.kind = "completed" => e.turn <= lastCompleted'
        BY <1>1
    <2> QED
        BY <1>1, <1>4, <1>5, <1>6, <2>1, BoundsKeeps
<1>8. Orderly'
    BY <1>1, <1>4, OrderlyKeeps
<1>9. Agrees'
    BY <1>1, <1>4, AgreesKeeps, NumberFacts
<1> QED
    BY <1>7, <1>8, <1>9

\* cancel has waited long enough.
LEMMA ForcedKeeps ==
    ASSUME Bounded, TurnsInv, NEW t \in Turn, Emitted' = Append(Emitted, Event("forced", t, 0)),
           active = t, active' = None, UNCHANGED <<lastStarted, lastCompleted>>, cut => cut'
    PROVE  Bounds' /\ Orderly' /\ Agrees'
<1> DEFINE e == Event("forced", t, 0)
<1>1. /\ e \in Entry /\ e.kind = "forced" /\ e.turn = t /\ Emitted' = Append(Emitted, e)
      /\ e.kind \in Boundary
    BY EntryFacts, NumberFacts DEF Boundary
<1> HIDE DEF e
<1>3. /\ \A kind, u, k : Reported(kind, u, k) => Reported(kind, u, k)'
      /\ \A i \in 1..Len(Emitted) : Emitted[i] \in Entry
    BY <1>1, SaidFacts DEF TurnsInv
<1>4. Shaped /\ Bounds /\ Orderly
    BY DEF TurnsInv
<1>5. /\ active' # None => Reported("started", active, 0)'
      /\ lastStarted' # None => Reported("started", lastStarted, 0)'
      /\ lastCompleted' # None => Reported("completed", lastCompleted, 0)'
    BY <1>3, <1>4 DEF Bounds, Reported, Event
<1>6. \A i \in 1..Len(Emitted) :
         Emitted[i].kind = "forced" => Emitted[i].turn # active' /\ Emitted[i].turn # t
    <2> SUFFICES ASSUME NEW i \in 1..Len(Emitted), Emitted[i].kind = "forced"
                 PROVE  Emitted[i].turn # active' /\ Emitted[i].turn # t
        OBVIOUS
    <2>1. Emitted[i].turn \in Turn /\ Emitted[i].turn # active
        BY <1>3, <1>4, EntryFacts DEF Bounds
    <2> QED
        BY <2>1, NumberFacts
<1>7. Bounds'
    <2>1. \A i \in 1..Len(Emitted) :
             Emitted[i].kind = "completed" => Emitted[i].turn <= lastCompleted'
        BY <1>4 DEF Bounds
    <2>2. Reported("started", e.turn, 0) /\ e.turn # active'
        BY <1>1, <1>4, NumberFacts DEF Bounds
    <2> QED
        BY <1>1, <1>4, <1>5, <1>6, <2>1, <2>2, BoundsKeeps
<1>8. Orderly'
    BY <1>1, <1>4, OrderlyKeeps
<1>9. Agrees'
    BY <1>1, <1>4, AgreesKeeps, NumberFacts
<1> QED
    BY <1>7, <1>8, <1>9

LEMMA OutputKeeps ==
    ASSUME Bounded, TurnsInv, NEW t \in Turn, NEW k \in 0..MaxPieces,
           Emitted' = Append(Emitted, Event("output", t, k)),
           ~cut => /\ Reported("started", t, 0)
                   /\ \A m \in 1..(k - 1) : Reported("output", t, m),
           \A i \in 1..Len(Emitted) : /\ ~(Emitted[i].kind = "completed" /\ Emitted[i].turn = t)
                                      /\ Emitted[i] # Event("output", t, k),
           UNCHANGED turnVars, cut => cut'
    PROVE  Bounds' /\ Orderly' /\ Agrees'
<1> DEFINE e == Event("output", t, k)
<1>1. /\ e \in Entry /\ e.kind = "output" /\ e.turn = t /\ e.piece = k
      /\ Emitted' = Append(Emitted, e) /\ e.kind \notin Boundary
    BY EntryFacts, NumberFacts DEF Boundary
<1>2. \A i \in 1..Len(Emitted) : Emitted[i] # e
    OBVIOUS
<1> HIDE DEF e
<1>3. /\ Len(Emitted) \in Nat /\ Len(Emitted') = Len(Emitted) + 1
      /\ \A i \in 1..Len(Emitted) : Emitted'[i] = Emitted[i]
      /\ Emitted'[Len(Emitted) + 1] = e
      /\ \A i \in 1..Len(Emitted') : i \in 1..Len(Emitted) \/ i = Len(Emitted) + 1
      /\ \A kind, u, m : Reported(kind, u, m) => Reported(kind, u, m)'
    BY <1>1, SaidFacts DEF TurnsInv
<1>4. UNCHANGED <<active, lastStarted, lastCompleted>>
    BY DEF turnVars
<1>5. /\ active' # None => Reported("started", active, 0)'
      /\ lastStarted' # None => Reported("started", lastStarted, 0)'
      /\ lastCompleted' # None => Reported("completed", lastCompleted, 0)'
    BY <1>3, <1>4 DEF TurnsInv, Bounds, Reported, Event
<1>6. Shaped /\ Bounds /\ Orderly /\ Agrees
    BY DEF TurnsInv
<1>7. Bounds'
    <2>1. \A i \in 1..Len(Emitted) :
             /\ Emitted[i].kind = "completed" => Emitted[i].turn <= lastCompleted'
             /\ Emitted[i].kind = "forced" => Emitted[i].turn # active'
        BY <1>4, <1>6 DEF Bounds
    <2> QED
        BY <1>1, <1>5, <1>6, <2>1, BoundsKeeps
<1>8. Orderly'
    <2> SUFFICES ASSUME ~cut', NEW j \in 1..Len(Emitted'), Emitted'[j].kind = "output"
                 PROVE  LET u == Emitted'[j].turn IN
                    /\ \E i \in 1..(j - 1) : Emitted'[i].kind = "started" /\ Emitted'[i].turn = u
                    /\ \A i \in 1..(j - 1) :
                          ~(Emitted'[i].kind = "completed" /\ Emitted'[i].turn = u) /\ Emitted'[i] # Emitted'[j]
                    /\ \A m \in 1..(Emitted'[j].piece - 1) :
                          \E i \in 1..(j - 1) : Emitted'[i] = Event("output", u, m)
        BY DEF Orderly, Event
    <2>1. CASE j \in 1..Len(Emitted)
        <3>1. Emitted'[j] = Emitted[j] /\ \A i \in 1..(j - 1) : Emitted'[i] = Emitted[i]
            BY <1>3, <2>1
        <3>2. LET u == Emitted[j].turn IN
              /\ \E i \in 1..(j - 1) : Emitted[i].kind = "started" /\ Emitted[i].turn = u
              /\ \A i \in 1..(j - 1) :
                    ~(Emitted[i].kind = "completed" /\ Emitted[i].turn = u) /\ Emitted[i] # Emitted[j]
              /\ \A m \in 1..(Emitted[j].piece - 1) :
                    \E i \in 1..(j - 1) : Emitted[i] = Event("output", u, m)
            BY <1>6, <2>1, <3>1 DEF Orderly
        <3> QED
            BY <3>1, <3>2
    <2>2. CASE j = Len(Emitted) + 1
        <3>1. /\ Emitted'[j] = e /\ 1..(j - 1) = 1..Len(Emitted)
              /\ \A i \in 1..Len(Emitted) : Emitted'[i] = Emitted[i]
            BY <1>3, <2>2
        <3>2. \E i \in 1..Len(Emitted) : Emitted[i].kind = "started" /\ Emitted[i].turn = t
            BY EntryFacts DEF Reported
        <3>3. \A m \in 1..(k - 1) : \E i \in 1..Len(Emitted) : Emitted[i] = Event("output", t, m)
            BY DEF Reported
        <3>4. Emitted'[j].turn = t /\ Emitted'[j].piece = k
            BY <1>1, <3>1
        <3>5. \E i \in 1..(j - 1) : Emitted'[i].kind = "started" /\ Emitted'[i].turn = t
            BY <3>1, <3>2
        <3>6. \A i \in 1..(j - 1) :
                 ~(Emitted'[i].kind = "completed" /\ Emitted'[i].turn = t) /\ Emitted'[i] # Emitted'[j]
            BY <1>2, <3>1
        <3>7. \A m \in 1..(k - 1) : \E i \in 1..(j - 1) : Emitted'[i] = Event("output", t, m)
            BY <3>1, <3>3
        <3> QED
            BY <3>4, <3>5, <3>6, <3>7
    <2> QED
        BY <1>3, <2>1, <2>2
<1>9. Agrees'
    <2> SUFFICES ASSUME \A i \in 1..Len(Emitted') : Emitted'[i].kind # "exited", NEW u \in Turn
                 PROVE  active' = u <=>
                            \E i \in 1..Len(Emitted') :
                                /\ Emitted'[i].kind = "started" /\ Emitted'[i].turn = u
                                /\ \A j \in (i + 1)..Len(Emitted') : Emitted'[j].kind = "output"
        BY DEF Agrees
    <2>1. \A i \in 1..Len(Emitted) : Emitted[i].kind # "exited" /\ i \in 1..Len(Emitted')
        BY <1>3
    <2>2. active = u <=>
              \E i \in 1..Len(Emitted) :
                  /\ Emitted[i].kind = "started" /\ Emitted[i].turn = u
                  /\ \A j \in (i + 1)..Len(Emitted) : Emitted[j].kind = "output"
        BY <1>6, <2>1 DEF Agrees
    <2>3. ASSUME NEW i \in 1..Len(Emitted)
          PROVE  (\A j \in (i + 1)..Len(Emitted) : Emitted[j].kind = "output") <=>
                 (\A j \in (i + 1)..Len(Emitted') : Emitted'[j].kind = "output")
        <3>1. \A j : j \in (i + 1)..Len(Emitted') <=>
                        j \in (i + 1)..Len(Emitted) \/ j = Len(Emitted) + 1
            BY <1>3
        <3>2. \A j \in (i + 1)..Len(Emitted) : Emitted'[j] = Emitted[j]
            BY <1>3
        <3> QED
            BY <1>1, <1>3, <3>1, <3>2
    <2>4. ASSUME active' = u
          PROVE  \E i \in 1..Len(Emitted') :
                     /\ Emitted'[i].kind = "started" /\ Emitted'[i].turn = u
                     /\ \A j \in (i + 1)..Len(Emitted') : Emitted'[j].kind = "output"
        <3>1. PICK i \in 1..Len(Emitted) :
                  /\ Emitted[i].kind = "started" /\ Emitted[i].turn = u
                  /\ \A j \in (i + 1)..Len(Emitted) : Emitted[j].kind = "output"
            BY <1>4, <2>2, <2>4
        <3> QED
            BY <1>3, <2>1, <2>3, <3>1
    <2>5. ASSUME NEW i \in 1..Len(Emitted'), Emitted'[i].kind = "started", Emitted'[i].turn = u,
                 \A j \in (i + 1)..Len(Emitted') : Emitted'[j].kind = "output"
          PROVE  active' = u
        <3>1. i \in 1..Len(Emitted) /\ Emitted'[i] = Emitted[i]
            BY <1>1, <1>3, <2>5
        <3>2. \A j \in (i + 1)..Len(Emitted) : Emitted[j].kind = "output"
            BY <2>3, <2>5, <3>1
        <3> QED
            BY <1>4, <2>2, <2>5, <3>1, <3>2
    <2> QED
        BY <2>4, <2>5
<1> QED
    BY <1>7, <1>8, <1>9

LEMMA EventFacts ==
    ASSUME Bounded, NEW t \in Turn, NEW k \in 0..MaxPieces
    PROVE  /\ Event("started", t, 0) \in Entry /\ Event("completed", t, 0) \in Entry
           /\ Event("forced", t, 0) \in Entry /\ Event("output", t, k) \in Entry
           /\ Event("output", t, k) \in Report
<1>1. 0 \in 0..MaxPieces
    BY NumberFacts
<1> QED
    BY <1>1, EntryFacts DEF Boundary

\* What #onNotification makes of a line.
LEMMA ProcessFacts ==
    ASSUME Bounded, Shaped, NEW line \in Notice, Process(line),
           UNCHANGED <<codexVars, requests, timers, pastVars>>,
           mode' \in {"none", "direct", "wrapped"}, held' \in Seq(Notice), pipe' \in Seq(Line)
    PROVE  /\ Shaped'
           /\ (\A i \in 1..Len(buffer) : buffer[i].kind = "output") =>
                 \A i \in 1..Len(buffer') : buffer'[i].kind = "output"
           /\ \/ /\ Emitted' = Emitted /\ UNCHANGED turnVars
                 /\ \/ line.kind = "started" /\ line.turn \in {active, lastStarted}
                    \/ line.kind = "completed" /\ line.turn = lastCompleted
              \/ /\ line.kind = "started" /\ Emitted' = Append(Emitted, Event("started", line.turn, 0))
                 /\ active' = line.turn /\ lastStarted' = line.turn /\ lastCompleted' = lastCompleted
              \/ /\ line.kind = "completed" /\ line.turn # lastCompleted
                 /\ Emitted' = Append(Emitted, Event("completed", line.turn, 0))
                 /\ active' = None /\ lastStarted' = lastStarted /\ lastCompleted' = line.turn
              \/ /\ line.kind = "output" /\ UNCHANGED turnVars
                 /\ Emitted' = Append(Emitted, Event("output", line.turn, line.piece))
<1>1. line.turn \in Turn /\ line.piece \in 0..MaxPieces /\ 0 \in 0..MaxPieces
    BY LineFacts, NumberFacts
<1>2. /\ Event("started", line.turn, 0) \in Entry /\ Event("completed", line.turn, 0) \in Entry
      /\ Event("output", line.turn, line.piece) \in Report
      /\ Event("output", line.turn, line.piece).kind = "output"
    BY <1>1, EntryFacts, EventFacts
<1>3. buffer \in Seq(Report) /\ log \in Seq(Entry)
    BY DEF Shaped
<1>4. ASSUME UNCHANGED <<log, buffer>>
      PROVE  log' \in Seq(Entry) /\ buffer' \in Seq(Report) /\ Emitted' = Emitted
    BY <1>3, <1>4 DEF Emitted
<1>5. CASE line.kind = "started" /\ TurnStarted(line.turn)
    <2>1. CASE line.turn \in {active, lastStarted}
        <3>1. UNCHANGED <<turnVars, buffer, log>>
            BY <1>5, <2>1 DEF TurnStarted
        <3> QED
            BY <1>3, <1>4, <1>5, <2>1, <3>1 DEF Shaped, codexVars, pastVars, turnVars
    <2>2. CASE line.turn \notin {active, lastStarted}
        <3>1. /\ active' = line.turn /\ lastStarted' = line.turn /\ lastCompleted' = lastCompleted
              /\ EmitAfterFlush(Event("started", line.turn, 0))
            BY <1>5, <2>2 DEF TurnStarted
        <3>2. /\ Emitted' = Append(Emitted, Event("started", line.turn, 0))
              /\ log' \in Seq(Entry) /\ buffer' = <<>>
            BY <1>2, <3>1, EmitFacts
        <3>3. buffer' \in Seq(Report) /\ Len(buffer') = 0
            BY <3>2, EmptySeq
        <3>4. Shaped'
            BY <1>1, <3>1, <3>2, <3>3 DEF Shaped, codexVars, pastVars
        <3> QED
            BY <1>5, <3>1, <3>2, <3>3, <3>4
    <2> QED
        BY <2>1, <2>2
<1>6. CASE line.kind = "completed" /\ TurnCompleted(line.turn)
    <2>1. CASE line.turn = lastCompleted
        <3>1. UNCHANGED <<turnVars, buffer, log>>
            BY <1>6, <2>1 DEF TurnCompleted
        <3> QED
            BY <1>3, <1>4, <1>6, <2>1, <3>1 DEF Shaped, codexVars, pastVars, turnVars
    <2>2. CASE line.turn # lastCompleted
        <3>1. /\ active' = None /\ lastStarted' = lastStarted /\ lastCompleted' = line.turn
              /\ EmitAfterFlush(Event("completed", line.turn, 0))
            BY <1>6, <2>2 DEF TurnCompleted
        <3>2. /\ Emitted' = Append(Emitted, Event("completed", line.turn, 0))
              /\ log' \in Seq(Entry) /\ buffer' = <<>>
            BY <1>2, <3>1, EmitFacts
        <3>3. buffer' \in Seq(Report) /\ Len(buffer') = 0
            BY <3>2, EmptySeq
        <3>4. Shaped'
            BY <1>1, <3>1, <3>2, <3>3 DEF Shaped, codexVars, pastVars
        <3> QED
            BY <1>6, <2>2, <3>1, <3>2, <3>3, <3>4
    <2> QED
        BY <2>1, <2>2
<1>7. CASE line.kind = "output" /\ UNCHANGED <<turnVars, log>>
           /\ buffer' = Append(buffer, Event("output", line.turn, line.piece))
    <2>1. /\ Emitted' = Append(Emitted, Event("output", line.turn, line.piece))
          /\ buffer' \in Seq(Report)
        BY <1>2, <1>7, BufferFacts
    <2>2. (\A i \in 1..Len(buffer) : buffer[i].kind = "output") =>
             \A i \in 1..Len(buffer') : buffer'[i].kind = "output"
        <3>1. /\ Len(buffer) \in Nat /\ Len(buffer') = Len(buffer) + 1
              /\ \A i \in 1..Len(buffer) : buffer'[i] = buffer[i]
              /\ buffer'[Len(buffer) + 1] = Event("output", line.turn, line.piece)
            BY <1>2, <1>3, <1>7, AppendProperties, LenProperties
        <3>2. \A i \in 1..Len(buffer') : i \in 1..Len(buffer) \/ i = Len(buffer) + 1
            BY <3>1
        <3> QED
            BY <1>2, <3>1, <3>2
    <2>3. Shaped'
        BY <1>7, <2>1 DEF Shaped, codexVars, pastVars, turnVars
    <2> QED
        BY <1>7, <2>1, <2>2, <2>3
<1> QED
    BY <1>5, <1>6, <1>7 DEF Process

LEMMA ThinnedLines ==
    ASSUME Thinned
    PROVE  \A j \in 1..Len(Pending') : \E i \in 1..Len(Pending) : Pending'[j] = Pending[i]
BY DEF Thinned

\* The line is the first that counts.
LEMMA ProcessKeeps ==
    ASSUME Bounded, TurnsInv, NEW n \in 1..Len(Pending), Shaped' => Dropped(n),
           Pending[n].kind # "answer", Process(Pending[n]),
           UNCHANGED <<codexVars, requests, timers, pastVars>>,
           mode' \in {"direct", "wrapped"}, mode = "none" \/ mode' = mode,
           Pending[n].wrapped = (mode' = "wrapped"),
           \A i \in 1..(n - 1) : Pending[i].kind = "answer" \/ Pending[i].wrapped # (mode' = "wrapped"),
           held' \in Seq(Notice), pipe' \in Seq(Line), mode' = "direct" => held' = <<>>,
           \A i \in 1..Len(held') : held'[i].wrapped
    PROVE  TurnsInv'
<1> DEFINE line == Pending[n]
<1>1. /\ Pending \in Seq(Line) /\ Len(Pending) \in Nat /\ Emitted \in Seq(Entry)
      /\ line \in Notice /\ Shaped /\ Bounds
    <2>1. Pending \in Seq(Line) /\ Emitted \in Seq(Entry) /\ Shaped /\ Bounds
        BY SequenceFacts DEF TurnsInv
    <2>2. line \in Line
        BY <2>1, ElementOfSeq
    <2> QED
        BY <2>1, <2>2, LineFacts, LenProperties
<1>2. line.turn \in Turn /\ line.turn \in Nat /\ line.piece \in 0..MaxPieces /\ line.wrapped \in BOOLEAN
      /\ line.turn # None
    BY <1>1, LineFacts, NumberFacts
<1>3. n \in Nat /\ n \in 1..Len(Pending) /\ line = Pending[n]
      /\ line.wrapped = (mode' = "wrapped") /\ line.kind # "answer" /\ Process(line)
    BY <1>1
<1>4. Counts(line)
    <2>1. Writes(line.wrapped)
        BY <1>3 DEF TurnsInv, Forms
    <2> QED
        BY <1>3, <2>1 DEF Counts, Heeds
<1>5. Happened(line)
    BY <1>3 DEF TurnsInv, Past
<1>6. \A i \in 1..Len(Emitted) :
         Emitted[i].kind \notin {"exited", "forced"} => Before(Emitted[i], line)
    BY <1>3, <1>4 DEF TurnsInv, Behind
<1>7. \A i \in 1..Len(Emitted) : Emitted[i] \in Entry
    BY <1>1, ElementOfSeq
<1> HIDE DEF line
<1>8. /\ Shaped'
      /\ \A i \in 1..Len(buffer') : buffer'[i].kind = "output"
      /\ \/ /\ Emitted' = Emitted /\ UNCHANGED turnVars
            /\ \/ line.kind = "started" /\ line.turn \in {active, lastStarted}
               \/ line.kind = "completed" /\ line.turn = lastCompleted
         \/ /\ line.kind = "started" /\ Emitted' = Append(Emitted, Event("started", line.turn, 0))
            /\ active' = line.turn /\ lastStarted' = line.turn /\ lastCompleted' = lastCompleted
         \/ /\ line.kind = "completed" /\ line.turn # lastCompleted
            /\ Emitted' = Append(Emitted, Event("completed", line.turn, 0))
            /\ active' = None /\ lastStarted' = lastStarted /\ lastCompleted' = line.turn
         \/ /\ line.kind = "output" /\ UNCHANGED turnVars
            /\ Emitted' = Append(Emitted, Event("output", line.turn, line.piece))
    <2>1. \A i \in 1..Len(buffer) : buffer[i].kind = "output"
        BY DEF TurnsInv, Forms
    <2> QED
        BY <1>1, <1>3, <2>1, ProcessFacts
<1>9. \A i \in 1..Len(Emitted) : ~(Emitted[i].kind = "started" /\ line.kind = "started" /\
                                   Emitted[i].turn = line.turn)
    BY <1>2, <1>6, <1>7, EntryFacts DEF Before
<1>10. ~(line.kind = "started" /\ line.turn \in {active, lastStarted})
    <2> SUFFICES ASSUME line.kind = "started", line.turn \in {active, lastStarted} PROVE FALSE
        OBVIOUS
    <2>1. Reported("started", line.turn, 0)
        <3>1. CASE line.turn = active
            BY <1>1, <1>2, <3>1 DEF Bounds
        <3>2. CASE line.turn = lastStarted
            BY <1>1, <1>2, <3>2 DEF Bounds
        <3> QED
            BY <3>1, <3>2
    <2>2. PICK i \in 1..Len(Emitted) : Emitted[i] = Event("started", line.turn, 0)
        BY <2>1 DEF Reported
    <2> QED
        BY <1>9, <2>2, EntryFacts
<1>11. cut' = cut /\ UNCHANGED <<build, turns, busy, written, cancelled>>
    BY DEF pastVars, codexVars
<1>12. /\ Thinned /\ Dropped(n)
       /\ \A kind, t, k, w : Awaited(kind, t, k, w) => Awaited(kind, t, k, w)' \/
              \E i \in 1..n :
                 Pending[i] = [kind |-> kind, turn |-> t, piece |-> k, wrapped |-> w]
    <2>1. Dropped(n) /\ Shaped /\ Shaped'
        BY <1>1, <1>8
    <2> QED
        BY <2>1, DropThins
<1>13. ASSUME NEW w \in BOOLEAN, Heeds(w)'
       PROVE  Heeds(w) /\ w = (mode' = "wrapped")
    BY <1>11, <1>13 DEF Heeds, Writes
\* The report comes before what the other lines of this form say.
<1>14. ASSUME NEW e \in Entry, e.kind = line.kind, e.turn = line.turn,
              e.kind = "output" => e.piece = line.piece
       PROVE  Timely(e)
    <2>1. Happened(e)
        BY <1>5, <1>14 DEF Happened
    <2>2. ASSUME NEW j \in 1..Len(Pending'), Counts(Pending[j])'
          PROVE  Before(e, Pending'[j])
        <3>1. Len(Pending') = Len(Pending) - n /\ Pending'[j] = Pending[j + n]
            BY <1>12, <2>2 DEF Dropped
        <3>2. j + n \in 1..Len(Pending) /\ n \in 1..(j + n - 1)
            BY <1>1, <1>3, <3>1
        <3>3. Pending[j + n] \in Line /\ Pending[j + n].kind # "answer"
            BY <1>1, <2>2, <3>1, <3>2, ElementOfSeq DEF Counts
        <3>4. Pending[j + n].wrapped = (mode' = "wrapped")
            <4>1. Pending[j + n].wrapped \in BOOLEAN
                BY <3>3, LineFacts
            <4>2. \A w \in BOOLEAN : w = Pending[j + n].wrapped => Heeds(w)'
                BY <2>2, <3>1 DEF Counts
            <4> QED
                BY <1>13, <4>1, <4>2
        <3>5. Before(line, Pending[j + n])
            BY <1>3, <3>2, <3>3, <3>4 DEF TurnsInv, Sorted
        <3> QED
            BY <1>14, <3>1, <3>5 DEF Before
    <2> QED
        BY <2>1, <2>2 DEF Timely, Before
<1>15. ASSUME NEW w \in BOOLEAN, NEW kind \in {"started", "output"}, NEW t, NEW k,
              Heeds(w)', Awaited(kind, t, k, w), kind = "started" => k = 0
       PROVE  Reported(kind, t, k)' \/ Awaited(kind, t, k, w)'
    <2> SUFFICES ASSUME NEW i \in 1..n,
                        Pending[i] = [kind |-> kind, turn |-> t, piece |-> k, wrapped |-> w]
                 PROVE  Reported(kind, t, k)'
        BY <1>12, <1>15
    <2>1. Pending[i].wrapped = (mode' = "wrapped") /\ Pending[i].kind # "answer"
        BY <1>13, <1>15
    <2>2. i = n
        BY <1>3, <2>1
    <2>3. line.kind = kind /\ line.turn = t /\ line.piece = k
        BY <1>3, <2>2
    <2>4. /\ Emitted' = Append(Emitted, Event(kind, t, k)) /\ Event(kind, t, k) \in Entry
        <3>1. CASE kind = "started"
            BY <1>2, <1>8, <1>10, <1>15, <2>3, <3>1, EventFacts
        <3>2. CASE kind = "output"
            BY <1>2, <1>8, <2>3, <3>2, EventFacts
        <3> QED
            BY <3>1, <3>2
    <2> QED
        BY <1>1, <2>4, SaidFacts
<1>16. Past' /\ Sorted' /\ Behind' /\ Covered'
    <2>1. \/ Emitted' = Emitted
          \/ \E e \in Entry : Emitted' = Append(Emitted, e) /\ Timely(e)
        <3>1. /\ Event("started", line.turn, 0) \in Entry
              /\ Event("completed", line.turn, 0) \in Entry
              /\ Event("output", line.turn, line.piece) \in Entry
            BY <1>2, EventFacts
        <3>2. /\ line.kind = "started" => Timely(Event("started", line.turn, 0))
              /\ line.kind = "completed" => Timely(Event("completed", line.turn, 0))
              /\ line.kind = "output" => Timely(Event("output", line.turn, line.piece))
            BY <1>14, <3>1, EntryFacts
        <3> QED
            BY <1>8, <3>1, <3>2
    <2>2. Careful
        BY <1>11, <1>12, <1>13, <1>15, <2>1 DEF Careful
    <2> QED
        BY <1>8, <2>2, CarefulKeeps
<1>17. Bounds' /\ Orderly' /\ Agrees'
    <2>1. CASE Emitted' = Emitted /\ UNCHANGED turnVars
        BY <1>11, <2>1, QuietKeeps
    <2>2. CASE /\ line.kind = "started" /\ Emitted' = Append(Emitted, Event("started", line.turn, 0))
               /\ active' = line.turn /\ lastStarted' = line.turn /\ lastCompleted' = lastCompleted
        BY <1>2, <1>9, <1>11, <2>2, StartedKeeps
    <2>3. CASE /\ line.kind = "completed" /\ line.turn # lastCompleted
               /\ Emitted' = Append(Emitted, Event("completed", line.turn, 0))
               /\ active' = None /\ lastStarted' = lastStarted /\ lastCompleted' = line.turn
        <3>1. ASSUME NEW i \in 1..Len(Emitted), Emitted[i].kind = "completed"
              PROVE  Emitted[i].turn < line.turn
            <4>1. Emitted[i].turn <= lastCompleted /\ Emitted[i].turn \in Nat /\ Emitted[i].turn # 0
                BY <1>1, <1>7, <3>1, EntryFacts, NumberFacts DEF Bounds, None
            <4>2. lastCompleted # None /\ lastCompleted \in Turn /\ lastCompleted \in Nat
                <5>1. lastCompleted \in Turn \cup {None} /\ lastCompleted \in Nat
                    BY <1>1, NumberFacts DEF Shaped
                <5>2. lastCompleted # 0
                    BY <4>1, <5>1
                <5> QED
                    BY <5>1, <5>2 DEF None
            <4>3. PICK j \in 1..Len(Emitted) : Emitted[j] = Event("completed", lastCompleted, 0)
                BY <1>1, <4>2 DEF Bounds, Reported
            <4>4. Before(Event("completed", lastCompleted, 0), line)
                BY <1>6, <4>3, EntryFacts
            <4>5. lastCompleted <= line.turn
                BY <1>2, <4>2, <4>4, EntryFacts DEF Before
            <4> QED
                BY <1>2, <2>3, <4>1, <4>2, <4>5
        <3> QED
            BY <1>2, <1>11, <2>3, <3>1, CompletedKeeps
    <2>4. CASE /\ line.kind = "output" /\ UNCHANGED turnVars
               /\ Emitted' = Append(Emitted, Event("output", line.turn, line.piece))
        <3>1. line.turn \in 1..turns /\ line.piece \in 1..written[line.turn] /\ turns \in Nat
            <4>1. turns \in Nat /\ line.turn <= turns /\ line.turn >= 1
                BY <1>1, <1>2, <1>5, NumberFacts DEF Happened, Shaped, Turn
            <4> QED
                BY <1>2, <1>5, <2>4, <4>1 DEF Happened
        <3>2. ASSUME ~cut, NEW kind \in {"started", "output"}, NEW k,
                     Reported(kind, line.turn, k) \/ Awaited(kind, line.turn, k, line.wrapped),
                     kind = "output" => k \in Nat /\ k < line.piece
              PROVE  Reported(kind, line.turn, k)
            <4> SUFFICES ASSUME NEW i \in 1..Len(Pending),
                                Pending[i] = [kind |-> kind, turn |-> line.turn, piece |-> k,
                                              wrapped |-> line.wrapped]
                         PROVE  FALSE
                BY <3>2 DEF Awaited
            <4>1. /\ Pending[i].kind = kind /\ Pending[i].turn = line.turn /\ Pending[i].piece = k
                  /\ Pending[i].wrapped = line.wrapped /\ kind # "answer"
                OBVIOUS
            <4>2. ~(i < n)
                BY <1>1, <1>3, <4>1
            <4>3. i # n
                <5>1. line.piece \in Nat
                    BY <1>2, NumberFacts
                <5> QED
                    BY <1>3, <2>4, <3>2, <4>1, <5>1
            <4>4. n \in 1..(i - 1)
                BY <1>1, <1>3, <4>2, <4>3
            <4>5. Before(line, Pending[i])
                BY <1>3, <4>1, <4>4 DEF TurnsInv, Sorted
            <4>6. line.piece \in Nat
                BY <1>2, NumberFacts
            <4> QED
                BY <1>2, <2>4, <3>2, <4>1, <4>5, <4>6 DEF Before
        <3>3. ~cut => /\ Reported("started", line.turn, 0)
                      /\ \A m \in 1..(line.piece - 1) : Reported("output", line.turn, m)
            <4> SUFFICES ASSUME ~cut
                         PROVE  /\ Reported("started", line.turn, 0)
                                /\ \A m \in 1..(line.piece - 1) : Reported("output", line.turn, m)
                OBVIOUS
            <4>1. /\ Reported("started", line.turn, 0) \/ Awaited("started", line.turn, 0, line.wrapped)
                  /\ \A k \in 1..written[line.turn] :
                        Reported("output", line.turn, k) \/ Awaited("output", line.turn, k, line.wrapped)
                BY <1>2, <1>4, <3>1 DEF TurnsInv, Covered, Counts
            <4>2. written[line.turn] \in Nat /\ line.piece \in Nat
                BY <1>1, <1>2, NumberFacts DEF Shaped
            <4>3. \A m \in 1..(line.piece - 1) : m \in 1..written[line.turn] /\ m \in Nat /\ m < line.piece
                BY <3>1, <4>2
            <4> QED
                BY <3>2, <4>1, <4>3
        <3>4. \A i \in 1..Len(Emitted) :
                 /\ ~(Emitted[i].kind = "completed" /\ Emitted[i].turn = line.turn)
                 /\ Emitted[i] # Event("output", line.turn, line.piece)
            <4> SUFFICES ASSUME NEW i \in 1..Len(Emitted), Emitted[i].turn = line.turn,
                                \/ Emitted[i].kind = "completed"
                                \/ Emitted[i].kind = "output" /\ Emitted[i].piece = line.piece
                         PROVE  FALSE
                BY EntryFacts
            <4>1. Before(Emitted[i], line)
                BY <1>6
            <4>2. line.piece \in Nat
                BY <1>2, NumberFacts
            <4> QED
                BY <1>2, <2>4, <4>1, <4>2 DEF Before
        <3> QED
            BY <1>2, <1>11, <2>4, <3>3, <3>4, OutputKeeps
    <2> QED
        BY <1>8, <2>1, <2>2, <2>3, <2>4
<1>18. Forms'
    <2>1. Writes(mode = "wrapped")'
        BY <1>2, <1>3, <1>4, <1>11 DEF Counts, Heeds, Writes
    <2>2. \A i \in 1..Len(Pending') : Pending'[i].kind # "answer" => Writes(Pending[i].wrapped)'
        BY <1>11, <1>12, ThinnedLines DEF TurnsInv, Forms, Writes
    <2> QED
        BY <1>8, <2>1, <2>2 DEF Forms
<1>19. Caused'
    <2>1. UNCHANGED <<timers, requests, cancelled>>
        BY DEF pastVars
    <2>2. \A i \in 1..Len(Pending') :
             Pending'[i].kind = "answer" => Pending'[i].request.turn \in cancelled' \cup {None}
        BY <1>12, <2>1, ThinnedLines DEF TurnsInv, Caused
    <2>3. ASSUME NEW i \in 1..Len(Emitted'), Emitted'[i].kind = "forced"
          PROVE  Emitted'[i].turn \in cancelled'
        <3>1. CASE i \in 1..Len(Emitted) /\ Emitted'[i] = Emitted[i]
            BY <2>1, <2>3, <3>1 DEF TurnsInv, Caused
        <3>2. ASSUME NEW e \in Entry, Emitted' = Append(Emitted, e), e.kind # "forced"
              PROVE  i \in 1..Len(Emitted) /\ Emitted'[i] = Emitted[i]
            BY <1>1, <2>3, <3>2, SaidFacts
        <3>3. CASE Emitted' = Emitted
            BY <3>1, <3>3
        <3>4. /\ Event("started", line.turn, 0) \in Entry
              /\ Event("completed", line.turn, 0) \in Entry
              /\ Event("output", line.turn, line.piece) \in Entry
            BY <1>2, EventFacts
        <3> QED
            BY <1>8, <3>1, <3>2, <3>3, <3>4, EntryFacts
    <2> QED
        BY <2>1, <2>2, <2>3 DEF TurnsInv, Caused
<1> QED
    BY <1>8, <1>16, <1>17, <1>18, <1>19 DEF TurnsInv
\* No line is handled; what is reported, if anything, is an end.
LEMMA StillKeeps ==
    ASSUME Bounded, TurnsInv, Shaped', Thinned, Bounds', Orderly', Agrees',
           UNCHANGED <<build, turns, busy, written>>, cut => cut',
           mode' = mode \/ (mode = "none" /\ mode' = "wrapped" /\ held # <<>>),
           \/ Emitted' = Emitted
           \/ \E e \in Entry :
                /\ Emitted' = Append(Emitted, e) /\ Timely(e) /\ e.kind \in {"exited", "forced"}
                /\ e.kind = "forced" => mode # "none" /\ e.turn \in cancelled,
           ~cut' => \A w \in BOOLEAN, kind \in {"started", "output"} : \A t, k :
              Heeds(w)' /\ Awaited(kind, t, k, w) /\ (kind = "started" => k = 0)
              => Reported(kind, t, k)' \/ Awaited(kind, t, k, w)',
           \A i \in 1..Len(held') : held'[i].wrapped,
           \A i \in 1..Len(buffer') : buffer'[i].kind = "output",
           mode' = "direct" => held' = <<>>,
           cancelled \subseteq cancelled', timers' \subseteq cancelled',
           \A r \in requests' : r.turn \in cancelled' \cup {None}
    PROVE  TurnsInv'
<1>1. Shaped /\ Forms /\ Caused /\ Emitted \in Seq(Entry)
    BY SequenceFacts DEF TurnsInv
<1>2. Careful
    <2>1. \A w \in BOOLEAN : Heeds(w)' => Heeds(w)
        BY DEF Heeds, Writes
    <2> QED
        BY <2>1 DEF Careful
<1>3. Past' /\ Sorted' /\ Behind' /\ Covered'
    BY <1>2, CarefulKeeps
<1>4. \A i \in 1..Len(Emitted') :
         \/ i \in 1..Len(Emitted) /\ Emitted'[i] = Emitted[i]
         \/ Emitted'[i].kind = "exited"
         \/ Emitted'[i].kind = "forced" /\ mode # "none" /\ Emitted'[i].turn \in cancelled
    <2>1. CASE Emitted' = Emitted
        BY <2>1
    <2>2. ASSUME NEW e \in Entry, Emitted' = Append(Emitted, e), e.kind \in {"exited", "forced"},
                 e.kind = "forced" => mode # "none" /\ e.turn \in cancelled
          PROVE  \A i \in 1..Len(Emitted') :
                    \/ i \in 1..Len(Emitted) /\ Emitted'[i] = Emitted[i]
                    \/ Emitted'[i].kind = "exited"
                    \/ Emitted'[i].kind = "forced" /\ mode # "none" /\ Emitted'[i].turn \in cancelled
        BY <1>1, <2>2, SaidFacts
    <2> QED
        BY <2>1, <2>2
<1>5. Forms'
    <2>1. \A i \in 1..Len(Pending') : Pending'[i].kind # "answer" => Writes(Pending[i].wrapped)'
        BY <1>1, ThinnedLines DEF Forms, Writes
    <2>2. mode' = "none" => \A i \in 1..Len(Emitted') : Emitted'[i].kind = "exited"
        BY <1>1, <1>4 DEF Forms
    <2>3. mode' # "none" => Writes(mode = "wrapped")'
        <3>1. CASE mode' = mode
            BY <1>1, <3>1 DEF Forms, Writes
        <3>2. CASE mode = "none" /\ mode' = "wrapped" /\ held # <<>>
            <4>1. 1 \in 1..Len(Pending) /\ Pending[1] = held[1] /\ 1 \in 1..Len(held)
                <5>1. Len(held) # 0
                    BY <1>1, <3>2, EmptySeq DEF Shaped
                <5> QED
                    BY <1>1, <5>1, SequenceFacts
            <4>2. held[1] \in Notice /\ held[1].wrapped
                BY <1>1, <4>1, ElementOfSeq DEF Forms, Shaped
            <4>3. held[1].kind # "answer"
                BY <4>2, LineFacts
            <4>4. Writes(TRUE)
                BY <1>1, <4>1, <4>2, <4>3 DEF Forms, Writes
            <4> QED
                BY <3>2, <4>4 DEF Writes
        <3> QED
            BY <3>1, <3>2
    <2> QED
        BY <2>1, <2>2, <2>3 DEF Forms
<1>6. Caused'
    <2>1. \A i \in 1..Len(Pending') :
             Pending'[i].kind = "answer" => Pending'[i].request.turn \in cancelled' \cup {None}
        BY <1>1, ThinnedLines DEF Caused
    <2>2. \A i \in 1..Len(Emitted') :
             Emitted'[i].kind = "forced" => Emitted'[i].turn \in cancelled'
        BY <1>1, <1>4 DEF Caused
    <2> QED
        BY <2>1, <2>2 DEF Caused
<1> QED
    BY <1>3, <1>5, <1>6 DEF TurnsInv

\* The lines that leave were not heeded, or answers.
LEMMA LossFacts ==
    ASSUME Shaped, Shaped', NEW n, Dropped(n),
           \A i \in 1..n : \/ Pending[i].kind = "answer"
                           \/ \A w \in BOOLEAN : Pending[i].wrapped = w => ~Heeds(w)'
    PROVE  /\ Thinned
           /\ \A w \in BOOLEAN, kind \in {"started", "output"} : \A t, k :
                 Heeds(w)' /\ Awaited(kind, t, k, w) /\ (kind = "started" => k = 0)
                 => Reported(kind, t, k)' \/ Awaited(kind, t, k, w)'
<1>1. /\ Thinned
      /\ \A kind, t, k, w : Awaited(kind, t, k, w) => Awaited(kind, t, k, w)' \/
            \E i \in 1..n :
               Pending[i] = [kind |-> kind, turn |-> t, piece |-> k, wrapped |-> w]
    BY DropThins
<1>2. ASSUME NEW w \in BOOLEAN, NEW kind \in {"started", "output"}, NEW t, NEW k, Heeds(w)',
             Awaited(kind, t, k, w)
      PROVE  Awaited(kind, t, k, w)'
    <2> SUFFICES ASSUME NEW i \in 1..n,
                        Pending[i] = [kind |-> kind, turn |-> t, piece |-> k, wrapped |-> w]
                 PROVE  FALSE
        BY <1>1, <1>2
    <2> QED
        BY <1>2
<1> QED
    BY <1>1, <1>2

LEMMA ReadWrappedKeeps == Bounded /\ TurnsInv /\ ReadWrapped => TurnsInv'
<1> SUFFICES ASSUME Bounded, TurnsInv, ReadWrapped PROVE TurnsInv'
    OBVIOUS
<1> DEFINE line == Head(pipe)
<1>1. /\ pipe # <<>> /\ pipe' = Tail(pipe) /\ line.kind # "answer" /\ line.wrapped
      /\ mode = "wrapped" => held = <<>>
      /\ UNCHANGED <<codexVars, mode, requests, timers, pastVars>>
      /\ \/ mode = "direct" /\ UNCHANGED <<held, turnVars, buffer, log>>
         \/ mode = "none" /\ held' = Append(held, line) /\ UNCHANGED <<turnVars, buffer, log>>
         \/ mode = "wrapped" /\ Process(line) /\ UNCHANGED held
    BY DEF ReadWrapped, ReadLine, Replaying
<1>2. Shaped /\ Forms /\ Caused
    BY DEF TurnsInv
<1>3. /\ line = pipe[1] /\ line \in Notice /\ pipe' \in Seq(Line) /\ Len(held) \in Nat
      /\ Len(held) + 1 \in 1..Len(Pending) /\ Pending[Len(held) + 1] = line
    <2>1. pipe \in Seq(Line)
        BY <1>2 DEF Shaped
    <2>2. line = pipe[1] /\ line \in Line /\ pipe' \in Seq(Line) /\ Len(pipe) \in Nat \ {0}
        BY <1>1, <2>1, HeadTailProperties, EmptySeq
    <2>3. Len(held) + 1 \in 1..Len(Pending) /\ Pending[Len(held) + 1] = pipe[Len(held) + 1 - Len(held)]
        BY <1>2, <2>2, SequenceFacts
    <2>4. Len(held) + 1 - Len(held) = 1 /\ Len(held) \in Nat
        BY <1>2, SequenceFacts
    <2> QED
        BY <1>1, <2>2, <2>3, <2>4, LineFacts
<1> HIDE DEF line
<1>4. CASE mode = "wrapped"
    <2>1. held = <<>> /\ held' = <<>> /\ Process(line) /\ Len(held) = 0 /\ mode' = mode
        BY <1>1, <1>4
    <2>2. Shaped' => Dropped(Len(held) + 1)
        BY <1>1, <1>2, <2>1, DropFacts
    <2>3. 1 \in 1..Len(Pending) /\ Pending[1] = line /\ (Shaped' => Dropped(1))
        BY <1>3, <2>1, <2>2
    <2>4. held' \in Seq(Notice) /\ Len(held') = 0
        BY <2>1, EmptySeq
    <2>5. line.wrapped = (mode' = "wrapped") /\ mode' = "wrapped"
        BY <1>1, <1>3, <1>4, LineFacts
    <2>6. \A i \in 1..(1 - 1) :
             Pending[i].kind = "answer" \/ Pending[i].wrapped # (mode' = "wrapped")
        OBVIOUS
    <2>7. UNCHANGED <<codexVars, requests, timers, pastVars>> /\ mode' = mode /\ pipe' \in Seq(Line)
        BY <1>1, <1>3
    <2>8. \A i \in 1..Len(held') : held'[i].wrapped
        BY <2>4
    <2>9. Pending[1].kind # "answer" /\ Process(Pending[1]) /\ Pending[1].wrapped = (mode' = "wrapped")
        BY <1>1, <2>1, <2>3, <2>5
    <2>10. mode' \in {"direct", "wrapped"} /\ (mode' = "direct" => held' = <<>>)
        BY <2>5
    <2> QED
        BY <2>3, <2>4, <2>6, <2>7, <2>8, <2>9, <2>10, ProcessKeeps
<1>5. CASE mode # "wrapped"
    <2>1. UNCHANGED <<turnVars, buffer, log>> /\ Emitted' = Emitted /\ mode' = mode
        BY <1>1, <1>5 DEF Emitted
    <2>2. held' \in Seq(Notice) /\ \A i \in 1..Len(held') : held'[i].wrapped
        <3>1. held \in Seq(Notice) /\ \A i \in 1..Len(held) : held[i].wrapped
            BY <1>2 DEF Shaped, Forms
        <3>2. CASE held' = Append(held, line)
            <4>1. /\ held' \in Seq(Notice) /\ Len(held') = Len(held) + 1
                  /\ \A i \in 1..Len(held) : held'[i] = held[i]
                  /\ held'[Len(held) + 1] = line
                BY <1>3, <3>1, <3>2, AppendProperties
            <4>2. \A i \in 1..Len(held') : i \in 1..Len(held) \/ i = Len(held) + 1
                BY <1>3, <4>1
            <4> QED
                BY <1>1, <3>1, <4>1, <4>2
        <3>3. CASE held' = held
            BY <3>1, <3>3
        <3> QED
            BY <1>1, <1>5, <3>2, <3>3
    <2>3. Shaped'
        BY <1>1, <1>2, <1>3, <2>1, <2>2 DEF Shaped, codexVars, pastVars, turnVars
    <2>4. Bounds' /\ Orderly' /\ Agrees'
        BY <1>1, <2>1, QuietKeeps DEF pastVars
    <2>5. /\ Thinned
          /\ \A w \in BOOLEAN, kind \in {"started", "output"} : \A t, k :
                Heeds(w)' /\ Awaited(kind, t, k, w) /\ (kind = "started" => k = 0)
                => Reported(kind, t, k)' \/ Awaited(kind, t, k, w)'
        <3>1. CASE mode = "none"
            <4>1. Dropped(0)
                BY <1>1, <1>2, <2>3, <3>1, DropFacts DEF line
            <4> QED
                BY <1>2, <2>3, <4>1, LossFacts
        <3>2. CASE mode = "direct"
            <4>1. held = <<>> /\ held' = <<>> /\ Len(held) = 0
                BY <1>1, <1>2, <3>2 DEF Forms
            <4>2. Dropped(Len(held) + 1)
                BY <1>1, <1>2, <2>3, <4>1, DropFacts
            <4>3. Dropped(1) /\ Pending[1] = line
                BY <1>3, <4>1, <4>2
            <4>4. ~Heeds(TRUE)'
                BY <2>1, <3>2 DEF Heeds
            <4>5. \A i \in 1..1 : \A w \in BOOLEAN : Pending[i].wrapped = w => ~Heeds(w)'
                <5>1. \A i \in 1..1 : i = 1
                    OBVIOUS
                <5>2. \A w \in BOOLEAN : line.wrapped = w => w = TRUE
                    BY <1>1
                <5> QED
                    BY <4>3, <4>4, <5>1, <5>2
            <4> QED
                BY <1>2, <2>3, <4>3, <4>5, LossFacts
        <3> QED
            BY <1>2, <1>5, <3>1, <3>2 DEF Shaped
    <2>6. /\ UNCHANGED <<build, turns, busy, written, cut, cancelled, timers, requests>>
          /\ \A i \in 1..Len(buffer') : buffer'[i].kind = "output"
          /\ mode' = "direct" => held' = <<>>
        BY <1>1, <1>2, <1>5, <2>1 DEF Forms, codexVars, pastVars
    <2>7. timers' \subseteq cancelled' /\ \A r \in requests' : r.turn \in cancelled' \cup {None}
        BY <1>2, <2>6 DEF Caused
    <2> QED
        BY <2>1, <2>2, <2>3, <2>4, <2>5, <2>6, <2>7, StillKeeps
<1> QED
    BY <1>4, <1>5

LEMMA ReadDirectKeeps == Bounded /\ TurnsInv /\ ReadDirect => TurnsInv'
<1> SUFFICES ASSUME Bounded, TurnsInv, ReadDirect PROVE TurnsInv'
    OBVIOUS
<1> DEFINE line == Head(pipe)
<1>1. /\ pipe # <<>> /\ pipe' = Tail(pipe) /\ line.kind # "answer" /\ ~line.wrapped
      /\ mode = "wrapped" => held = <<>>
      /\ UNCHANGED <<codexVars, requests, timers, pastVars>>
      /\ mode' = IF mode = "none" THEN "direct" ELSE mode
      /\ IF mode = "wrapped" THEN UNCHANGED <<held, turnVars, buffer, log>>
         ELSE Process(line) /\ held' = <<>>
    BY DEF ReadDirect, ReadLine, Replaying
<1>2. Shaped /\ Forms /\ Caused
    BY DEF TurnsInv
<1>3. /\ line = pipe[1] /\ line \in Notice /\ pipe' \in Seq(Line) /\ Len(held) \in Nat
      /\ Len(held) + 1 \in 1..Len(Pending) /\ Pending[Len(held) + 1] = line
    <2>1. pipe \in Seq(Line)
        BY <1>2 DEF Shaped
    <2>2. line = pipe[1] /\ line \in Line /\ pipe' \in Seq(Line) /\ Len(pipe) \in Nat \ {0}
        BY <1>1, <2>1, HeadTailProperties, EmptySeq
    <2>3. Len(held) + 1 \in 1..Len(Pending) /\ Pending[Len(held) + 1] = pipe[Len(held) + 1 - Len(held)]
        BY <1>2, <2>2, SequenceFacts
    <2>4. Len(held) + 1 - Len(held) = 1 /\ Len(held) \in Nat
        BY <1>2, SequenceFacts
    <2> QED
        BY <1>1, <2>2, <2>3, <2>4, LineFacts
<1>4. line.wrapped = FALSE
    BY <1>1, <1>3, LineFacts
<1> HIDE DEF line
<1>5. CASE mode # "wrapped"
    <2>1. mode' = "direct" /\ held' = <<>> /\ Process(line) /\ (mode = "none" \/ mode' = mode)
        BY <1>1, <1>2, <1>5 DEF Shaped
    <2>2. Shaped' => Dropped(Len(held) + 1)
        BY <1>1, <1>2, <2>1, DropFacts
    <2>3. held' \in Seq(Notice) /\ Len(held') = 0 /\ \A i \in 1..Len(held') : held'[i].wrapped
        BY <2>1, EmptySeq
    <2>4. ASSUME NEW i \in 1..(Len(held) + 1 - 1)
          PROVE  Pending[i].kind = "answer" \/ Pending[i].wrapped # (mode' = "wrapped")
        <3>1. i \in 1..Len(held)
            BY <1>3
        <3>2. Pending[i] = held[i] /\ held[i] \in Notice /\ held[i].wrapped
            <4>1. held \in Seq(Notice)
                BY <1>2 DEF Shaped
            <4>2. held[i] \in Notice
                BY <3>1, <4>1, ElementOfSeq
            <4>3. Pending[i] = held[i]
                BY <1>2, <3>1, SequenceFacts
            <4>4. held[i].wrapped
                BY <1>2, <3>1 DEF Forms
            <4> QED
                BY <4>2, <4>3, <4>4
        <3>3. held[i].wrapped = TRUE
            BY <3>2, LineFacts
        <3> QED
            BY <2>1, <3>2, <3>3
    <2>5. /\ Pending[Len(held) + 1].kind # "answer" /\ Process(Pending[Len(held) + 1])
          /\ Pending[Len(held) + 1].wrapped = (mode' = "wrapped")
        BY <1>1, <1>3, <1>4, <2>1
    <2>6. mode' \in {"direct", "wrapped"} /\ (mode' = "direct" => held' = <<>>)
        BY <2>1
    <2>7. UNCHANGED <<codexVars, requests, timers, pastVars>> /\ pipe' \in Seq(Line)
        BY <1>1, <1>3
    <2> QED
        BY <1>3, <2>1, <2>2, <2>3, <2>4, <2>5, <2>6, <2>7, ProcessKeeps
<1>6. CASE mode = "wrapped"
    <2>1. /\ UNCHANGED <<held, turnVars, buffer, log>> /\ Emitted' = Emitted /\ mode' = mode
          /\ held = <<>> /\ held' = <<>> /\ Len(held) = 0
        BY <1>1, <1>6 DEF Emitted
    <2>2. Shaped'
        BY <1>1, <1>2, <1>3, <2>1 DEF Shaped, codexVars, pastVars, turnVars
    <2>3. Bounds' /\ Orderly' /\ Agrees'
        BY <1>1, <2>1, QuietKeeps DEF pastVars
    <2>4. Dropped(1) /\ Pending[1] = line
        <3>1. Dropped(Len(held) + 1)
            BY <1>1, <1>2, <2>1, <2>2, DropFacts
        <3> QED
            BY <1>3, <2>1, <3>1
    <2>5. ~Heeds(FALSE)'
        BY <1>6, <2>1 DEF Heeds
    <2>6. \A i \in 1..1 : \A w \in BOOLEAN : Pending[i].wrapped = w => ~Heeds(w)'
        <3>1. \A i \in 1..1 : i = 1
            OBVIOUS
        <3>2. \A w \in BOOLEAN : line.wrapped = w => w = FALSE
            BY <1>4
        <3> QED
            BY <2>4, <2>5, <3>1, <3>2
    <2>7. /\ Thinned
          /\ \A w \in BOOLEAN, kind \in {"started", "output"} : \A t, k :
                Heeds(w)' /\ Awaited(kind, t, k, w) /\ (kind = "started" => k = 0)
                => Reported(kind, t, k)' \/ Awaited(kind, t, k, w)'
        BY <1>2, <2>2, <2>4, <2>6, LossFacts
    <2>8. /\ UNCHANGED <<build, turns, busy, written, cut, cancelled, timers, requests>>
          /\ \A i \in 1..Len(buffer') : buffer'[i].kind = "output"
          /\ mode' = "direct" => held' = <<>>
          /\ \A i \in 1..Len(held') : held'[i].wrapped
        BY <1>1, <1>2, <1>6, <2>1 DEF Forms, codexVars, pastVars
    <2>9. timers' \subseteq cancelled' /\ \A r \in requests' : r.turn \in cancelled' \cup {None}
        BY <1>2, <2>8 DEF Caused
    <2> QED
        BY <2>1, <2>2, <2>3, <2>7, <2>8, <2>9, StillKeeps
<1> QED
    BY <1>5, <1>6

LEMMA ReplayKeeps == Bounded /\ TurnsInv /\ Replay => TurnsInv'
<1> SUFFICES ASSUME Bounded, TurnsInv, Replay PROVE TurnsInv'
    OBVIOUS
<1>1. /\ mode = "wrapped" /\ held # <<>> /\ held' = Tail(held) /\ Process(Head(held)) /\ mode' = mode
      /\ pipe' = pipe /\ UNCHANGED <<codexVars, requests, timers, pastVars>>
    BY DEF Replay, Replaying
<1>2. Shaped /\ Forms
    BY DEF TurnsInv
<1>3. /\ Head(held) = held[1] /\ held' \in Seq(Notice) /\ Len(held) \in Nat \ {0} /\ Len(held') = Len(held) - 1
      /\ \A i \in 1..Len(held') : held'[i] = held[i + 1]
      /\ held[1] \in Notice
    <2>1. held \in Seq(Notice)
        BY <1>2 DEF Shaped
    <2> QED
        BY <1>1, <2>1, HeadTailProperties, EmptySeq
<1>4. 1 \in 1..Len(Pending) /\ Pending[1] = held[1]
    BY <1>2, <1>3, SequenceFacts
<1>5. held[1].wrapped = (mode' = "wrapped") /\ held[1].kind # "answer"
    <2>1. held[1].wrapped
        BY <1>2, <1>3 DEF Forms
    <2> QED
        BY <1>1, <1>3, <2>1, LineFacts
<1>6. Shaped' => Dropped(1)
    BY <1>1, <1>2, DropFacts
<1>7. \A i \in 1..Len(held') : held'[i].wrapped
    <2>1. \A i \in 1..Len(held') : i + 1 \in 1..Len(held)
        BY <1>3
    <2> QED
        BY <1>2, <1>3, <2>1 DEF Forms
<1>8. \A i \in 1..(1 - 1) : Pending[i].kind = "answer" \/ Pending[i].wrapped # (mode' = "wrapped")
    OBVIOUS
<1>9. pipe' \in Seq(Line)
    BY <1>1, <1>2 DEF Shaped
<1>10. /\ Pending[1].kind # "answer" /\ Process(Pending[1]) /\ Pending[1].wrapped = (mode' = "wrapped")
       /\ mode' \in {"direct", "wrapped"} /\ (mode = "none" \/ mode' = mode)
       /\ mode' = "direct" => held' = <<>>
    BY <1>1, <1>3, <1>4, <1>5
<1>11. UNCHANGED <<codexVars, requests, timers, pastVars>>
    BY <1>1
<1> QED
    BY <1>3, <1>4, <1>6, <1>7, <1>8, <1>9, <1>10, <1>11, ProcessKeeps

\* The lines stay: timers and cancel.
LEMMA LinesStay ==
    ASSUME Shaped, Shaped', UNCHANGED <<held, pipe>>
    PROVE  /\ Thinned
           /\ \A w \in BOOLEAN, kind \in {"started", "output"} : \A t, k :
                 Heeds(w)' /\ Awaited(kind, t, k, w) /\ (kind = "started" => k = 0)
                 => Reported(kind, t, k)' \/ Awaited(kind, t, k, w)'
<1>1. Dropped(0)
    BY DropFacts
<1> QED
    BY <1>1, LossFacts

LEMMA HoldTimerKeeps == Bounded /\ TurnsInv /\ HoldTimer => TurnsInv'
<1> SUFFICES ASSUME Bounded, TurnsInv, HoldTimer PROVE TurnsInv'
    OBVIOUS
<1>1. /\ mode = "none" /\ held # <<>> /\ mode' = "wrapped" /\ Emitted' = Emitted
      /\ UNCHANGED <<build, turns, busy, written, running, pipe, held, active, lastStarted, lastCompleted,
                     buffer, requests, timers, log, cancelled, unnamed, cut, cancels>>
    BY DEF HoldTimer, Emitted, codexVars, turnVars, pastVars
<1>2. Shaped /\ Forms /\ Caused
    BY DEF TurnsInv
<1>3. Shaped'
    BY <1>1, <1>2 DEF Shaped
<1>4. Bounds' /\ Orderly' /\ Agrees'
    BY <1>1, QuietKeeps DEF turnVars
<1>5. /\ \A i \in 1..Len(held') : held'[i].wrapped
      /\ \A i \in 1..Len(buffer') : buffer'[i].kind = "output"
    BY <1>1, <1>2 DEF Forms
<1>6. timers' \subseteq cancelled' /\ \A r \in requests' : r.turn \in cancelled' \cup {None}
    BY <1>1, <1>2 DEF Caused
<1> QED
    BY <1>1, <1>2, <1>3, <1>4, <1>5, <1>6, LinesStay, StillKeeps

LEMMA FlushOutputKeeps == Bounded /\ TurnsInv /\ FlushOutput => TurnsInv'
<1> SUFFICES ASSUME Bounded, TurnsInv, FlushOutput PROVE TurnsInv'
    OBVIOUS
<1>1. /\ log' = log \o buffer /\ buffer' = <<>>
      /\ UNCHANGED <<build, turns, busy, written, running, pipe, mode, held, active, lastStarted,
                     lastCompleted, requests, timers, cancelled, unnamed, cut, cancels>>
    BY DEF FlushOutput, codexVars, turnVars, pastVars
<1>2. Shaped /\ Forms /\ Caused
    BY DEF TurnsInv
<1>3. Emitted' = Emitted /\ log' \in Seq(Entry) /\ buffer' \in Seq(Report) /\ Len(buffer') = 0
    BY <1>1, <1>2, FlushFacts, EmptySeq
<1>4. Shaped'
    BY <1>1, <1>2, <1>3 DEF Shaped
<1>5. Bounds' /\ Orderly' /\ Agrees'
    BY <1>1, <1>3, QuietKeeps DEF turnVars
<1>6. /\ \A i \in 1..Len(held') : held'[i].wrapped
      /\ \A i \in 1..Len(buffer') : buffer'[i].kind = "output"
      /\ mode' = "direct" => held' = <<>>
    BY <1>1, <1>2, <1>3 DEF Forms
<1>7. timers' \subseteq cancelled' /\ \A r \in requests' : r.turn \in cancelled' \cup {None}
    BY <1>1, <1>2 DEF Caused
<1> QED
    BY <1>1, <1>2, <1>3, <1>4, <1>5, <1>6, <1>7, LinesStay, StillKeeps

LEMMA CancelKeeps == Bounded /\ TurnsInv /\ Cancel => TurnsInv'
<1> SUFFICES ASSUME Bounded, TurnsInv, Cancel PROVE TurnsInv'
    OBVIOUS
<1>1. /\ cancels < MaxCancels /\ cancels' = cancels + 1
      /\ cancelled' = cancelled \cup ({active} \ {None}) /\ Emitted' = Emitted
      /\ \E stop \in BOOLEAN : requests' = requests \cup {[turn |-> active, stop |-> stop]}
      /\ UNCHANGED <<build, turns, busy, written, running, pipe, mode, held, active, lastStarted,
                     lastCompleted, buffer, timers, log, unnamed, cut>>
    BY DEF Cancel, Emitted, codexVars, turnVars
<1>2. Shaped /\ Forms /\ Caused
    BY DEF TurnsInv
<1>3. active \in Turn \cup {None}
    BY <1>2 DEF Shaped
<1>4. cancelled' \subseteq Turn /\ cancels' \in 0..MaxCancels /\ requests' \subseteq Request
    <2>1. cancels' \in 0..MaxCancels
        BY <1>1, <1>2 DEF Shaped, Bounded
    <2>2. \A stop \in BOOLEAN : [turn |-> active, stop |-> stop] \in Request
        BY <1>3 DEF Request
    <2> QED
        BY <1>1, <1>2, <1>3, <2>1, <2>2 DEF Shaped
<1>5. Shaped'
    BY <1>1, <1>2, <1>4 DEF Shaped
<1>6. Bounds' /\ Orderly' /\ Agrees'
    BY <1>1, QuietKeeps DEF turnVars
<1>7. /\ \A i \in 1..Len(held') : held'[i].wrapped
      /\ \A i \in 1..Len(buffer') : buffer'[i].kind = "output"
      /\ mode' = "direct" => held' = <<>>
    BY <1>1, <1>2 DEF Forms
<1>8. /\ timers' \subseteq cancelled' /\ cancelled \subseteq cancelled'
      /\ \A r \in requests' : r.turn \in cancelled' \cup {None}
    <2>1. active \in cancelled' \cup {None}
        BY <1>1
    <2> QED
        BY <1>1, <1>2, <2>1 DEF Caused
<1> QED
    BY <1>1, <1>2, <1>5, <1>6, <1>7, <1>8, LinesStay, StillKeeps

LEMMA ForceCompleteKeeps ==
    ASSUME Bounded, TurnsInv, NEW t \in Turn, ForceComplete(t)
    PROVE  TurnsInv'
<1>1. /\ t \in timers /\ timers' = timers \ {t}
      /\ UNCHANGED <<build, turns, busy, written, running, pipe, mode, held, requests, cancelled,
                     unnamed, cut, cancels>>
    BY DEF ForceComplete, codexVars, pastVars
<1>2. Shaped /\ Forms /\ Caused /\ Bounds /\ Past
    BY DEF TurnsInv
<1>3. /\ \A i \in 1..Len(held') : held'[i].wrapped
      /\ mode' = "direct" => held' = <<>>
      /\ timers' \subseteq cancelled' /\ timers' \subseteq Turn
      /\ \A r \in requests' : r.turn \in cancelled' \cup {None}
    BY <1>1, <1>2 DEF Forms, Caused, Shaped
<1>4. CASE active # t
    <2>1. UNCHANGED <<active, lastStarted, lastCompleted, buffer, log>> /\ Emitted' = Emitted
        BY <1>4 DEF ForceComplete, turnVars, Emitted
    <2>2. Shaped'
        BY <1>1, <1>2, <1>3, <2>1 DEF Shaped
    <2>3. Bounds' /\ Orderly' /\ Agrees'
        BY <1>1, <2>1, QuietKeeps DEF turnVars
    <2>4. \A i \in 1..Len(buffer') : buffer'[i].kind = "output"
        BY <1>2, <2>1 DEF Forms
    <2> QED
        BY <1>1, <1>2, <1>3, <2>1, <2>2, <2>3, <2>4, LinesStay, StillKeeps
<1>5. CASE active = t
    <2>1. active' = None /\ UNCHANGED <<lastStarted, lastCompleted>> /\ EmitAfterFlush(Event("forced", t, 0))
        BY <1>5 DEF ForceComplete
    <2>2. Event("forced", t, 0) \in Entry /\ 0 \in 0..MaxPieces
        BY NumberFacts, EventFacts
    <2>3. /\ Emitted' = Append(Emitted, Event("forced", t, 0)) /\ log' \in Seq(Entry)
          /\ buffer' = <<>>
        BY <1>2, <2>1, <2>2, EmitFacts
    <2>4. buffer' \in Seq(Report) /\ Len(buffer') = 0
        BY <2>3, EmptySeq
    <2>5. Shaped'
        BY <1>1, <1>2, <1>3, <2>1, <2>3, <2>4 DEF Shaped
    <2>6. Bounds' /\ Orderly' /\ Agrees'
        BY <1>1, <1>5, <2>1, <2>3, ForcedKeeps
    <2>7. PICK m \in 1..Len(Emitted) : Emitted[m] = Event("started", t, 0)
        BY <1>2, <1>5, NumberFacts DEF Bounds, Reported
    <2>8. mode # "none" /\ Happened(Event("started", t, 0))
        <3>1. Emitted[m].kind = "started"
            BY <2>7, EntryFacts
        <3> QED
            BY <1>2, <2>7, <3>1 DEF Forms, Past
    <2>9. Timely(Event("forced", t, 0)) /\ Event("forced", t, 0).kind = "forced"
          /\ Event("forced", t, 0).turn \in cancelled
        <3>1. Event("forced", t, 0).kind = "forced" /\ Event("forced", t, 0).turn = t
              /\ Event("started", t, 0).turn = t
            BY EntryFacts
        <3>2. t <= turns
            BY <2>8, <3>1 DEF Happened
        <3>3. Happened(Event("forced", t, 0))
            BY <3>1, <3>2 DEF Happened
        <3>4. Timely(Event("forced", t, 0))
            BY <3>1, <3>3 DEF Timely
        <3>5. t \in cancelled
            BY <1>1, <1>2 DEF Caused
        <3> QED
            BY <3>1, <3>4, <3>5
    <2>10. \E e \in Entry :
              /\ Emitted' = Append(Emitted, e) /\ Timely(e) /\ e.kind \in {"exited", "forced"}
              /\ e.kind = "forced" => mode # "none" /\ e.turn \in cancelled
        BY <2>2, <2>3, <2>8, <2>9
    <2>11. \A i \in 1..Len(buffer') : buffer'[i].kind = "output"
        BY <2>4
    <2> QED
        BY <1>1, <1>2, <1>3, <2>5, <2>6, <2>10, <2>11, LinesStay, StillKeeps
<1> QED
    BY <1>4, <1>5

LEMMA ReadAnswerKeeps == Bounded /\ TurnsInv /\ ReadAnswer => TurnsInv'
<1> SUFFICES ASSUME Bounded, TurnsInv, ReadAnswer PROVE TurnsInv'
    OBVIOUS
<1> DEFINE line == Head(pipe)
           stops == running /\ line.request.stop
<1>1. /\ pipe # <<>> /\ pipe' = Tail(pipe) /\ line.kind = "answer" /\ Head(pipe) = line
      /\ timers' = IF running THEN timers \cup ({line.request.turn} \ {None}) ELSE timers
      /\ IF stops
         THEN /\ held' = <<>> /\ cut' = (cut \/ held # <<>>)
              /\ log' = log \o buffer /\ buffer' = <<>>
         ELSE UNCHANGED <<held, cut, log, buffer>>
      /\ UNCHANGED <<build, turns, busy, written, running, mode, active, lastStarted, lastCompleted,
                     requests, cancelled, unnamed, cancels>>
    BY DEF ReadAnswer, ReadLine, codexVars, turnVars
<1>2. Shaped /\ Forms /\ Caused
    BY DEF TurnsInv
<1>3. /\ line = pipe[1] /\ line \in Reply /\ pipe' \in Seq(Line) /\ Len(held) \in Nat
      /\ Len(held) + 1 \in 1..Len(Pending) /\ Pending[Len(held) + 1] = line
    <2>1. pipe \in Seq(Line)
        BY <1>2 DEF Shaped
    <2>2. line = pipe[1] /\ line \in Line /\ pipe' \in Seq(Line) /\ Len(pipe) \in Nat \ {0}
        BY <1>1, <2>1, HeadTailProperties, EmptySeq
    <2>3. Len(held) + 1 \in 1..Len(Pending) /\ Pending[Len(held) + 1] = pipe[Len(held) + 1 - Len(held)]
        BY <1>2, <2>2, SequenceFacts
    <2>4. Len(held) + 1 - Len(held) = 1 /\ Len(held) \in Nat
        BY <1>2, SequenceFacts
    <2> QED
        BY <1>1, <2>2, <2>3, <2>4, LineFacts
<1> HIDE DEF line
<1>4. line.request.turn \in cancelled \cup {None} /\ line.request.turn \in Turn \cup {None}
    <2>1. line.request \in Request
        BY <1>3, LineFacts
    <2> QED
        BY <1>1, <1>2, <1>3, <2>1 DEF Caused, Request
<1>5. timers' \subseteq cancelled' /\ timers' \subseteq Turn
      /\ \A r \in requests' : r.turn \in cancelled' \cup {None}
    BY <1>1, <1>2, <1>4 DEF Caused, Shaped
<1>6. CASE stops
    <2>1. /\ held' = <<>> /\ cut' = (cut \/ held # <<>>) /\ buffer' = <<>>
          /\ Emitted' = Emitted /\ log' \in Seq(Entry)
        BY <1>1, <1>2, <1>6, FlushFacts
    <2>2. /\ held' \in Seq(Notice) /\ Len(held') = 0 /\ buffer' \in Seq(Report) /\ Len(buffer') = 0
          /\ cut' \in BOOLEAN /\ (cut => cut')
        BY <2>1, EmptySeq
    <2>3. Shaped'
        BY <1>1, <1>2, <1>3, <1>5, <2>1, <2>2 DEF Shaped
    <2>4. Bounds' /\ Orderly' /\ Agrees'
        BY <1>1, <2>1, <2>2, QuietKeeps DEF turnVars
    <2>5. Dropped(Len(held) + 1)
        BY <1>1, <1>2, <2>1, <2>3, DropFacts
    <2>6. Thinned
        BY <1>2, <2>3, <2>5, DropThins
    <2>7. ASSUME ~cut'
          PROVE  \A w \in BOOLEAN, kind \in {"started", "output"} : \A t, k :
                    Heeds(w)' /\ Awaited(kind, t, k, w) /\ (kind = "started" => k = 0)
                    => Reported(kind, t, k)' \/ Awaited(kind, t, k, w)'
        <3>1. Len(held) = 0
            <4>1. held = <<>>
                BY <2>1, <2>7, Zenon
            <4> QED
                BY <4>1
        <3>2. Dropped(1) /\ Pending[1].kind = "answer"
            BY <1>1, <1>3, <2>5, <3>1
        <3>3. \A i \in 1..1 : \/ Pending[i].kind = "answer"
                              \/ \A w \in BOOLEAN : Pending[i].wrapped = w => ~Heeds(w)'
            <4>1. \A i \in 1..1 : i = 1
                OBVIOUS
            <4> QED
                BY <3>2, <4>1
        <3> QED
            BY <1>2, <2>3, <3>2, <3>3, LossFacts
    <2>8. /\ \A i \in 1..Len(held') : held'[i].wrapped
          /\ \A i \in 1..Len(buffer') : buffer'[i].kind = "output"
          /\ mode' = "direct" => held' = <<>>
        BY <2>1, <2>2
    <2> QED
        BY <1>1, <1>5, <2>1, <2>2, <2>3, <2>4, <2>6, <2>7, <2>8, StillKeeps
<1>7. CASE ~stops
    <2>1. UNCHANGED <<held, cut, log, buffer>> /\ Emitted' = Emitted
        BY <1>1, <1>7 DEF Emitted
    <2>2. Shaped'
        BY <1>1, <1>2, <1>3, <1>5, <2>1 DEF Shaped
    <2>3. Bounds' /\ Orderly' /\ Agrees'
        BY <1>1, <2>1, QuietKeeps DEF turnVars
    <2>4. /\ Thinned
          /\ \A kind \in {"started", "output"} : \A t, k, w :
                Awaited(kind, t, k, w) => Awaited(kind, t, k, w)'
        BY <1>1, <1>2, <2>1, <2>2, AnswerThins
    <2>5. /\ \A i \in 1..Len(held') : held'[i].wrapped
          /\ \A i \in 1..Len(buffer') : buffer'[i].kind = "output"
          /\ mode' = "direct" => held' = <<>>
        BY <1>1, <1>2, <2>1 DEF Forms
    <2> QED
        BY <1>1, <1>5, <2>1, <2>2, <2>3, <2>4, <2>5, StillKeeps
<1> QED
    BY <1>6, <1>7

LEMMA CodexExitsKeeps == Bounded /\ TurnsInv /\ CodexExits => TurnsInv'
<1> SUFFICES ASSUME Bounded, TurnsInv, CodexExits PROVE TurnsInv'
    OBVIOUS
<1> DEFINE asked == requests \cup {r \in Request : \E i \in 1..Len(pipe) :
                                      pipe[i] = [kind |-> "answer", request |-> r]}
           e == [kind |-> "exited"]
<1>1. /\ running' = FALSE /\ held' = <<>> /\ cut' = (cut \/ held # <<>>) /\ EmitAfterFlush(e)
      /\ requests' = {} /\ timers' = timers \cup ({r.turn : r \in asked} \ {None})
      /\ UNCHANGED <<build, turns, busy, written, pipe, mode, active, lastStarted, lastCompleted,
                     cancelled, unnamed, cancels>>
    BY DEF CodexExits, turnVars
<1>2. Shaped /\ Forms /\ Caused
    BY DEF TurnsInv
<1>3. e \in Entry /\ e.kind = "exited" /\ Timely(e)
    BY EntryFacts DEF Timely
<1>4. Emitted' = Append(Emitted, e) /\ log' \in Seq(Entry) /\ buffer' = <<>>
    BY <1>1, <1>2, <1>3, EmitFacts
<1>5. ASSUME NEW r \in asked PROVE r.turn \in cancelled \cup {None} /\ r.turn \in Turn \cup {None}
    <2>1. CASE r \in requests
        BY <1>2, <2>1 DEF Caused, Shaped, Request
    <2>2. ASSUME r \in Request, NEW i \in 1..Len(pipe), pipe[i] = [kind |-> "answer", request |-> r]
          PROVE  r.turn \in cancelled \cup {None} /\ r.turn \in Turn \cup {None}
        <3>1. Len(held) + i \in 1..Len(Pending) /\ Pending[Len(held) + i] = pipe[Len(held) + i - Len(held)]
            BY <1>2, SequenceFacts
        <3>2. Len(held) + i - Len(held) = i
            BY <1>2, SequenceFacts
        <3>3. Pending[Len(held) + i].kind = "answer" /\ Pending[Len(held) + i].request = r
            BY <2>2, <3>1, <3>2
        <3> QED
            BY <1>2, <2>2, <3>1, <3>3 DEF Caused, Request
    <2> QED
        BY <2>1, <2>2
<1>6. timers' \subseteq cancelled' /\ timers' \subseteq Turn
      /\ \A r \in requests' : r.turn \in cancelled' \cup {None}
    <2>1. timers \subseteq cancelled /\ timers \subseteq Turn
        BY <1>2 DEF Caused, Shaped
    <2> HIDE DEF asked
    <2>2. {r.turn : r \in asked} \subseteq cancelled \cup {None}
          /\ {r.turn : r \in asked} \subseteq Turn \cup {None}
        BY <1>5
    <2> QED
        BY <1>1, <2>1, <2>2
<1> HIDE DEF asked, e
<1>7. /\ held' \in Seq(Notice) /\ Len(held') = 0 /\ buffer' \in Seq(Report) /\ Len(buffer') = 0
      /\ cut' \in BOOLEAN /\ (cut => cut')
    BY <1>1, <1>4, EmptySeq
<1>8. Shaped'
    BY <1>1, <1>2, <1>4, <1>6, <1>7 DEF Shaped
<1>9. Bounds' /\ Orderly' /\ Agrees'
    BY <1>1, <1>4, <1>7, ExitedKeeps DEF turnVars, e
<1>10. Dropped(Len(held))
    BY <1>1, <1>2, <1>8, DropFacts
<1>11. Thinned
    BY <1>2, <1>8, <1>10, DropThins
<1>12. ASSUME ~cut'
       PROVE  \A w \in BOOLEAN, kind \in {"started", "output"} : \A t, k :
                 Heeds(w)' /\ Awaited(kind, t, k, w) /\ (kind = "started" => k = 0)
                 => Reported(kind, t, k)' \/ Awaited(kind, t, k, w)'
    <2>1. Len(held) = 0 /\ Dropped(0)
        BY <1>1, <1>10, <1>12
    <2> QED
        BY <1>2, <1>8, <2>1, LossFacts
<1>13. /\ \A i \in 1..Len(held') : held'[i].wrapped
       /\ \A i \in 1..Len(buffer') : buffer'[i].kind = "output"
       /\ mode' = "direct" => held' = <<>>
    BY <1>1, <1>7
<1>14. \E a \in Entry :
          /\ Emitted' = Append(Emitted, a) /\ Timely(a) /\ a.kind \in {"exited", "forced"}
          /\ a.kind = "forced" => mode # "none" /\ a.turn \in cancelled
    BY <1>3, <1>4
<1> QED
    BY <1>1, <1>6, <1>7, <1>8, <1>9, <1>11, <1>12, <1>13, <1>14, StillKeeps

-----------------------------------------------------------------------------
(* Steps of Codex: lines are written.                                      *)

Kinds == {"started", "output", "completed"}

LEMMA WrittenFacts ==
    ASSUME Bounded, Shaped, NEW kind \in Kinds, NEW t \in Turn, NEW k \in 0..MaxPieces
    PROVE  \E new \in Seq(Notice) :
              /\ new = Written(kind, t, k)
              /\ \A i \in 1..Len(new) : /\ new[i].kind = kind /\ new[i].turn = t /\ new[i].piece = k
                                        /\ Writes(new[i].wrapped)
              /\ \A w \in BOOLEAN : Writes(w) =>
                    \E i \in 1..Len(new) :
                        new[i] = [kind |-> kind, turn |-> t, piece |-> k, wrapped |-> w]
              /\ \A j \in 1..Len(new) : \A i \in 1..(j - 1) :
                    new[i].wrapped = new[j].wrapped => kind = "completed"
<1> DEFINE wrapped == [kind |-> kind, turn |-> t, piece |-> k, wrapped |-> TRUE]
           direct == [kind |-> kind, turn |-> t, piece |-> k, wrapped |-> FALSE]
<1>1. wrapped \in Notice /\ direct \in Notice
    BY DEF Notice, Kinds
<1>2. /\ wrapped.kind = kind /\ wrapped.turn = t /\ wrapped.piece = k /\ wrapped.wrapped = TRUE
      /\ direct.kind = kind /\ direct.turn = t /\ direct.piece = k /\ direct.wrapped = FALSE
    OBVIOUS
<1>3. build \in {"direct", "wrapped", "wrappedTwice", "wrappedFirst", "directFirst"}
    BY DEF Shaped, Bounded, BuildKinds
<1>4. PICK new : new = Written(kind, t, k)
    OBVIOUS
<1>5. CASE build = "direct"
    <2>1. new = <<direct>> /\ Writes(FALSE) /\ ~Writes(TRUE)
        BY <1>4, <1>5 DEF Written, Writes
    <2> HIDE DEF direct, wrapped
    <2>2. new \in Seq(Notice) /\ Len(new) = 1 /\ new[1] = direct
        BY <1>1, <2>1
    <2>3. \A i \in 1..Len(new) : /\ new[i].kind = kind /\ new[i].turn = t /\ new[i].piece = k
                                 /\ Writes(new[i].wrapped)
        BY <1>2, <2>1, <2>2, \A i \in 1..1 : i = 1
    <2>4. \A w \in BOOLEAN : Writes(w) =>
              \E i \in 1..Len(new) :
                  new[i] = [kind |-> kind, turn |-> t, piece |-> k, wrapped |-> w]
        <3> SUFFICES ASSUME NEW w \in BOOLEAN, Writes(w)
                     PROVE  new[1] = [kind |-> kind, turn |-> t, piece |-> k, wrapped |-> w]
            BY <2>2
        <3>1. w = FALSE
            BY <2>1
        <3> QED
            BY <2>2, <3>1 DEF direct
    <2>5. \A j \in 1..Len(new) : \A i \in 1..(j - 1) : FALSE
        BY <2>2
    <2> QED
        BY <1>4, <2>2, <2>3, <2>4, <2>5
<1>6. CASE build = "wrapped" \/ (build = "wrappedTwice" /\ kind # "completed")
    <2>1. new = <<wrapped>> /\ Writes(TRUE) /\ ~Writes(FALSE)
        BY <1>4, <1>6 DEF Written, Writes
    <2> HIDE DEF direct, wrapped
    <2>2. new \in Seq(Notice) /\ Len(new) = 1 /\ new[1] = wrapped
        BY <1>1, <2>1
    <2>3. \A i \in 1..Len(new) : /\ new[i].kind = kind /\ new[i].turn = t /\ new[i].piece = k
                                 /\ Writes(new[i].wrapped)
        BY <1>2, <2>1, <2>2, \A i \in 1..1 : i = 1
    <2>4. \A w \in BOOLEAN : Writes(w) =>
              \E i \in 1..Len(new) :
                  new[i] = [kind |-> kind, turn |-> t, piece |-> k, wrapped |-> w]
        <3> SUFFICES ASSUME NEW w \in BOOLEAN, Writes(w)
                     PROVE  new[1] = [kind |-> kind, turn |-> t, piece |-> k, wrapped |-> w]
            BY <2>2
        <3>1. w = TRUE
            BY <2>1
        <3> QED
            BY <2>2, <3>1 DEF wrapped
    <2>5. \A j \in 1..Len(new) : \A i \in 1..(j - 1) : FALSE
        BY <2>2
    <2> QED
        BY <1>4, <2>2, <2>3, <2>4, <2>5
<1>7. CASE build = "wrappedTwice" /\ kind = "completed"
    <2>1. new = <<wrapped, wrapped>> /\ Writes(TRUE) /\ ~Writes(FALSE)
        BY <1>4, <1>7 DEF Written, Writes
    <2> HIDE DEF direct, wrapped
    <2>2. new \in Seq(Notice) /\ Len(new) = 2 /\ new[1] = wrapped /\ new[2] = wrapped
        BY <1>1, <2>1
    <2>3. \A i \in 1..Len(new) : /\ new[i].kind = kind /\ new[i].turn = t /\ new[i].piece = k
                                 /\ Writes(new[i].wrapped)
        BY <1>2, <2>1, <2>2, \A i \in 1..2 : i = 1 \/ i = 2
    <2>4. \A w \in BOOLEAN : Writes(w) =>
              \E i \in 1..Len(new) :
                  new[i] = [kind |-> kind, turn |-> t, piece |-> k, wrapped |-> w]
        <3> SUFFICES ASSUME NEW w \in BOOLEAN, Writes(w)
                     PROVE  \/ new[1] = [kind |-> kind, turn |-> t, piece |-> k, wrapped |-> w]
                            \/ new[2] = [kind |-> kind, turn |-> t, piece |-> k, wrapped |-> w]
            BY <2>2, 1 \in 1..2, 2 \in 1..2
        <3>1. w = TRUE
            BY <2>1
        <3> QED
            BY <2>2, <3>1 DEF wrapped
    <2>5. \A j \in 1..Len(new) : \A i \in 1..(j - 1) : i = 1 /\ j = 2
        BY <2>2
    <2>6. \A j \in 1..Len(new) : \A i \in 1..(j - 1) : kind = "completed"
        BY <1>7
    <2> QED
        BY <1>4, <2>2, <2>3, <2>4, <2>6
<1>8. CASE build = "wrappedFirst"
    <2>1. new = <<wrapped, direct>> /\ Writes(TRUE) /\ Writes(FALSE)
        BY <1>4, <1>8 DEF Written, Writes
    <2> HIDE DEF direct, wrapped
    <2>2. new \in Seq(Notice) /\ Len(new) = 2 /\ new[1] = wrapped /\ new[2] = direct
        BY <1>1, <2>1
    <2>3. \A i \in 1..Len(new) : /\ new[i].kind = kind /\ new[i].turn = t /\ new[i].piece = k
                                 /\ Writes(new[i].wrapped)
        BY <1>2, <2>1, <2>2, \A i \in 1..2 : i = 1 \/ i = 2
    <2>4. \A w \in BOOLEAN : Writes(w) =>
              \E i \in 1..Len(new) :
                  new[i] = [kind |-> kind, turn |-> t, piece |-> k, wrapped |-> w]
        <3> SUFFICES ASSUME NEW w \in BOOLEAN, Writes(w)
                     PROVE  \/ new[1] = [kind |-> kind, turn |-> t, piece |-> k, wrapped |-> w]
                            \/ new[2] = [kind |-> kind, turn |-> t, piece |-> k, wrapped |-> w]
            BY <2>2, 1 \in 1..2, 2 \in 1..2
        <3>1. w = TRUE => new[1] = [kind |-> kind, turn |-> t, piece |-> k, wrapped |-> w]
            BY <2>2 DEF wrapped
        <3>2. w = FALSE => new[2] = [kind |-> kind, turn |-> t, piece |-> k, wrapped |-> w]
            BY <2>2 DEF direct
        <3> QED
            BY <2>2, <3>1, <3>2
    <2>5. \A j \in 1..Len(new) : \A i \in 1..(j - 1) : i = 1 /\ j = 2
        BY <2>2
    <2>6. \A j \in 1..Len(new) : \A i \in 1..(j - 1) : new[i].wrapped # new[j].wrapped
        BY <1>2, <2>2, <2>5
    <2> QED
        BY <1>4, <2>2, <2>3, <2>4, <2>6
<1>9. CASE build = "directFirst"
    <2>1. new = <<direct, wrapped>> /\ Writes(TRUE) /\ Writes(FALSE)
        BY <1>4, <1>9 DEF Written, Writes
    <2> HIDE DEF direct, wrapped
    <2>2. new \in Seq(Notice) /\ Len(new) = 2 /\ new[1] = direct /\ new[2] = wrapped
        BY <1>1, <2>1
    <2>3. \A i \in 1..Len(new) : /\ new[i].kind = kind /\ new[i].turn = t /\ new[i].piece = k
                                 /\ Writes(new[i].wrapped)
        BY <1>2, <2>1, <2>2, \A i \in 1..2 : i = 1 \/ i = 2
    <2>4. \A w \in BOOLEAN : Writes(w) =>
              \E i \in 1..Len(new) :
                  new[i] = [kind |-> kind, turn |-> t, piece |-> k, wrapped |-> w]
        <3> SUFFICES ASSUME NEW w \in BOOLEAN, Writes(w)
                     PROVE  \/ new[1] = [kind |-> kind, turn |-> t, piece |-> k, wrapped |-> w]
                            \/ new[2] = [kind |-> kind, turn |-> t, piece |-> k, wrapped |-> w]
            BY <2>2, 1 \in 1..2, 2 \in 1..2
        <3>1. w = FALSE => new[1] = [kind |-> kind, turn |-> t, piece |-> k, wrapped |-> w]
            BY <2>2 DEF direct
        <3>2. w = TRUE => new[2] = [kind |-> kind, turn |-> t, piece |-> k, wrapped |-> w]
            BY <2>2 DEF wrapped
        <3> QED
            BY <2>2, <3>1, <3>2
    <2>5. \A j \in 1..Len(new) : \A i \in 1..(j - 1) : i = 1 /\ j = 2
        BY <2>2
    <2>6. \A j \in 1..Len(new) : \A i \in 1..(j - 1) : new[i].wrapped # new[j].wrapped
        BY <1>2, <2>2, <2>5
    <2> QED
        BY <1>4, <2>2, <2>3, <2>4, <2>6
<1> QED
    BY <1>3, <1>5, <1>6, <1>7, <1>8, <1>9

\* What Codex writes is news, and follows all that has happened.
LEMMA CodexKeeps ==
    ASSUME Bounded, TurnsInv, Shaped', NEW new \in Seq(Line), pipe' = pipe \o new,
           UNCHANGED <<build, running, mode, held, active, lastStarted, lastCompleted, buffer,
                       timers, log, cancelled, cut, cancels>>,
           \A a \in Notice \cup Report : Happened(a) => Happened(a)',
           \A i \in 1..Len(new) : new[i].kind # "answer" =>
              /\ Happened(new[i])' /\ Writes(new[i].wrapped)
              /\ \A a \in Notice \cup Report : a.kind \in Kinds /\ Happened(a) => Before(a, new[i]),
           \A j \in 1..Len(new) : \A i \in 1..(j - 1) :
              /\ new[i].kind # "answer" /\ new[j].kind # "answer"
              /\ new[i].wrapped = new[j].wrapped
              => Before(new[i], new[j]),
           \A w \in BOOLEAN : Writes(w) => \A t \in 1..turns' :
              /\ \/ t \in 1..turns
                 \/ \E i \in 1..Len(new) :
                       new[i] = [kind |-> "started", turn |-> t, piece |-> 0, wrapped |-> w]
              /\ \A k \in 1..written'[t] :
                    \/ t \in 1..turns /\ k \in 1..written[t]
                    \/ \E i \in 1..Len(new) :
                          new[i] = [kind |-> "output", turn |-> t, piece |-> k, wrapped |-> w],
           requests' \subseteq requests,
           \A i \in 1..Len(new) : new[i].kind = "answer" => new[i].request \in requests
    PROVE  TurnsInv'
<1>1. Shaped /\ Forms /\ Past /\ Sorted /\ Behind /\ Covered /\ Bounds /\ Orderly /\ Caused /\ Agrees
    BY DEF TurnsInv
<1>2. Emitted' = Emitted /\ Emitted \in Seq(Entry) /\ Pending \in Seq(Line)
    BY <1>1, SequenceFacts DEF Emitted
<1>3. Pending' = Pending \o new
    <2>1. held \in Seq(Line) /\ pipe \in Seq(Line)
        BY <1>1, SequenceFacts DEF Shaped
    <2>2. held \o (pipe \o new) = (held \o pipe) \o new
        BY <2>1, ConcatAssociative
    <2> QED
        BY <2>2 DEF Pending
<1>4. /\ Len(Pending) \in Nat /\ Len(new) \in Nat /\ Len(Pending') = Len(Pending) + Len(new)
      /\ \A i \in 1..Len(Pending') :
            Pending'[i] = IF i <= Len(Pending) THEN Pending[i] ELSE new[i - Len(Pending)]
    BY <1>2, <1>3, ConcatProperties, LenProperties
<1>5. \A i \in 1..Len(Pending') :
         \/ i \in 1..Len(Pending) /\ Pending'[i] = Pending[i]
         \/ i > Len(Pending) /\ i - Len(Pending) \in 1..Len(new) /\ Pending'[i] = new[i - Len(Pending)]
    BY <1>4
<1>6. \A i \in 1..Len(new) :
         Len(Pending) + i \in 1..Len(Pending') /\ Pending'[Len(Pending) + i] = new[i]
    <2> SUFFICES ASSUME NEW i \in 1..Len(new)
                 PROVE  Len(Pending) + i \in 1..Len(Pending') /\ Pending'[Len(Pending) + i] = new[i]
        OBVIOUS
    <2>1. Len(Pending) + i \in 1..Len(Pending') /\ ~(Len(Pending) + i <= Len(Pending))
          /\ Len(Pending) + i - Len(Pending) = i
        BY <1>4
    <2> QED
        BY <1>4, <2>1
<1>7. \A i \in 1..Len(Pending) : i \in 1..Len(Pending') /\ Pending'[i] = Pending[i]
    BY <1>4
<1>8. \A i \in 1..Len(Pending) : Pending[i] \in Line
    BY <1>2, ElementOfSeq
<1>9. \A i \in 1..Len(Emitted) : Emitted[i] \in Entry
    BY <1>2, ElementOfSeq
<1>10. \A w : (Writes(w)' <=> Writes(w)) /\ (Heeds(w)' <=> Heeds(w))
    BY DEF Writes, Heeds
<1>11. Forms'
    <2>1. \A i \in 1..Len(Pending') : Pending'[i].kind # "answer" => Writes(Pending[i].wrapped)'
        BY <1>1, <1>5 DEF Forms, Writes
    <2>2. /\ \A i \in 1..Len(held') : held'[i].wrapped
          /\ \A i \in 1..Len(buffer') : buffer'[i].kind = "output"
          /\ mode' = "direct" => held' = <<>>
          /\ mode' = "none" => \A i \in 1..Len(Emitted') : Emitted'[i].kind = "exited"
        BY <1>1, <1>2 DEF Forms
    <2>3. mode' # "none" => Writes(mode = "wrapped")'
        BY <1>1 DEF Forms, Writes
    <2> QED
        BY <2>1, <2>2, <2>3 DEF Forms
<1>12. Past'
    <2>1. ASSUME NEW i \in 1..Len(Pending'), Pending'[i].kind # "answer"
          PROVE  \E a : a = Pending'[i] /\ Happened(a)'
        <3>1. CASE i \in 1..Len(Pending) /\ Pending'[i] = Pending[i]
            <4>1. Pending[i] \in Notice /\ Happened(Pending[i])
                BY <1>1, <1>8, <2>1, <3>1, LineFacts DEF Past
            <4>2. PICK a : a = Pending[i]
                OBVIOUS
            <4> QED
                BY <3>1, <4>1, <4>2
        <3>2. ASSUME NEW m \in 1..Len(new), Pending'[i] = new[m]
              PROVE  \E a : a = Pending'[i] /\ Happened(a)'
            BY <2>1, <3>2
        <3> QED
            BY <1>5, <3>1, <3>2
    <2>2. ASSUME NEW i \in 1..Len(Emitted), Emitted[i].kind # "exited"
          PROVE  \E a : a = Emitted'[i] /\ Happened(a)'
        <3>1. Emitted[i] \in Report /\ Happened(Emitted[i])
            BY <1>1, <1>9, <2>2, EntryFacts DEF Past
        <3>2. PICK a : a = Emitted[i]
            OBVIOUS
        <3> QED
            BY <1>2, <3>1, <3>2
    <2> QED
        BY <1>2, <2>1, <2>2 DEF Past, Happened
<1>13. Sorted'
    <2> SUFFICES ASSUME NEW j \in 1..Len(Pending'), NEW i \in 1..(j - 1),
                        Pending'[i].kind # "answer", Pending'[j].kind # "answer",
                        Pending'[i].wrapped = Pending'[j].wrapped
                 PROVE  Before(Pending'[i], Pending'[j])
        BY DEF Sorted, Before
    <2>1. i \in 1..Len(Pending') /\ i < j
        BY <1>4
    <2>2. CASE j \in 1..Len(Pending) /\ Pending'[j] = Pending[j]
        <3>1. i \in 1..Len(Pending) /\ Pending'[i] = Pending[i]
            BY <1>4, <1>7, <2>1, <2>2
        <3> QED
            BY <1>1, <2>2, <3>1 DEF Sorted
    <2>3. CASE j > Len(Pending) /\ j - Len(Pending) \in 1..Len(new) /\ Pending'[j] = new[j - Len(Pending)]
        <3>1. CASE i \in 1..Len(Pending) /\ Pending'[i] = Pending[i]
            <4>1. Pending[i] \in Notice /\ Happened(Pending[i]) /\ Pending[i].kind \in Kinds
                BY <1>1, <1>8, <3>1, LineFacts DEF Past, Kinds
            <4> QED
                BY <2>3, <3>1, <4>1
        <3>2. CASE i > Len(Pending) /\ i - Len(Pending) \in 1..Len(new) /\ Pending'[i] = new[i - Len(Pending)]
            <4>1. i - Len(Pending) \in 1..(j - Len(Pending) - 1)
                BY <1>4, <2>1, <2>3, <3>2
            <4> QED
                BY <2>3, <3>2, <4>1
        <3> QED
            BY <1>5, <2>1, <3>1, <3>2
    <2> QED
        BY <1>5, <2>2, <2>3
<1>14. Behind'
    <2> SUFFICES ASSUME NEW i \in 1..Len(Emitted), NEW j \in 1..Len(Pending'),
                        Emitted[i].kind \notin {"exited", "forced"}, Counts(Pending[j])'
                 PROVE  Before(Emitted[i], Pending'[j])
        BY <1>2 DEF Behind, Before
    <2>1. CASE j \in 1..Len(Pending) /\ Pending'[j] = Pending[j]
        <3>1. Counts(Pending[j])
            BY <1>10, <2>1 DEF Counts, Heeds, Writes
        <3> QED
            BY <1>1, <2>1, <3>1 DEF Behind
    <2>2. ASSUME NEW m \in 1..Len(new), Pending'[j] = new[m]
          PROVE  Before(Emitted[i], Pending'[j])
        <3>1. Emitted[i] \in Report /\ Happened(Emitted[i]) /\ Emitted[i].kind \in Kinds
            BY <1>1, <1>9, EntryFacts DEF Past, Kinds, Boundary
        <3>2. new[m].kind # "answer"
            BY <2>2 DEF Counts
        <3> QED
            BY <2>2, <3>1, <3>2
    <2> QED
        BY <1>5, <2>1, <2>2
<1>15. Covered'
    <2> SUFFICES ASSUME ~cut, NEW w \in BOOLEAN, Heeds(w), NEW t \in 1..turns'
                 PROVE  /\ Reported("started", t, 0)' \/ Awaited("started", t, 0, w)'
                        /\ \A k \in 1..written'[t] :
                              Reported("output", t, k)' \/ Awaited("output", t, k, w)'
        BY <1>10 DEF Covered
    <2>1. ASSUME NEW kind, NEW k
          PROVE  /\ Reported(kind, t, k) => Reported(kind, t, k)'
                 /\ Awaited(kind, t, k, w) => Awaited(kind, t, k, w)'
                 /\ (\E i \in 1..Len(new) :
                       new[i] = [kind |-> kind, turn |-> t, piece |-> k, wrapped |-> w])
                    => Awaited(kind, t, k, w)'
        BY <1>2, <1>6, <1>7 DEF Reported, Awaited, Event
    <2>2. Writes(w)
        BY DEF Heeds
    <2>3. Reported("started", t, 0)' \/ Awaited("started", t, 0, w)'
        <3>1. CASE t \in 1..turns
            BY <1>1, <2>1, <3>1 DEF Covered
        <3>2. CASE t \notin 1..turns
            BY <2>1, <2>2, <3>2
        <3> QED
            BY <3>1, <3>2
    <2>4. ASSUME NEW k \in 1..written'[t]
          PROVE  Reported("output", t, k)' \/ Awaited("output", t, k, w)'
        <3>1. CASE t \in 1..turns /\ k \in 1..written[t]
            BY <1>1, <2>1, <3>1 DEF Covered
        <3>2. CASE ~(t \in 1..turns /\ k \in 1..written[t])
            BY <2>1, <2>2, <3>2
        <3> QED
            BY <3>1, <3>2
    <2> QED
        BY <2>3, <2>4
<1>16. Bounds' /\ Orderly' /\ Agrees'
    BY <1>2, QuietKeeps DEF turnVars
<1>17. Caused'
    <2>1. \A i \in 1..Len(Pending') :
             Pending'[i].kind = "answer" => Pending'[i].request.turn \in cancelled \cup {None}
        BY <1>1, <1>5 DEF Caused
    <2> QED
        BY <1>1, <1>2, <2>1 DEF Caused
<1> QED
    BY <1>11, <1>12, <1>13, <1>14, <1>15, <1>16, <1>17 DEF TurnsInv

LEMMA CodexStartsKeeps == Bounded /\ TurnsInv /\ CodexStarts => TurnsInv'
<1> SUFFICES ASSUME Bounded, TurnsInv, CodexStarts PROVE TurnsInv'
    OBVIOUS
<1> DEFINE s == turns + 1
<1>1. Shaped /\ turns \in Nat /\ s \in Turn /\ 0 \in 0..MaxPieces /\ MaxTurns \in Nat /\ MaxPieces \in Nat
    BY NumberFacts DEF TurnsInv, Shaped, CodexStarts, Turn
<1>2. PICK new \in Seq(Notice) :
         /\ new = Written("started", s, 0)
         /\ \A i \in 1..Len(new) : /\ new[i].kind = "started" /\ new[i].turn = s /\ new[i].piece = 0
                                   /\ Writes(new[i].wrapped)
         /\ \A w \in BOOLEAN : Writes(w) =>
               \E i \in 1..Len(new) :
                   new[i] = [kind |-> "started", turn |-> s, piece |-> 0, wrapped |-> w]
         /\ \A j \in 1..Len(new) : \A i \in 1..(j - 1) :
               new[i].wrapped = new[j].wrapped => "started" = "completed"
    <2>1. "started" \in Kinds
        BY DEF Kinds
    <2> QED
        BY <1>1, <2>1, WrittenFacts
<1>3. /\ pipe' = pipe \o new /\ turns' = s /\ busy' = TRUE
      /\ UNCHANGED <<build, running, mode, held, active, lastStarted, lastCompleted, buffer,
                     timers, log, cancelled, cut, cancels, written, requests, unnamed>>
    BY <1>2 DEF CodexStarts, turnVars, pastVars
<1>4. new \in Seq(Line)
    BY <1>2, LineFacts, SeqMonotonic
<1>5. Shaped'
    <2>1. pipe' \in Seq(Line)
        BY <1>1, <1>3, <1>4, ConcatProperties DEF Shaped
    <2>2. s \in 0..MaxTurns /\ s # 0
        BY <1>1 DEF Turn
    <2>3. \A t \in Turn : t > s => written[t] = 0
        BY <1>1, NumberFacts DEF Shaped
    <2> QED
        BY <1>1, <1>3, <2>1, <2>2, <2>3 DEF Shaped
<1>6. \A a \in Notice \cup Report : /\ a.turn \in Turn /\ a.turn \in Nat
                                    /\ Happened(a) => a.turn <= turns /\ a.turn < s
    BY <1>1, LineFacts, EntryFacts, NumberFacts DEF Happened
<1>7. \A a \in Notice \cup Report : Happened(a) => Happened(a)'
    <2> SUFFICES ASSUME NEW a \in Notice \cup Report, Happened(a) PROVE Happened(a)'
        OBVIOUS
    <2>1. a.turn <= turns /\ a.turn < s
        BY <1>6
    <2> QED
        BY <1>1, <1>3, <1>6, <2>1 DEF Happened
<1>8. \A i \in 1..Len(new) : new[i].kind # "answer" =>
         /\ Happened(new[i])' /\ Writes(new[i].wrapped)
         /\ \A a \in Notice \cup Report : a.kind \in Kinds /\ Happened(a) => Before(a, new[i])
    <2> SUFFICES ASSUME NEW i \in 1..Len(new)
                 PROVE  /\ Happened(new[i])' /\ Writes(new[i].wrapped)
                        /\ \A a \in Notice \cup Report : Happened(a) => Before(a, new[i])
        OBVIOUS
    <2>1. new[i].kind = "started" /\ new[i].turn = s /\ Writes(new[i].wrapped)
        BY <1>2
    <2>2. Happened(new[i])'
        BY <1>1, <1>3, <2>1 DEF Happened
    <2>3. \A a \in Notice \cup Report : Happened(a) => Before(a, new[i])
        BY <1>6, <2>1 DEF Before
    <2> QED
        BY <2>1, <2>2, <2>3
<1>9. \A j \in 1..Len(new) : \A i \in 1..(j - 1) :
         /\ new[i].kind # "answer" /\ new[j].kind # "answer"
         /\ new[i].wrapped = new[j].wrapped
         => Before(new[i], new[j])
    BY <1>2
<1>10. \A w \in BOOLEAN : Writes(w) => \A t \in 1..turns' :
         /\ \/ t \in 1..turns
            \/ \E i \in 1..Len(new) :
                  new[i] = [kind |-> "started", turn |-> t, piece |-> 0, wrapped |-> w]
         /\ \A k \in 1..written'[t] :
               \/ t \in 1..turns /\ k \in 1..written[t]
               \/ \E i \in 1..Len(new) :
                     new[i] = [kind |-> "output", turn |-> t, piece |-> k, wrapped |-> w]
    <2>1. \A t \in 1..turns' : t \in 1..turns \/ t = s
        BY <1>1, <1>3
    <2>2. written[s] = 0
        BY <1>1 DEF Shaped
    <2> QED
        BY <1>2, <1>3, <2>1, <2>2
<1>11. /\ requests' \subseteq requests
       /\ \A i \in 1..Len(new) : new[i].kind = "answer" => new[i].request \in requests
    BY <1>2, <1>3
<1> QED
    BY <1>3, <1>4, <1>5, <1>7, <1>8, <1>9, <1>10, <1>11, CodexKeeps

LEMMA CodexWritesKeeps == Bounded /\ TurnsInv /\ CodexWrites => TurnsInv'
<1> SUFFICES ASSUME Bounded, TurnsInv, CodexWrites PROVE TurnsInv'
    OBVIOUS
<1> DEFINE n == written[turns] + 1
<1>1. /\ Shaped /\ turns \in Nat /\ turns \in Turn /\ busy /\ written[turns] \in 0..MaxPieces
      /\ n \in 0..MaxPieces /\ n \in Nat /\ MaxTurns \in Nat /\ MaxPieces \in Nat
    <2>1. turns \in 0..MaxTurns /\ turns # 0 /\ MaxTurns \in Nat /\ MaxPieces \in Nat
        BY NumberFacts DEF TurnsInv, Shaped, CodexWrites
    <2>2. turns \in Turn
        BY <2>1 DEF Turn
    <2> QED
        BY <2>1, <2>2 DEF TurnsInv, Shaped, CodexWrites
<1>2. PICK new \in Seq(Notice) :
         /\ new = Written("output", turns, n)
         /\ \A i \in 1..Len(new) : /\ new[i].kind = "output" /\ new[i].turn = turns /\ new[i].piece = n
                                   /\ Writes(new[i].wrapped)
         /\ \A w \in BOOLEAN : Writes(w) =>
               \E i \in 1..Len(new) :
                   new[i] = [kind |-> "output", turn |-> turns, piece |-> n, wrapped |-> w]
         /\ \A j \in 1..Len(new) : \A i \in 1..(j - 1) :
               new[i].wrapped = new[j].wrapped => "output" = "completed"
    <2>1. "output" \in Kinds
        BY DEF Kinds
    <2> QED
        BY <1>1, <2>1, WrittenFacts
<1>3. /\ pipe' = pipe \o new /\ written' = [written EXCEPT ![turns] = n]
      /\ UNCHANGED <<build, turns, busy, running, mode, held, active, lastStarted, lastCompleted,
                     buffer, timers, log, cancelled, cut, cancels, requests, unnamed>>
    BY <1>2 DEF CodexWrites, turnVars, pastVars
<1>4. new \in Seq(Line)
    BY <1>2, LineFacts, SeqMonotonic
<1>5. /\ written' \in [Turn -> 0..MaxPieces] /\ written'[turns] = n
      /\ \A t \in Turn : t # turns => written'[t] = written[t]
      /\ \A t \in Turn : written[t] \in 0..MaxPieces /\ written'[t] \in 0..MaxPieces
    BY <1>1, <1>3 DEF Shaped
<1>6. Shaped'
    <2>1. pipe' \in Seq(Line)
        BY <1>1, <1>3, <1>4, ConcatProperties DEF Shaped
    <2>2. \A t \in Turn : t > turns => written'[t] = 0
        BY <1>1, <1>5, NumberFacts DEF Shaped
    <2> QED
        BY <1>1, <1>3, <1>5, <2>1, <2>2 DEF Shaped
<1>7. \A a \in Notice \cup Report : a.turn \in Turn /\ a.turn \in Nat /\ a.piece \in Nat
    BY LineFacts, EntryFacts, NumberFacts
<1>8. \A a \in Notice \cup Report : Happened(a) => Happened(a)'
    <2> SUFFICES ASSUME NEW a \in Notice \cup Report, Happened(a) PROVE Happened(a)'
        OBVIOUS
    <2>1. a.kind = "output" => a.piece \in 1..written'[a.turn]
        BY <1>1, <1>5, <1>7 DEF Happened
    <2> QED
        BY <1>3, <2>1 DEF Happened
<1>9. \A i \in 1..Len(new) : new[i].kind # "answer" =>
         /\ Happened(new[i])' /\ Writes(new[i].wrapped)
         /\ \A a \in Notice \cup Report : a.kind \in Kinds /\ Happened(a) => Before(a, new[i])
    <2> SUFFICES ASSUME NEW i \in 1..Len(new)
                 PROVE  /\ Happened(new[i])' /\ Writes(new[i].wrapped)
                        /\ \A a \in Notice \cup Report :
                              a.kind \in Kinds /\ Happened(a) => Before(a, new[i])
        OBVIOUS
    <2>1. /\ new[i].kind = "output" /\ new[i].turn = turns /\ new[i].piece = n
          /\ Writes(new[i].wrapped)
        BY <1>2
    <2>2. Happened(new[i])'
        BY <1>1, <1>3, <1>5, <2>1 DEF Happened
    <2>3. ASSUME NEW a \in Notice \cup Report, a.kind \in Kinds, Happened(a)
          PROVE  Before(a, new[i])
        <3>1. a.turn <= turns /\ (a.turn = turns => a.kind # "completed")
            BY <1>1, <2>3 DEF Happened
        <3>2. a.kind = "output" /\ a.turn = turns => a.piece < n
            BY <1>1, <1>7, <2>3 DEF Happened
        <3> QED
            BY <1>1, <1>7, <2>1, <2>3, <3>1, <3>2 DEF Before, Kinds
    <2> QED
        BY <2>1, <2>2, <2>3
<1>10. \A j \in 1..Len(new) : \A i \in 1..(j - 1) :
         /\ new[i].kind # "answer" /\ new[j].kind # "answer"
         /\ new[i].wrapped = new[j].wrapped
         => Before(new[i], new[j])
    BY <1>2
<1>11. \A w \in BOOLEAN : Writes(w) => \A t \in 1..turns' :
         /\ \/ t \in 1..turns
            \/ \E i \in 1..Len(new) :
                  new[i] = [kind |-> "started", turn |-> t, piece |-> 0, wrapped |-> w]
         /\ \A k \in 1..written'[t] :
               \/ t \in 1..turns /\ k \in 1..written[t]
               \/ \E i \in 1..Len(new) :
                     new[i] = [kind |-> "output", turn |-> t, piece |-> k, wrapped |-> w]
    <2> SUFFICES ASSUME NEW w \in BOOLEAN, Writes(w), NEW t \in 1..turns, NEW k \in 1..written'[t]
                 PROVE  \/ k \in 1..written[t]
                        \/ \E i \in 1..Len(new) :
                              new[i] = [kind |-> "output", turn |-> t, piece |-> k, wrapped |-> w]
        BY <1>3
    <2>1. t \in Turn
        BY <1>1 DEF Turn
    <2>2. k \in 1..written[t] \/ (t = turns /\ k = n)
        BY <1>1, <1>5, <2>1
    <2> QED
        BY <1>2, <2>2
<1>12. /\ requests' \subseteq requests
       /\ \A i \in 1..Len(new) : new[i].kind = "answer" => new[i].request \in requests
    BY <1>2, <1>3
<1> QED
    BY <1>3, <1>4, <1>6, <1>8, <1>9, <1>10, <1>11, <1>12, CodexKeeps

\* Codex ends the turn, or answers, or both.
LEMMA EndKeeps ==
    ASSUME Bounded, TurnsInv, NEW new \in Seq(Line), pipe' = pipe \o new,
           UNCHANGED <<build, running, mode, held, active, lastStarted, lastCompleted, buffer,
                       timers, log, cancelled, cut, cancels, turns, written>>,
           busy' \in BOOLEAN, busy' => busy, requests' \subseteq requests, unnamed' \subseteq Turn,
           \A i \in 1..Len(new) :
              \/ new[i] \in Reply /\ new[i].request \in requests
              \/ /\ busy /\ ~busy' /\ new[i] \in Notice /\ new[i].kind = "completed"
                 /\ new[i].turn = turns /\ Writes(new[i].wrapped)
    PROVE  TurnsInv'
<1>1. Shaped /\ turns \in Nat
    BY DEF TurnsInv, Shaped
<1>2. Shaped'
    <2>1. pipe' \in Seq(Line)
        BY <1>1, ConcatProperties DEF Shaped
    <2>2. requests' \subseteq Request
        BY <1>1 DEF Shaped
    <2> QED
        BY <1>1, <2>1, <2>2 DEF Shaped
<1>3. \A a \in Notice \cup Report : a.turn \in Turn /\ a.turn \in Nat
    BY LineFacts, EntryFacts, NumberFacts
<1>4. \A a \in Notice \cup Report : Happened(a) => Happened(a)'
    BY DEF Happened
<1>5. \A i \in 1..Len(new) : new[i].kind # "answer" =>
         /\ busy /\ ~busy' /\ new[i].kind = "completed" /\ new[i].turn = turns
         /\ Writes(new[i].wrapped)
    BY LineFacts
<1>6. \A i \in 1..Len(new) : new[i].kind # "answer" =>
         /\ Happened(new[i])' /\ Writes(new[i].wrapped)
         /\ \A a \in Notice \cup Report : a.kind \in Kinds /\ Happened(a) => Before(a, new[i])
    BY <1>1, <1>3, <1>5 DEF Happened, Before
<1>7. \A j \in 1..Len(new) : \A i \in 1..(j - 1) :
         /\ new[i].kind # "answer" /\ new[j].kind # "answer"
         /\ new[i].wrapped = new[j].wrapped
         => Before(new[i], new[j])
    <2> SUFFICES ASSUME NEW j \in 1..Len(new), NEW i \in 1..(j - 1),
                        new[i].kind # "answer", new[j].kind # "answer"
                 PROVE  Before(new[i], new[j])
        OBVIOUS
    <2>1. i \in 1..Len(new)
        BY LenProperties
    <2> QED
        BY <1>5, <2>1 DEF Before
<1>8. \A i \in 1..Len(new) : new[i].kind = "answer" => new[i].request \in requests
    BY LineFacts
<1> QED
    BY <1>2, <1>4, <1>6, <1>7, <1>8, CodexKeeps

LEMMA EndWritten ==
    ASSUME Bounded, TurnsInv, busy
    PROVE  \E new \in Seq(Line) :
              /\ new = Written("completed", turns, 0)
              /\ \A i \in 1..Len(new) : /\ new[i] \in Notice /\ new[i].kind = "completed"
                                        /\ new[i].turn = turns /\ Writes(new[i].wrapped)
<1>1. Shaped /\ turns \in Turn /\ 0 \in 0..MaxPieces /\ "completed" \in Kinds
    BY NumberFacts DEF TurnsInv, Shaped, Turn, Kinds
<1>2. PICK new \in Seq(Notice) :
         /\ new = Written("completed", turns, 0)
         /\ \A i \in 1..Len(new) : /\ new[i].kind = "completed" /\ new[i].turn = turns
                                   /\ Writes(new[i].wrapped)
    BY <1>1, WrittenFacts
<1>3. \A i \in 1..Len(new) : new[i] \in Notice
    BY ElementOfSeq
<1>4. new \in Seq(Line)
    BY LineFacts, SeqMonotonic
<1> QED
    BY <1>2, <1>3, <1>4

LEMMA CodexCompletesKeeps == Bounded /\ TurnsInv /\ CodexCompletes => TurnsInv'
<1> SUFFICES ASSUME Bounded, TurnsInv, CodexCompletes PROVE TurnsInv'
    OBVIOUS
<1>1. PICK new \in Seq(Line) :
         /\ new = Written("completed", turns, 0)
         /\ \A i \in 1..Len(new) : /\ new[i] \in Notice /\ new[i].kind = "completed"
                                   /\ new[i].turn = turns /\ Writes(new[i].wrapped)
    BY EndWritten DEF CodexCompletes
<1>2. pipe' = pipe \o new /\ busy /\ busy' = FALSE
    BY <1>1 DEF CodexCompletes
<1>3. UNCHANGED <<build, running, mode, held, active, lastStarted, lastCompleted, buffer,
                  timers, log, cancelled, cut, cancels, turns, written, requests, unnamed>>
    BY DEF CodexCompletes, turnVars, pastVars
<1>4. requests' \subseteq requests /\ unnamed' \subseteq Turn
    BY <1>3 DEF TurnsInv, Shaped
<1> QED
    BY <1>1, <1>2, <1>3, <1>4, EndKeeps

LEMMA CodexInterruptsKeeps == Bounded /\ TurnsInv /\ CodexInterrupts => TurnsInv'
<1> SUFFICES ASSUME Bounded, TurnsInv, CodexInterrupts PROVE TurnsInv'
    OBVIOUS
<1> DEFINE Answer(r) == [kind |-> "answer", request |-> r]
<1>1. PICK r \in requests :
         /\ requests' = requests \ {r}
         /\ \/ /\ ~(busy /\ r.turn \in {None, turns})
               /\ pipe' = Append(pipe, Answer(r)) /\ UNCHANGED <<busy, unnamed>>
            \/ /\ busy /\ r.turn \in {None, turns} /\ busy' = FALSE
               /\ pipe' = pipe \o Written("completed", turns, 0) \o <<Answer(r)>>
               /\ UNCHANGED unnamed
            \/ /\ busy /\ r.turn \in {None, turns} /\ busy' = FALSE
               /\ pipe' = Append(pipe, Answer(r))
               /\ unnamed' = IF r.turn = None THEN unnamed \cup {turns} ELSE unnamed
    BY DEF CodexInterrupts
<1>2. UNCHANGED <<build, running, mode, held, active, lastStarted, lastCompleted, buffer,
                  timers, log, cancelled, cut, cancels, turns, written>>
    BY DEF CodexInterrupts, turnVars
<1>3. /\ pipe \in Seq(Line) /\ requests' \subseteq requests /\ r \in Request
      /\ unnamed \subseteq Turn /\ busy \in BOOLEAN /\ (busy => turns \in Turn)
    BY <1>1, NumberFacts DEF TurnsInv, Shaped, Turn
<1>4. PICK answer : answer = Answer(r)
    OBVIOUS
<1>5. answer \in Reply /\ answer \in Line /\ answer.request = r
    BY <1>3, <1>4, LineFacts
<1>6. <<answer>> \in Seq(Line) /\ Len(<<answer>>) = 1 /\ <<answer>>[1] = answer
    BY <1>5
<1>7. unnamed' \subseteq Turn /\ busy' \in BOOLEAN /\ (busy' => busy)
    <2>1. \/ UNCHANGED <<busy, unnamed>>
          \/ busy /\ busy' = FALSE /\ unnamed' = unnamed
          \/ /\ busy /\ busy' = FALSE
             /\ unnamed' = IF r.turn = None THEN unnamed \cup {turns} ELSE unnamed
        BY <1>1, Zenon
    <2>2. unnamed' = unnamed \/ (busy /\ unnamed' = unnamed \cup {turns})
        BY <2>1
    <2>3. unnamed' \subseteq Turn
        BY <1>3, <2>2
    <2>4. CASE UNCHANGED <<busy, unnamed>>
        BY <1>3, <2>3, <2>4
    <2>5. CASE busy /\ busy' = FALSE
        BY <2>3, <2>5
    <2> QED
        BY <2>1, <2>4, <2>5, Zenon
<1>8. CASE pipe' = Append(pipe, answer)
    <2>1. pipe' = pipe \o <<answer>>
        BY <1>3, <1>5, <1>8, AppendIsConcat
    <2>2. \A i \in 1..Len(<<answer>>) : <<answer>>[i] \in Reply /\ <<answer>>[i].request \in requests
        BY <1>1, <1>5, <1>6
    <2> QED
        BY <1>2, <1>3, <1>6, <1>7, <2>1, <2>2, EndKeeps
<1>9. CASE /\ busy /\ busy' = FALSE
           /\ pipe' = pipe \o Written("completed", turns, 0) \o <<answer>>
    <2>1. PICK new \in Seq(Line) :
             /\ new = Written("completed", turns, 0)
             /\ \A i \in 1..Len(new) : /\ new[i] \in Notice /\ new[i].kind = "completed"
                                       /\ new[i].turn = turns /\ Writes(new[i].wrapped)
        BY <1>9, EndWritten
    <2>2. PICK both : both = new \o <<answer>>
        OBVIOUS
    <2>3. both \in Seq(Line) /\ pipe' = pipe \o both
        BY <1>3, <1>6, <1>9, <2>1, <2>2, ConcatProperties, ConcatAssociative
    <2>4. Len(both) = Len(new) + 1 /\ Len(new) \in Nat
        BY <1>6, <2>2, ConcatProperties, LenProperties
    <2>5. \A i \in 1..Len(both) : both[i] = IF i <= Len(new) THEN new[i] ELSE answer
        BY <1>6, <2>2, <2>4, ConcatProperties
    <2>6. \A i \in 1..Len(both) : (i \in 1..Len(new) /\ both[i] = new[i]) \/ both[i] = answer
        BY <2>4, <2>5
    <2>7. \A i \in 1..Len(both) :
              \/ both[i] \in Reply /\ both[i].request \in requests
              \/ /\ busy /\ ~busy' /\ both[i] \in Notice /\ both[i].kind = "completed"
                 /\ both[i].turn = turns /\ Writes(both[i].wrapped)
        BY <1>1, <1>5, <1>9, <2>1, <2>6
    <2> QED
        BY <1>2, <1>3, <1>7, <2>3, <2>7, EndKeeps
<1> QED
    BY <1>1, <1>4, <1>8, <1>9

-----------------------------------------------------------------------------
(* The invariant, and what follows from it.                                *)

LEMMA TurnsInit == Bounded /\ Init => TurnsInv
<1> SUFFICES ASSUME Bounded, Init PROVE TurnsInv
    OBVIOUS
<1>1. /\ held = <<>> /\ pipe = <<>> /\ log = <<>> /\ buffer = <<>> /\ Emitted = <<>> /\ Pending = <<>>
      /\ Len(held) = 0 /\ Len(buffer) = 0 /\ Len(Emitted) = 0 /\ Len(Pending) = 0
    BY DEF Init, Emitted, Pending
<1>2. Shaped
    <2>1. held \in Seq(Notice) /\ pipe \in Seq(Line) /\ buffer \in Seq(Report) /\ log \in Seq(Entry)
        BY <1>1
    <2>2. /\ 0 \in 0..MaxTurns /\ 0 \in 0..MaxPieces /\ 0 \in 0..MaxCancels
        BY DEF Bounded
    <2>3. written \in [Turn -> 0..MaxPieces] /\ \A t \in Turn : written[t] = 0
        BY <2>2 DEF Init
    <2> QED
        BY <2>1, <2>2, <2>3 DEF Init, Shaped
<1>3. Forms /\ Past /\ Sorted /\ Behind
    BY <1>1 DEF Init, Forms, Past, Sorted, Behind
<1>4. Covered
    BY DEF Init, Covered
<1>5. Bounds
    BY <1>1 DEF Init, Bounds
<1>6. Orderly
    BY <1>1 DEF Orderly
<1>7. Caused
    BY <1>1 DEF Init, Caused
<1>8. Agrees
    BY <1>1, NumberFacts DEF Init, Agrees
<1> QED
    BY <1>2, <1>3, <1>4, <1>5, <1>6, <1>7, <1>8 DEF TurnsInv

LEMMA TurnsStep == Bounded /\ TurnsInv /\ [Next]_vars => TurnsInv'
<1> SUFFICES ASSUME Bounded, TurnsInv, [Next]_vars PROVE TurnsInv'
    OBVIOUS
<1>1. CASE UNCHANGED vars
    <2>1. UNCHANGED <<build, turns, busy, written, running, pipe, mode, held, active, lastStarted,
                      lastCompleted, buffer, requests, timers, log, cancelled, unnamed, cut, cancels>>
        BY <1>1 DEF vars, codexVars, turnVars, pastVars
    <2>2. /\ Emitted' = Emitted /\ Pending' = Pending
          /\ \A w : (Writes(w)' <=> Writes(w)) /\ (Heeds(w)' <=> Heeds(w))
        BY <2>1 DEF Emitted, Pending, Writes, Heeds
    <2>3. Shaped' /\ Forms' /\ Past' /\ Sorted'
        BY <2>1, <2>2 DEF TurnsInv, Shaped, Forms, Past, Sorted, Happened, Before, Writes
    <2>4. Behind'
        BY <2>1, <2>2 DEF TurnsInv, Behind, Before, Counts, Heeds, Writes
    <2>5. Covered'
        BY <2>1, <2>2 DEF TurnsInv, Covered, Reported, Awaited, Event
    <2>6. Bounds' /\ Orderly' /\ Agrees'
        BY <2>1, <2>2, QuietKeeps DEF turnVars, TurnsInv
    <2>7. Caused'
        BY <2>1, <2>2 DEF TurnsInv, Caused
    <2> QED
        BY <2>3, <2>4, <2>5, <2>6, <2>7 DEF TurnsInv
<1>2. CASE Next
    <2>1. CASE CodexStarts \/ CodexWrites \/ CodexCompletes \/ CodexInterrupts \/ CodexExits
        BY <2>1, CodexStartsKeeps, CodexWritesKeeps, CodexCompletesKeeps, CodexInterruptsKeeps,
           CodexExitsKeeps
    <2>2. CASE ReadWrapped \/ ReadDirect \/ ReadAnswer \/ HoldTimer \/ Replay
        BY <2>2, ReadWrappedKeeps, ReadDirectKeeps, ReadAnswerKeeps, HoldTimerKeeps, ReplayKeeps
    <2>3. CASE FlushOutput \/ Cancel \/ \E t \in Turn : ForceComplete(t)
        BY <2>3, FlushOutputKeeps, CancelKeeps, ForceCompleteKeeps
    <2> QED
        BY <1>2, <2>1, <2>2, <2>3 DEF Next
<1> QED
    BY <1>1, <1>2

LEMMA TypeKept == Bounded /\ TurnsInv => TypeOK
<1> SUFFICES ASSUME Bounded, TurnsInv PROVE TypeOK
    OBVIOUS
<1>1. Shaped
    BY DEF TurnsInv
<1>2. held \in Seq(Line) /\ buffer \in Seq(Entry)
    BY <1>1, SequenceFacts
<1> QED
    BY <1>1, <1>2 DEF Shaped, TypeOK

\* What is in the log was emitted, and what else was emitted is output.
LEMMA LogFacts ==
    ASSUME TurnsInv
    PROVE  /\ Len(log) \in Nat /\ Len(Emitted) \in Nat /\ Len(log) <= Len(Emitted)
           /\ \A i \in 1..Len(log) : i \in 1..Len(Emitted) /\ Emitted[i] = log[i] /\ log[i] \in Entry
           /\ \A i \in 1..Len(Emitted) :
                 i \in 1..Len(log) \/ (i > Len(log) /\ Emitted[i].kind = "output")
<1>1. Shaped /\ Forms
    BY DEF TurnsInv
<1>2. /\ Len(log) \in Nat /\ Len(buffer) \in Nat /\ Len(Emitted) = Len(log) + Len(buffer)
      /\ \A i \in 1..Len(Emitted) :
            Emitted[i] = IF i <= Len(log) THEN log[i] ELSE buffer[i - Len(log)]
    BY <1>1, SequenceFacts
<1>3. \A i \in 1..Len(log) : log[i] \in Entry
    BY <1>1, ElementOfSeq DEF Shaped
<1>4. \A i \in 1..Len(log) : i \in 1..Len(Emitted) /\ Emitted[i] = log[i]
    BY <1>2
<1>5. ASSUME NEW i \in 1..Len(Emitted), i \notin 1..Len(log)
      PROVE  i > Len(log) /\ Emitted[i].kind = "output"
    <2>1. ~(i <= Len(log)) /\ i - Len(log) \in 1..Len(buffer)
        BY <1>2, <1>5
    <2>2. Emitted[i] = buffer[i - Len(log)]
        BY <1>2, <2>1
    <2> QED
        BY <1>1, <1>2, <1>5, <2>1, <2>2 DEF Forms
<1> QED
    BY <1>2, <1>3, <1>4, <1>5

LEMMA AgreementKept == Bounded /\ TurnsInv => TurnAgrees
<1> SUFFICES ASSUME Bounded, TurnsInv, ~Exited, NEW t \in Turn PROVE active = t <=> Shows(t)
    BY DEF TurnAgrees
<1>1. \A i \in 1..Len(Emitted) : Emitted[i].kind # "exited"
    BY LogFacts DEF Exited
<1>2. active = t <=> \E i \in 1..Len(Emitted) :
                        /\ Emitted[i].kind = "started" /\ Emitted[i].turn = t
                        /\ \A j \in (i + 1)..Len(Emitted) : Emitted[j].kind = "output"
    BY <1>1 DEF TurnsInv, Agrees
<1>3. ASSUME NEW i \in 1..Len(log), Is(i, "started", t),
             \A j \in (i + 1)..Len(log) : log[j].kind = "output"
      PROVE  \A j \in (i + 1)..Len(Emitted) : Emitted[j].kind = "output"
    <2> SUFFICES ASSUME NEW j \in (i + 1)..Len(Emitted) PROVE Emitted[j].kind = "output"
        OBVIOUS
    <2>1. j \in 1..Len(Emitted) /\ (j \in 1..Len(log) => j \in (i + 1)..Len(log))
        BY LogFacts
    <2> QED
        BY <1>3, <2>1, LogFacts
<1>4. ASSUME NEW i \in 1..Len(Emitted), Emitted[i].kind = "started", Emitted[i].turn = t,
             \A j \in (i + 1)..Len(Emitted) : Emitted[j].kind = "output"
      PROVE  /\ i \in 1..Len(log) /\ Is(i, "started", t)
             /\ \A j \in (i + 1)..Len(log) : log[j].kind = "output"
    <2>1. i \in 1..Len(log) /\ Emitted[i] = log[i]
        BY <1>4, LogFacts
    <2>2. \A j \in (i + 1)..Len(log) : j \in 1..Len(log) /\ j \in (i + 1)..Len(Emitted)
        BY <2>1, LogFacts
    <2>3. \A j \in (i + 1)..Len(log) : log[j].kind = "output"
        BY <1>4, <2>2, LogFacts
    <2> QED
        BY <1>4, <2>1, <2>3 DEF Is
<1>5. Shows(t) => active = t
    <2> SUFFICES ASSUME Shows(t) PROVE active = t
        OBVIOUS
    <2>1. PICK i \in 1..Len(log) :
             Is(i, "started", t) /\ \A j \in (i + 1)..Len(log) : log[j].kind = "output"
        BY DEF Shows
    <2>2. i \in 1..Len(Emitted) /\ Emitted[i].kind = "started" /\ Emitted[i].turn = t
        BY <2>1, LogFacts DEF Is
    <2> QED
        BY <1>2, <1>3, <2>1, <2>2
<1>6. active = t => Shows(t)
    BY <1>2, <1>4 DEF Shows
<1> QED
    BY <1>5, <1>6

LEMMA CauseKept == Bounded /\ TurnsInv => EndsForCause
<1> SUFFICES ASSUME Bounded, TurnsInv, NEW i \in 1..Len(log), NEW t \in Turn, Ends(i, t)
             PROVE  t \in cancelled \/ (turns >= t /\ ~(busy /\ turns = t))
    BY DEF EndsForCause
<1>1. i \in 1..Len(Emitted) /\ Emitted[i] = log[i] /\ log[i].turn = t
      /\ (log[i].kind = "completed" \/ log[i].kind = "forced")
    BY LogFacts DEF Ends, Is
<1>2. Happened(Emitted[i])
    BY <1>1 DEF TurnsInv, Past
<1>3. CASE log[i].kind = "completed"
    <2>1. turns \in Nat /\ t \in Nat /\ t <= turns /\ ~(busy /\ turns = t)
        BY <1>1, <1>2, <1>3, NumberFacts DEF Happened, TurnsInv, Shaped
    <2> QED
        BY <2>1
<1>4. CASE log[i].kind = "forced"
    BY <1>1, <1>4 DEF TurnsInv, Caused
<1> QED
    BY <1>1, <1>3, <1>4

LEMMA OnceKept == Bounded /\ TurnsInv => BoundaryOnce
<1> SUFFICES ASSUME Bounded, TurnsInv, NEW i \in 1..Len(log), NEW j \in 1..Len(log), NEW t \in Turn,
                    NEW kind \in Boundary, Is(i, kind, t), Is(j, kind, t)
             PROVE  i = j
    BY DEF BoundaryOnce, Boundary
<1>1. \A m, n \in 1..Len(log) : m < n /\ Is(m, kind, t) /\ Is(n, kind, t) => FALSE
    <2> SUFFICES ASSUME NEW m \in 1..Len(log), NEW n \in 1..Len(log), m < n,
                        Is(m, kind, t), Is(n, kind, t)
                 PROVE  FALSE
        OBVIOUS
    <2>1. n \in 1..Len(Emitted) /\ m \in 1..(n - 1)
        BY LogFacts
    <2>2. /\ Emitted[m].kind = kind /\ Emitted[m].turn = t
          /\ Emitted[n].kind = kind /\ Emitted[n].turn = t
        BY LogFacts DEF Is
    <2> QED
        BY <2>1, <2>2 DEF TurnsInv, Bounds
<1>2. i = j \/ i < j \/ j < i
    OBVIOUS
<1> QED
    BY <1>1, <1>2

LEMMA OutputOrderKept == Bounded /\ TurnsInv => OutputInTurn
<1> SUFFICES ASSUME Bounded, TurnsInv, ~cut, NEW i \in 1..Len(log), log[i].kind = "output"
             PROVE  /\ \E j \in 1..(i - 1) : Is(j, "started", log[i].turn)
                    /\ \A j \in 1..(i - 1) : ~Is(j, "completed", log[i].turn) /\ log[j] # log[i]
                    /\ \A k \in 1..(log[i].piece - 1) :
                          \E j \in 1..(i - 1) : log[j] = Event("output", log[i].turn, k)
    BY DEF OutputInTurn
<1>1. i \in 1..Len(Emitted) /\ Emitted[i] = log[i]
    BY LogFacts
<1>2. \A j \in 1..(i - 1) : Emitted[j] = log[j]
    <2>1. \A j \in 1..(i - 1) : j \in 1..Len(log)
        BY LogFacts
    <2> QED
        BY <2>1, LogFacts
<1>3. /\ \E j \in 1..(i - 1) : Emitted[j].kind = "started" /\ Emitted[j].turn = Emitted[i].turn
      /\ \A j \in 1..(i - 1) :
            ~(Emitted[j].kind = "completed" /\ Emitted[j].turn = Emitted[i].turn)
            /\ Emitted[j] # Emitted[i]
      /\ \A k \in 1..(Emitted[i].piece - 1) :
            \E j \in 1..(i - 1) : Emitted[j] = Event("output", Emitted[i].turn, k)
    BY <1>1 DEF TurnsInv, Orderly
<1> QED
    BY <1>1, <1>2, <1>3 DEF Is

LEMMA OutputKept == Bounded /\ TurnsInv => OutputComplete
<1> SUFFICES ASSUME Bounded, TurnsInv, pipe = <<>>, held = <<>>, buffer = <<>>, ~cut,
                    NEW t \in Turn, NEW k \in 1..written[t]
             PROVE  \E i \in 1..Len(log) : log[i] = Event("output", t, k)
    BY DEF OutputComplete
<1>1. t \in 1..turns
    <2>1. turns \in Nat /\ t \in Nat /\ t >= 1 /\ (t > turns => written[t] = 0)
        BY NumberFacts DEF TurnsInv, Shaped, Turn
    <2> QED
        BY <2>1
<1>2. PICK w \in BOOLEAN : Heeds(w)
    <2>1. CASE mode = "none"
        <3>1. Writes(TRUE) \/ Writes(FALSE)
            BY DEF Writes
        <3> QED
            BY <2>1, <3>1 DEF Heeds
    <2>2. CASE mode # "none"
        BY <2>2 DEF TurnsInv, Forms, Heeds
    <2> QED
        BY <2>1, <2>2
<1>3. Reported("output", t, k) \/ Awaited("output", t, k, w)
    BY <1>1, <1>2 DEF TurnsInv, Covered
<1>4. Len(Pending) = 0
    BY DEF Pending
<1>5. Reported("output", t, k)
    BY <1>3, <1>4 DEF Awaited
<1>6. PICK i \in 1..Len(Emitted) : Emitted[i] = Event("output", t, k)
    BY <1>5 DEF Reported
<1>7. Len(Emitted) = Len(log)
    <2>1. Shaped
        BY DEF TurnsInv
    <2> QED
        BY <2>1, SequenceFacts
<1> QED
    BY <1>6, <1>7, LogFacts

-----------------------------------------------------------------------------
(* Theorems.                                                               *)

\* The invariant: the lists that are on their way keep Codex's order, go on
\* where the reports end, and leave nothing out.
THEOREM TurnsInductive == Bounded => (Spec => []TurnsInv)
<1> SUFFICES ASSUME Bounded PROVE Spec => []TurnsInv
    OBVIOUS
<1>1. Init => TurnsInv
    BY TurnsInit
<1>2. TurnsInv /\ [Next]_vars => TurnsInv'
    BY TurnsStep
<1> QED
    BY <1>1, <1>2, PTL DEF Spec

\* Type correctness of the session's state.
THEOREM TurnsTyped == Bounded => (Spec => []TypeOK)
<1> SUFFICES ASSUME Bounded PROVE Spec => []TypeOK
    OBVIOUS
<1>1. Spec => []TurnsInv
    BY TurnsInductive
<1>2. TurnsInv => TypeOK
    BY TypeKept
<1> QED
    BY <1>1, <1>2, PTL

\* activeTurnId and what the host has been told agree at every moment: neither
\* a late timer nor a repeated notification leaves a turn running in one of them.
THEOREM TurnsAgree == Bounded => (Spec => []TurnAgrees)
<1> SUFFICES ASSUME Bounded PROVE Spec => []TurnAgrees
    OBVIOUS
<1>1. Spec => []TurnsInv
    BY TurnsInductive
<1>2. TurnsInv => TurnAgrees
    BY AgreementKept
<1> QED
    BY <1>1, <1>2, PTL

\* A completion is reported only of a turn that Codex has ended or that was
\* active when a cancel was called.
THEOREM TurnsEndForCause == Bounded => (Spec => []EndsForCause)
<1> SUFFICES ASSUME Bounded PROVE Spec => []EndsForCause
    OBVIOUS
<1>1. Spec => []TurnsInv
    BY TurnsInductive
<1>2. TurnsInv => EndsForCause
    BY CauseKept
<1> QED
    BY <1>1, <1>2, PTL

\* Of a turn's start, completion and forced completion, each is reported once,
\* in however many forms Codex writes them.
THEOREM BoundariesOnce == Bounded => (Spec => []BoundaryOnce)
<1> SUFFICES ASSUME Bounded PROVE Spec => []BoundaryOnce
    OBVIOUS
<1>1. Spec => []TurnsInv
    BY TurnsInductive
<1>2. TurnsInv => BoundaryOnce
    BY OnceKept
<1> QED
    BY <1>1, <1>2, PTL

\* Output is reported between the start and the completion of its turn, in
\* order, without a gap and once.
THEOREM OutputIsInTurn == Bounded => (Spec => []OutputInTurn)
<1> SUFFICES ASSUME Bounded PROVE Spec => []OutputInTurn
    OBVIOUS
<1>1. Spec => []TurnsInv
    BY TurnsInductive
<1>2. TurnsInv => OutputInTurn
    BY OutputOrderKept
<1> QED
    BY <1>1, <1>2, PTL

\* Once all is read and flushed, all that Codex has written is in the log.
THEOREM OutputIsComplete == Bounded => (Spec => []OutputComplete)
<1> SUFFICES ASSUME Bounded PROVE Spec => []OutputComplete
    OBVIOUS
<1>1. Spec => []TurnsInv
    BY TurnsInductive
<1>2. TurnsInv => OutputComplete
    BY OutputKept
<1> QED
    BY <1>1, <1>2, PTL
=============================================================================
