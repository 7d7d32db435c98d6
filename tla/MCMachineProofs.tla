-------------------------- MODULE MCMachineProofs --------------------------
(***************************************************************************)
(* Proofs about the parts of MCMachine, for every value of the bounds.     *)
(* The parts do not touch each other, so that a behaviour of the whole is  *)
(* one of each part; what is proved of a part names its definitions        *)
(* through the instance (Terms!Close, Files!Send).                         *)
(*                                                                         *)
(* Each part has an initial state, a lemma per action, and a step of its   *)
(* own; the theorems about the whole are at the end.                       *)
(***************************************************************************)
EXTENDS MCMachineInv, SequenceTheorems, FiniteSetTheorems, TLAPS

-----------------------------------------------------------------------------
(* Sequences.                                                              *)

LEMMA AppendSteps ==
    ASSUME NEW S, NEW s \in Seq(S), NEW e \in S
    PROVE  /\ Len(s) \in Nat /\ Append(s, e) \in Seq(S) /\ Len(Append(s, e)) = Len(s) + 1
           /\ \A k \in 1..Len(s) : k \in 1..(Len(s) + 1) /\ Append(s, e)[k] = s[k]
           /\ Len(s) + 1 \in 1..(Len(s) + 1) /\ Append(s, e)[Len(s) + 1] = e
           /\ \A k \in 1..(Len(s) + 1) : k \in 1..Len(s) \/ k = Len(s) + 1
           /\ \A k, m \in 1..(Len(s) + 1) : k < m => k \in 1..Len(s)
           /\ \A k \in 1..Len(s) : k < Len(s) + 1
<1>1. Len(s) \in Nat
  BY LenProperties
<1>2. /\ Append(s, e) \in Seq(S) /\ Len(Append(s, e)) = Len(s) + 1
      /\ \A k \in 1..Len(s) : Append(s, e)[k] = s[k]
      /\ Append(s, e)[Len(s) + 1] = e
  BY <1>1, AppendProperties
<1> QED
  BY <1>1, <1>2

LEMMA TailSteps ==
    ASSUME NEW S, NEW s \in Seq(S), s # <<>>
    PROVE  /\ Len(s) \in Nat /\ Len(Tail(s)) \in Nat /\ Len(s) = Len(Tail(s)) + 1
           /\ Tail(s) \in Seq(S) /\ Head(s) \in S
           /\ 1 \in 1..Len(s) /\ s[1] = Head(s)
           /\ \A k \in 1..Len(Tail(s)) :
                k \in Nat /\ k + 1 \in 1..Len(s) /\ 1 < k + 1 /\ Tail(s)[k] = s[k + 1]
           /\ \A k \in 1..Len(s) : k # 1 =>
                k \in Nat /\ k - 1 \in 1..Len(Tail(s)) /\ k = (k - 1) + 1 /\ Tail(s)[k - 1] = s[k]
<1>1. Len(s) \in Nat /\ Len(s) # 0
  BY LenProperties, EmptySeq
<1>2. /\ Head(s) \in S /\ Tail(s) \in Seq(S) /\ Len(Tail(s)) = Len(s) - 1
      /\ \A k \in 1..Len(Tail(s)) : Tail(s)[k] = s[k + 1]
  BY <1>1, HeadTailProperties
<1>3. s[1] = Head(s)
  BY <1>1
<1>4. \A k \in 1..Len(s) : k # 1 =>
        k \in Nat /\ k - 1 \in 1..Len(Tail(s)) /\ k = (k - 1) + 1
  BY <1>1, <1>2
<1> QED
  BY <1>1, <1>2, <1>3, <1>4

LEMMA OccursEmpty == \A x, y : ~Occurs(<<>>, x) /\ ~Precedes(<<>>, x, y) /\ Count(<<>>, x) = 0
<1> TAKE x, y
<1>1. Len(<<>>) = 0 /\ 1..0 = {}
  OBVIOUS
<1>2. {k \in 1..Len(<<>>) : <<>>[k] = x} = {}
  BY <1>1
<1> QED
  BY <1>1, <1>2, FS_EmptySet DEF Occurs, Precedes, Count

LEMMA OccursAppend ==
    ASSUME NEW S, NEW s \in Seq(S), NEW e \in S, NEW x
    PROVE  Occurs(Append(s, e), x) <=> Occurs(s, x) \/ x = e
BY AppendSteps DEF Occurs

LEMMA OccursTail ==
    ASSUME NEW S, NEW s \in Seq(S), s # <<>>, NEW x
    PROVE  Occurs(s, x) <=> Occurs(Tail(s), x) \/ x = Head(s)
<1>1. Occurs(s, x) => Occurs(Tail(s), x) \/ x = Head(s)
  BY TailSteps DEF Occurs
<1>2. Occurs(Tail(s), x) => Occurs(s, x)
  BY TailSteps DEF Occurs
<1>3. x = Head(s) => Occurs(s, x)
  BY TailSteps DEF Occurs
<1> QED
  BY <1>1, <1>2, <1>3

LEMMA PrecedesAppend ==
    ASSUME NEW S, NEW s \in Seq(S), NEW e \in S, NEW x, NEW y
    PROVE  Precedes(Append(s, e), x, y) <=> Precedes(s, x, y) \/ (Occurs(s, x) /\ y = e)
<1> DEFINE t == Append(s, e)
<1>1. ASSUME NEW k \in 1..Len(t), NEW m \in 1..Len(t), k < m, t[k] = x, t[m] = y
      PROVE  Precedes(s, x, y) \/ (Occurs(s, x) /\ y = e)
  BY <1>1, AppendSteps DEF Precedes, Occurs
<1>2. Precedes(s, x, y) => Precedes(t, x, y)
  BY AppendSteps DEF Precedes
<1>3. Occurs(s, x) /\ y = e => Precedes(t, x, y)
  BY AppendSteps DEF Occurs, Precedes
<1> QED
  BY <1>1, <1>2, <1>3 DEF Precedes

LEMMA PrecedesTail ==
    ASSUME NEW S, NEW s \in Seq(S), s # <<>>, NEW x, NEW y
    PROVE  Precedes(s, x, y) <=> Precedes(Tail(s), x, y) \/ (x = Head(s) /\ Occurs(Tail(s), y))
<1> DEFINE t == Tail(s)
<1> HIDE DEF t
<1>0. /\ Len(s) \in Nat /\ Len(t) \in Nat /\ Len(s) = Len(t) + 1
      /\ 1 \in 1..Len(s) /\ s[1] = Head(s)
      /\ \A k \in 1..Len(t) :
           k \in Nat /\ k + 1 \in 1..Len(s) /\ 1 < k + 1 /\ t[k] = s[k + 1]
      /\ \A k \in 1..Len(s) : k # 1 =>
           k \in Nat /\ k - 1 \in 1..Len(t) /\ k = (k - 1) + 1 /\ t[k - 1] = s[k]
  BY TailSteps DEF t
<1>1. ASSUME NEW k \in 1..Len(s), NEW m \in 1..Len(s), k < m, s[k] = x, s[m] = y
      PROVE  Precedes(t, x, y) \/ (x = Head(s) /\ Occurs(t, y))
  <2>1. m # 1
    BY <1>0, <1>1
  <2>2. m - 1 \in 1..Len(t) /\ t[m - 1] = y
    BY <1>0, <1>1, <2>1
  <2>3. CASE k = 1
    BY <1>0, <1>1, <2>2, <2>3 DEF Occurs
  <2>4. CASE k # 1
    BY <1>0, <1>1, <2>4, <2>2 DEF Precedes
  <2> QED
    BY <2>3, <2>4
<1>2. Precedes(t, x, y) => Precedes(s, x, y)
  BY <1>0 DEF Precedes
<1>3. x = Head(s) /\ Occurs(t, y) => Precedes(s, x, y)
  BY <1>0 DEF Occurs, Precedes
<1> QED
  BY <1>1, <1>2, <1>3 DEF Precedes, t

LEMMA CountType ==
    ASSUME NEW S, NEW s \in Seq(S), NEW x
    PROVE  /\ Count(s, x) \in Nat /\ IsFiniteSet({k \in 1..Len(s) : s[k] = x})
           /\ Count(s, x) = 0 <=> ~Occurs(s, x)
<1>1. IsFiniteSet(1..Len(s))
  BY FS_Interval, LenProperties
<1>2. IsFiniteSet({k \in 1..Len(s) : s[k] = x})
  BY <1>1, FS_Subset
<1>3. Count(s, x) \in Nat
  BY <1>2, FS_CardinalityType DEF Count
<1>4. Count(s, x) = 0 <=> {k \in 1..Len(s) : s[k] = x} = {}
  BY <1>2, FS_EmptySet DEF Count
<1> QED
  BY <1>2, <1>3, <1>4 DEF Occurs

LEMMA CountAppend ==
    ASSUME NEW S, NEW s \in Seq(S), NEW e \in S, NEW x
    PROVE  Count(Append(s, e), x) = IF e = x THEN Count(s, x) + 1 ELSE Count(s, x)
<1> DEFINE t == Append(s, e)
<1> DEFINE A == {k \in 1..Len(s) : s[k] = x}
<1> DEFINE B == {k \in 1..Len(t) : t[k] = x}
<1>1. /\ Len(s) \in Nat /\ t \in Seq(S) /\ Len(t) = Len(s) + 1 /\ t[Len(s) + 1] = e
      /\ \A k \in 1..Len(s) : t[k] = s[k]
  BY AppendProperties, LenProperties
<1>2. IsFiniteSet(A)
  BY CountType
<1>3. CASE e = x
  <2>1. B = A \cup {Len(s) + 1} /\ Len(s) + 1 \notin A
    BY <1>1, <1>3
  <2> QED
    BY <1>2, <1>3, <2>1, FS_AddElement DEF Count
<1>4. CASE e # x
  <2>1. B = A
    BY <1>1, <1>4
  <2> QED
    BY <1>4, <2>1 DEF Count
<1> QED
  BY <1>3, <1>4

LEMMA CountTail ==
    ASSUME NEW S, NEW s \in Seq(S), s # <<>>, NEW x
    PROVE  Count(s, x) = IF Head(s) = x THEN Count(Tail(s), x) + 1 ELSE Count(Tail(s), x)
<1> DEFINE t == Tail(s)
<1> DEFINE A == {k \in 1..Len(t) : t[k] = x}
<1> DEFINE B == {k \in 1..Len(s) : s[k] = x}
<1>1. /\ Len(s) \in Nat /\ Len(s) >= 1 /\ t \in Seq(S) /\ Len(t) = Len(s) - 1 /\ Head(s) = s[1]
      /\ \A k \in 1..Len(t) : t[k] = s[k + 1]
  BY HeadTailProperties, LenProperties, EmptySeq
<1>2. IsFiniteSet(A)
  BY <1>1, CountType
<1> DEFINE C == {k + 1 : k \in A}
<1> DEFINE f == [k \in A |-> k + 1]
<1>3. f \in Bijection(A, C)
  <2>1. f \in [A -> C] /\ \A a, b \in A : f[a] = f[b] => a = b
    BY <1>1
  <2>2. \A c \in C : \E a \in A : f[a] = c
    OBVIOUS
  <2> QED
    BY <2>1, <2>2 DEF Bijection, Injection, Surjection, IsInjective
<1>4. IsFiniteSet(C) /\ Cardinality(C) = Cardinality(A)
  BY <1>2, <1>3, FS_Bijection DEF ExistsBijection
<1>6. C = {k \in 2..Len(s) : s[k] = x}
  BY <1>1
<1>7. CASE Head(s) = x
  <2>1. B = C \cup {1} /\ 1 \notin C
    BY <1>1, <1>6, <1>7
  <2> QED
    BY <1>4, <1>7, <2>1, FS_AddElement DEF Count
<1>8. CASE Head(s) # x
  <2>1. B = C
    BY <1>1, <1>6, <1>8
  <2> QED
    BY <1>4, <1>8, <2>1 DEF Count
<1> QED
  BY <1>7, <1>8

-----------------------------------------------------------------------------
(* Terminals.                                                              *)

RunnerFrame == {"start", "forward", "close"} \X Terms!Terminal
HostFrame == {"started", "refused", "output", "exit"} \X Terms!Terminal
CallRecord ==
    [at : {"none", "reopen", "change", "closing", "posting", "waiting", "answered", "done"},
     cwd : Workspaces, reuse : BOOLEAN, terminal : Terms!Terminal \cup {Terms!Nothing},
         live : BOOLEAN]

LEMMA TermsTypes ==
    ASSUME Terms!TypeOK
    PROVE  /\ terminalsToRunner \in Seq(RunnerFrame) /\ terminalsToHost \in Seq(HostFrame)
           /\ terminalsCalls \in [Terms!Call -> CallRecord]
           /\ \A c \in Terms!Call : terminalsCalls[c] \in CallRecord
               /\ terminalsCalls[c].terminal \in Terms!Terminal \cup {Terms!Nothing}
                              /\ terminalsCalls[c].cwd \in Workspaces
                                  /\ terminalsCalls[c].live \in BOOLEAN
           /\ \A t \in Terms!Terminal : Starts(t) \in Nat
               /\ (Starts(t) = 0 <=> ~ToShell(t, "start"))
<1>1. terminalsToRunner \in Seq(RunnerFrame) /\ terminalsToHost \in Seq(HostFrame)
        /\ terminalsCalls \in [Terms!Call -> CallRecord]
  BY DEF Terms!TypeOK, RunnerFrame, HostFrame, CallRecord
<1>2. \A c \in Terms!Call : terminalsCalls[c] \in CallRecord
  BY <1>1
<1>3. \A r \in CallRecord :
        r.terminal \in Terms!Terminal \cup {Terms!Nothing} /\ r.cwd \in Workspaces
            /\ r.live \in BOOLEAN
  BY DEF CallRecord
<1>4. \A t \in Terms!Terminal : Starts(t) \in Nat /\ (Starts(t) = 0 <=> ~ToShell(t, "start"))
  BY <1>1, CountType DEF Starts, ToShell
<1> QED
  BY <1>1, <1>2, <1>3, <1>4

\* What the host sends to the runner: while it has a connection that works.
TermSent(t, x) ==
    /\ \A u \in Terms!Terminal, m \in {"start", "forward", "close"} :
         /\ ToShell(u, m)' => ToShell(u, m) \/ (u = t /\ m = x)
         /\ ToShell(u, m) => ToShell(u, m)'
    /\ \A u \in Terms!Terminal : (u # t \/ x # "start") => Starts(u)' = Starts(u)
    /\ x = "start" => Starts(t)' <= Starts(t) + 1
    /\ terminalsLink = "up" => ToShell(t, x)'
    /\ terminalsLink # "up" => terminalsToRunner' = terminalsToRunner
    /\ terminalsToRunner' \in Seq(RunnerFrame)

LEMMA TermSendFacts ==
    ASSUME Terms!TypeOK, NEW t \in Terms!Terminal, NEW x \in {"start", "forward", "close"},
             Terms!SendToMachine(x, t)
    PROVE  TermSent(t, x)
<1>1. terminalsToRunner \in Seq(RunnerFrame) /\ <<x, t>> \in RunnerFrame
  BY TermsTypes DEF RunnerFrame
<1>2. \A u, m : <<m, u>> = <<x, t>> <=> u = t /\ m = x
  OBVIOUS
<1>3. Starts(t) \in Nat
  BY TermsTypes
<1>4. CASE terminalsLink = "up"
  BY <1>4, <1>1, AppendSteps, OccursAppend, CountAppend, <1>2, <1>3 DEF Terms!SendToMachine,
     Starts, TermSent, ToShell
<1>5. CASE terminalsLink # "up"
  BY <1>5, <1>1, <1>3 DEF Terms!SendToMachine, TermSent, ToShell, Starts
<1> QED
  BY <1>4, <1>5

\* The runner takes the first frame, and the host does.
LEMMA RunnerHead ==
    ASSUME Terms!TypeOK, terminalsToRunner # <<>>, terminalsToRunner' = Tail(terminalsToRunner)
    PROVE  \E t \in Terms!Terminal, x \in {"start", "forward", "close"} :
             /\ Head(terminalsToRunner) = <<x, t>> /\ ToShell(t, x)
                 /\ terminalsToRunner' \in Seq(RunnerFrame)
             /\ \A u \in Terms!Terminal, m \in {"start", "forward", "close"} :
                  /\ ToShell(u, m)' => ToShell(u, m)
                  /\ ToShell(u, m) /\ ~(u = t /\ m = x) => ToShell(u, m)'
             /\ \A u \in Terms!Terminal : Starts(u) = IF u = t /\ x = "start"
                 THEN Starts(u)' + 1 ELSE Starts(u)'
             /\ \A u \in Terms!Terminal : Starts(u)' \in Nat
                 /\ (Starts(u)' = 0 <=> ~ToShell(u, "start")')
<1>1. terminalsToRunner \in Seq(RunnerFrame) /\ Head(terminalsToRunner) \in RunnerFrame
        /\ terminalsToRunner' \in Seq(RunnerFrame)
  BY TermsTypes, TailSteps
<1>2. PICK t \in Terms!Terminal, x \in {"start", "forward", "close"} :
        Head(terminalsToRunner) = <<x, t>>
  BY <1>1 DEF RunnerFrame
<1>3. \A u, m : <<m, u>> = <<x, t>> <=> u = t /\ m = x
  OBVIOUS
<1>4. \A e : /\ Occurs(terminalsToRunner, e) <=> Occurs(terminalsToRunner', e) \/ e = <<x, t>>
             /\ Count(terminalsToRunner, e) =
                  IF <<x, t>> = e THEN Count(terminalsToRunner', e) + 1
                      ELSE Count(terminalsToRunner', e)
  <2>1. \A e : /\ Occurs(terminalsToRunner, e) <=> Occurs(Tail(terminalsToRunner), e)
                   \/ e = Head(terminalsToRunner)
               /\ Count(terminalsToRunner, e) = IF Head(terminalsToRunner) = e
                   THEN Count(Tail(terminalsToRunner), e) + 1
                                       ELSE Count(Tail(terminalsToRunner), e)
    BY <1>1, OccursTail, CountTail
  <2> QED
    BY <1>2, <2>1
<1>5. \A u : Starts(u) = IF u = t /\ x = "start" THEN Starts(u)' + 1 ELSE Starts(u)'
  BY <1>3, <1>4 DEF Starts
<1>6. \A u : Starts(u)' \in Nat /\ (Starts(u)' = 0 <=> ~ToShell(u, "start")')
  BY <1>1, CountType DEF Starts, ToShell
<1>7. /\ ToShell(t, x)
      /\ \A u \in Terms!Terminal, m \in {"start", "forward", "close"} :
           /\ ToShell(u, m)' => ToShell(u, m)
           /\ ToShell(u, m) /\ ~(u = t /\ m = x) => ToShell(u, m)'
  BY <1>3, <1>4 DEF ToShell
<1> QED
  BY <1>1, <1>2, <1>5, <1>6, <1>7

LEMMA HostHead ==
    ASSUME Terms!TypeOK, terminalsToHost # <<>>, terminalsToHost' = Tail(terminalsToHost)
    PROVE  \E t \in Terms!Terminal, x \in {"started", "refused", "output", "exit"} :
             /\ Head(terminalsToHost) = <<x, t>> /\ OfShell(t, x)
                 /\ terminalsToHost' \in Seq(HostFrame)
             /\ \A u \in Terms!Terminal, m \in {"started", "refused", "output", "exit"} :
                  /\ OfShell(u, m)' => OfShell(u, m)
                  /\ OfShell(u, m) /\ ~(u = t /\ m = x) => OfShell(u, m)'
                  /\ Precedes(terminalsToHost', <<"exit", u>>, <<m, u>>) =>
                      Precedes(terminalsToHost, <<"exit", u>>, <<m, u>>)
                  /\ x = "exit" /\ OfShell(t, m)' =>
                      Precedes(terminalsToHost, <<"exit", t>>, <<m, t>>)
<1>1. terminalsToHost \in Seq(HostFrame) /\ Head(terminalsToHost) \in HostFrame
        /\ terminalsToHost' \in Seq(HostFrame)
  BY TermsTypes, TailSteps
<1>2. PICK t \in Terms!Terminal, x \in {"started", "refused", "output", "exit"} :
        Head(terminalsToHost) = <<x, t>>
  BY <1>1 DEF HostFrame
<1>3. \A u, m : <<m, u>> = <<x, t>> <=> u = t /\ m = x
  OBVIOUS
<1>4. \A e : Occurs(terminalsToHost, e) <=> Occurs(terminalsToHost', e) \/ e = <<x, t>>
  BY <1>1, <1>2, OccursTail
<1>5. \A e, f : Precedes(terminalsToHost, e, f) <=> Precedes(terminalsToHost', e, f)
        \/ (e = <<x, t>> /\ Occurs(terminalsToHost', f))
  <2>1. \A e, f : Precedes(terminalsToHost, e, f) <=>
          Precedes(Tail(terminalsToHost), e, f)
              \/ (e = Head(terminalsToHost) /\ Occurs(Tail(terminalsToHost), f))
    BY <1>1, PrecedesTail
  <2> QED
    BY <1>2, <2>1
<1>6. /\ OfShell(t, x)
      /\ \A u \in Terms!Terminal, m \in {"started", "refused", "output", "exit"} :
           /\ OfShell(u, m)' => OfShell(u, m)
           /\ OfShell(u, m) /\ ~(u = t /\ m = x) => OfShell(u, m)'
  BY <1>3, <1>4 DEF OfShell
<1>7. \A u \in Terms!Terminal, m \in {"started", "refused", "output", "exit"} :
           /\ Precedes(terminalsToHost', <<"exit", u>>, <<m, u>>) =>
               Precedes(terminalsToHost, <<"exit", u>>, <<m, u>>)
           /\ x = "exit" /\ OfShell(t, m)' => Precedes(terminalsToHost, <<"exit", t>>, <<m, t>>)
  BY <1>5 DEF OfShell
<1>8. \A u \in Terms!Terminal, m \in {"started", "refused", "output", "exit"} :
                  /\ OfShell(u, m)' => OfShell(u, m)
                  /\ OfShell(u, m) /\ ~(u = t /\ m = x) => OfShell(u, m)'
                  /\ Precedes(terminalsToHost', <<"exit", u>>, <<m, u>>) =>
                      Precedes(terminalsToHost, <<"exit", u>>, <<m, u>>)
                  /\ x = "exit" /\ OfShell(t, m)' =>
                      Precedes(terminalsToHost, <<"exit", t>>, <<m, t>>)
  BY <1>6, <1>7
<1> QED
  BY <1>1, <1>2, <1>6, <1>8

\* What the runner tells of a terminal, while it has a connection that works.
LEMMA ReplyFacts ==
    ASSUME Terms!TypeOK, NEW t \in Terms!Terminal,
             NEW x \in {"started", "refused", "output", "exit"},
           Terms!RunnerSend(<<<<x, t>>>>)
    PROVE  /\ \A u \in Terms!Terminal, m \in {"started", "refused", "output", "exit"} :
                /\ OfShell(u, m)' => OfShell(u, m) \/ (u = t /\ m = x)
                /\ OfShell(u, m) => OfShell(u, m)'
                /\ Precedes(terminalsToHost', <<"exit", u>>, <<m, u>>) =>
                     \/ Precedes(terminalsToHost, <<"exit", u>>, <<m, u>>)
                     \/ OfShell(u, "exit") /\ u = t /\ m = x
           /\ terminalsLink = "up" => OfShell(t, x)'
           /\ terminalsLink # "up" => terminalsToHost' = terminalsToHost
           /\ terminalsToHost' \in Seq(HostFrame)
<1>1. terminalsToHost \in Seq(HostFrame) /\ <<x, t>> \in HostFrame
  BY TermsTypes DEF HostFrame
<1>2. \A u, m : <<m, u>> = <<x, t>> <=> u = t /\ m = x
  OBVIOUS
<1>3. CASE terminalsLink = "up"
  <2>1. terminalsToHost' = Append(terminalsToHost, <<x, t>>)
    BY <1>1, <1>3, AppendIsConcat DEF Terms!RunnerSend
  <2>2. terminalsToHost' \in Seq(HostFrame)
    BY <1>1, <2>1, AppendSteps
  <2>3. \A e : Occurs(terminalsToHost', e) <=> Occurs(terminalsToHost, e) \/ e = <<x, t>>
    BY <1>1, <2>1, OccursAppend
  <2>4. \A e, f : Precedes(terminalsToHost', e, f) <=> Precedes(terminalsToHost, e, f)
          \/ (Occurs(terminalsToHost, e) /\ f = <<x, t>>)
    BY <1>1, <2>1, PrecedesAppend
  <2> QED
    BY <1>2, <1>3, <2>2, <2>3, <2>4 DEF OfShell
<1>4. CASE terminalsLink # "up"
  BY <1>4, <1>1 DEF Terms!RunnerSend, OfShell
<1> QED
  BY <1>3, <1>4

-----------------------------------------------------------------------------
(* Types.                                                                  *)

\* What the page keeps.
PageTyped ==
    /\ workspace' \in Workspaces /\ terminalsShown' \in Terms!Terminal \cup {Terms!Nothing}
    /\ live' \in BOOLEAN /\ starting' \in BOOLEAN
    /\ terminalsCalls' \in [Terms!Call -> CallRecord] /\ deletes' \subseteq Terms!Terminal
Unheard == UNCHANGED <<terminalsLink, terminalsToRunner, terminalsToHost, shell, record, cwd,
    cutOff>>

LEMMA TermsInit == TermsBounded /\ Terms!Init => TermsInv
<1> SUFFICES ASSUME TermsBounded, Terms!Init PROVE TermsInv
  OBVIOUS
<1> DEFINE w0 == CHOOSE w \in Workspaces : TRUE
<1>1. w0 \in Workspaces
  BY DEF TermsBounded
<1> HIDE DEF w0
<1>2. Terms!NoCall \in CallRecord
  BY <1>1 DEF Terms!NoCall, CallRecord, w0
<1>3. terminalsCalls \in [Terms!Call -> CallRecord]
  BY <1>2 DEF Terms!Init
<1>4. workspace \in Workspaces /\ breaks \in 0..MaxBreaks
  BY <1>1 DEF Terms!Init, w0, TermsBounded
<1>5. Terms!TypeOK
  BY EmptySeq, <1>3, <1>4 DEF Terms!Init, Terms!TypeOK, CallRecord, RunnerFrame, HostFrame
<1>6. \A t \in Terms!Terminal : StartedOnce(t) /\ RunsAsKnown(t)
  <2> TAKE t \in Terms!Terminal
  <2>1. shell[t] = "none" /\ record[t] = "none" /\ cwd[t] = Terms!Nothing /\ cutOff = {}
    BY DEF Terms!Init
  <2>2. \A m : ~ToShell(t, m) /\ ~OfShell(t, m)
    BY OccursEmpty DEF Terms!Init, ToShell, OfShell
  <2>3. Starts(t) = 0 /\ \A m : ~Precedes(terminalsToHost, <<"exit", t>>, <<m, t>>)
    BY OccursEmpty DEF Terms!Init, Starts
  <2> QED
    BY <2>1, <2>2, <2>3 DEF StartedOnce, RunsAsKnown
<1>7. NothingSent /\ NoneConnected
  BY DEF Terms!Init, NothingSent, NoneConnected
<1> QED
  BY <1>5, <1>6, <1>7 DEF TermsInv, TermsRest

LEMMA CloseTyped ==
    ASSUME Terms!TypeOK, Terms!CloseShown
    PROVE  terminalsShown' \in Terms!Terminal \cup {Terms!Nothing} /\ live' \in BOOLEAN
             /\ deletes' \subseteq Terms!Terminal
BY DEF Terms!TypeOK, Terms!CloseShown

LEMMA EnsureTyped ==
    ASSUME Terms!TypeOK, NEW c \in Terms!Call, NEW reuse \in BOOLEAN, Terms!Ensure(c, reuse)
    PROVE  /\ terminalsShown' \in Terms!Terminal \cup {Terms!Nothing} /\ live' \in BOOLEAN
               /\ deletes' \subseteq Terms!Terminal
           /\ terminalsCalls' \in [Terms!Call -> CallRecord]
<1>1. terminalsCalls \in [Terms!Call -> CallRecord] /\ workspace \in Workspaces
        /\ terminalsShown \in Terms!Terminal \cup {Terms!Nothing}
  BY TermsTypes DEF Terms!TypeOK
<1>2. CASE terminalsCalls' = [terminalsCalls EXCEPT ![c].at = "done"]
        /\ UNCHANGED <<terminalsShown, live, deletes>>
  BY <1>1, <1>2 DEF Terms!TypeOK, CallRecord
<1>3. CASE /\ Terms!CloseShown
           /\ terminalsCalls' = [terminalsCalls EXCEPT ![c] = [at |-> "closing", cwd |-> workspace,
               reuse |-> reuse,
                                           terminal |-> terminalsShown, live |-> FALSE]]
  BY <1>1, <1>3, CloseTyped DEF CallRecord
<1> QED
  BY <1>2, <1>3 DEF Terms!Ensure

LEMMA NoCallTyped ==
    ASSUME TermsBounded, Terms!TypeOK
    PROVE  \A t \in Terms!Terminal \cup {Terms!Nothing} : \A at \in {"reopen", "change"} :
             [Terms!NoCall EXCEPT !.at = at, !.terminal = t] \in CallRecord
<1> DEFINE w0 == CHOOSE w \in Workspaces : TRUE
<1>1. w0 \in Workspaces
  BY DEF TermsBounded
<1> HIDE DEF w0
<1> QED
  BY <1>1 DEF Terms!NoCall, CallRecord, w0

\* What the page does, and changes nothing else.
LEMMA PageSteps ==
    ASSUME TermsBounded, Terms!TypeOK, NEW c \in Terms!Call,
           \/ Terms!Ready(c) \/ Terms!Reopen(c) \/ Terms!Resume(c) \/ Terms!Answered(c)
           \/ \E w \in Workspaces : Terms!ChangeWorkspace(c, w)
           \/ Terms!ClosePane
    PROVE  PageTyped /\ Unheard /\ UNCHANGED <<breaks, placed>>
<1>1. /\ terminalsCalls \in [Terms!Call -> CallRecord] /\ terminalsCalls[c] \in CallRecord
          /\ workspace \in Workspaces
      /\ terminalsShown \in Terms!Terminal \cup {Terms!Nothing} /\ live \in BOOLEAN
          /\ starting \in BOOLEAN
      /\ deletes \subseteq Terms!Terminal
          /\ terminalsCalls[c].terminal \in Terms!Terminal \cup {Terms!Nothing}
      /\ terminalsCalls[c].live \in BOOLEAN
  BY TermsTypes DEF Terms!TypeOK
<1>2. Unheard /\ UNCHANGED <<breaks, placed>>
  BY DEF Unheard, Terms!Ready, Terms!Reopen, Terms!Resume, Terms!Answered,
     Terms!ChangeWorkspace, Terms!ClosePane, Terms!wires, Terms!hostVars
<1>3. CASE Terms!Ready(c)
  BY <1>1, <1>2, <1>3, EnsureTyped DEF Terms!Ready, PageTyped
<1>4. CASE Terms!Reopen(c)
  BY <1>1, <1>4, NoCallTyped, <1>2, CloseTyped DEF Terms!Reopen, PageTyped
<1>5. CASE Terms!Resume(c)
  <2>1. CASE Terms!Ensure(c, FALSE) \/ Terms!Ensure(c, TRUE)
    BY <1>5, <1>1, <1>2, <2>1, EnsureTyped DEF Terms!Resume, PageTyped
  <2>2. CASE /\ starting' = TRUE /\ terminalsShown' = Terms!Nothing /\ live' = FALSE
             /\ terminalsCalls' = [terminalsCalls EXCEPT ![c].at = "posting",
                 ![c].terminal = Terms!Nothing]
             /\ UNCHANGED deletes
    BY <1>1, <2>2, <1>5, <1>2 DEF CallRecord, Terms!Resume, PageTyped
  <2> QED
    BY <1>5, <2>1, <2>2 DEF Terms!Resume
<1>6. CASE Terms!Answered(c)
  BY <1>1, <1>6, <1>2 DEF Terms!Answered, CallRecord, PageTyped
<1>7. CASE \E w \in Workspaces : Terms!ChangeWorkspace(c, w)
  BY <1>7, <1>1, <1>2, NoCallTyped, CloseTyped DEF Terms!ChangeWorkspace, PageTyped
<1>8. CASE Terms!ClosePane
  BY <1>1, <1>2, <1>8, CloseTyped DEF Terms!ClosePane, PageTyped
<1> QED
  BY <1>3, <1>4, <1>5, <1>6, <1>7, <1>8

LEMMA PageKeeps ==
    ASSUME TermsInv, PageTyped, Unheard, UNCHANGED <<breaks, placed>>
    PROVE  TermsInv'
<1>1. Terms!TypeOK'
  BY DEF TermsInv, Terms!TypeOK, PageTyped, Unheard, CallRecord
<1>2. TermsRest'
  BY DEF Unheard, TermsInv, TermsRest, NothingSent, NoneConnected, StartedOnce, RunsAsKnown,
      ToShell, OfShell, Starts
<1> QED
  BY <1>1, <1>2 DEF TermsInv

-----------------------------------------------------------------------------
(* The host.                                                               *)

LEMMA AnswerTyped ==
    ASSUME Terms!TypeOK, NEW c \in Terms!Call, NEW t \in Terms!Terminal \cup {Terms!Nothing},
             NEW connected \in BOOLEAN
    PROVE  Terms!Answer(c, t, connected) \in [Terms!Call -> CallRecord]
<1>1. terminalsCalls \in [Terms!Call -> CallRecord]
  BY TermsTypes
<1>2. ASSUME NEW r \in CallRecord
      PROVE  [r EXCEPT !.at = "answered", !.terminal = t, !.live = connected] \in CallRecord
  BY DEF CallRecord
<1>3. Terms!Answer(c, t, connected) = [terminalsCalls EXCEPT
        ![c] = [@ EXCEPT !.at = "answered", !.terminal = t, !.live = connected]]
  BY <1>1 DEF Terms!Answer
<1>4. [terminalsCalls[c] EXCEPT !.at = "answered", !.terminal = t, !.live = connected] \in CallRecord
  BY <1>1, <1>2
<1> QED
  BY <1>1, <1>3, <1>4

\* POST: a terminal is found, or started.
LEMMA PostTyped ==
    ASSUME Terms!TypeOK, NEW c \in Terms!Call, Terms!Post(c)
    PROVE  /\ terminalsCalls' \in [Terms!Call -> CallRecord]
           /\ UNCHANGED <<terminalsLink, breaks, terminalsToHost, shell, cutOff, workspace,
               terminalsShown, live, starting, deletes>>
           /\ \/ UNCHANGED <<terminalsToRunner, record, placed, cwd>>
              \/ /\ record' \in [Terms!Terminal -> {"none", "connected", "exited"}]
                     /\ placed' \subseteq Terms!Terminal
                 /\ \A u \in Terms!Terminal : record'[u] = record[u]
                     \/ (record[u] = "exited" /\ record'[u] = "none")
                 /\ \/ UNCHANGED <<terminalsToRunner, cwd>>
                    \/ \E t \in Terms!Terminal : \E w \in Workspaces :
                         cwd[t] = Terms!Nothing /\ cwd' = [cwd EXCEPT ![t] = w]
                             /\ Terms!SendToMachine("start", t)
<1> DEFINE w == terminalsCalls[c].cwd
<1> DEFINE kept == [t \in Terms!Terminal |->
                   IF ~terminalsCalls[c].reuse /\ t \in placed /\ cwd[t] = w /\ record[t] = "exited"
                   THEN "none" ELSE record[t]]
<1>1. terminalsCalls \in [Terms!Call -> CallRecord] /\ terminalsCalls[c] \in CallRecord
        /\ w \in Workspaces
  BY TermsTypes
<1>2. UNCHANGED <<terminalsLink, breaks, terminalsToHost, shell, cutOff, workspace, terminalsShown,
        live, starting, deletes>>
  BY DEF Terms!Post, Terms!wires
<1>3. CASE terminalsCalls[c].reuse /\ Terms!Reusable(w) # {}
  <2>1. PICK t \in Terms!Reusable(w) :
          terminalsCalls' = Terms!Answer(c, t, record[t] = "connected")
    BY <1>3 DEF Terms!Post
  <2>2. t \in Terms!Terminal
    BY <2>1 DEF Terms!Reusable, Terms!TypeOK
  <2>3. UNCHANGED <<terminalsToRunner, record, placed, cwd>>
    BY <1>3 DEF Terms!Post, Terms!hostVars
  <2>4. terminalsCalls' \in [Terms!Call -> CallRecord]
    BY <2>1, <2>2, AnswerTyped
  <2> QED
    BY <1>2, <2>3, <2>4
<1>4. CASE ~(terminalsCalls[c].reuse /\ Terms!Reusable(w) # {})
  <2>1. record' = kept /\ placed' = {t \in placed : kept[t] # "none"}
    BY <1>4 DEF Terms!Post
  <2>2. record' \in [Terms!Terminal -> {"none", "connected", "exited"}]
          /\ placed' \subseteq Terms!Terminal
    BY <2>1 DEF Terms!TypeOK
  <2>3. \A u \in Terms!Terminal : record'[u] = record[u]
          \/ (record[u] = "exited" /\ record'[u] = "none")
    BY <2>1
  <2>4. CASE terminalsCalls' = Terms!Answer(c, Terms!Nothing, FALSE)
          /\ UNCHANGED <<cwd, terminalsToRunner>>
    BY <1>2, <2>2, <2>3, <2>4, AnswerTyped
  <2>5. CASE \E t \in Terms!Terminal :
                  /\ cwd[t] = Terms!Nothing
                  /\ terminalsCalls' = [terminalsCalls EXCEPT ![c].at = "waiting",
                      ![c].terminal = t]
                  /\ cwd' = [cwd EXCEPT ![t] = w] /\ Terms!SendToMachine("start", t)
    <3>1. PICK t \in Terms!Terminal :
                /\ cwd[t] = Terms!Nothing
                /\ terminalsCalls' = [terminalsCalls EXCEPT ![c].at = "waiting",
                    ![c].terminal = t]
                /\ cwd' = [cwd EXCEPT ![t] = w] /\ Terms!SendToMachine("start", t)
      BY <2>5
    <3>2. terminalsCalls' \in [Terms!Call -> CallRecord]
      BY <1>1, <3>1 DEF CallRecord
    <3> QED
      BY <1>1, <1>2, <2>2, <2>3, <3>1, <3>2
  <2> QED
    BY <1>4, <2>4, <2>5 DEF Terms!Post
<1> QED
  BY <1>3, <1>4

LEMMA PostKeeps ==
    ASSUME TermsBounded, TermsInv, NEW c \in Terms!Call, Terms!Post(c)
    PROVE  TermsInv'
<1>0. Terms!TypeOK
  BY DEF TermsInv
<1>1. /\ terminalsCalls' \in [Terms!Call -> CallRecord]
      /\ UNCHANGED <<terminalsLink, breaks, terminalsToHost, shell, cutOff, workspace,
          terminalsShown, live, starting, deletes>>
  BY <1>0, PostTyped
<1>2. CASE UNCHANGED <<terminalsToRunner, record, placed, cwd>>
  BY <1>0, <1>1, <1>2, PageKeeps DEF PageTyped, Unheard, Terms!TypeOK
<1>3. CASE /\ record' \in [Terms!Terminal -> {"none", "connected", "exited"}]
               /\ placed' \subseteq Terms!Terminal
           /\ \A u \in Terms!Terminal : record'[u] = record[u]
               \/ (record[u] = "exited" /\ record'[u] = "none")
           /\ UNCHANGED <<terminalsToRunner, cwd>>
  <2>1. Terms!TypeOK'
    BY <1>0, <1>1, <1>3 DEF Terms!TypeOK, CallRecord
  <2>2. NothingSent' /\ NoneConnected'
    BY <1>1, <1>3 DEF TermsInv, TermsRest, NothingSent, NoneConnected
  <2>3. ASSUME NEW u \in Terms!Terminal PROVE StartedOnce(u)' /\ RunsAsKnown(u)'
    BY <1>1, <1>3 DEF TermsInv, TermsRest, ToShell, OfShell, Starts, StartedOnce, RunsAsKnown
  <2> QED
    BY <2>1, <2>2, <2>3 DEF TermsInv, TermsRest
<1>4. CASE /\ record' \in [Terms!Terminal -> {"none", "connected", "exited"}]
               /\ placed' \subseteq Terms!Terminal
           /\ \A u \in Terms!Terminal : record'[u] = record[u]
               \/ (record[u] = "exited" /\ record'[u] = "none")
           /\ \E t \in Terms!Terminal : \E w \in Workspaces :
                cwd[t] = Terms!Nothing /\ cwd' = [cwd EXCEPT ![t] = w]
                    /\ Terms!SendToMachine("start", t)
  <2>1. PICK t \in Terms!Terminal, w \in Workspaces :
          cwd[t] = Terms!Nothing /\ cwd' = [cwd EXCEPT ![t] = w]
              /\ Terms!SendToMachine("start", t)
    BY <1>4
  <2>2. TermSent(t, "start")
    BY <1>0, <2>1, TermSendFacts
  <2>3. Terms!TypeOK'
    BY <1>0, <1>1, <1>4, <2>1, <2>2 DEF Terms!TypeOK, CallRecord, TermSent, RunnerFrame
  <2>4. NothingSent' /\ NoneConnected'
    BY <1>1, <1>4, <2>2 DEF TermsInv, TermsRest, NothingSent, NoneConnected, TermSent
  <2>5. ASSUME NEW u \in Terms!Terminal PROVE StartedOnce(u)' /\ RunsAsKnown(u)'
    <3>1. StartedOnce(u) /\ RunsAsKnown(u)
      BY DEF TermsInv, TermsRest
    <3>2. \A m : OfShell(u, m)' <=> OfShell(u, m)
      BY <1>1 DEF OfShell
    <3>3. CASE u = t
      BY <1>0, <2>1, <3>1, <3>3, TermsTypes, <1>1, <1>4, <2>2, <3>2 DEF StartedOnce, TermSent,
         Terms!TypeOK, TermsBounded, RunsAsKnown
    <3>4. CASE u # t
      BY <1>0, <2>1, <2>2, <3>4, <1>1, <1>4, <3>1, <3>2 DEF Terms!TypeOK, TermSent,
         StartedOnce, RunsAsKnown
    <3> QED
      BY <3>3, <3>4
  <2> QED
    BY <2>3, <2>4, <2>5 DEF TermsInv, TermsRest
<1> QED
  BY <1>0, <1>2, <1>3, <1>4, PostTyped

LEMMA DeleteKeeps ==
    ASSUME TermsInv, NEW t \in Terms!Terminal, Terms!Delete(t)
    PROVE  TermsInv'
<1>0. Terms!TypeOK
  BY DEF TermsInv
<1>1. /\ UNCHANGED <<terminalsLink, breaks, terminalsToHost, shell, cutOff, cwd, workspace,
          terminalsShown, live, starting, terminalsCalls>>
      /\ record' = [record EXCEPT ![t] = "none"]
      /\ deletes' = deletes \ {t} /\ placed' = placed \ {t}
  BY DEF Terms!Delete, Terms!wires
<1>2. IF record[t] = "none" THEN terminalsToRunner' = terminalsToRunner ELSE TermSent(t, "close")
  BY <1>0, TermSendFacts DEF Terms!Delete
<1>3. Terms!TypeOK'
  BY <1>0, <1>1, <1>2, TermsTypes DEF Terms!TypeOK, TermSent, RunnerFrame
<1>4. NothingSent' /\ NoneConnected'
  BY <1>0, <1>1, <1>2 DEF TermsInv, TermsRest, NothingSent, NoneConnected, TermSent,
     Terms!TypeOK
<1>5. ASSUME NEW u \in Terms!Terminal PROVE StartedOnce(u)' /\ RunsAsKnown(u)'
  BY <1>1, <1>2, <1>0 DEF TermsInv, TermsRest, OfShell, TermSent, ToShell, Starts,
     Terms!TypeOK, StartedOnce, RunsAsKnown
<1> QED
  BY <1>3, <1>4, <1>5 DEF TermsInv, TermsRest

LEMMA ForwardKeeps ==
    ASSUME TermsInv, NEW t \in Terms!Terminal, Terms!Forward(t)
    PROVE  TermsInv'
<1>0. Terms!TypeOK
  BY DEF TermsInv
<1>1. /\ UNCHANGED <<terminalsLink, breaks, terminalsToHost, shell, cutOff, cwd, record, placed,
                     workspace, terminalsShown, live, starting, terminalsCalls, deletes>>
      /\ TermSent(t, "forward")
  BY <1>0, TermSendFacts DEF Terms!Forward, Terms!wires, Terms!hostVars, Terms!pageVars
<1>2. Terms!TypeOK'
  BY <1>0, <1>1 DEF Terms!TypeOK, TermSent, RunnerFrame
<1>3. NothingSent' /\ NoneConnected'
  BY <1>1 DEF TermsInv, TermsRest, NothingSent, NoneConnected, TermSent
<1>4. ASSUME NEW u \in Terms!Terminal PROVE StartedOnce(u)' /\ RunsAsKnown(u)'
  BY <1>1 DEF TermsInv, TermsRest, OfShell, TermSent, StartedOnce, RunsAsKnown
<1> QED
  BY <1>2, <1>3, <1>4 DEF TermsInv, TermsRest

LEMMA TimeoutKeeps ==
    ASSUME TermsInv, NEW c \in Terms!Call, Terms!StartTimesOut(c)
    PROVE  TermsInv'
<1>1. Terms!TypeOK /\ Unheard /\ UNCHANGED <<breaks, placed, workspace, terminalsShown, live,
        starting, deletes>>
  BY DEF TermsInv, Terms!StartTimesOut, Unheard, Terms!wires, Terms!hostVars
<1>2. terminalsCalls' \in [Terms!Call -> CallRecord]
  BY <1>1, AnswerTyped DEF Terms!StartTimesOut
<1> QED
  BY <1>1, <1>2, PageKeeps DEF PageTyped, Terms!TypeOK

LEMMA SettleTyped ==
    ASSUME Terms!TypeOK, NEW t \in Terms!Terminal, NEW connected \in BOOLEAN,
             Terms!Settle(t, connected)
    PROVE  terminalsCalls' \in [Terms!Call -> CallRecord]
<1>1. terminalsCalls \in [Terms!Call -> CallRecord] /\ \A c \in Terms!Call :
        terminalsCalls[c] \in CallRecord
  BY TermsTypes
<1>2. \A r \in CallRecord : \A u \in Terms!Terminal \cup {Terms!Nothing} :
        [r EXCEPT !.at = "answered", !.terminal = u, !.live = connected] \in CallRecord
  BY DEF CallRecord
<1> QED
  BY <1>1, <1>2 DEF Terms!Settle

LEMMA HostReadsKeeps ==
    ASSUME TermsInv, Terms!HostReads
    PROVE  TermsInv'
<1>0. Terms!TypeOK
  BY DEF TermsInv
<1>1. terminalsToHost # <<>> /\ terminalsToHost' = Tail(terminalsToHost)
  BY DEF Terms!HostReads
<1>2. PICK t \in Terms!Terminal, x \in {"started", "refused", "output", "exit"} :
        /\ Head(terminalsToHost) = <<x, t>> /\ OfShell(t, x) /\ terminalsToHost' \in Seq(HostFrame)
        /\ \A u \in Terms!Terminal, m \in {"started", "refused", "output", "exit"} :
             /\ OfShell(u, m)' => OfShell(u, m)
             /\ OfShell(u, m) /\ ~(u = t /\ m = x) => OfShell(u, m)'
             /\ Precedes(terminalsToHost', <<"exit", u>>, <<m, u>>) =>
                 Precedes(terminalsToHost, <<"exit", u>>, <<m, u>>)
             /\ x = "exit" /\ OfShell(t, m)' => Precedes(terminalsToHost, <<"exit", t>>, <<m, t>>)
  BY <1>0, <1>1, HostHead
<1>3. Head(terminalsToHost)[1] = x /\ Head(terminalsToHost)[2] = t
  BY <1>2
<1>4. /\ UNCHANGED <<terminalsLink, breaks, terminalsToRunner, shell, cwd, workspace,
          terminalsShown, starting, deletes, cutOff>>
      /\ record' = [record EXCEPT ![t] = Terms!RecordAfter(x, @)]
      /\ placed' = IF x = "started" THEN placed \cup {t} ELSE placed
      /\ IF x \in {"started", "refused"} THEN Terms!Settle(t, x = "started")
          ELSE UNCHANGED terminalsCalls
      /\ live' = Terms!LiveAfter(x, t)
  BY <1>3 DEF Terms!HostReads, Terms!wires
<1>5. terminalsCalls' \in [Terms!Call -> CallRecord]
  BY <1>0, <1>4, SettleTyped, TermsTypes
<1>6. Terms!RecordAfter(x, record[t]) \in {"none", "connected", "exited"}
  BY <1>0 DEF Terms!RecordAfter, Terms!TypeOK
<1>7. Terms!TypeOK'
  BY <1>0, <1>4, <1>6, <1>2, <1>5 DEF Terms!TypeOK, Terms!LiveAfter, CallRecord, HostFrame
<1>8. terminalsLink = "up"
  BY <1>1 DEF TermsInv, TermsRest, NothingSent
<1>9. NothingSent' /\ NoneConnected'
  BY <1>4, <1>8 DEF NothingSent, NoneConnected
<1>10. ASSUME NEW u \in Terms!Terminal PROVE StartedOnce(u)' /\ RunsAsKnown(u)'
  <2>1. StartedOnce(u) /\ RunsAsKnown(u)
    BY DEF TermsInv, TermsRest
  <2>2. Starts(u)' = Starts(u) /\ \A m : ToShell(u, m)' <=> ToShell(u, m)
    BY <1>4 DEF ToShell, Starts
  <2>3. record'[u] = IF u = t THEN Terms!RecordAfter(x, record[t]) ELSE record[u]
    BY <1>0, <1>4 DEF Terms!TypeOK
  <2>4. CASE u # t
    BY <1>2, <2>4, <1>4, <2>1, <2>2, <2>3 DEF StartedOnce, RunsAsKnown
  <2>5. CASE u = t
    <3> SUFFICES ASSUME u \notin cutOff PROVE StartedOnce(u)' /\ RunsAsKnown(u)'
      BY <1>4, <2>1, <2>2 DEF StartedOnce, RunsAsKnown
    <3>1. \A m \in {"started", "refused", "output", "exit"} :
            (OfShell(u, m)' => OfShell(u, m)) /\ (m # x /\ OfShell(u, m) => OfShell(u, m)')
      BY <1>2, <2>5
    <3>2. OfShell(u, x)
      BY <1>2, <2>5
    <3>3. shell[u] \in {"none", "starting"} => x = "refused"
      BY <2>1, <3>2 DEF StartedOnce
    <3>4. x = "refused" => record'[u] = record[u]
      BY <2>3, <2>5 DEF Terms!RecordAfter
    <3>5. StartedOnce(u)'
      BY <1>4, <2>1, <2>2, <3>1, <3>3, <3>4 DEF StartedOnce
    <3>6. /\ x = "started" => record'[u] = "connected"
          /\ x = "exit" => record'[u] = "exited"
          /\ x = "output" => record'[u] = IF record[u] = "none" THEN "connected" ELSE record[u]
      BY <2>3, <2>5 DEF Terms!RecordAfter
    <3>7. x = "exit" =>
            shell[u] = "ended" /\ \A m \in {"started", "output"} : ~OfShell(u, m)'
      BY <1>2, <2>1, <2>5, <3>2 DEF RunsAsKnown
    <3>8. \A m \in {"started", "output"} : ~Precedes(terminalsToHost', <<"exit", u>>, <<m, u>>)
      BY <1>2, <2>1 DEF RunsAsKnown
    <3>9. shell[u] = "mapped" => record'[u] = "connected" \/ OfShell(u, "started")'
            \/ ToShell(u, "close")'
      BY <2>1, <2>2, <3>1, <3>4, <3>6, <3>7 DEF RunsAsKnown
    <3>10. (record'[u] = "exited" => shell[u] = "ended")
             /\ (OfShell(u, "exit")' => shell[u] = "ended")
      BY <2>1, <3>1, <3>4, <3>6, <3>7 DEF RunsAsKnown
    <3>11. shell[u] = "ended" =>
             /\ record'[u] = "connected" => OfShell(u, "exit")'
             /\ \A m \in {"started", "output"} : OfShell(u, m)' => OfShell(u, "exit")'
      BY <2>1, <3>1, <3>2, <3>4, <3>6, <3>7 DEF RunsAsKnown
    <3> QED
      BY <1>4, <3>5, <3>8, <3>9, <3>10, <3>11 DEF RunsAsKnown
  <2> QED
    BY <2>4, <2>5
<1> QED
  BY <1>7, <1>9, <1>10 DEF TermsInv, TermsRest

-----------------------------------------------------------------------------
(* The connection.                                                         *)

LEMMA BreakKeeps ==
    ASSUME TermsBounded, TermsInv, Terms!Break
    PROVE  TermsInv'
<1>0. Terms!TypeOK
  BY DEF TermsInv
<1>1. /\ breaks < MaxBreaks /\ breaks' = breaks + 1 /\ terminalsLink' = "half"
      /\ terminalsToRunner' = <<>> /\ terminalsToHost' = <<>>
      /\ cutOff' = cutOff \cup {t \in Terms!Terminal : cwd[t] # Terms!Nothing}
      /\ UNCHANGED <<shell, record, placed, cwd, workspace, terminalsShown, live, starting,
          terminalsCalls, deletes>>
  BY DEF Terms!Break, Terms!hostVars, Terms!pageVars
<1>2. breaks' \in 0..MaxBreaks
  BY <1>0, <1>1 DEF Terms!TypeOK, TermsBounded
<1>3. terminalsToRunner' \in Seq(RunnerFrame) /\ terminalsToHost' \in Seq(HostFrame)
  BY <1>1, EmptySeq
<1>4. Terms!TypeOK'
  BY <1>0, <1>1, <1>2, <1>3 DEF Terms!TypeOK, RunnerFrame, HostFrame
<1>5. NothingSent' /\ NoneConnected'
  BY <1>1 DEF NothingSent, NoneConnected
<1>6. ASSUME NEW u \in Terms!Terminal PROVE StartedOnce(u)' /\ RunsAsKnown(u)'
  <2>1. StartedOnce(u) /\ RunsAsKnown(u)
    BY DEF TermsInv, TermsRest
  <2>2. \A m : ~ToShell(u, m)' /\ ~OfShell(u, m)'
          /\ ~Precedes(terminalsToHost', <<"exit", u>>, <<m, u>>)
    BY <1>1, OccursEmpty DEF ToShell, OfShell
  <2>10. Starts(u)' = 0
    BY <1>1, OccursEmpty DEF Starts
  <2>3. u \notin cutOff' => u \notin cutOff /\ cwd[u] = Terms!Nothing
    BY <1>1
  <2>4. cwd'[u] = Terms!Nothing => shell'[u] = "none" /\ u \notin cutOff'
    BY <1>1, <2>1 DEF StartedOnce
  <2>5. u \notin cutOff' => shell'[u] = "none" /\ record'[u] = "none"
    BY <1>1, <2>1, <2>3 DEF StartedOnce
  <2>9. /\ ~ToShell(u, "start")' /\ ~ToShell(u, "close")' /\ Starts(u)' <= 1
        /\ \A m \in {"started", "output", "exit"} : ~OfShell(u, m)'
    <3>1. Starts(u)' <= 1
      BY <2>10
    <3>2. ~ToShell(u, "start")' /\ ~ToShell(u, "close")'
      BY <2>2
    <3>3. \A m \in {"started", "output", "exit"} : ~OfShell(u, m)'
      BY <2>2
    <3> QED
      BY <3>1, <3>2, <3>3
  <2>6. StartedOnce(u)'
    BY <2>4, <2>5, <2>9 DEF StartedOnce
  <2>7. \A m \in {"started", "output"} :
          ~OfShell(u, m)' /\ ~OfShell(u, "exit")'
              /\ ~Precedes(terminalsToHost', <<"exit", u>>, <<m, u>>)
    BY <2>2
  <2>8. RunsAsKnown(u)'
    BY <2>5, <2>7 DEF RunsAsKnown
  <2> QED
    BY <2>6, <2>8
<1> QED
  BY <1>4, <1>5, <1>6 DEF TermsInv, TermsRest

LEMMA DisconnectKeeps ==
    ASSUME TermsInv, Terms!Disconnect
    PROVE  TermsInv'
<1>0. Terms!TypeOK
  BY DEF TermsInv
<1>1. /\ terminalsLink = "half" /\ terminalsLink' = "down" /\ live' = FALSE
      /\ record' = [t \in Terms!Terminal |-> IF record[t] = "none" THEN "none" ELSE "exited"]
      /\ terminalsCalls' = [c \in Terms!Call |-> IF terminalsCalls[c].at = "waiting"
                                THEN [terminalsCalls[c] EXCEPT !.at = "answered",
                                    !.terminal = Terms!Nothing]
                                ELSE terminalsCalls[c]]
      /\ UNCHANGED <<breaks, terminalsToRunner, terminalsToHost, shell, placed, cwd, workspace,
          terminalsShown, starting,
                   deletes, cutOff>>
  BY DEF Terms!Disconnect
<1>2. terminalsCalls' \in [Terms!Call -> CallRecord]
  BY <1>0, <1>1, TermsTypes DEF CallRecord
<1>3. Terms!TypeOK'
  BY <1>0, <1>1, <1>2 DEF Terms!TypeOK, CallRecord
<1>4. NothingSent' /\ NoneConnected'
  BY <1>0, <1>1 DEF NothingSent, NoneConnected, TermsInv, TermsRest
<1>5. ASSUME NEW u \in Terms!Terminal PROVE StartedOnce(u)' /\ RunsAsKnown(u)'
  BY <1>1 DEF TermsInv, TermsRest, ToShell, OfShell, Starts, StartedOnce, RunsAsKnown
<1> QED
  BY <1>3, <1>4, <1>5 DEF TermsInv, TermsRest

LEMMA ReconnectKeeps ==
    ASSUME TermsInv, Terms!Reconnect
    PROVE  TermsInv'
<1>1. /\ terminalsLink' = "up"
      /\ UNCHANGED <<breaks, terminalsToRunner, terminalsToHost, shell, record, placed, cwd,
          workspace, terminalsShown, live,
                     starting, terminalsCalls, deletes, cutOff>>
  BY DEF Terms!Reconnect, Terms!hostVars, Terms!pageVars
<1>2. Terms!TypeOK'
  BY <1>1 DEF TermsInv, Terms!TypeOK
<1>3. TermsRest'
  BY <1>1 DEF TermsInv, TermsRest, NothingSent, NoneConnected, StartedOnce, RunsAsKnown,
      ToShell, OfShell, Starts
<1> QED
  BY <1>2, <1>3 DEF TermsInv

-----------------------------------------------------------------------------
(* The runner.                                                             *)

LEMMA RunnerReadsKeeps ==
    ASSUME TermsInv, Terms!RunnerReads
    PROVE  TermsInv'
<1>0. Terms!TypeOK
  BY DEF TermsInv
<1>1. terminalsToRunner # <<>> /\ terminalsToRunner' = Tail(terminalsToRunner)
  BY DEF Terms!RunnerReads
<1>2. PICK t \in Terms!Terminal, x \in {"start", "forward", "close"} :
        /\ Head(terminalsToRunner) = <<x, t>> /\ ToShell(t, x)
            /\ terminalsToRunner' \in Seq(RunnerFrame)
        /\ \A u \in Terms!Terminal, m \in {"start", "forward", "close"} :
             /\ ToShell(u, m)' => ToShell(u, m)
             /\ ToShell(u, m) /\ ~(u = t /\ m = x) => ToShell(u, m)'
        /\ \A u \in Terms!Terminal : Starts(u) = IF u = t /\ x = "start" THEN Starts(u)' + 1
            ELSE Starts(u)'
        /\ \A u \in Terms!Terminal : Starts(u)' \in Nat
            /\ (Starts(u)' = 0 <=> ~ToShell(u, "start")')
  BY <1>0, <1>1, RunnerHead
<1>3. Head(terminalsToRunner)[1] = x /\ Head(terminalsToRunner)[2] = t
  BY <1>2
<1>4. /\ UNCHANGED <<terminalsLink, breaks, terminalsToHost, record, placed, cwd, workspace,
          terminalsShown, live, starting,
                     terminalsCalls, deletes, cutOff>>
      /\ shell' = [shell EXCEPT ![t] = Terms!ShellAfter(x, @)]
  BY <1>3 DEF Terms!RunnerReads, Terms!wires, Terms!hostVars, Terms!pageVars
<1>5. Terms!ShellAfter(x, shell[t]) \in {"none", "starting", "mapped", "closing", "ended"}
  BY <1>0 DEF Terms!ShellAfter, Terms!TypeOK
<1>6. Terms!TypeOK'
  BY <1>0, <1>2, <1>4, <1>5 DEF Terms!TypeOK, RunnerFrame
<1>7. terminalsLink = "up"
  BY <1>1 DEF TermsInv, TermsRest, NothingSent
<1>8. NothingSent' /\ NoneConnected'
  BY <1>4, <1>7 DEF NothingSent, NoneConnected
<1>9. ASSUME NEW u \in Terms!Terminal PROVE StartedOnce(u)' /\ RunsAsKnown(u)'
  <2>1. StartedOnce(u) /\ RunsAsKnown(u) /\ Starts(u) \in Nat
    BY <1>0, TermsTypes DEF TermsInv, TermsRest
  <2>2. \A m : OfShell(u, m)' <=> OfShell(u, m)
    BY <1>4 DEF OfShell
  <2>3. shell'[u] = IF u = t THEN Terms!ShellAfter(x, shell[u]) ELSE shell[u]
    BY <1>0, <1>4 DEF Terms!TypeOK
  <2>4. CASE u # t
    BY <1>2, <2>4, <1>4, <2>1, <2>2, <2>3 DEF StartedOnce, RunsAsKnown
  <2>5. CASE u = t
    BY <2>3, <2>5, <1>2, <2>1, <1>4, <1>7, <2>2 DEF Terms!ShellAfter, StartedOnce, RunsAsKnown
  <2> QED
    BY <2>4, <2>5
<1> QED
  BY <1>6, <1>8, <1>9 DEF TermsInv, TermsRest

\* What a shell does, and what it tells of it.
LEMMA ShellKeeps ==
    ASSUME TermsInv, NEW t \in Terms!Terminal, NEW x \in {"started", "refused", "output", "exit"},
           NEW after, Terms!RunnerSend(<<<<x, t>>>>), shell' = [shell EXCEPT ![t] = after],
           UNCHANGED <<Terms!wires, terminalsToRunner, Terms!hostVars, Terms!pageVars, cutOff>>,
           \/ shell[t] = "starting" /\ after = "mapped" /\ x = "started"
           \/ shell[t] = "starting" /\ after = "ended" /\ x = "refused"
           \/ shell[t] \in {"mapped", "closing"} /\ after = shell[t] /\ x = "output"
           \/ shell[t] \in {"mapped", "closing"} /\ after = "ended" /\ x = "exit"
    PROVE  TermsInv'
<1>0. Terms!TypeOK
  BY DEF TermsInv
<1>1. /\ UNCHANGED <<terminalsLink, breaks, terminalsToRunner, record, placed, cwd, workspace,
          terminalsShown, live, starting,
                     terminalsCalls, deletes, cutOff>>
  BY DEF Terms!wires, Terms!hostVars, Terms!pageVars
<1>2. /\ \A u \in Terms!Terminal, m \in {"started", "refused", "output", "exit"} :
           /\ OfShell(u, m)' => OfShell(u, m) \/ (u = t /\ m = x)
           /\ OfShell(u, m) => OfShell(u, m)'
           /\ Precedes(terminalsToHost', <<"exit", u>>, <<m, u>>) =>
                \/ Precedes(terminalsToHost, <<"exit", u>>, <<m, u>>)
                \/ OfShell(u, "exit") /\ u = t /\ m = x
      /\ terminalsLink = "up" => OfShell(t, x)'
      /\ terminalsLink # "up" => terminalsToHost' = terminalsToHost
      /\ terminalsToHost' \in Seq(HostFrame)
  BY <1>0, ReplyFacts
<1>3. Terms!TypeOK'
  BY <1>0, <1>1, <1>2 DEF Terms!TypeOK, HostFrame
<1>4. NothingSent' /\ NoneConnected'
  BY <1>1, <1>2 DEF NothingSent, NoneConnected, TermsInv, TermsRest
<1>5. ASSUME NEW u \in Terms!Terminal PROVE StartedOnce(u)' /\ RunsAsKnown(u)'
  BY <1>1, <1>0, <1>2 DEF TermsInv, TermsRest, ToShell, Starts, Terms!TypeOK, StartedOnce,
     RunsAsKnown
<1> QED
  BY <1>3, <1>4, <1>5 DEF TermsInv, TermsRest

LEMMA TermsStep == TermsBounded /\ TermsInv /\ [Terms!Next]_Terms!vars => TermsInv'
<1> SUFFICES ASSUME TermsBounded, TermsInv, [Terms!Next]_Terms!vars PROVE TermsInv'
  OBVIOUS
<1>0. Terms!TypeOK
  BY DEF TermsInv
<1>1. ASSUME NEW c \in Terms!Call,
             \/ Terms!Ready(c) \/ Terms!Reopen(c) \/ Terms!Resume(c) \/ Terms!Answered(c)
             \/ \E w \in Workspaces : Terms!ChangeWorkspace(c, w)
      PROVE  TermsInv'
  BY <1>0, <1>1, PageSteps, PageKeeps
<1>2. ASSUME Terms!ClosePane PROVE TermsInv'
  BY <1>0, <1>2, CloseTyped, PageKeeps DEF Terms!ClosePane, PageTyped, Unheard, Terms!wires,
     Terms!hostVars, Terms!TypeOK, CallRecord
<1>3. ASSUME NEW c \in Terms!Call, Terms!Post(c) \/ Terms!StartTimesOut(c) PROVE TermsInv'
  BY <1>3, PostKeeps, TimeoutKeeps
<1>4. ASSUME NEW t \in Terms!Terminal, Terms!Delete(t) \/ Terms!Forward(t) PROVE TermsInv'
  BY <1>4, DeleteKeeps, ForwardKeeps
<1>5. ASSUME NEW t \in Terms!Terminal, Terms!Spawned(t) PROVE TermsInv'
  BY <1>5, ShellKeeps DEF Terms!Spawned
<1>6. ASSUME NEW t \in Terms!Terminal, Terms!Output(t) PROVE TermsInv'
  <2>1. shell' = [shell EXCEPT ![t] = shell[t]]
    BY <1>0, <1>6 DEF Terms!Output, Terms!TypeOK
  <2> QED
    BY <1>6, <2>1, ShellKeeps DEF Terms!Output
<1>7. ASSUME NEW t \in Terms!Terminal, Terms!Exit(t) PROVE TermsInv'
  BY <1>7, ShellKeeps DEF Terms!Exit
<1>8. CASE UNCHANGED Terms!vars
  BY <1>0, <1>8, PageKeeps DEF Terms!vars, Unheard, PageTyped, Terms!TypeOK, CallRecord
<1> QED
  BY <1>1, <1>2, <1>3, <1>4, <1>5, <1>6, <1>7, <1>8, HostReadsKeeps, RunnerReadsKeeps,
     BreakKeeps,
      DisconnectKeeps, ReconnectKeeps DEF Terms!Next

LEMMA TermsSafe == TermsInv => Terms!RecordsAgree
<1> SUFFICES ASSUME TermsInv PROVE Terms!RecordsAgree
  OBVIOUS
<1>1. \A t, m : /\ Terms!Underway(terminalsToHost, m, t) <=> OfShell(t, m)
                /\ Terms!Underway(terminalsToRunner, m, t) <=> ToShell(t, m)
  BY DEF Terms!Underway, OfShell, ToShell, Occurs
<1>2. ASSUME NEW t \in Terms!Terminal
      PROVE  /\ terminalsLink = "down" => record[t] # "connected"
             /\ t \notin cutOff /\ shell[t] = "mapped" =>
                  record[t] = "connected" \/ OfShell(t, "started") \/ ToShell(t, "close")
             /\ t \notin cutOff /\ record[t] = "connected" =>
                  shell[t] \in {"mapped", "closing"} \/ OfShell(t, "exit")
  BY DEF TermsInv, TermsRest, StartedOnce, RunsAsKnown, NoneConnected, Terms!TypeOK
<1> QED
  BY <1>1, <1>2 DEF Terms!RecordsAgree

-----------------------------------------------------------------------------
(* Files and Git.                                                          *)

PageRequest ==
    [kind : Requests!Kind, of : Workspaces, at : {"none", "asked", "pending", "answered", "done"},
     result : {"none", "ok", "failed", "unsent", "late", "lost"}, version : 0..MaxRequests,
     empty : BOOLEAN]

LEMMA PagesTypes ==
    ASSUME Requests!TypeOK
    PROVE  /\ requests \in [Requests!Request -> PageRequest] /\ \A r \in Requests!Request :
               requests[r] \in PageRequest
           /\ pagesToRunner \in Seq(Requests!Request)
               /\ pagesToHost \in Seq(Requests!Request \X BOOLEAN)
           /\ \A r \in Requests!Request : Count(pagesToRunner, r) \in Nat
               /\ (Count(pagesToRunner, r) = 0 <=> ~Posted(r))
<1>1. pagesToRunner \in Seq(Requests!Request) /\ pagesToHost \in Seq(Requests!Request \X BOOLEAN)
      /\ requests \in [Requests!Request -> PageRequest]
  BY DEF Requests!TypeOK, PageRequest
<1> QED
  BY <1>1, CountType DEF Posted

LEMMA WorkIsBusy == Requests!AtWork <=> \E r \in Requests!Request : Busy(r)
BY DEF Requests!AtWork, Busy, Posted, Occurs

LEMMA ChangersCounted ==
    ASSUME PagesBounded
    PROVE  /\ IsFiniteSet(Requests!Request) /\ Cardinality(Requests!Request) = MaxRequests
           /\ \A S \in SUBSET Requests!Request : IsFiniteSet(S) /\ Cardinality(S) \in Nat
               /\ Cardinality(S) <= MaxRequests
           /\ \A S, T \in SUBSET Requests!Request : S \subseteq T =>
               Cardinality(S) <= Cardinality(T)
<1>1. IsFiniteSet(Requests!Request) /\ Cardinality(Requests!Request) = MaxRequests
  BY FS_Interval DEF PagesBounded, Requests!Request
<1>2. \A S \in SUBSET Requests!Request : IsFiniteSet(S) /\ Cardinality(S) \in Nat
        /\ Cardinality(S) <= MaxRequests
  BY <1>1, FS_Subset, FS_CardinalityType
<1> QED
  BY <1>1, <1>2, FS_Subset

LEMMA RepoKept ==
    ASSUME PagesBounded, Requests!TypeOK, RepoBounded, repo' = repo, byShell' = byShell,
           \A w \in Workspaces : Changers(w) \subseteq Changers(w)'
    PROVE  RepoBounded'
<1> SUFFICES ASSUME NEW w \in Workspaces PROVE repo[w] <= Cardinality(Changers(w)')
  BY DEF RepoBounded
<1>1. Changers(w) \in SUBSET Requests!Request /\ Changers(w)' \in SUBSET Requests!Request
  BY DEF Changers
<1>2. /\ Cardinality(Changers(w)) \in Nat /\ Cardinality(Changers(w)') \in Nat
      /\ Cardinality(Changers(w)) <= Cardinality(Changers(w)')
  BY <1>1, ChangersCounted
<1>3. repo[w] \in 0..MaxRequests /\ repo[w] <= Cardinality(Changers(w))
  BY DEF Requests!TypeOK, RepoBounded
<1> QED
  BY <1>2, <1>3 DEF PagesBounded

LEMMA PagesInit == PagesBounded /\ Requests!Init => PagesInv
<1> SUFFICES ASSUME PagesBounded, Requests!Init PROVE PagesInv
  OBVIOUS
<1> DEFINE w0 == CHOOSE w \in Workspaces : TRUE
<1>1. w0 \in Workspaces
  BY DEF PagesBounded
<1> HIDE DEF w0
<1>2. Requests!NoRequest \in PageRequest
  BY <1>1 DEF Requests!NoRequest, PageRequest, Requests!Kind, w0, PagesBounded
<1>3. requests = [r \in Requests!Request |-> Requests!NoRequest]
        /\ requests \in [Requests!Request -> PageRequest]
  BY <1>2 DEF Requests!Init
<1>4. context \in Workspaces /\ steps \in 0..MaxSteps /\ repo \in [Workspaces -> 0..MaxRequests]
      /\ byShell \in [Workspaces -> 0..MaxRequests]
  BY <1>1 DEF Requests!Init, w0, PagesBounded
<1>5. pagesToRunner \in Seq(Requests!Request) /\ pagesToHost \in Seq(Requests!Request \X BOOLEAN)
  BY EmptySeq DEF Requests!Init
<1>6. /\ pagesLink = "up" /\ jobs = [r \in Requests!Request |-> "none"] /\ gitStatus = None
          /\ gitLoading = FALSE
      /\ gitWorking = FALSE /\ gitError = FALSE /\ entries = None /\ pagesFile = None
          /\ crossed = FALSE
  BY DEF Requests!Init
<1>7. Requests!TypeOK
  BY <1>3, <1>4, <1>5, <1>6 DEF Requests!TypeOK, PageRequest
<1>8. \A r \in Requests!Request : requests[r].at = "none" /\ requests[r].result = "none"
        /\ requests[r].kind = "exec"
  BY <1>3 DEF Requests!NoRequest
<1>9. \A r : ~Posted(r) /\ Count(pagesToRunner, r) = 0 /\ \A ok : ~PageReported(r, ok)
  BY OccursEmpty DEF Requests!Init, Posted, PageReported
<1>10. \A r \in Requests!Request : DoneOnce(r)
  BY <1>6, <1>8, <1>9 DEF DoneOnce
<1>11. \A kinds : Requests!Underway(kinds) = {}
  BY <1>8 DEF Requests!Underway
<1>12. RepoBounded
  <2> SUFFICES ASSUME NEW w \in Workspaces
               PROVE  repo[w] <= Cardinality(Changers(w)) /\ byShell[w] <= repo[w]
    BY DEF RepoBounded
  <2>1. repo[w] = 0 /\ byShell[w] = 0 /\ Changers(w) \in SUBSET Requests!Request
    BY DEF Requests!Init, Changers
  <2>2. Cardinality(Changers(w)) \in Nat
    BY <2>1, ChangersCounted
  <2> QED
    BY <2>1, <2>2
<1>13. OneChange
  BY <1>11 DEF OneChange
<1>14. \A r \in Requests!Request : ~Busy(r)
  BY <1>8 DEF Busy, Requests!Change
<1>15. Uncrossed /\ Requests!StatusIsFresh
  BY <1>6, <1>11, <1>14 DEF Uncrossed, AloneOnPage, Requests!StatusIsFresh
<1> QED
  BY <1>7, <1>10, <1>12, <1>13, <1>15 DEF PagesInv, PagesRest

-----------------------------------------------------------------------------
(* The page.                                                               *)

LEMMA PageAskKeeps ==
    ASSUME PagesBounded, PagesInv, NEW r \in Requests!Request, NEW kind \in Requests!Kind \ {"again"},
           Requests!Ask(r, kind),
           gitError' = IF kind \in Requests!Git THEN FALSE ELSE gitError,
           gitWorking' = IF kind \in Requests!Change THEN TRUE ELSE gitWorking,
           kind \in Requests!Change => ~gitWorking,
           gitLoading' \in BOOLEAN, UNCHANGED <<entries, pagesFile>>
    PROVE  PagesInv'
<1>0. Requests!TypeOK
  BY DEF PagesInv
<1>1. /\ requests[r].at = "none"
      /\ requests' = [requests EXCEPT ![r] = Requests!Asked(kind)]
      /\ crossed' = (crossed
          \/ (kind \in Requests!Git /\ (Requests!Underway(Requests!Git) # {} \/ Requests!AtWork)))
      /\ UNCHANGED <<pagesLink, steps, pagesToRunner, pagesToHost, jobs, repo, byShell, context,
                     gitStatus>>
  BY DEF Requests!Ask, Requests!Free, Requests!runnerVars
<1>2. Requests!Asked(kind) \in PageRequest
  BY <1>0 DEF PageRequest, Requests!Asked, Requests!TypeOK, PagesBounded
<1>3. requests' \in [Requests!Request -> PageRequest]
  BY <1>0, <1>1, <1>2, PagesTypes
<1>4. gitError' \in BOOLEAN /\ gitWorking' \in BOOLEAN /\ crossed' \in BOOLEAN
  BY <1>0, <1>1 DEF Requests!TypeOK
<1>5. Requests!TypeOK'
  BY <1>0, <1>1, <1>3, <1>4 DEF Requests!TypeOK, PageRequest
<1>6. /\ requests'[r].kind = kind /\ requests'[r].of = context /\ requests'[r].at = "asked"
      /\ requests'[r].result = "none"
      /\ \A q \in Requests!Request : q # r => requests'[q] = requests[q]
  BY <1>0, <1>1, PagesTypes DEF Requests!Asked
<1>7. \A q : /\ Posted(q)' <=> Posted(q)
             /\ \A ok : PageReported(q, ok)' <=> PageReported(q, ok)
  BY <1>1 DEF Posted, PageReported
<1>8. /\ \A q \in Requests!Request : DoneOnce(q)
      /\ RepoBounded /\ OneChange /\ Uncrossed /\ Requests!StatusIsFresh
  BY DEF PagesInv, PagesRest
<1>9. jobs[r] = "none" /\ ~Posted(r) /\ \A ok \in BOOLEAN : ~PageReported(r, ok)
  BY <1>1, <1>8 DEF DoneOnce
<1>10. \A q \in Requests!Request : DoneOnce(q)'
  BY <1>1, <1>6, <1>7, <1>8, <1>9 DEF DoneOnce
<1>11. RepoBounded'
  BY <1>1, <1>6, <1>9, <1>0, <1>8, RepoKept DEF Changers
<1>12. \A kinds : Requests!Underway(kinds)' = IF kind \in kinds
         THEN Requests!Underway(kinds) \cup {r} ELSE Requests!Underway(kinds)
  BY <1>1, <1>6 DEF Requests!Underway
<1>13. OneChange'
  BY <1>8, <1>12 DEF OneChange
<1>14. \A q \in Requests!Request : Busy(q)' <=> Busy(q)
  BY <1>1, <1>6, <1>7, <1>9 DEF Busy
<1>15. ~Busy(r)
  BY <1>9 DEF Busy
<1>16. CASE kind \in Requests!Git
  <2>1. r \in Requests!Underway(Requests!Git)'
    BY <1>12, <1>16
  <2>2. Requests!StatusIsFresh'
    BY <2>1 DEF Requests!StatusIsFresh
  <2>3. Uncrossed'
    BY <1>1, <1>12, <1>16, WorkIsBusy, <1>6, <1>7, <1>9, <1>14, <1>8 DEF Uncrossed, AloneOnPage
  <2> QED
    BY <1>5, <1>10, <1>11, <1>13, <2>2, <2>3 DEF PagesInv, PagesRest
<1>17. CASE kind \notin Requests!Git
  <2>1. Requests!Underway(Requests!Git)' = Requests!Underway(Requests!Git)
          /\ (crossed' <=> crossed) /\ gitError' = gitError
    BY <1>1, <1>12, <1>17
  <2>2. Requests!AtWork' <=> Requests!AtWork
    BY <1>14, WorkIsBusy DEF Requests!AtWork, Busy, Posted, Occurs
  <2>6. gitError' <=> gitError
    BY <1>17, Zenon
  <2>3. Requests!StatusIsFresh'
    BY <1>1, <1>8, <2>1, <2>2, <2>6 DEF Requests!StatusIsFresh
  <2>4. r \notin Requests!Underway(Requests!Git)
    BY <1>1 DEF Requests!Underway
  <2>5. Uncrossed'
    <3> SUFFICES ASSUME ~crossed, NEW q \in Requests!Request PROVE AloneOnPage(q)'
      BY <1>1, <1>8, <2>1 DEF Uncrossed
    <3>1. AloneOnPage(q)
      BY <1>8 DEF Uncrossed
    <3>2. q \in Requests!Underway(Requests!Git)' => requests'[q] = requests[q]
      BY <1>6, <2>1, <2>4
    <3> QED
      BY <1>1, <1>7, <1>14, <2>1, <2>6, <3>1, <3>2 DEF AloneOnPage, Fresh
  <2> QED
    BY <1>5, <1>10, <1>11, <1>13, <2>3, <2>5 DEF PagesInv, PagesRest
<1> QED
  BY <1>16, <1>17

LEMMA AsksKeep ==
    ASSUME PagesBounded, PagesInv, NEW r \in Requests!Request,
           Requests!LoadFiles(r) \/ Requests!LoadFile(r) \/ Requests!RefreshGit(r)
               \/ Requests!Mutate(r) \/ Requests!Exec(r)
    PROVE  PagesInv'
<1>1. gitLoading \in BOOLEAN /\ "list" \in Requests!Kind /\ "read" \in Requests!Kind
        /\ "status" \in Requests!Kind
      /\ "exec" \in Requests!Kind /\ Requests!Change \subseteq Requests!Kind \ {"again"}
  BY DEF PagesInv, Requests!TypeOK, Requests!Kind, Requests!Change
<1>2. /\ \A k \in {"list", "read", "exec"} : k \notin Requests!Git
      /\ \A k \in {"list", "read", "exec", "status"} : k \notin Requests!Change
      /\ "status" \in Requests!Git /\ Requests!Change \subseteq Requests!Git
  BY DEF Requests!Git, Requests!Status, Requests!Change
<1>3. CASE Requests!LoadFiles(r)
  BY <1>1, <1>2, <1>3, PageAskKeeps DEF Requests!LoadFiles
<1>4. CASE Requests!LoadFile(r)
  BY <1>1, <1>2, <1>4, PageAskKeeps DEF Requests!LoadFile
<1>5. CASE Requests!RefreshGit(r)
  BY <1>1, <1>2, <1>5, PageAskKeeps DEF Requests!RefreshGit
<1>6. CASE Requests!Mutate(r)
  BY <1>1, <1>2, <1>6, PageAskKeeps DEF Requests!Mutate
<1>7. CASE Requests!Exec(r)
  BY <1>1, <1>2, <1>7, PageAskKeeps DEF Requests!Exec
<1> QED
  BY <1>3, <1>4, <1>5, <1>6, <1>7

LEMMA ContextKeeps ==
    ASSUME PagesBounded, PagesInv, NEW w \in Workspaces, Requests!ChangeContext(w)
    PROVE  PagesInv'
<1>0. Requests!TypeOK
  BY DEF PagesInv
<1>1. /\ steps' \in 0..MaxSteps /\ context' = w /\ gitStatus' = None /\ gitError' = FALSE
      /\ entries' = None /\ pagesFile' = None
      /\ crossed' = (crossed \/ Requests!Underway(Requests!Git \ {"branch"}) # {})
      /\ UNCHANGED <<pagesLink, requests, pagesToRunner, pagesToHost, jobs, repo, byShell,
                     gitLoading, gitWorking>>
  BY <1>0 DEF Requests!ChangeContext, Requests!runnerVars, Requests!TypeOK, PagesBounded
<1>2. Requests!TypeOK'
  BY <1>0, <1>1 DEF Requests!TypeOK
<1>3. /\ \A q \in Requests!Request : DoneOnce(q)
      /\ RepoBounded /\ OneChange /\ Uncrossed /\ Requests!StatusIsFresh
  BY DEF PagesInv, PagesRest
<1>4. (\A q \in Requests!Request : DoneOnce(q)') /\ RepoBounded' /\ OneChange'
  BY <1>1, <1>3 DEF DoneOnce, RepoBounded, OneChange, Posted, PageReported, Changers,
     Requests!Underway
<1>5. Requests!StatusIsFresh'
  BY <1>1 DEF Requests!StatusIsFresh
<1>6. Uncrossed'
  <2> SUFFICES ASSUME ~crossed, Requests!Underway(Requests!Git \ {"branch"}) = {},
                      NEW q \in Requests!Request
               PROVE  AloneOnPage(q)'
    BY <1>1 DEF Uncrossed
  <2>1. AloneOnPage(q)
    BY <1>3 DEF Uncrossed
  <2>2. q \in Requests!Underway(Requests!Git) => requests[q].kind = "branch"
    BY DEF Requests!Underway
  <2>3. \A K : Requests!Underway(K)' = Requests!Underway(K)
    BY <1>1 DEF Requests!Underway
  <2>4. Busy(q)' <=> Busy(q)
    BY <1>1 DEF Busy, Posted
  <2> QED
    BY <1>1, <2>1, <2>2, <2>3, <2>4 DEF AloneOnPage
<1> QED
  BY <1>2, <1>4, <1>5, <1>6 DEF PagesInv, PagesRest

LEMMA ShownKeeps ==
    ASSUME PagesBounded, PagesInv, NEW r \in Requests!Request, Requests!Shown(r)
    PROVE  PagesInv'
<1>0. Requests!TypeOK
  BY DEF PagesInv
<1> DEFINE kind == requests[r].kind
<1> DEFINE ok == requests[r].result = "ok"
<1>1. /\ requests[r].at = "answered" /\ requests' = [requests EXCEPT ![r].at = "done"]
      /\ ~(kind = "branch" /\ ok)
      /\ gitStatus' = IF kind \in Requests!Git /\ ok THEN Requests!ShowStatus(requests[r]) ELSE gitStatus
      /\ gitError' = (gitError \/ (kind \in Requests!Git /\ ~ok))
      /\ gitLoading' = (gitLoading /\ kind \notin Requests!Status)
      /\ gitWorking' = (gitWorking /\ kind \notin Requests!Change \cup {"again"})
      /\ entries' = IF kind = "list" /\ ok THEN requests[r].of ELSE entries
      /\ pagesFile' = IF kind # "read" THEN pagesFile ELSE IF ok THEN requests[r].of ELSE None
      /\ UNCHANGED <<pagesLink, steps, pagesToRunner, pagesToHost, jobs, repo, byShell, context, crossed>>
  BY DEF Requests!Shown, Requests!Change, Requests!runnerVars
<1>2. requests[r] \in PageRequest /\ requests[r].of \in Workspaces
      /\ requests[r].version \in 0..MaxRequests /\ requests[r].empty \in BOOLEAN
  BY <1>0, PagesTypes DEF PageRequest
<1>3. requests' \in [Requests!Request -> PageRequest]
  BY <1>0, <1>1, PagesTypes DEF PageRequest
<1>4. gitError' \in BOOLEAN /\ gitLoading' \in BOOLEAN /\ gitWorking' \in BOOLEAN
  BY <1>0, <1>1 DEF Requests!TypeOK
<1>5. /\ entries' \in Workspaces \cup {None} /\ pagesFile' \in Workspaces \cup {None}
      /\ gitStatus' = None \/ gitStatus' \in [of : Workspaces, version : 0..MaxRequests, empty : BOOLEAN]
  BY <1>0, <1>1, <1>2 DEF Requests!TypeOK, Requests!ShowStatus
<1>6. Requests!TypeOK'
  BY <1>0, <1>1, <1>3, <1>4, <1>5 DEF Requests!TypeOK, PageRequest
<1>7. /\ requests'[r].kind = kind /\ requests'[r].of = requests[r].of /\ requests'[r].at = "done"
      /\ requests'[r].result = requests[r].result /\ requests'[r].version = requests[r].version
      /\ requests'[r].empty = requests[r].empty
      /\ \A q \in Requests!Request : q # r => requests'[q] = requests[q]
  BY <1>0, <1>1, PagesTypes DEF PageRequest
<1>8. /\ \A q \in Requests!Request : DoneOnce(q)
      /\ RepoBounded /\ OneChange /\ Uncrossed /\ Requests!StatusIsFresh
  BY DEF PagesInv, PagesRest
<1>9. \A q : /\ Posted(q)' <=> Posted(q)
             /\ \A b : PageReported(q, b)' <=> PageReported(q, b)
  BY <1>1 DEF Posted, PageReported
<1>10. \A q \in Requests!Request : DoneOnce(q)'
  BY <1>1, <1>7, <1>8, <1>9 DEF DoneOnce
<1>11. RepoBounded'
  BY <1>1, <1>7, <1>0, <1>8, RepoKept DEF Changers
<1>12. \A kinds : Requests!Underway(kinds)' = Requests!Underway(kinds) \ {r}
  BY <1>1, <1>7 DEF Requests!Underway
<1>13. \A kinds : kind \in kinds => r \in Requests!Underway(kinds)
  BY <1>1 DEF Requests!Underway
<1>14. \A q \in Requests!Request : Busy(q)' <=> Busy(q)
  BY <1>1, <1>7, <1>9 DEF Busy
<1>15. Requests!AtWork' <=> Requests!AtWork
  BY <1>14, WorkIsBusy DEF Requests!AtWork, Busy, Posted, Occurs
<1>16. OneChange'
  BY <1>1, <1>8, <1>12, <1>13 DEF OneChange
<1>17. CASE kind \in Requests!Git
  <2> SUFFICES ASSUME ~crossed PROVE PagesInv'
    BY <1>1, <1>6, <1>10, <1>11, <1>16 DEF PagesInv, PagesRest, Uncrossed,
       Requests!StatusIsFresh
  <2>1. \A q \in Requests!Request : AloneOnPage(q)
    BY <1>8 DEF Uncrossed
  <2>2. Requests!Underway(Requests!Git)' = {}
    BY <1>12, <1>13, <1>17, <2>1 DEF AloneOnPage
  <2>3. ok => /\ requests[r].of = context /\ Fresh(requests[r])
              /\ \A q \in Requests!Request : ~Busy(q)
    BY <1>1, <1>13, <1>17, <2>1, <1>8 DEF AloneOnPage, Busy, DoneOnce
  <2>4. CASE ok
    <3>1. /\ gitStatus'.of = context /\ gitStatus'.version = requests[r].version
          /\ gitStatus'.empty = requests[r].empty
      BY <1>1, <1>17, <2>3, <2>4 DEF Requests!ShowStatus
    <3>2. Requests!StatusIsFresh'
      BY <1>1, <2>3, <2>4, <3>1 DEF Requests!StatusIsFresh, Fresh
    <3>3. Uncrossed'
      BY <1>1, <1>14, <2>2, <2>3, <2>4, <3>1 DEF Uncrossed, AloneOnPage
    <3> QED
      BY <1>6, <1>10, <1>11, <1>16, <3>2, <3>3 DEF PagesInv, PagesRest
  <2>5. CASE ~ok
    <3>1. gitError' /\ gitStatus' = gitStatus
      BY <1>1, <1>17, <2>5
    <3>2. Uncrossed'
      BY <1>1, <1>8, <2>2, <3>1 DEF Uncrossed, AloneOnPage
    <3> QED
      BY <1>6, <1>10, <1>11, <1>16, <3>1, <3>2 DEF PagesInv, PagesRest, Requests!StatusIsFresh
  <2> QED
    BY <2>4, <2>5
<1>18. CASE kind \notin Requests!Git
  <2>1. Requests!Underway(Requests!Git)' = Requests!Underway(Requests!Git)
          /\ r \notin Requests!Underway(Requests!Git)
    BY <1>12, <1>18 DEF Requests!Underway
  <2>2. gitStatus' = gitStatus /\ (gitError' <=> gitError)
    BY <1>0, <1>1, <1>18 DEF Requests!TypeOK
  <2>3. Requests!StatusIsFresh'
    BY <1>1, <1>8, <1>15, <2>1, <2>2 DEF Requests!StatusIsFresh
  <2>4. Uncrossed'
    BY ZenonT(30), <1>1, <1>7, <1>8, <1>9, <1>14, <2>1, <2>2 DEF Uncrossed, AloneOnPage, Fresh
  <2> QED
    BY <1>6, <1>10, <1>11, <1>16, <2>3, <2>4 DEF PagesInv, PagesRest
<1> QED
  BY <1>17, <1>18

LEMMA ShownAgainKeeps ==
    ASSUME PagesBounded, PagesInv, NEW r \in Requests!Request, Requests!ShownAgain(r)
    PROVE  PagesInv'
<1>0. Requests!TypeOK
  BY DEF PagesInv
<1>1. PICK n \in Requests!Request :
          /\ requests[n].at = "none"
          /\ requests' = [requests EXCEPT ![r].at = "done", ![n] = Requests!Asked("again")]
  BY DEF Requests!ShownAgain, Requests!Free
<1>2. /\ requests[r].at = "answered" /\ requests[r].kind = "branch"
      /\ gitLoading' = TRUE /\ gitError' = FALSE
      /\ crossed' = (crossed \/ Requests!Underway(Requests!Git) # {r} \/ Requests!AtWork)
      /\ UNCHANGED <<pagesLink, steps, pagesToRunner, pagesToHost, jobs, repo, byShell, context,
                     gitStatus, gitWorking, entries, pagesFile>>
  BY DEF Requests!ShownAgain, Requests!runnerVars
<1>3. Requests!Asked("again") \in PageRequest
  BY <1>0 DEF PageRequest, Requests!Asked, Requests!Kind, Requests!TypeOK, PagesBounded
<1>4. /\ requests' \in [Requests!Request -> PageRequest] /\ n # r
      /\ requests'[r] = [requests[r] EXCEPT !.at = "done"] /\ requests'[n] = Requests!Asked("again")
      /\ \A q \in Requests!Request : q # r /\ q # n => requests'[q] = requests[q]
  BY <1>0, <1>1, <1>2, <1>3, PagesTypes DEF PageRequest
<1>5. /\ requests'[r].kind = "branch" /\ requests'[r].of = requests[r].of /\ requests'[r].at = "done"
      /\ requests'[r].result = requests[r].result
      /\ requests'[n].kind = "again" /\ requests'[n].of = context /\ requests'[n].at = "asked"
      /\ requests'[n].result = "none"
  BY <1>0, <1>2, <1>4, PagesTypes DEF PageRequest, Requests!Asked
<1>6. Requests!TypeOK'
  BY <1>0, <1>2, <1>4 DEF Requests!TypeOK, PageRequest
<1>7. /\ \A q \in Requests!Request : DoneOnce(q)
      /\ RepoBounded /\ OneChange /\ Uncrossed
  BY DEF PagesInv, PagesRest
<1>8. \A q : /\ Posted(q)' <=> Posted(q)
             /\ \A ok : PageReported(q, ok)' <=> PageReported(q, ok)
  BY <1>2 DEF Posted, PageReported
<1>9. jobs[n] = "none" /\ ~Posted(n) /\ \A ok \in BOOLEAN : ~PageReported(n, ok)
  BY <1>1, <1>7 DEF DoneOnce
<1>10. ASSUME NEW q \in Requests!Request PROVE DoneOnce(q)'
  <2>1. DoneOnce(q)
    BY <1>7
  <2>2. /\ Count(pagesToRunner', q) = Count(pagesToRunner, q) /\ jobs'[q] = jobs[q]
        /\ Posted(q)' <=> Posted(q)
        /\ \A ok \in BOOLEAN : PageReported(q, ok)' <=> PageReported(q, ok)
    BY <1>2, <1>8
  <2>3. CASE q = n
    BY <1>5, <1>9, <2>1, <2>2, <2>3 DEF DoneOnce
  <2>4. CASE q = r
    BY <1>5, <2>1, <2>2, <2>4 DEF DoneOnce
  <2>5. CASE q # n /\ q # r
    BY <1>4, <2>1, <2>2, <2>5 DEF DoneOnce
  <2> QED
    BY <2>3, <2>4, <2>5
<1>11. RepoBounded'
  <2>1. ASSUME NEW w \in Workspaces, NEW q \in Changers(w) PROVE q \in Changers(w)'
    <3>1. q \in Requests!Request /\ jobs[q] \in {"acted", "done"} /\ q # n /\ jobs'[q] = jobs[q]
      BY <1>2, <1>9, <2>1 DEF Changers
    <3>2. requests'[q].kind = requests[q].kind /\ requests'[q].of = requests[q].of
      BY ZenonT(30), <1>2, <1>4, <1>5, <3>1
    <3> QED
      BY <2>1, <3>1, <3>2 DEF Changers
  <2> QED
    BY <1>0, <1>2, <1>7, <2>1, RepoKept
<1>12. \A K : Requests!Underway(K)' =
          (Requests!Underway(K) \ {r}) \cup (IF "again" \in K THEN {n} ELSE {})
  BY <1>1, <1>4, <1>5 DEF Requests!Underway
<1>13. /\ "again" \in Requests!Git
       /\ \A K : "branch" \in K => r \in Requests!Underway(K)
  BY <1>2 DEF Requests!Underway, Requests!Git, Requests!Status
<1>14. OneChange'
  BY <1>2, <1>7, <1>12, <1>13 DEF OneChange, Requests!Change
<1>15. \A q \in Requests!Request : Busy(q)' => Busy(q)
  BY ZenonT(40), <1>2, <1>4, <1>5, <1>8, <1>9 DEF Busy
<1>16. Requests!StatusIsFresh'
  BY <1>12, <1>13 DEF Requests!StatusIsFresh
<1>17. Uncrossed'
  <2> SUFFICES ASSUME ~crossed, Requests!Underway(Requests!Git) = {r}, ~Requests!AtWork,
                      NEW q \in Requests!Request
               PROVE  AloneOnPage(q)'
    BY <1>2, <1>7 DEF Uncrossed
  <2>1. Requests!Underway(Requests!Git)' = {n}
    BY <1>12, <1>13
  <2>2. ~Busy(q)'
    BY <1>15, WorkIsBusy
  <2> QED
    BY <1>2, <1>5, <1>8, <1>9, <2>1, <2>2 DEF AloneOnPage
<1> QED
  BY <1>6, <1>10, <1>11, <1>14, <1>16, <1>17 DEF PagesInv, PagesRest

-----------------------------------------------------------------------------
(* The host.                                                               *)

\* What settles requests, and loses frames.
LEMMA SettleKeeps ==
    ASSUME PagesBounded, PagesInv, requests' \in [Requests!Request -> PageRequest],
           UNCHANGED <<jobs, repo, byShell, Requests!pane>>,
           pagesLink' \in {"up", "half", "down"}, steps' \in 0..MaxSteps,
           pagesToRunner' \in Seq(Requests!Request),
               pagesToHost' \in Seq(Requests!Request \X BOOLEAN),
           \A r \in Requests!Request :
             /\ requests'[r].kind = requests[r].kind /\ requests'[r].of = requests[r].of
             /\ requests'[r].version = requests[r].version /\ requests'[r].empty = requests[r].empty
             /\ \/ requests'[r].at = requests[r].at /\ requests'[r].result = requests[r].result
                \/ /\ requests[r].at = "pending" /\ requests'[r].at = "answered"
                   /\ requests'[r].result = "ok" => PageReported(r, TRUE)
             /\ Count(pagesToRunner', r) <= Count(pagesToRunner, r) /\ (Posted(r)' => Posted(r))
             /\ \A ok \in BOOLEAN : PageReported(r, ok)' => PageReported(r, ok)
    PROVE  PagesInv'
<1>0. Requests!TypeOK
  BY DEF PagesInv
<1>1. UNCHANGED <<context, gitStatus, gitLoading, gitWorking, gitError, entries, pagesFile,
        crossed>>
  BY DEF Requests!pane
<1>2. Requests!TypeOK'
  BY <1>0, <1>1 DEF Requests!TypeOK, PageRequest
<1>3. /\ \A q \in Requests!Request : DoneOnce(q)
      /\ RepoBounded /\ OneChange /\ Uncrossed /\ Requests!StatusIsFresh
  BY DEF PagesInv, PagesRest
<1>4. ASSUME NEW q \in Requests!Request PROVE DoneOnce(q)'
  <2>1. DoneOnce(q) /\ Count(pagesToRunner, q) \in Nat
    BY <1>0, <1>3, PagesTypes
  <2>2. Count(pagesToRunner', q) \in Nat /\ Count(pagesToRunner', q) <= Count(pagesToRunner, q)
    BY CountType
  <2>3. Count(pagesToRunner', q) <= 1
    BY <2>1, <2>2 DEF DoneOnce
  <2>4. requests'[q].at \in {"none", "asked"} => requests[q].at \in {"none", "asked"}
    OBVIOUS
  <2>5. requests'[q].result = "ok" => jobs[q] = "done"
    BY <2>1 DEF DoneOnce
  <2>6. /\ requests'[q].at \in {"none", "asked"} => jobs'[q] = "none" /\ ~Posted(q)'
        /\ Posted(q)' => jobs'[q] = "none"
        /\ \A ok \in BOOLEAN : PageReported(q, ok)' => jobs'[q] = "done"
    BY <2>1, <2>4 DEF DoneOnce
  <2> QED
    BY <2>3, <2>5, <2>6 DEF DoneOnce
<1>5. RepoBounded'
  BY <1>0, <1>3, RepoKept DEF Changers
<1>6. \A kinds : Requests!Underway(kinds)' = Requests!Underway(kinds)
  BY DEF Requests!Underway
<1>7. OneChange'
  BY <1>1, <1>3, <1>6 DEF OneChange
<1>8. \A q \in Requests!Request : Busy(q)' => Busy(q)
  BY DEF Busy
<1>9. Uncrossed'
  <2> SUFFICES ASSUME ~crossed, NEW q \in Requests!Request PROVE AloneOnPage(q)'
    BY <1>1, <1>3 DEF Uncrossed
  <2>1. AloneOnPage(q)
    BY <1>3 DEF Uncrossed
  <2>2. PageReported(q, TRUE)' \/ requests'[q].result = "ok" =>
          PageReported(q, TRUE) \/ requests[q].result = "ok"
    OBVIOUS
  <2> QED
    BY <1>1, <1>6, <1>8, <2>1, <2>2 DEF AloneOnPage, Fresh
<1>10. Requests!StatusIsFresh'
  BY <1>1, <1>6, <1>3, WorkIsBusy DEF Requests!StatusIsFresh, Uncrossed, AloneOnPage
<1> QED
  BY <1>2, <1>4, <1>5, <1>7, <1>9, <1>10 DEF PagesInv, PagesRest

LEMMA SettledFacts ==
    ASSUME Requests!TypeOK, NEW r \in Requests!Request,
             NEW result \in {"none", "ok", "failed", "unsent", "late", "lost"},
           requests' = Requests!Settled(r, result)
    PROVE  /\ requests' \in [Requests!Request -> PageRequest]
           /\ \A q \in Requests!Request :
                /\ requests'[q].kind = requests[q].kind /\ requests'[q].of = requests[q].of
                /\ requests'[q].version = requests[q].version /\ requests'[q].empty = requests[q].empty
                /\ \/ requests'[q].at = requests[q].at /\ requests'[q].result = requests[q].result
                   \/ /\ q = r /\ requests[q].at = "pending" /\ requests'[q].at = "answered"
                      /\ requests'[q].result = result
<1>1. requests \in [Requests!Request -> PageRequest] /\ \A q \in Requests!Request :
        requests[q] \in PageRequest
  BY PagesTypes
<1>2. CASE requests' = requests
  BY <1>1, <1>2
<1>3. CASE requests[r].at = "pending"
           /\ requests' = [requests EXCEPT ![r].at = "answered", ![r].result = result]
  <2>1. \A x \in PageRequest :
          LET y == [x EXCEPT !.at = "answered", !.result = result] IN
          /\ y \in PageRequest /\ y.kind = x.kind /\ y.of = x.of /\ y.version = x.version
          /\ y.empty = x.empty /\ y.at = "answered" /\ y.result = result
    BY DEF PageRequest
  <2>2. requests' = [requests EXCEPT ![r] = [requests[r] EXCEPT !.at = "answered",
          !.result = result]]
    BY <1>1, <1>3
  <2>3. \A q \in Requests!Request : requests'[q] =
          IF q = r THEN [requests[r] EXCEPT !.at = "answered", !.result = result] ELSE requests[q]
    BY <1>1, <2>2
  <2>4. requests' \in [Requests!Request -> PageRequest]
    BY <1>1, <2>1, <2>2
  <2>5. ASSUME NEW q \in Requests!Request
        PROVE  /\ requests'[q].kind = requests[q].kind /\ requests'[q].of = requests[q].of
               /\ requests'[q].version = requests[q].version /\ requests'[q].empty = requests[q].empty
               /\ \/ requests'[q].at = requests[q].at /\ requests'[q].result = requests[q].result
                  \/ /\ q = r /\ requests[q].at = "pending" /\ requests'[q].at = "answered"
                     /\ requests'[q].result = result
    <3>1. CASE q = r
      <4>1. requests'[q] = [requests[q] EXCEPT !.at = "answered", !.result = result]
        BY <2>3, <3>1
      <4>2. requests[q] \in PageRequest
        BY <1>1
      <4> QED
        BY <1>3, <2>1, <3>1, <4>1, <4>2
    <3>2. CASE q # r
      BY <2>3, <3>2
    <3> QED
      BY <3>1, <3>2
  <2> QED
    BY <2>4, <2>5
<1> QED
  BY <1>2, <1>3 DEF Requests!Settled

LEMMA PageTimesOutKeeps ==
    ASSUME PagesBounded, PagesInv, NEW r \in Requests!Request, Requests!TimesOut(r)
    PROVE  PagesInv'
<1>1. Requests!TypeOK /\ requests' = Requests!Settled(r, "late")
        /\ UNCHANGED <<pagesLink, steps, pagesToRunner, pagesToHost, jobs, repo, byShell, Requests!pane>>
  BY DEF PagesInv, Requests!TimesOut, Requests!runnerVars
<1>2. /\ pagesLink' \in {"up", "half", "down"} /\ steps' \in 0..MaxSteps
      /\ pagesToRunner' \in Seq(Requests!Request)
          /\ pagesToHost' \in Seq(Requests!Request \X BOOLEAN)
  BY <1>1 DEF Requests!TypeOK
<1>3. \A q \in Requests!Request :
        /\ Count(pagesToRunner', q) <= Count(pagesToRunner, q) /\ (Posted(q)' => Posted(q))
        /\ \A ok \in BOOLEAN : PageReported(q, ok)' => PageReported(q, ok)
  BY <1>1, PagesTypes DEF Posted, PageReported
<1>4. /\ requests' \in [Requests!Request -> PageRequest]
      /\ \A q \in Requests!Request :
             /\ requests'[q].kind = requests[q].kind /\ requests'[q].of = requests[q].of
             /\ requests'[q].version = requests[q].version /\ requests'[q].empty = requests[q].empty
             /\ \/ requests'[q].at = requests[q].at /\ requests'[q].result = requests[q].result
                \/ /\ requests[q].at = "pending" /\ requests'[q].at = "answered"
                   /\ requests'[q].result = "ok" => PageReported(q, TRUE)
  <2>1. "late" \in {"none", "ok", "failed", "unsent", "late", "lost"} /\ "late" # "ok"
    OBVIOUS
  <2>2. /\ requests' \in [Requests!Request -> PageRequest]
        /\ \A q \in Requests!Request :
              /\ requests'[q].kind = requests[q].kind /\ requests'[q].of = requests[q].of
              /\ requests'[q].version = requests[q].version /\ requests'[q].empty = requests[q].empty
              /\ \/ requests'[q].at = requests[q].at /\ requests'[q].result = requests[q].result
                 \/ /\ q = r /\ requests[q].at = "pending" /\ requests'[q].at = "answered"
                    /\ requests'[q].result = "late"
    BY <1>1, <2>1, SettledFacts
  <2> QED
    BY <2>2
<1> QED
  BY <1>1, <1>2, <1>3, <1>4, SettleKeeps

LEMMA ResultKeeps ==
    ASSUME PagesBounded, PagesInv, Requests!Result
    PROVE  PagesInv'
<1>0. Requests!TypeOK
  BY DEF PagesInv
<1>1. /\ pagesToHost # <<>> /\ pagesToHost' = Tail(pagesToHost)
      /\ UNCHANGED <<pagesLink, steps, pagesToRunner, jobs, repo, byShell, Requests!pane>>
  BY DEF Requests!Result, Requests!runnerVars
<1>2. pagesToHost \in Seq(Requests!Request \X BOOLEAN)
        /\ Head(pagesToHost) \in Requests!Request \X BOOLEAN
      /\ pagesToHost' \in Seq(Requests!Request \X BOOLEAN)
  BY <1>0, <1>1, PagesTypes, TailSteps
<1>3. PICK r \in Requests!Request, ok \in BOOLEAN : Head(pagesToHost) = <<r, ok>>
  BY <1>2
<1>4. Head(pagesToHost)[1] = r /\ Head(pagesToHost)[2] = ok
  BY <1>3
<1>5. requests' = Requests!Settled(r, IF ok THEN "ok" ELSE "failed")
  BY <1>4 DEF Requests!Result
<1>6. \A e : Occurs(pagesToHost, e) <=> Occurs(pagesToHost', e) \/ e = <<r, ok>>
  BY <1>1, <1>2, OccursTail, <1>3
<1>7. \A q \in Requests!Request :
        /\ Count(pagesToRunner', q) <= Count(pagesToRunner, q) /\ (Posted(q)' => Posted(q))
        /\ \A b \in BOOLEAN : PageReported(q, b)' => PageReported(q, b)
  BY <1>0, <1>1, <1>6, PagesTypes DEF Posted, PageReported
<1>8. PageReported(r, ok)
  BY <1>6 DEF PageReported
<1>9. ok => PageReported(r, TRUE)
  BY <1>8
<1> DEFINE result == IF ok THEN "ok" ELSE "failed"
<1>10. result \in {"none", "ok", "failed", "unsent", "late", "lost"}
         /\ (result = "ok" => PageReported(r, TRUE))
  BY <1>9
<1>11. requests' = Requests!Settled(r, result)
  BY <1>5
<1> HIDE DEF result
<1>12. /\ requests' \in [Requests!Request -> PageRequest]
      /\ \A q \in Requests!Request :
             /\ requests'[q].kind = requests[q].kind /\ requests'[q].of = requests[q].of
             /\ requests'[q].version = requests[q].version /\ requests'[q].empty = requests[q].empty
             /\ \/ requests'[q].at = requests[q].at /\ requests'[q].result = requests[q].result
                \/ /\ requests[q].at = "pending" /\ requests'[q].at = "answered"
                   /\ requests'[q].result = "ok" => PageReported(q, TRUE)
  <2>1. /\ requests' \in [Requests!Request -> PageRequest]
        /\ \A q \in Requests!Request :
              /\ requests'[q].kind = requests[q].kind /\ requests'[q].of = requests[q].of
              /\ requests'[q].version = requests[q].version /\ requests'[q].empty = requests[q].empty
              /\ \/ requests'[q].at = requests[q].at /\ requests'[q].result = requests[q].result
                 \/ /\ q = r /\ requests[q].at = "pending" /\ requests'[q].at = "answered"
                    /\ requests'[q].result = result
    BY <1>0, <1>10, <1>11, SettledFacts
  <2> QED
    BY <1>10, <2>1
<1>13. /\ pagesLink' \in {"up", "half", "down"} /\ steps' \in 0..MaxSteps
           /\ pagesToRunner' \in Seq(Requests!Request)
  BY <1>0, <1>1 DEF Requests!TypeOK
<1> QED
  BY <1>1, <1>2, <1>7, <1>12, <1>13, SettleKeeps

LEMMA PageLinkKeeps ==
    ASSUME PagesBounded, PagesInv, Requests!Break \/ Requests!Disconnect \/ Requests!Reconnect
             \/ UNCHANGED Requests!vars
    PROVE  PagesInv'
<1>0. Requests!TypeOK
  BY DEF PagesInv
<1>1. UNCHANGED <<jobs, repo, byShell, Requests!pane>>
  BY DEF Requests!Break, Requests!Disconnect, Requests!Reconnect, Requests!runnerVars,
     Requests!vars, Requests!pane
<1>2. pagesLink' \in {"up", "half", "down"} /\ steps' \in 0..MaxSteps
  <2>1. pagesLink \in {"up", "half", "down"} /\ steps \in 0..MaxSteps /\ MaxSteps \in Nat
    BY <1>0 DEF Requests!TypeOK, PagesBounded
  <2>2. CASE Requests!Break
    BY <2>1, <2>2 DEF Requests!Break
  <2>3. CASE Requests!Disconnect \/ Requests!Reconnect \/ UNCHANGED Requests!vars
    BY <2>1, <2>3 DEF Requests!Disconnect, Requests!Reconnect, Requests!vars
  <2> QED
    BY <2>2, <2>3
<1>3. \/ UNCHANGED <<pagesToRunner, pagesToHost>>
      \/ pagesToRunner' = <<>> /\ pagesToHost' = <<>>
  BY DEF Requests!Break, Requests!Disconnect, Requests!Reconnect, Requests!vars
<1>4. pagesToRunner' \in Seq(Requests!Request) /\ pagesToHost' \in Seq(Requests!Request \X BOOLEAN)
  BY <1>0, <1>3, PagesTypes, EmptySeq
<1>5. ASSUME NEW q \in Requests!Request
      PROVE  /\ Count(pagesToRunner', q) <= Count(pagesToRunner, q) /\ (Posted(q)' => Posted(q))
             /\ \A b \in BOOLEAN : PageReported(q, b)' => PageReported(q, b)
  <2>1. Count(pagesToRunner, q) \in Nat
    BY <1>0, PagesTypes
  <2>2. CASE UNCHANGED <<pagesToRunner, pagesToHost>>
    BY <2>1, <2>2 DEF Posted, PageReported
  <2>3. CASE pagesToRunner' = <<>> /\ pagesToHost' = <<>>
    BY <2>1, <2>3, OccursEmpty DEF Posted, PageReported
  <2> QED
    BY <1>3, <2>2, <2>3
<1>6. requests \in [Requests!Request -> PageRequest] /\ \A q \in Requests!Request :
        requests[q] \in PageRequest
  BY <1>0, PagesTypes
<1>7. CASE requests' = requests
  BY <1>1, <1>2, <1>4, <1>5, <1>6, <1>7, SettleKeeps
<1>8. CASE requests' = [r \in Requests!Request |-> IF requests[r].at = "pending"
                      THEN [requests[r] EXCEPT !.at = "answered", !.result = "lost"]
                      ELSE requests[r]]
  BY <1>6, <1>8, <1>1, <1>2, <1>4, <1>5, SettleKeeps DEF PageRequest
<1> QED
  BY <1>7, <1>8 DEF Requests!Break, Requests!Disconnect, Requests!Reconnect, Requests!vars

LEMMA RouteKeeps ==
    ASSUME PagesBounded, PagesInv, NEW r \in Requests!Request, NEW kinds, Requests!Route(r, kinds)
    PROVE  PagesInv'
<1>0. Requests!TypeOK
  BY DEF PagesInv
<1>1. /\ requests[r].at = "asked"
          /\ UNCHANGED <<pagesLink, steps, pagesToHost, jobs, repo, byShell, context, gitStatus,
                         gitLoading, gitWorking, gitError, entries, pagesFile, crossed>>
  BY DEF Requests!Route, Requests!runnerVars, Requests!pane
<1>2. requests \in [Requests!Request -> PageRequest] /\ \A q \in Requests!Request :
        requests[q] \in PageRequest
  BY <1>0, PagesTypes
<1>3. /\ requests' \in [Requests!Request -> PageRequest]
      /\ requests'[r].kind = requests[r].kind /\ requests'[r].of = requests[r].of
      /\ requests'[r].version = requests[r].version /\ requests'[r].empty = requests[r].empty
      /\ requests'[r].at \in {"pending", "answered"}
      /\ requests'[r].result = requests[r].result \/ requests'[r].result = "unsent"
      /\ \A q \in Requests!Request : q # r => requests'[q] = requests[q]
  BY <1>2 DEF Requests!Pass, PageRequest, Requests!Refuse, Requests!Route
<1>4. pagesToRunner' = pagesToRunner \/ pagesToRunner' = Append(pagesToRunner, r)
  BY DEF Requests!Route, Requests!Pass, Requests!Refuse
<1>5. pagesToRunner' \in Seq(Requests!Request)
  <2>1. pagesToRunner \in Seq(Requests!Request)
          /\ Append(pagesToRunner, r) \in Seq(Requests!Request)
    BY <1>0, PagesTypes, AppendSteps
  <2> QED
    BY <1>4, <2>1
<1>6. Requests!TypeOK'
  BY <1>0, <1>1, <1>3, <1>5 DEF Requests!TypeOK, PageRequest
<1>7. /\ \A q \in Requests!Request : DoneOnce(q)
      /\ RepoBounded /\ OneChange /\ Uncrossed /\ Requests!StatusIsFresh
  BY DEF PagesInv, PagesRest
<1>8. jobs[r] = "none" /\ ~Posted(r) /\ Count(pagesToRunner, r) = 0
  BY <1>0, <1>1, <1>7, PagesTypes DEF DoneOnce
<1>9. \A q \in Requests!Request :
        /\ Posted(q)' => Posted(q) \/ q = r
        /\ Posted(q) => Posted(q)'
        /\ q # r => Count(pagesToRunner', q) = Count(pagesToRunner, q)
        /\ q = r => Count(pagesToRunner', q) <= 1
  <2>1. CASE pagesToRunner' = pagesToRunner
    BY <1>8, <2>1 DEF Posted
  <2>2. CASE pagesToRunner' = Append(pagesToRunner, r)
    BY <1>0, <2>2, PagesTypes, OccursAppend, CountAppend, <1>8 DEF Posted
  <2> QED
    BY <1>4, <2>1, <2>2
<1>10. \A q : \A ok : PageReported(q, ok)' <=> PageReported(q, ok)
  BY <1>1 DEF PageReported
<1>11. ASSUME NEW q \in Requests!Request PROVE DoneOnce(q)'
  BY <1>7, <1>8, <1>1, <1>3, <1>9, <1>10 DEF DoneOnce
<1>12. RepoBounded'
  BY <1>1, <1>3, <1>0, <1>7, RepoKept DEF Changers
<1>13. \A K : Requests!Underway(K)' = Requests!Underway(K)
  BY <1>1, <1>3 DEF Requests!Underway
<1>14. OneChange'
  BY <1>1, <1>7, <1>13 DEF OneChange
<1>15. \A q \in Requests!Request : (Busy(q)' => Busy(q) \/ q = r) /\ (Busy(q) => Busy(q)')
  BY <1>1, <1>3, <1>9 DEF Busy
<1>16. Busy(r)' => r \in Requests!Underway(Requests!Git)
  BY <1>1, <1>3 DEF Busy, Requests!Underway, Requests!Git
<1>17. Uncrossed'
  <2> SUFFICES ASSUME ~crossed, NEW q \in Requests!Request PROVE AloneOnPage(q)'
    BY <1>1, <1>7 DEF Uncrossed
  <2>1. AloneOnPage(q) /\ AloneOnPage(r)
    BY <1>7 DEF Uncrossed
  <2>2. /\ requests'[q].kind = requests[q].kind /\ requests'[q].of = requests[q].of
        /\ requests'[q].version = requests[q].version /\ requests'[q].empty = requests[q].empty
        /\ requests'[q].result = "ok" => requests[q].result = "ok"
    BY <1>3
  <2> QED
    BY <1>1, <1>15, <1>10, <1>13, <1>16, <2>1, <2>2 DEF AloneOnPage, Fresh
<1>18. Requests!StatusIsFresh'
  BY <1>15, WorkIsBusy, <1>1, <1>7, <1>13 DEF Requests!AtWork, Busy, Posted, Occurs,
     Requests!StatusIsFresh
<1> QED
  BY <1>6, <1>11, <1>12, <1>14, <1>17, <1>18 DEF PagesInv, PagesRest

-----------------------------------------------------------------------------
(* The runner.                                                             *)

LEMMA ReceiveKeeps ==
    ASSUME PagesBounded, PagesInv, NEW kinds, Requests!Receive(kinds)
    PROVE  PagesInv'
<1>0. Requests!TypeOK
  BY DEF PagesInv
<1>1. PICK r \in Requests!Request : r = Head(pagesToRunner)
  BY <1>0, PagesTypes, TailSteps DEF Requests!Receive
<1>2. /\ pagesToRunner # <<>> /\ pagesToRunner' = Tail(pagesToRunner)
          /\ jobs' = [jobs EXCEPT ![r] = "begun"]
      /\ UNCHANGED <<pagesLink, steps, requests, pagesToHost, repo, byShell, context, gitStatus,
                     gitLoading, gitWorking, gitError, entries, pagesFile, crossed>>
  BY <1>1 DEF Requests!Receive, Requests!pane
<1>3. pagesToRunner \in Seq(Requests!Request) /\ pagesToRunner' \in Seq(Requests!Request)
  BY <1>0, <1>2, PagesTypes, TailSteps
<1>4. Requests!TypeOK'
  BY <1>0, <1>2, <1>3 DEF Requests!TypeOK
<1>5. /\ \A q \in Requests!Request : DoneOnce(q)
      /\ RepoBounded /\ OneChange /\ Uncrossed /\ Requests!StatusIsFresh
  BY DEF PagesInv, PagesRest
<1>6. \A q : /\ Occurs(pagesToRunner, q) <=> Occurs(Tail(pagesToRunner), q)
                 \/ q = Head(pagesToRunner)
             /\ Count(pagesToRunner, q) = IF Head(pagesToRunner) = q
                 THEN Count(Tail(pagesToRunner), q) + 1
                                     ELSE Count(Tail(pagesToRunner), q)
  BY <1>2, <1>3, OccursTail, CountTail
<1>7. \A q \in Requests!Request : Count(pagesToRunner', q) \in Nat
        /\ (Count(pagesToRunner', q) = 0 <=> ~Posted(q)')
  BY <1>3, CountType DEF Posted
<1>8. /\ Posted(r) /\ Count(pagesToRunner, r) = Count(pagesToRunner', r) + 1
      /\ \A q \in Requests!Request : q # r => (Posted(q)' <=> Posted(q))
          /\ Count(pagesToRunner', q) = Count(pagesToRunner, q)
  BY <1>1, <1>2, <1>6 DEF Posted
<1>9. jobs[r] = "none" /\ ~Posted(r)' /\ Count(pagesToRunner', r) = 0
  BY <1>5, <1>7, <1>8 DEF DoneOnce
<1>10. \A q : \A ok : PageReported(q, ok)' <=> PageReported(q, ok)
  BY <1>2 DEF PageReported
<1>11. jobs'[r] = "begun" /\ \A q \in Requests!Request : q # r => jobs'[q] = jobs[q]
  BY <1>0, <1>2 DEF Requests!TypeOK
<1>12. ASSUME NEW q \in Requests!Request PROVE DoneOnce(q)'
  BY <1>5, <1>8, <1>9, <1>2, <1>10, <1>11 DEF DoneOnce
<1>13. RepoBounded'
  BY <1>2, <1>9, <1>11, <1>0, <1>5, RepoKept DEF Changers
<1>14. \A K : Requests!Underway(K)' = Requests!Underway(K)
  BY <1>2 DEF Requests!Underway
<1>15. \A q \in Requests!Request : Busy(q)' <=> Busy(q)
  BY <1>2, <1>8, <1>9, <1>11 DEF Busy
<1>16. Requests!AtWork' <=> Requests!AtWork
  BY <1>15, WorkIsBusy DEF Requests!AtWork, Busy, Posted, Occurs
<1>17. OneChange' /\ Requests!StatusIsFresh'
  BY <1>2, <1>5, <1>14, <1>16 DEF OneChange, Requests!StatusIsFresh
<1>18. Uncrossed'
  BY <1>2, <1>5, <1>10, <1>14, <1>15 DEF Uncrossed, AloneOnPage, Fresh
<1> QED
  BY <1>4, <1>12, <1>13, <1>17, <1>18 DEF PagesInv, PagesRest

LEMMA ActKeeps ==
    ASSUME PagesBounded, PagesInv, NEW r \in Requests!Request, Requests!Act(r)
    PROVE  PagesInv'
<1>0. Requests!TypeOK
  BY DEF PagesInv
<1>21. PICK w \in Workspaces : w = requests[r].of
  BY <1>0, PagesTypes DEF PageRequest
<1>1. /\ jobs[r] = "begun" /\ requests[r].kind \in Requests!Change
      /\ jobs' = [jobs EXCEPT ![r] = "acted"]
      /\ repo' = [repo EXCEPT ![w] = @ + 1]
      /\ UNCHANGED <<pagesLink, steps, requests, pagesToRunner, pagesToHost, byShell, context,
                     gitStatus, gitLoading, gitWorking, gitError, entries, pagesFile, crossed>>
  BY <1>21 DEF Requests!Act, Requests!pane
<1>2. w \in Workspaces /\ repo \in [Workspaces -> 0..MaxRequests]
  BY <1>0 DEF Requests!TypeOK
<1>3. jobs'[r] = "acted" /\ \A q \in Requests!Request : q # r => jobs'[q] = jobs[q]
  BY <1>0, <1>1 DEF Requests!TypeOK
<1>4. /\ \A q \in Requests!Request : DoneOnce(q)
      /\ RepoBounded /\ OneChange /\ Uncrossed /\ Requests!StatusIsFresh
  BY DEF PagesInv, PagesRest
<1>5. /\ Changers(w)' = Changers(w) \cup {r} /\ r \notin Changers(w)
      /\ \A v \in Workspaces : v # w => Changers(v)' = Changers(v)
  BY <1>1, <1>3, <1>21 DEF Changers, Requests!Change
<1>6. /\ Changers(w) \in SUBSET Requests!Request /\ Changers(w)' \in SUBSET Requests!Request
  BY DEF Changers
<1>7. /\ Cardinality(Changers(w)') = Cardinality(Changers(w)) + 1
      /\ Cardinality(Changers(w)) \in Nat /\ Cardinality(Changers(w)') <= MaxRequests
  BY <1>5, <1>6, ChangersCounted, FS_AddElement
<1>8. repo'[w] <= Cardinality(Changers(w)') /\ repo'[w] \in 0..MaxRequests
  BY <1>2, <1>4, <1>1, <1>7 DEF RepoBounded, PagesBounded
<1>9. \A v \in Workspaces : v # w => repo'[v] = repo[v]
  BY <1>1, <1>2
<1>10. RepoBounded'
  <2>1. byShell[w] <= repo'[w]
    BY <1>0, <1>1, <1>2, <1>4 DEF RepoBounded, Requests!TypeOK
  <2> QED
    BY <1>1, <1>8, <1>4, <1>5, <1>9, <2>1 DEF RepoBounded
<1>11. repo' \in [Workspaces -> 0..MaxRequests]
  BY <1>1, <1>2, <1>8
<1>12. Requests!TypeOK'
  BY <1>0, <1>1, <1>11 DEF Requests!TypeOK
<1>13. \A q : /\ Posted(q)' <=> Posted(q)
              /\ \A ok : PageReported(q, ok)' <=> PageReported(q, ok)
  BY <1>1 DEF Posted, PageReported
<1>14. ~Posted(r) /\ requests[r].result # "ok" /\ \A ok \in BOOLEAN : ~PageReported(r, ok)
  BY <1>1, <1>4 DEF DoneOnce
<1>15. \A q \in Requests!Request : DoneOnce(q)'
  BY <1>1, <1>3, <1>4, <1>13, <1>14 DEF DoneOnce
<1>16. \A K : Requests!Underway(K)' = Requests!Underway(K)
  BY <1>1 DEF Requests!Underway
<1>17. Busy(r) /\ \A q \in Requests!Request : Busy(q)' <=> Busy(q)
  BY <1>1, <1>3, <1>13 DEF Busy
<1>18. Requests!AtWork'
  BY <1>17 DEF Requests!AtWork, Busy, Posted, Occurs
<1>19. OneChange' /\ Requests!StatusIsFresh'
  BY <1>1, <1>4, <1>16, <1>18 DEF OneChange, Requests!StatusIsFresh
<1>20. Uncrossed'
  <2> SUFFICES ASSUME ~crossed, NEW q \in Requests!Request PROVE AloneOnPage(q)'
    BY <1>1, <1>4 DEF Uncrossed
  <2>1. AloneOnPage(q) /\ AloneOnPage(r)
    BY <1>4 DEF Uncrossed
  <2>2. q \in Requests!Underway(Requests!Git) => q = r
    BY <1>17, <2>1 DEF AloneOnPage
  <2> QED
    BY <1>1, <1>17, <1>13, <1>14, <1>16, <2>1, <2>2 DEF AloneOnPage
<1> QED
  BY <1>10, <1>12, <1>15, <1>19, <1>20 DEF PagesInv, PagesRest

\* What was fresh still is, or was read before a shell command.
LEMMA CommandActsKeep ==
    ASSUME PagesBounded, PagesInv, NEW r \in Requests!Request, NEW w \in Workspaces,
           Requests!CommandActs(r, w)
    PROVE  PagesInv'
<1>0. Requests!TypeOK
  BY DEF PagesInv
<1>1. /\ jobs[r] = "begun" /\ requests[r].kind = "exec" /\ jobs' = [jobs EXCEPT ![r] = "acted"]
      /\ repo' = [repo EXCEPT ![w] = @ + 1] /\ byShell' = [byShell EXCEPT ![w] = repo[w] + 1]
      /\ UNCHANGED <<pagesLink, steps, requests, pagesToRunner, pagesToHost, context, gitStatus,
                     gitLoading, gitWorking, gitError, entries, pagesFile, crossed>>
  BY DEF Requests!CommandActs, Requests!pane
<1>2. /\ repo \in [Workspaces -> 0..MaxRequests] /\ byShell \in [Workspaces -> 0..MaxRequests]
      /\ MaxRequests \in Nat
  BY <1>0 DEF Requests!TypeOK, PagesBounded
<1>3. jobs'[r] = "acted" /\ \A q \in Requests!Request : q # r => jobs'[q] = jobs[q]
  BY <1>0, <1>1 DEF Requests!TypeOK
<1>4. /\ \A q \in Requests!Request : DoneOnce(q)
      /\ RepoBounded /\ OneChange /\ Uncrossed /\ Requests!StatusIsFresh
  BY DEF PagesInv, PagesRest
<1>5. \A v \in Workspaces :
          /\ Changers(v)' = Changers(v) \cup {r} /\ r \notin Changers(v)
          /\ Changers(v) \in SUBSET Requests!Request /\ Changers(v)' \in SUBSET Requests!Request
  BY <1>1, <1>3 DEF Changers
<1>6. \A v \in Workspaces :
          /\ Cardinality(Changers(v)') = Cardinality(Changers(v)) + 1
          /\ Cardinality(Changers(v)) \in Nat /\ Cardinality(Changers(v)') <= MaxRequests
  BY <1>5, ChangersCounted, FS_AddElement
<1>7. /\ repo'[w] = repo[w] + 1 /\ byShell'[w] = repo[w] + 1
      /\ \A v \in Workspaces : v # w => repo'[v] = repo[v] /\ byShell'[v] = byShell[v]
  BY <1>1, <1>2
<1>8. RepoBounded'
  <2> SUFFICES ASSUME NEW v \in Workspaces
               PROVE  repo'[v] <= Cardinality(Changers(v)') /\ byShell'[v] <= repo'[v]
    BY DEF RepoBounded
  <2>1. repo[v] \in Nat /\ repo[v] <= Cardinality(Changers(v)) /\ byShell[v] <= repo[v]
    BY <1>2, <1>4 DEF RepoBounded
  <2>2. Cardinality(Changers(v)') = Cardinality(Changers(v)) + 1 /\ Cardinality(Changers(v)) \in Nat
    BY <1>6
  <2> HIDE DEF Changers
  <2> QED
    BY <1>7, <2>1, <2>2
<1>9. repo[w] + 1 <= MaxRequests
  <2>1. repo[w] \in Nat /\ repo[w] <= Cardinality(Changers(w))
    BY <1>2, <1>4 DEF RepoBounded
  <2> QED
    BY <1>2, <1>6, <2>1
<1>10. Requests!TypeOK'
  BY SMTT(20), <1>0, <1>1, <1>2, <1>9 DEF Requests!TypeOK
<1>11. \A q : /\ Posted(q)' <=> Posted(q)
              /\ \A ok : PageReported(q, ok)' <=> PageReported(q, ok)
  BY <1>1 DEF Posted, PageReported
<1>12. ~Posted(r) /\ requests[r].result # "ok" /\ \A ok \in BOOLEAN : ~PageReported(r, ok)
  BY <1>1, <1>4 DEF DoneOnce
<1>13. \A q \in Requests!Request : DoneOnce(q)'
  BY <1>1, <1>3, <1>4, <1>11, <1>12 DEF DoneOnce
<1>14. \A K : Requests!Underway(K)' = Requests!Underway(K)
  BY <1>1 DEF Requests!Underway
<1>15. \A q \in Requests!Request : Busy(q)' <=> Busy(q)
  BY <1>1, <1>3, <1>11 DEF Busy, Requests!Change
<1>16. Requests!AtWork' <=> Requests!AtWork
  BY <1>15, WorkIsBusy DEF Requests!AtWork, Busy, Posted, Occurs
<1>17. ASSUME NEW x, x.version \in Nat, Fresh(x)
       PROVE  x.version = repo'[context] \/ x.version < byShell'[context] \/ x.empty
  <2>1. context \in Workspaces
    BY <1>0 DEF Requests!TypeOK
  <2>2. repo[context] \in Nat /\ byShell[context] \in Nat /\ byShell[context] <= repo[context]
    BY <1>2, <1>4, <2>1 DEF RepoBounded
  <2> QED
    BY <1>7, <1>17, <2>1, <2>2 DEF Fresh
<1>18. OneChange'
  BY <1>1, <1>4, <1>14 DEF OneChange
<1>19. Requests!StatusIsFresh'
  <2> SUFFICES ASSUME ~crossed, ~gitError, Requests!Underway(Requests!Git) = {}, ~Requests!AtWork,
                      gitStatus # None
               PROVE  /\ gitStatus.of = context
                      /\ \/ gitStatus.version = repo'[context]
                         \/ gitStatus.version < byShell'[context] \/ gitStatus.empty
    BY <1>1, <1>14, <1>16 DEF Requests!StatusIsFresh
  <2>1. gitStatus.of = context /\ Fresh(gitStatus) /\ gitStatus.version \in Nat
    BY <1>0, <1>2, <1>4 DEF Requests!StatusIsFresh, Fresh, Requests!TypeOK
  <2> QED
    BY <1>17, <2>1
<1>20. Uncrossed'
  <2> SUFFICES ASSUME ~crossed, NEW q \in Requests!Request PROVE AloneOnPage(q)'
    BY <1>1, <1>4 DEF Uncrossed
  <2>1. AloneOnPage(q) /\ requests[q].version \in Nat
    BY <1>0, <1>2, <1>4, PagesTypes DEF Uncrossed, PageRequest
  <2>2. Fresh(requests[q]) => Fresh(requests[q])'
    BY <1>1, <1>17, <2>1 DEF Fresh
  <2> QED
    BY <1>1, <1>11, <1>14, <1>15, <2>1, <2>2 DEF AloneOnPage
<1> QED
  BY <1>8, <1>10, <1>13, <1>18, <1>19, <1>20 DEF PagesInv, PagesRest

LEMMA ReportKeeps ==
    ASSUME PagesBounded, PagesInv, NEW r \in Requests!Request, NEW ok \in BOOLEAN,
             Requests!Report(r, ok),
           jobs[r] \in {"begun", "acted"},
           requests' \in [Requests!Request -> PageRequest],
           \A q \in Requests!Request :
             /\ requests'[q].kind = requests[q].kind /\ requests'[q].of = requests[q].of
             /\ requests'[q].at = requests[q].at /\ requests'[q].result = requests[q].result
             /\ q # r => requests'[q].version = requests[q].version /\ requests'[q].empty = requests[q].empty,
           ok = TRUE /\ requests[r].kind \in Requests!Git \ {"branch"} =>
               requests'[r].version = repo[requests[r].of]
    PROVE  PagesInv'
<1>0. Requests!TypeOK
  BY DEF PagesInv
<1>1. /\ jobs' = [jobs EXCEPT ![r] = "done"]
      /\ pagesToHost' = IF pagesLink = "up" THEN Append(pagesToHost, <<r, ok>>) ELSE pagesToHost
      /\ UNCHANGED <<pagesLink, steps, pagesToRunner, repo, byShell, context, gitStatus, gitLoading,
                     gitWorking, gitError, entries, pagesFile, crossed>>
  BY DEF Requests!Report, Requests!pane
<1>2. pagesToHost \in Seq(Requests!Request \X BOOLEAN) /\ <<r, ok>> \in Requests!Request \X BOOLEAN
  BY <1>0, PagesTypes
<1>3. pagesToHost' \in Seq(Requests!Request \X BOOLEAN) /\ \A e : Occurs(pagesToHost', e) =>
        Occurs(pagesToHost, e) \/ e = <<r, ok>>
  BY <1>2, AppendSteps, OccursAppend, <1>1
<1>4. \A q \in Requests!Request : \A b \in BOOLEAN : PageReported(q, b)' => PageReported(q, b)
        \/ (q = r /\ b = ok)
  BY <1>3 DEF PageReported
<1>5. jobs'[r] = "done" /\ \A q \in Requests!Request : q # r => jobs'[q] = jobs[q]
  BY <1>0, <1>1 DEF Requests!TypeOK
<1>6. Requests!TypeOK'
  BY <1>0, <1>1, <1>3 DEF Requests!TypeOK, PageRequest
<1>7. /\ \A q \in Requests!Request : DoneOnce(q)
      /\ RepoBounded /\ OneChange /\ Uncrossed /\ Requests!StatusIsFresh
  BY DEF PagesInv, PagesRest
<1>8. \A q : Posted(q)' <=> Posted(q)
  BY <1>1 DEF Posted
<1>9. /\ ~Posted(r) /\ requests[r].at \notin {"none", "asked"} /\ requests[r].result # "ok"
      /\ \A b \in BOOLEAN : ~PageReported(r, b)
  BY <1>7 DEF DoneOnce
<1>10. \A q \in Requests!Request : DoneOnce(q)'
  BY <1>1, <1>4, <1>5, <1>7, <1>8, <1>9 DEF DoneOnce
<1>11. RepoBounded'
  BY <1>5, <1>0, <1>1, <1>7, RepoKept DEF Changers
<1>12. \A K : Requests!Underway(K)' = Requests!Underway(K)
  BY DEF Requests!Underway
<1>13. \A q \in Requests!Request : Busy(q)' => Busy(q)
  BY <1>5, <1>8, <1>9 DEF Busy
<1>14. OneChange'
  BY <1>1, <1>7, <1>12 DEF OneChange
<1>15. Requests!StatusIsFresh'
  BY <1>1, <1>12, <1>7, WorkIsBusy DEF Requests!StatusIsFresh, Uncrossed, AloneOnPage
<1>16. Uncrossed'
  <2> SUFFICES ASSUME ~crossed, NEW q \in Requests!Request PROVE AloneOnPage(q)'
    BY <1>1, <1>7 DEF Uncrossed
  <2>1. AloneOnPage(q)
    BY <1>7 DEF Uncrossed
  <2>2. CASE q # r
    <3>1. Fresh(requests[q]) => Fresh(requests[q])'
      BY <1>1, <2>2 DEF Fresh
    <3> QED
      BY <1>4, <2>2, <1>1, <1>12, <1>13, <2>1, <3>1 DEF AloneOnPage
  <2>3. CASE q = r
    <3>1. ok = TRUE /\ r \in Requests!Underway(Requests!Git) /\ requests[r].kind # "branch"
              => Fresh(requests[r])'
      BY <1>1, <2>1, <2>3 DEF Requests!Underway, AloneOnPage, Fresh
    <3> QED
      BY <1>4, <1>9, <2>3, <2>1, <1>12, <1>1, <1>13, <3>1 DEF AloneOnPage
  <2> QED
    BY <2>2, <2>3
<1> QED
  BY <1>6, <1>10, <1>11, <1>14, <1>15, <1>16 DEF PagesInv, PagesRest

LEMMA ReportsKeep ==
    ASSUME PagesBounded, PagesInv, NEW r \in Requests!Request,
           Requests!ReadStatus(r) \/ Requests!ReportBranch(r) \/ Requests!ReadFiles(r)
               \/ Requests!RunCommand(r) \/ Requests!Fail(r)
    PROVE  PagesInv'
<1>1. Requests!TypeOK /\ requests \in [Requests!Request -> PageRequest]
        /\ \A q \in Requests!Request : requests[q] \in PageRequest
  BY PagesTypes DEF PagesInv
<1>2. CASE Requests!ReadStatus(r)
  <2>1. PICK empty \in BOOLEAN :
            requests' = [requests EXCEPT ![r].version = repo[requests[r].of], ![r].empty = empty]
    BY <1>2 DEF Requests!ReadStatus
  <2>2. repo[requests[r].of] \in 0..MaxRequests
    BY <1>1 DEF PageRequest, Requests!TypeOK
  <2>3. /\ requests' \in [Requests!Request -> PageRequest]
        /\ \A q \in Requests!Request :
             /\ requests'[q].kind = requests[q].kind /\ requests'[q].of = requests[q].of
             /\ requests'[q].at = requests[q].at /\ requests'[q].result = requests[q].result
             /\ q # r => requests'[q].version = requests[q].version /\ requests'[q].empty = requests[q].empty
        /\ requests'[r].version = repo[requests[r].of]
    BY <1>1, <2>1, <2>2 DEF PageRequest
  <2>4. Requests!Report(r, TRUE) /\ jobs[r] \in {"begun", "acted"}
    BY <1>2 DEF Requests!ReadStatus
  <2> QED
    BY <2>3, <2>4, ReportKeeps
<1>3. CASE Requests!ReadFiles(r) \/ Requests!RunCommand(r) \/ Requests!ReportBranch(r)
  BY <1>3, <1>1, ReportKeeps DEF Requests!ReadFiles, Requests!RunCommand, Requests!ReportBranch,
     Requests!Git, Requests!Status, Requests!Change
<1>4. CASE Requests!Fail(r)
  BY <1>4, <1>1, ReportKeeps DEF Requests!Fail
<1> QED
  BY <1>2, <1>3, <1>4

LEMMA PagesStep == PagesBounded /\ PagesInv /\ [Requests!Next]_Requests!vars => PagesInv'
<1> SUFFICES ASSUME PagesBounded, PagesInv, [Requests!Next]_Requests!vars PROVE PagesInv'
  OBVIOUS
<1>1. ASSUME NEW r \in Requests!Request,
             Requests!LoadFiles(r) \/ Requests!LoadFile(r) \/ Requests!RefreshGit(r)
                 \/ Requests!Mutate(r) \/ Requests!Exec(r) \/ Requests!Answered(r)
      PROVE  PagesInv'
  BY <1>1, AsksKeep, ShownKeeps, ShownAgainKeeps DEF Requests!Answered
<1>2. ASSUME NEW r \in Requests!Request, Requests!FileRoute(r) \/ Requests!StatusRoute(r)
        \/ Requests!GitRoute(r) \/ Requests!ExecRoute(r)
      PROVE  PagesInv'
  BY <1>2, RouteKeeps DEF Requests!FileRoute, Requests!StatusRoute, Requests!GitRoute,
     Requests!ExecRoute
<1>3. ASSUME NEW r \in Requests!Request,
             Requests!TimesOut(r) \/ Requests!Act(r) \/ Requests!ReadStatus(r)
                 \/ Requests!ReportBranch(r) \/ Requests!ReadFiles(r) \/ Requests!RunCommand(r)
                 \/ Requests!Fail(r) \/ \E w \in Workspaces : Requests!CommandActs(r, w)
      PROVE  PagesInv'
  BY <1>3, PageTimesOutKeeps, ActKeeps, ReportsKeep, CommandActsKeep
<1>4. ASSUME NEW w \in Workspaces, Requests!ChangeContext(w) PROVE PagesInv'
  BY <1>4, ContextKeeps
<1>5. CASE Requests!ReceiveFile \/ Requests!ReceiveGit \/ Requests!ReceiveExec
  BY <1>5, ReceiveKeeps DEF Requests!ReceiveFile, Requests!ReceiveGit, Requests!ReceiveExec
<1>6. CASE Requests!Result \/ Requests!Break \/ Requests!Disconnect \/ Requests!Reconnect
        \/ UNCHANGED Requests!vars
  BY <1>6, ResultKeeps, PageLinkKeeps
<1> QED
  BY <1>1, <1>2, <1>3, <1>4, <1>5, <1>6 DEF Requests!Next

LEMMA SizeAgrees == \A S : Requests!Cardinality(S) = Cardinality(S)
BY DEF Requests!Cardinality, Cardinality

LEMMA PagesSafe == PagesBounded /\ PagesInv => Requests!OneMutation /\ Requests!StatusIsFresh
<1> SUFFICES ASSUME PagesBounded, PagesInv PROVE Requests!OneMutation /\ Requests!StatusIsFresh
  OBVIOUS
<1>1. Requests!StatusIsFresh /\ \A q, r \in Requests!Underway(Requests!Change \cup {"again"}) : q = r
  BY DEF PagesInv, PagesRest, OneChange
<1>2. CASE Requests!Underway(Requests!Change \cup {"again"}) = {}
  BY <1>1, <1>2, FS_EmptySet, SizeAgrees DEF Requests!OneMutation
<1>3. CASE Requests!Underway(Requests!Change \cup {"again"}) # {}
  <2>1. PICK r : r \in Requests!Underway(Requests!Change \cup {"again"})
    BY <1>3
  <2>2. Requests!Underway(Requests!Change \cup {"again"}) = {r}
    BY <1>1, <2>1
  <2>3. Cardinality(Requests!Underway(Requests!Change \cup {"again"})) = 1
    BY <2>2, FS_Singleton
  <2> QED
    BY <1>1, <2>3, SizeAgrees DEF Requests!OneMutation
<1> QED
  BY <1>2, <1>3

-----------------------------------------------------------------------------
(* Editors.                                                                *)

IdeFrame == {"start", "stop"} \X Editors!Editor
IdeEvent == {"started", "failed", "stopped"} \X Editors!Editor
IdeCall == {"none", "pending", "ok", "failed", "done"}

\* Each start that the host was told of is followed by an end.
IdeEnds(i) == \A k \in 1..Len(log) : log[k] = <<"started", i>> =>
    \E m \in (k + 1)..Len(log) : log[m] = <<"stopped", i>>
IdeShown(i) == ideActive = i \/ IdeClosing(i)
IdeReadBy(i) == ideActive = i \/ \E p \in Editors!Pane : panes[p].of = i
IdeReplacing(i) == \E p \in Editors!Pane : panes[p] = [at |-> "replacing", of |-> i]

\* What the parts of the invariant say of an editor in these words.
IdeSplit(i) ==
    /\ IdeKnownRuns(i) <=> (i \notin stray =>
         /\ i \in ideKnown => IdeUp(i) \/ IdeComing(i, "stopped")
         /\ IdeUp(i) \/ IdeEnds(i))
    /\ IdeStops(i) <=> (i \notin ideLost \cup ideLeft /\ IdeLives(i) =>
         ideCalls[i] \in {"pending", "ok"} \/ IdeShown(i) \/ IdeAsked(i, "stop"))
    /\ IdeRead(i) <=> (IdeReadBy(i) => ideCalls[i] = "done") /\ (IdeReplacing(i) => IdeGone(i))
    /\ IdeReplacing(i) => IdeReadBy(i)
    /\ ~IdeTold(i, "started") => IdeEnds(i)

LEMMA IdeParts ==
    ASSUME NEW i
    PROVE  IdeSplit(i) /\ IdeSplit(i)'
<1>1. IdeSplit(i)
  <2>1. IdeKnownRuns(i) <=> (i \notin stray =>
          /\ i \in ideKnown => IdeUp(i) \/ IdeComing(i, "stopped")
          /\ IdeUp(i) \/ IdeEnds(i))
    BY DEF IdeKnownRuns, IdeEnds
  <2>2. IdeStops(i) <=> (i \notin ideLost \cup ideLeft /\ IdeLives(i) =>
          ideCalls[i] \in {"pending", "ok"} \/ IdeShown(i) \/ IdeAsked(i, "stop"))
    BY DEF IdeStops, IdeShown
  <2>3. IdeRead(i) <=> (IdeReadBy(i) => ideCalls[i] = "done") /\ (IdeReplacing(i) => IdeGone(i))
    BY DEF IdeRead, IdeReadBy, IdeReplacing
  <2>4. IdeReplacing(i) => IdeReadBy(i)
    BY DEF IdeReadBy, IdeReplacing
  <2>5. ~IdeTold(i, "started") => IdeEnds(i)
    BY DEF IdeTold, Occurs, IdeEnds
  <2> QED
    BY <2>1, <2>2, <2>3, <2>4, <2>5 DEF IdeSplit
<1> QED
  BY <1>1, PTL

LEMMA IdeTypes ==
    ASSUME Editors!TypeOK
    PROVE  /\ ideToRunner \in Seq(IdeFrame) /\ log \in Seq(IdeEvent)
           /\ Len(log) \in Nat /\ handled \in Nat /\ handled <= Len(log)
           /\ acked \in Nat /\ acked <= handled
           /\ \A i : IdeAsks(i) \in Nat /\ (IdeAsks(i) = 0 <=> ~IdeAsked(i, "start"))
<1>1. ideToRunner \in Seq(IdeFrame) /\ log \in Seq(IdeEvent)
  BY DEF Editors!TypeOK, IdeFrame, IdeEvent
<1>2. Len(log) \in Nat
  BY <1>1, LenProperties
<1>3. handled \in Nat /\ handled <= Len(log)
  BY <1>2 DEF Editors!TypeOK
<1>4. acked \in Nat /\ acked <= handled
  BY <1>3 DEF Editors!TypeOK
<1> QED
  BY <1>1, <1>2, <1>3, <1>4, CountType DEF IdeAsks, IdeAsked

\* What the host sends: while it has a connection that works.
LEMMA IdeSendFacts ==
    ASSUME Editors!TypeOK, NEW i \in Editors!Editor, NEW x \in {"start", "stop"}, Editors!Send(x, i)
    PROVE  /\ ideToRunner' \in Seq(IdeFrame)
           /\ \A u \in Editors!Editor, m \in {"start", "stop"} :
                IdeAsked(u, m)' <=> IdeAsked(u, m) \/ (ideLink = "up" /\ u = i /\ m = x)
           /\ \A u \in Editors!Editor :
                IdeAsks(u)' = IF ideLink = "up" /\ u = i /\ x = "start" THEN IdeAsks(u) + 1
                    ELSE IdeAsks(u)
<1>1. ideToRunner \in Seq(IdeFrame) /\ <<x, i>> \in IdeFrame
  BY IdeTypes DEF IdeFrame
<1>2. \A u, m : <<m, u>> = <<x, i>> <=> u = i /\ m = x
  OBVIOUS
<1>3. CASE ideLink = "up"
  BY <1>3, <1>1, AppendSteps, OccursAppend, CountAppend, <1>2 DEF Editors!Send, IdeAsks,
     IdeAsked
<1>4. CASE ideLink # "up"
  BY <1>4, <1>1 DEF Editors!Send, IdeAsked, IdeAsks
<1> QED
  BY <1>3, <1>4

\* What the runner puts in its outbox.
LEMMA IdeEmitFacts ==
    ASSUME Editors!TypeOK, NEW i \in Editors!Editor, NEW x \in {"started", "failed", "stopped"},
             Editors!Emit(x, i)
    PROVE  /\ log' \in Seq(IdeEvent) /\ acked' \in 0..handled' /\ handled' \in 0..Len(log')
           /\ \A u, m : /\ IdeTold(u, m)' <=> IdeTold(u, m) \/ (u = i /\ m = x)
                        /\ IdeComing(u, m)' <=> IdeComing(u, m) \/ (u = i /\ m = x)
           /\ \A u : IdeEnds(u) /\ (u # i \/ x # "started") => IdeEnds(u)'
           /\ x = "stopped" => IdeEnds(i)'
<1>1. log \in Seq(IdeEvent) /\ <<x, i>> \in IdeEvent /\ log' = Append(log, <<x, i>>)
        /\ acked' = acked /\ handled' = handled
  BY IdeTypes DEF IdeEvent, Editors!Emit
<1>2. \A u, m : <<m, u>> = <<x, i>> <=> u = i /\ m = x
  OBVIOUS
<1>3. /\ log' \in Seq(IdeEvent) /\ Len(log') = Len(log) + 1 /\ Len(log) \in Nat
      /\ \A k \in 1..Len(log) : log'[k] = log[k]
      /\ log'[Len(log) + 1] = <<x, i>>
  BY <1>1, AppendSteps
<1>4. acked' \in 0..handled' /\ handled' \in 0..Len(log')
  BY <1>1, <1>3, IdeTypes
<1>5. \A u, m : IdeTold(u, m)' <=> IdeTold(u, m) \/ (u = i /\ m = x)
  BY <1>1, <1>2, OccursAppend DEF IdeTold
<1>6. ASSUME NEW u, NEW m PROVE IdeComing(u, m)' <=> IdeComing(u, m) \/ (u = i /\ m = x)
  <2>1. IdeComing(u, m)' => IdeComing(u, m) \/ (u = i /\ m = x)
    BY <1>1, <1>3, IdeTypes DEF IdeComing
  <2>2. ASSUME IdeComing(u, m) PROVE IdeComing(u, m)'
    <3>1. PICK k \in (handled + 1)..Len(log) : log[k] = <<m, u>>
      BY <2>2 DEF IdeComing
    <3>2. k \in 1..Len(log) /\ k \in (handled + 1)..Len(log')
      BY <1>3, IdeTypes
    <3>3. \E n \in (handled' + 1)..Len(log') : log'[n] = <<m, u>>
      BY <1>1, <1>3, <3>1, <3>2
    <3> QED
      BY <3>3 DEF IdeComing
  <2>3. ASSUME u = i, m = x PROVE IdeComing(u, m)'
    <3>1. Len(log') \in (handled' + 1)..Len(log') /\ log'[Len(log')] = <<m, u>>
      BY <1>1, <1>3, <2>3, IdeTypes
    <3> QED
      BY <3>1 DEF IdeComing
  <2> QED
    BY <2>1, <2>2, <2>3
<1>7. ASSUME NEW u, IdeEnds(u), u # i \/ x # "started" PROVE IdeEnds(u)'
  <2>1. ASSUME NEW k \in 1..Len(log'), log'[k] = <<"started", u>>
        PROVE  \E m \in (k + 1)..Len(log') : log'[m] = <<"stopped", u>>
    <3>1. k \in 1..Len(log) /\ log[k] = <<"started", u>>
      BY <1>2, <1>3, <1>7, <2>1
    <3>2. PICK m \in (k + 1)..Len(log) : log[m] = <<"stopped", u>>
      BY <1>7, <3>1 DEF IdeEnds
    <3>3. m \in 1..Len(log) /\ m \in (k + 1)..Len(log')
      BY <1>3, <3>1, <3>2
    <3> QED
      BY <1>3, <3>2, <3>3
  <2> QED
    BY <2>1 DEF IdeEnds
<1>8. x = "stopped" => IdeEnds(i)'
  BY <1>2, <1>3 DEF IdeEnds
<1> QED
  BY <1>3, <1>4, <1>5, <1>6, <1>7, <1>8

\* The runner takes the first frame, and the host the next event.
LEMMA IdeAskHead ==
    ASSUME Editors!TypeOK, ideToRunner # <<>>, ideToRunner' = Tail(ideToRunner)
    PROVE  \E i \in Editors!Editor, x \in {"start", "stop"} :
             /\ Head(ideToRunner) = <<x, i>> /\ ideToRunner' \in Seq(IdeFrame)
             /\ \A u \in Editors!Editor, m \in {"start", "stop"} :
                  IdeAsked(u, m) <=> IdeAsked(u, m)' \/ (u = i /\ m = x)
             /\ \A u \in Editors!Editor :
                  /\ IdeAsks(u) = IF u = i /\ x = "start" THEN IdeAsks(u)' + 1 ELSE IdeAsks(u)'
                  /\ IdeAsks(u)' \in Nat /\ (IdeAsks(u)' = 0 <=> ~IdeAsked(u, "start")')
<1>1. ideToRunner \in Seq(IdeFrame) /\ Head(ideToRunner) \in IdeFrame
        /\ ideToRunner' \in Seq(IdeFrame)
  BY IdeTypes, TailSteps
<1>2. PICK i \in Editors!Editor, x \in {"start", "stop"} : Head(ideToRunner) = <<x, i>>
  BY <1>1 DEF IdeFrame
<1>3. \A u, m : <<m, u>> = <<x, i>> <=> u = i /\ m = x
  OBVIOUS
<1>4. \A e : /\ Occurs(ideToRunner, e) <=> Occurs(ideToRunner', e) \/ e = <<x, i>>
             /\ Count(ideToRunner, e) = IF <<x, i>> = e THEN Count(ideToRunner', e) + 1
                 ELSE Count(ideToRunner', e)
  <2>1. \A e : /\ Occurs(ideToRunner, e) <=> Occurs(Tail(ideToRunner), e) \/ e = Head(ideToRunner)
               /\ Count(ideToRunner, e) = IF Head(ideToRunner) = e
                   THEN Count(Tail(ideToRunner), e) + 1
                                       ELSE Count(Tail(ideToRunner), e)
    BY <1>1, OccursTail, CountTail
  <2> QED
    BY <1>2, <2>1
<1>5. \A u : IdeAsks(u) = IF u = i /\ x = "start" THEN IdeAsks(u)' + 1 ELSE IdeAsks(u)'
  BY <1>3, <1>4 DEF IdeAsks
<1>6. \A u : IdeAsks(u)' \in Nat /\ (IdeAsks(u)' = 0 <=> ~IdeAsked(u, "start")')
  BY <1>1, CountType DEF IdeAsks, IdeAsked
<1>7. \A u, m : IdeAsked(u, m) <=> IdeAsked(u, m)' \/ (u = i /\ m = x)
  BY <1>3, <1>4 DEF IdeAsked
<1> QED
  BY <1>1, <1>2, <1>5, <1>6, <1>7

LEMMA IdeTellNext ==
    ASSUME Editors!TypeOK, handled < Len(log), handled' = handled + 1, UNCHANGED <<log, acked>>
    PROVE  \E i \in Editors!Editor, x \in {"started", "failed", "stopped"} :
             /\ log[handled + 1] = <<x, i>> /\ IdeTold(i, x)
             /\ acked' \in 0..handled' /\ handled' \in 0..Len(log')
             /\ \A u, m : u # i /\ IdeComing(u, m) => IdeComing(u, m)'
             /\ \A m : m # x /\ IdeComing(i, m) => IdeComing(i, m)'
             /\ x = "started" /\ IdeEnds(i) => IdeComing(i, "stopped")'
<1>1. handled + 1 \in 1..Len(log) /\ log[handled + 1] \in IdeEvent
  BY IdeTypes, ElementOfSeq
<1>2. PICK i \in Editors!Editor, x \in {"started", "failed", "stopped"} :
        log[handled + 1] = <<x, i>>
  BY <1>1 DEF IdeEvent
<1>3. \A u, m : <<m, u>> = <<x, i>> <=> u = i /\ m = x
  OBVIOUS
<1>4. acked' \in 0..handled' /\ handled' \in 0..Len(log')
  BY IdeTypes
<1>5. ASSUME NEW u, NEW m, u # i \/ m # x, IdeComing(u, m) PROVE IdeComing(u, m)'
  BY <1>2, <1>3, <1>5, IdeTypes DEF IdeComing
<1>6. x = "started" /\ IdeEnds(i) => IdeComing(i, "stopped")'
  BY <1>1, <1>2 DEF IdeEnds, IdeComing
<1>7. IdeTold(i, x)
  BY <1>1, <1>2 DEF IdeTold, Occurs
<1> QED
  BY <1>2, <1>4, <1>5, <1>6, <1>7

\* Everything on its way to the runner is gone.
LEMMA IdeCleared ==
    ASSUME Editors!TypeOK, ideToRunner' = <<>>
    PROVE  /\ ideToRunner' \in Seq(IdeFrame)
           /\ \A u \in Editors!Editor : ~IdeAsked(u, "start")' /\ ~IdeAsked(u, "stop")'
               /\ IdeAsks(u)' = 0
           /\ \A u \in Editors!Editor : IdeAsked(u, "start") \/ IdeAsked(u, "stop") =>
                u \in {ideToRunner[n][2] : n \in 1..Len(ideToRunner)}
           /\ {ideToRunner[n][2] : n \in 1..Len(ideToRunner)} \subseteq Editors!Editor
<1>1. ideToRunner' \in Seq(IdeFrame)
  BY EmptySeq
<1>2. \A u \in Editors!Editor : ~IdeAsked(u, "start")' /\ ~IdeAsked(u, "stop")' /\ IdeAsks(u)' = 0
  BY OccursEmpty DEF IdeAsked, IdeAsks
<1>3. \A u, m : IdeAsked(u, m) => u \in {ideToRunner[n][2] : n \in 1..Len(ideToRunner)}
  BY DEF IdeAsked, Occurs
<1>4. {ideToRunner[n][2] : n \in 1..Len(ideToRunner)} \subseteq Editors!Editor
  BY IdeTypes, ElementOfSeq DEF IdeFrame
<1> QED
  BY <1>1, <1>2, <1>3, <1>4

-----------------------------------------------------------------------------
\* Nothing that the invariant says of editor i is disturbed.
IdeCallKept(i) == ideCalls'[i] = ideCalls[i]
IdeAsksKept(i) ==
    /\ IdeAsked(i, "start")' <=> IdeAsked(i, "start")
    /\ IdeAsked(i, "stop")' <=> IdeAsked(i, "stop")
    /\ IdeAsks(i)' = IdeAsks(i)
IdeTellsKept(i) ==
    /\ \A m : (IdeTold(i, m)' <=> IdeTold(i, m)) /\ (IdeComing(i, m) => IdeComing(i, m)')
    /\ IdeEnds(i) => IdeEnds(i)'
IdeRunKept(i) ==
    /\ phase'[i] = phase[i] /\ program'[i] = program[i]
    /\ i \in managed' <=> i \in managed
    /\ i \in stray' <=> i \in stray
\* It counts as lost, or as shown as it was, or is about to be stopped.
IdeHeld(i) ==
    /\ i \in ideKnown' <=> i \in ideKnown
    /\ i \in ideLost => i \in ideLost'
    /\ i \in ideLeft => i \in ideLeft'
    /\ i \notin ideLost' \cup ideLeft' /\ IdeShown(i) => IdeShown(i)' \/ IdeGone(i)
    /\ IdeReadBy(i)' => IdeReadBy(i)
    /\ IdeReplacing(i)' => IdeReplacing(i)

LEMMA IdeUndisturbed ==
    ASSUME NEW i, IdeEditor(i), IdeCallKept(i), IdeAsksKept(i), IdeTellsKept(i), IdeRunKept(i),
             IdeHeld(i)
    PROVE  IdeEditor(i)'
<1>1. IdeOnce(i)'
  BY DEF IdeEditor, IdeOnce, IdeCallKept, IdeAsksKept, IdeTellsKept, IdeRunKept, IdeHeld
<1>2. (IdeUp(i)' <=> IdeUp(i)) /\ (IdeLives(i)' <=> IdeLives(i))
  BY DEF IdeUp, IdeLives, IdeRunKept
<1>3. IdeKnownRuns(i)'
  BY <1>2, IdeParts DEF IdeSplit, IdeEditor, IdeTellsKept, IdeRunKept, IdeHeld
<1>4. IdeListed(i)'
  BY <1>2 DEF IdeEditor, IdeListed, IdeCallKept, IdeAsksKept, IdeTellsKept, IdeRunKept, IdeHeld
<1>5. IdeStops(i)'
  BY <1>2, IdeParts DEF IdeSplit, IdeEditor, IdeGone, IdeCallKept, IdeAsksKept, IdeHeld
<1>6. IdeRead(i)'
  BY <1>2, IdeParts DEF IdeSplit, IdeEditor, IdeGone, IdeCallKept, IdeAsksKept, IdeHeld
<1> QED
  BY <1>1, <1>3, <1>4, <1>5, <1>6 DEF IdeEditor

\* What an unchanged variable keeps.
LEMMA IdeKeeps ==
    /\ UNCHANGED ideToRunner => \A i : IdeAsksKept(i)
    /\ UNCHANGED Editors!events => \A i : IdeTellsKept(i)
    /\ UNCHANGED Editors!runner => \A i : IdeRunKept(i)
    /\ UNCHANGED Editors!page => \A i :
         /\ (IdeShown(i)' <=> IdeShown(i)) /\ (IdeReadBy(i)' <=> IdeReadBy(i))
         /\ (IdeReplacing(i)' <=> IdeReplacing(i))
<1>1. UNCHANGED ideToRunner => \A i : IdeAsksKept(i)
  BY DEF IdeAsksKept, IdeAsked, IdeAsks
<1>2. UNCHANGED Editors!events => \A i : IdeTellsKept(i)
  BY DEF IdeTellsKept, IdeTold, IdeComing, IdeEnds, Editors!events
<1>3. UNCHANGED Editors!runner => \A i : IdeRunKept(i)
  BY DEF IdeRunKept, Editors!runner
<1>4. UNCHANGED Editors!page => \A i :
         /\ (IdeShown(i)' <=> IdeShown(i)) /\ (IdeReadBy(i)' <=> IdeReadBy(i))
         /\ (IdeReplacing(i)' <=> IdeReplacing(i))
  BY DEF IdeShown, IdeClosing, IdeReadBy, IdeReplacing, Editors!page
<1> QED
  BY <1>1, <1>2, <1>3, <1>4

LEMMA IdeInit == IdeBounded /\ Editors!Init => IdeInv
<1> SUFFICES ASSUME IdeBounded, Editors!Init PROVE IdeInv
  OBVIOUS
<1>0. Len(<<>>) = 0
  OBVIOUS
<1>1. Editors!TypeOK
  BY <1>0, EmptySeq DEF Editors!Init, IdeBounded, Editors!TypeOK, IdeFrame, IdeEvent
<1>2. ASSUME NEW i \in Editors!Editor PROVE IdeEditor(i)
  <2>1. /\ ideCalls[i] = "none" /\ phase[i] = "none" /\ program[i] = "none" /\ i \notin managed
        /\ i \notin ideKnown
    BY DEF Editors!Init
  <2>2. (\A m : ~IdeAsked(i, m) /\ ~IdeTold(i, m)) /\ IdeAsks(i) = 0
    BY OccursEmpty DEF Editors!Init, IdeAsked, IdeTold, IdeAsks
  <2>3. ~IdeReadBy(i)
    BY DEF Editors!Init, IdeReadBy, IdeBounded, Editors!Editor
  <2> QED
    BY <2>1, <2>2, <2>3, IdeParts DEF IdeSplit, IdeEditor, IdeOnce, IdeListed, IdeUp, IdeLives
<1>3. IdeOneStarts
  BY DEF Editors!Init, IdeOneStarts, IdeCalling
<1> QED
  BY <1>1, <1>2, <1>3 DEF IdeInv, IdeRest

-----------------------------------------------------------------------------
(* The page and the routes of the host.                                    *)

\* No call begins, and the page shows what it did, or nothing.
LEMMA IdeNoneBegins ==
    ASSUME IdeOneStarts, ideActive' \in {ideActive, None},
           \A i \in Editors!Editor : IdeCalling(i)' => IdeCalling(i)
    PROVE  IdeOneStarts'
BY DEF IdeOneStarts

\* The editors but one are undisturbed.
LEMMA IdeOthers ==
    ASSUME IdeRest, IdeOneStarts', NEW o, o \in Editors!Editor => IdeEditor(o)',
           \A i \in Editors!Editor : i # o =>
             IdeCallKept(i) /\ IdeAsksKept(i) /\ IdeTellsKept(i) /\ IdeRunKept(i) /\ IdeHeld(i)
    PROVE  IdeRest'
<1>1. ASSUME NEW i \in Editors!Editor, i # o PROVE IdeEditor(i)'
  BY <1>1, IdeUndisturbed DEF IdeRest
<1> QED
  BY <1>1 DEF IdeRest

\* The variables of the page have their types, in front of and after a step.
IdePageTyped ==
    /\ ideActive \in Editors!Editor \cup {None}
    /\ panes \in [Editors!Pane -> [at : {"none", "closing", "replacing", "done"},
                                   of : Editors!Editor \cup {None}]]
    /\ ideLeft \subseteq Editors!Editor

LEMMA IdeBegins ==
    ASSUME IdePageTyped, NEW p \in Editors!Pane, NEW x \in {"closing", "replacing"},
           Editors!Begins(p, x), UNCHANGED <<ideActive, ideLeft>>
    PROVE  /\ IdePageTyped'
           /\ \A i : /\ IdeShown(i) => IdeShown(i)'
                     /\ IdeReadBy(i)' => IdeReadBy(i)
                     /\ IdeReplacing(i)' =>
                          IdeReplacing(i) \/ (x = "replacing" /\ i = ideActive)
<1>1. /\ panes[p].at = "none" /\ panes' = [panes EXCEPT ![p] = [at |-> x, of |-> ideActive]]
      /\ \A q \in Editors!Pane : q # p => panes'[q] = panes[q]
      /\ panes'[p] = [at |-> x, of |-> ideActive]
  BY DEF Editors!Begins, IdePageTyped
<1>2. IdePageTyped'
  BY <1>1 DEF IdePageTyped
<1>3. \A i : IdeShown(i) => IdeShown(i)'
  BY <1>1 DEF IdeShown, IdeClosing
<1>4. \A i : IdeReadBy(i)' => IdeReadBy(i)
  BY <1>1 DEF IdeReadBy
<1>5. \A i : IdeReplacing(i)' => IdeReplacing(i) \/ (x = "replacing" /\ i = ideActive)
  BY <1>1 DEF IdeReplacing
<1> QED
  BY <1>2, <1>3, <1>4, <1>5

\* What was shown is now left, or a call has read it: it is being closed, or was stopped.
LEMMA IdeClears ==
    ASSUME IdePageTyped, Editors!Clear, NEW p,
           \/ UNCHANGED panes /\ p \notin Editors!Pane
           \/ p \in Editors!Pane /\ Editors!Ends(p)
    PROVE  /\ IdePageTyped' /\ ideActive' = None /\ ideLeft \subseteq ideLeft'
           /\ \A i \in Editors!Editor :
                /\ i \notin ideLeft' /\ IdeShown(i) =>
                     \/ IdeShown(i)' \/ IdeReplacing(i)
                     \/ p \in Editors!Pane /\ panes[p] = [at |-> "closing", of |-> i]
                /\ IdeReadBy(i)' /\ i # None => IdeReadBy(i)
                /\ IdeReplacing(i)' => IdeReplacing(i)
<1>1. /\ ideActive' = None
      /\ ideLeft' = IF \E q \in Editors!Pane : panes[q].at \in {"closing", "replacing"}
                                                 /\ panes[q].of = ideActive
                    THEN ideLeft ELSE ideLeft \cup ({ideActive} \ {None})
  BY DEF Editors!Clear
<1>2. /\ \A q \in Editors!Pane : q # p => panes'[q] = panes[q]
      /\ p \in Editors!Pane => panes'[p].of = panes[p].of /\ panes'[p].at = "done"
      /\ panes' \in [Editors!Pane -> [at : {"none", "closing", "replacing", "done"},
                                      of : Editors!Editor \cup {None}]]
  BY DEF Editors!Ends, IdePageTyped
<1>3. \A q \in Editors!Pane : panes[q] = [at |-> panes[q].at, of |-> panes[q].of]
  BY DEF IdePageTyped
<1>4. IdePageTyped'
  BY <1>1, <1>2 DEF IdePageTyped
<1>5. ASSUME NEW i \in Editors!Editor, i \notin ideLeft', IdeShown(i), i # None
      PROVE  \/ IdeShown(i)' \/ IdeReplacing(i)
             \/ p \in Editors!Pane /\ panes[p] = [at |-> "closing", of |-> i]
  <2>1. PICK q \in Editors!Pane : panes[q].at \in {"closing", "replacing"} /\ panes[q].of = i
    BY <1>1, <1>5 DEF IdeShown, IdeClosing
  <2>2. CASE panes[q].at = "replacing"
    BY <1>3, <2>1, <2>2 DEF IdeReplacing
  <2>3. CASE panes[q].at = "closing" /\ q = p
    BY <1>3, <2>1, <2>3
  <2>4. CASE panes[q].at = "closing" /\ q # p
    BY <1>2, <2>1, <2>4 DEF IdeShown, IdeClosing
  <2> QED
    BY <2>1, <2>2, <2>3, <2>4
<1>6. ASSUME NEW i \in Editors!Editor, i = None, IdeShown(i) PROVE IdeShown(i)'
  BY <1>1, <1>6 DEF IdeShown
<1>7. ASSUME NEW i \in Editors!Editor, IdeReadBy(i)', i # None PROVE IdeReadBy(i)
  BY <1>1, <1>2, <1>7 DEF IdeReadBy
<1>8. ASSUME NEW i, IdeReplacing(i)' PROVE IdeReplacing(i)
  BY <1>2, <1>8 DEF IdeReplacing
<1> QED
  BY <1>1, <1>4, <1>5, <1>6, <1>7, <1>8

LEMMA IdeNumbers == IdeBounded => \A i \in Editors!Editor : i # None
BY DEF IdeBounded, Editors!Editor

LEMMA IdePages == Editors!TypeOK => IdePageTyped
BY DEF Editors!TypeOK, IdePageTyped

\* A call begins: nothing is shown, and no other call is underway.
LEMMA IdeOpenStep ==
    ASSUME Editors!TypeOK, IdeRest, NEW o \in Editors!Editor, Editors!Open(o), ideActive' = None,
           UNCHANGED Editors!events, UNCHANGED Editors!runner, \A i \in Editors!Editor : IdeHeld(i)
    PROVE  /\ IdeRest' /\ ideToRunner' \in Seq(IdeFrame)
           /\ ideCalls' \in [Editors!Editor -> IdeCall]
<1>1. ideCalls \in [Editors!Editor -> IdeCall] /\ ideCalls[o] = "none" /\ IdeEditor(o)
  BY DEF Editors!TypeOK, Editors!Open, IdeCall, IdeRest
<1>2. \A i \in Editors!Editor : ~IdeCalling(i)
  BY DEF Editors!Open, Editors!Starting, IdeCalling
<1>3. /\ ideToRunner' \in Seq(IdeFrame)
      /\ \A u \in Editors!Editor : IdeAsked(u, "stop")' <=> IdeAsked(u, "stop")
      /\ \A u \in Editors!Editor : u # o => IdeAsksKept(u)
      /\ ideCalls'[o] = "failed" => IdeAsksKept(o)
      /\ IdeAsks(o)' = IdeAsks(o) \/ IdeAsks(o)' = IdeAsks(o) + 1
      /\ ideCalls' \in [Editors!Editor -> IdeCall]
      /\ \A u \in Editors!Editor : u # o => ideCalls'[u] = ideCalls[u]
      /\ ideCalls'[o] \in {"pending", "failed"}
  <2>1. CASE ideLink = "down"
    BY <2>1, IdeKeeps, <1>1, IdeTypes DEF Editors!Open, IdeAsksKept, IdeCall
  <2>2. CASE ideLink # "down"
    BY <2>2, IdeSendFacts, <1>1 DEF Editors!Open, IdeAsksKept, IdeCall
  <2> QED
    BY <2>1, <2>2
<1>4. \A i \in Editors!Editor : IdeTellsKept(i) /\ IdeRunKept(i)
  BY IdeKeeps
<1>5. IdeEditor(o)'
  <2>1. /\ phase[o] = "none" /\ program[o] = "none" /\ ~IdeAsked(o, "start") /\ o \notin managed
        /\ o \notin ideKnown /\ ~IdeTold(o, "started") /\ ~IdeAsked(o, "stop")
        /\ ~IdeTold(o, "failed") /\ ~IdeTold(o, "stopped") /\ ~IdeReadBy(o)
    BY <1>1, IdeParts DEF IdeEditor, IdeOnce, IdeSplit
  <2>2. IdeAsks(o) = 0 /\ IdeHeld(o)
    BY <2>1, IdeTypes
  <2>3. /\ phase'[o] = "none" /\ program'[o] = "none" /\ o \notin managed' /\ o \notin ideKnown'
        /\ \A m : IdeTold(o, m)' <=> IdeTold(o, m)
        /\ ~IdeReadBy(o)'
    BY <1>4, <2>1, <2>2, Zenon DEF IdeRunKept, IdeTellsKept, IdeHeld
  <2>4. IdeOnce(o)' /\ IdeListed(o)'
    BY <1>3, <2>1, <2>2, <2>3 DEF IdeOnce, IdeListed, IdeLives, IdeAsksKept
  <2>5. IdeKnownRuns(o)' /\ IdeStops(o)' /\ IdeRead(o)'
    BY <2>1, <2>3, IdeParts DEF IdeSplit, IdeLives
  <2> QED
    BY <2>4, <2>5 DEF IdeEditor
<1>6. IdeOneStarts'
  BY <1>2, <1>3 DEF IdeCalling, IdeOneStarts
<1>7. \A i \in Editors!Editor : i # o => IdeCallKept(i)
  BY <1>3 DEF IdeCallKept
<1>8. IdeRest'
  BY <1>3, <1>4, <1>5, <1>6, <1>7, IdeOthers
<1> QED
  BY <1>3, <1>8

LEMMA IdeOpenWorkspace ==
    ASSUME IdeBounded, IdeInv, NEW o \in Editors!Editor, Editors!OpenWorkspace(o)
    PROVE  IdeInv'
<1>1. /\ Editors!Open(o) /\ ideActive = None
      /\ UNCHANGED <<ideLink, ideFaults, ideKnown, ideLost>> /\ UNCHANGED Editors!page
      /\ UNCHANGED Editors!events /\ UNCHANGED Editors!runner
  BY DEF Editors!OpenWorkspace
<1>2. \A i \in Editors!Editor : IdeHeld(i)
  BY <1>1, IdeKeeps DEF IdeHeld, Editors!page
<1>3. IdeRest' /\ ideToRunner' \in Seq(IdeFrame) /\ ideCalls' \in [Editors!Editor -> IdeCall]
  BY <1>1, <1>2, IdeOpenStep DEF IdeInv, Editors!page
<1>4. Editors!TypeOK'
  BY <1>1, <1>3 DEF IdeInv, Editors!TypeOK, Editors!page, Editors!events, Editors!runner, IdeFrame,
     IdeCall
<1> QED
  BY <1>3, <1>4 DEF IdeInv

LEMMA IdeReplacedStep ==
    ASSUME IdeBounded, IdeInv, NEW p \in Editors!Pane, Editors!Replaced(p)
    PROVE  IdeInv'
<1>1. /\ panes[p].at = "replacing" /\ Editors!Ends(p) /\ Editors!Clear
      /\ UNCHANGED <<ideLink, ideFaults, ideKnown, ideLost>>
      /\ UNCHANGED Editors!events /\ UNCHANGED Editors!runner
  BY DEF Editors!Replaced
<1>2. Editors!TypeOK /\ IdeRest /\ IdePageTyped
  BY IdePages DEF IdeInv
<1>3. /\ IdePageTyped' /\ ideActive' = None /\ ideLeft \subseteq ideLeft'
      /\ \A i \in Editors!Editor :
           /\ i \notin ideLeft' /\ IdeShown(i) => IdeShown(i)' \/ IdeReplacing(i)
           /\ IdeReadBy(i)' => IdeReadBy(i)
           /\ IdeReplacing(i)' => IdeReplacing(i)
  <2>1. \A i \in Editors!Editor : panes[p] # [at |-> "closing", of |-> i]
    BY <1>1
  <2> QED
    BY <1>1, <1>2, <2>1, IdeClears, IdeNumbers
<1>4. ASSUME NEW i \in Editors!Editor PROVE IdeHeld(i)
  BY <1>1, <1>2, <1>3, IdeParts DEF IdeHeld, IdeRest, IdeEditor, IdeSplit
<1>5. /\ IdeRest' /\ ideToRunner' \in Seq(IdeFrame)
      /\ ideCalls' \in [Editors!Editor -> IdeCall]
  <2>1. CASE \E o \in Editors!Editor : Editors!Open(o)
    BY <1>1, <1>2, <1>3, <1>4, <2>1, IdeOpenStep
  <2>2. CASE UNCHANGED <<ideCalls, ideToRunner>>
    <3>1. \A i \in Editors!Editor :
            IdeCallKept(i) /\ IdeAsksKept(i) /\ IdeTellsKept(i) /\ IdeRunKept(i)
      BY <1>1, <2>2, IdeKeeps DEF IdeCallKept
    <3>2. IdeOneStarts'
      BY <1>2, <1>3, <2>2, IdeNoneBegins DEF IdeCalling, IdeRest
    <3>3. None \in Editors!Editor => IdeEditor(None)'
      BY IdeNumbers
    <3>4. IdeRest'
      BY <1>2, <1>4, <3>1, <3>2, <3>3, IdeOthers
    <3> QED
      BY <1>2, <2>2, <3>4, IdeTypes DEF Editors!TypeOK, IdeCall
  <2> QED
    BY <2>1, <2>2 DEF Editors!Replaced
<1>6. Editors!TypeOK'
  BY <1>1, <1>2, <1>3, <1>5 DEF Editors!TypeOK, IdePageTyped, Editors!events, Editors!runner,
     IdeFrame, IdeCall
<1> QED
  BY <1>5, <1>6 DEF IdeInv

\* An editor that was shown is stopped: from now on it counts as about to be stopped.
LEMMA IdeStopFacts ==
    ASSUME Editors!TypeOK, IdeRest, NEW o \in Editors!Editor, IdeReadBy(o), Editors!Stop(o)
    PROVE  /\ ideToRunner' \in Seq(IdeFrame) /\ ideKnown' \subseteq Editors!Editor
           /\ ideLost' \subseteq Editors!Editor /\ ideLost \subseteq ideLost'
           /\ \A i \in Editors!Editor : i # o => IdeAsksKept(i) /\ (i \in ideKnown' <=> i \in ideKnown)
           /\ IdeAsked(o, "start")' <=> IdeAsked(o, "start")
           /\ IdeAsked(o, "stop") => IdeAsked(o, "stop")'
           /\ IdeAsks(o)' = IdeAsks(o)
           /\ o \in ideLost' \/ ~IdeLives(o) \/ IdeAsked(o, "stop")'
           /\ IdeAsked(o, "stop")' => IdeAsked(o, "stop") \/ o \in ideKnown
           /\ o \in ideKnown /\ o \notin ideKnown' => o \in ideLost' \/ IdeAsked(o, "stop")'
           /\ o \in ideKnown' => o \in ideKnown
<1>1. ideKnown \subseteq Editors!Editor /\ ideLost \subseteq Editors!Editor
        /\ ideToRunner \in Seq(IdeFrame)
        /\ program \in [Editors!Editor -> {"none", "alive", "ending", "dead"}]
        /\ phase \in [Editors!Editor -> {"none", "prepare", "wait", "started", "over"}]
  BY IdeTypes DEF Editors!TypeOK
<1>2. IdeEditor(o) /\ ideCalls[o] = "done"
  BY IdeParts DEF IdeRest, IdeEditor, IdeSplit
<1>3. CASE o \notin ideKnown
  <2>1. UNCHANGED <<ideKnown, ideToRunner, ideLost>>
    BY <1>3 DEF Editors!Stop
  <2>2. o \in ideLost \/ ~IdeLives(o) \/ IdeAsked(o, "stop")
    BY <1>1, <1>2, <1>3 DEF IdeEditor, IdeOnce, IdeListed, IdeLives
  <2>3. \A i \in Editors!Editor : IdeAsksKept(i)
    BY <2>1, IdeKeeps
  <2> QED
    BY <1>1, <1>3, <2>1, <2>2, <2>3 DEF IdeAsksKept
<1>4. CASE o \in ideKnown
  BY <1>4, IdeSendFacts, <1>1, IdeKeeps DEF Editors!Stop, IdeAsksKept
<1> QED
  BY <1>3, <1>4

\* So the invariant is kept, whether the page still shows it or not.
LEMMA IdeStopStep ==
    ASSUME IdeBounded, Editors!TypeOK, IdeRest, NEW o \in Editors!Editor, IdeReadBy(o),
           Editors!Stop(o), UNCHANGED <<ideLink, ideFaults, ideCalls>>, UNCHANGED Editors!events,
           UNCHANGED Editors!runner, IdePageTyped', ideActive' \in {ideActive, None},
           ideLeft \subseteq ideLeft',
           \A i \in Editors!Editor :
             /\ IdeReadBy(i)' => IdeReadBy(i)
             /\ i # o => /\ IdeReplacing(i)' => IdeReplacing(i)
                         /\ i \notin ideLeft' /\ IdeShown(i) => IdeShown(i)' \/ IdeReplacing(i)
    PROVE  IdeInv'
<1>1. /\ ideToRunner' \in Seq(IdeFrame) /\ ideKnown' \subseteq Editors!Editor
      /\ ideLost' \subseteq Editors!Editor /\ ideLost \subseteq ideLost'
      /\ \A i \in Editors!Editor : i # o => IdeAsksKept(i) /\ (i \in ideKnown' <=> i \in ideKnown)
      /\ IdeAsked(o, "start")' <=> IdeAsked(o, "start")
      /\ IdeAsked(o, "stop") => IdeAsked(o, "stop")'
      /\ IdeAsks(o)' = IdeAsks(o)
      /\ o \in ideLost' \/ ~IdeLives(o) \/ IdeAsked(o, "stop")'
      /\ IdeAsked(o, "stop")' => IdeAsked(o, "stop") \/ o \in ideKnown
      /\ o \in ideKnown /\ o \notin ideKnown' => o \in ideLost' \/ IdeAsked(o, "stop")'
      /\ o \in ideKnown' => o \in ideKnown
  BY IdeStopFacts
<1>2. \A i \in Editors!Editor : IdeTellsKept(i) /\ IdeRunKept(i) /\ IdeCallKept(i)
  BY IdeKeeps DEF IdeCallKept
<1>3. ASSUME NEW i \in Editors!Editor, i # o PROVE IdeHeld(i)
  BY <1>1, <1>3, IdeParts DEF IdeHeld, IdeRest, IdeEditor, IdeSplit
<1>4. IdeEditor(o)'
  <2>0. IdeEditor(o) /\ ideCalls[o] = "done"
    BY IdeParts DEF IdeRest, IdeEditor, IdeSplit
  <2>1. IdeOnce(o)'
    BY <1>1, <1>2, <2>0 DEF IdeEditor, IdeOnce, IdeTellsKept, IdeRunKept, IdeCallKept
  <2>2. (IdeUp(o)' <=> IdeUp(o)) /\ (IdeLives(o)' <=> IdeLives(o))
    BY <1>2 DEF IdeUp, IdeLives, IdeRunKept
  <2>3. IdeKnownRuns(o)'
    BY <1>1, <1>2, <2>0, <2>2, IdeParts DEF IdeSplit, IdeEditor, IdeTellsKept, IdeRunKept
  <2>4. IdeListed(o)'
    BY <1>1, <1>2, <2>0, <2>2 DEF IdeEditor, IdeListed, IdeTellsKept, IdeRunKept, IdeCallKept
  <2>5. IdeStops(o)' /\ IdeRead(o)'
    BY <1>1, <1>2, <2>0, <2>2, IdeParts DEF IdeSplit, IdeGone, IdeCallKept
  <2> QED
    BY <2>1, <2>3, <2>4, <2>5 DEF IdeEditor
<1>5. IdeOneStarts'
  BY IdeNoneBegins DEF IdeCalling, IdeRest
<1>6. IdeRest'
  BY <1>1, <1>2, <1>3, <1>4, <1>5, IdeOthers
<1>7. Editors!TypeOK'
  BY <1>1 DEF Editors!TypeOK, IdePageTyped, Editors!events, Editors!runner, IdeFrame
<1> QED
  BY <1>6, <1>7 DEF IdeInv

LEMMA IdeReplace ==
    ASSUME IdeBounded, IdeInv, NEW p \in Editors!Pane, Editors!ReplaceEditor(p)
    PROVE  IdeInv'
<1>1. /\ ideActive # None /\ Editors!Begins(p, "replacing") /\ Editors!Stop(ideActive)
      /\ UNCHANGED <<ideLink, ideFaults, ideActive, ideLeft, ideCalls>>
      /\ UNCHANGED Editors!events /\ UNCHANGED Editors!runner
  BY DEF Editors!ReplaceEditor
<1>2. Editors!TypeOK /\ IdeRest /\ IdePageTyped
  BY IdePages DEF IdeInv
<1>3. PICK o \in Editors!Editor : o = ideActive
  BY <1>1, <1>2 DEF IdePageTyped
<1>4. IdeReadBy(o) /\ Editors!Stop(o)
  BY <1>1, <1>3 DEF IdeReadBy
<1>5. /\ IdePageTyped'
      /\ \A i : /\ IdeShown(i) => IdeShown(i)'
                /\ IdeReadBy(i)' => IdeReadBy(i)
                /\ IdeReplacing(i)' => IdeReplacing(i) \/ i = ideActive
  BY <1>1, <1>2, IdeBegins
<1> QED
  BY <1>1, <1>2, <1>3, <1>4, <1>5, IdeStopStep

\* Only the page changes.
LEMMA IdePageStep ==
    ASSUME IdeBounded, IdeInv, UNCHANGED <<ideLink, ideCalls, ideKnown, ideToRunner, ideLost>>,
           UNCHANGED Editors!events, UNCHANGED Editors!runner, ideFaults' \in 0..MaxFaults,
           IdePageTyped', ideActive' \in {ideActive, None}, ideLeft \subseteq ideLeft',
           \A i \in Editors!Editor :
             /\ i \notin ideLeft' /\ IdeShown(i) => IdeShown(i)' \/ IdeReplacing(i)
             /\ IdeReadBy(i)' => IdeReadBy(i)
             /\ IdeReplacing(i)' => IdeReplacing(i)
    PROVE  IdeInv'
<1>1. IdeRest
  BY DEF IdeInv
<1>2. ASSUME NEW i \in Editors!Editor PROVE IdeHeld(i)
  BY <1>1, IdeParts DEF IdeHeld, IdeRest, IdeEditor, IdeSplit
<1>3. \A i \in Editors!Editor :
        IdeCallKept(i) /\ IdeAsksKept(i) /\ IdeTellsKept(i) /\ IdeRunKept(i)
  BY IdeKeeps DEF IdeCallKept
<1>4. IdeOneStarts'
  BY <1>1, IdeNoneBegins DEF IdeCalling, IdeRest
<1>5. None \in Editors!Editor => IdeEditor(None)'
  BY IdeNumbers
<1>6. IdeRest'
  BY <1>1, <1>2, <1>3, <1>4, <1>5, IdeOthers
<1>7. Editors!TypeOK'
  BY DEF IdeInv, Editors!TypeOK, IdePageTyped, Editors!events, Editors!runner
<1> QED
  BY <1>6, <1>7 DEF IdeInv

LEMMA IdeCloses ==
    ASSUME IdeBounded, IdeInv, NEW p \in Editors!Pane, Editors!ClosePane(p)
    PROVE  IdeInv'
<1>1. /\ Editors!Begins(p, "closing") /\ UNCHANGED Editors!events /\ UNCHANGED Editors!runner
      /\ UNCHANGED <<ideLink, ideFaults, ideActive, ideLeft, ideCalls, ideKnown, ideToRunner, ideLost>>
  BY DEF Editors!ClosePane
<1>2. IdePageTyped /\ ideFaults \in 0..MaxFaults
  BY IdePages DEF IdeInv, Editors!TypeOK
<1>3. /\ IdePageTyped'
      /\ \A i : /\ IdeShown(i) => IdeShown(i)'
                /\ IdeReadBy(i)' => IdeReadBy(i)
                /\ IdeReplacing(i)' => IdeReplacing(i)
  BY <1>1, <1>2, IdeBegins
<1> QED
  BY <1>1, <1>2, <1>3, IdePageStep

LEMMA IdeClosed ==
    ASSUME IdeBounded, IdeInv, NEW p \in Editors!Pane, Editors!PaneClosed(p)
    PROVE  IdeInv'
<1>1. /\ panes[p].at = "closing" /\ Editors!Ends(p) /\ Editors!Clear
      /\ IF panes[p].of # None THEN Editors!Stop(panes[p].of)
         ELSE UNCHANGED <<ideKnown, ideToRunner, ideLost>>
      /\ UNCHANGED <<ideLink, ideFaults, ideCalls>>
      /\ UNCHANGED Editors!events /\ UNCHANGED Editors!runner
  BY DEF Editors!PaneClosed
<1>2. Editors!TypeOK /\ IdeRest /\ IdePageTyped /\ ideFaults \in 0..MaxFaults
  BY IdePages DEF IdeInv, Editors!TypeOK
<1>3. /\ IdePageTyped' /\ ideActive' = None /\ ideLeft \subseteq ideLeft'
      /\ \A i \in Editors!Editor :
           /\ i \notin ideLeft' /\ IdeShown(i) /\ i # panes[p].of => IdeShown(i)' \/ IdeReplacing(i)
           /\ IdeReadBy(i)' => IdeReadBy(i)
           /\ IdeReplacing(i)' => IdeReplacing(i)
  <2>1. \A i \in Editors!Editor : panes[p] = [at |-> "closing", of |-> i] => i = panes[p].of
    OBVIOUS
  <2> QED
    BY <1>1, <1>2, <2>1, IdeClears, IdeNumbers
<1>4. CASE panes[p].of = None
  BY <1>1, <1>2, <1>3, <1>4, IdeNumbers, IdePageStep
<1>5. CASE panes[p].of # None
  <2>1. PICK o \in Editors!Editor : o = panes[p].of
    BY <1>2, <1>5 DEF IdePageTyped
  <2>2. IdeReadBy(o) /\ Editors!Stop(o)
    BY <1>1, <1>5, <2>1 DEF IdeReadBy
  <2> QED
    BY <1>1, <1>2, <1>3, <2>1, <2>2, IdeStopStep
<1> QED
  BY <1>4, <1>5

LEMMA IdeDeleted ==
    ASSUME IdeBounded, IdeInv, Editors!SessionDeleted
    PROVE  IdeInv'
<1>1. /\ Editors!Clear /\ ideFaults < MaxFaults /\ ideFaults' = ideFaults + 1
      /\ UNCHANGED <<ideLink, panes, ideCalls, ideKnown, ideToRunner, ideLost>>
      /\ UNCHANGED Editors!events /\ UNCHANGED Editors!runner
  BY DEF Editors!SessionDeleted
<1>2. IdePageTyped /\ ideFaults' \in 0..MaxFaults
  BY <1>1, IdePages DEF IdeInv, Editors!TypeOK, IdeBounded
<1>3. 0 \notin Editors!Pane
  BY DEF Editors!Pane, IdeBounded
<1>4. /\ IdePageTyped' /\ ideActive' = None /\ ideLeft \subseteq ideLeft'
      /\ \A i \in Editors!Editor :
           /\ i \notin ideLeft' /\ IdeShown(i) => IdeShown(i)' \/ IdeReplacing(i)
           /\ IdeReadBy(i)' => IdeReadBy(i)
           /\ IdeReplacing(i)' => IdeReplacing(i)
  BY <1>1, <1>2, <1>3, IdeClears, IdeNumbers
<1> QED
  BY <1>1, <1>2, <1>4, IdePageStep

LEMMA IdeAnswered ==
    ASSUME IdeBounded, IdeInv, NEW o \in Editors!Editor, Editors!Answered(o)
    PROVE  IdeInv'
<1>1. /\ ideCalls[o] \in {"ok", "failed"} /\ ideCalls' = [ideCalls EXCEPT ![o] = "done"]
      /\ ideActive' = IF ideCalls[o] = "ok" THEN o ELSE ideActive
      /\ UNCHANGED <<ideLink, ideFaults, panes, ideLeft, ideKnown, ideToRunner, ideLost>>
      /\ UNCHANGED Editors!events /\ UNCHANGED Editors!runner
  BY DEF Editors!Answered
<1>2. Editors!TypeOK /\ IdeRest /\ IdeEditor(o)
  BY DEF IdeInv, IdeRest
<1>3. /\ ideCalls'[o] = "done" /\ \A i \in Editors!Editor : i # o => ideCalls'[i] = ideCalls[i]
      /\ ideCalls' \in [Editors!Editor -> {"none", "pending", "ok", "failed", "done"}]
  BY <1>1, <1>2 DEF Editors!TypeOK
<1>4. ideActive = None /\ \A i \in Editors!Editor : i # o => ~IdeCalling(i)
  BY <1>1, <1>2 DEF IdeRest, IdeOneStarts, IdeCalling
<1>5. \A i \in Editors!Editor : IdeTellsKept(i) /\ IdeRunKept(i) /\ IdeAsksKept(i)
  BY <1>1, IdeKeeps
<1>6. \A i \in Editors!Editor : /\ IdeClosing(i)' <=> IdeClosing(i)
                                /\ IdeReplacing(i)' <=> IdeReplacing(i)
                                /\ IdeShown(i) <=> IdeClosing(i)
                                /\ i # o => (IdeReadBy(i)' <=> IdeReadBy(i))
  BY <1>1, <1>4, IdeNumbers DEF IdeClosing, IdeReplacing, IdeReadBy, IdeShown
<1>7. ASSUME NEW i \in Editors!Editor, i # o PROVE IdeHeld(i) /\ IdeCallKept(i)
  BY <1>1, <1>3, <1>6, <1>7 DEF IdeHeld, IdeShown, IdeCallKept
<1>8. IdeEditor(o)'
  <2>1. IdeOnce(o)'
    BY <1>1, <1>2, <1>3, <1>5 DEF IdeEditor, IdeOnce, IdeTellsKept, IdeAsksKept, IdeRunKept
  <2>2. (IdeUp(o)' <=> IdeUp(o)) /\ (IdeLives(o)' <=> IdeLives(o))
    BY <1>5 DEF IdeUp, IdeLives, IdeRunKept
  <2>3. IdeKnownRuns(o)'
    BY <1>1, <1>2, <1>5, <2>2, IdeParts DEF IdeSplit, IdeEditor, IdeTellsKept, IdeRunKept
  <2>4. IdeListed(o)'
    BY <1>1, <1>2, <1>5, <2>2 DEF IdeEditor, IdeListed, IdeAsksKept, IdeRunKept
  <2>5. ideCalls[o] = "ok" => IdeShown(o)'
    BY <1>1 DEF IdeShown
  <2>6. IdeStops(o)'
    BY <1>1, <1>2, <1>5, <1>6, <2>2, <2>5, IdeParts DEF IdeSplit, IdeEditor, IdeAsksKept, IdeShown
  <2>7. IdeRead(o)'
    BY <1>1, <1>2, <1>3, <1>6, IdeParts DEF IdeSplit, IdeEditor
  <2> QED
    BY <2>1, <2>3, <2>4, <2>6, <2>7 DEF IdeEditor
<1>9. \A i \in Editors!Editor : ~IdeCalling(i)'
  BY <1>3, <1>4 DEF IdeCalling
<1>10. IdeOneStarts'
  BY <1>9 DEF IdeOneStarts
<1>11. IdeRest'
  BY <1>2, <1>5, <1>7, <1>8, <1>10, IdeOthers
<1>12. Editors!TypeOK'
  BY <1>1, <1>2, <1>3 DEF Editors!TypeOK, Editors!events, Editors!runner
<1> QED
  BY <1>11, <1>12 DEF IdeInv

-----------------------------------------------------------------------------
(* Timeouts and connections.                                               *)

\* A call is given up, or what is on its way is lost: nobody will stop the editor.
LEMMA IdeGivenUp ==
    ASSUME NEW i \in Editors!Editor, IdeEditor(i), UNCHANGED Editors!page, UNCHANGED ideKnown,
           IdeTellsKept(i), IdeRunKept(i), ideLost \subseteq ideLost',
           \/ ideCalls'[i] = ideCalls[i]
           \/ ideCalls[i] = "pending" /\ ideCalls'[i] = "failed" /\ i \in ideLost',
           \/ IdeAsksKept(i)
           \/ /\ ~IdeAsked(i, "start")' /\ ~IdeAsked(i, "stop")' /\ IdeAsks(i)' = 0
              /\ IdeAsked(i, "start") \/ IdeAsked(i, "stop") => i \in ideLost'
    PROVE  IdeEditor(i)'
<1>1. /\ (IdeShown(i)' <=> IdeShown(i)) /\ (IdeReadBy(i)' <=> IdeReadBy(i))
      /\ (IdeReplacing(i)' <=> IdeReplacing(i)) /\ ideLeft' = ideLeft
  BY IdeKeeps DEF Editors!page
<1>2. (IdeUp(i)' <=> IdeUp(i)) /\ (IdeLives(i)' <=> IdeLives(i))
  BY DEF IdeUp, IdeLives, IdeRunKept
<1>3. IdeOnce(i)'
  BY DEF IdeEditor, IdeOnce, IdeTellsKept, IdeAsksKept, IdeRunKept
<1>4. IdeKnownRuns(i)'
  BY <1>2, IdeParts DEF IdeSplit, IdeEditor, IdeTellsKept, IdeRunKept
<1>5. IdeListed(i)'
  BY <1>2 DEF IdeEditor, IdeListed, IdeTellsKept, IdeAsksKept, IdeRunKept
<1>6. IdeStops(i)' /\ IdeRead(i)'
  BY <1>1, <1>2, IdeParts DEF IdeSplit, IdeEditor, IdeGone, IdeAsksKept
<1> QED
  BY <1>3, <1>4, <1>5, <1>6 DEF IdeEditor

IdeGiveUp ==
    /\ ideLost \subseteq ideLost' /\ ideLost' \subseteq Editors!Editor
    /\ ideCalls' \in [Editors!Editor -> {"none", "pending", "ok", "failed", "done"}]
    /\ \A i \in Editors!Editor : \/ ideCalls'[i] = ideCalls[i]
                                 \/ ideCalls[i] = "pending" /\ ideCalls'[i] = "failed"
                                     /\ i \in ideLost'

LEMMA IdeAllGivenUp ==
    ASSUME Editors!TypeOK, ideCalls' = [i \in Editors!Editor |-> Editors!Settle(i, "failed")[i]],
           ideLost \subseteq ideLost', Editors!Abandoned \subseteq ideLost',
               ideLost' \subseteq Editors!Editor
    PROVE  IdeGiveUp
<1>1. ideCalls \in [Editors!Editor -> {"none", "pending", "ok", "failed", "done"}]
  BY DEF Editors!TypeOK
<1>2. ASSUME NEW i \in Editors!Editor
      PROVE  Editors!Settle(i, "failed")[i] = IF ideCalls[i] = "pending" THEN "failed"
               ELSE ideCalls[i]
  BY <1>1 DEF Editors!Settle
<1> QED
  BY <1>1, <1>2 DEF IdeGiveUp, Editors!Abandoned

\* What is not acknowledged will be told again.
LEMMA IdeRewound ==
    ASSUME Editors!TypeOK, UNCHANGED <<log, acked>>, handled' = acked
    PROVE  \A i : IdeTellsKept(i)
<1>1. \A i, m : IdeComing(i, m) => IdeComing(i, m)'
  BY IdeTypes DEF IdeComing
<1> QED
  BY <1>1 DEF IdeTellsKept, IdeTold, IdeEnds

LEMMA IdeBreaks ==
    ASSUME IdeBounded, IdeInv, IdeGiveUp, UNCHANGED Editors!page, UNCHANGED Editors!runner,
           UNCHANGED <<ideKnown, log, acked>>, handled' \in {handled, acked},
           ideLink' \in {"up", "half", "down"}, ideFaults' \in 0..MaxFaults,
           \/ UNCHANGED ideToRunner
           \/ ideToRunner' = <<>>
               /\ {ideToRunner[n][2] : n \in 1..Len(ideToRunner)} \subseteq ideLost'
    PROVE  IdeInv'
<1>0. Editors!TypeOK
  BY DEF IdeInv
<1>1. ideToRunner' \in Seq(IdeFrame)
  BY <1>0, IdeTypes, IdeCleared
<1>2. \A i : IdeTellsKept(i) /\ IdeRunKept(i)
  BY <1>0, IdeKeeps, IdeRewound DEF Editors!events
<1>3. ASSUME NEW i \in Editors!Editor PROVE IdeEditor(i)'
  BY <1>0, <1>2, IdeKeeps, IdeCleared, IdeGivenUp DEF IdeInv, IdeRest, IdeGiveUp
<1>4. IdeOneStarts'
  BY IdeNoneBegins DEF IdeInv, IdeRest, IdeCalling, IdeGiveUp, Editors!page
<1>5. acked' \in 0..handled' /\ handled' \in 0..Len(log')
  BY <1>0, IdeTypes
<1>6. Editors!TypeOK'
  BY <1>0, <1>1, <1>5 DEF Editors!TypeOK, IdeGiveUp, Editors!page, Editors!runner, IdeFrame
<1> QED
  BY <1>3, <1>4, <1>6 DEF IdeInv, IdeRest

LEMMA IdeConnectionSteps ==
    ASSUME IdeBounded, IdeInv,
           \/ \E i \in Editors!Editor : Editors!TimesOut(i)
           \/ Editors!Break \/ Editors!Disconnect \/ Editors!RestartHost \/ Editors!Reconnect
    PROVE  IdeInv'
<1>0. /\ ideCalls \in [Editors!Editor -> {"none", "pending", "ok", "failed", "done"}]
          /\ ideLost \subseteq Editors!Editor
      /\ ideFaults \in 0..MaxFaults /\ ideLink \in {"up", "half", "down"}
      /\ Editors!Abandoned \subseteq Editors!Editor
      /\ ideToRunner' = <<>> =>
          {ideToRunner[n][2] : n \in 1..Len(ideToRunner)} \subseteq Editors!Editor
      /\ UNCHANGED Editors!events => UNCHANGED <<log, acked>> /\ handled' = handled
  BY IdeCleared DEF IdeInv, Editors!TypeOK, Editors!Abandoned, Editors!events
<1>1. CASE \E i \in Editors!Editor : Editors!TimesOut(i)
  BY <1>1, <1>0, IdeBreaks DEF Editors!TimesOut, Editors!Settle, IdeGiveUp
<1>2. CASE Editors!Break
  BY <1>0, <1>2, IdeBreaks DEF IdeGiveUp, Editors!Break, IdeBounded
<1>3. CASE Editors!Disconnect
  BY <1>0, <1>3, IdeAllGivenUp, IdeBreaks DEF IdeInv, Editors!Disconnect, Editors!Fails
<1>4. CASE Editors!RestartHost
  BY <1>0, <1>4, IdeAllGivenUp, IdeBreaks DEF IdeInv, Editors!RestartHost, IdeBounded
<1>5. CASE Editors!Reconnect
  BY <1>0, <1>5, IdeBreaks DEF IdeGiveUp, Editors!Reconnect
<1> QED
  BY <1>1, <1>2, <1>3, <1>4, <1>5

\* The host takes the next event of the runner, which it may have had before.
LEMMA IdeHostEvent ==
    ASSUME IdeBounded, IdeInv, Editors!HostEvent
    PROVE  IdeInv'
<1>1. /\ handled < Len(log) /\ handled' = handled + 1 /\ UNCHANGED <<log, acked>>
      /\ UNCHANGED <<ideLink, ideFaults, ideToRunner, ideLost>>
      /\ UNCHANGED Editors!page /\ UNCHANGED Editors!runner
  BY DEF Editors!HostEvent
<1>0. Editors!TypeOK /\ IdeRest
  BY DEF IdeInv
<1>2. PICK o \in Editors!Editor, x \in {"started", "failed", "stopped"} :
             /\ log[handled + 1] = <<x, o>> /\ IdeTold(o, x)
             /\ acked' \in 0..handled' /\ handled' \in 0..Len(log')
             /\ \A u, m : u # o /\ IdeComing(u, m) => IdeComing(u, m)'
             /\ \A m : m # x /\ IdeComing(o, m) => IdeComing(o, m)'
             /\ x = "started" /\ IdeEnds(o) => IdeComing(o, "stopped")'
  BY <1>0, <1>1, IdeTellNext
<1>3. log[handled + 1][1] = x /\ log[handled + 1][2] = o
  BY <1>2
<1>4. /\ ideKnown' = IF x = "started" THEN ideKnown \cup {o} ELSE ideKnown \ {o}
      /\ ideCalls' = CASE x = "started" -> Editors!Settle(o, "ok")
                    [] x = "failed" -> Editors!Settle(o, "failed")
                    [] OTHER -> ideCalls
  BY <1>3 DEF Editors!HostEvent
<1>5. ideCalls \in [Editors!Editor -> {"none", "pending", "ok", "failed", "done"}]
        /\ ideKnown \subseteq Editors!Editor
  BY <1>0 DEF Editors!TypeOK
<1>6. /\ ideCalls' \in [Editors!Editor -> {"none", "pending", "ok", "failed", "done"}]
      /\ \A i \in Editors!Editor : i # o => ideCalls'[i] = ideCalls[i]
      /\ ideCalls'[o] = ideCalls[o]
          \/ (ideCalls[o] = "pending" /\ ideCalls'[o] \in {"ok", "failed"})
      /\ x = "started" /\ ideCalls[o] = "pending" => ideCalls'[o] = "ok"
      /\ x = "stopped" => ideCalls'[o] = ideCalls[o]
  BY <1>4, <1>5 DEF Editors!Settle
<1>7. /\ \A i \in Editors!Editor : i # o => (i \in ideKnown' <=> i \in ideKnown)
      /\ ideKnown' \subseteq Editors!Editor /\ (o \in ideKnown' <=> x = "started")
  BY <1>4, <1>5
<1>8. \A i : /\ IdeAsksKept(i) /\ IdeRunKept(i) /\ (IdeShown(i)' <=> IdeShown(i))
             /\ (IdeReadBy(i)' <=> IdeReadBy(i)) /\ (IdeReplacing(i)' <=> IdeReplacing(i))
             /\ \A m : IdeTold(i, m)' <=> IdeTold(i, m)
             /\ IdeEnds(i)' <=> IdeEnds(i)
  BY <1>1, IdeKeeps DEF IdeTold, IdeEnds
<1>9. ASSUME NEW i \in Editors!Editor, i # o
      PROVE  IdeCallKept(i) /\ IdeTellsKept(i) /\ IdeHeld(i)
  BY <1>1, <1>2, <1>6, <1>7, <1>8, <1>9 DEF IdeTellsKept, IdeCallKept, IdeHeld, Editors!page
<1>10. IdeEditor(o)'
  <2>0. IdeEditor(o) /\ ideLeft' = ideLeft
    BY <1>0, <1>1 DEF IdeRest, Editors!page
  <2>1. (IdeUp(o)' <=> IdeUp(o)) /\ (IdeLives(o)' <=> IdeLives(o))
    BY <1>8 DEF IdeUp, IdeLives, IdeRunKept
  <2>2. /\ phase[o] \in {"started", "over"}
        /\ x = "failed" => phase[o] = "over"
        /\ x # "started" => ~IdeLives(o)
        /\ ~IdeAsked(o, "start")
    BY <1>0, <1>2, <2>0 DEF Editors!TypeOK, IdeEditor, IdeOnce, IdeLives
  <2>3. IdeOnce(o)'
    BY <1>6, <1>7, <1>8, <2>0, <2>2 DEF IdeEditor, IdeOnce, IdeAsksKept, IdeRunKept
  <2>4. IdeKnownRuns(o)'
    BY <1>2, <1>7, <1>8, <2>0, <2>1, IdeParts DEF IdeSplit, IdeEditor, IdeRunKept
  <2>5. IdeListed(o)'
    BY <1>7, <1>8, <2>1, <2>2 DEF IdeListed, IdeAsksKept, IdeRunKept
  <2>6. IdeStops(o)'
    BY <1>1, <1>6, <1>8, <2>0, <2>1, <2>2, IdeParts DEF IdeSplit, IdeEditor, IdeAsksKept
  <2>7. IdeRead(o)'
    BY <1>1, <1>6, <1>8, <2>0, <2>1, IdeParts DEF IdeSplit, IdeEditor, IdeAsksKept, IdeGone
  <2> QED
    BY <2>3, <2>4, <2>5, <2>6, <2>7 DEF IdeEditor
<1>11. IdeOneStarts'
  BY <1>0, <1>1, <1>6, IdeNoneBegins DEF IdeRest, IdeCalling, Editors!page
<1>12. IdeRest'
  BY <1>0, <1>8, <1>9, <1>10, <1>11, IdeOthers
<1>13. Editors!TypeOK'
  BY <1>0, <1>1, <1>2, <1>6, <1>7 DEF Editors!TypeOK, Editors!page, Editors!runner
<1> QED
  BY <1>12, <1>13 DEF IdeInv

LEMMA IdeAcknowledged ==
    ASSUME IdeBounded, IdeInv, Editors!Acknowledged
    PROVE  IdeInv'
<1>1. /\ acked' \in (acked + 1)..handled
      /\ UNCHANGED <<ideLink, ideFaults, ideCalls, ideKnown, ideToRunner, log, handled, ideLost>>
      /\ UNCHANGED Editors!page /\ UNCHANGED Editors!runner
  BY DEF Editors!Acknowledged
<1>2. Editors!TypeOK /\ IdeRest
  BY DEF IdeInv
<1>3. \A i : IdeTellsKept(i)
  BY <1>1 DEF IdeTellsKept, IdeTold, IdeComing, IdeEnds
<1>4. ASSUME NEW i \in Editors!Editor PROVE IdeEditor(i)'
  BY <1>1, <1>2, <1>3, IdeKeeps, IdeGivenUp DEF IdeRest
<1>5. IdeOneStarts'
  BY <1>1, <1>2, IdeNoneBegins DEF IdeRest, IdeCalling, Editors!page
<1>6. acked' \in 0..handled'
  BY <1>1, <1>2, IdeTypes
<1>7. Editors!TypeOK'
  BY <1>1, <1>2, <1>6 DEF Editors!TypeOK, Editors!page, Editors!runner
<1> QED
  BY <1>4, <1>5, <1>7 DEF IdeInv, IdeRest

-----------------------------------------------------------------------------
(* The runner.                                                             *)

\* What a step of the runner about editor o changes of o; the page and the host
\* keep what they have.
IdeRunnerStep(o) ==
    /\ UNCHANGED Editors!page /\ UNCHANGED <<ideCalls, ideKnown, ideLost>>
    /\ \A i \in Editors!Editor : i # o => IdeAsksKept(i) /\ IdeTellsKept(i) /\ IdeRunKept(i)

LEMMA IdeOthersKept ==
    ASSUME IdeRest, NEW o \in Editors!Editor, IdeRunnerStep(o), IdeEditor(o)'
    PROVE  IdeRest'
<1>1. \A i \in Editors!Editor : i # o => IdeCallKept(i) /\ IdeHeld(i)
  BY IdeKeeps DEF IdeRunnerStep, IdeCallKept, IdeHeld, Editors!page
<1>2. IdeOneStarts'
  BY IdeNoneBegins DEF IdeRest, IdeRunnerStep, IdeCalling, Editors!page
<1> QED
  BY <1>1, <1>2, IdeOthers DEF IdeRunnerStep

\* An editor whose program does not live, and of which the page knows what it knew.
LEMMA IdeDoesNotLive ==
    ASSUME NEW o \in Editors!Editor, IdeEditor(o), UNCHANGED Editors!page, UNCHANGED ideCalls, ~IdeLives(o)'
    PROVE  IdeStops(o)' /\ IdeRead(o)'
BY IdeKeeps, IdeParts DEF IdeSplit, IdeEditor, IdeGone

\* What a step leaves as it was.
IdeMaps ==
    /\ phase \in [Editors!Editor -> {"none", "prepare", "wait", "started", "over"}]
    /\ managed \subseteq Editors!Editor
    /\ program \in [Editors!Editor -> {"none", "alive", "ending", "dead"}]
    /\ stray \subseteq Editors!Editor

LEMMA IdeReceive ==
    ASSUME IdeBounded, IdeInv, Editors!Receive
    PROVE  IdeInv'
<1>1. /\ ideToRunner # <<>> /\ ideToRunner' = Tail(ideToRunner)
      /\ UNCHANGED Editors!page /\ UNCHANGED Editors!events
      /\ UNCHANGED <<ideLink, ideFaults, ideCalls, ideKnown, managed, stray, ideLost>>
  BY DEF Editors!Receive
<1>2. PICK o \in Editors!Editor, x \in {"start", "stop"} :
             /\ Head(ideToRunner) = <<x, o>> /\ ideToRunner' \in Seq(IdeFrame)
             /\ \A u \in Editors!Editor, m \in {"start", "stop"} :
                  IdeAsked(u, m) <=> IdeAsked(u, m)' \/ (u = o /\ m = x)
             /\ \A u \in Editors!Editor :
                  /\ IdeAsks(u) = IF u = o /\ x = "start" THEN IdeAsks(u)' + 1 ELSE IdeAsks(u)'
                  /\ IdeAsks(u)' \in Nat /\ (IdeAsks(u)' = 0 <=> ~IdeAsked(u, "start")')
  BY <1>1, IdeAskHead DEF IdeInv
<1>3. Head(ideToRunner)[1] = x /\ Head(ideToRunner)[2] = o
  BY <1>2
<1>4. IdeMaps /\ IdeEditor(o) /\ IdeRest
  BY DEF IdeInv, Editors!TypeOK, IdeMaps, IdeRest
<1>5. /\ IdeMaps'
      /\ \A i \in Editors!Editor : i # o => phase'[i] = phase[i] /\ program'[i] = program[i]
      /\ x = "start" => phase'[o] = "prepare" /\ program'[o] = program[o]
      /\ x = "stop" => phase'[o] = phase[o]
      /\ x = "stop" => program'[o] = IF o \in managed /\ program[o] = "alive"
                                     THEN "ending" ELSE program[o]
  BY <1>3, <1>1, <1>4 DEF Editors!Receive, IdeMaps
<1>6. \A i \in Editors!Editor : IdeTellsKept(i)
  BY <1>1, IdeKeeps
<1>7. IdeRunnerStep(o)
  BY <1>1, <1>2, <1>5, <1>6 DEF IdeAsksKept, IdeRunKept, IdeRunnerStep
<1>8. IdeEditor(o)'
  <2>1. CASE x = "start"
    <3>1. /\ phase[o] = "none" /\ program[o] = "none" /\ o \notin ideKnown /\ o \notin managed
          /\ ~IdeAsked(o, "stop") /\ \A m \in {"started", "failed", "stopped"} : ~IdeTold(o, m)
          /\ IdeAsks(o) <= 1 /\ IdeAsked(o, "start") /\ ideCalls[o] # "none"
      BY <1>2, <1>4, <2>1 DEF IdeEditor, IdeOnce
    <3>2. /\ \A m \in {"started", "failed", "stopped"} : ~IdeTold(o, m)'
          /\ ~IdeAsked(o, "stop")' /\ ~IdeAsked(o, "start")' /\ IdeAsks(o)' <= 1
      BY <1>2, <1>6, <2>1, <3>1 DEF IdeTellsKept
    <3>3. IdeOnce(o)'
      BY <1>1, <1>5, <2>1, <3>1, <3>2 DEF IdeOnce
    <3>4. IdeListed(o)' /\ ~IdeLives(o)'
      BY <1>1, <1>4, <1>5, <2>1, <3>1, <3>2 DEF IdeEditor, IdeListed, IdeLives
    <3>5. IdeKnownRuns(o)'
      BY <1>1, <3>1, <3>2, IdeParts DEF IdeSplit
    <3> QED
      BY <1>1, <1>4, <3>3, <3>4, <3>5, IdeDoesNotLive DEF IdeEditor
  <2>2. CASE x = "stop"
    <3>1. phase[o] \in {"started", "over"}
      BY <1>2, <1>4, <2>2 DEF IdeEditor, IdeOnce, IdeMaps
    <3>2. IdeOnce(o)'
      BY <1>1, <1>2, <1>4, <1>5, <1>6, <2>2, <3>1 DEF IdeEditor, IdeOnce, IdeTellsKept
    <3>3. ~IdeLives(o)'
      BY <1>4, <1>5, <2>2 DEF IdeEditor, IdeOnce, IdeLives
    <3>4. IdeListed(o)'
      BY <1>1, <1>2, <1>4, <1>5, <2>2, <3>3 DEF IdeEditor, IdeListed
    <3>5. IdeUp(o) => IdeUp(o)'
      BY <1>1, <1>5, <2>2 DEF IdeUp
    <3>6. IdeKnownRuns(o)'
      BY <1>1, <1>4, <1>6, <3>5, IdeParts DEF IdeSplit, IdeEditor, IdeTellsKept
    <3> QED
      BY <1>1, <1>4, <3>2, <3>3, <3>4, <3>6, IdeDoesNotLive DEF IdeEditor
  <2> QED
    BY <2>1, <2>2
<1>9. Editors!TypeOK'
  BY <1>1, <1>2, <1>5 DEF IdeInv, Editors!TypeOK, IdeMaps, Editors!page, Editors!events, IdeFrame
<1> QED
  BY <1>4, <1>7, <1>8, <1>9, IdeOthersKept DEF IdeInv

\* The steps of a start and the end of a program, which tell the host something or
\* nothing of editor o.
LEMMA IdeEmitKept ==
    ASSUME IdeInv, NEW o \in Editors!Editor, NEW x \in {"started", "failed", "stopped"},
           Editors!Emit(x, o) \/ UNCHANGED Editors!events, UNCHANGED Editors!page,
           UNCHANGED <<ideLink, ideFaults, ideCalls, ideKnown, ideToRunner, ideLost>>, IdeMaps',
           \A i \in Editors!Editor : i # o => IdeRunKept(i)
    PROVE  IdeRunnerStep(o) /\ Editors!TypeOK' /\ IdeAsksKept(o)
<1>0. Editors!TypeOK
  BY DEF IdeInv
<1>1. /\ log' \in Seq(IdeEvent) /\ acked' \in 0..handled' /\ handled' \in 0..Len(log')
      /\ \A i \in Editors!Editor : i # o => IdeTellsKept(i)
  <2>1. CASE Editors!Emit(x, o)
    BY <1>0, <2>1, IdeEmitFacts DEF IdeTellsKept
  <2>2. CASE UNCHANGED Editors!events
    BY <1>0, <2>2, IdeKeeps, IdeTypes DEF Editors!events
  <2> QED
    BY <2>1, <2>2
<1>2. \A i \in Editors!Editor : IdeAsksKept(i)
  BY IdeKeeps
<1>3. Editors!TypeOK'
  BY <1>0, <1>1 DEF Editors!TypeOK, IdeMaps, Editors!page, IdeEvent
<1> QED
  BY <1>1, <1>2, <1>3 DEF IdeRunnerStep

LEMMA IdeNotInstalled ==
    ASSUME IdeBounded, IdeInv, NEW o \in Editors!Editor, Editors!NotInstalled(o)
    PROVE  IdeInv'
<1>1. /\ phase[o] = "prepare" /\ phase' = [phase EXCEPT ![o] = "over"] /\ Editors!Emit("failed", o)
      /\ UNCHANGED <<ideLink, ideFaults, ideCalls, ideKnown, ideToRunner, managed,
          program, stray, ideLost>> /\ UNCHANGED Editors!page
  BY DEF Editors!NotInstalled
<1>2. IdeMaps /\ IdeEditor(o) /\ Editors!TypeOK /\ IdeRest
  BY DEF IdeInv, Editors!TypeOK, IdeMaps, IdeRest
<1>3. IdeMaps' /\ phase'[o] = "over" /\ \A i \in Editors!Editor : i # o => IdeRunKept(i)
  BY <1>1, <1>2 DEF IdeMaps, IdeRunKept
<1>4. IdeRunnerStep(o) /\ Editors!TypeOK' /\ IdeAsksKept(o)
  BY <1>1, <1>3, IdeEmitKept
<1>5. /\ IdeTold(o, "started")' <=> IdeTold(o, "started")
      /\ IdeTold(o, "stopped")' <=> IdeTold(o, "stopped")
  BY <1>1, <1>2, IdeEmitFacts
<1>6. /\ program[o] = "none" /\ o \notin managed /\ o \notin ideKnown /\ ~IdeTold(o, "started")
      /\ ~IdeTold(o, "stopped") /\ ~IdeAsked(o, "start") /\ IdeAsks(o) <= 1
      /\ ideCalls[o] # "none"
  BY <1>1, <1>2 DEF IdeEditor, IdeOnce
<1>7. IdeOnce(o)'
  BY <1>1, <1>3, <1>4, <1>5, <1>6 DEF IdeOnce, IdeAsksKept
<1>8. IdeKnownRuns(o)'
  BY <1>1, <1>5, <1>6, IdeParts DEF IdeSplit
<1>9. IdeListed(o)' /\ ~IdeLives(o)'
  BY <1>3, <1>4, <1>6 DEF IdeListed, IdeLives, IdeAsksKept
<1> QED
  BY <1>1, <1>2, <1>4, <1>7, <1>8, <1>9, IdeOthersKept, IdeDoesNotLive DEF IdeInv, IdeEditor

LEMMA IdeSpawn ==
    ASSUME IdeBounded, IdeInv, NEW o \in Editors!Editor, Editors!Spawn(o)
    PROVE  IdeInv'
<1>1. /\ phase[o] = "prepare" /\ phase' = [phase EXCEPT ![o] = "wait"]
      /\ program' = [program EXCEPT ![o] = "alive"] /\ managed' = managed \cup {o}
      /\ UNCHANGED <<ideLink, ideFaults, ideCalls, ideKnown, ideToRunner, stray, ideLost>>
      /\ UNCHANGED Editors!page /\ UNCHANGED Editors!events
  BY DEF Editors!Spawn
<1>2. IdeMaps /\ IdeEditor(o) /\ Editors!TypeOK /\ IdeRest
  BY DEF IdeInv, Editors!TypeOK, IdeMaps, IdeRest
<1>3. /\ IdeMaps' /\ phase'[o] = "wait" /\ program'[o] = "alive" /\ o \in managed'
      /\ \A i \in Editors!Editor : i # o => IdeRunKept(i)
  BY <1>1, <1>2 DEF IdeMaps, IdeRunKept
<1>4. IdeRunnerStep(o) /\ Editors!TypeOK' /\ IdeAsksKept(o) /\ IdeTellsKept(o)
  BY <1>1, <1>3, IdeEmitKept, IdeKeeps
<1>5. /\ o \notin ideKnown /\ ~IdeTold(o, "started") /\ ~IdeTold(o, "stopped") /\ ~IdeTold(o, "failed")
      /\ ~IdeAsked(o, "start") /\ ~IdeAsked(o, "stop") /\ IdeAsks(o) <= 1 /\ ideCalls[o] # "none"
      /\ o \notin ideLost => ideCalls[o] = "pending"
  BY <1>1, <1>2 DEF IdeEditor, IdeOnce, IdeListed
<1>6. IdeOnce(o)'
  BY <1>1, <1>3, <1>4, <1>5 DEF IdeOnce, IdeAsksKept, IdeTellsKept
<1>7. IdeKnownRuns(o)'
  BY <1>1, <1>4, <1>5, IdeParts DEF IdeSplit, IdeTellsKept
<1>8. IdeListed(o)'
  BY <1>1, <1>3, <1>5 DEF IdeListed
<1>9. IdeStops(o)' /\ IdeRead(o)'
  BY <1>1, <1>2, <1>5, IdeKeeps, IdeParts DEF IdeSplit, IdeEditor, IdeGone
<1> QED
  BY <1>2, <1>4, <1>6, <1>7, <1>8, <1>9, IdeOthersKept DEF IdeInv, IdeEditor

LEMMA IdeReady ==
    ASSUME IdeBounded, IdeInv, NEW o \in Editors!Editor, Editors!Ready(o)
    PROVE  IdeInv'
<1>1. /\ phase[o] = "wait" /\ phase' = [phase EXCEPT ![o] = "started"] /\ Editors!Emit("started", o)
      /\ stray' = IF program[o] = "dead" THEN stray \cup {o} ELSE stray
      /\ UNCHANGED <<ideLink, ideFaults, ideCalls, ideKnown, ideToRunner, managed,
          program, ideLost>> /\ UNCHANGED Editors!page
  BY DEF Editors!Ready
<1>2. IdeMaps /\ IdeEditor(o) /\ Editors!TypeOK /\ IdeRest
  BY DEF IdeInv, Editors!TypeOK, IdeMaps, IdeRest
<1>3. IdeMaps' /\ phase'[o] = "started" /\ \A i \in Editors!Editor : i # o => IdeRunKept(i)
  BY <1>1, <1>2 DEF IdeMaps, IdeRunKept
<1>4. IdeRunnerStep(o) /\ Editors!TypeOK' /\ IdeAsksKept(o)
  BY <1>1, <1>3, IdeEmitKept
<1>5. /\ \A m : m # "started" => (IdeTold(o, m)' <=> IdeTold(o, m))
      /\ IdeComing(o, "started")'
  BY <1>1, <1>2, IdeEmitFacts
<1>6. /\ o \notin ideKnown /\ ~IdeTold(o, "stopped") /\ ~IdeTold(o, "failed")
      /\ ~IdeAsked(o, "start") /\ ~IdeAsked(o, "stop") /\ IdeAsks(o) <= 1 /\ ideCalls[o] # "none"
      /\ o \notin ideLost => ideCalls[o] = "pending"
      /\ program[o] \in {"alive", "dead"} /\ (program[o] = "alive" => o \in managed)
  BY <1>1, <1>2 DEF IdeEditor, IdeOnce, IdeListed
<1>7. IdeOnce(o)'
  BY <1>1, <1>3, <1>4, <1>5, <1>6 DEF IdeOnce, IdeAsksKept
<1>8. IdeKnownRuns(o)'
  BY <1>1, <1>3, <1>6, IdeParts DEF IdeSplit, IdeUp
<1>9. IdeListed(o)'
  BY <1>1, <1>5, <1>6 DEF IdeListed
<1>10. IdeStops(o)' /\ IdeRead(o)'
  BY <1>1, <1>2, <1>6, IdeKeeps, IdeParts DEF IdeSplit, IdeEditor, IdeGone
<1> QED
  BY <1>2, <1>4, <1>7, <1>8, <1>9, <1>10, IdeOthersKept DEF IdeInv, IdeEditor

LEMMA IdeNotReady ==
    ASSUME IdeBounded, IdeInv, NEW o \in Editors!Editor, Editors!NotReady(o)
    PROVE  IdeInv'
<1>1. /\ phase[o] = "wait" /\ phase' = [phase EXCEPT ![o] = "over"] /\ Editors!Emit("failed", o)
      /\ program' = [program EXCEPT ![o] = "dead"] /\ managed' = managed \ {o}
      /\ UNCHANGED <<ideLink, ideFaults, ideCalls, ideKnown, ideToRunner, stray, ideLost>>
      /\ UNCHANGED Editors!page
  BY DEF Editors!NotReady
<1>2. IdeMaps /\ IdeEditor(o) /\ Editors!TypeOK /\ IdeRest
  BY DEF IdeInv, Editors!TypeOK, IdeMaps, IdeRest
<1>3. /\ IdeMaps' /\ phase'[o] = "over" /\ program'[o] = "dead" /\ o \notin managed'
      /\ \A i \in Editors!Editor : i # o => IdeRunKept(i)
  BY <1>1, <1>2 DEF IdeMaps, IdeRunKept
<1>4. IdeRunnerStep(o) /\ Editors!TypeOK' /\ IdeAsksKept(o)
  BY <1>1, <1>3, IdeEmitKept
<1>5. /\ IdeTold(o, "started")' <=> IdeTold(o, "started")
      /\ IdeTold(o, "stopped")' <=> IdeTold(o, "stopped")
  BY <1>1, <1>2, IdeEmitFacts
<1>6. /\ o \notin ideKnown /\ ~IdeTold(o, "started") /\ ~IdeTold(o, "stopped")
      /\ ~IdeAsked(o, "start") /\ IdeAsks(o) <= 1 /\ ideCalls[o] # "none"
  BY <1>1, <1>2 DEF IdeEditor, IdeOnce
<1>7. IdeOnce(o)'
  BY <1>1, <1>3, <1>4, <1>5, <1>6 DEF IdeOnce, IdeAsksKept
<1>8. IdeKnownRuns(o)'
  BY <1>1, <1>5, <1>6, IdeParts DEF IdeSplit
<1>9. IdeListed(o)' /\ ~IdeLives(o)'
  BY <1>3, <1>4, <1>6 DEF IdeListed, IdeLives, IdeAsksKept
<1> QED
  BY <1>1, <1>2, <1>4, <1>7, <1>8, <1>9, IdeOthersKept, IdeDoesNotLive DEF IdeInv, IdeEditor

LEMMA IdeExit ==
    ASSUME IdeBounded, IdeInv, NEW o \in Editors!Editor, Editors!Exit(o)
    PROVE  IdeInv'
<1>1. /\ program[o] \in {"alive", "ending"} /\ program' = [program EXCEPT ![o] = "dead"]
      /\ UNCHANGED <<ideLink, ideFaults, ideCalls, ideKnown, ideToRunner, phase, stray, ideLost>>
      /\ UNCHANGED Editors!page
      /\ IF o \in managed /\ phase[o] = "started"
         THEN managed' = managed \ {o} /\ Editors!Emit("stopped", o)
         ELSE UNCHANGED managed /\ UNCHANGED Editors!events
  BY DEF Editors!Exit
<1>2. IdeMaps /\ IdeEditor(o) /\ Editors!TypeOK /\ IdeRest
  BY DEF IdeInv, Editors!TypeOK, IdeMaps, IdeRest
<1>3. /\ IdeMaps' /\ program'[o] = "dead" /\ \A i \in Editors!Editor : i # o => IdeRunKept(i)
  BY <1>1, <1>2 DEF IdeMaps, IdeRunKept
<1>4. IdeRunnerStep(o) /\ Editors!TypeOK' /\ IdeAsksKept(o)
  BY <1>1, <1>3, IdeEmitKept
<1>5. ~IdeUp(o)' /\ ~IdeLives(o)'
  BY <1>3 DEF IdeUp, IdeLives
<1>6. /\ \A m : m # "stopped" => (IdeTold(o, m)' <=> IdeTold(o, m))
      /\ IdeTold(o, "stopped")' => phase[o] \in {"started", "over"} /\ o \notin managed'
      /\ o \in managed' => o \in managed
  <2>1. CASE o \in managed /\ phase[o] = "started"
    BY <1>1, <1>2, <2>1, IdeEmitFacts
  <2>2. CASE ~(o \in managed /\ phase[o] = "started")
    BY <1>1, <1>2, <2>2, IdeKeeps DEF IdeTellsKept, IdeEditor, IdeOnce
  <2> QED
    BY <2>1, <2>2
<1>7. IdeOnce(o)'
  BY <1>1, <1>2, <1>3, <1>4, <1>6 DEF IdeEditor, IdeOnce, IdeAsksKept
<1>8. IdeKnownRuns(o)'
  <2>1. CASE o \in managed /\ phase[o] = "started"
    BY <1>1, <1>2, <2>1, IdeEmitFacts, IdeParts DEF IdeSplit
  <2>2. CASE ~(o \in managed /\ phase[o] = "started")
    <3>1. IdeTellsKept(o) /\ ~IdeUp(o)
      BY <1>1, <2>2, IdeKeeps DEF IdeUp
    <3> QED
      BY <1>1, <1>2, <3>1, IdeParts DEF IdeSplit, IdeEditor, IdeTellsKept
  <2> QED
    BY <2>1, <2>2
<1>9. IdeListed(o)'
  BY <1>1, <1>2, <1>4, <1>5 DEF IdeEditor, IdeListed, IdeAsksKept
<1> QED
  BY <1>1, <1>2, <1>4, <1>5, <1>7, <1>8, <1>9, IdeOthersKept, IdeDoesNotLive DEF IdeInv, IdeEditor

\* Of the editors that are not stray, no event is lost.
LEMMA IdeCut ==
    ASSUME Editors!TypeOK, NEW n \in 0..Len(log), NEW a \in 0..n, a <= acked,
           log' = SubSeq(log, 1, n), acked' = a, handled' = a,
           {log[m][2] : m \in (n + 1)..Len(log)} \subseteq stray'
    PROVE  /\ log' \in Seq(IdeEvent) /\ acked' \in 0..handled' /\ handled' \in 0..Len(log')
           /\ \A i, m : IdeTold(i, m)' => IdeTold(i, m)
           /\ \A i, m : i \notin stray' /\ IdeComing(i, m) => IdeComing(i, m)'
           /\ \A i : i \notin stray' /\ IdeEnds(i) => IdeEnds(i)'
<1>1. /\ log \in Seq(IdeEvent) /\ Len(log) \in Nat /\ handled \in Nat /\ acked \in Nat
      /\ acked <= handled /\ handled <= Len(log)
  BY IdeTypes
<1>2. /\ log' \in Seq(IdeEvent) /\ Len(log') = n
      /\ \A k \in 1..n : k \in 1..Len(log) /\ log'[k] = log[k]
  BY <1>1, SubSeqProperties
<1>3. acked' \in 0..handled' /\ handled' \in 0..Len(log')
  BY <1>1, <1>2
<1>4. \A i, m : IdeTold(i, m)' => IdeTold(i, m)
  BY <1>2 DEF IdeTold, Occurs
<1>5. ASSUME NEW i, i \notin stray', NEW m, NEW k \in 1..Len(log), log[k] = <<m, i>>
      PROVE  k \in 1..n
  BY <1>1, <1>5
<1>6. ASSUME NEW i, NEW m, i \notin stray', IdeComing(i, m) PROVE IdeComing(i, m)'
  <2>1. PICK k \in (handled + 1)..Len(log) : log[k] = <<m, i>>
    BY <1>6 DEF IdeComing
  <2>2. k \in 1..n /\ k \in (a + 1)..n
    BY <1>1, <1>5, <1>6, <2>1
  <2> QED
    BY <1>2, <2>1, <2>2 DEF IdeComing
<1>7. ASSUME NEW i, i \notin stray', IdeEnds(i) PROVE IdeEnds(i)'
  <2>1. ASSUME NEW k \in 1..n, log'[k] = <<"started", i>>
        PROVE  \E m \in (k + 1)..n : log'[m] = <<"stopped", i>>
    <3>1. PICK m \in (k + 1)..Len(log) : log[m] = <<"stopped", i>>
      BY <1>2, <1>7, <2>1 DEF IdeEnds
    <3>2. m \in 1..n /\ m \in (k + 1)..n
      BY <1>1, <1>5, <1>7, <3>1
    <3> QED
      BY <1>2, <3>1, <3>2
  <2> QED
    BY <1>2, <2>1 DEF IdeEnds
<1> QED
  BY <1>2, <1>3, <1>4, <1>6, <1>7

LEMMA IdeRestartRunner ==
    ASSUME IdeBounded, IdeInv, Editors!RestartRunner
    PROVE  IdeInv'
<1>1. /\ ideFaults < MaxFaults /\ ideFaults' = ideFaults + 1
      /\ managed' = {} /\ ideToRunner' = <<>> /\ ideLink' = "half"
      /\ ideLost' = ideLost \cup managed \cup {ideToRunner[n][2] : n \in 1..Len(ideToRunner)}
                    \cup {i \in Editors!Editor : phase[i] = "prepare"}
      /\ phase' = [i \in Editors!Editor |-> IF phase[i] = "none" THEN "none" ELSE "over"]
      /\ \/ UNCHANGED program
         \/ program' = [i \in Editors!Editor |-> IF program[i] = "none" THEN "none" ELSE "dead"]
      /\ UNCHANGED <<ideCalls, ideKnown>> /\ UNCHANGED Editors!page
  BY DEF Editors!RestartRunner
<1>2. PICK n \in 0..Len(log) : \E a \in 0..n :
         /\ a <= acked /\ log' = SubSeq(log, 1, n) /\ acked' = a /\ handled' = a
         /\ stray' = stray \cup managed \cup {log[m][2] : m \in (n + 1)..Len(log)}
  BY DEF Editors!RestartRunner
<1>3. IdeMaps /\ Editors!TypeOK /\ IdeRest
  BY DEF IdeInv, Editors!TypeOK, IdeMaps
<1>4. /\ log' \in Seq(IdeEvent) /\ acked' \in 0..handled' /\ handled' \in 0..Len(log')
      /\ \A i, m : IdeTold(i, m)' => IdeTold(i, m)
      /\ \A i, m : i \notin stray' /\ IdeComing(i, m) => IdeComing(i, m)'
      /\ \A i : i \notin stray' /\ IdeEnds(i) => IdeEnds(i)'
  BY <1>2, <1>3, IdeCut
<1>5. \A i \in Editors!Editor : i \in stray \cup managed => i \in stray'
  BY <1>2
<1>6. stray' \subseteq Editors!Editor
  <2>1. \A m \in (n + 1)..Len(log) : log[m] \in IdeEvent
    BY <1>3, IdeTypes, ElementOfSeq
  <2> QED
    BY <1>2, <1>3, <2>1 DEF IdeMaps, IdeEvent
<1>7. /\ IdeMaps'
      /\ \A i \in Editors!Editor : phase'[i] = IF phase[i] = "none" THEN "none" ELSE "over"
      /\ \A i \in Editors!Editor : program'[i] = program[i] \/
                           program'[i] = (IF program[i] = "none" THEN "none" ELSE "dead")
  BY <1>1, <1>3, <1>6 DEF IdeMaps
<1>8. /\ ideToRunner' \in Seq(IdeFrame)
      /\ \A u \in Editors!Editor : ~IdeAsked(u, "start")' /\ ~IdeAsked(u, "stop")'
          /\ IdeAsks(u)' = 0
      /\ ideLost' \subseteq Editors!Editor
  BY <1>1, <1>3, IdeCleared DEF Editors!TypeOK
<1>9. ASSUME NEW i \in Editors!Editor PROVE IdeEditor(i)'
  <2>1. IdeEditor(i)
    BY <1>3 DEF IdeRest
  <2>2. IdeOnce(i)' /\ ~IdeLives(i)'
    BY <1>1, <1>4, <1>7, <1>8, <2>1 DEF IdeEditor, IdeOnce, IdeLives
  <2>3. IdeListed(i)'
    BY <1>7, <1>8, <2>2 DEF IdeListed
  <2>4. IdeKnownRuns(i)'
    BY <1>1, <1>4, <1>5, <2>1, IdeParts DEF IdeSplit, IdeEditor, IdeUp
  <2> QED
    BY <1>1, <2>1, <2>2, <2>3, <2>4, IdeDoesNotLive DEF IdeEditor
<1>10. IdeOneStarts'
  BY <1>1, <1>3, IdeNoneBegins DEF IdeRest, IdeCalling, Editors!page
<1>11. ideFaults' \in 0..MaxFaults
  BY <1>1, <1>3 DEF Editors!TypeOK, IdeBounded
<1>12. Editors!TypeOK'
  BY <1>1, <1>3, <1>4, <1>7, <1>8, <1>11 DEF Editors!TypeOK, IdeMaps, Editors!page, IdeFrame,
     IdeEvent
<1> QED
  BY <1>9, <1>10, <1>12 DEF IdeInv, IdeRest

-----------------------------------------------------------------------------
LEMMA IdeStep ==
    ASSUME IdeBounded, IdeInv, [Editors!Next]_Editors!vars
    PROVE  IdeInv'
<1>1. CASE UNCHANGED Editors!vars
  BY <1>1, IdePageStep, IdePages, IdeKeeps DEF Editors!vars, Editors!page, Editors!events,
     Editors!runner, IdeInv, Editors!TypeOK, IdePageTyped
<1>2. ASSUME NEW i \in Editors!Editor,
             \/ Editors!OpenWorkspace(i) \/ Editors!Answered(i) \/ Editors!TimesOut(i)
             \/ Editors!NotInstalled(i) \/ Editors!Spawn(i) \/ Editors!Ready(i)
                 \/ Editors!NotReady(i) \/ Editors!Exit(i)
      PROVE  IdeInv'
  BY <1>2, IdeOpenWorkspace, IdeAnswered, IdeConnectionSteps, IdeNotInstalled, IdeSpawn,
     IdeReady, IdeNotReady, IdeExit
<1>3. ASSUME NEW p \in Editors!Pane, \/ Editors!ReplaceEditor(p) \/ Editors!Replaced(p)
                                     \/ Editors!ClosePane(p) \/ Editors!PaneClosed(p)
      PROVE  IdeInv'
  BY <1>3, IdeReplace, IdeReplacedStep, IdeCloses, IdeClosed
<1>4. CASE Editors!HostEvent \/ Editors!Acknowledged \/ Editors!Break \/ Editors!Disconnect
        \/ Editors!RestartHost \/ Editors!Reconnect
  BY <1>4, IdeHostEvent, IdeAcknowledged, IdeConnectionSteps
<1>5. CASE Editors!SessionDeleted \/ Editors!Receive \/ Editors!RestartRunner
  BY <1>5, IdeDeleted, IdeReceive, IdeRestartRunner
<1> QED
  BY <1>1, <1>2, <1>3, <1>4, <1>5 DEF Editors!Next

LEMMA IdeSafe ==
    ASSUME IdeInv
    PROVE  Editors!HostAgrees /\ Editors!NothingLeft
<1>1. ASSUME Editors!Quiet, NEW i, NEW m PROVE ~IdeAsked(i, m) /\ ~IdeComing(i, m)
  <2>1. ~IdeAsked(i, m)
    BY <1>1, OccursEmpty DEF Editors!Quiet, IdeAsked
  <2>2. handled \in Nat /\ handled = Len(log)
    BY <1>1, IdeTypes DEF IdeInv, Editors!Quiet
  <2>3. (handled + 1)..Len(log) = {}
    BY <2>2
  <2> QED
    BY <2>1, <2>3 DEF IdeComing
<1>2. ASSUME NEW i \in Editors!Editor PROVE IdeEditor(i)
  BY DEF IdeInv, IdeRest
<1>3. ideKnown \subseteq Editors!Editor /\ managed \subseteq Editors!Editor
  BY DEF IdeInv, Editors!TypeOK
<1>4. Editors!HostAgrees
  <2>1. ASSUME Editors!Quiet, NEW i \in ideKnown \ stray PROVE IdeUp(i)
    BY <1>1, <1>2, <1>3, <2>1 DEF IdeEditor, IdeKnownRuns
  <2>2. ASSUME Editors!Quiet, NEW i \in managed \ ideLost, phase[i] = "started", program[i] = "alive"
        PROVE  i \in ideKnown
    BY <1>1, <1>2, <1>3, <2>2 DEF IdeEditor, IdeListed, IdeLives
  <2> QED
    BY <2>1, <2>2 DEF IdeUp, Editors!HostAgrees
<1>5. Editors!NothingLeft
  BY <1>1, <1>2 DEF IdeEditor, IdeStops, IdeClosing, IdeLives, Editors!Starting, Editors!NothingLeft
<1> QED
  BY <1>4, <1>5

-----------------------------------------------------------------------------
(* Attachments.                                                            *)

(* What a step does to the operations that are still to be done.           *)

LEMMA PathTypes ==
    ASSUME FileBounded, Files!TypeOK
    PROVE  /\ uploadToRunner \in Seq((Files!Op \cup {"cleanup"}) \X Files!Upload)
           /\ uploadOutbox \in Seq({"uploaded", "failed"} \X Files!Upload)
           /\ \A u \in Files!Upload : ops[u] \in Seq(Files!Op) /\ Left(u) \in Nat
           /\ \A u \in Files!Upload : Left(u) = 0 <=> ~Has(u, "chunk")
           /\ \A u \in Files!Upload : Count(ops[u], "chunk") \in Nat
           /\ \A u \in Files!Upload : Count(uploadToRunner, <<"chunk", u>>) \in Nat
<1>1. /\ uploadToRunner \in Seq((Files!Op \cup {"cleanup"}) \X Files!Upload)
      /\ uploadOutbox \in Seq({"uploaded", "failed"} \X Files!Upload)
      /\ \A u \in Files!Upload : ops[u] \in Seq(Files!Op)
  BY DEF Files!TypeOK
<1>2. \A u \in Files!Upload :
        /\ Count(ops[u], "chunk") \in Nat
        /\ Count(ops[u], "chunk") = 0 <=> ~Occurs(ops[u], "chunk")
  BY <1>1, CountType
<1>3. \A u \in Files!Upload :
        /\ Count(uploadToRunner, <<"chunk", u>>) \in Nat
        /\ Count(uploadToRunner, <<"chunk", u>>) = 0 <=> ~Occurs(uploadToRunner, <<"chunk", u>>)
  BY <1>1, CountType
<1>4. ASSUME NEW u \in Files!Upload
      PROVE  Left(u) \in Nat /\ (Left(u) = 0 <=> ~Has(u, "chunk"))
  BY <1>2, <1>3 DEF Left, Has
<1> QED
  BY <1>1, <1>2, <1>3, <1>4

\* The message x about u is sent.
FileSent(x, u) ==
    /\ \A v \in Files!Upload :
         /\ \A y \in Files!Op : Has(v, y)' <=> Has(v, y) \/ (v = u /\ y = x)
         /\ \A y, z \in Files!Op : Then(v, y, z)' => Then(v, y, z) \/ (v = u /\ z = x /\ Has(v, y))
         /\ Left(v)' = IF v = u /\ x = "chunk" THEN Left(v) + 1 ELSE Left(v)
    /\ CleanupDue' <=> CleanupDue \/ x = "cleanup"

LEMMA SentFacts ==
    ASSUME FileBounded, Files!TypeOK, NEW u \in Files!Upload, NEW x \in Files!Op \cup {"cleanup"},
           uploadToRunner' = Append(uploadToRunner, <<x, u>>), ops' = ops, cleaning' = cleaning
    PROVE  FileSent(x, u)
<1>1. /\ uploadToRunner \in Seq((Files!Op \cup {"cleanup"}) \X Files!Upload)
      /\ <<x, u>> \in (Files!Op \cup {"cleanup"}) \X Files!Upload
  BY PathTypes
<1>2. \A m : Occurs(uploadToRunner', m) <=> Occurs(uploadToRunner, m) \/ m = <<x, u>>
  BY <1>1, OccursAppend
<1>3. \A m, n : Precedes(uploadToRunner', m, n) <=>
                    Precedes(uploadToRunner, m, n) \/ (Occurs(uploadToRunner, m) /\ n = <<x, u>>)
  BY <1>1, PrecedesAppend
<1>4. \A m : Count(uploadToRunner', m) =
                IF <<x, u>> = m THEN Count(uploadToRunner, m) + 1 ELSE Count(uploadToRunner, m)
  BY SMTT(20), <1>1, CountAppend
<1>5. \A y, v : <<y, v>> = <<x, u>> <=> y = x /\ v = u
  OBVIOUS
<1>6. ASSUME NEW v \in Files!Upload, NEW y \in Files!Op
      PROVE  Has(v, y)' <=> Has(v, y) \/ (v = u /\ y = x)
  BY <1>2, <1>5 DEF Has
<1>7. ASSUME NEW v \in Files!Upload, NEW y \in Files!Op, NEW z \in Files!Op, Then(v, y, z)'
      PROVE  Then(v, y, z) \/ (v = u /\ z = x /\ Has(v, y))
  BY <1>2, <1>3, <1>5, <1>7 DEF Then, Has
<1>8. ASSUME NEW v \in Files!Upload
      PROVE  Left(v)' = IF v = u /\ x = "chunk" THEN Left(v) + 1 ELSE Left(v)
  <2>1. /\ Left(v) = Count(ops[v], "chunk") + Count(uploadToRunner, <<"chunk", v>>)
        /\ Left(v)' = Count(ops[v], "chunk") + Count(uploadToRunner', <<"chunk", v>>)
        /\ Count(ops[v], "chunk") \in Nat /\ Count(uploadToRunner, <<"chunk", v>>) \in Nat
    BY PathTypes DEF Left
  <2>2. Count(uploadToRunner', <<"chunk", v>>) =
          IF v = u /\ x = "chunk" THEN Count(uploadToRunner, <<"chunk", v>>) + 1
          ELSE Count(uploadToRunner, <<"chunk", v>>)
    BY <1>4, <1>5
  <2> HIDE DEF Left
  <2> QED
    BY <2>1, <2>2
<1>9. CleanupDue' <=> CleanupDue \/ x = "cleanup"
  BY <1>2, <1>5 DEF CleanupDue
<1> QED
  BY <1>6, <1>7, <1>8, <1>9 DEF FileSent

\* Nothing changes, or messages of uploads that are torn are lost.
Kept ==
    /\ \A v \in Files!Upload \ torn' :
         /\ \A y \in Files!Op : Has(v, y)' <=> Has(v, y)
         /\ Left(v)' = Left(v) /\ \A y, z \in Files!Op : Then(v, y, z)' => Then(v, y, z)
    /\ \A v \in Files!Upload : Left(v)' <= Left(v) /\ Left(v)' \in Nat

LEMMA SameKept ==
    ASSUME FileBounded, Files!TypeOK, uploadToRunner' = uploadToRunner, ops' = ops
    PROVE  Kept
<1>1. \A v \in Files!Upload : Left(v)' = Left(v) /\ Left(v) \in Nat
  BY PathTypes DEF Left
<1>2. \A v \in Files!Upload : \A y, z \in Files!Op :
        (Then(v, y, z)' <=> Then(v, y, z)) /\ (Has(v, y)' <=> Has(v, y))
  BY DEF Then, Has
<1> QED
  BY <1>1, <1>2 DEF Kept

LEMMA LostKept ==
    ASSUME FileBounded, Files!TypeOK, uploadToRunner' = <<>>, ops' = ops,
           \A v \in Files!Upload \ torn' : \A x \in Files!Op : ~Occurs(uploadToRunner, <<x, v>>)
    PROVE  Kept
<1>1. \A m, n : ~Occurs(uploadToRunner', m) /\ ~Precedes(uploadToRunner', m, n)
        /\ Count(uploadToRunner', m) = 0
  BY OccursEmpty
<1>2. ASSUME NEW v \in Files!Upload PROVE Left(v)' <= Left(v) /\ Left(v)' \in Nat
  BY <1>1, PathTypes DEF Left
<1>3. ASSUME NEW v \in Files!Upload \ torn'
      PROVE  Left(v)' = Left(v)
  BY <1>3, PathTypes, CountType, <1>1 DEF Files!Op, Left
<1>4. \A v \in Files!Upload \ torn' : \A y, z \in Files!Op :
        (Then(v, y, z)' => Then(v, y, z)) /\ (Has(v, y)' <=> Has(v, y))
  BY <1>1 DEF Then, Has
<1> QED
  BY <1>2, <1>3, <1>4 DEF Kept

LEMMA ReceiveKept ==
    ASSUME FileBounded, Files!TypeOK, Files!Receive
    PROVE  Kept /\ (CleanupDue' <=> CleanupDue)
<1>1. /\ uploadToRunner \in Seq((Files!Op \cup {"cleanup"}) \X Files!Upload)
          /\ uploadToRunner # <<>>
      /\ uploadToRunner' = Tail(uploadToRunner)
          /\ Head(uploadToRunner) \in (Files!Op \cup {"cleanup"}) \X Files!Upload
      /\ uploadToRunner' \in Seq((Files!Op \cup {"cleanup"}) \X Files!Upload)
      /\ \A v \in Files!Upload : ops[v] \in Seq(Files!Op)
  BY PathTypes, TailSteps DEF Files!Receive
<1>2. PICK x \in Files!Op \cup {"cleanup"}, u \in Files!Upload : Head(uploadToRunner) = <<x, u>>
  BY <1>1
<1>3. \A y, v : <<y, v>> = <<x, u>> <=> y = x /\ v = u
  OBVIOUS
<1>4. \A m : Occurs(uploadToRunner, m) <=> Occurs(uploadToRunner', m) \/ m = <<x, u>>
  BY <1>1, <1>2, OccursTail
<1>5. \A m, n : Precedes(uploadToRunner, m, n) <=>
                    Precedes(uploadToRunner', m, n) \/ (m = <<x, u>> /\ Occurs(uploadToRunner', n))
  BY <1>1, <1>2, PrecedesTail
<1>6. \A m : Count(uploadToRunner, m) =
                IF <<x, u>> = m THEN Count(uploadToRunner', m) + 1 ELSE Count(uploadToRunner', m)
  BY <1>1, <1>2, CountTail
<1>7. \A v \in Files!Upload :
        Count(uploadToRunner', <<"chunk", v>>) \in Nat /\ Count(ops[v], "chunk") \in Nat
  BY <1>1, CountType
<1>8. CASE x = "cleanup"
  <2>1. cleaning' = TRUE /\ ops' = ops
    BY <1>2, <1>8 DEF Files!Receive
  <2>2. CleanupDue' /\ CleanupDue
    BY <1>4, <1>8, <2>1 DEF CleanupDue
  <2>3. \A y \in Files!Op : y # x
    BY <1>8 DEF Files!Op
  <2>4. ASSUME NEW v \in Files!Upload, NEW y \in Files!Op, NEW z \in Files!Op
        PROVE  (Then(v, y, z)' => Then(v, y, z)) /\ (Has(v, y)' <=> Has(v, y))
    BY <1>3, <1>4, <1>5, <2>1, <2>3 DEF Then, Has
  <2>5. ASSUME NEW v \in Files!Upload PROVE Left(v)' = Left(v)
    BY <1>3, <1>6, <1>8, <2>1 DEF Left
  <2> QED
    BY <2>2, <2>4, <2>5, PathTypes DEF Kept
<1>9. CASE x # "cleanup"
  <2>1. x \in Files!Op /\ cleaning' = cleaning /\ ops' = [ops EXCEPT ![u] = Append(@, x)]
    BY <1>2, <1>9 DEF Files!Receive
  <2>2. ops'[u] = Append(ops[u], x) /\ \A v \in Files!Upload : v # u => ops'[v] = ops[v]
    BY <2>1 DEF Files!TypeOK
  <2>3. CleanupDue' <=> CleanupDue
    BY <1>3, <1>4, <1>9, <2>1 DEF CleanupDue
  <2>4. \A y : Occurs(ops'[u], y) <=> Occurs(ops[u], y) \/ y = x
    BY <1>1, <2>1, <2>2, OccursAppend
  <2>5. \A y, z : Precedes(ops'[u], y, z) <=>
                      Precedes(ops[u], y, z) \/ (Occurs(ops[u], y) /\ z = x)
    BY <1>1, <2>1, <2>2, PrecedesAppend
  <2>6. \A y : Count(ops'[u], y) = IF x = y THEN Count(ops[u], y) + 1 ELSE Count(ops[u], y)
    BY <1>1, <2>1, <2>2, CountAppend
  <2>7. ASSUME NEW v \in Files!Upload, NEW y \in Files!Op, NEW z \in Files!Op
        PROVE  (Then(v, y, z)' => Then(v, y, z)) /\ (Has(v, y)' <=> Has(v, y))
    BY <1>3, <1>4, <2>4, <2>5, <1>5, <2>2 DEF Has, Then
  <2>8. ASSUME NEW v \in Files!Upload PROVE Left(v)' = Left(v)
    <3>1. CASE v = u
      BY <1>3, <1>6, <1>7, <2>6, <3>1 DEF Left
    <3>2. CASE v # u
      BY <1>3, <1>6, <2>2, <3>2 DEF Left
    <3> QED
      BY <3>1, <3>2
  <2> QED
    BY <2>3, <2>7, <2>8, PathTypes DEF Kept
<1> QED
  BY <1>8, <1>9

\* The operation x on u is done.
Done(u, x) ==
    /\ \A v \in Files!Upload \ {u} :
         /\ \A y \in Files!Op : Has(v, y)' <=> Has(v, y)
         /\ Left(v)' = Left(v) /\ \A y, z \in Files!Op : Then(v, y, z)' => Then(v, y, z)
    /\ \A y \in Files!Op : Has(u, y) <=> Has(u, y)' \/ y = x
    /\ \A y, z \in Files!Op : Then(u, y, z)' => Then(u, y, z)
    /\ \A y \in Files!Op : Has(u, y)' => Then(u, x, y)
    /\ Left(u) = IF x = "chunk" THEN Left(u)' + 1 ELSE Left(u)'
    /\ \A v \in Files!Upload : Left(v)' \in Nat
    /\ CleanupDue' <=> CleanupDue

LEMMA DoneFacts ==
    ASSUME FileBounded, Files!TypeOK, NEW u \in Files!Upload, NEW x \in Files!Op, Files!Doing(u, x)
    PROVE  Done(u, x)
<1>1. /\ ops[u] \in Seq(Files!Op) /\ ops[u] # <<>> /\ Head(ops[u]) = x
      /\ ops'[u] = Tail(ops[u]) /\ ops'[u] \in Seq(Files!Op)
      /\ \A v \in Files!Upload \ {u} : ops'[v] = ops[v]
      /\ uploadToRunner' = uploadToRunner /\ cleaning' = cleaning
  BY TailSteps DEF Files!Doing, Files!TypeOK
<1>2. \A y : Occurs(ops[u], y) <=> Occurs(ops'[u], y) \/ y = x
  BY <1>1, OccursTail
<1>3. \A y, z : Precedes(ops[u], y, z) <=>
                    Precedes(ops'[u], y, z) \/ (y = x /\ Occurs(ops'[u], z))
  BY <1>1, PrecedesTail
<1>4. \A y : Count(ops[u], y) = IF x = y THEN Count(ops'[u], y) + 1 ELSE Count(ops'[u], y)
  BY <1>1, CountTail
<1>5. Count(ops'[u], "chunk") \in Nat /\ Count(uploadToRunner, <<"chunk", u>>) \in Nat
  BY <1>1, CountType, PathTypes
<1>6. ASSUME NEW v \in Files!Upload \ {u}
      PROVE  /\ \A y \in Files!Op : Has(v, y)' <=> Has(v, y)
             /\ Left(v)' = Left(v) /\ \A y, z \in Files!Op : Then(v, y, z)' => Then(v, y, z)
  BY <1>1 DEF Has, Left, Then
<1>7. \A y \in Files!Op : Has(u, y) <=> Has(u, y)' \/ y = x
  BY <1>1, <1>2 DEF Has
<1>8. \A y, z \in Files!Op : Then(u, y, z)' => Then(u, y, z)
  BY <1>1, <1>2, <1>3 DEF Then
<1>9. \A y \in Files!Op : Has(u, y)' => Then(u, x, y)
  BY <1>1, <1>2, <1>3 DEF Then, Has
<1>10. /\ Left(u) = IF x = "chunk" THEN Left(u)' + 1 ELSE Left(u)'
       /\ Left(u)' \in Nat
  BY <1>1, <1>4, <1>5 DEF Left
<1>11. CleanupDue' <=> CleanupDue
  BY <1>1 DEF CleanupDue
<1> QED
  BY <1>6, <1>7, <1>8, <1>9, <1>10, <1>11, PathTypes DEF Done

-----------------------------------------------------------------------------
(* The inductive invariant, action by action.                              *)

OfUpload(u) == HostSide(u) /\ ChunksCounted(u) /\ Intact(u)

\* What a step leaves as it was, or makes less of, for an upload.
FileUntouched(v) ==
    /\ host'[v] = host[v] /\ uploadSent'[v] = uploadSent[v] /\ entry'[v] = entry[v]
        /\ uploadFile'[v] = uploadFile[v]
    /\ v \in hostFile' <=> v \in hostFile
    /\ v \in rows' <=> v \in rows
    /\ v \in stream' <=> v \in stream
    /\ session' = session
    /\ Left(v)' \in Nat /\ Left(v)' <= Left(v)
    /\ v \notin torn' =>
         /\ v \notin torn /\ Left(v)' = Left(v) /\ (CleanupDue' <=> CleanupDue)
         /\ \A y \in Files!Op : Has(v, y)' <=> Has(v, y)
         /\ \A y, z \in Files!Op : Then(v, y, z)' => Then(v, y, z)
         /\ FileTold(v)' <=> FileTold(v)

LEMMA UploadTypes ==
    ASSUME FileBounded, Files!TypeOK, NEW u \in Files!Upload
    PROVE  /\ Left(u) \in Nat /\ uploadSent[u] \in Nat /\ uploadSent[u] <= Chunks
           /\ uploadFile[u] = None \/ (uploadFile[u] \in Nat /\ uploadFile[u] # None)
           /\ (Left(u) = 0 <=> ~Has(u, "chunk"))
           /\ Files!Op = {"begin", "chunk", "end", "abort", "delete"}
BY PathTypes DEF Files!TypeOK, FileBounded, Files!Op

LEMMA Elsewhere ==
    ASSUME FileBounded, Files!TypeOK, NEW v \in Files!Upload, OfUpload(v), FileUntouched(v)
    PROVE  OfUpload(v)'
<1>1. HostSide(v)'
  BY DEF OfUpload, HostSide, FileUntouched
<1>2. ChunksCounted(v)'
  BY UploadTypes DEF OfUpload, ChunksCounted, FileUntouched
<1>3. ASSUME v \notin torn' PROVE OpsSent(v)'
  BY <1>3, UploadTypes DEF OfUpload, Intact, OpsSent, Ordered, FileUntouched
<1>4. ASSUME v \notin torn' PROVE FileWhole(v)'
  BY <1>4, UploadTypes DEF OfUpload, Intact, FileWhole, FileUntouched
<1>5. ASSUME v \notin torn' PROVE ReportTrue(v)'
  BY <1>5, UploadTypes DEF OfUpload, Intact, ReportTrue, FileUntouched
<1>6. ASSUME v \notin torn' PROVE Removed(v)'
  BY <1>6, UploadTypes DEF OfUpload, Intact, Removed, FileUntouched
<1> QED
  BY <1>1, <1>2, <1>3, <1>4, <1>5, <1>6 DEF OfUpload, Intact

\* A message is sent, or the host knows that it may be lost.
LEMMA FileSendFacts ==
    ASSUME FileBounded, Files!TypeOK, NEW u \in Files!Upload, NEW x \in Files!Op,
             Files!Send(u, <<x>>),
           ops' = ops, cleaning' = cleaning
    PROVE  /\ \/ torn' = torn /\ FileSent(x, u)
              \/ uploadLink # "up" /\ torn' = torn \cup {u} /\ uploadToRunner' = uploadToRunner
           /\ CleanupDue' <=> CleanupDue
           /\ \A v \in Files!Upload : Left(v)' \in Nat
<1>1. CASE uploadLink = "up"
  <2>1. uploadToRunner' = uploadToRunner \o [n \in 1..Len(<<x>>) |-> <<<<x>>[n], u>>]
          /\ torn' = torn
    BY <1>1 DEF Files!Send
  <2>2. [n \in 1..Len(<<x>>) |-> <<<<x>>[n], u>>] = <<<<x, u>>>>
    OBVIOUS
  <2>3. uploadToRunner' = Append(uploadToRunner, <<x, u>>)
    BY <2>1, <2>2, PathTypes
  <2>4. FileSent(x, u)
    BY <2>3, SentFacts
  <2>5. ASSUME NEW v \in Files!Upload PROVE Left(v)' \in Nat
    <3>1. Left(v) \in Nat /\ Left(v)' = IF v = u /\ x = "chunk" THEN Left(v) + 1 ELSE Left(v)
      BY <2>4, PathTypes DEF FileSent
    <3> QED
      BY <3>1
  <2> QED
    BY <2>1, <2>4, <2>5 DEF FileSent, Files!Op
<1>2. CASE uploadLink # "up"
  BY <1>2, SameKept DEF Files!Send, CleanupDue, Kept
<1> QED
  BY <1>1, <1>2

OthersSame(u) ==
    \A v \in Files!Upload \ {u} :
        /\ host'[v] = host[v] /\ uploadSent'[v] = uploadSent[v] /\ entry'[v] = entry[v]
            /\ uploadFile'[v] = uploadFile[v]
        /\ v \in hostFile' <=> v \in hostFile
        /\ v \in rows' <=> v \in rows
        /\ v \in stream' <=> v \in stream

LEMMA SendOthers ==
    ASSUME FileBounded, UploadsInv, NEW u \in Files!Upload, NEW x \in Files!Op,
             Files!Send(u, <<x>>), ops' = ops,
           cleaning' = cleaning, uploadOutbox' = uploadOutbox, session' = session, OthersSame(u)
    PROVE  \A v \in Files!Upload \ {u} : OfUpload(v)'
<1> TAKE v \in Files!Upload \ {u}
<1>1. Files!TypeOK /\ OfUpload(v) /\ Left(v) \in Nat
  BY PathTypes DEF UploadsInv, OfUpload
<1>2. /\ Left(v)' \in Nat /\ Left(v)' <= Left(v)
      /\ v \notin torn' =>
           /\ v \notin torn /\ Left(v)' = Left(v)
           /\ \A y \in Files!Op : Has(v, y)' <=> Has(v, y)
           /\ \A y, z \in Files!Op : Then(v, y, z)' => Then(v, y, z)
  BY <1>1, SameKept, FileSendFacts DEF FileSent, Kept
<1>3. CleanupDue' <=> CleanupDue
  BY <1>1, FileSendFacts
<1>4. FileTold(v)' <=> FileTold(v)
  BY DEF FileTold
<1>5. FileUntouched(v)
  BY <1>2, <1>3, <1>4 DEF FileUntouched, OthersSame
<1> QED
  BY <1>1, <1>5, Elsewhere

LEMMA KeptOthers ==
    ASSUME FileBounded, UploadsInv, NEW u \in Files!Upload, Kept, CleanupDue' <=> CleanupDue,
           torn' \in {torn, torn \cup {u}}, session' = session, OthersSame(u),
           \A v \in Files!Upload \ {u} : FileTold(v)' <=> FileTold(v)
    PROVE  \A v \in Files!Upload \ {u} : OfUpload(v)'
<1> TAKE v \in Files!Upload \ {u}
<1>1. Files!TypeOK /\ OfUpload(v)
  BY DEF UploadsInv, OfUpload
<1>2. FileUntouched(v)
  BY DEF FileUntouched, OthersSame, Kept
<1> QED
  BY <1>1, <1>2, Elsewhere

LEMMA DoneOthers ==
    ASSUME FileBounded, UploadsInv, NEW u \in Files!Upload, NEW x \in Files!Op, Done(u, x),
           torn' = torn, session' = session, OthersSame(u),
           \A v \in Files!Upload \ {u} : FileTold(v)' <=> FileTold(v)
    PROVE  \A v \in Files!Upload \ {u} : OfUpload(v)'
<1> TAKE v \in Files!Upload \ {u}
<1>1. Files!TypeOK /\ OfUpload(v) /\ Left(v) \in Nat
  BY PathTypes DEF UploadsInv, OfUpload
<1>2. FileUntouched(v)
  BY <1>1 DEF FileUntouched, OthersSame, Done
<1> QED
  BY <1>1, <1>2, Elsewhere

-----------------------------------------------------------------------------

LEMMA UploadsTypes == FileBounded /\ UploadsInv /\ [Files!Next]_Files!vars => Files!TypeOK'
<1> SUFFICES ASSUME FileBounded, UploadsInv, [Files!Next]_Files!vars PROVE Files!TypeOK'
  OBVIOUS
<1>0. Files!TypeOK /\ \A u \in Files!Upload : ChunksCounted(u)
  BY DEF UploadsInv
<1> USE <1>0
<1>1. ASSUME NEW u \in Files!Upload, NEW msgs \in Seq(Files!Op), Files!Send(u, msgs)
      PROVE  uploadToRunner' \in Seq((Files!Op \cup {"cleanup"}) \X Files!Upload)
               /\ torn' \subseteq Files!Upload
  <2>1. [n \in 1..Len(msgs) |-> <<msgs[n], u>>] \in
          Seq((Files!Op \cup {"cleanup"}) \X Files!Upload)
    BY <1>1, LenProperties, ElementOfSeq, IsASeq
  <2> QED
    BY <1>1, <2>1, ConcatProperties DEF Files!TypeOK, Files!Send
<1>2. <<"delete">> \in Seq(Files!Op) /\ <<"abort", "delete">> \in Seq(Files!Op)
        /\ <<"begin">> \in Seq(Files!Op)
      /\ <<"chunk">> \in Seq(Files!Op) /\ <<"end">> \in Seq(Files!Op)
  BY DEF Files!Op
<1>3. ASSUME NEW u \in Files!Upload, NEW msgs \in Seq(Files!Op), Files!Fail(u, msgs)
      PROVE  /\ host' \in [Files!Upload -> {"none", "stored", "streaming", "ended", "ok", "failed"}]
             /\ entry' \in [Files!Upload -> {"none", "pending", "ok", "failed"}]
             /\ hostFile' \subseteq Files!Upload /\ rows' \subseteq Files!Upload
             /\ uploadToRunner' \in Seq((Files!Op \cup {"cleanup"}) \X Files!Upload)
                 /\ torn' \subseteq Files!Upload
  BY <1>1, <1>3 DEF Files!Fail, Files!TypeOK
<1>4. ASSUME NEW u \in Files!Upload, Files!Store(u) PROVE Files!TypeOK'
  BY <1>2, <1>3, <1>4 DEF Files!Store, Files!TypeOK, Files!runnerVars
<1>5. ASSUME NEW u \in Files!Upload, Files!Begin(u) PROVE Files!TypeOK'
  BY <1>2, <1>3, <1>5, <1>1 DEF Files!Begin, Files!TypeOK, Files!runnerVars
<1>6. ASSUME NEW u \in Files!Upload, Files!SendChunk(u) PROVE Files!TypeOK'
  <2>1. CASE uploadLink = "down"
    BY <1>2, <1>3, <1>6, <2>1 DEF Files!SendChunk, Files!TypeOK, Files!runnerVars
  <2>2. CASE uploadLink # "down"
    <3>1. uploadToRunner' \in Seq((Files!Op \cup {"cleanup"}) \X Files!Upload)
            /\ torn' \subseteq Files!Upload
      BY <1>1, <1>2, <1>6, <2>2 DEF Files!SendChunk
    <3>2. uploadSent' \in [Files!Upload -> 0..Chunks]
      BY <1>6, <2>2, UploadTypes DEF Files!SendChunk, FileBounded, Files!TypeOK
    <3> QED
      BY <1>6, <2>2, <3>1, <3>2 DEF Files!SendChunk, Files!TypeOK, Files!runnerVars
  <2> QED
    BY <2>1, <2>2
<1>7. ASSUME NEW u \in Files!Upload, Files!SendEnd(u) PROVE Files!TypeOK'
  BY <1>2, <1>3, <1>7, <1>1 DEF Files!SendEnd, Files!TypeOK, Files!runnerVars
<1>8. ASSUME NEW u \in Files!Upload, Files!Finish(u) PROVE Files!TypeOK'
  BY <1>8, <1>2, <1>3 DEF Files!Finish, Files!TypeOK, Files!runnerVars
<1>9. ASSUME NEW u \in Files!Upload, Files!Discard(u) PROVE Files!TypeOK'
  BY <1>2, <1>3, <1>9 DEF Files!Discard, Files!TypeOK, Files!runnerVars
<1>10. ASSUME NEW u \in Files!Upload, NEW r \in {"ok", "failed"}
       PROVE  Files!Settled(u, r) \in [Files!Upload -> {"none", "pending", "ok", "failed"}]
  BY DEF Files!Settled, Files!TypeOK
<1>11. ASSUME NEW u \in Files!Upload, Files!TimesOut(u) PROVE Files!TypeOK'
  BY <1>10, <1>11 DEF Files!TimesOut, Files!TypeOK, Files!runnerVars
<1>12. CASE Files!DeleteSession
  <2>1. <<"cleanup", 1>> \in (Files!Op \cup {"cleanup"}) \X Files!Upload
    BY DEF Files!Upload, FileBounded
  <2>2. uploadToRunner' \in Seq((Files!Op \cup {"cleanup"}) \X Files!Upload)
    <3>1. uploadToRunner' = Append(uploadToRunner, <<"cleanup", 1>>)
            \/ uploadToRunner' = uploadToRunner
      BY <1>12 DEF Files!DeleteSession
    <3>2. uploadToRunner \in Seq((Files!Op \cup {"cleanup"}) \X Files!Upload)
      BY PathTypes
    <3>3. Append(uploadToRunner, <<"cleanup", 1>>) \in
            Seq((Files!Op \cup {"cleanup"}) \X Files!Upload)
      BY <2>1, <3>2, AppendProperties
    <3> QED
      BY <3>1, <3>2, <3>3
  <2>3. torn' \subseteq Files!Upload /\ rows' \subseteq Files!Upload
          /\ hostFile' \subseteq Files!Upload
    BY <1>12 DEF Files!DeleteSession, Files!TypeOK
  <2> QED
    BY <1>12, <2>2, <2>3 DEF Files!DeleteSession, Files!TypeOK, Files!runnerVars
<1>13. CASE Files!Reported
    <2>1. uploadOutbox' \in Seq({"uploaded", "failed"} \X Files!Upload)
          /\ Head(uploadOutbox) \in {"uploaded", "failed"} \X Files!Upload
        BY <1>13, PathTypes, TailSteps DEF Files!Reported
    <2>2. Head(uploadOutbox)[2] \in Files!Upload
        BY <2>1
    <2>3. entry' \in [Files!Upload -> {"none", "pending", "ok", "failed"}]
        BY <1>10, <1>13, <2>2 DEF Files!Reported
    <2> QED
        BY <1>13, <2>1, <2>3 DEF Files!Reported, Files!TypeOK, Files!runnerVars
<1>14. CASE Files!Break
  <2>1. ASSUME NEW n \in 1..Len(uploadToRunner) PROVE uploadToRunner[n][2] \in Files!Upload
    BY PathTypes, ElementOfSeq
  <2>2. torn' \subseteq Files!Upload
    BY <1>14, <2>1 DEF Files!Break, Files!TypeOK
  <2>3. uploadFaults' \in 0..MaxUploadFaults
    BY <1>14 DEF Files!Break, Files!TypeOK, FileBounded
  <2> QED
    BY <1>14, <2>2, <2>3, SMTT(20)
       DEF Files!Break, Files!TypeOK, Files!runnerVars, Files!hostVars
<1>15. CASE Files!Disconnect
  BY <1>10, <1>15 DEF Files!Disconnect, Files!TypeOK, Files!runnerVars
<1>16. CASE Files!Reconnect
  BY <1>16 DEF Files!Reconnect, Files!TypeOK, Files!runnerVars, Files!hostVars
<1>17. CASE Files!Receive
  <2>1. uploadToRunner' \in Seq((Files!Op \cup {"cleanup"}) \X Files!Upload)
        /\ Head(uploadToRunner) \in (Files!Op \cup {"cleanup"}) \X Files!Upload
    BY <1>17, PathTypes, TailSteps DEF Files!Receive
  <2>2. PICK x \in Files!Op \cup {"cleanup"}, u \in Files!Upload : Head(uploadToRunner) = <<x, u>>
    BY <2>1
  <2>3. cleaning' \in BOOLEAN /\ ops' \in [Files!Upload -> Seq(Files!Op)]
    <3>1. CASE x = "cleanup"
      <4>1. cleaning' = TRUE /\ ops' = ops
        BY <1>17, <2>2, <3>1 DEF Files!Receive
      <4> QED
        BY <4>1 DEF Files!TypeOK
    <3>2. CASE x # "cleanup"
      <4>1. x \in Files!Op /\ cleaning' = cleaning /\ ops' = [ops EXCEPT ![u] = Append(@, x)]
        BY <1>17, <2>2, <3>2 DEF Files!Receive
      <4>2. Append(ops[u], x) \in Seq(Files!Op)
        BY <4>1, PathTypes
      <4> QED
        BY <4>1, <4>2 DEF Files!TypeOK
    <3> QED
      BY <3>1, <3>2
  <2> QED
    BY <1>17, <2>1, <2>3 DEF Files!Receive, Files!TypeOK, Files!hostVars
<1>18. ASSUME NEW u \in Files!Upload, NEW x \in Files!Op, Files!Doing(u, x)
       PROVE  ops' \in [Files!Upload -> Seq(Files!Op)]
  BY <1>18, PathTypes, TailSteps DEF Files!Doing, Files!TypeOK
<1>19. ASSUME NEW u \in Files!Upload, Files!CloseStream(u)
       PROVE  stream' \subseteq Files!Upload
                /\ uploadFile' \in [Files!Upload -> (0..Chunks) \cup {None}]
  BY <1>19 DEF Files!CloseStream, Files!TypeOK
<1>20. ASSUME NEW u \in Files!Upload, NEW r \in {"uploaded", "failed"}, Files!Report(r, u)
       PROVE  uploadOutbox' \in Seq({"uploaded", "failed"} \X Files!Upload)
  BY <1>20, PathTypes DEF Files!Report
<1>21. ASSUME NEW u \in Files!Upload, Files!CloseStream(u), Files!Report("failed", u)
       PROVE  /\ stream' \subseteq Files!Upload
                  /\ uploadFile' \in [Files!Upload -> (0..Chunks) \cup {None}]
              /\ uploadOutbox' \in Seq({"uploaded", "failed"} \X Files!Upload)
  BY <1>19, <1>20, <1>21
<1>22. ASSUME NEW u \in Files!Upload, NEW x \in Files!Op, Files!Doing(u, x),
              stream' \subseteq Files!Upload,
                  uploadFile' \in [Files!Upload -> (0..Chunks) \cup {None}],
              uploadOutbox' \in Seq({"uploaded", "failed"} \X Files!Upload)
       PROVE  Files!TypeOK'
  BY <1>18, <1>22 DEF Files!Doing, Files!TypeOK, Files!hostVars
<1>23. ASSUME NEW u \in Files!Upload, Files!DoBegin(u) PROVE Files!TypeOK'
  <2>1. CASE /\ stream' = stream \cup {u} /\ uploadFile' = [uploadFile EXCEPT ![u] = 0]
             /\ UNCHANGED uploadOutbox
    <3>1. stream' \subseteq Files!Upload
            /\ uploadFile' \in [Files!Upload -> (0..Chunks) \cup {None}]
      BY <2>1 DEF Files!TypeOK, FileBounded
    <3> QED
      BY <1>22, <1>23, <2>1, <3>1, PathTypes DEF Files!DoBegin, Files!Op
  <2>2. CASE Files!CloseStream(u) /\ Files!Report("failed", u)
    BY <1>21, <1>22, <1>23, <2>2 DEF Files!DoBegin, Files!Op
  <2> QED
    BY <1>23, <2>1, <2>2 DEF Files!DoBegin
<1>24. ASSUME NEW u \in Files!Upload, Files!DoChunk(u) PROVE Files!TypeOK'
  <2>1. CASE /\ u \in stream /\ UNCHANGED <<stream, uploadOutbox>>
             /\ uploadFile' = [uploadFile EXCEPT ![u] = IF @ = None THEN None ELSE @ + 1]
    <3>1. Left(u) \in Nat /\ Left(u) # 0 /\ uploadSent[u] \in Nat /\ uploadSent[u] <= Chunks
      BY <1>24, DoneFacts, UploadTypes DEF Files!DoChunk, Files!Op, Done
    <3>2. uploadFile[u] = None \/ (uploadFile[u] \in Nat /\ uploadFile[u] # None)
      BY UploadTypes
    <3>3. (IF uploadFile[u] = None THEN None ELSE uploadFile[u] + 1) \in (0..Chunks) \cup {None}
      BY <2>1, <3>1, <3>2 DEF ChunksCounted, FileBounded
    <3>4. stream' \subseteq Files!Upload
            /\ uploadFile' \in [Files!Upload -> (0..Chunks) \cup {None}]
      BY <2>1, <3>3 DEF Files!TypeOK
    <3> QED
      BY <1>22, <1>24, <2>1, <3>4, PathTypes DEF Files!DoChunk, Files!Op
  <2>2. CASE Files!CloseStream(u) /\ Files!Report("failed", u)
    BY <1>21, <1>22, <1>24, <2>2 DEF Files!DoChunk, Files!Op
  <2> QED
    BY <1>24, <2>1, <2>2 DEF Files!DoChunk
<1>25. ASSUME NEW u \in Files!Upload, Files!DoEnd(u) PROVE Files!TypeOK'
  BY <1>20, <1>22, <1>25, <1>21 DEF Files!TypeOK, Files!DoEnd, Files!Op
<1>26. ASSUME NEW u \in Files!Upload, Files!DoAbort(u) PROVE Files!TypeOK'
  BY <1>19, <1>26, <1>22, PathTypes DEF Files!DoAbort, Files!Op
<1>27. ASSUME NEW u \in Files!Upload, Files!DoDelete(u) PROVE Files!TypeOK'
  BY <1>27, <1>22, PathTypes DEF Files!DoDelete, Files!TypeOK, Files!Op
<1>28. CASE Files!CleanupSession
  BY <1>28 DEF Files!CleanupSession, Files!TypeOK, Files!hostVars
<1>29. CASE Files!RestartRunner
  <2>1. uploadFaults' \in 0..MaxUploadFaults
    BY <1>29 DEF Files!RestartRunner, Files!TypeOK, FileBounded
  <2>2. ops' \in [Files!Upload -> Seq(Files!Op)]
          /\ uploadToRunner' \in Seq((Files!Op \cup {"cleanup"}) \X Files!Upload)
    BY <1>29 DEF Files!RestartRunner
  <2> QED
    BY <1>29, <2>1, <2>2 DEF Files!RestartRunner, Files!TypeOK, Files!hostVars
<1>30. CASE UNCHANGED Files!vars
  BY <1>30 DEF Files!vars, Files!TypeOK
<1> QED
  BY <1>4, <1>5, <1>6, <1>7, <1>8, <1>9, <1>11, <1>12, <1>13, <1>14, <1>15, <1>16, <1>17,
<1>23, <1>24, <1>25, <1>26, <1>27, <1>28, <1>29, <1>30 DEF Files!Next

-----------------------------------------------------------------------------

\* The invariant after a step that concerns u alone.
LEMMA OneUpload ==
    ASSUME UploadsInv, Files!TypeOK', NEW u \in Files!Upload, session' = session,
             CleanupDue' <=> CleanupDue,
           \A v \in Files!Upload \ {u} : OfUpload(v)', HostSide(u)', ChunksCounted(u)',
           u \notin torn' => OpsSent(u)' /\ FileWhole(u)' /\ ReportTrue(u)' /\ Removed(u)'
    PROVE  UploadsInv'
<1>1. OfUpload(u)'
  BY DEF OfUpload, Intact
<1>2. \A v \in Files!Upload : OfUpload(v)'
  BY <1>1
<1>3. (CleanupDue => ~session)'
  BY DEF UploadsInv
<1> QED
  BY <1>2, <1>3 DEF UploadsInv, OfUpload

LEMMA FailKept ==
    ASSUME FileBounded, UploadsInv, Files!TypeOK', NEW u \in Files!Upload,
             host[u] \notin {"streaming", "failed"},
           Files!Fail(u, <<"delete">>), uploadSent' = uploadSent, session' = session,
               UNCHANGED Files!runnerVars,
           uploadOutbox' = uploadOutbox
    PROVE  UploadsInv'
<1>1. /\ Files!TypeOK /\ HostSide(u) /\ ChunksCounted(u) /\ Intact(u)
      /\ "delete" \in Files!Op /\ Files!Op = {"begin", "chunk", "end", "abort", "delete"}
      /\ ops' = ops /\ stream' = stream /\ uploadFile' = uploadFile /\ cleaning' = cleaning
      /\ Files!Send(u, <<"delete">>)
  BY DEF UploadsInv, Files!Op, Files!runnerVars, Files!Fail
<1>2. /\ host'[u] = "failed" /\ entry'[u] = "none" /\ u \notin hostFile' /\ u \notin rows'
      /\ uploadSent'[u] = uploadSent[u] /\ OthersSame(u)
  BY <1>1 DEF Files!Fail, Files!TypeOK, OthersSame
<1>3. /\ CleanupDue' <=> CleanupDue
      /\ \/ torn' = torn /\ FileSent("delete", u)
         \/ torn' = torn \cup {u} /\ uploadToRunner' = uploadToRunner
  BY <1>1, FileSendFacts
<1>4. \A v \in Files!Upload \ {u} : OfUpload(v)'
  BY <1>1, <1>2, SendOthers
<1>5. HostSide(u)'
  BY <1>2 DEF HostSide
<1>6. ChunksCounted(u)'
  BY <1>1, <1>3, <1>2 DEF FileSent, Left, ChunksCounted
<1>7. ASSUME u \notin torn' PROVE OpsSent(u)' /\ FileWhole(u)' /\ ReportTrue(u)' /\ Removed(u)'
  BY <1>3, <1>7, <1>1, <1>2 DEF FileSent, Intact, OpsSent, Ordered, Before, FileWhole,
     ReportTrue, FileTold, Removed
<1> QED
  BY <1>3, <1>4, <1>5, <1>6, <1>7, OneUpload

\* The connection is known to be gone: nothing is sent.
LEMMA FailTorn ==
    ASSUME FileBounded, UploadsInv, Files!TypeOK', NEW u \in Files!Upload, NEW msgs,
             uploadLink # "up",
           Files!Fail(u, msgs), uploadSent' = uploadSent, session' = session,
               UNCHANGED Files!runnerVars,
           uploadOutbox' = uploadOutbox
    PROVE  UploadsInv'
<1>1. /\ Files!TypeOK /\ HostSide(u) /\ ChunksCounted(u)
      /\ ops' = ops /\ stream' = stream /\ uploadFile' = uploadFile /\ cleaning' = cleaning
      /\ uploadToRunner' = uploadToRunner /\ torn' = torn \cup {u}
  BY DEF UploadsInv, Files!runnerVars, Files!Fail, Files!Send
<1>2. /\ host'[u] = "failed" /\ entry'[u] = "none" /\ u \notin hostFile' /\ u \notin rows'
      /\ uploadSent'[u] = uploadSent[u] /\ OthersSame(u)
  BY <1>1 DEF Files!Fail, Files!TypeOK, OthersSame
<1>3. Kept /\ (CleanupDue' <=> CleanupDue)
  BY <1>1, SameKept DEF CleanupDue
<1>4. \A v \in Files!Upload \ {u} : OfUpload(v)'
  BY <1>1, <1>2, <1>3, KeptOthers DEF FileTold
<1>5. HostSide(u)'
  BY <1>2 DEF HostSide
<1>6. ChunksCounted(u)'
  BY <1>1, <1>2 DEF ChunksCounted, Left
<1> QED
  BY <1>1, <1>3, <1>4, <1>5, <1>6, OneUpload

\* A message is sent and the request goes on.
LEMMA SendKept ==
    ASSUME FileBounded, UploadsInv, Files!TypeOK', NEW u \in Files!Upload,
             NEW x \in {"begin", "chunk", "end"},
           Files!Send(u, <<x>>),
               UNCHANGED <<hostFile, rows, session, Files!runnerVars, uploadOutbox>>,
           OthersSame(u), HostSide(u)', entry'[u] # "ok" \/ entry' = entry, host'[u] # "ok",
           \/ x = "begin" /\ host[u] = "stored" /\ host'[u] = "streaming"
               /\ uploadSent'[u] = uploadSent[u]
           \/ x = "chunk" /\ host[u] = "streaming" /\ host'[u] = "streaming"
                /\ uploadSent'[u] = uploadSent[u] + 1
           \/ x = "end" /\ host[u] = "streaming" /\ host'[u] = "ended"
               /\ uploadSent'[u] = uploadSent[u]
                /\ uploadSent[u] = Chunks
    PROVE  UploadsInv'
<1>1. /\ Files!TypeOK /\ HostSide(u) /\ ChunksCounted(u) /\ Intact(u)
      /\ x \in Files!Op /\ Files!Op = {"begin", "chunk", "end", "abort", "delete"}
      /\ ops' = ops /\ stream' = stream /\ uploadFile' = uploadFile /\ cleaning' = cleaning
      /\ uploadOutbox' = uploadOutbox /\ session' = session
  BY DEF UploadsInv, Files!Op, Files!runnerVars
<1>2. /\ CleanupDue' <=> CleanupDue
      /\ \/ torn' = torn /\ FileSent(x, u)
         \/ torn' = torn \cup {u} /\ uploadToRunner' = uploadToRunner
  BY <1>1, FileSendFacts
<1>3. \A v \in Files!Upload \ {u} : OfUpload(v)'
  BY <1>1, SendOthers
<1>4. ChunksCounted(u)'
  BY <1>1, <1>2, UploadTypes DEF FileSent, Left, ChunksCounted
<1>5. ASSUME u \notin torn' PROVE OpsSent(u)' /\ FileWhole(u)' /\ ReportTrue(u)' /\ Removed(u)'
  <2>1. /\ \A y \in Files!Op : Has(u, y)' <=> Has(u, y) \/ y = x
        /\ \A y, z \in Files!Op : Then(u, y, z)' => Then(u, y, z) \/ (z = x /\ Has(u, y))
        /\ Left(u)' = IF x = "chunk" THEN Left(u) + 1 ELSE Left(u)
    BY <1>2, <1>5 DEF FileSent
  <2>2. OpsSent(u) /\ FileWhole(u) /\ ReportTrue(u) /\ Removed(u)
    BY <1>1, <1>2, <1>5 DEF Intact
  <2>3. Ordered(u)'
    BY <1>1, <2>1, <2>2 DEF OpsSent, Ordered, Before
  <2>4. OpsSent(u)'
    BY <1>1, <2>1, <2>2, <2>3, UploadTypes DEF OpsSent, HostSide
  <2>5. FileWhole(u)'
    BY <1>1, <2>1, <2>2, UploadTypes DEF FileWhole, OpsSent
  <2>6. ReportTrue(u)'
    BY <1>1, <2>1, <2>2 DEF ReportTrue, FileTold
  <2>7. Removed(u)'
    BY <1>1, <2>1 DEF Removed
  <2> QED
    BY <2>4, <2>5, <2>6, <2>7
<1> QED
  BY <1>1, <1>2, <1>3, <1>4, <1>5, OneUpload

LEMMA StoreKept ==
    ASSUME FileBounded, UploadsInv, Files!TypeOK', NEW u \in Files!Upload, Files!Store(u)
    PROVE  UploadsInv'
<1>1. CASE Files!Fail(u, <<"delete">>)
  BY <1>1, FailKept DEF Files!Store
<1>2. CASE /\ host' = [host EXCEPT ![u] = "stored"] /\ hostFile' = hostFile \cup {u}
           /\ UNCHANGED <<entry, rows, uploadToRunner, torn>>
  <2>1. /\ Files!TypeOK /\ HostSide(u) /\ ChunksCounted(u) /\ Intact(u) /\ session
        /\ Files!Op = {"begin", "chunk", "end", "abort", "delete"}
    BY DEF UploadsInv, Files!Op, Files!Store
  <2>2. /\ host[u] = "none" /\ host'[u] = "stored" /\ u \in hostFile'
        /\ UNCHANGED <<entry, rows, uploadToRunner, torn, uploadSent, session, ops, stream,
            uploadFile, cleaning,
                       uploadOutbox>>
    BY <1>2, <2>1 DEF Files!Store, Files!TypeOK, Files!runnerVars
  <2>3. OthersSame(u)
    BY <1>2, <2>1, <2>2 DEF OthersSame, Files!TypeOK
  <2>4. Kept /\ (CleanupDue' <=> CleanupDue)
    BY <2>1, <2>2, SameKept DEF CleanupDue
  <2>5. \A v \in Files!Upload \ {u} : OfUpload(v)'
    BY <2>2, <2>3, <2>4, KeptOthers DEF FileTold
  <2>6. HostSide(u)'
    BY <2>1, <2>2 DEF HostSide
  <2>7. ChunksCounted(u)'
    BY <2>1, <2>2 DEF ChunksCounted, Left
  <2>8. ASSUME u \notin torn' PROVE OpsSent(u)' /\ FileWhole(u)' /\ ReportTrue(u)' /\ Removed(u)'
    BY <2>4, <2>8, <2>1, <2>2 DEF Kept, Intact, OpsSent, Ordered, FileWhole, ReportTrue,
       FileTold, HostSide, Removed
  <2> QED
    BY <2>2, <2>4, <2>5, <2>6, <2>7, <2>8, OneUpload
<1> QED
  BY <1>1, <1>2 DEF Files!Store

LEMMA BeginKept ==
    ASSUME FileBounded, UploadsInv, Files!TypeOK', NEW u \in Files!Upload, Files!Begin(u)
    PROVE  UploadsInv'
<1>1. CASE uploadLink = "down"
  BY <1>1, FailTorn DEF Files!Begin
<1>2. CASE uploadLink # "down"
  <2>1. /\ Files!Send(u, <<"begin">>)
            /\ UNCHANGED <<hostFile, rows, session, Files!runnerVars, uploadOutbox>>
        /\ host[u] = "stored" /\ host'[u] = "streaming" /\ uploadSent'[u] = uploadSent[u]
        /\ entry'[u] = "pending" /\ OthersSame(u)
    BY <1>2 DEF Files!Begin, UploadsInv, Files!TypeOK, OthersSame, Files!runnerVars
  <2>2. HostSide(u)'
    BY <2>1 DEF UploadsInv, HostSide
  <2> QED
    BY <2>1, <2>2, SendKept
<1> QED
  BY <1>1, <1>2

LEMMA SendChunkKept ==
    ASSUME FileBounded, UploadsInv, Files!TypeOK', NEW u \in Files!Upload, Files!SendChunk(u)
    PROVE  UploadsInv'
<1>1. CASE uploadLink = "down"
  BY <1>1, FailTorn DEF Files!SendChunk
<1>2. CASE uploadLink # "down"
  <2>1. /\ Files!Send(u, <<"chunk">>)
            /\ UNCHANGED <<hostFile, rows, session, Files!runnerVars, uploadOutbox>>
        /\ host[u] = "streaming" /\ host'[u] = "streaming" /\ uploadSent'[u] = uploadSent[u] + 1
        /\ entry' = entry /\ OthersSame(u)
    BY <1>2 DEF Files!SendChunk, UploadsInv, Files!TypeOK, OthersSame, Files!runnerVars
  <2>2. HostSide(u)'
    BY <2>1 DEF UploadsInv, HostSide
  <2> QED
    BY <2>1, <2>2, SendKept
<1> QED
  BY <1>1, <1>2

LEMMA SendEndKept ==
    ASSUME FileBounded, UploadsInv, Files!TypeOK', NEW u \in Files!Upload, Files!SendEnd(u)
    PROVE  UploadsInv'
<1>1. CASE uploadLink = "down"
  BY <1>1, FailTorn DEF Files!SendEnd
<1>2. CASE uploadLink # "down"
  <2>1. /\ Files!Send(u, <<"end">>)
            /\ UNCHANGED <<hostFile, rows, session, Files!runnerVars, uploadOutbox>>
        /\ host[u] = "streaming" /\ host'[u] = "ended" /\ uploadSent'[u] = uploadSent[u]
        /\ uploadSent[u] = Chunks /\ entry' = entry /\ OthersSame(u)
    BY <1>2 DEF Files!SendEnd, UploadsInv, Files!TypeOK, OthersSame, Files!runnerVars
  <2>2. HostSide(u)'
    BY <2>1 DEF UploadsInv, HostSide
  <2> QED
    BY <2>1, <2>2, SendKept
<1> QED
  BY <1>1, <1>2

\* Nothing is sent, received or done.
LEMMA StillFacts ==
    ASSUME FileBounded, Files!TypeOK, UNCHANGED <<uploadToRunner, ops, cleaning>>
    PROVE  /\ Kept /\ (CleanupDue' <=> CleanupDue)
           /\ \A u \in Files!Upload :
                /\ Left(u)' = Left(u)
                /\ \A y \in Files!Op : Has(u, y)' <=> Has(u, y)
                /\ \A y, z \in Files!Op : Then(u, y, z)' => Then(u, y, z)
<1>1. Kept
  BY SameKept
<1>2. CleanupDue' <=> CleanupDue
  BY DEF CleanupDue
<1> QED
  BY <1>1, <1>2 DEF Left, Has, Then

LEMMA FinishKept ==
    ASSUME FileBounded, UploadsInv, Files!TypeOK', NEW u \in Files!Upload, Files!Finish(u)
    PROVE  UploadsInv'
<1>1. CASE ~(entry[u] = "ok" /\ session)
  BY <1>1, FailKept DEF Files!Finish
<1>2. CASE entry[u] = "ok" /\ session
  <2>1. /\ Files!TypeOK /\ HostSide(u) /\ ChunksCounted(u) /\ Intact(u) /\ session
        /\ Files!Op = {"begin", "chunk", "end", "abort", "delete"}
    BY <1>2 DEF UploadsInv, Files!Op
  <2>2. /\ host[u] = "ended" /\ host'[u] = "ok" /\ u \in rows' /\ entry'[u] = "none"
        /\ UNCHANGED <<hostFile, uploadToRunner, torn, uploadSent, session, ops, stream,
            uploadFile, cleaning,
                       uploadOutbox>>
    BY <1>2, <2>1 DEF Files!Finish, Files!TypeOK, Files!runnerVars
  <2>3. OthersSame(u)
    BY <1>2, <2>1, <2>2 DEF Files!Finish, OthersSame, Files!TypeOK
  <2>4. /\ Kept /\ (CleanupDue' <=> CleanupDue) /\ Left(u)' = Left(u)
        /\ \A y \in Files!Op : Has(u, y)' <=> Has(u, y)
        /\ \A y, z \in Files!Op : Then(u, y, z)' => Then(u, y, z)
    BY <2>1, <2>2, StillFacts
  <2>5. \A v \in Files!Upload \ {u} : OfUpload(v)'
    BY <2>2, <2>3, <2>4, KeptOthers DEF FileTold
  <2>6. HostSide(u)'
    BY <2>1, <2>2 DEF HostSide
  <2>7. ChunksCounted(u)'
    BY <2>1, <2>2, <2>4 DEF ChunksCounted
  <2>8. ASSUME u \notin torn' PROVE OpsSent(u)' /\ FileWhole(u)' /\ ReportTrue(u)' /\ Removed(u)'
    BY <2>1, <2>2, <2>8, <2>4, <1>2 DEF Intact, OpsSent, Ordered, FileWhole, ReportTrue,
       FileTold, Removed
  <2> QED
    BY <2>2, <2>4, <2>5, <2>6, <2>7, <2>8, OneUpload
<1> QED
  BY <1>1, <1>2

LEMMA DiscardKept ==
    ASSUME FileBounded, UploadsInv, Files!TypeOK', NEW u \in Files!Upload, Files!Discard(u)
    PROVE  UploadsInv'
<1>1. /\ host[u] \notin {"streaming", "failed"} /\ uploadSent' = uploadSent /\ session' = session
      /\ UNCHANGED Files!runnerVars /\ uploadOutbox' = uploadOutbox /\ Files!Fail(u, <<"delete">>)
  BY DEF Files!Discard
<1> QED
  BY <1>1, FailKept

LEMMA DeleteSessionKept ==
    ASSUME FileBounded, UploadsInv, Files!TypeOK', Files!DeleteSession
    PROVE  UploadsInv'
<1>1. /\ Files!TypeOK /\ session /\ session' = FALSE /\ rows' = {} /\ hostFile' = hostFile \ rows
      /\ Files!Op = {"begin", "chunk", "end", "abort", "delete"} /\ 1 \in Files!Upload
      /\ UNCHANGED <<host, uploadSent, entry, ops, stream, uploadFile, cleaning, uploadOutbox>>
  BY DEF UploadsInv, Files!Op, Files!DeleteSession, Files!runnerVars, Files!Upload, FileBounded
<1>2. /\ \A v \in Files!Upload :
           /\ Left(v)' = Left(v) /\ \A y \in Files!Op : Has(v, y)' <=> Has(v, y)
           /\ \A y, z \in Files!Op : Then(v, y, z)' => Then(v, y, z)
      /\ (CleanupDue' /\ torn' = torn) \/ torn' = Files!Upload
  BY <1>1, SentFacts, StillFacts DEF Files!DeleteSession, FileSent
<1>3. ASSUME NEW v \in Files!Upload PROVE OfUpload(v)'
  <2>1. HostSide(v) /\ ChunksCounted(v) /\ Intact(v)
    BY DEF UploadsInv
  <2>2. HostSide(v)'
    BY <1>1, <2>1 DEF HostSide
  <2>3. ChunksCounted(v)'
    BY <1>1, <1>2, <2>1 DEF ChunksCounted
  <2>4. ASSUME v \notin torn' PROVE OpsSent(v)' /\ FileWhole(v)' /\ ReportTrue(v)' /\ Removed(v)'
    BY <1>2, <2>1, <2>4, <1>1 DEF Intact, OpsSent, Ordered, FileWhole, ReportTrue, FileTold,
       Removed
  <2> QED
    BY <2>2, <2>3, <2>4 DEF OfUpload, Intact
<1> QED
  BY <1>1, <1>3 DEF UploadsInv, OfUpload

\* The entry of u is settled.
LEMMA SettledKept ==
    ASSUME FileBounded, UploadsInv, Files!TypeOK', NEW u \in Files!Upload,
             NEW r \in {"ok", "failed"},
           entry' = Files!Settled(u, r), r = "ok" /\ u \notin torn => FileTold(u),
           UNCHANGED <<session, host, uploadSent, hostFile, rows, uploadToRunner, Files!runnerVars,
               torn>>,
           \A v \in Files!Upload : FileTold(v)' => FileTold(v)
    PROVE  UploadsInv'
<1>1. /\ Files!TypeOK /\ UNCHANGED <<ops, stream, uploadFile, cleaning>>
      /\ Files!Op = {"begin", "chunk", "end", "abort", "delete"}
  BY DEF UploadsInv, Files!Op, Files!runnerVars
<1>2. /\ CleanupDue' <=> CleanupDue
      /\ \A v \in Files!Upload :
           /\ Left(v)' = Left(v) /\ \A y \in Files!Op : Has(v, y)' <=> Has(v, y)
           /\ \A y, z \in Files!Op : Then(v, y, z)' => Then(v, y, z)
  BY <1>1, StillFacts
<1>3. ASSUME NEW v \in Files!Upload PROVE OfUpload(v)'
  <2>1. HostSide(v) /\ ChunksCounted(v) /\ Intact(v)
    BY DEF UploadsInv
  <2>2. entry'[v] = entry[v] \/ (v = u /\ entry[v] = "pending" /\ entry'[v] = r)
    BY <1>1 DEF Files!Settled, Files!TypeOK
  <2>3. HostSide(v)'
    BY <1>1, <2>1, <2>2 DEF HostSide
  <2>4. ChunksCounted(v)'
    BY <1>1, <1>2, <2>1 DEF ChunksCounted
  <2>5. ASSUME v \notin torn' PROVE OpsSent(v)' /\ FileWhole(v)' /\ ReportTrue(v)' /\ Removed(v)'
    BY <1>2, <2>1, <2>5, <1>1, <2>2 DEF Intact, OpsSent, Ordered, FileWhole, ReportTrue,
       Removed
  <2> QED
    BY <2>3, <2>4, <2>5 DEF OfUpload, Intact
<1>4. (CleanupDue => ~session)'
  BY <1>2 DEF UploadsInv
<1> QED
  BY <1>3, <1>4 DEF UploadsInv, OfUpload

LEMMA ReportedKept ==
    ASSUME FileBounded, UploadsInv, Files!TypeOK', Files!Reported
    PROVE  UploadsInv'
<1>1. /\ uploadOutbox \in Seq({"uploaded", "failed"} \X Files!Upload) /\ uploadOutbox # <<>>
      /\ uploadOutbox' = Tail(uploadOutbox)
          /\ Head(uploadOutbox) \in {"uploaded", "failed"} \X Files!Upload
  BY PathTypes, TailSteps DEF Files!Reported, UploadsInv
<1>2. PICK x \in {"uploaded", "failed"}, u \in Files!Upload : Head(uploadOutbox) = <<x, u>>
  BY <1>1
<1>3. \A m : Occurs(uploadOutbox, m) <=> Occurs(uploadOutbox', m) \/ m = <<x, u>>
  BY <1>1, <1>2, OccursTail
<1>4. /\ \A v \in Files!Upload : FileTold(v)' => FileTold(v)
      /\ x = "uploaded" => FileTold(u)
  BY <1>3 DEF FileTold
<1>5. entry' = Files!Settled(u, IF x = "uploaded" THEN "ok" ELSE "failed")
  BY <1>2 DEF Files!Reported
<1>6. UNCHANGED <<session, host, uploadSent, hostFile, rows, uploadToRunner, Files!runnerVars,
        torn>>
  BY DEF Files!Reported
<1> DEFINE r == IF x = "uploaded" THEN "ok" ELSE "failed"
<1>7. r \in {"ok", "failed"} /\ entry' = Files!Settled(u, r) /\ (r = "ok" => x = "uploaded")
  BY <1>2, <1>5
<1> HIDE DEF r
<1> QED
  BY <1>4, <1>6, <1>7, SettledKept

LEMMA TimesOutKept ==
    ASSUME FileBounded, UploadsInv, Files!TypeOK', NEW u \in Files!Upload, Files!TimesOut(u)
    PROVE  UploadsInv'
<1>1. /\ entry' = Files!Settled(u, "failed")
      /\ UNCHANGED <<session, host, uploadSent, hostFile, rows, uploadToRunner, Files!runnerVars,
          torn>>
      /\ \A v \in Files!Upload : FileTold(v)' => FileTold(v)
  BY DEF Files!TimesOut, FileTold
<1> QED
  BY <1>1, SettledKept

LEMMA BreakKept ==
    ASSUME FileBounded, UploadsInv, Files!TypeOK', Files!Break
    PROVE  UploadsInv'
<1>1. /\ Files!TypeOK /\ uploadToRunner' = <<>>
      /\ UNCHANGED <<Files!hostVars, Files!runnerVars, uploadOutbox, session, host, uploadSent,
          entry, hostFile, rows,
                     ops, stream, uploadFile, cleaning>>
  BY DEF UploadsInv, Files!Break, Files!hostVars, Files!runnerVars
<1>2. torn \subseteq torn'
  BY <1>1 DEF Files!Break, Files!TypeOK
<1>3. ASSUME NEW v \in Files!Upload \ torn'
      PROVE  /\ \A x : ~Occurs(uploadToRunner, <<x, v>>)
             /\ \A w \in Files!Upload : ~Occurs(uploadToRunner, <<"cleanup", w>>)
  BY <1>3 DEF Files!Break, Occurs
<1>4. Kept
  BY <1>1, <1>3, LostKept
<1>5. /\ CleanupDue' => CleanupDue
      /\ torn' # Files!Upload => (CleanupDue' <=> CleanupDue)
  BY <1>1, OccursEmpty, <1>3 DEF Files!TypeOK, CleanupDue
<1>6. ASSUME NEW v \in Files!Upload PROVE OfUpload(v)'
  BY <1>1, <1>2, <1>4, <1>5, Elsewhere DEF UploadsInv, OfUpload, FileUntouched, Kept, FileTold
<1>7. (CleanupDue => ~session)'
  BY <1>1, <1>5 DEF UploadsInv
<1> QED
  BY <1>6, <1>7 DEF UploadsInv, OfUpload

LEMMA DisconnectKept ==
    ASSUME FileBounded, UploadsInv, Files!TypeOK', Files!Disconnect
    PROVE  UploadsInv'
<1>1. /\ Files!TypeOK
      /\ UNCHANGED <<session, host, uploadSent, hostFile, rows, uploadToRunner, ops, stream,
          uploadFile, cleaning,
                     uploadOutbox, torn>>
      /\ Files!Op = {"begin", "chunk", "end", "abort", "delete"}
  BY DEF UploadsInv, Files!Op, Files!Disconnect, Files!runnerVars
<1>2. /\ CleanupDue' <=> CleanupDue
      /\ \A v \in Files!Upload :
           /\ Left(v)' = Left(v) /\ \A y \in Files!Op : Has(v, y)' <=> Has(v, y)
           /\ \A y, z \in Files!Op : Then(v, y, z)' => Then(v, y, z)
  BY <1>1, StillFacts
<1>3. ASSUME NEW v \in Files!Upload PROVE OfUpload(v)'
  <2>1. HostSide(v) /\ ChunksCounted(v) /\ Intact(v)
    BY DEF UploadsInv
  <2>2. entry'[v] = entry[v] \/ (entry[v] = "pending" /\ entry'[v] = "failed")
    BY <1>1 DEF Files!Disconnect, Files!Settled, Files!TypeOK
  <2>3. HostSide(v)'
    BY <1>1, <2>1, <2>2 DEF HostSide
  <2>4. ChunksCounted(v)'
    BY <1>1, <1>2, <2>1 DEF ChunksCounted
  <2>5. ASSUME v \notin torn' PROVE OpsSent(v)' /\ FileWhole(v)' /\ ReportTrue(v)' /\ Removed(v)'
    BY <1>1, <2>1, <2>5, <1>2, <2>2 DEF Intact, OpsSent, Ordered, FileWhole, ReportTrue,
       FileTold, Removed
  <2> QED
    BY <2>3, <2>4, <2>5 DEF OfUpload, Intact
<1>4. (CleanupDue => ~session)'
  BY <1>1, <1>2 DEF UploadsInv
<1> QED
  BY <1>3, <1>4 DEF UploadsInv, OfUpload

\* A step that none of the invariant's parts speaks of.
LEMMA QuietKept ==
    ASSUME FileBounded, UploadsInv, Files!TypeOK', Kept, CleanupDue' <=> CleanupDue,
           UNCHANGED <<session, host, uploadSent, entry, hostFile, rows, stream, uploadFile,
               uploadOutbox, torn>>
    PROVE  UploadsInv'
<1>1. ASSUME NEW v \in Files!Upload PROVE OfUpload(v)'
  BY Elsewhere DEF UploadsInv, OfUpload, FileUntouched, Kept, FileTold
<1>2. (CleanupDue => ~session)'
  BY DEF UploadsInv
<1> QED
  BY <1>1, <1>2 DEF UploadsInv, OfUpload

\* Reports after one more.
LEMMA FileReportFacts ==
    ASSUME Files!TypeOK, NEW u \in Files!Upload, NEW x \in {"uploaded", "failed"},
             Files!Report(x, u)
    PROVE  /\ \A v \in Files!Upload \ {u} : FileTold(v)' <=> FileTold(v)
           /\ FileTold(u)' <=> FileTold(u) \/ x = "uploaded"
<1>1. <<x, u>> \in {"uploaded", "failed"} \X Files!Upload
      /\ uploadOutbox \in Seq({"uploaded", "failed"} \X Files!Upload)
          /\ uploadOutbox' = Append(uploadOutbox, <<x, u>>)
  BY DEF Files!Report, Files!TypeOK
<1>2. \A m : Occurs(uploadOutbox', m) <=> Occurs(uploadOutbox, m) \/ m = <<x, u>>
  BY <1>1, OccursAppend
<1> QED
  BY <1>2 DEF FileTold

\* What an operation x on u leaves as it was.
LEMMA DoFacts ==
    ASSUME FileBounded, UploadsInv, NEW u \in Files!Upload, NEW x \in Files!Op, Files!Doing(u, x)
    PROVE  /\ Files!TypeOK /\ HostSide(u) /\ ChunksCounted(u) /\ Intact(u)
           /\ Files!Op = {"begin", "chunk", "end", "abort", "delete"}
           /\ UNCHANGED <<session, host, uploadSent, entry, hostFile, rows, torn>>
           /\ Done(u, x) /\ Has(u, x) /\ Left(u) \in Nat /\ Left(u)' \in Nat
           /\ Left(u)' <= Left(u) /\ (CleanupDue' <=> CleanupDue)
           /\ HostSide(u)'
           /\ u \notin torn =>
                /\ OpsSent(u) /\ FileWhole(u) /\ ReportTrue(u) /\ Removed(u) /\ OpsSent(u)'
                /\ \A y \in Files!Op : Has(u, y) /\ y # x => Has(u, y)' /\ Before(x, y)
                /\ \A y \in Files!Op : Has(u, y)' => Has(u, y) /\ Before(x, y)
<1>1. /\ Files!TypeOK /\ HostSide(u) /\ ChunksCounted(u) /\ Intact(u)
      /\ Files!Op = {"begin", "chunk", "end", "abort", "delete"}
      /\ UNCHANGED <<session, host, uploadSent, entry, hostFile, rows, torn>>
  BY DEF UploadsInv, Files!Op, Files!Doing, Files!hostVars
<1>2. Done(u, x)
  BY <1>1, DoneFacts
<1>3. /\ Has(u, x) /\ Left(u) \in Nat /\ Left(u)' \in Nat /\ Left(u)' <= Left(u)
      /\ (CleanupDue' <=> CleanupDue)
  BY <1>1, <1>2, PathTypes DEF Done
<1>4. HostSide(u)'
  BY <1>1 DEF HostSide
<1>5. ASSUME u \notin torn
      PROVE  /\ OpsSent(u) /\ FileWhole(u) /\ ReportTrue(u) /\ Removed(u) /\ OpsSent(u)'
             /\ \A y \in Files!Op : Has(u, y) /\ y # x => Has(u, y)' /\ Before(x, y)
             /\ \A y \in Files!Op : Has(u, y)' => Has(u, y) /\ Before(x, y)
  BY <1>1, <1>5, <1>2 DEF Intact, OpsSent, Done, Ordered, Before
<1> QED
  BY <1>1, <1>2, <1>3, <1>4, <1>5

\* The runner gives up on u.
LEMMA CloseKept ==
    ASSUME FileBounded, UploadsInv, Files!TypeOK', NEW u \in Files!Upload,
             NEW x \in {"begin", "chunk", "end", "abort"},
           Files!Doing(u, x), Files!CloseStream(u), Files!Report("failed", u)
               \/ uploadOutbox' = uploadOutbox
    PROVE  UploadsInv'
<1>1. x \in Files!Op
  BY DEF Files!Op
<1>2. /\ Files!TypeOK /\ ChunksCounted(u) /\ Files!Op = {"begin", "chunk", "end", "abort", "delete"}
      /\ UNCHANGED <<session, host, uploadSent, entry, hostFile, rows, torn>>
      /\ Done(u, x) /\ Has(u, x) /\ Left(u) \in Nat /\ Left(u)' \in Nat
      /\ Left(u)' <= Left(u) /\ (CleanupDue' <=> CleanupDue) /\ HostSide(u)'
  BY <1>1, DoFacts
<1>3. u \notin torn =>
        /\ OpsSent(u) /\ FileWhole(u) /\ ReportTrue(u) /\ Removed(u) /\ OpsSent(u)'
        /\ \A y \in Files!Op : Has(u, y) /\ y # x => Has(u, y)' /\ Before(x, y)
        /\ \A y \in Files!Op : Has(u, y)' => Has(u, y) /\ Before(x, y)
  BY <1>1, DoFacts
<1>4. \A v \in Files!Upload : FileTold(v)' <=> FileTold(v)
  BY <1>2, FileReportFacts DEF FileTold
<1>5. /\ u \notin stream' /\ uploadFile'[u] \in {None, uploadFile[u]}
          /\ (u \in stream => uploadFile'[u] = None)
      /\ OthersSame(u)
  BY <1>2 DEF Files!CloseStream, Files!TypeOK, OthersSame
<1>6. \A v \in Files!Upload \ {u} : OfUpload(v)'
  BY <1>1, <1>2, <1>4, <1>5, DoneOthers
<1>7. ChunksCounted(u)'
  BY <1>2, <1>5, UploadTypes DEF ChunksCounted
<1>8. ASSUME u \notin torn' PROVE FileWhole(u)' /\ ReportTrue(u)' /\ Removed(u)'
  BY <1>2, <1>8, <1>3, <1>5, <1>4 DEF FileWhole, OpsSent, ReportTrue, Removed
<1> QED
  BY <1>2, <1>3, <1>6, <1>7, <1>8, OneUpload

LEMMA DoBeginKept ==
    ASSUME FileBounded, UploadsInv, Files!TypeOK', NEW u \in Files!Upload, Files!DoBegin(u)
    PROVE  UploadsInv'
<1>1. CASE Files!CloseStream(u) /\ Files!Report("failed", u)
  BY <1>1, CloseKept DEF Files!DoBegin
<1>2. CASE /\ stream' = stream \cup {u} /\ uploadFile' = [uploadFile EXCEPT ![u] = 0]
               /\ UNCHANGED uploadOutbox
  <2>1. "begin" \in Files!Op /\ Files!Doing(u, "begin")
    BY DEF Files!Op, Files!DoBegin
  <2>2. /\ Files!TypeOK /\ ChunksCounted(u)
            /\ Files!Op = {"begin", "chunk", "end", "abort", "delete"}
        /\ UNCHANGED <<session, host, uploadSent, entry, hostFile, rows, torn>>
        /\ Done(u, "begin") /\ Has(u, "begin") /\ Left(u)' = Left(u)
        /\ (CleanupDue' <=> CleanupDue) /\ HostSide(u)'
    BY <2>1, DoFacts DEF Done
  <2>3. u \notin torn =>
          /\ OpsSent(u) /\ FileWhole(u) /\ ReportTrue(u) /\ Removed(u) /\ OpsSent(u)'
          /\ \A y \in Files!Op : Has(u, y) /\ y # "begin" => Has(u, y)'
          /\ \A y \in Files!Op : Has(u, y)' => Before("begin", y)
    BY <2>1, DoFacts
  <2>4. /\ u \in stream' /\ uploadFile'[u] = 0 /\ OthersSame(u) /\ 0 # None
        /\ \A v \in Files!Upload : FileTold(v)' <=> FileTold(v)
    BY <1>2, <2>2 DEF Files!TypeOK, OthersSame, FileTold, FileBounded
  <2>5. \A v \in Files!Upload \ {u} : OfUpload(v)'
    BY <2>1, <2>2, <2>4, DoneOthers
  <2>6. ChunksCounted(u)'
    BY <2>2, <2>4, UploadTypes DEF ChunksCounted
  <2>7. ASSUME u \notin torn' PROVE FileWhole(u)' /\ ReportTrue(u)' /\ Removed(u)'
    BY <2>2, <2>7, <2>3, <2>4, UploadTypes DEF Before, OpsSent, FileWhole, ReportTrue, Removed
  <2> QED
    BY <2>2, <2>3, <2>5, <2>6, <2>7, OneUpload
<1> QED
  BY <1>1, <1>2 DEF Files!DoBegin

LEMMA DoChunkKept ==
    ASSUME FileBounded, UploadsInv, Files!TypeOK', NEW u \in Files!Upload, Files!DoChunk(u)
    PROVE  UploadsInv'
<1>1. CASE Files!CloseStream(u) /\ Files!Report("failed", u)
  BY <1>1, CloseKept DEF Files!DoChunk
<1>2. CASE /\ u \in stream /\ UNCHANGED <<stream, uploadOutbox>>
           /\ uploadFile' = [uploadFile EXCEPT ![u] = IF @ = None THEN None ELSE @ + 1]
  <2>1. "chunk" \in Files!Op /\ Files!Doing(u, "chunk")
    BY DEF Files!Op, Files!DoChunk
  <2>2. /\ Files!TypeOK /\ ChunksCounted(u)
            /\ Files!Op = {"begin", "chunk", "end", "abort", "delete"}
        /\ UNCHANGED <<session, host, uploadSent, entry, hostFile, rows, torn>>
        /\ Done(u, "chunk") /\ Has(u, "chunk") /\ Left(u) = Left(u)' + 1
        /\ Left(u)' \in Nat /\ (CleanupDue' <=> CleanupDue) /\ HostSide(u)'
    BY <2>1, DoFacts DEF Done
  <2>3. u \notin torn =>
          /\ OpsSent(u) /\ FileWhole(u) /\ ReportTrue(u) /\ Removed(u) /\ OpsSent(u)'
          /\ \A y \in Files!Op : Has(u, y) /\ y # "chunk" => Has(u, y)'
          /\ \A y \in Files!Op : Has(u, y)' => Before("chunk", y)
    BY <2>1, DoFacts
  <2>4. /\ u \in stream /\ u \in stream' /\ OthersSame(u)
        /\ \/ uploadFile[u] = None /\ uploadFile'[u] = None
           \/ uploadFile[u] \in Nat /\ uploadFile[u] # None
               /\ uploadFile'[u] = uploadFile[u] + 1 /\ uploadFile'[u] # None
        /\ \A v \in Files!Upload : FileTold(v)' <=> FileTold(v)
    BY <1>2, <2>2 DEF Files!TypeOK, OthersSame, FileTold, FileBounded
  <2>5. \A v \in Files!Upload \ {u} : OfUpload(v)'
    BY <2>1, <2>2, <2>4, DoneOthers
  <2>6. ChunksCounted(u)'
    BY <2>2, <2>4, UploadTypes DEF ChunksCounted
  <2>7. ASSUME u \notin torn' PROVE FileWhole(u)' /\ ReportTrue(u)' /\ Removed(u)'
    BY <2>2, <2>7, <2>3, <2>4 DEF Before, FileWhole, ReportTrue, Removed, OpsSent
  <2> QED
    BY <2>2, <2>3, <2>5, <2>6, <2>7, OneUpload
<1> QED
  BY <1>1, <1>2 DEF Files!DoChunk

LEMMA DoEndKept ==
    ASSUME FileBounded, UploadsInv, Files!TypeOK', NEW u \in Files!Upload, Files!DoEnd(u)
    PROVE  UploadsInv'
<1>1. CASE Files!CloseStream(u) /\ Files!Report("failed", u)
  BY <1>1, CloseKept DEF Files!DoEnd
<1>2. CASE u \in stream /\ stream' = stream \ {u} /\ Files!Report("uploaded", u)
        /\ UNCHANGED uploadFile
  <2>1. "end" \in Files!Op /\ Files!Doing(u, "end")
    BY DEF Files!Op, Files!DoEnd
  <2>2. /\ Files!TypeOK /\ ChunksCounted(u)
            /\ Files!Op = {"begin", "chunk", "end", "abort", "delete"}
        /\ UNCHANGED <<session, host, uploadSent, entry, hostFile, rows, torn>>
        /\ Done(u, "end") /\ Has(u, "end") /\ Left(u) = Left(u)'
        /\ Left(u)' \in Nat /\ (CleanupDue' <=> CleanupDue) /\ HostSide(u)'
    BY <2>1, DoFacts DEF Done
  <2>3. u \notin torn =>
          /\ OpsSent(u) /\ FileWhole(u) /\ ReportTrue(u) /\ Removed(u) /\ OpsSent(u)'
          /\ \A y \in Files!Op : Has(u, y) /\ y # "end" => Has(u, y)' /\ Before("end", y)
          /\ \A y \in Files!Op : Has(u, y)' => Before("end", y)
    BY <2>1, DoFacts
  <2>4. /\ u \in stream /\ u \notin stream' /\ OthersSame(u) /\ uploadFile' = uploadFile
        /\ \A v \in Files!Upload \ {u} : FileTold(v)' <=> FileTold(v)
    BY <1>2, <2>2, FileReportFacts DEF OthersSame
  <2>5. \A v \in Files!Upload \ {u} : OfUpload(v)'
    BY <2>1, <2>2, <2>4, DoneOthers
  <2>6. ChunksCounted(u)'
    BY <2>2, <2>4 DEF ChunksCounted
  <2>7. ASSUME u \notin torn' PROVE FileWhole(u)' /\ ReportTrue(u)' /\ Removed(u)'
    BY <2>2, <2>7, <2>3, <2>4, UploadTypes DEF Before, FileWhole, OpsSent, Files!TypeOK,
       ReportTrue, Removed
  <2> QED
    BY <2>2, <2>3, <2>5, <2>6, <2>7, OneUpload
<1> QED
  BY <1>1, <1>2 DEF Files!DoEnd

LEMMA DoDeleteKept ==
    ASSUME FileBounded, UploadsInv, Files!TypeOK', NEW u \in Files!Upload, Files!DoDelete(u)
    PROVE  UploadsInv'
<1>1. /\ "delete" \in Files!Op /\ Files!Doing(u, "delete")
      /\ uploadFile' = [uploadFile EXCEPT ![u] = None] /\ UNCHANGED <<stream, uploadOutbox>>
  BY DEF Files!Op, Files!DoDelete
<1>2. /\ Files!TypeOK /\ ChunksCounted(u) /\ Files!Op = {"begin", "chunk", "end", "abort", "delete"}
      /\ UNCHANGED <<session, host, uploadSent, entry, hostFile, rows, torn>>
      /\ Done(u, "delete") /\ Has(u, "delete") /\ Left(u)' <= Left(u) /\ Left(u) \in Nat
      /\ Left(u)' \in Nat /\ (CleanupDue' <=> CleanupDue) /\ HostSide(u)'
  BY <1>1, DoFacts
<1>3. u \notin torn =>
        /\ OpsSent(u) /\ FileWhole(u) /\ ReportTrue(u) /\ Removed(u) /\ OpsSent(u)'
        /\ \A y \in Files!Op : Has(u, y) /\ y # "delete" => Has(u, y)' /\ Before("delete", y)
        /\ \A y \in Files!Op : Has(u, y)' => Has(u, y) /\ Before("delete", y)
  BY <1>1, DoFacts
<1>4. /\ stream' = stream /\ OthersSame(u) /\ uploadFile'[u] = None
      /\ \A v \in Files!Upload : FileTold(v)' <=> FileTold(v)
  BY <1>1, <1>2 DEF OthersSame, Files!TypeOK, FileTold
<1>5. \A v \in Files!Upload \ {u} : OfUpload(v)'
  BY <1>1, <1>2, <1>4, DoneOthers
<1>6. ChunksCounted(u)'
  BY <1>2, <1>4, UploadTypes DEF ChunksCounted
<1>7. ASSUME u \notin torn' PROVE FileWhole(u)' /\ ReportTrue(u)' /\ Removed(u)'
  BY <1>2, <1>7, <1>3, <1>4 DEF OpsSent, Before, FileWhole, ReportTrue, Removed
<1> QED
  BY <1>2, <1>3, <1>5, <1>6, <1>7, OneUpload

LEMMA CleanupSessionKept ==
    ASSUME FileBounded, UploadsInv, Files!TypeOK', Files!CleanupSession
    PROVE  UploadsInv'
<1>1. /\ Files!TypeOK /\ cleaning /\ ~cleaning' /\ stream' = {}
          /\ uploadFile' = [u \in Files!Upload |-> None]
      /\ UNCHANGED <<session, host, uploadSent, entry, hostFile, rows, uploadToRunner, ops,
          uploadOutbox, torn>>
      /\ ~session /\ Files!Op = {"begin", "chunk", "end", "abort", "delete"}
  BY DEF UploadsInv, Files!CleanupSession, Files!hostVars, CleanupDue, Files!Op
<1>2. \A v \in Files!Upload :
        /\ Left(v)' = Left(v) /\ \A y \in Files!Op : Has(v, y)' <=> Has(v, y)
        /\ \A y, z \in Files!Op : Then(v, y, z)' => Then(v, y, z)
  BY <1>1 DEF Left, Has, Then
<1>3. ASSUME NEW v \in Files!Upload PROVE OfUpload(v)'
  <2>1. HostSide(v) /\ ChunksCounted(v) /\ Intact(v)
    BY DEF UploadsInv
  <2>2. HostSide(v)' /\ ChunksCounted(v)'
    BY <1>1, <1>2, <2>1 DEF HostSide, ChunksCounted
  <2>3. ASSUME v \notin torn' PROVE OpsSent(v)' /\ FileWhole(v)' /\ ReportTrue(v)' /\ Removed(v)'
    BY <1>1, <2>1, <2>3, <1>2 DEF Intact, OpsSent, Ordered, FileWhole, ReportTrue, FileTold,
       Removed
  <2> QED
    BY <2>2, <2>3 DEF OfUpload, Intact
<1> QED
  BY <1>1, <1>3 DEF UploadsInv, OfUpload

LEMMA RestartRunnerKept ==
    ASSUME FileBounded, UploadsInv, Files!TypeOK', Files!RestartRunner
    PROVE  UploadsInv'
<1>1. /\ Files!TypeOK /\ torn' = Files!Upload /\ stream' = {} /\ uploadToRunner' = <<>>
          /\ ~cleaning'
      /\ \A v \in Files!Upload : ops'[v] = <<>>
      /\ UNCHANGED <<session, host, uploadSent, entry, hostFile, rows>>
  BY DEF UploadsInv, Files!RestartRunner, Files!hostVars
<1>2. \A v \in Files!Upload : Left(v)' = 0
  BY <1>1, OccursEmpty DEF Left
<1>3. ~CleanupDue'
  BY <1>1, OccursEmpty DEF CleanupDue
<1>4. ASSUME NEW v \in Files!Upload PROVE OfUpload(v)'
  BY <1>1, <1>2, UploadTypes DEF UploadsInv, HostSide, ChunksCounted, OfUpload, Intact
<1> QED
  BY <1>3, <1>4 DEF UploadsInv, OfUpload

LEMMA UploadsInit == FileBounded /\ Files!Init => UploadsInv
<1> SUFFICES ASSUME FileBounded, Files!Init PROVE UploadsInv
  OBVIOUS
<1>1. Files!TypeOK
  <2>1. /\ uploadToRunner \in Seq((Files!Op \cup {"cleanup"}) \X Files!Upload)
            /\ ops \in [Files!Upload -> Seq(Files!Op)]
        /\ uploadOutbox \in Seq({"uploaded", "failed"} \X Files!Upload)
    BY DEF Files!Init
  <2>2. /\ uploadFaults \in 0..MaxUploadFaults /\ uploadSent \in [Files!Upload -> 0..Chunks]
        /\ uploadFile \in [Files!Upload -> (0..Chunks) \cup {None}]
    BY DEF Files!Init, FileBounded
  <2> QED
    BY <2>1, <2>2 DEF Files!Init, Files!TypeOK
<1>2. \A v \in Files!Upload : Left(v) = 0 /\ \A y, z : ~Has(v, y) /\ ~Then(v, y, z) /\ ~FileTold(v)
  <2> TAKE v \in Files!Upload
  <2>1. ops[v] = <<>> /\ uploadToRunner = <<>> /\ uploadOutbox = <<>>
    BY DEF Files!Init
  <2>2. Left(v) = 0
    BY <2>1, OccursEmpty DEF Left
  <2> QED
    BY <2>1, <2>2, OccursEmpty DEF Has, Then, FileTold
<1>3. ~CleanupDue
  BY OccursEmpty DEF Files!Init, CleanupDue
<1>4. ASSUME NEW v \in Files!Upload PROVE HostSide(v) /\ ChunksCounted(v) /\ Intact(v)
  <2>1. HostSide(v) /\ ChunksCounted(v)
    BY <1>2 DEF Files!Init, HostSide, ChunksCounted, FileBounded
  <2>2. OpsSent(v) /\ FileWhole(v)
    BY <1>2 DEF Files!Init, OpsSent, FileWhole, Ordered
  <2>3. ReportTrue(v) /\ Removed(v)
    BY <1>2 DEF Files!Init, ReportTrue, Removed
  <2> QED
    BY <2>1, <2>2, <2>3 DEF Intact
<1> QED
  BY <1>1, <1>3, <1>4 DEF UploadsInv

LEMMA UploadsStep == FileBounded /\ UploadsInv /\ [Files!Next]_Files!vars => UploadsInv'
<1> SUFFICES ASSUME FileBounded, UploadsInv, [Files!Next]_Files!vars PROVE UploadsInv'
  OBVIOUS
<1>1. Files!TypeOK' /\ Files!TypeOK
  BY UploadsTypes DEF UploadsInv
<1>2. ASSUME NEW u \in Files!Upload,
             Files!Store(u) \/ Files!Begin(u) \/ Files!SendChunk(u) \/ Files!SendEnd(u)
                 \/ Files!Finish(u) \/ Files!Discard(u) \/ Files!TimesOut(u)
      PROVE  UploadsInv'
  BY <1>1, <1>2, StoreKept, BeginKept, SendChunkKept, SendEndKept, FinishKept, DiscardKept,
     TimesOutKept
<1>3. ASSUME NEW u \in Files!Upload, Files!DoBegin(u) \/ Files!DoChunk(u) \/ Files!DoEnd(u)
        \/ Files!DoAbort(u) \/ Files!DoDelete(u)
      PROVE  UploadsInv'
  BY <1>1, CloseKept, <1>3, DoBeginKept, DoChunkKept, DoEndKept, DoDeleteKept DEF Files!DoAbort
<1>4. CASE Files!DeleteSession \/ Files!Reported \/ Files!Break \/ Files!Disconnect
        \/ Files!CleanupSession \/ Files!RestartRunner
  BY <1>1, <1>4, DeleteSessionKept, ReportedKept, BreakKept, DisconnectKept,
     CleanupSessionKept, RestartRunnerKept
<1>5. CASE Files!Receive
  BY <1>5, <1>1, ReceiveKept, QuietKept DEF Files!Receive, Files!hostVars
<1>6. CASE Files!Reconnect \/ UNCHANGED Files!vars
  BY <1>6, <1>1, StillFacts, QuietKept DEF Files!Reconnect, Files!hostVars, Files!runnerVars,
     Files!vars
<1> QED
  BY <1>2, <1>3, <1>4, <1>5, <1>6 DEF Files!Next

LEMMA UploadsSafe == FileBounded /\ UploadsInv => Files!RowsAreWhole /\ Files!NothingLeft
<1> SUFFICES ASSUME FileBounded, UploadsInv PROVE Files!RowsAreWhole /\ Files!NothingLeft
  OBVIOUS
<1>1. ASSUME NEW u \in rows
      PROVE  u \in hostFile /\ (u \in torn \/ (u \notin stream /\ uploadFile[u] = Chunks))
  BY DEF UploadsInv, Files!TypeOK, HostSide, Intact, ReportTrue
<1>2. ASSUME NEW u \in Files!Upload \ torn, Files!Idle(u),
             host[u] = "failed" \/ (host[u] = "ok" /\ ~session)
      PROVE  u \notin hostFile /\ u \notin rows /\ u \notin stream /\ uploadFile[u] = None
  BY <1>2, OccursEmpty DEF UploadsInv, Intact, Files!Idle, CleanupDue, Has, HostSide, Removed
<1> QED
  BY <1>1, <1>2 DEF Files!RowsAreWhole, Files!NothingLeft

-----------------------------------------------------------------------------
(* The sign-in of Codex.                                                   *)

ActionKind == SignIn!Command \cup {"start"}

\* What was a start stays one.
StartsStay == \A a \in SignIn!Action : action[a].kind = "start" => action'[a].kind = "start"

LEMMA SignInInit == SignInBounded /\ SignIn!Init => SignInInv
<1> SUFFICES ASSUME SignInBounded, SignIn!Init PROVE SignInInv
  OBVIOUS
<1>1. SignIn!TypeOK
  <2>1. 0 \in 0..MaxIssues
    BY DEF SignInBounded
  <2>2. action \in [SignIn!Action -> [kind : ActionKind, stage : Stages]]
    BY DEF SignIn!Init, SignIn!Command, ActionKind, Stages
  <2>3. /\ flows \in [SignIn!Flow -> {"none", "waiting", "cancelled", "completed", "failed"}]
        /\ children \in [SignIn!Flow -> {"none", "runs", "signed-in", "closed"}]
        /\ checks \in SUBSET (SignIn!Waits \X {"asked", "yes", "no"})
        /\ status \in SignIn!Status /\ signinShown \in SignIn!Status
    BY DEF SignIn!Init, SignIn!Status
  <2> QED
    BY <2>1, <2>2, <2>3 DEF SignIn!Init, SignIn!TypeOK, ActionKind, Stages
<1>2. ActiveWaits /\ NoStartYet /\ SignIn!PendingHasProcess /\ SignIn!IssueStays
  BY DEF SignIn!Init, ActiveWaits, NoStartYet, SignIn!PendingHasProcess, SignIn!IssueStays
<1> QED
  BY <1>1, <1>2 DEF SignInInv

LEMMA StageTyped ==
    ASSUME SignIn!TypeOK, NoStartYet, NEW a \in SignIn!Action, NEW s \in Stages \ {"none"},
           SignIn!Stage(a, s)
    PROVE  /\ action' \in [SignIn!Action -> [kind : ActionKind, stage : Stages]]
           /\ StartsStay /\ NoStartYet'
<1>1. action \in [SignIn!Action -> [kind : ActionKind, stage : Stages]]
  BY DEF SignIn!TypeOK, ActionKind, Stages
<1>2. action' = [action EXCEPT ![a].stage = s]
  BY DEF SignIn!Stage
<1> QED
  BY <1>1, <1>2 DEF StartsStay, NoStartYet

\* What was refused stays shown when nothing that was asked for is taken back.
LEMMA IssueKept ==
    ASSUME SignIn!IssueStays, StartsStay, \A c \in checks : c \in checks',
           issue' => issue /\ status' \in {status, "reauth", "pending", "unavailable"}
    PROVE  SignIn!IssueStays'
BY DEF SignIn!IssueStays, SignIn!StartUnchecked, StartsStay

LEMMA RefreshKeeps ==
    ASSUME SignIn!TypeOK, SignIn!IssueStays, installed' \in BOOLEAN, signinActive' \in BOOLEAN,
           NEW w \in SignIn!Waits, NEW clear \in BOOLEAN, SignIn!Refresh(w, clear), StartsStay
    PROVE  /\ checks' \in SUBSET (SignIn!Waits \X {"asked", "yes", "no"})
           /\ status' \in SignIn!Status /\ issue' \in BOOLEAN
           /\ SignIn!IssueStays'
<1>1. /\ checks' \in SUBSET (SignIn!Waits \X {"asked", "yes", "no"})
      /\ status' \in SignIn!Status /\ issue' \in BOOLEAN
      /\ \A c \in checks : c \in checks'
      /\ issue' => issue /\ status' \in {status, "reauth", "pending", "unavailable"}
  BY DEF SignIn!TypeOK, SignIn!Refresh, SignIn!Status
<1> QED
  BY <1>1, IssueKept

LEMMA RefreshForKeeps ==
    ASSUME SignIn!TypeOK, NoStartYet, SignIn!IssueStays, installed' \in BOOLEAN,
           signinActive' \in BOOLEAN, NEW a \in SignIn!Action, NEW clear \in BOOLEAN,
           NEW ended \in {"done", "failed"}, SignIn!RefreshFor(a, clear, ended)
    PROVE  /\ checks' \in SUBSET (SignIn!Waits \X {"asked", "yes", "no"})
           /\ status' \in SignIn!Status /\ issue' \in BOOLEAN
           /\ SignIn!IssueStays' /\ NoStartYet'
           /\ action' \in [SignIn!Action -> [kind : ActionKind, stage : Stages]]
           /\ signinWorking' \in BOOLEAN
<1>1. a \in SignIn!Waits
  BY DEF SignIn!Waits
<1>2. SignIn!Refresh(a, clear)
  BY DEF SignIn!RefreshFor
<1>3. \E s \in Stages \ {"none"} : SignIn!Stage(a, s) /\ signinWorking' \in BOOLEAN
  BY DEF SignIn!RefreshFor, SignIn!Ends, Stages
<1> QED
  BY <1>1, <1>2, <1>3, RefreshKeeps, StageTyped

LEMMA SignInAnsweredKeeps ==
    ASSUME SignIn!TypeOK, SignIn!IssueStays, NEW w, NEW seen \in {"yes", "no"},
             SignIn!Answered(w, seen)
    PROVE  /\ checks' \in SUBSET (SignIn!Waits \X {"asked", "yes", "no"})
           /\ status' \in SignIn!Status /\ issue' \in BOOLEAN
           /\ SignIn!IssueStays'
BY DEF SignIn!TypeOK, SignIn!IssueStays, SignIn!Answered, SignIn!Status

\* The actions of the page that leave the sign-in of a browser alone.
LEMMA ActionKeeps ==
    ASSUME SignInInv, NEW a \in SignIn!Action,
           \/ SignIn!Refused(a) \/ SignIn!AskRefresh(a) \/ SignIn!Denied(a) \/ SignIn!Ran(a)
           \/ SignIn!Checked(a)
           \/ \E k \in SignIn!Command : SignIn!Run(a, k)
    PROVE  SignInInv'
<1>1. UNCHANGED <<SignIn!flowVars, issues, SignIn!pageVars>>
  BY DEF SignIn!Refused, SignIn!AskRefresh, SignIn!Denied, SignIn!Ran, SignIn!Checked, SignIn!Run
<1>2. ActiveWaits' /\ SignIn!PendingHasProcess'
  BY <1>1 DEF SignInInv, ActiveWaits, SignIn!PendingHasProcess, SignIn!flowVars
<1>3. /\ action' \in [SignIn!Action -> [kind : ActionKind, stage : Stages]]
      /\ signinWorking' \in BOOLEAN /\ installed' \in BOOLEAN /\ signedIn' \in BOOLEAN
      /\ checks' \in SUBSET (SignIn!Waits \X {"asked", "yes", "no"})
      /\ status' \in SignIn!Status /\ issue' \in BOOLEAN
      /\ SignIn!IssueStays' /\ NoStartYet'
  <2>1. signinActive' \in BOOLEAN
    BY <1>1 DEF SignInInv, SignIn!TypeOK, SignIn!flowVars
  <2>2. CASE SignIn!Refused(a)
    <3>1. StartsStay /\ NoStartYet' /\ action' \in [SignIn!Action -> [kind : ActionKind, stage : Stages]]
      BY <2>2, StageTyped DEF SignIn!Refused, SignInInv, Stages
    <3> QED
      BY <2>2, <3>1, IssueKept DEF SignIn!Refused, SignInInv, SignIn!TypeOK, SignIn!authVars
  <2>3. CASE SignIn!AskRefresh(a) \/ SignIn!Denied(a)
    BY <2>1, <2>3, RefreshForKeeps DEF SignIn!AskRefresh, SignIn!Denied, SignInInv, SignIn!TypeOK
  <2>4. CASE SignIn!Ran(a)
    BY <2>4, <2>1, RefreshForKeeps DEF SignIn!Ran, SignInInv, SignIn!TypeOK
  <2>5. CASE SignIn!Checked(a)
    <3>1. \E s \in Stages \ {"none"} : SignIn!Stage(a, s)
      BY <2>5 DEF SignIn!Checked, SignIn!Ends, Stages
    <3>2. \E seen \in {"yes", "no"} : SignIn!Answered(a, seen)
      BY <2>5 DEF SignIn!Checked
    <3>3. signinWorking' = FALSE /\ UNCHANGED <<installed, signedIn>>
      BY <2>5 DEF SignIn!Checked, SignIn!Ends
    <3>4. NoStartYet' /\ action' \in [SignIn!Action -> [kind : ActionKind, stage : Stages]]
      BY <3>1, StageTyped DEF SignInInv
    <3>5. /\ checks' \in SUBSET (SignIn!Waits \X {"asked", "yes", "no"})
          /\ status' \in SignIn!Status /\ issue' \in BOOLEAN
          /\ SignIn!IssueStays'
      BY <3>2, SignInAnsweredKeeps DEF SignInInv
    <3>6. signinWorking' \in BOOLEAN /\ installed' \in BOOLEAN /\ signedIn' \in BOOLEAN
      BY <3>3 DEF SignInInv, SignIn!TypeOK
    <3> QED
      BY <3>4, <3>5, <3>6
  <2>6. CASE \E k \in SignIn!Command : SignIn!Run(a, k)
    <3>1. PICK k \in SignIn!Command : SignIn!Run(a, k)
      BY <2>6
    <3>2. action' = [action EXCEPT ![a] = [kind |-> k, stage |-> "running"]]
      BY <3>1 DEF SignIn!Run
    <3>3. action[a].kind # "start"
      BY <3>1 DEF SignIn!Run, SignIn!Asked, SignInInv, NoStartYet
    <3>4. action \in [SignIn!Action -> [kind : ActionKind, stage : Stages]]
      BY DEF SignInInv, SignIn!TypeOK, ActionKind, Stages
    <3>5. NoStartYet
      BY DEF SignInInv
    <3>6. /\ StartsStay /\ NoStartYet'
          /\ action' \in [SignIn!Action -> [kind : ActionKind, stage : Stages]]
      BY <3>2, <3>3, <3>4, <3>5 DEF NoStartYet, StartsStay, ActionKind, Stages, SignIn!Command
    <3> QED
      BY <3>1, <3>6, IssueKept DEF SignIn!Run, SignInInv, SignIn!TypeOK, SignIn!authVars
  <2> QED
    BY <2>2, <2>3, <2>4, <2>5, <2>6
<1>4. SignIn!TypeOK'
  BY <1>1, <1>3 DEF SignInInv, SignIn!TypeOK, SignIn!flowVars, SignIn!pageVars, ActionKind, Stages
<1> QED
  BY <1>2, <1>3, <1>4 DEF SignInInv

LEMMA NewFlowTyped ==
    ASSUME SignIn!TypeOK, NEW f \in SignIn!Flow, NEW as \in {"waiting", "failed"}, SignIn!NewFlow(f, as)
    PROVE  /\ flows' \in [SignIn!Flow -> {"none", "waiting", "cancelled", "completed", "failed"}]
           /\ flow' = f /\ flows'[f] = as
BY DEF SignIn!TypeOK, SignIn!NewFlow

LEMMA StartKeeps ==
    ASSUME SignInInv, NEW a \in SignIn!Action, SignIn!Start(a)
    PROVE  SignInInv'
<1>1. /\ action' \in [SignIn!Action -> [kind : ActionKind, stage : Stages]]
      /\ StartsStay /\ NoStartYet' /\ signinWorking' = FALSE
      /\ UNCHANGED <<installed, signedIn, checks, issue, issues, SignIn!pageVars>>
  BY StageTyped DEF SignIn!Start, SignIn!Ends, SignInInv, Stages
<1>2. CASE UNCHANGED <<SignIn!flowVars, status>>
  <2>1. SignIn!IssueStays'
    BY <1>1, <1>2, IssueKept DEF SignInInv
  <2> QED
    BY <1>1, <1>2, <2>1 DEF SignInInv, SignIn!TypeOK, SignIn!flowVars, SignIn!pageVars, Stages,
       ActionKind, ActiveWaits, SignIn!PendingHasProcess
<1>3. CASE ~UNCHANGED <<SignIn!flowVars, status>>
  <2>1. PICK f \in SignIn!Flow :
            /\ SignIn!NewFlow(f, "waiting") /\ signinActive' = TRUE /\ process' = f
            /\ children' = [children EXCEPT ![f] = "runs"] /\ status' = "pending"
    BY <1>3 DEF SignIn!Start
  <2>2. /\ flows' \in [SignIn!Flow -> {"none", "waiting", "cancelled", "completed", "failed"}]
        /\ flow' = f /\ flows'[f] = "waiting"
    BY <2>1, NewFlowTyped DEF SignInInv
  <2>3. /\ children' \in [SignIn!Flow -> {"none", "runs", "signed-in", "closed"}]
        /\ children'[f] = "runs"
    BY <2>1 DEF SignInInv, SignIn!TypeOK
  <2>4. SignIn!IssueStays'
    BY <2>1 DEF SignIn!IssueStays
  <2> QED
    BY <1>1, <2>1, <2>2, <2>3, <2>4 DEF SignInInv, SignIn!TypeOK, SignIn!pageVars, Stages,
       ActionKind, SignIn!Status, ActiveWaits, SignIn!PendingHasProcess
<1> QED
  BY <1>2, <1>3

LEMMA StartFailsKeeps ==
    ASSUME SignInInv, NEW a \in SignIn!Action, SignIn!StartFails(a)
    PROVE  SignInInv'
<1>1. action \in [SignIn!Action -> [kind : ActionKind, stage : Stages]]
  BY DEF SignInInv, SignIn!TypeOK, ActionKind, Stages
<1>2. /\ action' = [action EXCEPT ![a] = [kind |-> "start", stage |-> "failed"]]
      /\ checks' = checks \cup {<<a, "asked">>} /\ signinActive' = FALSE
      /\ status' = "not-authenticated" /\ signinWorking' = TRUE
      /\ UNCHANGED <<installed, signedIn, process, children, issue, issues, SignIn!pageVars>>
  BY DEF SignIn!StartFails
<1>3. /\ action' \in [SignIn!Action -> [kind : ActionKind, stage : Stages]]
      /\ action'[a].kind = "start" /\ NoStartYet'
  BY <1>1, <1>2 DEF SignInInv, NoStartYet, ActionKind, Stages
<1>4. PICK f \in SignIn!Flow : SignIn!NewFlow(f, "failed")
  BY DEF SignIn!StartFails
<1>5. /\ flows' \in [SignIn!Flow -> {"none", "waiting", "cancelled", "completed", "failed"}]
      /\ flow' = f
  BY <1>4, NewFlowTyped DEF SignInInv
<1>6. SignIn!IssueStays'
  <2>1. <<a, "asked">>[1] = a
    OBVIOUS
  <2> QED
    BY <1>2, <1>3, <2>1 DEF SignIn!IssueStays, SignIn!StartUnchecked
<1>7. checks' \in SUBSET (SignIn!Waits \X {"asked", "yes", "no"})
  BY <1>2 DEF SignInInv, SignIn!TypeOK, SignIn!Waits
<1> QED
  BY <1>2, <1>3, <1>5, <1>6, <1>7 DEF SignInInv, SignIn!TypeOK, SignIn!pageVars, Stages,
     ActionKind, SignIn!Status, ActiveWaits, SignIn!PendingHasProcess

LEMMA CancelKeeps ==
    ASSUME SignInInv, NEW a \in SignIn!Action, SignIn!Cancel(a)
    PROVE  SignInInv'
<1>1. UNCHANGED <<signedIn, flow, process, children, issues, SignIn!pageVars, installed>>
  BY DEF SignIn!Cancel
<1>2. /\ flows' \in [SignIn!Flow -> {"none", "waiting", "cancelled", "completed", "failed"}]
      /\ signinActive' \in BOOLEAN /\ (signinActive' => flows' = flows /\ signinActive)
  BY DEF SignIn!Cancel, SignInInv, SignIn!TypeOK
<1>3. \E clear \in BOOLEAN, ended \in {"done", "failed"} : SignIn!RefreshFor(a, clear, ended)
  BY DEF SignIn!Cancel
<1>4. installed' \in BOOLEAN
  BY <1>1 DEF SignInInv, SignIn!TypeOK
<1>5. /\ checks' \in SUBSET (SignIn!Waits \X {"asked", "yes", "no"})
      /\ status' \in SignIn!Status /\ issue' \in BOOLEAN
      /\ SignIn!IssueStays' /\ NoStartYet'
      /\ action' \in [SignIn!Action -> [kind : ActionKind, stage : Stages]]
      /\ signinWorking' \in BOOLEAN
  BY <1>2, <1>3, <1>4, RefreshForKeeps DEF SignInInv
<1>6. SignIn!TypeOK'
  BY <1>1, <1>2, <1>5 DEF SignInInv, SignIn!TypeOK, SignIn!pageVars, ActionKind, Stages
<1>7. ActiveWaits' /\ SignIn!PendingHasProcess'
  BY <1>1, <1>2 DEF SignInInv, ActiveWaits, SignIn!PendingHasProcess
<1> QED
  BY <1>5, <1>6, <1>7 DEF SignInInv

LEMMA SignsInKeeps ==
    ASSUME SignInInv, NEW f \in SignIn!Flow, SignIn!SignsIn(f)
    PROVE  SignInInv'
<1>1. /\ children' \in [SignIn!Flow -> {"none", "runs", "signed-in", "closed"}]
      /\ children'[f] = "signed-in" /\ children[f] = "runs"
      /\ \A g \in SignIn!Flow : g # f => children'[g] = children[g]
  BY DEF SignIn!SignsIn, SignInInv, SignIn!TypeOK
<1>2. SignIn!TypeOK'
  BY <1>1 DEF SignIn!SignsIn, SignInInv, SignIn!TypeOK, SignIn!authVars, SignIn!pageVars
<1>3. ActiveWaits'
  BY <1>1 DEF SignIn!SignsIn, SignInInv, ActiveWaits
<1>4. SignIn!PendingHasProcess' /\ NoStartYet'
  BY <1>1 DEF SignIn!SignsIn, SignInInv, SignIn!PendingHasProcess, NoStartYet
<1>5. SignIn!IssueStays'
  BY IssueKept DEF SignIn!SignsIn, SignInInv, SignIn!authVars, StartsStay
<1> QED
  BY <1>2, <1>3, <1>4, <1>5 DEF SignInInv

LEMMA ClosedKeeps ==
    ASSUME SignInInv, NEW f \in SignIn!Flow, SignIn!Closed(f)
    PROVE  SignInInv'
<1>1. /\ children' \in [SignIn!Flow -> {"none", "runs", "signed-in", "closed"}]
      /\ flow \in SignIn!Flow /\ flow' = flow /\ process' = None
      /\ UNCHANGED <<action, signinWorking, signedIn, issues, SignIn!pageVars, installed>>
  BY DEF SignIn!Closed, SignInInv, SignIn!TypeOK, ActiveWaits
<1>2. ~signinActive'
  BY DEF SignIn!Closed, SignInInv, ActiveWaits
<1>3. flows' \in [SignIn!Flow -> {"none", "waiting", "cancelled", "completed", "failed"}]
  BY <1>1 DEF SignIn!Closed, SignInInv, SignIn!TypeOK
<1>4. /\ checks' \in SUBSET (SignIn!Waits \X {"asked", "yes", "no"})
      /\ status' \in SignIn!Status /\ issue' \in BOOLEAN
      /\ SignIn!IssueStays'
  <2>1. StartsStay
    BY <1>1 DEF StartsStay
  <2> QED
    BY <1>1, <2>1, RefreshKeeps, IssueKept DEF SignIn!Closed, SignInInv, SignIn!TypeOK,
       SignIn!authVars, SignIn!Waits
<1>5. signinActive' \in BOOLEAN
  BY DEF SignIn!Closed, SignInInv, SignIn!TypeOK
<1>6. SignIn!TypeOK'
  BY <1>1, <1>3, <1>4, <1>5 DEF SignInInv, SignIn!TypeOK, SignIn!pageVars
<1>7. ActiveWaits' /\ NoStartYet' /\ SignIn!PendingHasProcess'
  BY <1>1, <1>2 DEF SignInInv, ActiveWaits, NoStartYet, SignIn!PendingHasProcess
<1> QED
  BY <1>4, <1>6, <1>7 DEF SignInInv

LEMMA AnswerKeeps ==
    ASSUME SignInBounded, SignInInv, SignIn!Look \/ SignIn!EndChecked \/ SignIn!ReportIssue
             \/ SignIn!Load \/ SignIn!Loaded
    PROVE  SignInInv'
<1>1. UNCHANGED <<action, signinWorking, installed, signedIn, SignIn!flowVars>>
  BY DEF SignIn!Look, SignIn!EndChecked, SignIn!ReportIssue, SignIn!Load, SignIn!Loaded
<1>2. ActiveWaits' /\ NoStartYet' /\ SignIn!PendingHasProcess'
  BY <1>1 DEF SignInInv, ActiveWaits, NoStartYet, SignIn!PendingHasProcess, SignIn!flowVars
<1>3. CASE SignIn!Look
  <2>1. PICK c \in checks : checks' = (checks \ {c}) \cup {<<c[1], IF signedIn THEN "yes" ELSE "no">>}
    BY <1>3 DEF SignIn!Look
  <2>2. checks \in SUBSET (SignIn!Waits \X {"asked", "yes", "no"})
    BY DEF SignInInv, SignIn!TypeOK
  <2>3. checks' \in SUBSET (SignIn!Waits \X {"asked", "yes", "no"})
    BY <2>1, <2>2
  <2>4. ASSUME NEW w, NEW d \in checks, d[1] = w
        PROVE  \E e \in checks' : e[1] = w
    <3>1. CASE d = c
      <4>1. PICK e : e = <<c[1], IF signedIn THEN "yes" ELSE "no">>
        OBVIOUS
      <4>2. e \in checks' /\ e[1] = c[1]
        BY <2>1, <4>1
      <4> QED
        BY <2>4, <3>1, <4>2
    <3> QED
      BY <2>1, <2>4, <3>1
  <2>5. SignIn!IssueStays'
    BY <1>3, <1>1, <2>4 DEF SignIn!Look, SignInInv, SignIn!IssueStays, SignIn!StartUnchecked,
       SignIn!authVars
  <2> QED
    BY <1>3, <1>1, <1>2, <2>3, <2>5 DEF SignIn!Look, SignInInv, SignIn!TypeOK, SignIn!flowVars,
       SignIn!authVars, SignIn!pageVars
<1>4. CASE SignIn!EndChecked
  BY <1>4, <1>1, SignInAnsweredKeeps, <1>2 DEF SignIn!EndChecked, SignInInv, SignIn!TypeOK,
     SignIn!flowVars, SignIn!pageVars
<1>5. CASE SignIn!ReportIssue \/ SignIn!Load \/ SignIn!Loaded
  <2>1. SignIn!TypeOK'
    <3>1. issues' \in 0..MaxIssues
      BY <1>5 DEF SignInBounded, SignIn!ReportIssue, SignIn!Load, SignIn!Loaded,
         SignInInv, SignIn!TypeOK
    <3>2. status' \in SignIn!Status /\ issue' \in BOOLEAN
      BY <1>5 DEF SignIn!ReportIssue, SignIn!Load, SignIn!Loaded, SignInInv,
         SignIn!TypeOK, SignIn!Status, SignIn!authVars
    <3>3. signinShown' \in SignIn!Status /\ loading' \in SignIn!Status \cup {None}
      BY <1>5 DEF SignIn!ReportIssue, SignIn!Load, SignIn!Loaded, SignInInv,
         SignIn!TypeOK, SignIn!pageVars
    <3>4. checks' = checks
      BY <1>5 DEF SignIn!ReportIssue, SignIn!Load, SignIn!Loaded
    <3> QED
      BY <1>1, <3>1, <3>2, <3>3, <3>4 DEF SignInInv, SignIn!TypeOK, SignIn!flowVars
  <2>2. SignIn!IssueStays'
    BY <1>5 DEF SignIn!ReportIssue, SignIn!Load, SignIn!Loaded, SignInInv,
       SignIn!IssueStays, SignIn!StartUnchecked, SignIn!authVars
  <2> QED
    BY <1>2, <2>1, <2>2 DEF SignInInv
<1> QED
  BY <1>3, <1>4, <1>5

LEMMA SignInStep ==
    ASSUME SignInBounded, SignInInv, [SignIn!Next]_SignIn!vars
    PROVE  SignInInv'
<1>1. CASE UNCHANGED SignIn!vars
  BY <1>1 DEF SignIn!vars, SignInInv, SignIn!TypeOK, ActiveWaits, NoStartYet,
     SignIn!PendingHasProcess, SignIn!IssueStays, SignIn!StartUnchecked
<1>2. CASE \E a \in SignIn!Action : \/ SignIn!Refused(a) \/ SignIn!AskRefresh(a)
                                    \/ SignIn!Denied(a) \/ SignIn!Ran(a) \/ SignIn!Checked(a)
                                    \/ \E k \in SignIn!Command : SignIn!Run(a, k)
  BY <1>2, ActionKeeps
<1>3. CASE \E a \in SignIn!Action : SignIn!Start(a) \/ SignIn!StartFails(a) \/ SignIn!Cancel(a)
  BY <1>3, StartKeeps, StartFailsKeeps, CancelKeeps
<1>4. CASE \E f \in SignIn!Flow : SignIn!SignsIn(f) \/ SignIn!Closed(f)
  BY <1>4, SignsInKeeps, ClosedKeeps
<1>5. CASE SignIn!Look \/ SignIn!EndChecked \/ SignIn!ReportIssue \/ SignIn!Load \/ SignIn!Loaded
  BY <1>5, AnswerKeeps
<1> QED
  BY <1>1, <1>2, <1>3, <1>4, <1>5 DEF SignIn!Next

-----------------------------------------------------------------------------
(* The requests to Codex.                                                  *)

LEMMA ParameterIs == Codex!Parameter = {"approval", "sandbox", "key", "tier", "effort"}
<1>1. \A i \in 1..5 : i = 1 \/ i = 2 \/ i = 3 \/ i = 4 \/ i = 5
  OBVIOUS
<1>2. /\ Codex!Parameters[1] = "approval" /\ Codex!Parameters[2] = "sandbox"
          /\ Codex!Parameters[3] = "key"
      /\ Codex!Parameters[4] = "tier" /\ Codex!Parameters[5] = "effort"
  BY DEF Codex!Parameters
<1> QED
  BY <1>1, <1>2 DEF Codex!Parameter

\* A form comes before another only where it has a parameter that the other has not,
\* or has with a later spelling.
LEMMA BeforeHasMore ==
    ASSUME NEW f, NEW g, Codex!Before(f, g)
    PROVE  \E p \in Codex!Parameter : f[p] # g[p] /\ f[p] # Codex!Omitted
<1>1. PICK i \in 1..5 : f[Codex!Parameters[i]] # g[Codex!Parameters[i]]
        /\ f[Codex!Parameters[i]] # Codex!Omitted
  BY DEF Codex!Before
<1>2. Codex!Parameters[i] \in Codex!Parameter
  BY DEF Codex!Parameter
<1> QED
  BY <1>1, <1>2

\* The form that is tried next comes after every other form that differs from it
\* only in parameters that it omits.
LEMMA MoreWasTried ==
    ASSUME NEW f \in left, \A g \in left : f = g \/ Codex!Before(f, g),
           NEW h, h # f, \A p \in Codex!Parameter : f[p] # h[p] => f[p] = Codex!Omitted
    PROVE  h \notin left
<1>1. SUFFICES ASSUME Codex!Before(f, h) PROVE FALSE
  OBVIOUS
<1> QED
  BY <1>1, BeforeHasMore

\* Of two forms that differ in parameters with an accepted spelling only, both are
\* accepted or neither is.
LEMMA AcceptsMore ==
    ASSUME NEW method, NEW f, Codex!Accepts(method, f), NEW h,
           \A p \in Codex!Parameter : h[p] = f[p] \/ h[p] = accepted[p]
    PROVE  Codex!Accepts(method, h)
BY DEF Codex!Accepts

\* A turn that was accepted has the two optional options that could be had.
LEMMA BegunWithOption ==
    ASSUME Spellings \in Nat, Codex!TypeOK, TriedRefused, stage = "turn/start",
           NEW f \in left, \A g \in left : f = g \/ Codex!Before(f, g),
               Codex!Accepts("turn/start", f),
           NEW p \in {"tier", "effort"}, p \in set, accepted[p] # Codex!Omitted
    PROVE  f[p] # Codex!Omitted
<1> SUFFICES ASSUME f[p] = Codex!Omitted PROVE FALSE
  OBVIOUS
<1> DEFINE h == [f EXCEPT ![p] = accepted[p]]
<1>1. f \in Codex!Forms("turn/start", set) /\ f \in Codex!Form /\ p \in Codex!Parameter
  BY ParameterIs DEF TriedRefused, Method, Codex!Forms
<1>2. /\ h \in Codex!Form /\ h[p] = accepted[p] /\ \A q \in Codex!Parameter \ {p} : h[q] = f[q]
      /\ accepted[p] \in 1..Spellings
  BY <1>1 DEF Codex!TypeOK, Codex!Form, Codex!Omitted
<1>3. h \in Codex!Forms("turn/start", set)
  BY <1>2, ParameterIs, <1>1 DEF Codex!Named, Codex!Forms
<1>4. Codex!Accepts("turn/start", h)
  BY <1>2, AcceptsMore
<1>5. h \notin left
  BY <1>2, MoreWasTried
<1> QED
  BY <1>3, <1>4, <1>5 DEF TriedRefused, Method

\* A turn that was accepted has both policies where both could be had.
LEMMA BegunWithPolicies ==
    ASSUME Spellings \in Nat, Codex!TypeOK, TriedRefused, stage = "turn/start",
           NEW f \in left, \A g \in left : f = g \/ Codex!Before(f, g),
               Codex!Accepts("turn/start", f),
           Codex!Acceptable("approval"), Codex!Acceptable("sandbox")
    PROVE  Codex!Has(f, "approval") /\ Codex!Has(f, "sandbox")
<1> SUFFICES ASSUME ~(Codex!Has(f, "approval") /\ Codex!Has(f, "sandbox")) PROVE FALSE
  OBVIOUS
<1> DEFINE With(p) == IF p \in set THEN accepted[p] ELSE Codex!Omitted
           h == [f EXCEPT !["approval"] = With("approval"), !["sandbox"] = With("sandbox")]
<1>1. f \in Codex!Forms("turn/start", set) /\ f \in Codex!Form
      /\ "approval" \in Codex!Parameter /\ "sandbox" \in Codex!Parameter
  BY ParameterIs DEF TriedRefused, Method, Codex!Forms
<1>2. f["approval"] = Codex!Omitted /\ f["sandbox"] = Codex!Omitted
  BY <1>1 DEF Codex!Forms, Codex!Named, Codex!Has, Codex!Omitted
<1>3. /\ h \in Codex!Form /\ h["approval"] = With("approval") /\ h["sandbox"] = With("sandbox")
      /\ \A q \in Codex!Parameter \ {"approval", "sandbox"} : h[q] = f[q]
  BY <1>1 DEF Codex!TypeOK, Codex!Form, Codex!Omitted
<1>4. With("approval") \in Codex!Named("approval", set)
        /\ With("sandbox") \in Codex!Named("sandbox", set)
  BY <1>1 DEF Codex!Named, Codex!Acceptable, Codex!TypeOK, Codex!Omitted
<1>5. h \in Codex!Forms("turn/start", set)
  BY <1>3, ParameterIs, <1>1, <1>4 DEF Codex!Forms
<1>6. Codex!Accepts("turn/start", h)
  BY <1>2, <1>3 DEF Codex!Accepts
<1>7. h \notin left
  BY <1>2, <1>3, MoreWasTried DEF Codex!Has, Codex!Acceptable
<1> QED
  BY <1>5, <1>6, <1>7 DEF TriedRefused, Method

\* When no form of thread/start was accepted, one of the policies has no spelling
\* that this build accepts.
LEMMA NoThreadForCause ==
    ASSUME Spellings \in Nat, Codex!TypeOK,
           \A f \in Codex!Forms("thread/start", set) : ~Codex!Accepts("thread/start", f)
    PROVE  ~(Codex!Acceptable("approval") /\ Codex!Acceptable("sandbox"))
<1> SUFFICES ASSUME Codex!Acceptable("approval"), Codex!Acceptable("sandbox") PROVE FALSE
  OBVIOUS
<1> DEFINE With(p) == IF p \in set /\ p \in {"approval", "sandbox"} THEN accepted[p]
      ELSE Codex!Omitted
           h == [p \in Codex!Parameter |-> With(p)]
<1>1. h \in Codex!Form /\ \A p \in Codex!Parameter : h[p] = With(p)
  BY DEF Codex!TypeOK, Codex!Form, Codex!Omitted
<1>2. h \in Codex!Forms("thread/start", set)
  BY <1>1, ParameterIs DEF Codex!Named, Codex!Acceptable, Codex!TypeOK, Codex!Omitted,
     Codex!Forms
<1>3. Codex!Accepts("thread/start", h)
  BY <1>1 DEF Codex!Accepts
<1> QED
  BY <1>2, <1>3

\* When no form of turn/start was accepted, the build refuses turns.
LEMMA NoTurnForCause ==
    ASSUME Spellings \in Nat,
           \A f \in Codex!Forms("turn/start", set) : ~Codex!Accepts("turn/start", f)
    PROVE  turnsFail
<1>1. Codex!NoForm \in Codex!Form /\ \A p \in Codex!Parameter : Codex!NoForm[p] = Codex!Omitted
  BY DEF Codex!NoForm, Codex!Form, Codex!Omitted
<1>2. Codex!NoForm \in Codex!Forms("turn/start", set)
  BY <1>1, ParameterIs DEF Codex!Forms
<1> QED
  BY <1>1, <1>2 DEF Codex!Accepts

-----------------------------------------------------------------------------

LEMMA RequestsStart ==
    ASSUME Spellings \in Nat, RequestsInv, Codex!Start
    PROVE  RequestsInv'
<1>1. PICK method \in {"thread/resume", "thread/start"} : Codex!Goto(method)
  BY DEF Codex!Start
<1>2. stage' = method /\ left' = Codex!Forms(method, set')
  BY <1>1 DEF Codex!Goto
<1>3. /\ stage = "idle" /\ threadForm' = threadForm /\ codexSent' = codexSent
          /\ warnings' = warnings
      /\ set' \in SUBSET (Codex!Parameter \ {"key"}) /\ codexKnown' \in BOOLEAN
          /\ turnsFail' \in BOOLEAN
      /\ accepted' \in [Codex!Parameter -> 0..Spellings]
  BY DEF Codex!Start
<1>4. Codex!TypeOK'
  BY <1>2, <1>1, <1>3 DEF Codex!Forms, RequestsInv, Codex!TypeOK
<1>5. Opening'
  BY <1>2, <1>3 DEF RequestsInv, Opening
<1>6. TriedRefused'
  BY <1>2 DEF TriedRefused
<1>7. Codex!OptionsKept' /\ Codex!FailsForCause'
  BY <1>3, <1>1, <1>2 DEF RequestsInv, Opening, Codex!OptionsKept, Codex!FailsForCause
<1> QED
  BY <1>4, <1>5, <1>6, <1>7 DEF RequestsInv

LEMMA RequestsTry ==
    ASSUME Spellings \in Nat, RequestsInv, NEW method \in Method, Codex!Try(method)
    PROVE  RequestsInv'
<1>1. PICK f \in left :
        /\ \A g \in left : f = g \/ Codex!Before(f, g)
        /\ codexSent' = f
        /\ IF Codex!Accepts(method, f) THEN Codex!Accepted(method, f) ELSE Codex!Refused(method, f)
  BY DEF Codex!Try
<1>2. stage = method /\ UNCHANGED <<set, codexKnown, accepted, turnsFail>>
  BY DEF Codex!Try
<1>3. /\ left \subseteq Codex!Forms(method, set) /\ f \in Codex!Forms(method, set)
      /\ \A g \in Codex!Forms(method, set) \ left : ~Codex!Accepts(method, g)
  BY <1>1, <1>2 DEF RequestsInv, TriedRefused
<1>4. f \in Codex!Form /\ \A m \in Method : Codex!Forms(m, set) \subseteq Codex!Form
  BY <1>3 DEF Codex!Forms
<1>5. "key" \notin set' /\ (method # "turn/start" => threadForm = Codex!NoForm)
  BY <1>2 DEF RequestsInv, Opening, Method
<1>6. CASE method = "turn/start" /\ Codex!Accepts(method, f)
  <2>1. /\ stage' = "begun" /\ left' = {} /\ threadForm' = threadForm /\ warnings' = warnings
    BY <1>1, <1>6 DEF Codex!Accepted
  <2>2. Codex!TypeOK'
    BY <1>1, <1>2, <1>4, <2>1 DEF RequestsInv, Codex!TypeOK
  <2>3. Opening' /\ TriedRefused' /\ Codex!FailsForCause'
    BY <1>5, <2>1 DEF Opening, TriedRefused, Codex!FailsForCause, Method
  <2>4. Codex!OptionsKept'
    BY <1>1, <1>2, <1>6, BegunWithOption, BegunWithPolicies, <2>1 DEF RequestsInv,
       Codex!OptionsKept, Codex!Acceptable, Codex!Has
  <2> QED
    BY <2>2, <2>3, <2>4 DEF RequestsInv
<1>7. CASE method # "turn/start" /\ Codex!Accepts(method, f)
  <2>1. /\ stage' = "turn/start" /\ left' = Codex!Forms("turn/start", set)
        /\ threadForm' = f /\ warnings' = warnings
    BY <1>1, <1>2, <1>7 DEF Codex!Accepted, Codex!Goto
  <2>2. Codex!TypeOK'
    BY <1>1, <1>2, <1>4, <2>1 DEF RequestsInv, Codex!TypeOK, Method
  <2>3. Opening' /\ TriedRefused' /\ Codex!FailsForCause'
    BY <1>2, <1>5, <2>1 DEF Opening, TriedRefused, Codex!FailsForCause, Method
  <2>4. Codex!OptionsKept'
    BY <1>3, <1>7, <1>2, <2>1 DEF Codex!Forms, Codex!Named, Codex!Has, Codex!Omitted,
       Codex!OptionsKept
  <2> QED
    BY <2>2, <2>3, <2>4 DEF RequestsInv
<1>8. CASE ~Codex!Accepts(method, f) /\ left # {f}
  <2>1. /\ left' = left \ {f} /\ stage' = stage /\ threadForm' = threadForm
        /\ warnings' \in {warnings, warnings \cup {"retry"}}
    BY <1>1, <1>8 DEF Codex!Refused
  <2>2. Codex!TypeOK'
    BY <1>1, <1>2, <1>4, <2>1 DEF RequestsInv, Codex!TypeOK
  <2>3. Opening'
    BY <1>2, <2>1 DEF RequestsInv, Opening
  <2>4. TriedRefused'
    BY <1>2, <1>3, <1>8, <2>1 DEF TriedRefused, Codex!Accepts, Codex!Forms
  <2>5. Codex!OptionsKept' /\ Codex!FailsForCause'
    BY <1>2, <2>1 DEF RequestsInv, Codex!OptionsKept, Codex!FailsForCause, Codex!Has,
       Codex!Acceptable, Method
  <2> QED
    BY <2>2, <2>3, <2>4, <2>5 DEF RequestsInv
<1>9. CASE ~Codex!Accepts(method, f) /\ left = {f} /\ method = "thread/resume"
  BY <1>1, <1>2, <1>9, <1>4, <1>5 DEF Codex!Refused, Codex!Goto, RequestsInv, Codex!TypeOK,
     Method, Opening, TriedRefused, Codex!FailsForCause, Codex!OptionsKept
<1>10. CASE ~Codex!Accepts(method, f) /\ left = {f} /\ method # "thread/resume"
  <2>1. /\ stage' = "failed" /\ left' = {} /\ threadForm' = threadForm
        /\ warnings' = warnings \cup IF method = "turn/start" THEN {"failure"} ELSE {}
    BY <1>1, <1>10 DEF Codex!Refused
  <2>2. Codex!TypeOK'
    BY <1>1, <1>2, <1>4, <2>1 DEF RequestsInv, Codex!TypeOK
  <2>3. Opening' /\ TriedRefused'
    BY <1>5, <2>1 DEF Opening, TriedRefused, Method
  <2>4. Codex!OptionsKept'
    BY <1>2, <2>1 DEF RequestsInv, Codex!OptionsKept, Codex!Has
  <2>5. \A g \in Codex!Forms(method, set) : ~Codex!Accepts(method, g)
    BY <1>3, <1>10
  <2>6. Codex!FailsForCause'
    BY <2>5, NoTurnForCause, <1>2, <2>1, NoThreadForCause, <1>5, <1>10 DEF Codex!FailsForCause,
       RequestsInv, Codex!Acceptable, Method
  <2> QED
    BY <2>2, <2>3, <2>4, <2>6 DEF RequestsInv
<1> QED
  BY <1>6, <1>7, <1>8, <1>9, <1>10

LEMMA RequestsInit == Spellings \in Nat /\ Codex!Init => RequestsInv
<1> SUFFICES ASSUME Spellings \in Nat, Codex!Init PROVE RequestsInv
  OBVIOUS
<1>1. Codex!NoForm \in Codex!Form /\ accepted = Codex!NoForm
  BY DEF Codex!Init, Codex!NoForm, Codex!Form, Codex!Omitted
<1>2. Codex!TypeOK
  BY <1>1 DEF Codex!Init, Codex!TypeOK, Codex!Form
<1>3. Opening /\ TriedRefused /\ Codex!OptionsKept /\ Codex!FailsForCause
  BY DEF Codex!Init, Opening, TriedRefused, Codex!OptionsKept, Codex!FailsForCause, Method
<1> QED
  BY <1>2, <1>3 DEF RequestsInv

LEMMA RequestsStep ==
    ASSUME Spellings \in Nat, RequestsInv, [Codex!Next]_Codex!vars
    PROVE  RequestsInv'
<1>1. CASE Codex!Start
  BY <1>1, RequestsStart
<1>2. ASSUME NEW method \in Method, Codex!Try(method) PROVE RequestsInv'
  BY <1>2, RequestsTry
<1>3. CASE UNCHANGED Codex!vars
  BY <1>3 DEF Codex!vars, RequestsInv, Codex!TypeOK, Opening, TriedRefused, Codex!OptionsKept,
     Codex!FailsForCause,
              Codex!Accepts, Codex!Has, Codex!Acceptable
<1> QED
  BY <1>1, <1>2, <1>3 DEF Codex!Next, Method

-----------------------------------------------------------------------------
(* Upgrades of a runner.                                                   *)

LEMMA WireTypes ==
    ASSUME Runner!TypeOK
    PROVE  /\ upgradeToRunner \in Seq(Runner!Message \X Runner!Upgrade)
               /\ upgradeToHost \in Seq(Runner!Answer \X Runner!Upgrade)
           /\ \A u \in Runner!Upgrade : \A m : Coming(u, m) \in Nat
               /\ (Coming(u, m) = 0 <=> ~In(u, m))
BY CountType DEF Runner!TypeOK, Coming, In

\* What is on its way after a message about u was sent, taken or lost.
UpgradeTold(u, x) ==
    \A v \in Runner!Upgrade, m \in Runner!Message :
        /\ In(v, m)' <=> In(v, m) \/ (v = u /\ m = x)
        /\ Coming(v, m)' = IF v = u /\ m = x THEN Coming(v, m) + 1 ELSE Coming(v, m)
Took(u, x) ==
    /\ In(u, x)
    /\ \A v \in Runner!Upgrade, m \in Runner!Message :
        /\ In(v, m)' => In(v, m)
        /\ Coming(v, m) = IF v = u /\ m = x THEN Coming(v, m)' + 1 ELSE Coming(v, m)'
Drained ==
    \A v \in Runner!Upgrade :
        /\ \A m \in Runner!Message : ~In(v, m)' /\ Coming(v, m)' = 0
        /\ \A a \in Runner!Answer : ~Out(v, a)'

LEMMA TellFacts ==
    ASSUME Runner!TypeOK, NEW u \in Runner!Upgrade, NEW x \in Runner!Message, Runner!Tell(u, x)
    PROVE  UpgradeTold(u, x) /\ upgradeToRunner' \in Seq(Runner!Message \X Runner!Upgrade)
<1>1. upgradeToRunner \in Seq(Runner!Message \X Runner!Upgrade)
        /\ <<x, u>> \in Runner!Message \X Runner!Upgrade
  BY DEF Runner!TypeOK
<1>2. \A e : /\ Occurs(upgradeToRunner', e) <=> Occurs(upgradeToRunner, e) \/ e = <<x, u>>
             /\ Count(upgradeToRunner', e) =
                  IF <<x, u>> = e THEN Count(upgradeToRunner, e) + 1 ELSE Count(upgradeToRunner, e)
  BY <1>1, OccursAppend, CountAppend DEF Runner!Tell
<1>3. \A v, m : <<m, v>> = <<x, u>> <=> v = u /\ m = x
  OBVIOUS
<1>4. upgradeToRunner' \in Seq(Runner!Message \X Runner!Upgrade)
  BY <1>1, AppendSteps DEF Runner!Tell
<1> QED
  BY <1>2, <1>3, <1>4 DEF UpgradeTold, In, Coming

LEMMA ReceiveFacts ==
    ASSUME Runner!TypeOK, NEW u \in Runner!Upgrade, NEW x \in Runner!Message, Runner!Receives(u, x)
    PROVE  Took(u, x) /\ upgradeToRunner' \in Seq(Runner!Message \X Runner!Upgrade)
<1>1. upgradeToRunner \in Seq(Runner!Message \X Runner!Upgrade) /\ upgradeToRunner # <<>>
        /\ upgradeToRunner' = Tail(upgradeToRunner)
      /\ Head(upgradeToRunner) = <<x, u>>
  BY DEF Runner!TypeOK, Runner!Receives
<1>2. \A e : /\ Occurs(upgradeToRunner, e) <=> Occurs(upgradeToRunner', e) \/ e = <<x, u>>
             /\ Count(upgradeToRunner, e) =
                  IF <<x, u>> = e THEN Count(upgradeToRunner', e) + 1
                      ELSE Count(upgradeToRunner', e)
  BY <1>1, OccursTail, CountTail
<1>3. \A v, m : <<m, v>> = <<x, u>> <=> v = u /\ m = x
  OBVIOUS
<1>4. upgradeToRunner' \in Seq(Runner!Message \X Runner!Upgrade)
  BY <1>1, TailSteps
<1> QED
  BY <1>2, <1>3, <1>4 DEF Took, In, Coming

LEMMA DrainFacts ==
    ASSUME upgradeToRunner' = <<>>, upgradeToHost' = <<>>
    PROVE  Drained /\ upgradeToRunner' \in Seq(Runner!Message \X Runner!Upgrade)
             /\ upgradeToHost' \in Seq(Runner!Answer \X Runner!Upgrade)
BY OccursEmpty DEF Drained, In, Out, Coming

\* The runner reports to the host, if it is connected.
UpgradeReported(u, x) ==
    \A v \in Runner!Upgrade, a \in Runner!Answer : Out(v, a)' => Out(v, a) \/ (v = u /\ a = x)

LEMMA UpgradeReportFacts ==
    ASSUME Runner!TypeOK, NEW u \in Runner!Upgrade, NEW x \in Runner!Answer, Runner!Report(u, x)
    PROVE  UpgradeReported(u, x) /\ upgradeToHost' \in Seq(Runner!Answer \X Runner!Upgrade)
<1>1. upgradeToHost \in Seq(Runner!Answer \X Runner!Upgrade)
        /\ <<x, u>> \in Runner!Answer \X Runner!Upgrade
  BY DEF Runner!TypeOK
<1>2. CASE upgradeToHost' = Append(upgradeToHost, <<x, u>>)
  BY <1>1, <1>2, OccursAppend, AppendSteps DEF UpgradeReported, Out
<1>3. CASE upgradeToHost' = upgradeToHost
  BY <1>1, <1>3 DEF UpgradeReported, Out
<1> QED
  BY <1>2, <1>3 DEF Runner!Report

LEMMA HeadFacts ==
    ASSUME Runner!TypeOK, upgradeToHost # <<>>
    PROVE  /\ Head(upgradeToHost) \in Runner!Answer \X Runner!Upgrade
           /\ Out(Head(upgradeToHost)[2], Head(upgradeToHost)[1])
           /\ upgradeToHost' = Tail(upgradeToHost) =>
                /\ upgradeToHost' \in Seq(Runner!Answer \X Runner!Upgrade)
                /\ \A v \in Runner!Upgrade, a \in Runner!Answer : Out(v, a)' => Out(v, a)
<1>1. upgradeToHost \in Seq(Runner!Answer \X Runner!Upgrade)
  BY DEF Runner!TypeOK
<1>2. Head(upgradeToHost) \in Runner!Answer \X Runner!Upgrade
        /\ Tail(upgradeToHost) \in Seq(Runner!Answer \X Runner!Upgrade)
  BY <1>1, TailSteps
<1>3. \A e : Occurs(upgradeToHost, e) <=> Occurs(Tail(upgradeToHost), e) \/ e = Head(upgradeToHost)
  BY <1>1, OccursTail
<1>4. <<Head(upgradeToHost)[1], Head(upgradeToHost)[2]>> = Head(upgradeToHost)
  BY <1>2
<1> QED
  BY <1>2, <1>3, <1>4 DEF Out

-----------------------------------------------------------------------------
\* Nothing begins or is reported for upgrade v.
Calm(v) ==
    /\ upgradeRequest'[v] = upgradeRequest[v]
        \/ (upgradeRequest[v] # "done" /\ upgradeRequest'[v] = "failed")
    /\ \A m \in Runner!Message : (In(v, m)' => In(v, m)) /\ Coming(v, m)' <= Coming(v, m)
    /\ \A a \in Runner!Answer : Out(v, a)' => Out(v, a)
    /\ v \in opening' => v \in opening
    /\ transfer' = v => transfer = v
    /\ ending'[v] \in {ending[v], "no"}
    /\ written'[v] = written[v] /\ upgradeSent'[v] = upgradeSent[v]
        /\ (upgradeCurrent => upgradeCurrent')

LEMMA CalmKeeps ==
    ASSUME Runner!TypeOK, NEW v \in Runner!Upgrade, UpgradeOk(v), Calm(v),
           \A m \in Runner!Message : Coming(v, m)' \in Nat
    PROVE  UpgradeOk(v)'
<1>0. /\ "start" \in Runner!Message /\ "chunk" \in Runner!Message
      /\ "accepted" \in Runner!Answer /\ "received" \in Runner!Answer
      /\ Coming(v, "start")' <= Coming(v, "start") /\ Coming(v, "chunk")' <= Coming(v, "chunk")
      /\ Coming(v, "start") \in Nat /\ Coming(v, "chunk") \in Nat
      /\ Coming(v, "start")' \in Nat /\ Coming(v, "chunk")' \in Nat
      /\ written[v] \in Nat /\ upgradeSent[v] \in Nat
  BY WireTypes DEF Calm, Runner!Message, Runner!Answer, Runner!TypeOK
<1>1. UpgradeUntouched(v)'
  BY DEF UpgradeOk, UpgradeUntouched, Calm
<1>2. BegunOnce(v)'
  BY <1>0 DEF UpgradeOk, BegunOnce, Calm
<1>3. ChunksFit(v)'
  BY <1>0 DEF UpgradeOk, ChunksFit, Calm
<1>4. WholeWhenUsed(v)'
  BY <1>0 DEF UpgradeOk, WholeWhenUsed, Calm
<1> QED
  BY <1>1, <1>2, <1>3, <1>4 DEF UpgradeOk

\* The host counts a crash only when a request fails with it.
LEMMA FailedGrows ==
    ASSUME UpgradeBounded, Runner!TypeOK,
             upgradeRequest' \in [Runner!Upgrade -> {"none", "packing", "asking",
               "streaming", "waiting", "done", "failed"}],
           \A v \in Runner!Upgrade : upgradeRequest[v] = "failed" => upgradeRequest'[v] = "failed"
    PROVE  /\ Cardinality(Failed) \in Nat /\ Cardinality(Failed)' \in Nat
           /\ Cardinality(Failed)' <= MaxUpgrades
           /\ Cardinality(Failed) <= Cardinality(Failed)'
           /\ \A v \in Runner!Upgrade : upgradeRequest[v] # "failed"
               /\ upgradeRequest'[v] = "failed" =>
                Cardinality(Failed) + 1 <= Cardinality(Failed)'
<1>1. IsFiniteSet(Runner!Upgrade) /\ Cardinality(Runner!Upgrade) = MaxUpgrades
  BY FS_Interval DEF UpgradeBounded, Runner!Upgrade
<1>2. Failed \subseteq Runner!Upgrade /\ Failed' \subseteq Runner!Upgrade
        /\ Failed \subseteq Failed'
  BY DEF Failed
<1>3. IsFiniteSet(Failed) /\ IsFiniteSet(Failed')
  BY <1>1, <1>2, FS_Subset
<1>4. Cardinality(Failed) \in Nat /\ Cardinality(Failed') \in Nat
  BY <1>3, FS_CardinalityType
<1>5. Cardinality(Failed') <= MaxUpgrades /\ Cardinality(Failed) <= Cardinality(Failed')
  BY <1>1, <1>2, <1>3, FS_Subset
<1>6. ASSUME NEW v \in Runner!Upgrade, upgradeRequest[v] # "failed", upgradeRequest'[v] = "failed"
      PROVE  Cardinality(Failed) + 1 <= Cardinality(Failed')
  <2>1. v \notin Failed /\ v \in Failed'
    BY <1>6 DEF Failed
  <2>2. Cardinality(Failed \cup {v}) = Cardinality(Failed) + 1
    BY <1>3, <2>1, FS_AddElement
  <2>3. Cardinality(Failed \cup {v}) <= Cardinality(Failed')
    BY <1>2, <1>3, <2>1, FS_Subset
  <2> QED
    BY <2>2, <2>3
<1> QED
  BY <1>4, <1>5, <1>6

LEMMA CrashesFit ==
    ASSUME UpgradeBounded, UpgradeInv,
             upgradeRequest' \in [Runner!Upgrade -> {"none", "packing", "asking",
               "streaming", "waiting", "done", "failed"}],
           \A v \in Runner!Upgrade : upgradeRequest[v] = "failed" => upgradeRequest'[v] = "failed",
           \/ crashes' = crashes
           \/ crashes' = crashes + 1 /\ \E v \in Runner!Upgrade : upgradeRequest[v] # "failed"
               /\ upgradeRequest'[v] = "failed"
    PROVE  crashes' \in 0..MaxUpgrades /\ crashes' <= Cardinality(Failed)'
<1>1. /\ Cardinality(Failed) \in Nat /\ Cardinality(Failed)' \in Nat
      /\ Cardinality(Failed)' <= MaxUpgrades /\ Cardinality(Failed) <= Cardinality(Failed)'
      /\ \A v \in Runner!Upgrade : upgradeRequest[v] # "failed" /\ upgradeRequest'[v] = "failed" =>
           Cardinality(Failed) + 1 <= Cardinality(Failed)'
  BY FailedGrows DEF UpgradeInv
<1>2. crashes \in Nat /\ crashes <= Cardinality(Failed) /\ MaxUpgrades \in Nat
  BY DEF UpgradeInv, Runner!TypeOK, UpgradeBounded
<1> QED
  BY <1>1, <1>2

LEMMA UpgradeInit == UpgradeBounded /\ Runner!Init => UpgradeInv
<1> SUFFICES ASSUME UpgradeBounded, Runner!Init PROVE UpgradeInv
  OBVIOUS
<1>1. upgradeToRunner = <<>> /\ upgradeToHost = <<>>
  BY DEF Runner!Init
<1>2. Runner!TypeOK
  <2>1. 0 \in 0..MaxUpgradeFaults /\ 0 \in 0..MaxUpgrades /\ 0 \in 0..Pieces
    BY DEF UpgradeBounded
  <2>2. <<>> \in Seq(Runner!Message \X Runner!Upgrade)
          /\ <<>> \in Seq(Runner!Answer \X Runner!Upgrade)
    OBVIOUS
  <2>3. /\ upgradeToRunner \in Seq(Runner!Message \X Runner!Upgrade)
            /\ upgradeToHost \in Seq(Runner!Answer \X Runner!Upgrade)
        /\ crashes \in 0..MaxUpgrades /\ upgradeFaults \in 0..MaxUpgradeFaults
    BY <1>1, <2>1, <2>2 DEF Runner!Init
  <2>4. /\ upgradeRequest \in [Runner!Upgrade -> {"none", "packing", "asking", "streaming",
            "waiting",
                                     "done", "failed"}]
        /\ upgradeSent \in [Runner!Upgrade -> 0..Pieces]
            /\ written \in [Runner!Upgrade -> 0..Pieces]
        /\ ending \in [Runner!Upgrade -> {"no", "closing", "unpacking", "switching", "switched"}]
    BY <2>1 DEF Runner!Init
  <2> QED
    BY <2>3, <2>4 DEF Runner!Init, Runner!TypeOK
<1>3. \A u \in Runner!Upgrade : \A x : ~In(u, x) /\ ~Out(u, x) /\ Coming(u, x) = 0
  BY <1>1, OccursEmpty DEF In, Out, Coming
<1>4. \A u \in Runner!Upgrade : UpgradeOk(u)
  BY <1>3 DEF UpgradeOk, UpgradeUntouched, BegunOnce, ChunksFit, WholeWhenUsed, Runner!Init,
     UpgradeBounded,
      Runner!Upgrade
<1>5. crashes <= Cardinality(Failed)
  <2>1. Failed = {}
    BY DEF Runner!Init, Failed
  <2> QED
    BY <2>1, FS_EmptySet DEF Runner!Init
<1> QED
  BY <1>2, <1>4, <1>5 DEF UpgradeInv

-----------------------------------------------------------------------------
UpgradeRequests == {"none", "packing", "asking", "streaming", "waiting", "done", "failed"}
Endings == {"no", "closing", "unpacking", "switching", "switched"}

LEMMA OneUpgrade ==
    ASSUME UpgradeBounded, UpgradeInv, Runner!TypeOK', NEW u \in Runner!Upgrade,
           \A v \in Runner!Upgrade : v # u => Calm(v),
           Calm(u) \/ UpgradeOk(u)', crashes' = crashes,
           \A v \in Runner!Upgrade : upgradeRequest[v] = "failed" => upgradeRequest'[v] = "failed"
    PROVE  UpgradeInv'
<1>1. \A v \in Runner!Upgrade : \A m : Coming(v, m)' \in Nat
  BY CountType DEF Runner!TypeOK, Coming
<1>2. \A v \in Runner!Upgrade : Calm(v) => UpgradeOk(v)'
  BY <1>1, CalmKeeps DEF UpgradeInv
<1>3. crashes' <= Cardinality(Failed)'
  BY CrashesFit DEF Runner!TypeOK
<1> QED
  BY <1>2, <1>3 DEF UpgradeInv

LEMMA AllCalm ==
    ASSUME UpgradeBounded, UpgradeInv, Runner!TypeOK', \A v \in Runner!Upgrade : Calm(v),
           crashes' <= Cardinality(Failed)'
    PROVE  UpgradeInv'
<1>1. \A v \in Runner!Upgrade : \A m : Coming(v, m)' \in Nat
  BY CountType DEF Runner!TypeOK, Coming
<1> QED
  BY <1>1, CalmKeeps DEF UpgradeInv

LEMMA SameWires ==
    /\ upgradeToRunner' = upgradeToRunner => \A v, m : In(v, m)' = In(v, m)
        /\ Coming(v, m)' = Coming(v, m)
    /\ upgradeToHost' = upgradeToHost => \A v, a : Out(v, a)' = Out(v, a)
BY DEF In, Coming, Out

\* Requests fail, and nothing else happens to upgrades.
LEMMA RequestsFail ==
    ASSUME UpgradeBounded, UpgradeInv, upgradeRequest' \in [Runner!Upgrade -> UpgradeRequests],
           \A v \in Runner!Upgrade : upgradeRequest'[v] = upgradeRequest[v]
               \/ (upgradeRequest[v] # "done" /\ upgradeRequest'[v] = "failed"),
           bundle' \in {"none", "packing", "cached"},
           UNCHANGED <<upgradeLink, upgradeFaults, upgradeSent, upgradeToRunner, upgradeToHost,
               crashes, Runner!runnerVars>>
    PROVE  UpgradeInv'
<1>1. \A v \in Runner!Upgrade : \A m : In(v, m)' = In(v, m) /\ Coming(v, m)' = Coming(v, m)
          /\ Coming(v, m) \in Nat
  BY SameWires, WireTypes DEF UpgradeInv
<1>2. \A v \in Runner!Upgrade : \A a : Out(v, a)' = Out(v, a)
  BY SameWires
<1>3. \A v \in Runner!Upgrade : \A m : Coming(v, m)' <= Coming(v, m)
  BY <1>1
<1>4. \A v \in Runner!Upgrade : Calm(v)
  BY <1>1, <1>2, <1>3 DEF Calm, Runner!runnerVars
<1>5. Runner!TypeOK'
  BY DEF UpgradeInv, Runner!TypeOK, Runner!runnerVars, UpgradeRequests
<1>6. crashes' <= Cardinality(Failed)'
  BY CrashesFit DEF UpgradeRequests
<1> QED
  BY <1>4, <1>5, <1>6, AllCalm

\* The connection goes, and requests fail with it.
LEMMA WiresEmptied ==
    ASSUME UpgradeInv, Drained, UNCHANGED <<upgradeSent, written, upgradeCurrent>>,
           \A v \in Runner!Upgrade :
             /\ upgradeRequest'[v] = upgradeRequest[v]
                 \/ (upgradeRequest[v] # "done" /\ upgradeRequest'[v] = "failed")
             /\ v \in opening' => v \in opening
             /\ transfer' = v => transfer = v
             /\ ending'[v] \in {ending[v], "no"}
    PROVE  \A v \in Runner!Upgrade : Calm(v)
<1>1. \A v \in Runner!Upgrade, m \in Runner!Message : ~In(v, m)' /\ Coming(v, m)' = 0
        /\ Coming(v, m) \in Nat
  BY WireTypes DEF UpgradeInv, Drained
<1>2. \A v \in Runner!Upgrade, a \in Runner!Answer : ~Out(v, a)'
  BY DEF Drained
<1>3. \A v \in Runner!Upgrade, m \in Runner!Message : Coming(v, m)' <= Coming(v, m)
  BY <1>1
<1> QED
  BY <1>1, <1>2, <1>3 DEF Calm

LEMMA HostEndsKeeps ==
    ASSUME UpgradeBounded, UpgradeInv, Runner!HostEnds, UNCHANGED Runner!runnerVars,
           NEW u \in Runner!Upgrade, upgradeRequest[u] = "streaming"
    PROVE  UpgradeInv'
<1>1. /\ upgradeRequest' \in [Runner!Upgrade -> UpgradeRequests] /\ crashes' = crashes + 1
      /\ \A v \in Runner!Upgrade : upgradeRequest'[v] =
           IF upgradeRequest[v] \in {"none", "done", "failed"} THEN upgradeRequest[v] ELSE "failed"
      /\ upgradeToRunner' = <<>> /\ upgradeToHost' = <<>>
          /\ UNCHANGED <<upgradeSent, upgradeFaults>>
  BY DEF Runner!HostEnds, UpgradeInv, Runner!TypeOK, UpgradeRequests
<1>2. /\ Drained /\ upgradeToRunner' \in Seq(Runner!Message \X Runner!Upgrade)
          /\ upgradeToHost' \in Seq(Runner!Answer \X Runner!Upgrade)
  BY <1>1, DrainFacts
<1>3. crashes' \in 0..MaxUpgrades /\ crashes' <= Cardinality(Failed)'
  BY <1>1, CrashesFit DEF UpgradeRequests
<1>4. Runner!TypeOK'
  BY <1>1, <1>2, <1>3 DEF Runner!HostEnds, UpgradeInv, Runner!TypeOK, Runner!runnerVars,
     UpgradeRequests
<1>5. \A v \in Runner!Upgrade : Calm(v)
  BY <1>1, <1>2, WiresEmptied DEF Runner!runnerVars
<1> QED
  BY <1>3, <1>4, <1>5, AllCalm

LEMMA UpgradeAskKeeps ==
    ASSUME UpgradeBounded, UpgradeInv, NEW u \in Runner!Upgrade, Runner!Ask(u)
    PROVE  UpgradeInv'
<1>1. /\ upgradeRequest' \in [Runner!Upgrade -> UpgradeRequests]
          /\ upgradeRequest'[u] = "packing" /\ upgradeRequest[u] = "none"
      /\ \A v \in Runner!Upgrade : v # u => upgradeRequest'[v] = upgradeRequest[v]
      /\ UNCHANGED <<upgradeSent, upgradeToRunner, upgradeToHost, crashes, Runner!runnerVars>>
  BY DEF Runner!Ask, Runner!Goes, UpgradeInv, Runner!TypeOK, UpgradeRequests
<1>2. Runner!TypeOK'
  BY <1>1 DEF Runner!Ask, UpgradeInv, Runner!TypeOK, Runner!runnerVars, UpgradeRequests
<1>3. \A v \in Runner!Upgrade : \A m : In(v, m)' = In(v, m) /\ Coming(v, m)' = Coming(v, m)
          /\ Coming(v, m) \in Nat
  BY <1>1, SameWires, WireTypes DEF UpgradeInv
<1>4. \A v \in Runner!Upgrade : \A a : Out(v, a)' = Out(v, a)
  BY <1>1, SameWires
<1>5. \A v \in Runner!Upgrade : v # u => Calm(v)
  BY <1>3, <1>1, <1>4 DEF Calm, Runner!runnerVars
<1>6. UpgradeOk(u)'
  BY <1>1, <1>3, <1>4 DEF UpgradeInv, UpgradeOk, UpgradeUntouched, BegunOnce,
     Runner!runnerVars, Runner!Message, ChunksFit, WholeWhenUsed
<1>7. \A v \in Runner!Upgrade : upgradeRequest[v] = "failed" => upgradeRequest'[v] = "failed"
  BY <1>1
<1> QED
  BY <1>1, <1>2, <1>5, <1>6, <1>7, OneUpgrade

LEMMA PackKeeps ==
    ASSUME UpgradeBounded, UpgradeInv, Runner!Packed \/ Runner!PackFails
    PROVE  UpgradeInv'
<1>1. /\ upgradeRequest' \in [Runner!Upgrade -> UpgradeRequests]
          /\ bundle' \in {"none", "packing", "cached"}
      /\ \A v \in Runner!Upgrade : upgradeRequest'[v] = upgradeRequest[v]
          \/ (upgradeRequest[v] # "done" /\ upgradeRequest'[v] = "failed")
      /\ UNCHANGED <<upgradeLink, upgradeFaults, upgradeSent, upgradeToRunner, upgradeToHost,
          crashes, Runner!runnerVars>>
  BY DEF Runner!Packed, Runner!PackFails, UpgradeInv, Runner!TypeOK, UpgradeRequests
<1> QED
  BY <1>1, RequestsFail

LEMMA UpgradeTimesOutKeeps ==
    ASSUME UpgradeBounded, UpgradeInv, NEW u \in Runner!Upgrade, Runner!TimesOut(u)
    PROVE  UpgradeInv'
<1>1. CASE upgradeRequest[u] = "streaming" /\ Runner!HostEnds
  BY <1>1, HostEndsKeeps DEF Runner!TimesOut
<1>2. CASE ~(upgradeRequest[u] = "streaming" /\ Runner!HostEnds)
  BY <1>2, RequestsFail DEF Runner!TimesOut, Runner!Goes, UpgradeInv, Runner!TypeOK,
     UpgradeRequests
<1> QED
  BY <1>1, <1>2

\* The host sends message x for upgrade u.
LEMMA HostTells ==
    ASSUME UpgradeBounded, UpgradeInv, NEW u \in Runner!Upgrade, NEW x \in Runner!Message,
             Runner!Tell(u, x),
           upgradeSent' \in [Runner!Upgrade -> 0..Pieces], NEW to \in UpgradeRequests,
               Runner!Goes(u, to),
           \A v \in Runner!Upgrade : v # u => upgradeSent'[v] = upgradeSent[v],
           upgradeRequest[u] \notin {"done", "failed"},
           UNCHANGED <<upgradeLink, upgradeFaults, bundle, upgradeToHost, crashes,
               Runner!runnerVars>>, UpgradeOk(u)'
    PROVE  UpgradeInv'
<1>1. UpgradeTold(u, x) /\ upgradeToRunner' \in Seq(Runner!Message \X Runner!Upgrade)
  BY TellFacts DEF UpgradeInv
<1>2. /\ upgradeRequest' \in [Runner!Upgrade -> UpgradeRequests]
      /\ \A v \in Runner!Upgrade : v # u => upgradeRequest'[v] = upgradeRequest[v]
      /\ \A v \in Runner!Upgrade : upgradeRequest[v] = "failed" => upgradeRequest'[v] = "failed"
  BY DEF Runner!Goes, UpgradeInv, Runner!TypeOK, UpgradeRequests
<1>3. Runner!TypeOK'
  BY <1>1, <1>2 DEF UpgradeInv, Runner!TypeOK, Runner!runnerVars, UpgradeRequests
<1>4. \A v \in Runner!Upgrade : v # u => Calm(v)
  BY <1>1, WireTypes, SameWires, <1>2 DEF UpgradeTold, UpgradeInv, Calm, Runner!runnerVars
<1> QED
  BY <1>2, <1>3, <1>4, OneUpgrade

LEMMA OfferKeeps ==
    ASSUME UpgradeBounded, UpgradeInv, NEW u \in Runner!Upgrade, Runner!Offer(u)
    PROVE  UpgradeInv'
<1>1. CASE upgradeLink
  <2>1. /\ upgradeRequest[u] = "packing" /\ Runner!Goes(u, "asking") /\ Runner!Tell(u, "start")
        /\ UNCHANGED <<upgradeLink, upgradeFaults, upgradeSent, bundle, upgradeToHost, crashes,
            Runner!runnerVars>>
    BY <1>1 DEF Runner!Offer
  <2>2. "start" \in Runner!Message /\ "chunk" \in Runner!Message /\ "asking" \in UpgradeRequests
    BY DEF Runner!Message, UpgradeRequests
  <2>3. UpgradeTold(u, "start")
    BY <2>1, <2>2, TellFacts DEF UpgradeInv
  <2>4. upgradeRequest'[u] = "asking"
    BY <2>1 DEF Runner!Goes, UpgradeInv, Runner!TypeOK
  <2>5. /\ Coming(u, "start") = 0 /\ Coming(u, "start")' = 1
        /\ Coming(u, "chunk")' = Coming(u, "chunk")
    BY <2>1, <2>2, WireTypes, <2>3 DEF UpgradeInv, UpgradeOk, UpgradeUntouched, UpgradeTold
  <2>6. /\ u \notin opening /\ transfer # u /\ ending[u] = "no"
        /\ ~Out(u, "accepted") /\ ~Out(u, "received")
    BY <2>1 DEF UpgradeInv, UpgradeOk, UpgradeUntouched, Runner!Answer
  <2>7. ~Out(u, "accepted")' /\ ~Out(u, "received")'
    BY <2>1, <2>6, SameWires
  <2>8. UpgradeOk(u)'
    BY <2>1, <2>4, <2>5, <2>6, <2>7 DEF UpgradeUntouched, BegunOnce, Runner!runnerVars,
       UpgradeInv, UpgradeOk, ChunksFit, WholeWhenUsed
  <2>9. upgradeSent' \in [Runner!Upgrade -> 0..Pieces]
    BY <2>1 DEF UpgradeInv, Runner!TypeOK
  <2> QED
    BY <2>1, <2>2, <2>8, <2>9, HostTells
<1>2. CASE ~upgradeLink
  BY <1>2, RequestsFail DEF Runner!Offer, Runner!Goes, UpgradeInv, Runner!TypeOK,
     UpgradeRequests
<1> QED
  BY <1>1, <1>2

LEMMA StreamKeeps ==
    ASSUME UpgradeBounded, UpgradeInv, NEW u \in Runner!Upgrade, Runner!Stream(u)
    PROVE  UpgradeInv'
<1>1. /\ upgradeRequest[u] = "streaming"
          /\ UNCHANGED <<upgradeLink, upgradeFaults, bundle, upgradeToHost, crashes,
              Runner!runnerVars>>
  BY DEF Runner!Stream
<1>2. UpgradeOk(u) /\ upgradeSent[u] \in 0..Pieces /\ written[u] \in Nat
      /\ upgradeSent \in [Runner!Upgrade -> 0..Pieces]
          /\ upgradeRequest \in [Runner!Upgrade -> UpgradeRequests]
  BY DEF UpgradeInv, Runner!TypeOK, UpgradeRequests
<1>3. /\ Coming(u, "start") = 0 /\ Coming(u, "chunk") \in Nat
      /\ ~In(u, "start") /\ u \notin opening
  BY <1>1, <1>2, WireTypes DEF UpgradeOk, BegunOnce, UpgradeInv
<1>4. \A a : Out(u, a)' = Out(u, a)
  BY <1>1, SameWires
<1>5. CASE upgradeSent[u] < Pieces
  <2>1. /\ Runner!Tell(u, "chunk") /\ upgradeSent' = [upgradeSent EXCEPT ![u] = @ + 1]
            /\ Runner!Goes(u, "streaming")
    BY <1>1, <1>2, <1>5 DEF Runner!Stream, Runner!Goes
  <2>2. "chunk" \in Runner!Message /\ "start" \in Runner!Message
          /\ "streaming" \in UpgradeRequests
    BY DEF Runner!Message, UpgradeRequests
  <2>3. UpgradeTold(u, "chunk")
    BY <2>1, <2>2, TellFacts DEF UpgradeInv
  <2>4. /\ upgradeSent' \in [Runner!Upgrade -> 0..Pieces] /\ upgradeSent'[u] = upgradeSent[u] + 1
        /\ \A v \in Runner!Upgrade : v # u => upgradeSent'[v] = upgradeSent[v]
        /\ upgradeRequest'[u] = "streaming"
    BY <1>1, <1>2, <1>5, <2>1 DEF UpgradeBounded, Runner!Goes
  <2>5. /\ Coming(u, "start")' = 0 /\ ~In(u, "start")'
        /\ Coming(u, "chunk")' = Coming(u, "chunk") + 1
    BY <1>3, <2>2, <2>3 DEF UpgradeTold
  <2>6. UpgradeUntouched(u)' /\ BegunOnce(u)'
    BY <1>1, <1>3, <2>4, <2>5 DEF UpgradeUntouched, BegunOnce, Runner!runnerVars
  <2>7. ChunksFit(u)'
    BY <1>1, <1>2, <1>3, <2>4, <2>5 DEF UpgradeOk, ChunksFit, Runner!runnerVars
  <2>8. WholeWhenUsed(u)'
    BY <1>1, <1>2, <1>4, <2>4 DEF UpgradeOk, WholeWhenUsed, Runner!runnerVars
  <2>9. UpgradeOk(u)'
    BY <2>6, <2>7, <2>8 DEF UpgradeOk
  <2> QED
    BY <1>1, <2>1, <2>2, <2>4, <2>9, HostTells
<1>6. CASE ~(upgradeSent[u] < Pieces)
  <2>1. Runner!Tell(u, "end") /\ Runner!Goes(u, "waiting") /\ upgradeSent' = upgradeSent
    BY <1>6 DEF Runner!Stream
  <2>2. "end" \in Runner!Message /\ "chunk" \in Runner!Message /\ "start" \in Runner!Message
          /\ "waiting" \in UpgradeRequests
    BY DEF Runner!Message, UpgradeRequests
  <2>3. UpgradeTold(u, "end")
    BY <2>1, <2>2, TellFacts DEF UpgradeInv
  <2>4. upgradeRequest'[u] = "waiting"
    BY <1>2, <2>1 DEF Runner!Goes
  <2>5. /\ Coming(u, "start")' = 0 /\ ~In(u, "start")' /\ Coming(u, "chunk")' = Coming(u, "chunk")
    BY <1>3, <2>2, <2>3 DEF UpgradeTold
  <2>6. UpgradeUntouched(u)' /\ BegunOnce(u)'
    BY <1>1, <1>3, <2>4, <2>5 DEF UpgradeUntouched, BegunOnce, Runner!runnerVars
  <2>7. ChunksFit(u)' /\ WholeWhenUsed(u)'
    BY <1>1, <1>2, <1>4, <2>1, <2>4, <2>5 DEF UpgradeOk, ChunksFit, WholeWhenUsed,
       Runner!runnerVars
  <2>8. UpgradeOk(u)'
    BY <2>6, <2>7 DEF UpgradeOk
  <2> QED
    BY <1>1, <1>2, <2>1, <2>2, <2>8, HostTells
<1> QED
  BY <1>5, <1>6

LEMMA StreamFailsKeeps ==
    ASSUME UpgradeBounded, UpgradeInv, NEW u \in Runner!Upgrade, Runner!StreamFails(u)
    PROVE  UpgradeInv'
<1>1. /\ upgradeRequest[u] = "streaming" /\ Runner!Goes(u, "failed")
      /\ UNCHANGED <<upgradeLink, upgradeFaults, upgradeSent, bundle, upgradeToHost, crashes,
          Runner!runnerVars>>
  BY DEF Runner!StreamFails
<1>2. UpgradeOk(u) /\ upgradeSent \in [Runner!Upgrade -> 0..Pieces]
        /\ upgradeRequest \in [Runner!Upgrade -> UpgradeRequests]
      /\ upgradeRequest'[u] = "failed"
  BY <1>1 DEF UpgradeInv, Runner!TypeOK, UpgradeRequests, Runner!Goes
<1>3. CASE Runner!Tell(u, "abort")
  <2>1. "abort" \in Runner!Message /\ "chunk" \in Runner!Message /\ "start" \in Runner!Message
          /\ "failed" \in UpgradeRequests
    BY DEF Runner!Message, UpgradeRequests
  <2>2. UpgradeTold(u, "abort")
    BY <1>3, <2>1, TellFacts DEF UpgradeInv
  <2>3. /\ Coming(u, "start")' = Coming(u, "start") /\ Coming(u, "chunk")' = Coming(u, "chunk")
        /\ (In(u, "start")' <=> In(u, "start"))
    BY <2>1, <2>2 DEF UpgradeTold
  <2>4. \A a : Out(u, a)' = Out(u, a)
    BY <1>1, SameWires
  <2>5. UpgradeOk(u)'
    BY <1>1, <1>2, <2>3, <2>4 DEF UpgradeOk, UpgradeUntouched, BegunOnce, ChunksFit,
       WholeWhenUsed, Runner!runnerVars
  <2> QED
    BY <1>1, <1>2, <1>3, <2>1, <2>5, HostTells
<1>4. CASE upgradeToRunner' = upgradeToRunner
  BY <1>1, <1>2, <1>4, RequestsFail DEF Runner!Goes, UpgradeRequests, UpgradeInv, Runner!TypeOK
<1> QED
  BY <1>3, <1>4 DEF Runner!StreamFails

\* A report of the runner about u is read: it settles what waits for it.
LEMMA HostReceivesKeeps ==
    ASSUME UpgradeBounded, UpgradeInv, Runner!HostReceives
    PROVE  UpgradeInv'
<1>0. PICK type \in Runner!Answer, u \in Runner!Upgrade : Head(upgradeToHost) = <<type, u>>
  BY HeadFacts DEF Runner!HostReceives, UpgradeInv
<1>1. Out(u, type) /\ UNCHANGED Runner!runnerVars /\ Head(upgradeToHost)[1] = type
        /\ Head(upgradeToHost)[2] = u
  BY <1>0, HeadFacts DEF Runner!HostReceives, UpgradeInv
<1>2. CASE upgradeRequest[u] = "streaming" /\ Runner!HostEnds
  BY <1>1, <1>2, HostEndsKeeps
<1>3. CASE /\ upgradeToHost' = Tail(upgradeToHost)
           /\ UNCHANGED <<upgradeLink, upgradeFaults, upgradeSent, bundle, upgradeToRunner,
               crashes>>
           /\ \/ type = "accepted" /\ upgradeRequest[u] = "asking" /\ Runner!Goes(u, "streaming")
              \/ type = "received" /\ upgradeRequest[u] = "waiting" /\ Runner!Goes(u, "done")
              \/ upgradeRequest[u] \in {"asking", "waiting"} /\ Runner!Goes(u, "failed")
              \/ upgradeRequest' = upgradeRequest
  <2>1. upgradeToHost' \in Seq(Runner!Answer \X Runner!Upgrade) /\ \A v \in Runner!Upgrade,
          a \in Runner!Answer : Out(v, a)' => Out(v, a)
    BY <1>3, HeadFacts DEF Runner!HostReceives, UpgradeInv
  <2>2. \A v \in Runner!Upgrade : \A m : In(v, m)' = In(v, m) /\ Coming(v, m)' = Coming(v, m)
            /\ Coming(v, m) \in Nat
    BY <1>3, SameWires, WireTypes DEF UpgradeInv
  <2>3. \A v \in Runner!Upgrade : \A m : Coming(v, m)' <= Coming(v, m)
    BY <2>2
  <2>4. /\ upgradeRequest' \in [Runner!Upgrade -> UpgradeRequests]
        /\ \A v \in Runner!Upgrade : v # u => upgradeRequest'[v] = upgradeRequest[v]
        /\ \A v \in Runner!Upgrade : upgradeRequest[v] = "failed" => upgradeRequest'[v] = "failed"
    BY <1>1, <1>3 DEF Runner!Goes, UpgradeInv, Runner!TypeOK, UpgradeRequests
  <2>5. Runner!TypeOK'
    BY <1>1, <1>3, <2>1, <2>4 DEF UpgradeInv, Runner!TypeOK, Runner!runnerVars,
       UpgradeRequests
  <2>6. \A v \in Runner!Upgrade : upgradeRequest'[v] = upgradeRequest[v] => Calm(v)
    BY <1>1, <1>3, <2>1, <2>2, <2>3 DEF Calm, Runner!runnerVars
  <2>7. Calm(u) \/ UpgradeOk(u)'
    <3>1. CASE type = "accepted" /\ upgradeRequest[u] = "asking" /\ Runner!Goes(u, "streaming")
      <4>1. upgradeRequest'[u] = "streaming" /\ UpgradeOk(u)
        BY <1>1, <3>1 DEF Runner!Goes, UpgradeInv, Runner!TypeOK
      <4>2. ~In(u, "start") /\ u \notin opening
        BY <1>1, <3>1, <4>1 DEF UpgradeOk, BegunOnce
      <4>3. UpgradeUntouched(u)' /\ BegunOnce(u)'
        BY <1>1, <2>2, <4>1, <4>2 DEF UpgradeOk, UpgradeUntouched, BegunOnce,
           Runner!runnerVars
      <4>4. ChunksFit(u)'
        BY <1>1, <1>3, <2>2, <4>1 DEF UpgradeOk, ChunksFit, Runner!runnerVars
      <4>5. WholeWhenUsed(u)'
        BY <1>1, <2>1, <4>1 DEF UpgradeOk, WholeWhenUsed, Runner!runnerVars, Runner!Answer
      <4> QED
        BY <4>3, <4>4, <4>5 DEF UpgradeOk
    <3>2. CASE type = "received" /\ upgradeRequest[u] = "waiting" /\ Runner!Goes(u, "done")
      <4>1. upgradeRequest'[u] = "done" /\ UpgradeOk(u)
        BY <1>1, <3>2 DEF Runner!Goes, UpgradeInv, Runner!TypeOK
      <4>2. ~In(u, "start") /\ u \notin opening
        BY <1>1, <3>2, <4>1 DEF UpgradeOk, BegunOnce
      <4>3. UpgradeUntouched(u)' /\ BegunOnce(u)'
        BY <1>1, <2>2, <4>1, <4>2 DEF UpgradeOk, UpgradeUntouched, BegunOnce,
           Runner!runnerVars
      <4>4. ChunksFit(u)'
        BY <1>1, <1>3, <2>2, <4>1 DEF UpgradeOk, ChunksFit, Runner!runnerVars
      <4>5. WholeWhenUsed(u)'
        BY <1>1, <2>1, <3>2, <4>1 DEF UpgradeOk, WholeWhenUsed, Runner!runnerVars,
           Runner!Answer
      <4> QED
        BY <4>3, <4>4, <4>5 DEF UpgradeOk
    <3>3. CASE upgradeRequest[u] \in {"asking", "waiting"} /\ Runner!Goes(u, "failed")
      BY <1>1, <3>3, <1>3, <2>1, <2>2, <2>3 DEF Runner!Goes, UpgradeInv, Runner!TypeOK, Calm,
         Runner!runnerVars
    <3>4. CASE upgradeRequest' = upgradeRequest
      BY <1>1, <2>6, <3>4
    <3> QED
      BY <1>3, <3>1, <3>2, <3>3, <3>4
  <2>8. \A v \in Runner!Upgrade : v # u => Calm(v)
    BY <2>4, <2>6
  <2>9. crashes' = crashes
    BY <1>3
  <2> QED
    BY <1>1, <2>4, <2>5, <2>7, <2>8, <2>9, OneUpgrade
<1>4. \/ upgradeRequest[u] = "streaming" /\ Runner!HostEnds
      \/ /\ upgradeToHost' = Tail(upgradeToHost)
         /\ UNCHANGED <<upgradeLink, upgradeFaults, upgradeSent, bundle, upgradeToRunner, crashes>>
         /\ \/ type = "accepted" /\ upgradeRequest[u] = "asking" /\ Runner!Goes(u, "streaming")
            \/ type = "received" /\ upgradeRequest[u] = "waiting" /\ Runner!Goes(u, "done")
            \/ upgradeRequest[u] \in {"asking", "waiting"} /\ Runner!Goes(u, "failed")
            \/ upgradeRequest' = upgradeRequest
  BY <1>1 DEF Runner!HostReceives, Runner!Goes, Runner!Rejected, Runner!Answer
<1> QED
  BY <1>2, <1>3, <1>4

-----------------------------------------------------------------------------
\* What the runner does for upgrade u leaves the others alone.
Apart(u) ==
    /\ UNCHANGED <<upgradeRequest, upgradeSent, crashes>>
    /\ \A v \in Runner!Upgrade, m \in Runner!Message :
         (In(v, m)' => In(v, m)) /\ Coming(v, m)' <= Coming(v, m)
    /\ \A v \in Runner!Upgrade, a \in Runner!Answer : v # u => (Out(v, a)' => Out(v, a))
    /\ opening' \subseteq opening \cup {u} /\ transfer' \in {transfer, None, u}
    /\ \A v \in Runner!Upgrade : v # u => ending'[v] = ending[v] /\ written'[v] = written[v]
    /\ upgradeCurrent => upgradeCurrent'

LEMMA RunnerKeeps ==
    ASSUME UpgradeBounded, UpgradeInv, Runner!TypeOK', NEW u \in Runner!Upgrade, Apart(u),
             UpgradeOk(u)'
    PROVE  UpgradeInv'
<1>1. \A v \in Runner!Upgrade : v \in Nat
  BY DEF Runner!Upgrade
<1>2. \A v \in Runner!Upgrade : v # u => Calm(v)
  BY <1>1 DEF Apart, Calm, UpgradeBounded
<1> QED
  BY <1>2, OneUpgrade DEF Apart

LEMMA TookCalms ==
    ASSUME UpgradeInv, NEW u \in Runner!Upgrade, NEW x \in Runner!Message, Runner!Receives(u, x)
    PROVE  /\ In(u, x) /\ Coming(u, x) = Coming(u, x)' + 1 /\ Coming(u, x)' \in Nat
           /\ \A m \in Runner!Message : m # x => Coming(u, m)' = Coming(u, m)
           /\ \A v \in Runner!Upgrade, m \in Runner!Message :
                (In(v, m)' => In(v, m)) /\ Coming(v, m)' <= Coming(v, m)
           /\ upgradeToRunner' \in Seq(Runner!Message \X Runner!Upgrade)
           /\ upgradeRequest[u] \notin {"none", "packing"}
<1>1. Took(u, x) /\ upgradeToRunner' \in Seq(Runner!Message \X Runner!Upgrade)
  BY ReceiveFacts DEF UpgradeInv
<1>2. \A v \in Runner!Upgrade, m \in Runner!Message : Coming(v, m)' \in Nat
  BY <1>1, CountType DEF Coming
<1>3. \A v \in Runner!Upgrade, m \in Runner!Message : Coming(v, m)' <= Coming(v, m)
  <2>1. \A v \in Runner!Upgrade, m \in Runner!Message :
          Coming(v, m) = Coming(v, m)' + 1 \/ Coming(v, m) = Coming(v, m)'
    BY <1>1 DEF Took
  <2> QED
    BY <1>2, <2>1
<1>4. \A m \in Runner!Message : m # x => Coming(u, m)' = Coming(u, m)
  BY <1>1 DEF Took
<1>5. upgradeRequest[u] \notin {"none", "packing"}
  BY <1>1 DEF Took, UpgradeInv, UpgradeOk, UpgradeUntouched
<1> QED
  BY <1>1, <1>2, <1>3, <1>4, <1>5 DEF Took

LEMMA SameCalms ==
    ASSUME UpgradeInv, upgradeToRunner' = upgradeToRunner
    PROVE  /\ \A v \in Runner!Upgrade, m \in Runner!Message :
                (In(v, m)' => In(v, m)) /\ Coming(v, m)' <= Coming(v, m)
           /\ \A v \in Runner!Upgrade, m \in Runner!Message :
                In(v, m)' = In(v, m) /\ Coming(v, m)' = Coming(v, m)
           /\ upgradeToRunner' \in Seq(Runner!Message \X Runner!Upgrade)
<1>1. \A v \in Runner!Upgrade : \A m : In(v, m)' = In(v, m) /\ Coming(v, m)' = Coming(v, m)
          /\ Coming(v, m) \in Nat
  BY SameWires, WireTypes DEF UpgradeInv
<1>2. \A v \in Runner!Upgrade : \A m : Coming(v, m)' <= Coming(v, m)
  BY <1>1
<1> QED
  BY <1>1, <1>2 DEF UpgradeInv, Runner!TypeOK

LEMMA HostHears ==
    ASSUME UpgradeInv, NEW u \in Runner!Upgrade, NEW x \in Runner!Answer, Runner!Report(u, x)
             \/ upgradeToHost' = upgradeToHost
    PROVE  /\ \A v \in Runner!Upgrade, a \in Runner!Answer : v # u => (Out(v, a)' => Out(v, a))
           /\ \A a \in Runner!Answer : a # x => (Out(u, a)' => Out(u, a))
           /\ upgradeToHost' = upgradeToHost => \A a \in Runner!Answer : Out(u, a)' = Out(u, a)
           /\ upgradeToHost' \in Seq(Runner!Answer \X Runner!Upgrade)
<1>1. CASE Runner!Report(u, x)
  BY <1>1, UpgradeReportFacts, SameWires DEF UpgradeInv, UpgradeReported
<1>2. CASE upgradeToHost' = upgradeToHost
  BY <1>2, SameWires DEF UpgradeInv, Runner!TypeOK
<1> QED
  BY <1>1, <1>2

LEMMA BeginKeeps ==
    ASSUME UpgradeBounded, UpgradeInv, NEW u \in Runner!Upgrade, Runner!Begin(u)
    PROVE  UpgradeInv'
<1>1. /\ Runner!Receives(u, "start")
          /\ (Runner!Report(u, "rejected") \/ upgradeToHost' = upgradeToHost)
      /\ opening' = opening \/ (opening' = opening \cup {u} /\ upgradeToHost' = upgradeToHost)
      /\ UNCHANGED <<upgradeLink, upgradeFaults, Runner!hostVars, transfer, written, ending,
          release, upgradeCurrent, restarting>>
  BY DEF Runner!Begin
<1>2. /\ "start" \in Runner!Message /\ "chunk" \in Runner!Message /\ "rejected" \in Runner!Answer
      /\ "accepted" \in Runner!Answer /\ "received" \in Runner!Answer
  BY DEF Runner!Message, Runner!Answer
<1>3. /\ In(u, "start") /\ Coming(u, "start") = Coming(u, "start")' + 1
      /\ Coming(u, "start")' \in Nat /\ Coming(u, "chunk")' = Coming(u, "chunk")
      /\ \A v \in Runner!Upgrade, m \in Runner!Message :
           (In(v, m)' => In(v, m)) /\ Coming(v, m)' <= Coming(v, m)
      /\ upgradeToRunner' \in Seq(Runner!Message \X Runner!Upgrade)
  BY <1>1, <1>2, TookCalms
<1>4. /\ \A v \in Runner!Upgrade, a \in Runner!Answer : v # u => (Out(v, a)' => Out(v, a))
      /\ (Out(u, "accepted")' => Out(u, "accepted")) /\ (Out(u, "received")' => Out(u, "received"))
      /\ upgradeToHost' \in Seq(Runner!Answer \X Runner!Upgrade)
  BY <1>1, <1>2, HostHears
<1>5. Runner!TypeOK'
  BY <1>1, <1>3, <1>4 DEF UpgradeInv, Runner!TypeOK, Runner!hostVars
<1>6. Apart(u)
  BY <1>1, <1>3, <1>4 DEF Apart, Runner!hostVars
<1>7. UpgradeOk(u)'
  BY <1>3, <1>4, <1>1 DEF UpgradeInv, UpgradeOk, BegunOnce, UpgradeUntouched, Runner!hostVars,
     ChunksFit, WholeWhenUsed
<1> QED
  BY <1>5, <1>6, <1>7, RunnerKeeps

LEMMA OpenedKeeps ==
    ASSUME UpgradeBounded, UpgradeInv, NEW u \in Runner!Upgrade, Runner!Opened(u)
    PROVE  UpgradeInv'
<1>1. /\ u \in opening /\ opening' = opening \ {u} /\ transfer' = u
      /\ written' = [written EXCEPT ![u] = 0] /\ Runner!Report(u, "accepted")
      /\ UNCHANGED <<upgradeLink, upgradeFaults, Runner!hostVars, upgradeToRunner, ending, release,
          upgradeCurrent, restarting>>
  BY DEF Runner!Opened
<1>2. /\ "start" \in Runner!Message /\ "chunk" \in Runner!Message
      /\ "accepted" \in Runner!Answer /\ "received" \in Runner!Answer
  BY DEF Runner!Message, Runner!Answer
<1>3. /\ \A v \in Runner!Upgrade, m \in Runner!Message :
           (In(v, m)' => In(v, m)) /\ Coming(v, m)' <= Coming(v, m)
      /\ In(u, "start")' = In(u, "start") /\ Coming(u, "start")' = Coming(u, "start")
      /\ Coming(u, "chunk")' = Coming(u, "chunk")
          /\ upgradeToRunner' \in Seq(Runner!Message \X Runner!Upgrade)
  BY <1>1, <1>2, SameCalms
<1>4. /\ \A v \in Runner!Upgrade, a \in Runner!Answer : v # u => (Out(v, a)' => Out(v, a))
      /\ (Out(u, "received")' => Out(u, "received"))
      /\ upgradeToHost' \in Seq(Runner!Answer \X Runner!Upgrade)
  BY <1>1, <1>2, HostHears
<1>5. written' \in [Runner!Upgrade -> 0..Pieces] /\ written'[u] = 0
      /\ \A v \in Runner!Upgrade : v # u => written'[v] = written[v]
  BY <1>1 DEF UpgradeBounded, UpgradeInv, Runner!TypeOK
<1>6. Runner!TypeOK'
  BY <1>1, <1>3, <1>4, <1>5 DEF UpgradeInv, Runner!TypeOK, Runner!hostVars
<1>7. Apart(u)
  BY <1>1, <1>3, <1>4, <1>5 DEF Apart, Runner!hostVars
<1>8. UpgradeOk(u)'
  <2>1. UpgradeOk(u) /\ upgradeSent[u] \in Nat /\ written[u] \in Nat /\ Coming(u, "chunk") \in Nat
    BY WireTypes DEF UpgradeInv, Runner!TypeOK
  <2>2. /\ upgradeRequest[u] \in {"asking", "failed"} /\ ending[u] = "no"
        /\ ~Out(u, "received")' /\ Coming(u, "start") = 0 /\ ~In(u, "start")
    BY <1>1, <2>1, WireTypes, <1>4 DEF UpgradeOk, BegunOnce, UpgradeInv
  <2>3. UpgradeUntouched(u)' /\ BegunOnce(u)'
    BY <1>1, <1>3, <2>2 DEF UpgradeUntouched, BegunOnce, Runner!hostVars
  <2>4. ChunksFit(u)' /\ WholeWhenUsed(u)'
    BY <1>1, <1>3, <1>5, <2>1, <2>2 DEF UpgradeOk, ChunksFit, WholeWhenUsed, Runner!hostVars
  <2> QED
    BY <2>3, <2>4 DEF UpgradeOk
<1> QED
  BY <1>6, <1>7, <1>8, RunnerKeeps

LEMMA ChunkKeeps ==
    ASSUME UpgradeBounded, UpgradeInv, NEW u \in Runner!Upgrade, Runner!Chunk(u)
             \/ Runner!ChunkFails(u)
    PROVE  UpgradeInv'
<1>1. /\ Runner!Receives(u, "chunk")
          /\ (Runner!Report(u, "failed") \/ upgradeToHost' = upgradeToHost)
      /\ \/ written' = written
         \/ written' = [written EXCEPT ![u] = @ + 1] /\ transfer = u
      /\ UNCHANGED <<upgradeLink, Runner!hostVars, opening, transfer, ending, release,
          upgradeCurrent, restarting>>
      /\ upgradeFaults' \in 0..MaxUpgradeFaults
  BY DEF Runner!Chunk, Runner!ChunkFails, UpgradeBounded, UpgradeInv, Runner!TypeOK
<1>2. /\ "start" \in Runner!Message /\ "chunk" \in Runner!Message /\ "failed" \in Runner!Answer
      /\ "accepted" \in Runner!Answer /\ "received" \in Runner!Answer
  BY DEF Runner!Message, Runner!Answer
<1>3. /\ In(u, "chunk") /\ Coming(u, "chunk") = Coming(u, "chunk")' + 1
      /\ Coming(u, "chunk")' \in Nat /\ Coming(u, "start")' = Coming(u, "start")
      /\ \A v \in Runner!Upgrade, m \in Runner!Message :
           (In(v, m)' => In(v, m)) /\ Coming(v, m)' <= Coming(v, m)
      /\ upgradeToRunner' \in Seq(Runner!Message \X Runner!Upgrade)
      /\ upgradeRequest[u] \notin {"none", "packing"}
  BY <1>1, <1>2, TookCalms
<1>4. /\ \A v \in Runner!Upgrade, a \in Runner!Answer : v # u => (Out(v, a)' => Out(v, a))
      /\ (Out(u, "accepted")' => Out(u, "accepted")) /\ (Out(u, "received")' => Out(u, "received"))
      /\ upgradeToHost' \in Seq(Runner!Answer \X Runner!Upgrade)
  BY <1>1, <1>2, HostHears
<1>5. /\ UpgradeOk(u) /\ upgradeSent[u] \in 0..Pieces /\ written[u] \in 0..Pieces
      /\ written[u] + Coming(u, "chunk") <= upgradeSent[u]
  BY DEF UpgradeInv, UpgradeOk, ChunksFit, Runner!TypeOK
<1>6. /\ written' \in [Runner!Upgrade -> 0..Pieces] /\ written[u] < Pieces
      /\ \A v \in Runner!Upgrade : v # u => written'[v] = written[v]
      /\ written'[u] = written[u] \/ written'[u] = written[u] + 1
  <2>1. written[u] + 1 <= Pieces /\ Pieces \in Nat
    BY <1>3, <1>5 DEF UpgradeBounded
  <2>2. written[u] + 1 \in 0..Pieces /\ written \in [Runner!Upgrade -> 0..Pieces]
    BY <1>5, <2>1 DEF UpgradeInv, Runner!TypeOK
  <2> QED
    BY <1>1, <1>5, <2>1, <2>2
<1>7. Runner!TypeOK'
  BY <1>1, <1>3, <1>4, <1>6 DEF UpgradeInv, Runner!TypeOK, Runner!hostVars
<1>8. Apart(u)
  BY <1>1, <1>3, <1>4, <1>6 DEF Apart, Runner!hostVars
<1>9. UpgradeOk(u)'
  BY <1>1, <1>3, <1>2, <1>4, <1>5, <1>6 DEF UpgradeUntouched, Runner!hostVars, UpgradeOk,
     BegunOnce, ChunksFit, UpgradeBounded, WholeWhenUsed
<1> QED
  BY <1>7, <1>8, <1>9, RunnerKeeps

LEMMA EndAbortKeeps ==
    ASSUME UpgradeBounded, UpgradeInv, NEW u \in Runner!Upgrade, NEW x \in {"end", "abort"},
           Runner!Receives(u, x), ending' = [ending EXCEPT ![u] = ending'[u]],
           ending'[u] = ending[u] \/ (ending'[u] = "closing" /\ transfer = u),
           transfer' \in {transfer, None},
           UNCHANGED <<upgradeLink, upgradeFaults, Runner!hostVars, upgradeToHost, opening,
               written, release, upgradeCurrent, restarting>>
    PROVE  UpgradeInv'
<1>1. "start" \in Runner!Message /\ "chunk" \in Runner!Message /\ x \in Runner!Message
        /\ x # "start" /\ x # "chunk"
  BY DEF Runner!Message
<1>2. /\ Coming(u, "chunk")' = Coming(u, "chunk") /\ Coming(u, "start")' = Coming(u, "start")
      /\ \A v \in Runner!Upgrade, m \in Runner!Message :
           (In(v, m)' => In(v, m)) /\ Coming(v, m)' <= Coming(v, m)
      /\ upgradeToRunner' \in Seq(Runner!Message \X Runner!Upgrade)
      /\ upgradeRequest[u] \notin {"none", "packing"}
  BY <1>1, TookCalms
<1>3. \A v \in Runner!Upgrade, a \in Runner!Answer : Out(v, a)' = Out(v, a)
  BY SameWires
<1>4. /\ ending' \in [Runner!Upgrade -> Endings]
      /\ \A v \in Runner!Upgrade : v # u => ending'[v] = ending[v]
  BY DEF UpgradeInv, Runner!TypeOK, Endings
<1>5. Runner!TypeOK'
  BY <1>2, <1>4 DEF UpgradeInv, Runner!TypeOK, Runner!hostVars, Endings
<1>6. Apart(u)
  BY <1>2, <1>3, <1>4 DEF Apart, Runner!hostVars
<1>7. UpgradeOk(u)'
  <2>1. UpgradeOk(u) /\ "accepted" \in Runner!Answer /\ "received" \in Runner!Answer
    BY DEF UpgradeInv, Runner!Answer
  <2>2. UpgradeUntouched(u)'
    BY <1>2 DEF UpgradeUntouched, Runner!hostVars
  <2>3. u \in Nat
    BY DEF Runner!Upgrade
  <2>4. BegunOnce(u)'
    BY <1>1, <1>2, <1>3, <2>1, <2>3 DEF UpgradeOk, BegunOnce, Runner!hostVars, UpgradeBounded
  <2>5. ChunksFit(u)' /\ WholeWhenUsed(u)'
    BY <1>2, <1>3, <2>1 DEF UpgradeOk, ChunksFit, WholeWhenUsed, Runner!hostVars
  <2> QED
    BY <2>2, <2>4, <2>5 DEF UpgradeOk
<1> QED
  BY <1>5, <1>6, <1>7, RunnerKeeps

LEMMA EndKeeps ==
    ASSUME UpgradeBounded, UpgradeInv, NEW u \in Runner!Upgrade, Runner!End(u) \/ Runner!Abort(u)
    PROVE  UpgradeInv'
<1>1. ending \in [Runner!Upgrade -> Endings]
  BY DEF UpgradeInv, Runner!TypeOK, Endings
<1>2. CASE Runner!End(u)
  BY <1>1, <1>2, EndAbortKeeps DEF Runner!End
<1>3. CASE Runner!Abort(u)
  BY <1>1, <1>3, EndAbortKeeps DEF Runner!Abort
<1> QED
  BY <1>2, <1>3

\* What the host is told of upgrade u is x, and then perhaps that it failed.
HostSays(u, x) ==
    /\ \A v \in Runner!Upgrade, a \in Runner!Answer : v # u => (Out(v, a)' => Out(v, a))
    /\ \A a \in Runner!Answer : Out(u, a)' => Out(u, a) \/ a \in {x, "failed"}
    /\ upgradeToHost' \in Seq(Runner!Answer \X Runner!Upgrade)

LEMMA SaysBoth ==
    ASSUME UpgradeInv, NEW u \in Runner!Upgrade,
           upgradeToHost' = upgradeToHost
               \/ upgradeToHost' = Append(Append(upgradeToHost, <<"received", u>>), <<"failed", u>>)
    PROVE  HostSays(u, "received")
<1>1. upgradeToHost \in Seq(Runner!Answer \X Runner!Upgrade)
  BY DEF UpgradeInv, Runner!TypeOK
<1>2. CASE upgradeToHost' = upgradeToHost
  BY <1>1, <1>2, SameWires DEF UpgradeInv, HostSays
<1>3. CASE upgradeToHost' = Append(Append(upgradeToHost, <<"received", u>>), <<"failed", u>>)
  <2>1. <<"received", u>> \in Runner!Answer \X Runner!Upgrade /\ <<"failed", u>> \in Runner!Answer \X Runner!Upgrade
    BY DEF Runner!Answer
  <2> DEFINE told == Append(upgradeToHost, <<"received", u>>)
  <2>2. told \in Seq(Runner!Answer \X Runner!Upgrade)
    BY <1>1, <2>1, AppendSteps
  <2>3. upgradeToHost' = Append(told, <<"failed", u>>)
    BY <1>3
  <2>4. \A e : Occurs(upgradeToHost', e) <=>
            Occurs(upgradeToHost, e) \/ e = <<"received", u>> \/ e = <<"failed", u>>
    <3>1. \A e : Occurs(told, e) <=> Occurs(upgradeToHost, e) \/ e = <<"received", u>>
      BY <1>1, <2>1, OccursAppend
    <3> HIDE DEF told
    <3>2. \A e : Occurs(upgradeToHost', e) <=> Occurs(told, e) \/ e = <<"failed", u>>
      BY SMTT(20), <2>1, <2>2, <2>3, OccursAppend
    <3> QED
      BY <3>1, <3>2
  <2>5. upgradeToHost' \in Seq(Runner!Answer \X Runner!Upgrade)
    <3> HIDE DEF told
    <3> QED
      BY <2>1, <2>2, <2>3, AppendSteps
  <2> QED
    BY <2>4, <2>5 DEF HostSays, Out
<1> QED
  BY <1>2, <1>3

\* The steps of end, of which each has its own condition and report.
LEMMA EndingKeeps ==
    ASSUME UpgradeBounded, UpgradeInv, NEW u \in Runner!Upgrade, NEW e \in Endings,
             NEW x \in Runner!Answer,
           ending[u] # "no", ending' = [ending EXCEPT ![u] = e], HostSays(u, x), x # "accepted",
           transfer' \in {transfer, None},
               release' \in {"absent", "partial", "whole"},
           upgradeCurrent' \in BOOLEAN, restarting' \in BOOLEAN, upgradeCurrent => upgradeCurrent',
           upgradeFaults' \in 0..MaxUpgradeFaults,
           e \in {"unpacking", "switching", "switched"} => written[u] = Pieces,
           e = "switched" => upgradeCurrent',
           x = "received" => written[u] = Pieces /\ upgradeCurrent',
           UNCHANGED <<upgradeLink, Runner!hostVars, upgradeToRunner, opening, written>>
    PROVE  UpgradeInv'
<1>1. "start" \in Runner!Message /\ "chunk" \in Runner!Message /\ "accepted" \in Runner!Answer
        /\ "received" \in Runner!Answer
  BY DEF Runner!Message, Runner!Answer
<1>2. /\ \A v \in Runner!Upgrade, m \in Runner!Message :
           (In(v, m)' => In(v, m)) /\ Coming(v, m)' <= Coming(v, m)
      /\ In(u, "start")' = In(u, "start") /\ Coming(u, "start")' = Coming(u, "start")
      /\ Coming(u, "chunk")' = Coming(u, "chunk")
          /\ upgradeToRunner' \in Seq(Runner!Message \X Runner!Upgrade)
  BY <1>1, SameCalms
<1>3. /\ \A v \in Runner!Upgrade, a \in Runner!Answer : v # u => (Out(v, a)' => Out(v, a))
      /\ (Out(u, "received")' => Out(u, "received") \/ x = "received")
      /\ upgradeToHost' \in Seq(Runner!Answer \X Runner!Upgrade)
  BY <1>1 DEF HostSays
<1>4. /\ ending' \in [Runner!Upgrade -> Endings] /\ ending'[u] = e
      /\ \A v \in Runner!Upgrade : v # u => ending'[v] = ending[v]
  BY DEF UpgradeInv, Runner!TypeOK, Endings
<1>5. Runner!TypeOK'
  BY <1>2, <1>3, <1>4 DEF UpgradeInv, Runner!TypeOK, Runner!hostVars, Endings
<1>6. Apart(u)
  BY <1>2, <1>3, <1>4 DEF Apart, Runner!hostVars
<1>7. UpgradeOk(u)'
  BY <1>2, <1>3, <1>4 DEF UpgradeInv, UpgradeOk, UpgradeUntouched, BegunOnce, Runner!hostVars,
     ChunksFit, WholeWhenUsed
<1> QED
  BY <1>5, <1>6, <1>7, RunnerKeeps

LEMMA CheckKeeps ==
    ASSUME UpgradeBounded, UpgradeInv, NEW u \in Runner!Upgrade,
           Runner!Check(u) \/ Runner!Unpacked(u) \/ Runner!UnpackFails(u) \/ Runner!Switch(u)
               \/ Runner!Restart(u) \/ Runner!RestartFails(u)
    PROVE  UpgradeInv'
<1>1. /\ UpgradeOk(u) /\ upgradeFaults \in 0..MaxUpgradeFaults /\ upgradeCurrent \in BOOLEAN
      /\ restarting \in BOOLEAN /\ release \in {"absent", "partial", "whole"}
  BY DEF UpgradeInv, Runner!TypeOK
<1>0. \A x \in Runner!Answer :
          Runner!Report(u, x) \/ upgradeToHost' = upgradeToHost => HostSays(u, x)
  BY HostHears DEF HostSays
<1>2. CASE Runner!EndFails(u) /\ ending[u] # "no" /\ upgradeFaults' \in 0..MaxUpgradeFaults
  BY <1>1, <1>2, <1>0, EndingKeeps DEF Runner!Answer, Endings, Runner!EndFails, Runner!Undo
<1>3. CASE Runner!Check(u)
  BY <1>1, <1>3, <1>0, EndingKeeps, <1>2 DEF Endings, Runner!Answer, Runner!Check
<1>4. CASE Runner!Unpacked(u)
  BY <1>1, <1>4, <1>0, EndingKeeps DEF Endings, Runner!Answer, Runner!Unpacked, UpgradeOk,
     WholeWhenUsed
<1>5. CASE Runner!UnpackFails(u)
  BY <1>1, <1>5, <1>2 DEF Runner!UnpackFails, UpgradeBounded
<1>6. CASE Runner!Switch(u)
  BY <1>1, <1>6, <1>0, EndingKeeps DEF Endings, Runner!Answer, Runner!Switch, UpgradeOk,
     WholeWhenUsed
<1>7. CASE Runner!Restart(u)
  BY <1>1, <1>7, <1>0, EndingKeeps DEF Endings, Runner!Answer, Runner!Restart, UpgradeOk,
     WholeWhenUsed
<1>8. CASE Runner!RestartFails(u)
  <2>1. /\ ending[u] = "switched" /\ ending' = [ending EXCEPT ![u] = "no"] /\ transfer' = None
        /\ release' = "absent" /\ upgradeFaults' \in 0..MaxUpgradeFaults
        /\ UNCHANGED <<upgradeLink, Runner!hostVars, upgradeToRunner, opening, written, upgradeCurrent,
                       restarting>>
    BY <1>1, <1>8 DEF Runner!RestartFails, Runner!Undo, UpgradeBounded
  <2>2. HostSays(u, "received")
    BY <1>8, SaysBoth DEF Runner!RestartFails
  <2>3. written[u] = Pieces /\ upgradeCurrent
    BY <1>1, <2>1 DEF UpgradeOk, WholeWhenUsed
  <2> QED
    BY <1>1, <2>1, <2>2, <2>3, EndingKeeps DEF Endings, Runner!Answer
<1> QED
  BY <1>3, <1>4, <1>5, <1>6, <1>7, <1>8

-----------------------------------------------------------------------------
\* The connection and the process of the runner.
LEMMA UpgradeLinkKeeps ==
    ASSUME UpgradeBounded, UpgradeInv, Runner!Disconnect \/ Runner!Replaced \/ Runner!Connect
    PROVE  UpgradeInv'
<1>1. UNCHANGED Runner!runnerVars
  BY DEF Runner!Disconnect, Runner!Replaced, Runner!Connect
<1>2. CASE Runner!Connect
  BY <1>2, SameCalms, SameWires, AllCalm DEF Runner!Connect, UpgradeInv, Runner!TypeOK,
     Runner!hostVars, Runner!runnerVars, Calm, Failed
<1>3. CASE \E u \in Runner!Upgrade : upgradeRequest[u] = "streaming" /\ Runner!HostEnds
  BY <1>1, <1>3, HostEndsKeeps
<1>4. CASE /\ upgradeToRunner' = <<>> /\ upgradeToHost' = <<>>
               /\ upgradeFaults' = upgradeFaults + 1 /\ upgradeFaults < MaxUpgradeFaults
           /\ upgradeLink' \in BOOLEAN /\ UNCHANGED <<upgradeSent, bundle, crashes>>
           /\ \/ upgradeRequest' = upgradeRequest
              \/ upgradeRequest' = [u \in Runner!Upgrade |->
                    IF upgradeRequest[u] \in {"asking", "waiting"} THEN "failed"
                        ELSE upgradeRequest[u]]
  <2>1. /\ upgradeRequest' \in [Runner!Upgrade -> UpgradeRequests]
        /\ \A v \in Runner!Upgrade : upgradeRequest'[v] = upgradeRequest[v]
            \/ (upgradeRequest[v] # "done" /\ upgradeRequest'[v] = "failed")
    BY <1>4 DEF UpgradeInv, Runner!TypeOK, UpgradeRequests
  <2>2. Drained /\ upgradeToRunner' \in Seq(Runner!Message \X Runner!Upgrade)
          /\ upgradeToHost' \in Seq(Runner!Answer \X Runner!Upgrade)
    BY <1>4, DrainFacts
  <2>3. upgradeFaults' \in 0..MaxUpgradeFaults
    BY <1>4 DEF UpgradeInv, Runner!TypeOK, UpgradeBounded
  <2>4. Runner!TypeOK'
    BY <1>1, <1>4, <2>1, <2>2, <2>3 DEF UpgradeInv, Runner!TypeOK, Runner!runnerVars,
       UpgradeRequests
  <2>5. \A v \in Runner!Upgrade : Calm(v)
    BY <1>1, <1>4, <2>1, <2>2, WiresEmptied DEF Runner!runnerVars
  <2>6. crashes' <= Cardinality(Failed)'
    BY <1>4, <2>1, CrashesFit DEF UpgradeRequests
  <2> QED
    BY <2>4, <2>5, <2>6, AllCalm
<1>5. CASE Runner!Disconnect
  BY <1>5, <1>3, <1>4 DEF Runner!Disconnect
<1>6. CASE Runner!Replaced
  BY <1>6, <1>4 DEF Runner!Replaced, UpgradeInv, Runner!TypeOK, Runner!hostVars
<1> QED
  BY <1>2, <1>5, <1>6

LEMMA RestartedKeeps ==
    ASSUME UpgradeBounded, UpgradeInv, Runner!Restarted
    PROVE  UpgradeInv'
<1>1. /\ opening' = {} /\ transfer' = None /\ ending' = [u \in Runner!Upgrade |-> "no"]
      /\ restarting' = FALSE /\ upgradeLink' = FALSE /\ upgradeToRunner' = <<>>
          /\ upgradeToHost' = <<>>
      /\ UNCHANGED <<upgradeSent, bundle, written, release, upgradeCurrent>>
      /\ upgradeRequest' = [u \in Runner!Upgrade |->
            IF upgradeRequest[u] \in {"asking", "streaming", "waiting"} THEN "failed"
                ELSE upgradeRequest[u]]
  BY DEF Runner!Restarted
<1>2. /\ upgradeRequest' \in [Runner!Upgrade -> UpgradeRequests]
      /\ \A v \in Runner!Upgrade : upgradeRequest'[v] = upgradeRequest[v]
          \/ (upgradeRequest[v] # "done" /\ upgradeRequest'[v] = "failed")
  BY <1>1 DEF UpgradeInv, Runner!TypeOK, UpgradeRequests
<1>3. Drained /\ upgradeToRunner' \in Seq(Runner!Message \X Runner!Upgrade)
        /\ upgradeToHost' \in Seq(Runner!Answer \X Runner!Upgrade)
  BY <1>1, DrainFacts
<1>4. upgradeFaults' \in 0..MaxUpgradeFaults
  BY DEF Runner!Restarted, UpgradeInv, Runner!TypeOK, UpgradeBounded
<1>5. crashes' \in 0..MaxUpgrades /\ crashes' <= Cardinality(Failed)'
  BY <1>1, <1>2, CrashesFit DEF Runner!Restarted, UpgradeRequests
<1>6. Runner!TypeOK'
  BY <1>1, <1>2, <1>3, <1>4, <1>5 DEF UpgradeInv, Runner!TypeOK, UpgradeRequests
<1>7. \A v \in Runner!Upgrade : v \in Nat
  BY DEF Runner!Upgrade
<1>8. \A v \in Runner!Upgrade : Calm(v)
  BY <1>1, <1>2, <1>3, <1>7, WiresEmptied DEF UpgradeBounded
<1> QED
  BY <1>5, <1>6, <1>8, AllCalm

LEMMA UpgradeStep == UpgradeBounded /\ UpgradeInv /\ [Runner!Next]_Runner!vars => UpgradeInv'
<1> SUFFICES ASSUME UpgradeBounded, UpgradeInv, [Runner!Next]_Runner!vars PROVE UpgradeInv'
  OBVIOUS
<1>1. CASE UNCHANGED Runner!vars
  BY <1>1, SameWires DEF Runner!vars, UpgradeInv, Runner!TypeOK, Failed, UpgradeOk,
     UpgradeUntouched, BegunOnce, ChunksFit, WholeWhenUsed
<1>2. CASE \E u \in Runner!Upgrade : Runner!Ask(u) \/ Runner!Offer(u) \/ Runner!Stream(u)
        \/ Runner!StreamFails(u) \/ Runner!TimesOut(u)
  BY <1>2, UpgradeAskKeeps, OfferKeeps, StreamKeeps, StreamFailsKeeps, UpgradeTimesOutKeeps
<1>3. CASE \E u \in Runner!Upgrade : Runner!Begin(u) \/ Runner!Opened(u) \/ Runner!Chunk(u)
        \/ Runner!ChunkFails(u) \/ Runner!End(u) \/ Runner!Abort(u)
  BY <1>3, BeginKeeps, OpenedKeeps, ChunkKeeps, EndKeeps
<1>4. CASE \E u \in Runner!Upgrade : Runner!Check(u) \/ Runner!Unpacked(u)
        \/ Runner!UnpackFails(u) \/ Runner!Switch(u) \/ Runner!Restart(u) \/ Runner!RestartFails(u)
  BY <1>4, CheckKeeps
<1>5. CASE Runner!Packed \/ Runner!PackFails \/ Runner!HostReceives \/ Runner!Disconnect
        \/ Runner!Replaced \/ Runner!Connect \/ Runner!Restarted
  BY <1>5, PackKeeps, HostReceivesKeeps, UpgradeLinkKeeps, RestartedKeeps
<1> QED
  BY <1>1, <1>2, <1>3, <1>4, <1>5 DEF Runner!Next

LEMMA UpgradeSafe == UpgradeInv => Runner!SuccessIsInstalled
BY DEF UpgradeInv, UpgradeOk, WholeWhenUsed, Runner!SuccessIsInstalled

-----------------------------------------------------------------------------
(* Updates of the host.                                                    *)

\* The bounds are numbers.
UpdateBounded == MaxUpdates \in Nat /\ MaxKills \in Nat

-----------------------------------------------------------------------------

LEMMA UpdateTypeStep ==
    ASSUME UpdateBounded, Host!TypeOK, [Host!Next]_Host!vars
    PROVE  Host!TypeOK'
<1> USE DEF Host!TypeOK, Host!Stage, Host!stateVars, Host!diskVars, Host!pruneVars
<1>1. ASSUME NEW u \in Host!Update, Host!Ask(u) PROVE Host!TypeOK'
  BY <1>1 DEF Host!Ask, Host!Goes
<1>2. ASSUME NEW u \in Host!Update, Host!Checked(u) PROVE Host!TypeOK'
  BY <1>2 DEF Host!Checked, Host!Goes
<1>3. ASSUME NEW u \in Host!Update, Host!Begin(u) \/ Host!NotManaged(u) PROVE Host!TypeOK'
  BY <1>3 DEF Host!Begin, Host!NotManaged, Host!Goes
<1>4. ASSUME NEW u \in Host!Update, Host!Fetched(u) PROVE Host!TypeOK'
  BY <1>4 DEF Host!Fetched, Host!Goes
<1>5. ASSUME NEW u \in Host!Update, Host!FetchFails(u) \/ Host!UnpackFails(u) PROVE Host!TypeOK'
  BY <1>5 DEF Host!FetchFails, Host!UnpackFails, Host!Failed, Host!Goes
<1>6. ASSUME NEW u \in Host!Update, Host!Unpacked(u) \/ Host!Place(u) \/ Host!Rename(u)
        PROVE Host!TypeOK'
  BY <1>6 DEF Host!Unpacked, Host!Place, Host!Rename, Host!Goes
<1>7. ASSUME NEW u \in Host!Update, Host!RenameFails(u) \/ Host!SwitchFails(u) PROVE Host!TypeOK'
  BY <1>7 DEF Host!RenameFails, Host!SwitchFails, Host!Failed, Host!Cleanup, Host!Goes
<1>8. ASSUME NEW u \in Host!Update, Host!Switch(u) PROVE Host!TypeOK'
  BY <1>8 DEF Host!Switch, Host!Goes
<1>9. ASSUME NEW u \in Host!Update,
             Host!Look(u) \/ Host!Choose(u) \/ Host!Remove(u) \/ Host!Pruned(u)
      PROVE  Host!TypeOK'
  <2>1. CASE Host!Look(u) \/ Host!Pruned(u)
    BY <2>1 DEF Host!Look, Host!Pruned, Host!Goes
  <2>2. CASE Host!Choose(u)
    <3>1. doomed' \in [Host!Update -> SUBSET Host!Directory]
      BY <2>2 DEF Host!Choose
    <3> QED
      BY <2>2, <3>1 DEF Host!Choose, Host!Goes
  <2>3. CASE Host!Remove(u)
    <3>1. PICK d \in doomed[u] :
             /\ doomed' = [doomed EXCEPT ![u] = @ \ {d}]
             /\ IF d[1] = "pending"
                THEN pending' = pending \ {d[2]} /\ UNCHANGED <<disk, updateLost>>
                ELSE /\ disk' = disk \ {d[2]} /\ UNCHANGED pending
                     /\ updateLost' = IF Host!Overtaken(u, d[2]) THEN updateLost \cup {d[2]} ELSE updateLost
      BY <2>3 DEF Host!Remove
    <3>2. d \in Host!Directory
      BY <3>1
    <3>3. updateLost' \subseteq Host!Release /\ doomed' \in [Host!Update -> SUBSET Host!Directory]
      BY <3>1, <3>2 DEF Host!Directory
    <3> QED
      BY <2>3, <3>1, <3>3 DEF Host!Remove
  <2> QED
    BY <1>9, <2>1, <2>2, <2>3
<1>10. ASSUME NEW u \in Host!Update, Host!Answer(u) PROVE Host!TypeOK'
  BY <1>10 DEF Host!Answer, Host!Goes
<1>11. CASE Host!Exit \/ Host!Kill
  <2>1. Host!Ends /\ kills' \in 0..MaxKills
    BY <1>11 DEF Host!Exit, Host!Kill, UpdateBounded
  <2>2. updateRequest' \in [Host!Update -> Host!Stage] /\ updateLost' \subseteq Host!Release
    BY <2>1 DEF Host!Ends
  <2>3. doomed' \in [Host!Update -> SUBSET Host!Directory]
    BY <2>1 DEF Host!Ends
  <2> QED
    BY <2>1, <2>2, <2>3 DEF Host!Ends
<1>12. CASE Host!RemoveStale \/ Host!Turn \/ UNCHANGED Host!vars
  BY <1>12 DEF Host!RemoveStale, Host!Turn, Host!vars
<1> QED
  BY <1>1, <1>2, <1>3, <1>4, <1>5, <1>6, <1>7, <1>8, <1>9, <1>10, <1>11, <1>12 DEF Host!Next

\* A request that moves between stages other than "renaming" leaves every release
\* where it is.
LEMMA Moves ==
    ASSUME Host!TypeOK, NEW u \in Host!Update, NEW from, NEW to, Host!Goes(u, from, to),
           from # "renaming", disk \subseteq disk', updateLost \subseteq updateLost',
           \A v \in Host!Update \ {u} : target'[v] = target[v], NEW r, Accounted(r)
    PROVE  Accounted(r)'
BY DEF Accounted, Host!Placing, Host!Goes, Host!TypeOK

\* One that removes its own release accounts for it with "to" or in "lost".
LEMMA Removes ==
    ASSUME Host!TypeOK, NEW u \in Host!Update, NEW from, NEW to, Host!Goes(u, from, to),
           target' = target, disk' = disk \ {target[u]}, updateLost \subseteq updateLost',
           to = "renaming" \/ target[u] \in updateLost', NEW r, Accounted(r)
    PROVE  Accounted(r)'
BY DEF Accounted, Host!Placing, Host!Goes, Host!TypeOK

\* What keeps every release in its place keeps both parts of the invariant.
LEMMA Keeps ==
    ASSUME UpdateInv, NEW u \in Host!Update, NEW from, NEW to, Host!Goes(u, from, to),
             to # "switching",
           updateCurrent' = updateCurrent, \A v \in Host!Update \ {u} : target'[v] = target[v],
           \A r : Accounted(r) => Accounted(r)'
    PROVE  Host!CurrentIsThere' /\ SwitchIsThere'
<1>1. Host!CurrentIsThere'
  BY DEF UpdateInv, Host!CurrentIsThere, Accounted
<1>2. ASSUME NEW v \in Host!Update, updateRequest'[v] = "switching" PROVE Accounted(target[v])'
  BY <1>2 DEF Host!Goes, UpdateInv, Host!TypeOK, SwitchIsThere, Accounted
<1> QED
  BY <1>1, <1>2 DEF SwitchIsThere

LEMMA UpdateKeepsReleases ==
    ASSUME UpdateInv, [Host!Next]_Host!vars
    PROVE  Host!CurrentIsThere' /\ SwitchIsThere'
<1> USE DEF Host!stateVars, Host!diskVars, Host!pruneVars
<1>1. Host!TypeOK
  BY DEF UpdateInv
<1>2. ASSUME NEW u \in Host!Update,
             \/ Host!Ask(u) \/ Host!Checked(u) \/ Host!Begin(u) \/ Host!NotManaged(u)
                 \/ Host!Fetched(u) \/ Host!FetchFails(u) \/ Host!Look(u) \/ Host!Choose(u)
             \/ Host!Pruned(u) \/ Host!Unpacked(u) \/ Host!UnpackFails(u) \/ Host!Answer(u)
      PROVE  Host!CurrentIsThere' /\ SwitchIsThere'
  <2>1. PICK from \in Host!Stage \ {"renaming"}, to \in Host!Stage \ {"switching"} :
          Host!Goes(u, from, to)
    BY <1>2 DEF Host!Ask, Host!Checked, Host!Begin, Host!NotManaged, Host!Fetched,
       Host!FetchFails, Host!Failed, Host!Unpacked, Host!UnpackFails,
       Host!Answer, Host!Look, Host!Choose, Host!Pruned, Host!Stage
  <2>2. updateCurrent' = updateCurrent /\ disk' = disk /\ updateLost' = updateLost
    BY <1>2 DEF Host!Ask, Host!Checked, Host!Begin, Host!NotManaged, Host!Fetched,
       Host!FetchFails, Host!Failed, Host!Unpacked, Host!UnpackFails,
       Host!Answer, Host!Look, Host!Choose, Host!Pruned
  <2>3. \A v \in Host!Update \ {u} : target'[v] = target[v]
    <3>1. CASE Host!Fetched(u)
      BY <1>1, <3>1 DEF Host!Fetched, Host!TypeOK
    <3>2. CASE ~Host!Fetched(u)
      BY <1>2, <3>2 DEF Host!Ask, Host!Checked, Host!Begin, Host!NotManaged, Host!FetchFails,
         Host!Failed, Host!Unpacked, Host!UnpackFails,
       Host!Answer, Host!Look, Host!Choose, Host!Pruned
    <3> QED
      BY <3>1, <3>2
  <2>4. \A r : Accounted(r) => Accounted(r)'
    BY <1>1, <2>1, <2>2, <2>3, Moves
  <2> QED
    BY <2>1, <2>2, <2>3, <2>4, Keeps
<1>3. ASSUME NEW u \in Host!Update, Host!Place(u) \/ Host!RenameFails(u) \/ Host!SwitchFails(u)
      PROVE  Host!CurrentIsThere' /\ SwitchIsThere'
  BY <1>3, <1>1, Removes, Keeps DEF Host!Place, Host!RenameFails, Host!SwitchFails,
     Host!Failed, Host!Stage, Host!Cleanup
<1>4. ASSUME NEW u \in Host!Update, Host!Rename(u) PROVE Host!CurrentIsThere' /\ SwitchIsThere'
  <2>1. \A r : Accounted(r) => Accounted(r)'
    BY <1>1, <1>4 DEF Host!Rename, Host!Goes, Accounted, Host!Placing, Host!TypeOK
  <2>2. Host!CurrentIsThere'
    BY <1>4, <2>1 DEF Host!Rename, UpdateInv, Host!CurrentIsThere, Accounted
  <2>3. ASSUME NEW v \in Host!Update, updateRequest'[v] = "switching" PROVE Accounted(target[v])'
    BY <1>4, <1>1, <2>3, <2>1 DEF Host!Rename, Accounted, Host!Goes, Host!TypeOK, UpdateInv,
       SwitchIsThere
  <2> QED
    BY <2>2, <2>3 DEF SwitchIsThere
<1>5. ASSUME NEW u \in Host!Update, Host!Switch(u) PROVE Host!CurrentIsThere' /\ SwitchIsThere'
  BY <1>1, <1>5 DEF Host!Switch, Host!Goes, Accounted, Host!Placing, Host!TypeOK, UpdateInv,
     SwitchIsThere, Host!CurrentIsThere
<1>6. ASSUME NEW u \in Host!Update, Host!Remove(u) PROVE Host!CurrentIsThere' /\ SwitchIsThere'
  <2>1. PICK d \in doomed[u] :
            /\ disk' = IF d[1] = "pending" THEN disk ELSE disk \ {d[2]}
            /\ updateLost' = IF d[1] # "pending" /\ Host!Overtaken(u, d[2])
                             THEN updateLost \cup {d[2]} ELSE updateLost
    BY <1>6 DEF Host!Remove
  <2>2. /\ updateRequest[u] = "removing" /\ UNCHANGED <<updateRequest, target, updateCurrent>>
    BY <1>6 DEF Host!Remove
  <2>3. CASE d[1] = "pending"
    BY <2>1, <2>2, <2>3 DEF UpdateInv, Host!CurrentIsThere, SwitchIsThere, Accounted, Host!Placing
  <2>4. CASE d[1] # "pending"
    <3>1. d[2] # updateSeen[u]
      <4>1. d \in Host!Directory
        BY <2>1, <1>1 DEF Host!TypeOK
      <4>2. d = <<"release", d[2]>>
        BY <2>4, <4>1 DEF Host!Directory
      <4> QED
        BY <2>1, <2>2, <4>2 DEF UpdateInv, SeenSpared
    <3>2. \A r : (r = updateCurrent \/ \E v \in Host!Update : updateRequest[v] = "switching" /\ target[v] = r)
                  => Accounted(r)
      BY DEF UpdateInv, Host!CurrentIsThere, SwitchIsThere, Accounted
    <3>3. \A r : (r = updateCurrent \/ \E v \in Host!Update : updateRequest[v] = "switching" /\ target[v] = r)
                  => Accounted(r)'
      BY <2>1, <2>2, <2>4, <3>1, <3>2 DEF Host!Overtaken, Accounted, Host!Placing
    <3> QED
      BY <2>2, <3>3 DEF Host!CurrentIsThere, SwitchIsThere, Accounted, Host!Placing
  <2> QED
    BY <2>3, <2>4
<1>7. CASE Host!Exit \/ Host!Kill
  BY <1>7 DEF Host!Exit, Host!Kill, Host!Ends, Host!Placing, UpdateInv,
     Host!CurrentIsThere, SwitchIsThere
<1>8. CASE Host!RemoveStale \/ Host!Turn \/ UNCHANGED Host!vars
  BY <1>8 DEF Host!RemoveStale, Host!Turn, Host!vars, UpdateInv, Host!CurrentIsThere,
     SwitchIsThere, Accounted, Host!Placing
<1> QED
  BY <1>2, <1>3, <1>4, <1>5, <1>6, <1>7, <1>8 DEF Host!Next

LEMMA UpdateInit == UpdateBounded /\ Host!Init => UpdateInv
<1> SUFFICES ASSUME UpdateBounded, Host!Init PROVE UpdateInv
  OBVIOUS
<1>1. Host!TypeOK
  <2>1. updateRequest \in [Host!Update -> Host!Stage] /\ target \in [Host!Update -> Host!Release]
    BY DEF Host!Init, Host!Release, Host!Stage
  <2>2. kills \in 0..MaxKills
    BY DEF Host!Init, UpdateBounded
  <2> QED
    BY <2>1, <2>2 DEF Host!Init, Host!TypeOK, Host!Release
<1>2. Host!CurrentIsThere /\ SwitchIsThere /\ SeenSpared
  BY DEF Host!Init, Host!CurrentIsThere, SwitchIsThere, SeenSpared
<1> QED
  BY <1>1, <1>2 DEF UpdateInv

\* What is chosen is not what was seen, and only shrinks afterwards.
LEMMA SeenKeeps ==
    ASSUME UpdateInv, [Host!Next]_Host!vars
    PROVE  SeenSpared'
<1> USE DEF Host!stateVars, Host!diskVars, Host!pruneVars
<1>1. Host!TypeOK /\ SeenSpared
  BY DEF UpdateInv
<1>2. ASSUME NEW u \in Host!Update,
             \/ Host!Ask(u) \/ Host!Checked(u) \/ Host!Begin(u) \/ Host!NotManaged(u)
                 \/ Host!Fetched(u) \/ Host!FetchFails(u) \/ Host!Look(u) \/ Host!Pruned(u)
             \/ Host!Unpacked(u) \/ Host!UnpackFails(u) \/ Host!Answer(u) \/ Host!Place(u)
             \/ Host!RenameFails(u) \/ Host!SwitchFails(u) \/ Host!Rename(u) \/ Host!Switch(u)
      PROVE  SeenSpared'
  <2>1. PICK to \in Host!Stage \ {"removing"} : updateRequest' = [updateRequest EXCEPT ![u] = to]
    BY <1>2 DEF Host!Ask, Host!Checked, Host!Begin, Host!NotManaged, Host!Fetched, Host!FetchFails,
       Host!Failed, Host!Unpacked, Host!UnpackFails, Host!Answer, Host!Look, Host!Pruned,
       Host!Place, Host!RenameFails, Host!SwitchFails, Host!Rename, Host!Switch, Host!Goes, Host!Stage
  <2>2. doomed' = doomed
    BY <1>2 DEF Host!Ask, Host!Checked, Host!Begin, Host!NotManaged, Host!Fetched, Host!FetchFails,
       Host!Unpacked, Host!UnpackFails, Host!Answer, Host!Look, Host!Pruned, Host!Cleanup,
       Host!Place, Host!RenameFails, Host!SwitchFails, Host!Rename, Host!Switch
  <2>3. updateSeen' = updateSeen \/ Host!Look(u)
    BY <1>2 DEF Host!Ask, Host!Checked, Host!Begin, Host!NotManaged, Host!Fetched, Host!FetchFails,
       Host!Unpacked, Host!UnpackFails, Host!Answer, Host!Pruned, Host!Cleanup,
       Host!Place, Host!RenameFails, Host!SwitchFails, Host!Rename, Host!Switch
  <2>4. CASE updateSeen' = updateSeen
    BY <1>1, <2>1, <2>2, <2>4 DEF SeenSpared, Host!TypeOK
  <2>5. CASE Host!Look(u)
    <3>1. updateSeen' = [updateSeen EXCEPT ![u] = updateCurrent]
      BY <2>5 DEF Host!Look
    <3> QED
      BY <1>1, <2>1, <2>2, <3>1 DEF SeenSpared, Host!TypeOK
  <2> QED
    BY <2>3, <2>4, <2>5
<1>3. ASSUME NEW u \in Host!Update, Host!Choose(u) PROVE SeenSpared'
  <2>1. PICK gone : <<"release", updateSeen[u]>> \notin gone /\ doomed' = [doomed EXCEPT ![u] = gone]
    BY <1>3 DEF Host!Choose, Host!Spared
  <2>2. /\ updateSeen' = updateSeen
        /\ \A v \in Host!Update : v # u => updateRequest'[v] = updateRequest[v]
    BY <1>1, <1>3 DEF Host!Choose, Host!Goes, Host!TypeOK
  <2> QED
    BY <1>1, <2>1, <2>2 DEF SeenSpared, Host!TypeOK
<1>4. ASSUME NEW u \in Host!Update, Host!Remove(u) PROVE SeenSpared'
  <2>1. PICK d : doomed' = [doomed EXCEPT ![u] = @ \ {d}]
    BY <1>4 DEF Host!Remove
  <2>2. UNCHANGED <<updateRequest, updateSeen>>
    BY <1>4 DEF Host!Remove
  <2> QED
    BY <1>1, <2>1, <2>2 DEF SeenSpared, Host!TypeOK
<1>5. CASE Host!Exit \/ Host!Kill
  BY <1>5 DEF Host!Exit, Host!Kill, Host!Ends, SeenSpared
<1>6. CASE Host!RemoveStale \/ Host!Turn \/ UNCHANGED Host!vars
  BY <1>1, <1>6 DEF Host!RemoveStale, Host!Turn, Host!vars, SeenSpared
<1> QED
  BY <1>2, <1>3, <1>4, <1>5, <1>6 DEF Host!Next

LEMMA UpdateStep ==
    ASSUME UpdateBounded, UpdateInv, [Host!Next]_Host!vars
    PROVE  UpdateInv'
BY UpdateTypeStep, UpdateKeepsReleases, SeenKeeps DEF UpdateInv

-----------------------------------------------------------------------------
(* The installed service.                                                  *)

Step == {"none", "fetch", "check", "ask", "download", "tools", "config", "written", "load",
         "release", "unit", "enable", "bootstrap", "restart", "remove", "save", "saved", "done",
         "failed"}
Record == [kind : Service!Kind \cup {"none"}, config : Service!Config, at : Step]

\* The types of what a command may have changed.
Changed ==
    /\ commands' \in [Service!Command -> Record]
    /\ config' \in Service!Config /\ serviceCurrent' \in 0..MaxCommands
    /\ unit' \in BOOLEAN /\ enabled' \in BOOLEAN
    /\ service' \in [at : {"down", "starting", "up"}, release : 0..MaxCommands]

LEMMA GoesTyped ==
    ASSUME Service!TypeOK, NEW c, NEW at \in Step, c \in Service!Command, Service!Goes(c, at)
    PROVE  commands' \in [Service!Command -> Record]
BY DEF Service!TypeOK, Service!Goes, Record, Step

LEMMA InstallTyped == ServiceBounded /\ Service!Init => Service!TypeOK
<1> SUFFICES ASSUME ServiceBounded, Service!Init PROVE Service!TypeOK
  OBVIOUS
<1>1. Service!NoConfig \in Service!Config
          /\ Service!Down \in [at : {"down", "starting", "up"}, release : 0..MaxCommands]
  BY DEF ServiceBounded, Service!NoConfig, Service!Config, Service!Down
<1>2. Service!NoCommand \in Record
  BY <1>1 DEF Service!NoCommand, Record, Step
<1>3. commands \in [Service!Command -> Record]
  BY <1>2 DEF Service!Init
<1>4. token \in {"none", "valid", "lost", "expired"} /\ manager \in {"systemd", "launchd"}
  BY DEF Service!Init
<1>5. serviceCurrent \in 0..MaxCommands /\ troubles \in 0..MaxTroubles /\ overlapped \in BOOLEAN
  <2>1. 0 \in 0..MaxCommands /\ 0 \in 0..MaxTroubles
    BY DEF ServiceBounded
  <2>2. serviceCurrent = 0 /\ troubles = 0 /\ overlapped = FALSE
    BY DEF Service!Init
  <2> QED
    BY <2>1, <2>2
<1>6. config \in Service!Config /\ unit \in BOOLEAN /\ enabled \in BOOLEAN
      /\ service \in [at : {"down", "starting", "up"}, release : 0..MaxCommands]
  BY <1>1 DEF Service!Init
<1> QED
  BY <1>3, <1>4, <1>5, <1>6 DEF Service!TypeOK, Record, Step

LEMMA WorksTyped ==
    ASSUME ServiceBounded, Service!TypeOK, NEW c \in Service!Command, Service!Works(c)
    PROVE  Service!TypeOK'
<1>1. /\ commands \in [Service!Command -> Record] /\ config \in Service!Config
      /\ commands[c] \in Record /\ commands[c].config \in Service!Config
      /\ serviceCurrent \in 0..MaxCommands /\ c \in 0..MaxCommands /\ 0 \in 0..MaxCommands
      /\ unit \in BOOLEAN /\ enabled \in BOOLEAN
      /\ service \in [at : {"down", "starting", "up"}, release : 0..MaxCommands]
  BY DEF ServiceBounded, Service!TypeOK, Record, Step, Service!Command
<1>2. SUFFICES Changed /\ UNCHANGED <<token, manager, overlapped, troubles>>
  BY <1>2 DEF Changed, Service!TypeOK, Record, Step
<1>3. UNCHANGED <<token, manager, overlapped, troubles>>
  BY DEF Service!Works, Service!Fetch, Service!CheckScript, Service!CheckSetup,
         Service!Download,
      Service!Tools, Service!Ask, Service!WriteConfig, Service!ScriptWrote, Service!SetupWrote,
      Service!Load, Service!Release, Service!WriteUnit, Service!Enable, Service!Bootout,
      Service!BootstrapService, Service!Restart, Service!Remove, Service!Save, Service!Saved,
      Service!Kept
<1>4. CASE Service!Fetch(c) \/ Service!CheckScript(c) \/ Service!CheckSetup(c)
           \/ Service!Download(c) \/ Service!Tools(c)
  BY <1>1, <1>4, GoesTyped DEF Changed, Service!Fetch, Service!CheckScript, Service!CheckSetup,
      Service!Download, Service!Tools, Service!Kept, Step
<1>5. CASE Service!Ask(c)
  <2>1. PICK autostart \in BOOLEAN : commands' = [commands EXCEPT ![c].at = "config",
              ![c].config = [at |-> "whole", machine |-> c, autostart |-> autostart]]
    BY <1>5 DEF Service!Ask
  <2>2. [at |-> "whole", machine |-> c, autostart |-> autostart] \in Service!Config
    BY <1>1 DEF Service!Config
  <2>3. commands' \in [Service!Command -> Record]
    BY <1>1, <2>1, <2>2 DEF Record, Step
  <2> QED
    BY <1>1, <1>5, <2>3 DEF Changed, Service!Ask, Service!Kept
<1>6. CASE Service!WriteConfig(c) \/ Service!ScriptWrote(c) \/ Service!SetupWrote(c)
           \/ Service!Saved(c)
  <2>1. config' \in Service!Config
    <3>1. CASE Service!WriteConfig(c)
      BY <1>1, <3>1 DEF Service!WriteConfig, Service!Config
    <3>2. CASE Service!ScriptWrote(c) \/ Service!SetupWrote(c)
      <4>1. [at |-> "whole", machine |-> c, autostart |-> FALSE] \in Service!Config
        BY <1>1 DEF Service!Config
      <4> QED
        BY <1>1, <3>2, <4>1 DEF Service!ScriptWrote, Service!SetupWrote
    <3>3. CASE Service!Saved(c)
      BY <3>3, <1>1 DEF Service!Saved, Service!Config
    <3> QED
      BY <1>6, <3>1, <3>2, <3>3
  <2> QED
    BY <1>1, <1>6, <2>1, GoesTyped DEF Changed, Service!WriteConfig, Service!ScriptWrote,
        Service!SetupWrote, Service!Saved, Step
<1>7. CASE Service!Load(c)
  BY GoesTyped, <1>1, <1>7 DEF Step, Service!Load, Record, Changed, Service!Kept
<1>8. CASE Service!Release(c) \/ Service!WriteUnit(c)
  BY <1>1, <1>8, GoesTyped DEF Changed, Service!Release, Service!WriteUnit, Step
<1>9. CASE Service!Enable(c) \/ Service!Bootout(c) \/ Service!BootstrapService(c)
           \/ Service!Restart(c) \/ Service!Remove(c)
  <2>1. service' \in [at : {"down", "starting", "up"}, release : 0..MaxCommands]
    BY <1>1, <1>9 DEF Service!Enable, Service!Bootout, Service!BootstrapService,
        Service!Restart, Service!Remove, Service!Down
  <2>2. commands' \in [Service!Command -> Record]
    BY <1>9, GoesTyped DEF Service!Enable, Service!Bootout, Service!BootstrapService,
        Service!Restart, Service!Remove, Step
  <2> QED
    BY <1>1, <1>9, <2>1, <2>2 DEF Changed, Service!Enable, Service!Bootout,
        Service!BootstrapService, Service!Restart, Service!Remove
<1>10. CASE Service!Save(c)
  BY <1>1, <1>10, GoesTyped DEF Changed, Service!Save, Service!Config, Step
<1> QED
  BY <1>3, <1>4, <1>5, <1>6, <1>7, <1>8, <1>9, <1>10 DEF Service!Works

LEMMA NextTyped == ServiceBounded /\ Service!TypeOK /\ [Service!Next]_Service!vars =>
    Service!TypeOK'
<1> SUFFICES ASSUME ServiceBounded, Service!TypeOK, [Service!Next]_Service!vars
      PROVE Service!TypeOK'
  OBVIOUS
<1>1. CASE UNCHANGED Service!vars
  BY <1>1 DEF Service!TypeOK, Service!vars
<1>2. CASE Service!Bootstrap \/ Service!Expire \/ Service!RestartHost
  BY <1>2 DEF Service!Bootstrap, Service!Expire, Service!RestartHost, Service!TypeOK
<1>3. CASE Service!Start
  BY <1>3 DEF Service!Start, Service!TypeOK
<1>4. CASE \E c \in Service!Command : \E kind \in Service!Kind : Service!Give(c, kind)
  BY <1>4 DEF ServiceBounded, Service!NoConfig, Service!Config, Service!Give, Step,
     Service!TypeOK, Record
<1>5. CASE \E c \in Service!Command : Service!Trouble(c)
  BY <1>5, GoesTyped DEF Service!Trouble, Step, ServiceBounded, Service!TypeOK, Record
<1>6. CASE \E c \in Service!Command : Service!Works(c)
  BY <1>6, WorksTyped
<1> QED
  BY <1>1, <1>2, <1>3, <1>4, <1>5, <1>6 DEF Service!Next

------------------------------------------------------------------

-----------------------------------------------------------------------------
\* What a command that is underway may rely on, and what its step ensures.
Ready(c) ==
    /\ Fits(c) /\ NoneYet
    /\ ~overlapped /\ ~Forced => MachineKept(c)
    /\ Service!Clean =>
         /\ StepAgrees(c)
         /\ enabled \/ service.at = "down"
         /\ config.at = "none" => ~enabled
         /\ Current \/ At(c, Enabling)
Good(c) ==
    /\ commands'[c].kind = commands[c].kind
    /\ \A d \in Service!Command : d # c => commands'[d] = commands[d]
    /\ Fits(c)' /\ NoneYet'
    /\ ~overlapped /\ ~Forced =>
         MachineKept(c)' /\ (config'.machine = config.machine \/ config.machine = 0)
    /\ Service!Clean =>
         /\ IF At(c, {"none", "done", "failed"})' THEN Agreed' ELSE StepAgrees(c)'
         /\ enabled' \/ service'.at = "down"
         /\ config'.at = "none" => ~enabled'
         /\ Current' \/ At(c, Enabling)'

LEMMA ReadyWhenUnderway ==
    ASSUME ServiceInv, NEW c \in Service!Underway
    PROVE  Ready(c)
<1>1. c \in Service!Command
  BY DEF Service!Underway
<1>2. ~overlapped => \A d \in Service!Underway : d = c
  BY DEF ServiceInv, Alone
<1>3. Service!Clean => Current \/ At(c, Enabling)
  BY <1>2 DEF ServiceInv, CleanAgrees, Service!Clean
<1>4. Service!Clean => StepAgrees(c) /\ (enabled \/ service.at = "down")
        /\ (config.at = "none" => ~enabled)
  BY DEF ServiceInv, CleanAgrees
<1>5. ~overlapped /\ ~Forced => MachineKept(c)
  BY <1>1 DEF ServiceInv, OneMachine
<1> QED
  BY <1>1, <1>3, <1>4, <1>5 DEF ServiceInv, Ready

LEMMA GoodKeeps ==
    ASSUME ServiceInv, Service!TypeOK', NEW c \in Service!Underway, Good(c),
             UNCHANGED <<overlapped, troubles>>
    PROVE  ServiceInv'
<1>1. c \in Service!Command
  BY DEF Service!Underway
<1>2. ~overlapped => \A d \in Service!Underway : d = c
  BY DEF ServiceInv, Alone
<1>3. \A d \in Service!Underway' : d # c => d \in Service!Underway
  BY DEF Service!Underway, Good
<1>4. Alone'
  BY <1>2, <1>3 DEF Alone
<1>5. \A d \in Service!Command : Fits(d)'
  BY DEF Good, Fits, At, OfKind, ServiceInv
<1>6. Forced' <=> Forced
  BY DEF Good, Forced
<1>7. OneMachine'
  BY <1>6, <1>2 DEF OneMachine, Good, ServiceInv, Service!Underway, MachineKept, At, Loaded
<1>8. CleanAgrees'
  BY <1>2, <1>3, <1>1 DEF CleanAgrees, Service!Clean, Service!Underway, At, Enabling, Good
<1> QED
  BY <1>4, <1>5, <1>7, <1>8 DEF ServiceInv, Good

\* Where a command goes with nothing else of it changed.
LEMMA GoesFacts ==
    ASSUME Service!TypeOK, NEW c \in Service!Command, NEW at, Service!Goes(c, at)
    PROVE  /\ commands'[c].at = at /\ commands'[c].kind = commands[c].kind
           /\ commands'[c].config = commands[c].config
           /\ \A d \in Service!Command : d # c => commands'[d] = commands[d]
BY DEF Service!TypeOK, Service!Goes

LEMMA LookGood ==
    ASSUME Service!TypeOK, NEW c \in Service!Command, Ready(c),
           Service!Fetch(c) \/ Service!CheckScript(c) \/ Service!CheckSetup(c)
               \/ Service!Download(c) \/ Service!Tools(c)
    PROVE  Good(c)
<1>1. CASE Service!Fetch(c)
  BY <1>1, GoesFacts DEF Service!Fetch, Service!Kept, Service!Is, Ready, Good, Fits,
     MachineKept, StepAgrees, NoneYet, Service!Clean,
      Agreed, Current, At, OfKind, Loaded, Enabling, Forced
<1>2. CASE Service!CheckScript(c)
  BY <1>2, GoesFacts DEF Service!CheckScript, Service!Kept, Service!Is, Ready, Good, Fits,
     MachineKept, StepAgrees, NoneYet, Service!Clean,
      Agreed, Current, At, OfKind, Loaded, Enabling, Forced, Service!Scripts
<1>3. CASE Service!CheckSetup(c)
  BY <1>3, GoesFacts DEF Service!CheckSetup, Service!Kept, Service!Is, Ready, Good, Fits,
     MachineKept, StepAgrees, NoneYet, Service!Clean,
      Agreed, Current, At, OfKind, Loaded, Enabling, Forced, Service!Scripts
<1>4. CASE Service!Download(c)
  BY <1>4, GoesFacts DEF Service!Download, Service!Kept, Service!Is, Ready, Good, Fits,
     MachineKept, StepAgrees, NoneYet, Service!Clean,
      Agreed, Current, At, OfKind, Loaded, Enabling, Forced, Service!Scripts
<1>5. CASE Service!Tools(c)
  BY <1>5, GoesFacts DEF Service!Tools, Service!Kept, Service!Is, Ready, Good, Fits,
     MachineKept, StepAgrees, NoneYet, Service!Clean,
      Agreed, Current, At, OfKind, Loaded, Enabling, Forced, Service!Scripts
<1> QED
  BY <1>1, <1>2, <1>3, <1>4, <1>5

LEMMA WriteGood ==
    ASSUME Service!TypeOK, NEW c \in Service!Command, Ready(c),
           Service!Ask(c) \/ Service!WriteConfig(c) \/ Service!ScriptWrote(c)
               \/ Service!SetupWrote(c) \/ Service!Saved(c)
    PROVE  Good(c)
<1>0. /\ config \in Service!Config /\ commands[c].config \in Service!Config /\ enabled \in BOOLEAN
      /\ commands[c].kind \in Service!Kind \cup {"none"} /\ commands \in [Service!Command -> Record]
  BY DEF Service!TypeOK, Record, Step
<1>1. CASE Service!Ask(c)
  <2>1. PICK autostart \in BOOLEAN :
          commands' = [commands EXCEPT ![c].at = "config",
              ![c].config = [at |-> "whole", machine |-> c, autostart |-> autostart]]
    BY <1>1 DEF Service!Ask
  <2>2. /\ commands[c].at = "ask" /\ commands'[c].at = "config"
        /\ commands'[c].kind = commands[c].kind /\ commands'[c].config.at = "whole"
        /\ \A d \in Service!Command : d # c => commands'[d] = commands[d]
    <3>1. commands[c].at = "ask" /\ DOMAIN commands = Service!Command /\ commands[c] \in Record
      BY <1>0, <1>1 DEF Service!Ask, Service!Is
    <3>2. commands'[c] = [commands[c] EXCEPT !.at = "config",
                !.config = [at |-> "whole", machine |-> c, autostart |-> autostart]]
      BY <1>0, <2>1
    <3>3. \A d \in Service!Command : d # c => commands'[d] = commands[d]
      BY <1>0, <2>1
    <3> QED
      BY <3>1, <3>2, <3>3 DEF Record
  <2>3. UNCHANGED <<config, serviceCurrent, enabled, service, overlapped, troubles>>
    BY <1>1 DEF Service!Ask, Service!Kept
  <2> QED
    BY <2>2, <2>3 DEF Ready, Good, Fits, MachineKept, StepAgrees, NoneYet, Service!Clean,
        Agreed, Current, At, OfKind, Loaded, Enabling, Forced
<1>2. CASE Service!WriteConfig(c)
  <2>1. /\ commands[c].at = "config" /\ commands'[c].at = "written"
        /\ commands'[c].kind = commands[c].kind /\ commands'[c].config = commands[c].config
        /\ \A d \in Service!Command : d # c => commands'[d] = commands[d]
        /\ config'.at = "torn" /\ config'.machine = config.machine
        /\ UNCHANGED <<serviceCurrent, enabled, service, overlapped, troubles>>
    BY <1>0, <1>2, GoesFacts DEF Service!WriteConfig, Service!Is, Service!Config
  <2> QED
    BY <2>1 DEF Service!NoConfig, Ready, Good, Fits, MachineKept, StepAgrees, NoneYet,
       Service!Clean,
        Agreed, Current, At, OfKind, Loaded, Enabling, Forced
<1>3. CASE Service!ScriptWrote(c)
  <2>1. /\ commands[c].at = "written" /\ commands'[c].at = "load"
            /\ commands[c].kind \in Service!Scripts
        /\ commands'[c].kind = commands[c].kind /\ commands'[c].config = commands[c].config
        /\ \A d \in Service!Command : d # c => commands'[d] = commands[d]
        /\ config'.at = "whole" /\ config'.machine = c
        /\ UNCHANGED <<serviceCurrent, enabled, service, overlapped, troubles>>
    BY <1>0, <1>3, GoesFacts DEF Service!ScriptWrote, Service!Is
  <2>2. commands[c].kind # "setup" /\ commands[c].kind \in Service!Kind
    BY <2>1 DEF Service!Scripts, Service!Kind
  <2> QED
    BY <2>1, <2>2 DEF Ready, Good, Fits, MachineKept, StepAgrees, NoneYet, Service!Clean,
        Agreed, Current, At, OfKind, Loaded, Enabling, Forced
<1>4. CASE Service!SetupWrote(c)
  <2>1. /\ commands[c].at = "written" /\ commands'[c].at = "release" /\ commands[c].kind = "setup"
        /\ commands'[c].kind = commands[c].kind /\ commands'[c].config = commands[c].config
        /\ \A d \in Service!Command : d # c => commands'[d] = commands[d]
        /\ config' = commands[c].config
        /\ UNCHANGED <<serviceCurrent, enabled, service, overlapped, troubles>>
    BY <1>0, <1>4, GoesFacts DEF Service!SetupWrote, Service!Is
  <2>2. commands[c].kind \in Service!Kind
    BY <2>1 DEF Service!Kind
  <2>3. config'.at = "whole"
    BY <2>1 DEF Ready, Fits, At, OfKind
  <2> QED
    BY <2>1, <2>2, <2>3 DEF Ready, Good, Fits, MachineKept, StepAgrees, NoneYet,
       Service!Clean,
        Agreed, Current, At, OfKind, Loaded, Enabling, Forced
<1>5. CASE Service!Saved(c)
  <2>1. /\ commands[c].at = "saved" /\ commands'[c].at = "done"
        /\ commands'[c].kind = commands[c].kind /\ commands'[c].config = commands[c].config
        /\ \A d \in Service!Command : d # c => commands'[d] = commands[d]
        /\ config'.at = commands[c].config.at /\ config'.machine = commands[c].config.machine
        /\ config'.autostart = (commands[c].kind # "remove-service")
        /\ UNCHANGED <<serviceCurrent, enabled, service, overlapped, troubles>>
    BY <1>0, <1>5, GoesFacts DEF Service!Saved, Service!Is, Service!Config
  <2>2. config'.at # "none"
    BY <2>1 DEF Ready, Fits, At
  <2>3. Service!Clean => Agreed'
    BY <1>0, <2>1 DEF Ready, StepAgrees, At, Agreed
  <2> QED
    BY <2>1, <2>2, <2>3 DEF Ready, Good, Fits, MachineKept, StepAgrees, NoneYet,
       Service!Clean,
        Agreed, Current, At, OfKind, Loaded, Enabling, Forced
<1> QED
  BY <1>1, <1>2, <1>3, <1>4, <1>5

LEMMA LoadGood ==
    ASSUME Service!TypeOK, NEW c \in Service!Command, Ready(c), Service!Load(c)
    PROVE  Good(c)
<1>0. /\ commands[c].config \in Service!Config /\ commands[c].kind \in Service!Kind \cup {"none"}
      /\ commands \in [Service!Command -> Record] /\ commands[c].at = "load"
      /\ UNCHANGED <<config, serviceCurrent, enabled, service, overlapped, troubles>>
  BY DEF Service!TypeOK, Record, Step, Service!Load, Service!Is, Service!Kept
<1>1. CASE config.at = "torn"
        \/ (config.at = "none" /\ commands[c].kind \notin {"update-local", "remove-service"})
  <2>1. /\ commands'[c].at = "failed" /\ commands'[c].kind = commands[c].kind
        /\ commands'[c].config = commands[c].config
        /\ \A d \in Service!Command : d # c => commands'[d] = commands[d]
    BY <1>1, GoesFacts DEF Service!Load
  <2> QED
    BY <1>0, <1>1, <2>1 DEF Ready, Good, Fits, MachineKept, StepAgrees, NoneYet,
       Service!Clean,
        Agreed, Current, At, OfKind, Loaded, Enabling, Forced
<1>2. CASE ~(config.at = "torn"
        \/ (config.at = "none" /\ commands[c].kind \notin {"update-local", "remove-service"}))
  <2>1. /\ commands'[c].kind = commands[c].kind /\ commands'[c].config = config
        /\ commands'[c].at = IF commands[c].kind = "remove-service" THEN "remove" ELSE "release"
        /\ \A d \in Service!Command : d # c => commands'[d] = commands[d]
    BY <1>0, <1>2 DEF Service!Load, Record
  <2>2. commands[c].kind \in Service!Kind \ {"setup"} /\ config.at # "torn"
    BY <1>0, <1>2 DEF Ready, Fits, At, OfKind
  <2>3. commands[c].kind \in Service!Scripts =>
          commands[c].kind \notin {"update-local", "remove-service"}
    BY DEF Service!Scripts
  <2>4. config \in Service!Config
    BY DEF Service!TypeOK
  <2>5. config.at # "none" => config.at = "whole"
    BY <2>2, <2>4 DEF Service!Config
  <2> QED
    BY <1>0, <1>2, <2>1, <2>2, <2>3, <2>5 DEF Ready, Good, Fits, MachineKept, StepAgrees,
       NoneYet, Service!Clean,
        Agreed, Current, At, OfKind, Loaded, Enabling, Forced
<1> QED
  BY <1>1, <1>2

LEMMA ReleaseGood ==
    ASSUME Service!TypeOK, NEW c \in Service!Command, Ready(c), Service!Release(c)
    PROVE  Good(c)
<1>1. /\ commands[c].at = "release" /\ serviceCurrent' = c
      /\ commands'[c].at = IF commands[c].kind \in {"setup", "update-local"}
          /\ ~commands[c].config.autostart
                           THEN "done" ELSE "unit"
      /\ commands'[c].kind = commands[c].kind /\ commands'[c].config = commands[c].config
      /\ \A d \in Service!Command : d # c => commands'[d] = commands[d]
      /\ UNCHANGED <<config, enabled, service, overlapped, troubles>>
  BY GoesFacts DEF Service!Release, Service!Is
<1>2. /\ config \in Service!Config /\ enabled \in BOOLEAN
          /\ (config.at = "none" => ~config.autostart)
      /\ config.autostart \in BOOLEAN
      /\ commands[c].kind \in Service!Kind \ {"remove-service"}
  BY <1>1 DEF Service!TypeOK, Service!Config, Ready, NoneYet, Service!NoConfig, Fits, At, OfKind
<1>3. Service!Clean =>
        /\ commands[c].config = config
            /\ (config.at = "whole" \/ (config.at = "none" /\ commands[c].kind = "update-local"))
        /\ commands[c].kind = "update-local" => Agreed
        /\ commands[c].kind = "setup" => ~enabled
        /\ enabled \/ service.at = "down"
        /\ config.at = "none" => ~enabled
  BY <1>1, <1>2 DEF Ready, StepAgrees, At, OfKind, Service!Config
<1>4. CASE commands'[c].at = "done"
  BY <1>1, <1>2, <1>3, <1>4 DEF Agreed, Current, Ready, Fits, At, NoneYet, MachineKept, Loaded,
     Good
<1>5. CASE commands'[c].at = "unit"
  <2>1. Fits(c)' /\ NoneYet' /\ (~overlapped /\ ~Forced => MachineKept(c)')
    BY <1>1, <1>2, <1>5 DEF Ready, Fits, At, OfKind, NoneYet, MachineKept, Loaded
  <2>2. Service!Clean => StepAgrees(c)'
    BY <1>1, <1>2, <1>3, <1>5 DEF StepAgrees, At, OfKind, Agreed, Enabling
  <2> QED
    BY <1>1, <1>3, <1>5, <2>1, <2>2 DEF Good, At, Enabling
<1> QED
  BY <1>1, <1>4, <1>5

LEMMA ServeGood ==
    ASSUME Service!TypeOK, NEW c \in Service!Command, Ready(c),
           \/ Service!WriteUnit(c) \/ Service!Enable(c) \/ Service!Bootout(c)
           \/ Service!BootstrapService(c) \/ Service!Restart(c) \/ Service!Remove(c)
               \/ Service!Save(c)
    PROVE  Good(c)
<1>0. /\ config \in Service!Config /\ commands[c].config \in Service!Config /\ enabled \in BOOLEAN
      /\ commands[c].kind \in Service!Kind \cup {"none"} /\ commands \in [Service!Command -> Record]
  BY DEF Service!TypeOK, Record, Step
<1>1. CASE Service!WriteUnit(c)
  BY <1>0, <1>1, GoesFacts DEF Service!WriteUnit, Service!Is, Ready, Good, Fits, MachineKept,
     StepAgrees, NoneYet, Service!Clean,
          Agreed, Current, At, OfKind, Loaded, Enabling, Forced
<1>2. CASE Service!Enable(c) \/ Service!BootstrapService(c)
  <2>1. /\ commands[c].at \in {"enable", "bootstrap"} /\ commands'[c].at = "restart"
        /\ commands'[c].kind = commands[c].kind /\ commands'[c].config = commands[c].config
        /\ \A d \in Service!Command : d # c => commands'[d] = commands[d]
        /\ enabled' /\ UNCHANGED <<config, serviceCurrent, overlapped, troubles>>
    BY <1>2, GoesFacts DEF Service!Enable, Service!BootstrapService, Service!Is
  <2> QED
    BY <2>1 DEF Ready, Good, Fits, MachineKept, StepAgrees, NoneYet, Service!Clean,
        Agreed, Current, At, OfKind, Loaded, Enabling, Forced
<1>3. CASE Service!Bootout(c)
  BY <1>0, <1>3, GoesFacts DEF Service!Bootout, Service!Is, Service!Down, Ready, Good, Fits,
     MachineKept, StepAgrees, NoneYet, Service!Clean,
          Agreed, Current, At, OfKind, Loaded, Enabling, Forced
<1>5. CASE Service!Restart(c)
  <2>1. /\ commands[c].at = "restart"
        /\ commands'[c].at = IF commands[c].kind = "setup" THEN "done" ELSE "save"
        /\ commands'[c].kind = commands[c].kind /\ commands'[c].config = commands[c].config
        /\ \A d \in Service!Command : d # c => commands'[d] = commands[d]
        /\ service'.at = "starting"
            /\ UNCHANGED <<config, serviceCurrent, enabled, overlapped, troubles>>
    BY <1>5, GoesFacts DEF Service!Restart, Service!Is, Service!Down
  <2>2. commands[c].kind \in Service!Kind \ {"remove-service"}
    BY <2>1 DEF Ready, Fits, At, OfKind
  <2>3. Fits(c)' /\ NoneYet'
    BY <2>1, <2>2 DEF Ready, Fits, At, OfKind, NoneYet
  <2>4. Service!Clean => config.at = "whole" /\ commands[c].config.at = "whole" /\ enabled
                 /\ (commands[c].kind = "setup" => config.autostart)
    BY <2>1 DEF Ready, StepAgrees, At, OfKind, Enabling
  <2>5. Service!Clean' <=> Service!Clean
    BY <2>1 DEF Service!Clean
  <2>6. ~overlapped /\ ~Forced => MachineKept(c)'
    BY <2>1 DEF Ready, MachineKept, At, Loaded
  <2>7. Service!Clean => Current' /\ (enabled' \/ service'.at = "down")
          /\ (config'.at = "none" => ~enabled')
    BY <2>1, <2>4 DEF Current
  <2>8. Service!Clean /\ commands'[c].at = "save" => StepAgrees(c)'
    BY <2>1, <2>2, <2>4 DEF StepAgrees, At, OfKind, Enabling
  <2>9. Service!Clean /\ commands'[c].at = "done" => Agreed'
    BY <2>1, <2>4 DEF Agreed
  <2> QED
    BY <2>1, <2>3, <2>5, <2>6, <2>7, <2>8, <2>9 DEF Good, At
<1>6. CASE Service!Remove(c)
  BY <1>0, <1>6, GoesFacts DEF Service!Remove, Service!Is, Service!Down, Service!Config,
     Service!Kind, Service!Scripts, Ready, Good, Fits, MachineKept, StepAgrees, NoneYet,
     Service!Clean,
          Agreed, Current, At, OfKind, Loaded, Enabling, Forced
<1>7. CASE Service!Save(c)
  BY <1>0, <1>7, GoesFacts DEF Service!Save, Service!Is, Service!Config, Ready, Good, Fits,
     MachineKept, StepAgrees, NoneYet, Service!Clean,
          Agreed, Current, At, OfKind, Loaded, Enabling, Forced
<1> QED
  BY <1>1, <1>2, <1>3, <1>5, <1>6, <1>7

LEMMA WorksKeeps ==
    ASSUME ServiceBounded, ServiceInv, NEW c \in Service!Command, Service!Works(c)
    PROVE  ServiceInv'
<1>1. Service!TypeOK' /\ Service!TypeOK
  BY WorksTyped DEF ServiceInv
<1>2. c \in Service!Underway /\ UNCHANGED <<overlapped, troubles>>
  BY DEF Service!Works, Service!Underway, Service!Is, Service!Fetch, Service!CheckScript,
     Service!CheckSetup, Service!Download, Service!Tools, Service!Ask, Service!WriteConfig,
      Service!ScriptWrote, Service!SetupWrote, Service!Load, Service!Release,
         Service!WriteUnit, Service!Enable, Service!Bootout, Service!BootstrapService,
      Service!Restart, Service!Remove, Service!Save, Service!Saved, Service!Kept
<1>3. Good(c)
  BY <1>1, <1>2, ReadyWhenUnderway, LookGood, WriteGood, LoadGood, ReleaseGood,
      ServeGood DEF Service!Works
<1> QED
  BY <1>1, <1>2, <1>3, GoodKeeps

\* A command is given: one that is given while another is underway is not alone.
LEMMA GiveKeeps ==
    ASSUME ServiceBounded, ServiceInv, Service!TypeOK', NEW c \in Service!Command,
             NEW kind \in Service!Kind, Service!Give(c, kind)
    PROVE  ServiceInv'
<1> DEFINE at == CASE kind \in Service!Scripts -> "fetch" [] kind =
      "setup" -> "check" [] OTHER -> "load"
<1>1. /\ commands'[c].kind = kind /\ commands'[c].config = Service!NoConfig /\ commands'[c].at = at
      /\ \A d \in Service!Command : d # c => commands'[d] = commands[d]
      /\ commands[c].at = "none"
  BY DEF Service!Give, ServiceInv, Service!TypeOK
<1>2. /\ UNCHANGED <<config, serviceCurrent, enabled, service, troubles>>
      /\ overlapped' = (overlapped \/ Service!Underway # {}) /\ overlapped \in BOOLEAN
  BY DEF Service!Give, ServiceInv, Service!TypeOK
<1>3. at \in {"fetch", "check", "load"} /\ (at = "fetch" <=> kind \in Service!Scripts)
      /\ (at = "check" => kind = "setup")
          /\ (at = "load" => kind # "setup" /\ kind \notin Service!Scripts)
  BY DEF Service!Scripts
<1> HIDE DEF at
<1>4. Service!Underway' \subseteq Service!Underway \cup {c}
  BY <1>1 DEF Service!Underway
<1>5. ~overlapped' => ~overlapped /\ Service!Underway = {} /\ Service!Underway' = {c}
  BY <1>1, <1>2, <1>3, <1>4 DEF Service!Underway
<1>6. Alone' /\ NoneYet'
  BY <1>2, <1>5 DEF Alone, NoneYet, ServiceInv
<1>7. \A d \in Service!Command : Fits(d)'
  BY <1>1, <1>3 DEF Fits, At, OfKind, ServiceInv, Service!Scripts, Service!Kind
<1>8. OneMachine'
  <2> SUFFICES ASSUME ~overlapped', ~Forced', NEW d \in Service!Command PROVE MachineKept(d)'
    BY DEF OneMachine
  <2>1. CASE d = c
    BY <1>1, <1>3, <2>1 DEF MachineKept, At, Loaded
  <2>2. CASE d # c
    BY <1>1, <1>5, <2>2, <1>2 DEF Service!Underway, Forced, ServiceInv, OneMachine,
       MachineKept, At, Fits, OfKind
  <2> QED
    BY <2>1, <2>2
<1>9. CleanAgrees'
  BY <1>2, <1>5, <1>1, <1>3 DEF CleanAgrees, Service!Clean, ServiceInv, StepAgrees, At, OfKind,
     Agreed, Enabling, Current
<1> QED
  BY <1>6, <1>7, <1>8, <1>9 DEF ServiceInv

LEMMA TroubleKeeps ==
    ASSUME ServiceBounded, ServiceInv, Service!TypeOK', NEW c \in Service!Command,
             Service!Trouble(c)
    PROVE  ServiceInv'
<1>1. /\ commands'[c].at = "failed" /\ commands'[c].kind = commands[c].kind
      /\ \A d \in Service!Command : d # c => commands'[d] = commands[d]
  BY GoesFacts DEF Service!Trouble, ServiceInv
<1>2. UNCHANGED <<config, serviceCurrent, enabled, service, overlapped>> /\ ~Service!Clean'
  BY DEF Service!Trouble, Service!Clean, ServiceInv, Service!TypeOK, ServiceBounded
<1>3. Service!Underway' \subseteq Service!Underway
  BY <1>1 DEF Service!Underway
<1>4. Alone' /\ NoneYet' /\ CleanAgrees'
  BY <1>2, <1>3 DEF Alone, NoneYet, CleanAgrees, ServiceInv
<1>5. \A d \in Service!Command : Fits(d)'
  BY <1>1 DEF Fits, At, OfKind, ServiceInv
<1>6. OneMachine'
  BY <1>1, <1>2 DEF Forced, MachineKept, At, Loaded, OneMachine, ServiceInv
<1> QED
  BY <1>4, <1>5, <1>6 DEF ServiceInv

LEMMA StartsKeeps ==
    ASSUME ServiceInv, Service!TypeOK', Service!Bootstrap \/ Service!Expire
             \/ Service!RestartHost \/ Service!Start
    PROVE  ServiceInv'
<1>1. UNCHANGED <<commands, config, serviceCurrent, enabled, overlapped, troubles>>
  BY DEF Service!Bootstrap, Service!Expire, Service!RestartHost, Service!Start
<1>2. \/ service' = service
      \/ service.at = "starting" /\ service' = [at |-> "up", release |-> serviceCurrent]
  BY DEF Service!Bootstrap, Service!Expire, Service!RestartHost, Service!Start
<1>3. Service!Underway' = Service!Underway /\ (Forced' <=> Forced)
        /\ (Service!Clean' <=> Service!Clean) /\ (Agreed' <=> Agreed)
  BY <1>1 DEF Service!Underway, Forced, Service!Clean, Agreed
<1>5. Alone' /\ NoneYet' /\ \A d \in Service!Command : Fits(d)'
  BY <1>1, <1>3 DEF Alone, NoneYet, Fits, At, OfKind, ServiceInv
<1>6. OneMachine'
  BY <1>1, <1>3 DEF MachineKept, At, OneMachine, ServiceInv
<1>7. CleanAgrees'
  BY <1>1, <1>3, <1>2 DEF StepAgrees, At, OfKind, Current, CleanAgrees, ServiceInv
<1> QED
  BY <1>5, <1>6, <1>7 DEF ServiceInv

LEMMA ServiceStarts == ServiceBounded /\ Service!Init => ServiceInv
<1> SUFFICES ASSUME ServiceBounded, Service!Init PROVE ServiceInv
  OBVIOUS
<1>1. Service!TypeOK
  BY InstallTyped
<1>2. \A c \in Service!Command : commands[c].at = "none"
  BY DEF Service!Init, Service!NoCommand
<1>3. Service!Underway = {}
  BY <1>2 DEF Service!Underway
<1>4. Alone /\ NoneYet /\ \A c \in Service!Command : Fits(c)
  BY <1>2, <1>3 DEF Service!Init, Service!NoCommand, Fits, At, OfKind, Alone, NoneYet
<1>5. OneMachine
  BY <1>2 DEF OneMachine, MachineKept, At, Loaded
<1>6. CleanAgrees
  BY <1>3 DEF CleanAgrees, Service!Init, Agreed, Current, Service!NoConfig, Service!Down
<1> QED
  BY <1>1, <1>4, <1>5, <1>6 DEF ServiceInv

LEMMA ServiceStep == ServiceBounded /\ ServiceInv /\ [Service!Next]_Service!vars => ServiceInv'
<1> SUFFICES ASSUME ServiceBounded, ServiceInv, [Service!Next]_Service!vars PROVE ServiceInv'
  OBVIOUS
<1>1. Service!TypeOK'
  BY NextTyped DEF ServiceInv
<1>2. CASE UNCHANGED Service!vars
  BY <1>1, <1>2 DEF Service!vars, ServiceInv, Alone, NoneYet, OneMachine, CleanAgrees, Fits,
     Service!Underway, Forced,
      Service!Clean, MachineKept, StepAgrees, Agreed, Current, At, OfKind
<1>3. CASE Service!Bootstrap \/ Service!Expire \/ Service!RestartHost \/ Service!Start
  BY <1>1, <1>3, StartsKeeps
<1>4. CASE \E c \in Service!Command : \E kind \in Service!Kind : Service!Give(c, kind)
  BY <1>1, <1>4, GiveKeeps
<1>5. CASE \E c \in Service!Command : Service!Trouble(c)
  BY <1>1, <1>5, TroubleKeeps
<1>6. CASE \E c \in Service!Command : Service!Works(c)
  BY <1>6, WorksKeeps
<1> QED
  BY <1>2, <1>3, <1>4, <1>5, <1>6 DEF Service!Next

LEMMA ServiceSafe == ServiceInv => Service!AutostartAgrees /\ Service!RunsCurrent
    /\ Service!ConfigKept
<1> SUFFICES ASSUME ServiceInv PROVE Service!AutostartAgrees /\ Service!RunsCurrent
      /\ Service!ConfigKept
  OBVIOUS
<1>1. Service!AutostartAgrees /\ Service!RunsCurrent
  BY DEF ServiceInv, CleanAgrees, Service!AutostartAgrees, Service!RunsCurrent, Agreed, Current
<1>2. Service!ConfigKept
  BY DEF ServiceInv, OneMachine, MachineKept, Service!ConfigKept, Forced, At
<1> QED
  BY <1>1, <1>2

-----------------------------------------------------------------------------
(* A behaviour of the whole is one of each part.                           *)

LEMMA Bounds ==
    /\ TermsBounded
    /\ PagesBounded
    /\ IdeBounded
    /\ FileBounded
    /\ SignInBounded
    /\ UpgradeBounded
    /\ UpdateBounded
    /\ ServiceBounded
    /\ Spellings \in Nat
BY MCMachineAssumption DEF TermsBounded, PagesBounded, IdeBounded, FileBounded, SignInBounded,
    UpgradeBounded, UpdateBounded, ServiceBounded,
    Terms!Nothing

LEMMA TermsRun == Spec => Terms!Init /\ [][Terms!Next]_Terms!vars
<1>1. Init => Terms!Init
  BY DEF Init
<1>2. [Next]_vars => [Terms!Next]_Terms!vars
  BY DEF Next, vars, terminalsVars, Terms!vars
<1> QED
  BY <1>1, <1>2, PTL DEF Spec

LEMMA PagesRun == Spec => Requests!Init /\ [][Requests!Next]_Requests!vars
<1>1. Init => Requests!Init
  BY DEF Init
<1>2. [Next]_vars => [Requests!Next]_Requests!vars
  BY DEF Next, vars, pagesVars, Requests!vars
<1> QED
  BY <1>1, <1>2, PTL DEF Spec

LEMMA EditorsRun == Spec => Editors!Init /\ [][Editors!Next]_Editors!vars
<1>1. Init => Editors!Init
  BY DEF Init
<1>2. [Next]_vars => [Editors!Next]_Editors!vars
  BY DEF Next, vars, ideVars, Editors!vars
<1> QED
  BY <1>1, <1>2, PTL DEF Spec

LEMMA FilesRun == Spec => Files!Init /\ [][Files!Next]_Files!vars
<1>1. Init => Files!Init
  BY DEF Init
<1>2. [Next]_vars => [Files!Next]_Files!vars
  BY DEF Next, vars, uploadVars, Files!vars
<1> QED
  BY <1>1, <1>2, PTL DEF Spec

LEMMA SignInRuns == Spec => SignIn!Init /\ [][SignIn!Next]_SignIn!vars
<1>1. Init => SignIn!Init
  BY DEF Init
<1>2. [Next]_vars => [SignIn!Next]_SignIn!vars
  BY DEF Next, vars, signinVars, SignIn!vars
<1> QED
  BY <1>1, <1>2, PTL DEF Spec

LEMMA CodexRuns == Spec => Codex!Init /\ [][Codex!Next]_Codex!vars
<1>1. Init => Codex!Init
  BY DEF Init
<1>2. [Next]_vars => [Codex!Next]_Codex!vars
  BY DEF Next, vars, codexVars, Codex!vars
<1> QED
  BY <1>1, <1>2, PTL DEF Spec

LEMMA UpgradeRuns == Spec => Runner!Init /\ [][Runner!Next]_Runner!vars
<1>1. Init => Runner!Init
  BY DEF Init
<1>2. [Next]_vars => [Runner!Next]_Runner!vars
  BY DEF Next, vars, upgradeVars, Runner!vars
<1> QED
  BY <1>1, <1>2, PTL DEF Spec

LEMMA UpdateRuns == Spec => Host!Init /\ [][Host!Next]_Host!vars
<1>1. Init => Host!Init
  BY DEF Init
<1>2. [Next]_vars => [Host!Next]_Host!vars
  BY DEF Next, vars, updateVars, Host!vars
<1> QED
  BY <1>1, <1>2, PTL DEF Spec

LEMMA ServiceRuns == Spec => Service!Init /\ [][Service!Next]_Service!vars
<1>1. Init => Service!Init
  BY DEF Init
<1>2. [Next]_vars => [Service!Next]_Service!vars
  BY DEF Next, vars, serviceVars, Service!vars
<1> QED
  BY <1>1, <1>2, PTL DEF Spec

-----------------------------------------------------------------------------
(* What the runs check, for every value of the bounds.                     *)

\* A shell runs that the host lists, or what it does not know yet is on its way
\* (runnerTerminalManager, hostRunnerEvents).
THEOREM MachineTerminalsInductive == Spec => []TermsInv
<1>1. Terms!Init => TermsInv
  BY Bounds, TermsInit
<1>2. TermsInv /\ [Terms!Next]_Terms!vars => TermsInv'
  BY Bounds, TermsStep
<1> QED
  BY <1>1, <1>2, TermsRun, PTL

\* A request about files or Git is sent, worked on and answered once, and one change
\* of a workspace runs at a time (App.vue, runGitMutation, runnerToolsManager).
THEOREM MachineRequestsInductive == Spec => []PagesInv
<1>1. Requests!Init => PagesInv
  BY Bounds, PagesInit
<1>2. PagesInv /\ [Requests!Next]_Requests!vars => PagesInv'
  BY Bounds, PagesStep
<1> QED
  BY <1>1, <1>2, PagesRun, PTL

\* An editor that the host lists runs, or its end is on its way; one that runs is
\* shown, about to be, or about to be stopped (RunnerIdeManager, openWorkspace).
THEOREM MachineEditorsInductive == Spec => []IdeInv
<1>1. Editors!Init => IdeInv
  BY Bounds, IdeInit
<1>2. IdeInv /\ [Editors!Next]_Editors!vars => IdeInv'
  BY Bounds, IdeStep
<1> QED
  BY <1>1, <1>2, EditorsRun, PTL

\* The pieces of an attachment that are written, that wait and that are on their way
\* are those that were sent, in order (uploads, runnerUploadManager).
THEOREM MachineUploadsInductive == Spec => []UploadsInv
<1>1. Files!Init => UploadsInv
  BY Bounds, UploadsInit
<1>2. UploadsInv /\ [Files!Next]_Files!vars => UploadsInv'
  BY Bounds, UploadsStep
<1> QED
  BY <1>1, <1>2, FilesRun, PTL

\* A sign-in that is active is the present one, and waits for the browser
\* (runnerToolsManager).
THEOREM MachineSignInInductive == Spec => []SignInInv
<1>1. SignIn!Init => SignInInv
  BY Bounds, SignInInit
<1>2. SignInInv /\ [SignIn!Next]_SignIn!vars => SignInInv'
  BY Bounds, SignInStep
<1> QED
  BY <1>1, <1>2, SignInRuns, PTL

\* Every form of a request that was tried has been refused, and forms with more of
\* the options are tried before those with less (codexProtocolVariants).
THEOREM MachineCodexInductive == Spec => []RequestsInv
<1>1. Codex!Init => RequestsInv
  BY Bounds, RequestsInit
<1>2. RequestsInv /\ [Codex!Next]_Codex!vars => RequestsInv'
  BY Bounds, RequestsStep
<1> QED
  BY <1>1, <1>2, CodexRuns, PTL

\* An upgrade is asked for once, and its bundle is whole when the runner unpacks it
\* (releaseBundleManager, runnerReleaseManager).
THEOREM MachineUpgradeInductive == Spec => []UpgradeInv
<1>1. Runner!Init => UpgradeInv
  BY Bounds, UpgradeInit
<1>2. UpgradeInv /\ [Runner!Next]_Runner!vars => UpgradeInv'
  BY Bounds, UpgradeStep
<1> QED
  BY <1>1, <1>2, UpgradeRuns, PTL

\* The release that current names, and each that a request is about to switch to,
\* is accounted for (hostSelfUpdateManager, managedRelease).
THEOREM MachineUpdateInductive == Spec => []UpdateInv
<1>1. Host!Init => UpdateInv
  BY Bounds, UpdateInit
<1>2. UpdateInv /\ [Host!Next]_Host!vars => UpdateInv'
  BY Bounds, UpdateStep
<1> QED
  BY <1>1, <1>2, UpdateRuns, PTL

\* Commands that change the service run one after another, unless they overlapped,
\* and leave it agreed (runSetupWizard, localRuntimeCommands).
THEOREM MachineServiceInductive == Spec => []ServiceInv
<1>1. Service!Init => ServiceInv
  BY Bounds, ServiceStarts
<1>2. ServiceInv /\ [Service!Next]_Service!vars => ServiceInv'
  BY Bounds, ServiceStep
<1> QED
  BY <1>1, <1>2, ServiceRuns, PTL

\* The page, the host and the runner agree on which shells run, once nothing is on
\* its way (runnerTerminalManager, hostRunnerEvents, App.vue).
THEOREM MachineRecordsAgree == Spec => []RecordsAgree
<1>1. TermsInv => RecordsAgree
  BY TermsSafe DEF RecordsAgree
<1> QED
  BY <1>1, MachineTerminalsInductive, PTL

\* One change of the files of a workspace runs at a time, and what the page shows
\* of Git is not older than the last one (App.vue, runGitMutation).
THEOREM MachineGitIsFresh == Spec => []GitIsFresh
<1>1. PagesInv => GitIsFresh
  BY Bounds, PagesSafe DEF GitIsFresh
<1> QED
  BY <1>1, MachineRequestsInductive, PTL

\* What the host lists of editors is what runs, and what nobody can reach is
\* stopped (ideManager, machineControls).
THEOREM MachineEditorsAgree == Spec => []EditorsAgree
<1>1. IdeInv => EditorsAgree
  BY IdeSafe DEF EditorsAgree
<1> QED
  BY <1>1, MachineEditorsInductive, PTL

\* An attachment that counts as uploaded is whole, and none stays behind on the
\* disk of the host (uploads, runnerUploadManager).
THEOREM MachineUploadsAreWhole == Spec => []UploadsAreWhole
<1>1. UploadsInv => UploadsAreWhole
  BY Bounds, UploadsSafe DEF UploadsAreWhole
<1> QED
  BY <1>1, MachineUploadsInductive, PTL

\* What is shown of the sign-in of Codex has a cause, and a request to Codex keeps
\* every option that its build accepts, and fails for a reason only
\* (runnerToolsManager, codexSessionProtocol).
THEOREM MachineCodexReady == Spec => []CodexReady
<1>1. SignInInv /\ RequestsInv => CodexReady
  BY DEF SignInInv, RequestsInv, CodexReady, SignIn!SignInAgrees
<1> QED
  BY <1>1, MachineSignInInductive, MachineCodexInductive, PTL

\* A runner that reports an upgrade has installed it; the release that the host
\* would start next is on its disk; the service that runs, its unit and the
\* configuration are those that were written last (runnerReleaseManager,
\* managedRelease, runSetupWizard, localRuntimeCommands).
THEOREM MachineReleasesAgree == Spec => []ReleasesAgree
<1>1. UpgradeInv /\ UpdateInv /\ ServiceInv => ReleasesAgree
  BY UpgradeSafe, ServiceSafe DEF UpdateInv, ReleasesAgree
<1> QED
  BY <1>1, MachineUpgradeInductive, MachineUpdateInductive, MachineServiceInductive, PTL

\* The variables of every part keep their types.
THEOREM MachineTypeCorrect == Spec => []TypeOK
<1>1. TermsInv /\ PagesInv /\ IdeInv => Terms!TypeOK /\ Requests!TypeOK /\ Editors!TypeOK
  BY DEF TermsInv, PagesInv, IdeInv
<1>2. UploadsInv /\ SignInInv /\ RequestsInv => Files!TypeOK /\ SignIn!TypeOK /\ Codex!TypeOK
  BY DEF UploadsInv, SignInInv, RequestsInv
<1>3. UpgradeInv /\ UpdateInv /\ ServiceInv => Runner!TypeOK /\ Host!TypeOK /\ Service!TypeOK
  BY DEF UpgradeInv, UpdateInv, ServiceInv
<1>4. TermsInv /\ PagesInv /\ IdeInv /\ UploadsInv /\ SignInInv /\ RequestsInv
      /\ UpgradeInv /\ UpdateInv /\ ServiceInv => TypeOK
  BY <1>1, <1>2, <1>3 DEF TypeOK
<1> QED
  BY <1>4, MachineTerminalsInductive, MachineRequestsInductive, MachineEditorsInductive,
     MachineUploadsInductive, MachineSignInInductive, MachineCodexInductive,
     MachineUpgradeInductive, MachineUpdateInductive, MachineServiceInductive, PTL
=============================================================================
