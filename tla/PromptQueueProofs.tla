------------------------- MODULE PromptQueueProofs -------------------------
(***************************************************************************)
(* Proofs about PromptQueue, for every number of prompts, messages, edits, *)
(* commands and failures: the lock is exact, a prompt is sent once and     *)
(* does not vanish, and a session that Codex works for shows as running.        *)
(***************************************************************************)
EXTENDS PromptQueue, FiniteSetTheorems, TLAPS

USE DEF Prompt, None, Send

-----------------------------------------------------------------------------
(* The invariant.                                                          *)

\* TypeOK as far as the proofs need it: without what is on the way.
Typed ==
    /\ created \in 0..MaxPrompts /\ table \subseteq Prompt /\ editing \in Prompt \cup {None}
    /\ lock \in BOOLEAN /\ phase \in [Send -> Phase]
    /\ prompt \in [Send -> Prompt \cup {None}] /\ sends \in 0..MaxSends
    /\ revived \in [Prompt -> Nat]

\* Commands are numbered from 1, and all prompts they or an edit are about
\* were queued.
Numbered ==
    /\ \A n \in Send : n > sends => phase[n] = "unused" /\ prompt[n] = None
    /\ table \subseteq 1..created /\ editing \in 1..created \cup {None}
    /\ \A n \in Send : prompt[n] \in 1..created \cup {None}

Dropped(p) == {n \in Attempts(p) : phase[n] = "dropped"}
OnTheWay(p) == \E n \in InFlight : prompt[n] = p

\* A prompt that waits in the table has used up all reasons to be sent: the
\* next attempt is the one that SentOnce allows.
Budget ==
    \A p \in Prompt :
        Cardinality(Attempts(p)) <=
            (IF p \in table /\ ~OnTheWay(p) THEN 0 ELSE 1) + revived[p] + Cardinality(Dropped(p))

QueueInv == Typed /\ Numbered /\ LockExact /\ Budget /\ PromptKept

-----------------------------------------------------------------------------
(* Counting attempts.                                                      *)

LEMMA SendFinite ==
    ASSUME NEW S \in SUBSET Send
    PROVE  IsFiniteSet(S) /\ Cardinality(S) \in Nat
<1>1. MaxSends \in Nat
    BY PromptQueueAssumption
<1>2. IsFiniteSet(1..MaxSends)
    BY <1>1, FS_Interval
<1>3. IsFiniteSet(S)
    BY <1>2, FS_Subset
<1> QED
    BY <1>3, FS_CardinalityType

LEMMA Counts ==
    ASSUME NEW p
    PROVE  /\ Attempts(p) \in SUBSET Send /\ Dropped(p) \in SUBSET Attempts(p)
           /\ Cardinality(Attempts(p)) \in Nat /\ Cardinality(Dropped(p)) \in Nat
<1>1. Attempts(p) \in SUBSET Send /\ Dropped(p) \in SUBSET Attempts(p)
    BY DEF Attempts, Dropped
<1> QED
    BY <1>1, SendFinite

\* Nothing is sent or dropped, no prompt appears in the table, none leaves
\* the way while it is there.
LEMMA BudgetFrame ==
    ASSUME Typed, Budget, prompt' = prompt, revived' = revived,
           \A p \in Prompt : Dropped(p)' = Dropped(p),
           \A p \in Prompt : p \in table' /\ ~OnTheWay(p)' => p \in table /\ ~OnTheWay(p)
    PROVE  Budget'
<1> SUFFICES ASSUME NEW p \in Prompt
             PROVE  Cardinality(Attempts(p)') <=
                       (IF p \in table' /\ ~OnTheWay(p)' THEN 0 ELSE 1)
                          + revived'[p] + Cardinality(Dropped(p)')
    BY DEF Budget
<1>1. Attempts(p)' = Attempts(p) /\ Dropped(p)' = Dropped(p) /\ revived'[p] = revived[p]
    BY DEF Attempts
<1>2. Cardinality(Attempts(p)) <=
         (IF p \in table /\ ~OnTheWay(p) THEN 0 ELSE 1) + revived[p] + Cardinality(Dropped(p))
    BY DEF Budget
<1>3. /\ Cardinality(Attempts(p)) \in Nat /\ Cardinality(Dropped(p)) \in Nat
      /\ revived[p] \in Nat
    BY Counts DEF Typed
<1>4. p \in table' /\ ~OnTheWay(p)' => p \in table /\ ~OnTheWay(p)
    OBVIOUS
<1> QED
    BY <1>1, <1>2, <1>3, <1>4

-----------------------------------------------------------------------------
(* Steps that send nothing.                                                *)

LEMMA QueueInit == Init => QueueInv
<1> SUFFICES ASSUME Init PROVE QueueInv
    OBVIOUS
<1>1. Typed
    <2>1. 0 \in 0..MaxPrompts /\ 0 \in 0..MaxSends
        BY PromptQueueAssumption
    <2> QED
        BY <2>1 DEF Init, Typed, Phase
<1>2. Numbered /\ InFlight = {} /\ created = 0
    BY DEF Init, Numbered, InFlight
<1>3. LockExact /\ PromptKept
    BY <1>2 DEF Init, LockExact, QueuedInFlight, PromptKept
<1>4. Budget
    <2> SUFFICES ASSUME NEW p \in Prompt
                 PROVE  Cardinality(Attempts(p)) <=
                           (IF p \in table /\ ~OnTheWay(p) THEN 0 ELSE 1)
                              + revived[p] + Cardinality(Dropped(p))
        BY DEF Budget
    <2>1. Attempts(p) = {} /\ Dropped(p) = {} /\ revived[p] = 0
        <3>1. p # 0
            BY PromptQueueAssumption
        <3> QED
            BY <3>1 DEF Init, Attempts, Dropped
    <2>2. Cardinality(Attempts(p)) = 0 /\ Cardinality(Dropped(p)) = 0
        BY <2>1, FS_EmptySet
    <2> QED
        BY <2>1, <2>2
<1> QED
    BY <1>1, <1>2, <1>3, <1>4 DEF QueueInv

\* What the proofs look at does not change, but for an edit that is looked
\* up or given up.
QuietStep ==
    /\ UNCHANGED <<created, table, sendVars, userVars>>
    /\ editing' \in table \cup {None, editing}

\* Commands are settled.
SettleStep ==
    /\ UNCHANGED <<created, table, editing, lock, prompt, sends, userVars>>
    /\ phase' \in [Send -> Phase]
    /\ \A n \in Send : phase'[n] # phase[n] =>
                       phase[n] = "waiting" /\ phase'[n] \in {"accepted", "failed"}

LEMMA QuietKeeps == QueueInv /\ QuietStep => QueueInv'
<1> SUFFICES ASSUME QueueInv, QuietStep PROVE QueueInv'
    OBVIOUS
<1> USE DEF QueueInv, QuietStep, sendVars, userVars
<1>1. Typed'
    BY DEF Typed
<1>2. Numbered'
    BY DEF Numbered
<1>3. InFlight' = InFlight /\ \A p : Attempts(p)' = Attempts(p)
    BY DEF InFlight, Attempts
<1>4. \A p \in Prompt : Dropped(p)' = Dropped(p) /\ (OnTheWay(p)' <=> OnTheWay(p))
    BY <1>3 DEF Dropped, OnTheWay
<1>5. Budget'
    BY <1>4, BudgetFrame
<1>6. LockExact' /\ PromptKept'
    BY <1>3 DEF LockExact, QueuedInFlight, PromptKept
<1> QED
    BY <1>1, <1>2, <1>5, <1>6

LEMMA SettleKeeps == QueueInv /\ SettleStep => QueueInv'
<1> SUFFICES ASSUME QueueInv, SettleStep PROVE QueueInv'
    OBVIOUS
<1> USE DEF QueueInv, SettleStep, userVars
<1>1. Typed'
    BY DEF Typed
<1>2. Numbered'
    BY DEF Numbered
<1>3. InFlight' = InFlight /\ \A p : Attempts(p)' = Attempts(p)
    BY DEF InFlight, Attempts
<1>4. \A p \in Prompt : Dropped(p)' = Dropped(p) /\ (OnTheWay(p)' <=> OnTheWay(p))
    BY <1>3 DEF Dropped, OnTheWay, Attempts
<1>5. Budget'
    BY <1>4, BudgetFrame
<1>6. LockExact'
    BY <1>3 DEF LockExact, QueuedInFlight
<1>7. PromptKept'
    BY <1>3 DEF PromptKept, Attempts
<1> QED
    BY <1>1, <1>2, <1>5, <1>6, <1>7

LEMMA EnqueueKeeps == QueueInv /\ Enqueue => QueueInv'
<1> SUFFICES ASSUME QueueInv, Enqueue PROVE QueueInv'
    OBVIOUS
<1> USE DEF QueueInv
<1>1. /\ created' = created + 1 /\ table' = table \cup {created + 1} /\ created + 1 \in Prompt
      /\ created \in Nat /\ UNCHANGED <<editing, lock, phase, prompt, sends, userVars>>
    BY PromptQueueAssumption DEF Enqueue, Typed, sendVars
<1>2. Typed'
    <2>1. created' \in 0..MaxPrompts
        BY <1>1, PromptQueueAssumption
    <2>2. table' \subseteq Prompt
        BY <1>1 DEF Typed
    <2> QED
        BY <1>1, <2>1, <2>2 DEF Typed, userVars
<1>3. Numbered'
    <2>1. 1..created \subseteq 1..created' /\ created + 1 \in 1..created'
        BY <1>1
    <2> QED
        BY <1>1, <2>1 DEF Numbered
<1>4. InFlight' = InFlight /\ \A p : Attempts(p)' = Attempts(p) /\ Dropped(p)' = Dropped(p)
    BY <1>1 DEF InFlight, Attempts, Dropped
<1>5. \A p : OnTheWay(p)' <=> OnTheWay(p)
    BY <1>1, <1>4 DEF OnTheWay
<1>6. LockExact'
    BY <1>1, <1>4 DEF LockExact, QueuedInFlight
<1>7. PromptKept'
    <2> SUFFICES ASSUME NEW p \in 1..created'
                 PROVE  \/ p \in table' \cup removed' \cup returned'
                        \/ \E n \in Attempts(p)' : phase'[n] = "sent"
        BY DEF PromptKept
    <2>1. p = created + 1 \/ p \in 1..created
        BY <1>1
    <2> QED
        BY <1>1, <1>4, <2>1 DEF PromptKept, userVars
<1>8. Budget'
    <2> SUFFICES ASSUME NEW p \in Prompt
                 PROVE  Cardinality(Attempts(p)') <=
                           (IF p \in table' /\ ~OnTheWay(p)' THEN 0 ELSE 1)
                              + revived'[p] + Cardinality(Dropped(p)')
        BY DEF Budget
    <2>1. revived'[p] = revived[p] /\ revived[p] \in Nat
        BY <1>1 DEF Typed, userVars
    <2>2. CASE p = created + 1
        <3>1. p \notin 1..created \cup {None}
            BY <1>1, <2>2
        <3>2. Attempts(p) = {}
            BY <3>1 DEF Attempts, Numbered
        <3>3. Cardinality(Attempts(p)) = 0
            BY <3>2, FS_EmptySet
        <3> QED
            BY <1>4, <2>1, <3>3, Counts
    <2>3. CASE p # created + 1
        <3>1. p \in table' <=> p \in table
            BY <1>1, <2>3
        <3>2. Cardinality(Attempts(p)) <=
                 (IF p \in table /\ ~OnTheWay(p) THEN 0 ELSE 1)
                    + revived[p] + Cardinality(Dropped(p))
            BY DEF Budget
        <3> QED
            BY <1>4, <1>5, <2>1, <3>1, <3>2
    <2> QED
        BY <2>2, <2>3
<1> QED
    BY <1>2, <1>3, <1>6, <1>7, <1>8

\* A late edit pays for the attempt that it makes possible.
LEMMA EditKeeps == QueueInv /\ EditApplies => QueueInv'
<1> SUFFICES ASSUME QueueInv, EditApplies PROVE QueueInv'
    OBVIOUS
<1> USE DEF QueueInv
<1>1. /\ editing \in 1..created /\ editing \in Prompt /\ editing' = None
      /\ table' = table \cup {editing}
      /\ revived' = IF editing \in table THEN revived
                    ELSE [revived EXCEPT ![editing] = revived[editing] + 1]
      /\ UNCHANGED <<created, lock, phase, prompt, sends, removed, returned>>
    BY DEF EditApplies, Typed, Numbered, sendVars
<1>2. Typed'
    BY <1>1 DEF Typed
<1>3. Numbered'
    BY <1>1 DEF Numbered
<1>4. InFlight' = InFlight /\ \A p : Attempts(p)' = Attempts(p) /\ Dropped(p)' = Dropped(p)
    BY <1>1 DEF InFlight, Attempts, Dropped
<1>5. \A p : OnTheWay(p)' <=> OnTheWay(p)
    BY <1>1, <1>4 DEF OnTheWay
<1>6. LockExact' /\ PromptKept'
    BY <1>1, <1>4 DEF LockExact, QueuedInFlight, PromptKept
<1>7. CASE editing \in table
    <2>1. table' = table /\ revived' = revived
        BY <1>1, <1>7
    <2> QED
        BY <1>1, <1>2, <1>3, <1>4, <1>5, <1>6, <2>1, BudgetFrame
<1>8. CASE editing \notin table
    <2>1. Budget'
        <3> SUFFICES ASSUME NEW p \in Prompt
                     PROVE  Cardinality(Attempts(p)') <=
                               (IF p \in table' /\ ~OnTheWay(p)' THEN 0 ELSE 1)
                                  + revived'[p] + Cardinality(Dropped(p)')
            BY DEF Budget
        <3>1. Cardinality(Attempts(p)) <=
                 (IF p \in table /\ ~OnTheWay(p) THEN 0 ELSE 1)
                    + revived[p] + Cardinality(Dropped(p))
            BY DEF Budget
        <3>2. revived[p] \in Nat /\ Cardinality(Attempts(p)) \in Nat /\ Cardinality(Dropped(p)) \in Nat
            BY Counts DEF Typed
        <3>3. CASE p = editing
            <4>1. revived'[p] = revived[p] + 1 /\ p \notin table
                BY <1>1, <1>8, <3>3 DEF Typed
            <4> QED
                BY <1>4, <3>1, <3>2, <4>1
        <3>4. CASE p # editing
            <4>1. revived'[p] = revived[p] /\ (p \in table' <=> p \in table)
                BY <1>1, <3>4 DEF Typed
            <4> QED
                BY <1>4, <1>5, <3>1, <4>1
        <3> QED
            BY <3>3, <3>4
    <2> QED
        BY <1>2, <1>3, <1>6, <2>1
<1> QED
    BY <1>7, <1>8

\* The user removes a prompt, or had emptied it.
LEMMA RemoveKeeps ==
    ASSUME QueueInv, NEW p \in table, table' = table \ {p}, removed' = removed \cup {p},
           UNCHANGED <<created, editing, lock, phase, prompt, sends, returned, revived>>
    PROVE  QueueInv'
<1> USE DEF QueueInv
<1>1. Typed' /\ Numbered'
    BY DEF Typed, Numbered
<1>2. InFlight' = InFlight /\ \A q : Attempts(q)' = Attempts(q) /\ Dropped(q)' = Dropped(q)
    BY DEF InFlight, Attempts, Dropped
<1>3. \A q : OnTheWay(q)' <=> OnTheWay(q)
    BY <1>2 DEF OnTheWay
<1>4. LockExact' /\ PromptKept'
    BY <1>2 DEF LockExact, QueuedInFlight, PromptKept
<1>5. Budget'
    BY <1>2, <1>3, BudgetFrame
<1> QED
    BY <1>1, <1>4, <1>5

-----------------------------------------------------------------------------
(* Sending.                                                                *)

LEMMA BeginKeeps ==
    ASSUME QueueInv, NEW p \in table \cup {None}, p # None => ~lock, BeginSend(p)
    PROVE  QueueInv'
<1> USE DEF QueueInv
<1> DEFINE n == sends + 1
<1>1. /\ n \in Send /\ n > sends /\ sends' = n
      /\ prompt' = [prompt EXCEPT ![n] = p] /\ UNCHANGED <<created, editing, removed, revived>>
    BY PromptQueueAssumption DEF BeginSend, Typed, GiveBack, userVars
<1>2. phase[n] = "unused" /\ prompt[n] = None
    BY <1>1 DEF Numbered
<1>3. \/ /\ connected /\ phase' = [phase EXCEPT ![n] = "waiting"] /\ lock' = (lock \/ p # None)
         /\ UNCHANGED <<table, returned>>
      \/ /\ ~connected /\ phase' = [phase EXCEPT ![n] = "rejected"] /\ UNCHANGED lock
         /\ table' = table \ {p}
         /\ p # None => p \in returned'
         /\ returned \subseteq returned'
    BY DEF BeginSend, GiveBack, userVars
<1>4. p \in Prompt \cup {None} /\ p \in 1..created \cup {None} /\ sends \in Nat
    BY PromptQueueAssumption DEF Typed, Numbered
<1> HIDE DEF n
<1>5. Typed'
    <2>1. n \in 0..MaxSends
        BY <1>1
    <2>2. phase' \in [Send -> Phase] /\ table' \subseteq Prompt /\ lock' \in BOOLEAN
        BY <1>3 DEF Typed, Phase
    <2>3. prompt' \in [Send -> Prompt \cup {None}]
        BY <1>1, <1>4 DEF Typed
    <2> QED
        BY <1>1, <2>1, <2>2, <2>3 DEF Typed
<1>6. \A m \in Send : m # n => phase'[m] = phase[m] /\ prompt'[m] = prompt[m]
    BY <1>1, <1>3 DEF Typed
<1>7. /\ prompt'[n] = p /\ phase'[n] \in {"waiting", "rejected"}
      /\ phase'[n] = "waiting" <=> connected
    BY <1>1, <1>3 DEF Typed
<1>8. Numbered'
    <2>1. \A m \in Send : m > sends' => m > sends /\ m # n
        BY <1>1, <1>4
    <2> QED
        BY <1>1, <1>3, <1>4, <1>6, <1>7, <2>1 DEF Numbered
<1>9. InFlight' = IF connected THEN InFlight \cup {n} ELSE InFlight
    BY <1>1, <1>2, <1>6, <1>7 DEF InFlight
<1>10. n \notin InFlight /\ \A q \in Prompt : n \notin Attempts(q)
    BY <1>2, PromptQueueAssumption DEF InFlight, Attempts
<1>11. \A q \in Prompt : /\ q # p => Attempts(q)' = Attempts(q)
                         /\ q = p => Attempts(q)' = Attempts(q) \cup {n}
                         /\ Dropped(q)' = Dropped(q)
    <2>1. \A q \in Prompt : q # None
        BY PromptQueueAssumption
    <2> QED
        BY <1>1, <1>2, <1>6, <1>7, <2>1 DEF Attempts, Dropped
<1>12. \A q \in Prompt : /\ q # p => (OnTheWay(q)' <=> OnTheWay(q))
                         /\ q = p /\ connected => OnTheWay(q)'
    <2>1. \A m \in InFlight : m # n /\ m \in Send
        BY <1>10 DEF InFlight
    <2> QED
        BY <1>6, <1>7, <1>9, <2>1 DEF OnTheWay
<1>13. LockExact'
    <2>1. CASE connected /\ p # None
        <3>1. QueuedInFlight = {} /\ lock'
            BY <1>3, <2>1 DEF LockExact
        <3>2. QueuedInFlight' = {n}
            BY <1>6, <1>7, <1>9, <1>10, <2>1, <3>1 DEF QueuedInFlight, InFlight
        <3> QED
            BY <3>1, <3>2 DEF LockExact
    <2>2. CASE ~(connected /\ p # None)
        <3>1. QueuedInFlight' = QueuedInFlight
            BY <1>6, <1>7, <1>9, <1>10, <2>2 DEF QueuedInFlight, InFlight
        <3>2. lock' = lock
            <4>1. CASE connected
                BY <1>3, <2>2, <4>1 DEF Typed
            <4>2. CASE ~connected
                BY <1>3, <4>2
            <4> QED
                BY <4>1, <4>2
        <3> QED
            BY <3>1, <3>2 DEF LockExact
    <2> QED
        BY <2>1, <2>2
<1>14. PromptKept'
    <2> SUFFICES ASSUME NEW q \in 1..created'
                 PROVE  \/ q \in table' \cup removed' \cup returned'
                        \/ \E m \in Attempts(q)' : phase'[m] = "sent"
        BY DEF PromptKept
    <2>1. q \in 1..created /\ q \in Prompt /\ q # None
        BY <1>1, PromptQueueAssumption DEF Typed
    <2>2. CASE q \in table \cup removed \cup returned
        BY <1>1, <1>3, <2>1, <2>2
    <2>3. CASE \E m \in Attempts(q) : phase[m] = "sent"
        <3>1. PICK m \in Attempts(q) : phase[m] = "sent"
            BY <2>3
        <3>2. m \in Send /\ m # n /\ m \in Attempts(q)'
            BY <1>10, <1>11, <2>1, <3>1 DEF Attempts
        <3> QED
            BY <1>6, <3>1, <3>2
    <2> QED
        BY <2>1, <2>2, <2>3 DEF PromptKept
<1>15. Budget'
    <2> SUFFICES ASSUME NEW q \in Prompt
                 PROVE  Cardinality(Attempts(q)') <=
                           (IF q \in table' /\ ~OnTheWay(q)' THEN 0 ELSE 1)
                              + revived'[q] + Cardinality(Dropped(q)')
        BY DEF Budget
    <2>1. Cardinality(Attempts(q)) <=
             (IF q \in table /\ ~OnTheWay(q) THEN 0 ELSE 1)
                + revived[q] + Cardinality(Dropped(q))
        BY DEF Budget
    <2>2. revived[q] \in Nat /\ Cardinality(Attempts(q)) \in Nat /\ Cardinality(Dropped(q)) \in Nat
        BY Counts DEF Typed
    <2>3. CASE q # p
        <3>1. Attempts(q)' = Attempts(q) /\ Dropped(q)' = Dropped(q) /\ (OnTheWay(q)' <=> OnTheWay(q))
            BY <1>11, <1>12, <2>3
        <3>2. q \in table' <=> q \in table
            BY <1>3, <2>3
        <3> QED
            BY <1>1, <2>1, <3>1, <3>2
    <2>4. CASE q = p
        <3>1. q # None
            BY PromptQueueAssumption
        <3>2. q \in table /\ QueuedInFlight = {}
            BY <2>4, <3>1 DEF LockExact
        <3>3. ~OnTheWay(q)
            BY <3>1, <3>2 DEF QueuedInFlight, OnTheWay
        <3>4. Cardinality(Attempts(q)) <= revived[q] + Cardinality(Dropped(q))
            BY <2>1, <2>2, <3>2, <3>3
        <3>5. Attempts(q)' = Attempts(q) \cup {n} /\ Dropped(q)' = Dropped(q) /\ n \notin Attempts(q)
            BY <1>10, <1>11, <2>4
        <3>6. IsFiniteSet(Attempts(q))
            BY Counts, SendFinite
        <3>7. Cardinality(Attempts(q)') = Cardinality(Attempts(q)) + 1
            BY <3>5, <3>6, FS_AddElement
        <3>8. ~(q \in table' /\ ~OnTheWay(q)')
            BY <1>3, <1>12, <2>4
        <3> QED
            BY <1>1, <2>2, <3>4, <3>5, <3>7, <3>8
    <2> QED
        BY <2>3, <2>4
<1> QED
    BY <1>5, <1>8, <1>13, <1>14, <1>15

\* What follows the await of a command.
LEMMA ContinueKeeps ==
    ASSUME QueueInv, NEW n \in Send, SendContinues(n)
    PROVE  QueueInv'
<1> USE DEF QueueInv
<1> DEFINE p == prompt[n]
<1>1. /\ n \in InFlight /\ table' = table \ {p} /\ lock' = (lock /\ p = None)
      /\ UNCHANGED <<created, editing, prompt, sends, removed, revived>>
      /\ returned \subseteq returned'
    BY DEF SendContinues, Settled, InFlight, GiveBack, userVars
<1>2. /\ phase' = [phase EXCEPT ![n] = IF phase[n] = "accepted" THEN "sent" ELSE "rejected"]
      /\ phase[n] # "accepted" /\ p # None => p \in returned'
    BY DEF SendContinues, Conclude, GiveBack
<1>3. p \in Prompt \cup {None}
    BY DEF Typed
<1> HIDE DEF p
<1>4. /\ \A m \in Send : m # n => phase'[m] = phase[m]
      /\ phase'[n] \in {"sent", "rejected"}
      /\ phase[n] = "accepted" => phase'[n] = "sent"
    BY <1>2 DEF Typed
<1>5. Typed'
    <2>1. phase' \in [Send -> Phase]
        BY <1>2 DEF Typed, Phase
    <2>2. lock' \in BOOLEAN /\ table' \subseteq Prompt
        BY <1>1 DEF Typed
    <2> QED
        BY <1>1, <2>1, <2>2 DEF Typed
<1>6. InFlight' = InFlight \ {n} /\ \A q : Attempts(q)' = Attempts(q)
    BY <1>1, <1>4 DEF InFlight, Attempts
<1>7. phase[n] \in {"waiting", "accepted", "failed"}
    BY <1>1 DEF InFlight
<1>8. Numbered'
    <2>1. n <= sends
        BY <1>7, PromptQueueAssumption DEF Numbered, Typed
    <2>2. \A m \in Send : m > sends => m # n
        BY <2>1, PromptQueueAssumption DEF Typed
    <2> QED
        BY <1>1, <1>4, <2>2 DEF Numbered
<1>9. \A q : Dropped(q)' = Dropped(q)
    BY <1>4, <1>6, <1>7 DEF Dropped, Attempts
<1>10. \A q \in Prompt : q # p => (OnTheWay(q)' <=> OnTheWay(q))
    BY <1>1, <1>6 DEF OnTheWay, p
<1>11. Budget'
    BY <1>1, <1>9, <1>10, BudgetFrame
<1>12. LockExact'
    <2>1. QueuedInFlight' = QueuedInFlight \ {n}
        BY <1>1, <1>6 DEF QueuedInFlight
    <2>2. CASE p = None
        <3>1. n \notin QueuedInFlight
            BY <2>2 DEF QueuedInFlight, p
        <3>2. QueuedInFlight' = QueuedInFlight
            BY <2>1, <3>1
        <3>3. lock' = lock
            BY <1>1, <2>2 DEF Typed
        <3> QED
            BY <3>2, <3>3 DEF LockExact
    <2>3. CASE p # None
        <3>1. n \in QueuedInFlight
            BY <1>1, <2>3 DEF QueuedInFlight, p
        <3>2. QueuedInFlight' = {}
            BY <2>1, <3>1 DEF LockExact
        <3> QED
            BY <1>1, <2>3, <3>2 DEF LockExact
    <2> QED
        BY <2>2, <2>3
<1>13. PromptKept'
    <2> SUFFICES ASSUME NEW q \in 1..created
                 PROVE  \/ q \in table' \cup removed' \cup returned'
                        \/ \E m \in Attempts(q)' : phase'[m] = "sent"
        BY <1>1 DEF PromptKept
    <2>1. q # None
        BY PromptQueueAssumption DEF Typed
    <2>2. CASE q \in table /\ q = p
        <3>1. CASE phase[n] = "accepted"
            <4>1. n \in Attempts(q)'
                BY <1>6, <2>2 DEF Attempts, p
            <4> QED
                BY <1>4, <3>1, <4>1
        <3>2. CASE phase[n] # "accepted"
            BY <1>2, <2>1, <2>2, <3>2
        <3> QED
            BY <3>1, <3>2
    <2>3. CASE (q \in table /\ q # p) \/ q \in removed \cup returned
        BY <1>1, <2>3
    <2>4. CASE \E m \in Attempts(q) : phase[m] = "sent"
        <3>1. PICK m \in Attempts(q) : phase[m] = "sent"
            BY <2>4
        <3>2. m # n /\ m \in Send /\ m \in Attempts(q)'
            BY <1>6, <1>7, <3>1 DEF Attempts
        <3> QED
            BY <1>4, <3>1, <3>2
    <2> QED
        BY <2>2, <2>3, <2>4 DEF PromptKept
<1> QED
    BY <1>5, <1>8, <1>11, <1>12, <1>13

\* The host dies: what is on its way is dropped, and pays for another attempt.
LEMMA RestartKeeps == QueueInv /\ HostRestart => QueueInv'
<1> SUFFICES ASSUME QueueInv, HostRestart PROVE QueueInv'
    OBVIOUS
<1> USE DEF QueueInv
<1>1. /\ lock' = FALSE /\ editing' = None
      /\ phase' = [n \in Send |-> IF n \in InFlight THEN "dropped" ELSE phase[n]]
      /\ UNCHANGED <<created, table, prompt, sends, removed, returned, revived>>
    BY DEF HostRestart, userVars
<1>2. Typed'
    <2>1. phase' \in [Send -> Phase]
        BY <1>1 DEF Typed, Phase
    <2> QED
        BY <1>1, <2>1 DEF Typed
<1>3. Numbered'
    <2>1. \A n \in Send : n > sends => n \notin InFlight
        BY DEF Numbered, InFlight
    <2> QED
        BY <1>1, <2>1 DEF Numbered
<1>4. InFlight' = {} /\ \A p : Attempts(p)' = Attempts(p)
    BY <1>1 DEF InFlight, Attempts
<1>5. LockExact'
    BY <1>1, <1>4 DEF LockExact, QueuedInFlight
<1>6. PromptKept'
    <2>1. \A n \in Send : phase[n] = "sent" => phase'[n] = "sent"
        BY <1>1 DEF InFlight
    <2> QED
        BY <1>1, <1>4, <2>1 DEF PromptKept, Attempts
<1>7. Budget'
    <2> SUFFICES ASSUME NEW p \in Prompt
                 PROVE  Cardinality(Attempts(p)') <=
                           (IF p \in table' /\ ~OnTheWay(p)' THEN 0 ELSE 1)
                              + revived'[p] + Cardinality(Dropped(p)')
        BY DEF Budget
    <2>1. Cardinality(Attempts(p)) <=
             (IF p \in table /\ ~OnTheWay(p) THEN 0 ELSE 1)
                + revived[p] + Cardinality(Dropped(p))
        BY DEF Budget
    <2>2. revived[p] \in Nat /\ Cardinality(Attempts(p)) \in Nat /\ Cardinality(Dropped(p)) \in Nat
        BY Counts DEF Typed
    <2>3. CASE OnTheWay(p)
        <3>1. PICK n \in InFlight : prompt[n] = p
            BY <2>3 DEF OnTheWay
        <3>2. p # None
            BY PromptQueueAssumption
        <3>3. \A m \in InFlight : prompt[m] = p => m = n
            BY <3>1, <3>2 DEF LockExact, QueuedInFlight
        <3>4. n \in Attempts(p) /\ phase[n] # "dropped" /\ phase'[n] = "dropped"
            BY <1>1, <3>1 DEF InFlight, Attempts
        <3>5. n \notin Dropped(p) /\ Dropped(p)' = Dropped(p) \cup {n}
            BY <1>1, <1>4, <3>3, <3>4 DEF Dropped, Attempts
        <3>6. IsFiniteSet(Dropped(p))
            <4>1. Dropped(p) \in SUBSET Send
                BY DEF Dropped, Attempts
            <4> QED
                BY <4>1, SendFinite
        <3>7. Cardinality(Dropped(p)') = Cardinality(Dropped(p)) + 1
            BY <3>5, <3>6, FS_AddElement
        <3>8. Cardinality(Attempts(p)) <= 1 + revived[p] + Cardinality(Dropped(p))
            BY <2>1, <2>2, <2>3
        <3> QED
            BY <1>1, <1>4, <2>2, <3>7, <3>8
    <2>4. CASE ~OnTheWay(p)
        <3>1. \A m \in Attempts(p) : m \notin InFlight
            BY <2>4 DEF OnTheWay, Attempts
        <3>2. Dropped(p)' = Dropped(p)
            BY <1>1, <1>4, <3>1 DEF Dropped, Attempts
        <3> QED
            BY <1>1, <1>4, <2>1, <2>2, <2>4, <3>2
    <2> QED
        BY <2>3, <2>4
<1> QED
    BY <1>2, <1>3, <1>5, <1>6, <1>7

-----------------------------------------------------------------------------
(* Every step.                                                             *)

LEMMA SendQueuedKeeps ==
    ASSUME QueueInv, NEW p \in table, ~lock, SendQueued(p)
    PROVE  QueueInv'
<1>1. CASE BeginSend(p)
    BY <1>1, BeginKeeps
<1>2. CASE /\ table' = table \ {p} /\ removed' = removed \cup {p}
           /\ UNCHANGED <<created, editing, sendVars, returned, revived>>
    BY <1>2, RemoveKeeps DEF sendVars
<1> QED
    BY <1>1, <1>2 DEF SendQueued

LEMMA QueueStep == QueueInv /\ [Next]_vars => QueueInv'
<1> SUFFICES ASSUME QueueInv, [Next]_vars PROVE QueueInv'
    OBVIOUS
<1>1. CASE Enqueue
    BY <1>1, EnqueueKeeps
<1>2. CASE EditApplies
    BY <1>2, EditKeeps
<1>3. CASE Remove
    <2>1. PICK p \in table : table' = table \ {p} /\ removed' = removed \cup {p}
        BY <1>3 DEF Remove
    <2>2. UNCHANGED <<created, editing, lock, phase, prompt, sends, returned, revived>>
        BY <1>3 DEF Remove, sendVars
    <2> QED
        BY <2>1, <2>2, RemoveKeeps
<1>4. CASE SendNow
    <2>1. PICK p \in table : SendQueued(p)
        BY <1>4 DEF SendNow
    <2>2. ~lock
        BY <1>4 DEF SendNow
    <2> QED
        BY <2>1, <2>2, SendQueuedKeeps
<1>5. CASE SendMessage
    <2>1. BeginSend(None) /\ None \in table \cup {None}
        BY <1>5 DEF SendMessage
    <2> QED
        BY <2>1, BeginKeeps
<1>6. CASE Drain
    <2>1. CASE lock \/ table = {}
        <3>1. QuietStep
            BY <1>6, <2>1 DEF Drain, QuietStep, sendVars, userVars
        <3> QED
            BY <3>1, QuietKeeps
    <2>2. CASE ~(lock \/ table = {})
        <3>1. PICK p \in table : SendQueued(p)
            BY <1>6, <2>2 DEF Drain
        <3> QED
            BY <2>2, <3>1, SendQueuedKeeps
    <2> QED
        BY <2>1, <2>2
<1>7. CASE \E n \in Send : SendContinues(n)
    BY <1>7, ContinueKeeps
<1>8. CASE HostRestart
    BY <1>8, RestartKeeps
<1>9. CASE \/ \E n \in Send : RunnerStarts(n) \/ RunnerFails(n)
           \/ EditArrives \/ EditRefused \/ RunnerAccepts \/ TurnEnds \/ HostTurnStarted
           \/ HostTurnCompleted \/ HostTurnBroken \/ ConnectionReplaced \/ HostHello
           \/ UNCHANGED vars
    <2>1. UNCHANGED <<created, table, sendVars, userVars>>
        BY <1>9 DEF RunnerStarts, RunnerFails, EditArrives, EditRefused, RunnerAccepts, TurnEnds,
                    HostTurnStarted, HostTurnCompleted, HostTurnBroken, ConnectionReplaced,
                    HostHello, queueVars, sendVars, userVars, vars
    <2>2. editing' \in table \cup {None, editing}
        BY <1>9 DEF RunnerStarts, RunnerFails, EditArrives, EditRefused, RunnerAccepts, TurnEnds,
                    HostTurnStarted, HostTurnCompleted, HostTurnBroken, ConnectionReplaced,
                    HostHello, queueVars, vars
    <2> QED
        BY <2>1, <2>2, QuietKeeps DEF QuietStep
<1>10. CASE HostAccepted \/ ConnectionBreaks \/ RunnerRestart \/ \E n \in Send : Timeout(n)
    <2>1. UNCHANGED <<created, table, editing, lock, prompt, sends, userVars>>
        BY <1>10 DEF HostAccepted, ConnectionBreaks, RunnerRestart, Timeout, queueVars
    <2>2. phase \in [Send -> Phase]
        BY DEF QueueInv, Typed
    <2>3. /\ phase' \in [Send -> Phase]
          /\ \A n \in Send : phase'[n] # phase[n] =>
                             phase[n] = "waiting" /\ phase'[n] \in {"accepted", "failed"}
        <3>1. CASE HostAccepted
            <4>1. PICK m : phase' = IF phase[m] = "waiting" THEN [phase EXCEPT ![m] = "accepted"]
                                    ELSE phase
                BY <3>1 DEF HostAccepted
            <4>2. phase' \in [Send -> Phase]
                BY <2>2, <4>1 DEF Phase
            <4> QED
                BY <2>2, <4>1, <4>2
        <3>2. CASE ConnectionBreaks \/ RunnerRestart
            <4>1. phase' = [n \in Send |-> IF phase[n] = "waiting" THEN "failed" ELSE phase[n]]
                BY <3>2 DEF ConnectionBreaks, RunnerRestart, RejectWaiting
            <4>2. phase' \in [Send -> Phase]
                BY <2>2, <4>1 DEF Phase
            <4> QED
                BY <4>1, <4>2
        <3>3. CASE \E n \in Send : Timeout(n)
            <4>1. PICK m \in Send : phase[m] = "waiting" /\ phase' = [phase EXCEPT ![m] = "failed"]
                BY <3>3 DEF Timeout
            <4>2. phase' \in [Send -> Phase]
                BY <2>2, <4>1 DEF Phase
            <4> QED
                BY <2>2, <4>1, <4>2
        <3> QED
            BY <1>10, <3>1, <3>2, <3>3
    <2> QED
        BY <2>1, <2>3, SettleKeeps DEF SettleStep
<1> QED
    BY <1>1, <1>2, <1>3, <1>4, <1>5, <1>6, <1>7, <1>8, <1>9, <1>10 DEF Next

-----------------------------------------------------------------------------
(* What follows for every behaviour.                                       *)

\* The invariant of the queue holds always.
THEOREM QueueInductive == Spec => []QueueInv
    BY QueueInit, QueueStep, PTL DEF Spec

\* At most one queued prompt is on its way, and exactly then the session is
\* locked.
THEOREM QueueLockExact == Spec => []LockExact
<1>1. QueueInv => LockExact
    BY DEF QueueInv
<1> QED
    BY <1>1, QueueInductive, PTL

\* A prompt is sent once, but for a host that died and for late edits.
THEOREM QueueSentOnce == Spec => []SentOnce
<1>1. QueueInv => SentOnce
    <2> SUFFICES ASSUME QueueInv, NEW p \in Prompt
                 PROVE  Cardinality(Attempts(p)) <= 1 + revived[p] + Cardinality(Dropped(p))
        BY DEF SentOnce, Dropped
    <2>1. Cardinality(Attempts(p)) <=
             (IF p \in table /\ ~OnTheWay(p) THEN 0 ELSE 1)
                + revived[p] + Cardinality(Dropped(p))
        BY DEF QueueInv, Budget
    <2>2. revived[p] \in Nat /\ Cardinality(Attempts(p)) \in Nat /\ Cardinality(Dropped(p)) \in Nat
        BY Counts DEF QueueInv, Typed
    <2> QED
        BY <2>1, <2>2
<1> QED
    BY <1>1, QueueInductive, PTL

\* A queued prompt does not vanish.
THEOREM QueuePromptKept == Spec => []PromptKept
<1>1. QueueInv => PromptKept
    BY DEF QueueInv
<1> QED
    BY <1>1, QueueInductive, PTL

-----------------------------------------------------------------------------
(* The events that survive a lost connection.                              *)

LEMMA NthFacts ==
    ASSUME NEW S \in SUBSET Nat, IsFiniteSet(S)
    PROVE  /\ Cardinality(S) \in Nat
           /\ \A k \in 1..Cardinality(S) : Nth(S, k) \in S
           /\ \A i \in S : \E k \in 1..Cardinality(S) : Nth(S, k) = i
           /\ \A j, k \in 1..Cardinality(S) : j < k => Nth(S, j) < Nth(S, k)
<1> DEFINE below(i) == {j \in S : j <= i}
           rank == [i \in S |-> Cardinality(below(i))]
           n == Cardinality(S)
<1>1. n \in Nat
    BY FS_CardinalityType
<1>2. ASSUME NEW i \in S
      PROVE  IsFiniteSet(below(i)) /\ Cardinality(below(i)) \in 1..n
    <2>1. below(i) \in SUBSET S /\ i \in below(i)
        OBVIOUS
    <2> HIDE DEF below
    <2>2. IsFiniteSet(below(i)) /\ Cardinality(below(i)) \in Nat /\ Cardinality(below(i)) <= n
        BY <2>1, FS_Subset, FS_CardinalityType
    <2>3. Cardinality(below(i)) # 0
        BY <2>1, <2>2, FS_EmptySet
    <2> QED
        BY <1>1, <2>2, <2>3
<1>3. ASSUME NEW i \in S, NEW k \in S, i < k
      PROVE  Cardinality(below(i)) < Cardinality(below(k))
    <2>1. below(i) \in SUBSET below(k) /\ k \in below(k) /\ k \notin below(i)
        <3>1. i \in Nat /\ k \in Nat /\ \A j \in S : j \in Nat
            OBVIOUS
        <3>2. \A j \in S : j <= i => j <= k
            BY <1>3, <3>1
        <3>3. k <= k /\ ~(k <= i)
            BY <1>3, <3>1
        <3>4. \A j \in below(i) : j \in below(k)
            BY <3>2, Zenon
        <3> QED
            BY <3>3, <3>4, Zenon
    <2>2. Cardinality(below(i)) \in Nat /\ Cardinality(below(k)) \in Nat /\ IsFiniteSet(below(k))
        BY <1>1, <1>2
    <2> HIDE DEF below
    <2>3. /\ Cardinality(below(i)) <= Cardinality(below(k))
          /\ Cardinality(below(k)) = Cardinality(below(i)) => below(k) = below(i)
        BY <2>1, <2>2, FS_Subset
    <2> QED
        BY <2>1, <2>2, <2>3
<1>4. rank \in [S -> 1..n] /\ \A i \in S : rank[i] = Cardinality(below(i))
    BY <1>2
<1>5. \A i, k \in S : rank[i] = rank[k] => i = k
    <2> SUFFICES ASSUME NEW i \in S, NEW k \in S, rank[i] = rank[k], i # k
                 PROVE  FALSE
        OBVIOUS
    <2>1. rank[i] \in Nat /\ rank[k] \in Nat
        BY <1>1, <1>4
    <2>2. i < k \/ k < i
        OBVIOUS
    <2> HIDE DEF rank, below
    <2> QED
        BY <1>3, <1>4, <2>1, <2>2
<1>6. \A k \in 1..n : \E i \in S : rank[i] = k
    <2> HIDE DEF rank
    <2>1. rank \in Injection(S, 1..n)
        BY <1>4, <1>5 DEF Injection, IsInjective
    <2>2. IsFiniteSet(1..n) /\ Cardinality(1..n) = n
        BY <1>1, FS_Interval
    <2>3. rank \in Surjection(S, 1..n)
        BY <2>1, <2>2, FS_Injection
    <2> QED
        BY <2>3 DEF Surjection
<1>7. \A k : Nth(S, k) = CHOOSE i \in S : rank[i] = k
    BY <1>4 DEF Nth
<1> HIDE DEF rank, below
<1>8. ASSUME NEW k \in 1..n
      PROVE  Nth(S, k) \in S /\ rank[Nth(S, k)] = k
    BY <1>6, <1>7
<1>9. ASSUME NEW i \in S
      PROVE  rank[i] \in 1..n /\ Nth(S, rank[i]) = i
    BY <1>4, <1>5, <1>8
<1>10. ASSUME NEW j \in 1..n, NEW k \in 1..n, j < k
       PROVE  Nth(S, j) < Nth(S, k)
    <2>1. Nth(S, j) \in S /\ Nth(S, k) \in S /\ rank[Nth(S, j)] = j /\ rank[Nth(S, k)] = k
        BY <1>8
    <2>2. j \in Nat /\ k \in Nat
        BY <1>1
    <2>3. PICK a \in S, b \in S : a = Nth(S, j) /\ b = Nth(S, k) /\ rank[a] = j /\ rank[b] = k
        BY <2>1
    <2>4. ~(b < a)
        BY <1>3, <1>4, <1>10, <2>2, <2>3
    <2>5. a # b /\ a \in Nat /\ b \in Nat
        BY <1>10, <2>2, <2>3
    <2> QED
        BY <2>3, <2>4, <2>5
<1> QED
    BY <1>1, <1>8, <1>9, <1>10

-----------------------------------------------------------------------------
(* What the session shows.                                                 *)

\* The host has processed, or will process, a start as the last event.
LastStarted ==
    \E i \in 1..Len(toHost) :
        /\ toHost[i].type = "started"
        /\ \A j \in (i + 1)..Len(toHost) : toHost[j].type = "accepted"

OnlyAnswers == \A i \in 1..Len(toHost) : toHost[i].type = "accepted"

\* Codex works for a session that the runner has, and after all events on the
\* way the host will show it so.  A runner process that has not said hello
\* works on nothing.
ShownInv ==
    /\ toHost \in Seq(Answer \cup Event) /\ toRunner \in Seq(Send) /\ starting \subseteq Send
    /\ turnState \in BOOLEAN
    /\ active => loaded /\ (LastStarted \/ (OnlyAnswers /\ turnState))
    /\ newBoot => ~connected /\ starting = {} /\ ~active

LEMMA MessageFacts ==
    /\ \A e \in {"started", "completed", "broken"} : [type |-> e] \in Answer \cup Event
    /\ \A n \in Send : [type |-> "accepted", send |-> n] \in Answer \cup Event
BY DEF Answer, Event

\* A message goes to the end.
LEMMA SentFacts ==
    ASSUME toHost \in Seq(Answer \cup Event), NEW m \in Answer \cup Event,
           toHost' = Append(toHost, m)
    PROVE  /\ toHost' \in Seq(Answer \cup Event)
           /\ m.type = "started" => LastStarted'
           /\ m.type = "accepted" => (LastStarted => LastStarted') /\ (OnlyAnswers => OnlyAnswers')
<1>1. /\ toHost' \in Seq(Answer \cup Event) /\ Len(toHost) \in Nat /\ Len(toHost') = Len(toHost) + 1
      /\ toHost'[Len(toHost) + 1] = m /\ \A i \in 1..Len(toHost) : toHost'[i] = toHost[i]
    OBVIOUS
<1>2. ASSUME m.type = "started" PROVE LastStarted'
    <2>1. Len(toHost) + 1 \in 1..Len(toHost') /\ toHost'[Len(toHost) + 1].type = "started"
        BY <1>1, <1>2
    <2>2. (Len(toHost) + 1 + 1)..Len(toHost') = {}
        BY <1>1
    <2> QED
        BY <2>1, <2>2 DEF LastStarted
<1>3. ASSUME m.type = "accepted", LastStarted PROVE LastStarted'
    <2>1. PICK i \in 1..Len(toHost) :
              /\ toHost[i].type = "started"
              /\ \A j \in (i + 1)..Len(toHost) : toHost[j].type = "accepted"
        BY <1>3 DEF LastStarted
    <2>2. i \in 1..Len(toHost') /\ toHost'[i].type = "started"
        BY <1>1, <2>1
    <2>3. \A j \in (i + 1)..Len(toHost') : j \in (i + 1)..Len(toHost) \/ j = Len(toHost) + 1
        BY <1>1
    <2>4. \A j \in (i + 1)..Len(toHost) : toHost'[j] = toHost[j]
        BY <1>1
    <2>5. \A j \in (i + 1)..Len(toHost') : toHost'[j].type = "accepted"
        BY <1>1, <1>3, <2>1, <2>3, <2>4
    <2> QED
        BY <2>2, <2>5 DEF LastStarted
<1>4. ASSUME m.type = "accepted", OnlyAnswers PROVE OnlyAnswers'
    <2>1. \A i \in 1..Len(toHost') : i \in 1..Len(toHost) \/ i = Len(toHost) + 1
        BY <1>1
    <2> QED
        BY <1>1, <1>4, <2>1 DEF OnlyAnswers
<1> QED
    BY <1>1, <1>2, <1>3, <1>4

\* The first message leaves.
LEMMA ReceivedFacts ==
    ASSUME toHost \in Seq(Answer \cup Event), toHost # <<>>, toHost' = Tail(toHost)
    PROVE  /\ toHost' \in Seq(Answer \cup Event)
           /\ LastStarted => LastStarted' \/ (OnlyAnswers' /\ Head(toHost).type = "started")
           /\ OnlyAnswers => OnlyAnswers' /\ Head(toHost).type = "accepted"
<1>1. /\ toHost' \in Seq(Answer \cup Event) /\ Len(toHost) \in Nat \ {0}
      /\ Len(toHost') = Len(toHost) - 1 /\ Head(toHost) = toHost[1]
      /\ \A i \in 1..(Len(toHost) - 1) : toHost'[i] = toHost[i + 1]
    OBVIOUS
<1>2. ASSUME LastStarted
      PROVE  LastStarted' \/ (OnlyAnswers' /\ Head(toHost).type = "started")
    <2>1. PICK i \in 1..Len(toHost) :
              /\ toHost[i].type = "started"
              /\ \A j \in (i + 1)..Len(toHost) : toHost[j].type = "accepted"
        BY <1>2 DEF LastStarted
    <2>2. CASE i = 1
        <3>1. \A j \in 1..Len(toHost') : j + 1 \in (i + 1)..Len(toHost) /\ toHost'[j] = toHost[j + 1]
            BY <1>1, <2>2
        <3> QED
            BY <1>1, <2>1, <2>2, <3>1 DEF OnlyAnswers
    <2>3. CASE i # 1
        <3>1. i - 1 \in 1..Len(toHost') /\ toHost'[i - 1] = toHost[i]
            BY <1>1, <2>1, <2>3
        <3>2. \A j \in (i - 1 + 1)..Len(toHost') :
                 j + 1 \in (i + 1)..Len(toHost) /\ toHost'[j] = toHost[j + 1]
            BY <1>1, <2>1, <2>3
        <3>3. \A j \in (i - 1 + 1)..Len(toHost') : toHost'[j].type = "accepted"
            BY <2>1, <3>2
        <3> QED
            BY <2>1, <3>1, <3>3 DEF LastStarted
    <2> QED
        BY <2>2, <2>3
<1>3. ASSUME OnlyAnswers
      PROVE  OnlyAnswers' /\ Head(toHost).type = "accepted"
    <2>1. \A j \in 1..Len(toHost') : j + 1 \in 1..Len(toHost) /\ toHost'[j] = toHost[j + 1]
        BY <1>1
    <2> QED
        BY <1>1, <1>3, <2>1 DEF OnlyAnswers
<1> QED
    BY <1>1, <1>2, <1>3

\* A lost connection keeps the events.
LEMMA LostFacts ==
    ASSUME toHost \in Seq(Answer \cup Event), LinkLost
    PROVE  /\ toHost' \in Seq(Answer \cup Event)
           /\ LastStarted => LastStarted'
           /\ OnlyAnswers => OnlyAnswers'
<1> DEFINE events == {i \in DOMAIN toHost : Tracked(toHost[i])}
           n == Cardinality(events)
<1>1. Len(toHost) \in Nat /\ DOMAIN toHost = 1..Len(toHost)
    OBVIOUS
<1>2. events \in SUBSET Nat /\ IsFiniteSet(events)
    <2>1. IsFiniteSet(1..Len(toHost))
        BY <1>1, FS_Interval
    <2>2. events \in SUBSET (1..Len(toHost))
        BY <1>1
    <2> QED
        BY <1>1, <2>1, <2>2, FS_Subset
<1>3. \A i \in events : i \in 1..Len(toHost) /\ toHost[i].type # "accepted"
    BY <1>1 DEF Tracked
<1>4. \A i \in 1..Len(toHost) : i \in events \/ toHost[i].type = "accepted"
    BY <1>1 DEF Tracked
<1>5. toHost' = [k \in 1..n |-> toHost[Nth(events, k)]]
    BY DEF LinkLost
<1> HIDE DEF events
<1>6. /\ n \in Nat
      /\ \A k \in 1..n : Nth(events, k) \in events
      /\ \A i \in events : \E k \in 1..n : Nth(events, k) = i
      /\ \A j, k \in 1..n : j < k => Nth(events, j) < Nth(events, k)
    BY <1>2, NthFacts
<1> HIDE DEF n
<1>7. /\ toHost' \in Seq(Answer \cup Event) /\ Len(toHost') = n
      /\ \A k \in 1..n : toHost'[k] = toHost[Nth(events, k)]
    <2>1. \A k \in 1..n : toHost[Nth(events, k)] \in Answer \cup Event
        BY <1>3, <1>6
    <2> QED
        BY <1>5, <1>6, <2>1
<1>8. ASSUME LastStarted PROVE LastStarted'
    <2>1. PICK i \in 1..Len(toHost) :
              /\ toHost[i].type = "started"
              /\ \A j \in (i + 1)..Len(toHost) : toHost[j].type = "accepted"
        BY <1>8 DEF LastStarted
    <2>2. PICK k \in 1..n : Nth(events, k) = i
        BY <1>4, <1>6, <2>1
    <2>3. \A j \in (k + 1)..n : FALSE
        <3> SUFFICES ASSUME NEW j \in (k + 1)..n PROVE FALSE
            OBVIOUS
        <3>1. j \in 1..n /\ k < j
            BY <1>6, <2>2
        <3>2. Nth(events, j) \in events /\ i < Nth(events, j)
            BY <1>6, <2>2, <3>1
        <3>3. Nth(events, j) \in (i + 1)..Len(toHost) /\ toHost[Nth(events, j)].type # "accepted"
            BY <1>1, <1>3, <3>2
        <3> QED
            BY <2>1, <3>3
    <2>4. k \in 1..Len(toHost') /\ toHost'[k].type = "started"
        BY <1>7, <2>1, <2>2
    <2> QED
        BY <1>7, <2>3, <2>4 DEF LastStarted
<1>9. ASSUME OnlyAnswers PROVE OnlyAnswers'
    <2>1. \A k \in 1..n : FALSE
        BY <1>3, <1>6, <1>9 DEF OnlyAnswers
    <2> QED
        BY <1>7, <2>1 DEF OnlyAnswers
<1> QED
    BY <1>7, <1>8, <1>9

LEMMA ShownInit == Init => ShownInv
<1> SUFFICES ASSUME Init PROVE ShownInv
    OBVIOUS
<1>1. toHost = <<>> /\ toRunner = <<>>
    BY DEF Init
<1>2. toHost \in Seq(Answer \cup Event) /\ toRunner \in Seq(Send)
    BY <1>1
<1> QED
    BY <1>2 DEF Init, ShownInv

LEMMA ShownStep == ShownInv /\ Typed /\ [Next]_vars => ShownInv'
<1> SUFFICES ASSUME ShownInv, Typed, [Next]_vars PROVE ShownInv'
    OBVIOUS
<1> USE DEF ShownInv
<1>1. ASSUME UNCHANGED <<toHost, runnerVars, turnState, connected>>, toRunner' \in Seq(Send)
      PROVE  ShownInv'
    BY <1>1 DEF runnerVars, LastStarted, OnlyAnswers
<1>2. CASE \/ Enqueue \/ EditArrives \/ EditApplies \/ EditRefused \/ Remove \/ UNCHANGED vars
           \/ \E n \in Send : Timeout(n)
    <2>1. UNCHANGED <<toHost, toRunner, runnerVars, turnState, connected>>
        BY <1>2 DEF Enqueue, EditArrives, EditApplies, EditRefused, Remove, Timeout, linkVars, vars
    <2> QED
        BY <1>1, <2>1
<1>10. CASE SendNow \/ SendMessage \/ Drain
    <2>1. /\ UNCHANGED <<toHost, runnerVars, turnState, connected>>
          /\ toRunner' = toRunner \/ (sends < MaxSends /\ toRunner' = Append(toRunner, sends + 1))
        BY <1>10 DEF SendNow, SendMessage, Drain, SendQueued, BeginSend, linkVars, sendVars
    <2>2. ASSUME sends < MaxSends, toRunner' = Append(toRunner, sends + 1)
          PROVE  toRunner' \in Seq(Send)
        <3>1. MaxSends \in Nat /\ sends \in 0..MaxSends /\ sends < MaxSends
            BY <2>2, PromptQueueAssumption DEF Typed
        <3>2. sends + 1 \in Send
            BY <3>1
        <3> QED
            BY <2>2, <3>2
    <2> QED
        BY <1>1, <2>1, <2>2
<1>3. ASSUME NEW n \in Send, SendContinues(n) PROVE ShownInv'
    <2>1. turnState' = (turnState \/ phase[n] = "accepted")
          /\ UNCHANGED <<toHost, toRunner, loaded, starting, active, newBoot, connected>>
        BY <1>3 DEF SendContinues, linkVars, runnerVars
    <2> QED
        BY <2>1 DEF LastStarted, OnlyAnswers
<1>4. ASSUME NEW n \in Send, RunnerStarts(n) PROVE ShownInv'
    <2>1. /\ n \in starting /\ starting' = starting \ {n} /\ active' /\ loaded'
          /\ UNCHANGED <<turnState, connected, newBoot, toRunner>> /\ ~newBoot
          /\ IF active THEN UNCHANGED toHost ELSE toHost' = Append(toHost, [type |-> "started"])
        BY <1>4 DEF RunnerStarts, Tell
    <2>2. CASE active
        BY <2>1, <2>2 DEF LastStarted, OnlyAnswers
    <2>3. CASE ~active
        <3>1. PICK m \in Answer \cup Event : m = [type |-> "started"]
            BY MessageFacts
        <3>2. m.type = "started" /\ toHost' = Append(toHost, m)
            BY <2>1, <2>3, <3>1
        <3>3. toHost' \in Seq(Answer \cup Event) /\ LastStarted'
            BY <3>2, SentFacts
        <3> QED
            BY <2>1, <3>3
    <2> QED
        BY <2>2, <2>3
<1>5. CASE (\E n \in Send : RunnerFails(n)) \/ TurnEnds
    <2>1. /\ starting' \subseteq starting
          /\ UNCHANGED <<turnState, connected, newBoot, loaded, toRunner>>
          /\ active' => active /\ toHost' = toHost
          /\ toHost' = toHost \/ \E e \in {"completed", "broken"} : toHost' = Append(toHost, [type |-> e])
        BY <1>5 DEF RunnerFails, TurnEnds, Tell
    <2>2. toHost' \in Seq(Answer \cup Event)
        <3>1. CASE toHost' = toHost
            BY <3>1
        <3>2. ASSUME NEW e \in {"completed", "broken"}, toHost' = Append(toHost, [type |-> e])
              PROVE  toHost' \in Seq(Answer \cup Event)
            <4>1. PICK m \in Answer \cup Event : m = [type |-> e]
                BY MessageFacts
            <4> QED
                BY <3>2, <4>1, SentFacts
        <3> QED
            BY <2>1, <3>1, <3>2
    <2> QED
        BY <2>1, <2>2 DEF LastStarted, OnlyAnswers
<1>6. CASE RunnerAccepts
    <2>1. /\ connected /\ starting' \subseteq starting \cup {Head(toRunner)}
          /\ toHost' = Append(toHost, [type |-> "accepted", send |-> Head(toRunner)])
          /\ toRunner # <<>> /\ toRunner' = Tail(toRunner)
          /\ UNCHANGED <<turnState, connected, newBoot, loaded, active>>
        BY <1>6 DEF RunnerAccepts
    <2>2. Head(toRunner) \in Send /\ toRunner' \in Seq(Send)
        <3>1. toRunner \in Seq(Send) /\ toRunner # <<>> /\ toRunner' = Tail(toRunner)
            BY <2>1
        <3> HIDE DEF ShownInv, Send
        <3> QED
            BY <3>1
    <2>3. PICK m \in Answer \cup Event : m = [type |-> "accepted", send |-> Head(toRunner)]
        BY <2>2, MessageFacts
    <2>4. m.type = "accepted" /\ toHost' = Append(toHost, m)
        BY <2>1, <2>3
    <2>5. /\ toHost' \in Seq(Answer \cup Event)
          /\ (LastStarted => LastStarted') /\ (OnlyAnswers => OnlyAnswers')
        BY <2>4, SentFacts
    <2> QED
        BY <2>1, <2>2, <2>5
<1>7. CASE HostAccepted \/ HostTurnStarted \/ HostTurnCompleted \/ HostTurnBroken
    <2>1. /\ toHost # <<>> /\ toHost' = Tail(toHost)
          /\ UNCHANGED <<runnerVars, connected, toRunner>>
          /\ \/ Head(toHost).type = "accepted" /\ turnState' = turnState
             \/ Head(toHost).type = "started" /\ turnState' = TRUE
             \/ Head(toHost).type \in {"completed", "broken"} /\ turnState' = FALSE
        BY <1>7 DEF HostAccepted, HostTurnStarted, HostTurnCompleted, HostTurnBroken, Received
    <2>2. /\ toHost' \in Seq(Answer \cup Event)
          /\ LastStarted => LastStarted' \/ (OnlyAnswers' /\ Head(toHost).type = "started")
          /\ OnlyAnswers => OnlyAnswers' /\ Head(toHost).type = "accepted"
        BY <2>1, ReceivedFacts
    <2>3. ASSUME active
          PROVE  LastStarted' \/ (OnlyAnswers' /\ turnState')
        <3>1. CASE LastStarted
            BY <2>1, <2>2, <3>1
        <3>2. CASE OnlyAnswers /\ turnState
            BY <2>1, <2>2, <3>2
        <3> QED
            BY <2>3, <3>1, <3>2
    <2>4. UNCHANGED <<loaded, starting, active, newBoot, connected, toRunner>> /\ turnState' \in BOOLEAN
        BY <2>1 DEF runnerVars
    <2> QED
        BY <2>2, <2>3, <2>4
<1>8. CASE ConnectionBreaks \/ ConnectionReplaced \/ HostRestart \/ RunnerRestart
    <2>1. LinkLost /\ turnState' = turnState /\ toRunner' = <<>>
        BY <1>8 DEF ConnectionBreaks, ConnectionReplaced, HostRestart, RunnerRestart, LinkLost
    <2>2. \/ UNCHANGED runnerVars /\ (connected' => connected)
          \/ ~active' /\ starting' = {} /\ ~connected'
        BY <1>8 DEF ConnectionBreaks, ConnectionReplaced, HostRestart, RunnerRestart
    <2>3. /\ toHost' \in Seq(Answer \cup Event)
          /\ (LastStarted => LastStarted') /\ (OnlyAnswers => OnlyAnswers')
        BY <2>1, LostFacts
    <2>4. toRunner' \in Seq(Send)
        BY <2>1
    <2>5. CASE UNCHANGED runnerVars /\ (connected' => connected)
        BY <2>1, <2>3, <2>4, <2>5 DEF runnerVars
    <2>6. CASE ~active' /\ starting' = {} /\ ~connected'
        BY <2>1, <2>3, <2>4, <2>6
    <2> QED
        BY <2>2, <2>5, <2>6
<1>9. CASE HostHello
    <2>1. /\ turnState' = (turnState /\ ~newBoot) /\ ~newBoot'
          /\ UNCHANGED <<toHost, toRunner, loaded, starting, active>>
        BY <1>9 DEF HostHello
    <2> QED
        BY <2>1 DEF LastStarted, OnlyAnswers
<1> QED
    BY <1>2, <1>3, <1>4, <1>5, <1>6, <1>7, <1>8, <1>9, <1>10 DEF Next

\* A running turn shows.
THEOREM QueueShowsRunning == Spec => []ActiveShowsRunning
<1>1. ShownInv => ActiveShowsRunning
    BY DEF ShownInv, ActiveShowsRunning, LastStarted, OnlyAnswers
<1>2. QueueInv => Typed
    BY DEF QueueInv
<1> QED
    BY <1>1, <1>2, ShownInit, ShownStep, QueueInductive, PTL DEF Spec
=============================================================================
