-------------------------- MODULE ApprovalsProofs --------------------------
(***************************************************************************)
(* Proofs about Approvals, for every number of approvals, HTTP requests,   *)
(* runner processes and restarts.                                          *)
(***************************************************************************)
EXTENDS Approvals, FiniteSetTheorems, SequenceTheorems, TLAPS

USE DEF Id, None

-----------------------------------------------------------------------------
(* The data.                                                               *)

LEMMA AppendFacts ==
    ASSUME NEW S, NEW seq \in Seq(S), NEW x \in S
    PROVE  /\ Append(seq, x) \in Seq(S) /\ Len(seq) \in Nat
           /\ Len(Append(seq, x)) = Len(seq) + 1
           /\ \A i \in 1..Len(Append(seq, x)) :
                 Append(seq, x)[i] = IF i <= Len(seq) THEN seq[i] ELSE x
OBVIOUS

LEMMA ElementFacts ==
    ASSUME NEW S, NEW seq \in Seq(S), NEW i \in 1..Len(seq)
    PROVE  seq[i] \in S
OBVIOUS

LEMMA TailFacts ==
    ASSUME NEW S, NEW seq \in Seq(S), seq # <<>>
    PROVE  /\ Tail(seq) \in Seq(S) /\ Head(seq) \in S /\ Len(seq) \in Nat \ {0}
           /\ Len(Tail(seq)) = Len(seq) - 1
           /\ \A i \in 1..Len(Tail(seq)) : Tail(seq)[i] = seq[i + 1]
OBVIOUS

LEMMA PrefixFacts ==
    ASSUME NEW S, NEW seq \in Seq(S), NEW n \in 0..Len(seq)
    PROVE  /\ SubSeq(seq, 1, n) \in Seq(S) /\ Len(SubSeq(seq, 1, n)) = n
           /\ \A i \in 1..n : SubSeq(seq, 1, n)[i] = seq[i]
<1>1. \A i \in 1..n : seq[i] \in S
    OBVIOUS
<1> QED
    BY <1>1, SubSeqProperties

\* What is in the table can be counted.
LEMMA RowsFinite ==
    ASSUME TypeOK
    PROVE  IsFiniteSet(rows) /\ Cardinality(rows) \in Nat
<1>1. MaxAsked \in Nat
    BY ApprovalsAssumption
<1>2. IsFiniteSet(1..MaxAsked)
    BY <1>1, FS_Interval
<1>3. IsFiniteSet(rows)
    BY <1>2, FS_Subset DEF TypeOK
<1> QED
    BY <1>3, FS_CardinalityType

-----------------------------------------------------------------------------
(* Type correctness.                                                       *)

LEMMA TypeInit == Init => TypeOK
<1> SUFFICES ASSUME Init PROVE TypeOK
    OBVIOUS
<1>1. local \in BOOLEAN
    BY ApprovalsAssumption DEF Init
<1>2. 1 \in 1..MaxBoots /\ 0 \in 0..MaxBoots /\ 0 \in 0..MaxAsked
    BY ApprovalsAssumption
<1> QED
    BY <1>1, <1>2 DEF Init, TypeOK

\* Closing the requests ids.
LEMMA StoreResolvedType ==
    ASSUME TypeOK, NEW ids \in SUBSET Id, IsFiniteSet(ids), StoreResolved(ids)
    PROVE  resolved' \in [Id -> Nat] /\ pendingCount' \in Nat
<1>1. Cardinality(ids) \in Nat
    BY FS_CardinalityType
<1> QED
    BY <1>1 DEF StoreResolved, TypeOK

LEMMA TypeStep == TypeOK /\ [Next]_vars => TypeOK'
<1> SUFFICES ASSUME TypeOK, [Next]_vars PROVE TypeOK'
    OBVIOUS
<1> USE DEF TypeOK
<1>1. MaxAsked \in Nat /\ MaxBoots \in Nat \ {0} /\ Len(outbox) \in Nat /\ handled \in Nat
    BY ApprovalsAssumption
<1>a. /\ \A n \in Nat : 0 \in 0..n
      /\ \A b \in Nat : breaks' = b + 1 => breaks' \in Nat
    OBVIOUS
<1>b. ASSUME Disconnected, Len(outbox') \in Nat
      PROVE  /\ connected' \in BOOLEAN /\ handled' \in 0..Len(outbox')
             /\ toRunner' \in Seq(Id \cup {None})
    <2>1. handled' = 0 /\ connected' = FALSE /\ toRunner' = <<>>
        BY <1>b DEF Disconnected
    <2>2. handled' \in 0..Len(outbox')
        BY <1>b, <2>1
    <2>3. toRunner' \in Seq(Id \cup {None})
        BY <2>1
    <2> QED
        BY <2>1, <2>2, <2>3
<1>2. CASE RunnerAsk
    <2>1. asked + 1 \in Id
        BY <1>1, <1>2 DEF RunnerAsk
    <2>2. /\ outbox' \in Seq(Id) /\ Len(outbox') = Len(outbox) + 1
        BY <1>2, <2>1, AppendFacts DEF RunnerAsk
    <2>3. handled' \in 0..Len(outbox')
        BY <1>1, <1>2, <2>2 DEF RunnerAsk
    <2>4. asked' \in 0..MaxAsked /\ waiting' \subseteq Id /\ askedBy' \in [Id -> 0..MaxBoots]
        BY <1>1, <1>2, <2>1 DEF RunnerAsk
    <2> QED
        BY <1>2, <2>2, <2>3, <2>4 DEF RunnerAsk, storeVars, httpVars
<1>3. CASE RunnerSessionEnds
    BY <1>3 DEF RunnerSessionEnds, linkVars, storeVars, httpVars
<1>4. CASE RunnerReceive
    <2>1. toRunner' \in Seq(Id \cup {None})
        BY <1>4, TailFacts DEF RunnerReceive
    <2> QED
        BY <1>4, <2>1 DEF RunnerReceive, storeVars, httpVars
<1>5. CASE RunnerAcked
    <2>1. outbox' \in Seq(Id) /\ Len(outbox') = Len(outbox) - 1
        BY <1>1, <1>5, TailFacts DEF RunnerAcked
    <2>2. handled' \in 0..Len(outbox')
        BY <1>1, <1>5, <2>1 DEF RunnerAcked
    <2> QED
        BY <1>5, <2>1, <2>2 DEF RunnerAcked, runnerVars, storeVars, httpVars
<1>6. ASSUME NextRunner
      PROVE  /\ outbox' \in Seq(Id) /\ Len(outbox') \in Nat
             /\ boot' \in 1..MaxBoots /\ waiting' \subseteq Id
             /\ UNCHANGED <<local, asked, askedBy>>
    <2>1. PICK n \in 0..Len(outbox) : outbox' = SubSeq(outbox, 1, n)
        BY <1>6 DEF NextRunner
    <2>2. outbox' \in Seq(Id) /\ Len(outbox') = n
        BY <2>1, PrefixFacts
    <2> QED
        BY <1>1, <1>6, <2>2 DEF NextRunner
<1>7. CASE RunnerRestart
    <2>1. Len(outbox') \in Nat /\ NextRunner /\ Disconnected
        BY <1>6, <1>7 DEF RunnerRestart
    <2> QED
        BY <1>6, <1>7, <1>b, <2>1 DEF RunnerRestart, storeVars, httpVars
<1>8. CASE ConnectionBreaks
    <2>1. Len(outbox') \in Nat /\ Disconnected /\ breaks' \in Nat
        BY <1>1, <1>a, <1>8 DEF ConnectionBreaks
    <2> QED
        BY <1>8, <1>b, <2>1 DEF ConnectionBreaks, runnerVars, storeVars, httpVars
<1>9. ASSUME Recover
      PROVE  /\ rows' \subseteq Id /\ resolved' \in [Id -> Nat] /\ pendingCount' \in Nat
    BY <1>9, RowsFinite, StoreResolvedType DEF Recover
<1>10. CASE HostHello
    <2>1. rows' \subseteq Id /\ resolved' \in [Id -> Nat] /\ pendingCount' \in Nat
        <3>1. CASE BootChanged
            BY <1>9, <1>10, <3>1 DEF HostHello
        <3>2. CASE ~BootChanged
            BY <1>10, <3>2 DEF HostHello
        <3> QED
            BY <3>1, <3>2
    <2>2. handled' \in 0..Len(outbox')
        BY <1>1, <1>a, <1>10 DEF HostHello
    <2>3. toRunner' \in Seq(Id \cup {None})
        BY <1>10 DEF HostHello
    <2> QED
        BY <1>10, <2>1, <2>2, <2>3 DEF HostHello, runnerVars, httpVars
<1>11. CASE HostRecord
    <2>1. handled + 1 \in 1..Len(outbox) /\ outbox[handled + 1] \in Id
        <3>1. handled + 1 \in 1..Len(outbox)
            BY <1>1, <1>11 DEF HostRecord
        <3>2. outbox \in Seq(Id)
            OBVIOUS
        <3> QED
            BY <3>1, <3>2, ElementFacts
    <2>2. handled' \in 0..Len(outbox')
        BY <1>1, <1>11 DEF HostRecord
    <2>3. /\ recordedUnder' \in [Id -> 0..MaxBoots] /\ pendingCount' \in Nat
          /\ approvals' \subseteq Id /\ rows' \subseteq Id
        <3>1. seenBoot \in 0..MaxBoots /\ pendingCount + 1 \in Nat
            BY <1>1
        <3> DEFINE id == outbox[handled + 1]
        <3>2. id \in Id
            BY <2>1
        <3>3. \/ /\ recordedUnder' = [recordedUnder EXCEPT ![id] = seenBoot]
                 /\ pendingCount' = pendingCount + 1
                 /\ approvals' = approvals \cup {id} /\ rows' = rows \cup {id}
              \/ UNCHANGED <<recordedUnder, pendingCount, approvals, rows>>
            BY <1>11 DEF HostRecord
        <3> HIDE DEF id
        <3> QED
            BY <3>1, <3>2, <3>3
    <2> QED
        BY <1>11, <2>2, <2>3 DEF HostRecord, runnerVars, httpVars
<1>12. CASE SessionDelete
    <2>1. toRunner' \in Seq(Id \cup {None})
        BY <1>12, AppendFacts DEF SessionDelete
    <2> QED
        BY <1>12, <2>1 DEF SessionDelete, runnerVars, httpVars
<1>13. CASE HostRestart
    <2>1. /\ rows' \subseteq Id /\ resolved' \in [Id -> Nat] /\ pendingCount' \in Nat
          /\ outbox' \in Seq(Id) /\ Len(outbox') \in Nat
          /\ boot' \in 1..MaxBoots /\ waiting' \subseteq Id
          /\ UNCHANGED <<local, asked, askedBy>>
        <3>1. CASE local
            BY <1>6, <1>9, <1>13, <3>1 DEF HostRestart
        <3>2. CASE ~local
            BY <1>1, <1>13, <3>2 DEF HostRestart, runnerVars
        <3> QED
            BY <3>1, <3>2
    <2>2. posts' \in [Request -> Id \cup {None}]
        BY <1>13 DEF HostRestart
    <2>3. Disconnected /\ breaks' \in Nat
        BY <1>a, <1>13 DEF HostRestart
    <2> QED
        BY <1>13, <1>b, <2>1, <2>2, <2>3 DEF HostRestart
<1>14. ASSUME NEW r \in Request, PostArrives(r)
       PROVE  TypeOK'
    BY <1>14 DEF PostArrives, runnerVars, linkVars, storeVars
<1>15. ASSUME NEW r \in Request, PostRefused(r)
       PROVE  TypeOK'
    BY <1>15 DEF PostRefused, runnerVars, linkVars, storeVars
<1>16. ASSUME NEW r \in Request, PostDecides(r)
       PROVE  TypeOK'
    <2>1. posts[r] \in Id
        BY <1>16 DEF PostDecides
    <2>2. toRunner' \in Seq(Id \cup {None})
        BY <1>16, <2>1, AppendFacts DEF PostDecides
    <2>3. resolved' \in [Id -> Nat] /\ pendingCount' \in Nat
        <3>1. IsFiniteSet({posts[r]})
            BY FS_Singleton
        <3> QED
            BY <1>16, <2>1, <3>1, StoreResolvedType DEF PostDecides
    <2> QED
        BY <1>16, <2>1, <2>2, <2>3 DEF PostDecides, runnerVars
<1>17. CASE UNCHANGED vars
    BY <1>17 DEF vars, runnerVars, linkVars, storeVars, httpVars
<1> QED
    BY <1>2, <1>3, <1>4, <1>5, <1>7, <1>8, <1>10, <1>11, <1>12, <1>13, <1>14, <1>15, <1>16, <1>17 DEF Next

\* Every variable keeps its type.
THEOREM ApprovalsTypeCorrect == Spec => []TypeOK
<1> QED
    BY TypeInit, TypeStep, PTL DEF Spec

-----------------------------------------------------------------------------
(* The counter.                                                            *)

Badge == BadgeExact /\ BadgeNotTooHigh

\* A request that is stored and opened is counted.
LEMMA BadgeRecorded ==
    ASSUME TypeOK, Badge, NEW id \in Id, id \notin rows,
           rows' = rows \cup {id}, pendingCount' = pendingCount + 1, UNCHANGED <<resolved, exists>>
    PROVE  Badge'
<1>1. Cardinality(rows') = Cardinality(rows) + 1 /\ Cardinality(rows) \in Nat
    BY RowsFinite, FS_AddElement
<1>2. pendingCount \in Nat
    BY DEF TypeOK
<1> QED
    BY <1>1, <1>2 DEF Badge, BadgeExact, BadgeNotTooHigh

\* Closing all requests.
LEMMA BadgeRecovered ==
    ASSUME TypeOK, Badge, Recover, exists' = exists
    PROVE  Badge' /\ rows' = {}
<1>1. Cardinality(rows) \in Nat /\ rows \subseteq Id
    BY RowsFinite DEF TypeOK
<1>2. rows' = {} /\ Cardinality(rows') = 0
    BY FS_EmptySet DEF Recover
<1>3. exists => pendingCount <= Cardinality(rows)
    BY DEF Badge, BadgeNotTooHigh
<1>4. exists => pendingCount' = 0
    BY <1>1, <1>3 DEF Recover, StoreResolved, TypeOK
<1> QED
    BY <1>2, <1>4 DEF Badge, BadgeExact, BadgeNotTooHigh

\* Closing one request, which may be closed already.
LEMMA BadgeDecided ==
    ASSUME TypeOK, Badge, OpenInv, NEW id \in Id, id \in Recorded, exists, exists',
           StoreResolved({id}), rows' = rows \ {id}
    PROVE  Badge'
<1>1. IsFiniteSet(rows) /\ Cardinality(rows) \in Nat
    BY RowsFinite
<1>2. Cardinality({id}) = 1
    BY FS_Singleton
<1>3. /\ resolved' = [i \in Id |-> resolved[i] + (IF i \in {id} THEN 1 ELSE 0)]
      /\ pendingCount' = IF pendingCount - 1 > 0 THEN pendingCount - 1 ELSE 0
    BY <1>2 DEF StoreResolved
<1>4. pendingCount \in Nat /\ resolved \in [Id -> Nat]
    BY DEF TypeOK
<1>5. resolved'[id] = resolved[id] + 1 /\ \A i \in Id : resolved[i] <= resolved'[i]
    BY <1>3, <1>4
<1>6. pendingCount <= Cardinality(rows)
    BY DEF Badge, BadgeNotTooHigh
<1>7. CASE id \in rows
    <2>1. Cardinality(rows') = Cardinality(rows) - 1
        BY <1>1, <1>7, FS_RemoveElement
    <2>2. Cardinality(rows) # 0
        BY <1>1, <1>7, FS_EmptySet
    <2>3. BadgeNotTooHigh'
        BY <1>1, <1>3, <1>4, <1>6, <2>1, <2>2 DEF BadgeNotTooHigh
    <2>4. (\A i \in Id : resolved'[i] <= 1) => \A i \in Id : resolved[i] <= 1
        BY <1>4, <1>3
    <2>5. (\A i \in Id : resolved[i] <= 1) => pendingCount = Cardinality(rows)
        BY DEF Badge, BadgeExact
    <2>6. (\A i \in Id : resolved'[i] <= 1) => pendingCount' = Cardinality(rows')
        BY <1>1, <1>3, <2>1, <2>2, <2>4, <2>5
    <2> QED
        BY <2>3, <2>6 DEF Badge, BadgeExact
<1>8. CASE id \notin rows
    <2>1. rows' = rows
        BY <1>8
    <2>2. resolved[id] # 0
        BY <1>8 DEF OpenInv
    <2>3. resolved'[id] > 1
        BY <1>4, <1>5, <2>2
    <2>4. pendingCount' <= Cardinality(rows)
        BY <1>1, <1>3, <1>4, <1>6
    <2>5. resolved'[id] \in Nat
        BY <1>4, <1>5
    <2>6. ~(\A i \in Id : resolved'[i] <= 1)
        BY <2>3, <2>5
    <2> QED
        BY <2>1, <2>4, <2>6 DEF Badge, BadgeExact, BadgeNotTooHigh
<1> QED
    BY <1>7, <1>8

-----------------------------------------------------------------------------
(* The parts of the invariant when what they are about does not change.    *)

LEMMA OpenFrame ==
    ASSUME OpenInv, UNCHANGED <<approvals, recordedUnder, posts, resolved, rows, exists>>
    PROVE  OpenInv' /\ Recorded' = Recorded
BY DEF OpenInv, Recorded

LEMMA BadgeFrame ==
    ASSUME Badge, UNCHANGED <<exists, resolved, pendingCount, rows>>
    PROVE  Badge'
BY DEF Badge, BadgeExact, BadgeNotTooHigh

\* Nothing is asked or stored, and waiting does not grow.
LEMMA AskedFrame ==
    ASSUME AskedInv, Recorded' = Recorded, waiting' \subseteq waiting,
           asked' = asked, outbox' = outbox
    PROVE  AskedInv'
BY DEF AskedInv

LEMMA NextRunnerAsked ==
    ASSUME TypeOK, AskedInv, NextRunner, Recorded' = Recorded
    PROVE  AskedInv'
<1>1. PICK n \in 0..Len(outbox) : outbox' = SubSeq(outbox, 1, n)
    BY DEF NextRunner
<1>2. /\ Len(outbox') = n
      /\ \A i \in 1..n : outbox'[i] = outbox[i] /\ i \in 1..Len(outbox)
    BY <1>1, PrefixFacts DEF TypeOK
<1>3. asked' = asked /\ waiting' = {}
    BY DEF NextRunner
<1> QED
    BY <1>2, <1>3 DEF AskedInv

LEMMA BootFrame ==
    ASSUME BootInv, Recorded' = Recorded, waiting' \subseteq waiting,
           connected' => connected, rows' \subseteq rows,
           UNCHANGED <<boot, seenBoot, recordedUnder>>
    PROVE  BootInv'
BY DEF BootInv

LEMMA WaitingFrame ==
    ASSUME WaitingIsOpen, Recorded' = Recorded, waiting' \subseteq waiting,
           exists' => exists, rows \ answered' \subseteq rows', answered \subseteq answered'
    PROVE  WaitingIsOpen'
BY DEF WaitingIsOpen

\* Closing all requests leaves OpenInv, with the map and the HTTP requests kept
\* or forgotten.
LEMMA RecoverOpen ==
    ASSUME TypeOK, OpenInv, Recover, rows' = {}, exists' = exists, Recorded' = Recorded,
           approvals' \in {approvals, rows'},
           posts' \in {posts, [r \in Request |-> None]}
    PROVE  OpenInv'
<1>1. resolved' = [i \in Id |-> resolved[i] + (IF i \in rows THEN 1 ELSE 0)]
    BY DEF Recover, StoreResolved
<1>2. resolved \in [Id -> Nat] /\ Recorded \subseteq Id
    BY DEF TypeOK, Recorded
<1>3. \A i \in Id : /\ i \in rows => resolved'[i] = 1
                    /\ i \notin rows => resolved'[i] = resolved[i]
    BY <1>1, <1>2 DEF OpenInv
<1>4. \A i \in Id : resolved'[i] > 0 => i \in Recorded'
    BY <1>3 DEF OpenInv
<1>5. rows' = {i \in Recorded' : exists' /\ resolved'[i] = 0}
    <2>1. \A i \in Recorded : exists /\ resolved'[i] = 0 => FALSE
        <3>1. TAKE i \in Recorded
        <3>2. i \in Id
            BY <1>2
        <3>3. i \notin rows => ~exists \/ resolved[i] # 0
            BY DEF OpenInv
        <3> QED
            BY <1>3, <3>2, <3>3
    <2> QED
        BY <2>1
<1>6. approvals' \subseteq Recorded' /\ \A r \in Request : posts'[r] \in Recorded' \cup {None}
    BY DEF OpenInv
<1> QED
    BY <1>4, <1>5, <1>6 DEF OpenInv

-----------------------------------------------------------------------------
(* The inductive invariant.                                                *)

LEMMA InvInit == Init => ApprovalInv
<1> SUFFICES ASSUME Init PROVE ApprovalInv
    OBVIOUS
<1>1. Recorded = {} /\ waiting = {} /\ rows = {} /\ Cardinality(rows) = 0
    BY FS_EmptySet DEF Init, Recorded
<1>2. AskedInv /\ OpenInv /\ BootInv /\ WaitingIsOpen
    BY <1>1 DEF Init, AskedInv, OpenInv, BootInv, WaitingIsOpen
<1>3. BadgeExact /\ BadgeNotTooHigh
    BY <1>1 DEF Init, BadgeExact, BadgeNotTooHigh
<1> QED
    BY <1>2, <1>3 DEF ApprovalInv

\* The steps of the runner and of the connection.
LEMMA RunnerSteps ==
    ASSUME TypeOK, ApprovalInv,
           RunnerAsk \/ RunnerSessionEnds \/ RunnerReceive \/ RunnerAcked
              \/ RunnerRestart \/ ConnectionBreaks
    PROVE  ApprovalInv'
<1> USE DEF ApprovalInv
<1>1. Badge
    BY DEF Badge
<1>2. UNCHANGED <<storeVars, approvals, posts, answered>>
    BY DEF RunnerAsk, RunnerSessionEnds, RunnerReceive, RunnerAcked, RunnerRestart,
           ConnectionBreaks, httpVars
<1>3. OpenInv' /\ Recorded' = Recorded
    BY <1>2, OpenFrame DEF storeVars
<1>4. Badge'
    BY <1>1, <1>2, BadgeFrame DEF storeVars
<1>5. AskedInv /\ BootInv /\ WaitingIsOpen
    OBVIOUS
<1>6. CASE RunnerAsk
    <2>1. /\ asked' = asked + 1 /\ waiting' = waiting \cup {asked + 1}
          /\ outbox' = Append(outbox, asked + 1) /\ asked + 1 \in Id /\ asked \in Nat
          /\ UNCHANGED <<boot, connected>>
        BY <1>6, ApprovalsAssumption DEF RunnerAsk, TypeOK
    <2>2. Recorded \subseteq Id /\ \A id \in Recorded : id <= asked
        BY <1>5 DEF AskedInv, Recorded
    <2>3. asked + 1 \notin Recorded
        BY <2>1, <2>2
    <2>4. AskedInv'
        <3>1. outbox \in Seq(Id) /\ waiting \subseteq Id
            BY DEF TypeOK
        <3>2. \A i \in 1..Len(outbox') : outbox'[i] <= asked'
            <4>1. /\ Len(outbox') = Len(outbox) + 1 /\ Len(outbox) \in Nat
                  /\ \A i \in 1..Len(outbox') :
                        outbox'[i] = IF i <= Len(outbox) THEN outbox[i] ELSE asked + 1
                BY <2>1, <3>1, AppendFacts
            <4>2. \A i \in 1..Len(outbox) : outbox[i] <= asked /\ outbox[i] \in Int
                <5>1. TAKE i \in 1..Len(outbox)
                <5>2. outbox[i] \in Id
                    BY <3>1, ElementFacts
                <5> QED
                    BY <1>5, <5>2, ApprovalsAssumption DEF AskedInv
            <4>3. TAKE i \in 1..Len(outbox')
            <4>4. CASE i <= Len(outbox)
                <5>1. i \in 1..Len(outbox)
                    BY <4>1, <4>4
                <5> QED
                    BY <2>1, <4>1, <4>2, <4>4, <5>1
            <4>5. CASE ~(i <= Len(outbox))
                BY <2>1, <4>1, <4>5
            <4> QED
                BY <4>4, <4>5
        <3>3. \A id \in waiting' \cup Recorded' : id <= asked'
            BY <1>3, <1>5, <2>1, <2>2, <3>1 DEF AskedInv
        <3> QED
            BY <3>2, <3>3 DEF AskedInv
    <2>5. BootInv' /\ WaitingIsOpen'
        <3>1. waiting' \cap Recorded' = waiting \cap Recorded
            BY <1>3, <2>1, <2>3
        <3> QED
            BY <1>2, <1>5, <2>1, <3>1 DEF BootInv, WaitingIsOpen, storeVars
    <2> QED
        BY <1>3, <1>4, <2>4, <2>5 DEF Badge
<1>7. CASE RunnerSessionEnds \/ RunnerReceive \/ ConnectionBreaks
    <2>1. /\ waiting' \subseteq waiting /\ (connected' => connected)
          /\ UNCHANGED <<asked, outbox, boot>>
        BY <1>7 DEF RunnerSessionEnds, RunnerReceive, ConnectionBreaks, Disconnected,
                    runnerVars, linkVars
    <2>2. AskedInv'
        BY <1>3, <1>5, <2>1, AskedFrame
    <2>3. BootInv' /\ WaitingIsOpen'
        BY <1>2, <1>3, <1>5, <2>1, BootFrame, WaitingFrame DEF storeVars
    <2> QED
        BY <1>3, <1>4, <2>2, <2>3 DEF Badge
<1>8. CASE RunnerAcked
    <2>1. /\ outbox' = Tail(outbox) /\ outbox # <<>>
          /\ UNCHANGED <<asked, waiting, boot, connected>>
        BY <1>8 DEF RunnerAcked, TypeOK, runnerVars
    <2>2. AskedInv'
        <3>1. /\ Len(outbox) \in Nat /\ Len(outbox') = Len(outbox) - 1
              /\ \A i \in 1..Len(outbox') : outbox'[i] = outbox[i + 1]
            BY <2>1, TailFacts DEF TypeOK
        <3>2. \A i \in 1..Len(outbox') : i + 1 \in 1..Len(outbox)
            BY <3>1
        <3> QED
            BY <1>3, <1>5, <2>1, <3>1, <3>2 DEF AskedInv
    <2>3. BootInv' /\ WaitingIsOpen'
        BY <1>2, <1>3, <1>5, <2>1, BootFrame, WaitingFrame DEF storeVars
    <2> QED
        BY <1>3, <1>4, <2>2, <2>3 DEF Badge
<1>9. CASE RunnerRestart
    <2>1. waiting' = {} /\ connected' = FALSE
        BY <1>9 DEF RunnerRestart, NextRunner, Disconnected
    <2>2. AskedInv'
        BY <1>3, <1>5, <1>9, NextRunnerAsked DEF RunnerRestart
    <2>3. BootInv' /\ WaitingIsOpen'
        BY <1>2, <1>5, <2>1 DEF BootInv, WaitingIsOpen, storeVars
    <2> QED
        BY <1>3, <1>4, <2>2, <2>3 DEF Badge
<1> QED
    BY <1>6, <1>7, <1>8, <1>9

\* The steps of the host.
LEMMA HelloStep ==
    ASSUME TypeOK, ApprovalInv, HostHello
    PROVE  ApprovalInv'
<1> USE DEF ApprovalInv
<1>1. /\ connected' = TRUE /\ seenBoot' = boot
      /\ UNCHANGED <<runnerVars, outbox, recordedUnder, exists, approvals, posts, answered>>
    BY DEF HostHello, httpVars
<1>2. Recorded' = Recorded
    BY <1>1 DEF Recorded
<1>3. AskedInv'
    BY <1>1, <1>2, AskedFrame DEF runnerVars
<1>4. CASE BootChanged
    <2>1. Recover /\ seenBoot # boot
        BY <1>4 DEF HostHello, BootChanged
    <2>2. Badge' /\ rows' = {}
        BY <1>1, <2>1, BadgeRecovered DEF Badge
    <2>3. waiting' \cap Recorded' = {}
        BY <1>1, <1>2, <2>1 DEF BootInv, runnerVars
    <2>4. OpenInv'
        BY <1>1, <1>2, <2>1, <2>2, RecoverOpen
    <2> QED
        BY <1>1, <1>3, <2>2, <2>3, <2>4 DEF Badge, BootInv, WaitingIsOpen, runnerVars
<1>5. CASE ~BootChanged
    <2>1. seenBoot = boot /\ UNCHANGED <<rows, resolved, pendingCount>>
        BY <1>5 DEF HostHello, BootChanged
    <2>2. OpenInv' /\ Badge'
        BY <1>1, <2>1, OpenFrame, BadgeFrame DEF Badge
    <2>3. BootInv' /\ WaitingIsOpen'
        BY <1>1, <1>2, <2>1 DEF BootInv, WaitingIsOpen, runnerVars
    <2> QED
        BY <1>3, <2>2, <2>3 DEF Badge
<1> QED
    BY <1>4, <1>5

LEMMA RecordStep ==
    ASSUME TypeOK, ApprovalInv, HostRecord
    PROVE  ApprovalInv'
<1> USE DEF ApprovalInv
<1> DEFINE id == outbox[handled + 1]
<1>1. /\ connected /\ connected' = connected /\ seenBoot = boot
      /\ UNCHANGED <<runnerVars, outbox, seenBoot, resolved, exists, posts, answered>>
    BY DEF HostRecord, BootInv, httpVars
<1>2. id \in Id /\ id <= asked
    <2>1. handled + 1 \in 1..Len(outbox) /\ outbox \in Seq(Id)
        BY DEF HostRecord, TypeOK
    <2> QED
        BY <2>1, ElementFacts DEF AskedInv
<1>3. CASE exists /\ id \notin Recorded
    <2>1. /\ recordedUnder' = [recordedUnder EXCEPT ![id] = seenBoot]
          /\ pendingCount' = pendingCount + 1
          /\ approvals' = approvals \cup {id} /\ rows' = rows \cup {id}
        BY <1>3 DEF HostRecord
    <2>2. id \notin rows /\ resolved[id] = 0 /\ resolved[id] \in Nat
        BY <1>2, <1>3 DEF OpenInv, TypeOK
    <2> HIDE DEF id
    <2>3. Recorded' = Recorded \cup {id}
        <3>1. seenBoot # 0 /\ recordedUnder \in [Id -> 0..MaxBoots]
            BY DEF TypeOK
        <3> QED
            BY <1>2, <2>1, <3>1 DEF Recorded
    <2>4. AskedInv'
        BY <1>1, <1>2, <2>3 DEF AskedInv, runnerVars
    <2>5. OpenInv'
        BY <1>1, <1>3, <2>1, <2>2, <2>3 DEF OpenInv
    <2>6. BootInv'
        BY <1>1, <1>2, <2>1 DEF BootInv, runnerVars, TypeOK
    <2>7. WaitingIsOpen'
        BY <1>1, <2>1, <2>3 DEF WaitingIsOpen, runnerVars
    <2>8. Badge'
        BY <1>1, <1>2, <2>1, <2>2, BadgeRecorded DEF Badge
    <2> QED
        BY <2>4, <2>5, <2>6, <2>7, <2>8 DEF Badge
<1>4. CASE ~(exists /\ id \notin Recorded)
    <2>1. UNCHANGED <<recordedUnder, pendingCount, approvals, rows>>
        BY <1>4 DEF HostRecord
    <2> HIDE DEF id
    <2>2. OpenInv' /\ Recorded' = Recorded /\ Badge'
        BY <1>1, <2>1, OpenFrame, BadgeFrame DEF Badge
    <2>3. AskedInv' /\ BootInv' /\ WaitingIsOpen'
        BY <1>1, <2>1, <2>2 DEF AskedInv, BootInv, WaitingIsOpen, runnerVars
    <2> QED
        BY <2>2, <2>3 DEF Badge
<1> QED
    BY <1>3, <1>4

LEMMA RestartStep ==
    ASSUME TypeOK, ApprovalInv, HostRestart
    PROVE  ApprovalInv'
<1> USE DEF ApprovalInv
<1>1. /\ connected' = FALSE /\ approvals' = rows' /\ posts' = [r \in Request |-> None]
      /\ UNCHANGED <<seenBoot, recordedUnder, exists, answered>>
    BY DEF HostRestart, Disconnected
<1>2. Recorded' = Recorded
    BY <1>1 DEF Recorded
<1>3. CASE local
    <2>1. NextRunner /\ Recover
        BY <1>3 DEF HostRestart
    <2>2. waiting' = {} /\ AskedInv'
        BY <1>2, <2>1, NextRunnerAsked DEF NextRunner
    <2>3. Badge' /\ rows' = {}
        BY <1>1, <2>1, BadgeRecovered DEF Badge
    <2>4. OpenInv'
        BY <1>1, <1>2, <2>1, <2>3, RecoverOpen
    <2> QED
        BY <1>1, <2>2, <2>3, <2>4 DEF Badge, BootInv, WaitingIsOpen
<1>4. CASE ~local
    <2>1. UNCHANGED <<runnerVars, outbox, rows, resolved, pendingCount>>
        BY <1>4 DEF HostRestart
    <2>2. AskedInv' /\ Badge'
        BY <1>1, <1>2, <2>1, AskedFrame, BadgeFrame DEF Badge, runnerVars
    <2>3. OpenInv'
        BY <1>1, <1>2, <2>1 DEF OpenInv
    <2>4. BootInv' /\ WaitingIsOpen'
        BY <1>1, <1>2, <2>1 DEF BootInv, WaitingIsOpen, runnerVars
    <2> QED
        BY <2>2, <2>3, <2>4 DEF Badge
<1> QED
    BY <1>3, <1>4

LEMMA DeleteStep ==
    ASSUME TypeOK, ApprovalInv, SessionDelete
    PROVE  ApprovalInv'
<1> USE DEF ApprovalInv
<1>1. /\ ~exists' /\ approvals' = {} /\ rows' = {}
      /\ UNCHANGED <<runnerVars, outbox, connected, seenBoot, recordedUnder, resolved, posts>>
    BY DEF SessionDelete, httpVars
<1>2. Recorded' = Recorded
    BY <1>1 DEF Recorded
<1>3. AskedInv'
    BY <1>1, <1>2, AskedFrame DEF runnerVars
<1>4. OpenInv' /\ BootInv'
    BY <1>1, <1>2 DEF OpenInv, BootInv, runnerVars
<1> QED
    BY <1>1, <1>3, <1>4 DEF WaitingIsOpen, BadgeExact, BadgeNotTooHigh

\* Looking a request up, or giving it up.
LEMMA PostStep ==
    ASSUME TypeOK, ApprovalInv, NEW r \in Request, PostArrives(r) \/ PostRefused(r)
    PROVE  ApprovalInv'
<1> USE DEF ApprovalInv
<1>1. UNCHANGED <<runnerVars, linkVars, storeVars, approvals, answered>>
    BY DEF PostArrives, PostRefused
<1>2. Recorded' = Recorded
    BY <1>1 DEF Recorded, storeVars
<1>3. approvals \cup rows \subseteq Recorded
    BY DEF OpenInv
<1>4. \E id \in Recorded \cup {None} : posts' = [posts EXCEPT ![r] = id]
    BY <1>3 DEF PostArrives, PostRefused
<1>5. \A q \in Request : posts'[q] \in Recorded \cup {None}
    BY <1>4 DEF TypeOK, OpenInv
<1>6. OpenInv'
    BY <1>1, <1>2, <1>5 DEF OpenInv, storeVars
<1>7. AskedInv' /\ BootInv' /\ WaitingIsOpen'
    BY <1>1, <1>2 DEF AskedInv, BootInv, WaitingIsOpen, runnerVars, linkVars, storeVars
<1>8. Badge'
    BY <1>1, BadgeFrame DEF Badge, storeVars
<1> QED
    BY <1>6, <1>7, <1>8 DEF Badge

LEMMA DecideStep ==
    ASSUME TypeOK, ApprovalInv, NEW r \in Request, PostDecides(r)
    PROVE  ApprovalInv'
<1> USE DEF ApprovalInv
<1> DEFINE id == posts[r]
<1>1. /\ approvals' = approvals \ {id} /\ rows' = rows \ {id}
      /\ answered' = answered \cup {id} /\ posts' = [posts EXCEPT ![r] = None]
      /\ IF exists THEN StoreResolved({id}) ELSE UNCHANGED <<resolved, pendingCount>>
      /\ UNCHANGED <<runnerVars, outbox, connected, seenBoot, recordedUnder, exists>>
    BY DEF PostDecides
<1>2. id \in Recorded /\ id \in Id
    BY DEF PostDecides, OpenInv, TypeOK, Recorded
<1>3. posts \in [Request -> Id \cup {None}]
    BY DEF TypeOK
<1>4. \A q \in Request : posts'[q] \in Recorded \cup {None}
    BY <1>1, <1>3 DEF OpenInv
<1> HIDE DEF id
<1>5. Recorded' = Recorded
    BY <1>1 DEF Recorded
<1>6. AskedInv'
    BY <1>1, <1>5, AskedFrame DEF runnerVars
<1>7. BootInv'
    BY <1>1, <1>5, BootFrame DEF runnerVars
<1>8. WaitingIsOpen'
    BY <1>1, <1>5 DEF WaitingIsOpen, runnerVars
<1>9. CASE exists
    <2>1. StoreResolved({id}) /\ exists'
        BY <1>1, <1>9
    <2>2. Badge'
        BY <1>1, <1>2, <1>9, <2>1, BadgeDecided DEF Badge
    <2>3. resolved' = [i \in Id |-> resolved[i] + (IF i \in {id} THEN 1 ELSE 0)]
        BY <2>1 DEF StoreResolved
    <2>4. resolved \in [Id -> Nat] /\ Recorded \subseteq Id
        BY DEF TypeOK, Recorded
    <2>5. \A i \in Id : resolved'[i] > 0 => i \in Recorded'
        BY <1>2, <1>5, <2>3, <2>4 DEF OpenInv
    <2>6. \A i \in Recorded : resolved'[i] = 0 <=> resolved[i] = 0 /\ i # id
        BY <2>3, <2>4
    <2>7. rows' = {i \in Recorded' : exists' /\ resolved'[i] = 0}
        BY <1>1, <1>5, <2>1, <2>6 DEF OpenInv
    <2>8. OpenInv'
        BY <1>1, <1>4, <1>5, <2>5, <2>7 DEF OpenInv
    <2> QED
        BY <1>6, <1>7, <1>8, <2>2, <2>8 DEF Badge
<1>10. CASE ~exists
    <2>1. rows = {} /\ rows' = {} /\ ~exists' /\ UNCHANGED <<resolved, pendingCount>>
        BY <1>1, <1>10 DEF OpenInv
    <2>2. OpenInv'
        BY <1>1, <1>4, <1>5, <2>1 DEF OpenInv
    <2> QED
        BY <1>6, <1>7, <1>8, <2>1, <2>2 DEF BadgeExact, BadgeNotTooHigh
<1> QED
    BY <1>9, <1>10

LEMMA InvStep == TypeOK /\ ApprovalInv /\ [Next]_vars => ApprovalInv'
<1> SUFFICES ASSUME TypeOK, ApprovalInv, [Next]_vars PROVE ApprovalInv'
    OBVIOUS
<1>1. CASE RunnerAsk \/ RunnerSessionEnds \/ RunnerReceive \/ RunnerAcked
              \/ RunnerRestart \/ ConnectionBreaks
    BY <1>1, RunnerSteps
<1>2. CASE HostHello
    BY <1>2, HelloStep
<1>3. CASE HostRecord
    BY <1>3, RecordStep
<1>4. CASE SessionDelete
    BY <1>4, DeleteStep
<1>5. CASE HostRestart
    BY <1>5, RestartStep
<1>6. ASSUME NEW r \in Request, PostArrives(r) \/ PostRefused(r) \/ PostDecides(r)
      PROVE  ApprovalInv'
    BY <1>6, PostStep, DecideStep
<1>7. CASE UNCHANGED vars
    <2>1. UNCHANGED <<runnerVars, linkVars, storeVars, approvals, posts, answered>>
        BY <1>7 DEF vars, httpVars
    <2>2. OpenInv' /\ Recorded' = Recorded
        BY <2>1, OpenFrame DEF ApprovalInv, storeVars
    <2>3. Badge'
        BY <2>1, BadgeFrame DEF ApprovalInv, Badge, storeVars
    <2>4. AskedInv' /\ BootInv' /\ WaitingIsOpen'
        BY <2>1, <2>2 DEF ApprovalInv, AskedInv, BootInv, WaitingIsOpen,
                          runnerVars, linkVars, storeVars
    <2> QED
        BY <2>2, <2>3, <2>4 DEF ApprovalInv, Badge
<1> QED
    BY <1>1, <1>2, <1>3, <1>4, <1>5, <1>6, <1>7 DEF Next

\* The invariant holds in every reachable state.
THEOREM ApprovalsInductive == Spec => []ApprovalInv
<1> QED
    BY TypeInit, TypeStep, InvInit, InvStep, PTL DEF Spec

\* What was closed is never open again, by a second delivery of its event or
\* by a host that starts again.
THEOREM ApprovalsClosedStaysClosed == Spec => []ClosedStaysClosed
<1>1. TypeOK /\ ApprovalInv => ClosedStaysClosed
    BY DEF TypeOK, ApprovalInv, OpenInv, ClosedStaysClosed
<1> QED
    BY <1>1, ApprovalsTypeCorrect, ApprovalsInductive, PTL

\* A request that Codex waits for and the host has stored is open in the
\* table, unless a user has decided.
THEOREM ApprovalsWaitingIsOpen == Spec => []WaitingIsOpen
<1>1. ApprovalInv => WaitingIsOpen
    BY DEF ApprovalInv
<1> QED
    BY <1>1, ApprovalsInductive, PTL

\* The counter equals the number of open requests unless one was closed twice.
THEOREM ApprovalsBadgeExact == Spec => []BadgeExact
<1>1. ApprovalInv => BadgeExact
    BY DEF ApprovalInv
<1> QED
    BY <1>1, ApprovalsInductive, PTL

\* Once a new runner process has said hello, no request that was stored under
\* an earlier one is open.
THEOREM ApprovalsRecoveryCloses == Spec => []RecoveryCloses
<1>1. ApprovalInv => RecoveryCloses
    BY DEF ApprovalInv, BootInv, RecoveryCloses
<1> QED
    BY <1>1, ApprovalsInductive, PTL
=============================================================================
