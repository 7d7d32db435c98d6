------------------------ MODULE RunnerDeliveryProofs ------------------------
(***************************************************************************)
(* Proofs about RunnerDelivery, for every number of connections, runner    *)
(* processes and events: types, the numbers of the rows, that no event is  *)
(* lost, that the events of a process stay in order, and that the delivery *)
(* implements EventStream.                                                 *)
(*                                                                         *)
(* What speaks of lost events assumes NoDiskFault: a write that SQLite     *)
(* rejects and a torn line in the spool do lose events, and are findings   *)
(* or hazards, not theorems.                                               *)
(***************************************************************************)
EXTENDS RunnerDeliveryInv, FiniteSetTheorems, WellFoundedInduction, TLAPS

-----------------------------------------------------------------------------
(* Envelopes and jobs.                                                     *)

LEMMA EnvFacts ==
    /\ \A e \in Env : e.seq \in Nat \ {0} /\ e.ev \in Event /\ e.out \in BOOLEAN /\ e # Hello
    /\ Hello.out = FALSE
BY DEF Env, Hello

LEMMA AppendType ==
    ASSUME NEW S, NEW seq \in Seq(S), NEW x \in S
    PROVE  Append(seq, x) \in Seq(S)
OBVIOUS

\* The queue of disk writes holds envelopes.
LEMMA JobFacts ==
    /\ \A j \in Job : j.op = "append" => j.env \in Env
    /\ \A e \in Env : [op |-> "append", env |-> e] \in Job
    /\ [op |-> "ack"] \in Job
BY DEF Job

-----------------------------------------------------------------------------
(* What the host's write operators do.                                     *)

\* A set of natural numbers has a smallest element.
LEMMA SmallestIndex ==
    ASSUME NEW T \in SUBSET Nat, T # {}
    PROVE  \E x \in T : \A y \in T : x <= y
<1> DEFINE R == {ss \in Nat \X Nat : ss[1] < ss[2]}
<1>1. IsWellFoundedOn(R, Nat)
    BY NatLessThanWellFounded DEF OpToRel
<1>2. \A x, y \in Nat : ~(<<y, x>> \in R) => x <= y
    <2> SUFFICES ASSUME NEW x \in Nat, NEW y \in Nat, y < x
                 PROVE  <<y, x>> \in R
        OBVIOUS
    <2>1. <<y, x>> \in Nat \X Nat /\ <<y, x>>[1] = y /\ <<y, x>>[2] = x
        OBVIOUS
    <2> QED
        BY <2>1
<1> HIDE DEF R
<1>3. \E x \in T : \A y \in T : ~(<<y, x>> \in R)
    BY <1>1, WFMin
<1> QED
    BY <1>2, <1>3

\* NewRows makes one row per fresh message, numbered above last_seq.
LEMMA NewRowsFacts ==
    ASSUME lastSeq \in Nat, NEW msgs \in Seq(Env), NEW F \in SUBSET (1..Len(msgs))
    PROVE  /\ NewRows(msgs, F) \subseteq Row
           /\ Cardinality(F) \in Nat /\ (F # {} => Cardinality(F) > 0)
           /\ {r.ev : r \in NewRows(msgs, F)} = {msgs[i].ev : i \in F}
<1>1. IsFiniteSet(F) /\ Cardinality(F) \in Nat
    <2>1. Len(msgs) \in Int
        OBVIOUS
    <2>2. IsFiniteSet(1..Len(msgs))
        BY <2>1, FS_Interval
    <2>3. IsFiniteSet(F)
        BY <2>2, FS_Subset
    <2> QED
        BY <2>3, FS_CardinalityType
<1>2. F # {} => Cardinality(F) > 0
    BY <1>1, FS_EmptySet
<1>3. \A i \in F : Cardinality({j \in F : j <= i}) \in Nat \ {0}
    <2> TAKE i \in F
    <2>1. {j \in F : j <= i} \subseteq F /\ i \in {j \in F : j <= i}
        OBVIOUS
    <2> QED
        BY <2>1, <1>1, FS_Subset, FS_CardinalityType, FS_EmptySet
<1>4. NewRows(msgs, F) \subseteq Row
    <2> SUFFICES ASSUME NEW i \in F
                 PROVE  [ev |-> msgs[i].ev,
                         seq |-> lastSeq + Cardinality({j \in F : j <= i})] \in Row
        BY Zenon DEF NewRows
    <2>1. msgs[i] \in Env
        OBVIOUS
    <2>2. msgs[i].ev \in Event
        BY <2>1, EnvFacts
    <2> DEFINE card == Cardinality({j \in F : j <= i})
    <2>3. card \in Nat \ {0}
        BY <1>3, Zenon
    <2>4. lastSeq + card \in Nat \ {0}
        BY <2>3
    <2> QED
        BY <2>2, <2>4, Zenon DEF Row
<1>5. {r.ev : r \in NewRows(msgs, F)} = {msgs[i].ev : i \in F}
    <2> DEFINE row(i) == [ev |-> msgs[i].ev, seq |-> lastSeq + Cardinality({j \in F : j <= i})]
    <2>1. NewRows(msgs, F) = {row(i) : i \in F}
        BY DEF NewRows
    <2>2. \A i \in F : row(i).ev = msgs[i].ev
        OBVIOUS
    <2> HIDE DEF row
    <2> QED
        BY <2>1, <2>2
<1> QED
    BY <1>1, <1>2, <1>4, <1>5

\* Persist only adds rows.
LEMMA PersistType ==
    ASSUME rows \subseteq Row, lastSeq \in Nat,
           NEW msgs \in Seq(Env), Persist(msgs)
    PROVE  rows' \subseteq Row /\ lastSeq' \in Nat /\ rows \subseteq rows'
<1>1. PICK failed \in Failures(msgs) :
          /\ rows' = rows \cup NewRows(msgs, Fresh(msgs, failed))
          /\ lastSeq' = lastSeq + Cardinality(Fresh(msgs, failed))
    BY DEF Persist
<1>2. Fresh(msgs, failed) \in SUBSET (1..Len(msgs))
    BY DEF Fresh
<1> QED
    BY <1>1, <1>2, NewRowsFacts

\* A store that rejects nothing records every message it is given.
LEMMA FreshCovers ==
    ASSUME NEW msgs \in Seq(Env)
    PROVE  \A i \in 1..Len(msgs) :
              msgs[i].ev \in Recorded \/ \E k \in Fresh(msgs, {}) : msgs[k].ev = msgs[i].ev
<1> SUFFICES ASSUME NEW i \in 1..Len(msgs), msgs[i].ev \notin Recorded
             PROVE  \E k \in Fresh(msgs, {}) : msgs[k].ev = msgs[i].ev
    OBVIOUS
<1> DEFINE T == {j \in 1..Len(msgs) : msgs[j].ev = msgs[i].ev}
<1>1. PICK k \in T : \A j \in T : k <= j
    <2>1. T \in SUBSET Nat /\ i \in T
        OBVIOUS
    <2> HIDE DEF T
    <2> QED
        BY <2>1, SmallestIndex
<1>2. k \in Fresh(msgs, {})
    BY <1>1 DEF Fresh
<1> QED
    BY <1>1, <1>2

LEMMA PersistRecords ==
    ASSUME "storeError" \notin Faults, lastSeq \in Nat, NEW msgs \in Seq(Env), Persist(msgs)
    PROVE  Recorded' = Recorded \cup {msgs[i].ev : i \in 1..Len(msgs)}
<1>1. rows' = rows \cup NewRows(msgs, Fresh(msgs, {}))
    BY DEF Persist, Failures
<1>2. Fresh(msgs, {}) \in SUBSET (1..Len(msgs))
    BY DEF Fresh
<1>3. Recorded' = Recorded \cup {r.ev : r \in NewRows(msgs, Fresh(msgs, {}))}
    BY <1>1 DEF Recorded
<1>4. Recorded' = Recorded \cup {msgs[i].ev : i \in Fresh(msgs, {})}
    BY <1>2, <1>3, NewRowsFacts
<1> QED
    BY <1>2, <1>4, FreshCovers

\* Acknowledgements carry sequence numbers of the messages, after those that
\* are under way already.
LEMMA AcknowledgeType ==
    ASSUME h2r \in [Conn -> Seq(Nat)], NEW c \in Conn, NEW msgs \in Seq(Env),
           Acknowledge(c, msgs)
    PROVE  h2r' \in [Conn -> Seq(Nat)]
<1>1. [i \in DOMAIN msgs |-> msgs[i].seq] \in Seq(Nat)
    <2>1. \A e \in Env : e.seq \in Nat
        BY DEF Env
    <2>2. \A i \in 1..Len(msgs) : msgs[i] \in Env
        OBVIOUS
    <2> QED
        BY <2>1, <2>2
<1> DEFINE acks == [i \in DOMAIN msgs |-> msgs[i].seq]
<1>2. h2r[c] \o acks \in Seq(Nat)
    BY <1>1
<1> HIDE DEF acks
<1> QED
    BY <1>2 DEF Acknowledge, acks

\* A part of the state that a step leaves alone keeps its type.
LEMMA Untouched ==
    /\ RunnerTypeOK /\ UNCHANGED runnerVars => RunnerTypeOK'
    /\ SpoolTypeOK /\ UNCHANGED spoolVars => SpoolTypeOK'
    /\ LinkTypeOK /\ UNCHANGED linkVars => LinkTypeOK'
    /\ HostTypeOK /\ UNCHANGED hostVars => HostTypeOK'
    /\ StoreTypeOK /\ UNCHANGED <<storeVars, drops>> => StoreTypeOK'
BY DEF RunnerTypeOK, runnerVars, SpoolTypeOK, spoolVars, LinkTypeOK, linkVars,
       HostTypeOK, hostVars, StoreTypeOK, storeVars

-----------------------------------------------------------------------------
(* Type correctness.                                                       *)

LEMMA TypeInit == Init => TypeOK
<1> SUFFICES ASSUME Init PROVE TypeOK
    OBVIOUS
<1>1. RunnerTypeOK
    <2>1. up \in BOOLEAN /\ ~up
        BY DEF Init
    <2>2. boot \in 0..MaxBoots /\ emits \in [1..MaxBoots -> Nat]
        BY BoundsAssumption DEF Init
    <2>3. /\ sendSeq \in Nat /\ ackSeq \in Nat
          /\ pending \subseteq Env /\ IsFiniteSet(pending)
        BY FS_EmptySet DEF Init
    <2> QED
        BY <2>1, <2>2, <2>3 DEF RunnerTypeOK
<1>2. SpoolTypeOK
    <2>1. jobs \in Seq(Job) /\ spoolAck \in Nat /\ diskAck \in Nat
        BY DEF Init
    <2>2. disabled \in BOOLEAN /\ tornTail \in BOOLEAN
        BY DEF Init
    <2>3. spoolLog \subseteq Env /\ IsFiniteSet(spoolLog) /\ durable \subseteq Event
        BY FS_EmptySet DEF Init
    <2> QED
        BY <2>1, <2>2, <2>3 DEF SpoolTypeOK
<1>3. LinkTypeOK /\ HostTypeOK /\ StoreTypeOK
    BY DEF Init, LinkTypeOK, HostTypeOK, StoreTypeOK
<1> QED
    BY <1>1, <1>2, <1>3 DEF TypeOK

LEMMA TypeStep == TypeOK /\ [Next]_vars => TypeOK'
<1> SUFFICES ASSUME TypeOK, [Next]_vars PROVE TypeOK'
    OBVIOUS
<1>1. RunnerTypeOK /\ SpoolTypeOK /\ LinkTypeOK /\ HostTypeOK /\ StoreTypeOK
    BY DEF TypeOK
<1> USE <1>1
<1> USE DEF runnerVars, spoolVars, linkVars, hostVars, storeVars
<1>2. CASE RunnerStart
    <2>1. /\ pending' \subseteq Env /\ sendSeq' \in Nat
          /\ pending' \subseteq spoolLog
        BY <1>2, EnvFacts DEF RunnerStart, SpoolTypeOK
    <2>6. IsFiniteSet(pending')
        BY <2>1, FS_Subset DEF SpoolTypeOK
    <2>2. boot' \in 0..MaxBoots /\ boot' > 0
        BY <1>2, BoundsAssumption DEF RunnerStart, RunnerTypeOK
    <2>3. up' \in BOOLEAN /\ emits' = emits /\ ackSeq' \in Nat
        BY <1>2 DEF RunnerStart, SpoolTypeOK
    <2>4. RunnerTypeOK'
        BY <2>1, <2>2, <2>3, <2>6 DEF RunnerTypeOK
    <2>5. SpoolTypeOK'
        <3>1. jobs' \in Seq(Job)
            BY <1>2 DEF RunnerStart
        <3> QED
            BY <3>1, <1>2 DEF RunnerStart, SpoolTypeOK
    <2> QED
        BY <1>2, <2>4, <2>5, Untouched DEF RunnerStart, TypeOK
<1>3. CASE RunnerCrash
    <2>1. jobs' \in Seq(Job) /\ diskAck' \in Nat /\ spoolAck' \in Nat
        BY <1>3 DEF RunnerCrash, SpoolTypeOK
    <2>2. disabled' \in BOOLEAN
        BY <1>3 DEF RunnerCrash
    <2>3. tornTail' \in BOOLEAN
        BY <1>3, Zenon DEF RunnerCrash, SpoolTypeOK
    <2>4. SpoolTypeOK'
        BY <1>3, <2>1, <2>2, <2>3 DEF RunnerCrash, SpoolTypeOK
    <2>5. RunnerTypeOK'
        BY <1>3, FS_EmptySet DEF RunnerCrash, RunnerTypeOK
    <2>6. LinkTypeOK'
        BY <1>3 DEF RunnerCrash, LinkTypeOK
    <2> QED
        BY <1>3, <2>4, <2>5, <2>6, Untouched DEF RunnerCrash, TypeOK
<1>4. ASSUME NEW out \in BOOLEAN, RunnerEmit(out)
      PROVE  TypeOK'
    <2> DEFINE n   == emits[boot] + 1
               env == [seq |-> sendSeq + 1, ev |-> <<boot, n>>, out |-> out]
    <2>1. boot \in 1..MaxBoots /\ n \in Nat \ {0}
        BY <1>4, BoundsAssumption DEF RunnerEmit, RunnerTypeOK
    <2>2. <<boot, n>> \in Event /\ sendSeq + 1 \in Nat \ {0}
        BY <2>1 DEF Event, RunnerTypeOK
    <2>3. env \in Env
        BY <2>2, Zenon DEF Env
    <2>4. /\ up' = up /\ boot' = boot /\ ackSeq' = ackSeq
          /\ emits' = [emits EXCEPT ![boot] = n] /\ sendSeq' = sendSeq + 1
          /\ pending' = pending \cup {env}
          /\ jobs' = IF disabled THEN jobs ELSE Append(jobs, [op |-> "append", env |-> env])
          /\ Transmit(<<env>>)
        BY <1>4 DEF RunnerEmit
    <2>5. UNCHANGED <<spoolAck, disabled, spoolLog, tornTail, diskAck, durable,
                      cur, phase, h2r, hostVars, storeVars, drops>>
        BY <1>4 DEF RunnerEmit
    <2> HIDE DEF n, env
    <2>6. RunnerTypeOK'
        BY <2>1, <2>3, <2>4, FS_AddElement DEF RunnerTypeOK
    <2>7. SpoolTypeOK'
        <3>1. jobs' \in Seq(Job)
            BY <2>3, <2>4, JobFacts DEF SpoolTypeOK
        <3> QED
            BY <3>1, <2>5 DEF SpoolTypeOK
    <2>8. LinkTypeOK'
        <3>1. <<env>> \in Seq(Env \cup {Hello})
            BY <2>3
        <3>2. r2h' \in [Conn -> Seq(Env \cup {Hello})]
            BY <3>1, <2>4 DEF Transmit, LinkTypeOK
        <3> QED
            BY <3>2, <2>5 DEF LinkTypeOK
    <2> QED
        BY <2>5, <2>6, <2>7, <2>8, Untouched DEF TypeOK
<1>5. CASE SpoolAppend
    <2>1. Head(jobs) \in Job /\ Tail(jobs) \in Seq(Job)
        BY <1>5 DEF SpoolAppend, SpoolTypeOK
    <2>2. Head(jobs).env \in Env /\ Head(jobs).env.ev \in Event
        BY <1>5, <2>1, JobFacts, EnvFacts DEF SpoolAppend
    <2>3. spoolLog' \subseteq spoolLog \cup {Head(jobs).env}
        BY <1>5 DEF SpoolAppend, MaybeCompact
    <2>4. tornTail' \in BOOLEAN /\ disabled' \in BOOLEAN
        BY <1>5, Zenon DEF SpoolAppend, MaybeCompact, SpoolTypeOK
    <2>7. IsFiniteSet(spoolLog')
        BY <2>3, FS_AddElement, FS_Subset DEF SpoolTypeOK
    <2>5. /\ durable' = durable \cup {Head(jobs).env.ev}
          /\ jobs' = Tail(jobs)
          /\ UNCHANGED <<runnerVars, spoolAck, diskAck, linkVars, hostVars, storeVars, drops>>
        BY <1>5 DEF SpoolAppend
    <2>6. SpoolTypeOK'
        BY <2>1, <2>2, <2>3, <2>4, <2>5, <2>7 DEF SpoolTypeOK
    <2> QED
        BY <2>5, <2>6, Untouched DEF TypeOK
<1>6. CASE SpoolSaveAck
    <2>1. Tail(jobs) \in Seq(Job)
        BY <1>6 DEF SpoolSaveAck, SpoolTypeOK
    <2>2. spoolLog' \subseteq spoolLog
        BY <1>6 DEF SpoolSaveAck, MaybeCompact
    <2>3. tornTail' \in BOOLEAN /\ disabled' \in BOOLEAN
        BY <1>6, Zenon DEF SpoolSaveAck, MaybeCompact, SpoolTypeOK
    <2>4. /\ diskAck' = spoolAck /\ jobs' = Tail(jobs)
          /\ UNCHANGED <<runnerVars, spoolAck, durable, linkVars, hostVars, storeVars, drops>>
        BY <1>6 DEF SpoolSaveAck
    <2>5. SpoolTypeOK'
        BY <2>1, <2>2, <2>3, <2>4, FS_Subset DEF SpoolTypeOK
    <2> QED
        BY <2>4, <2>5, Untouched DEF TypeOK
<1>7. CASE RunnerHello
    <2>1. PICK s \in [1..Cardinality(pending) -> pending] : Transmit(<<Hello>> \o s)
        BY <1>7 DEF RunnerHello
    <2>2. Cardinality(pending) \in Nat /\ s \in Seq(Env)
        BY FS_CardinalityType DEF RunnerTypeOK
    <2>3. <<Hello>> \o s \in Seq(Env \cup {Hello})
        BY <2>2
    <2>4. /\ phase' = "live" /\ cur # NoConn
          /\ UNCHANGED <<runnerVars, spoolVars, cur, h2r, hostVars, storeVars, drops>>
        BY <1>7 DEF RunnerHello
    <2>5. r2h' \in [Conn -> Seq(Env \cup {Hello})]
        BY <2>1, <2>3 DEF Transmit, LinkTypeOK
    <2>6. LinkTypeOK'
        BY <2>4, <2>5 DEF LinkTypeOK
    <2> QED
        BY <2>4, <2>6, Untouched DEF TypeOK
<1>8. CASE RunnerAck
    <2>1. /\ cur \in Conn /\ h2r[cur] # <<>> /\ h2r' = [h2r EXCEPT ![cur] = Tail(@)]
          /\ Head(h2r[cur]) \in Nat /\ Tail(h2r[cur]) \in Seq(Nat)
        BY <1>8 DEF RunnerAck, LinkTypeOK
    <2>2. LinkTypeOK'
        BY <1>8, <2>1 DEF RunnerAck, LinkTypeOK
    <2>3. pending' \subseteq pending /\ ackSeq' \in Nat
        BY <1>8, <2>1 DEF RunnerAck, RunnerTypeOK
    <2>4. RunnerTypeOK'
        BY <1>8, <2>3, FS_Subset DEF RunnerAck, RunnerTypeOK
    <2>5. jobs' \in Seq(Job) /\ spoolAck' \in Nat
        <3>1. \/ jobs' = jobs /\ spoolAck' = spoolAck
              \/ jobs' = Append(jobs, [op |-> "ack"]) /\ spoolAck' = Head(h2r[cur])
            BY <1>8, Zenon DEF RunnerAck
        <3>2. CASE jobs' = jobs /\ spoolAck' = spoolAck
            BY <3>2 DEF SpoolTypeOK
        <3>3. CASE jobs' = Append(jobs, [op |-> "ack"]) /\ spoolAck' = Head(h2r[cur])
            <4>1. jobs \in Seq(Job) /\ [op |-> "ack"] \in Job
                BY JobFacts DEF SpoolTypeOK
            <4>2. Append(jobs, [op |-> "ack"]) \in Seq(Job)
                BY <4>1, AppendType, Zenon
            <4> QED
                BY <4>2, <3>3, <2>1, Zenon
        <3> QED
            BY <3>1, <3>2, <3>3
    <2>6. SpoolTypeOK'
        BY <1>8, <2>5 DEF RunnerAck, SpoolTypeOK
    <2> QED
        BY <1>8, <2>2, <2>4, <2>6, Untouched DEF RunnerAck, TypeOK
<1>9. CASE RunnerConnClosed
    <2>1. LinkTypeOK' /\ StoreTypeOK'
        BY <1>9 DEF RunnerConnClosed, LinkTypeOK, StoreTypeOK
    <2> QED
        BY <1>9, <2>1, Untouched DEF RunnerConnClosed, TypeOK
<1>10. ASSUME NEW c \in Conn, RunnerConnect(c)
       PROVE  TypeOK'
    <2>1. LinkTypeOK' /\ HostTypeOK'
        BY <1>10 DEF RunnerConnect, LinkTypeOK, HostTypeOK
    <2> QED
        BY <1>10, <2>1, Untouched DEF RunnerConnect, TypeOK
<1>11. ASSUME NEW c \in Conn, HostHello(c)
       PROVE  TypeOK'
    <2>1. LinkTypeOK'
        BY <1>11 DEF HostHello, LinkTypeOK
    <2>2. HostTypeOK'
        BY <1>11 DEF HostHello, HostTypeOK
    <2> QED
        BY <1>11, <2>1, <2>2, Untouched DEF HostHello, TypeOK
<1>12. ASSUME NEW c \in Conn, HostOutput(c)
       PROVE  TypeOK'
    <2> DEFINE msgs == Append(batch[c], Head(r2h[c]))
    <2>1. msgs \in Seq(Env)
        <3>1. Head(r2h[c]) \in Env
            BY <1>12, EnvFacts DEF HostOutput, LinkTypeOK
        <3> QED
            BY <3>1 DEF HostTypeOK
    <2>2. /\ r2h' = [r2h EXCEPT ![c] = Tail(@)] /\ r2h[c] # <<>>
          /\ \/ Persist(msgs) /\ Acknowledge(c, msgs) /\ batch' = [batch EXCEPT ![c] = <<>>]
             \/ batch' = [batch EXCEPT ![c] = msgs] /\ UNCHANGED <<storeVars, h2r>>
          /\ UNCHANGED <<runnerVars, spoolVars, cur, phase, hostEnd, closing, active, drops>>
        BY <1>12 DEF HostOutput
    <2> HIDE DEF msgs
    <2>3. h2r' \in [Conn -> Seq(Nat)]
        BY <2>1, <2>2, AcknowledgeType DEF LinkTypeOK
    <2>4. LinkTypeOK'
        <3>1. r2h' \in [Conn -> Seq(Env \cup {Hello})]
            BY <2>2 DEF LinkTypeOK
        <3>2. UNCHANGED <<cur, phase>>
            BY <2>2
        <3> QED
            BY <3>1, <3>2, <2>3 DEF LinkTypeOK
    <2>5. HostTypeOK'
        <3>1. batch' \in [Conn -> Seq(Env)]
            <4>1. <<>> \in Seq(Env)
                OBVIOUS
            <4> QED
                BY <4>1, <2>1, <2>2 DEF HostTypeOK
        <3>2. UNCHANGED <<hostEnd, closing, active>>
            BY <2>2
        <3> QED
            BY <3>1, <3>2 DEF HostTypeOK
    <2>6. StoreTypeOK'
        BY <2>1, <2>2, PersistType DEF StoreTypeOK
    <2> QED
        BY <2>2, <2>4, <2>5, <2>6, Untouched DEF TypeOK
<1>13. ASSUME NEW c \in Conn, HostEvent(c)
       PROVE  TypeOK'
    <2> DEFINE msgs == Append(batch[c], Head(r2h[c]))
    <2>1. msgs \in Seq(Env)
        <3>1. Head(r2h[c]) \in Env
            BY <1>13 DEF HostEvent, LinkTypeOK
        <3> QED
            BY <3>1 DEF HostTypeOK
    <2>2. /\ r2h' = [r2h EXCEPT ![c] = Tail(@)] /\ r2h[c] # <<>>
          /\ Persist(msgs) /\ Acknowledge(c, msgs) /\ batch' = [batch EXCEPT ![c] = <<>>]
          /\ UNCHANGED <<runnerVars, spoolVars, cur, phase, hostEnd, closing, active, drops>>
        BY <1>13 DEF HostEvent
    <2> HIDE DEF msgs
    <2>3. h2r' \in [Conn -> Seq(Nat)]
        BY <2>1, <2>2, AcknowledgeType DEF LinkTypeOK
    <2>4. LinkTypeOK' /\ HostTypeOK'
        <3>1. r2h' \in [Conn -> Seq(Env \cup {Hello})]
            BY <2>2 DEF LinkTypeOK
        <3>2. batch' \in [Conn -> Seq(Env)]
            BY <2>2 DEF HostTypeOK
        <3>3. UNCHANGED <<cur, phase, hostEnd, closing, active>>
            BY <2>2
        <3> QED
            BY <3>1, <3>2, <3>3, <2>3 DEF LinkTypeOK, HostTypeOK
    <2>5. StoreTypeOK'
        BY <2>1, <2>2, PersistType DEF StoreTypeOK
    <2> QED
        BY <2>2, <2>4, <2>5, Untouched DEF TypeOK
<1>14. ASSUME NEW c \in Conn, HostFlush(c)
       PROVE  TypeOK'
    <2>1. batch[c] \in Seq(Env)
        BY DEF HostTypeOK
    <2>2. /\ Persist(batch[c]) /\ Acknowledge(c, batch[c])
          /\ batch' = [batch EXCEPT ![c] = <<>>]
          /\ UNCHANGED <<runnerVars, spoolVars, cur, phase, r2h, hostEnd, closing, active, drops>>
        BY <1>14 DEF HostFlush
    <2>3. h2r' \in [Conn -> Seq(Nat)]
        BY <2>1, <2>2, AcknowledgeType DEF LinkTypeOK
    <2>4. LinkTypeOK' /\ HostTypeOK'
        <3>1. batch' \in [Conn -> Seq(Env)]
            BY <2>2 DEF HostTypeOK
        <3>2. UNCHANGED <<cur, phase, r2h, hostEnd, closing, active>>
            BY <2>2
        <3> QED
            BY <3>1, <3>2, <2>3 DEF LinkTypeOK, HostTypeOK
    <2>5. StoreTypeOK'
        BY <2>1, <2>2, PersistType DEF StoreTypeOK
    <2> QED
        BY <2>2, <2>4, <2>5, Untouched DEF TypeOK
<1>15. ASSUME NEW c \in Conn, HostConnClosed(c)
       PROVE  TypeOK'
    <2>1. batch[c] \in Seq(Env)
        BY DEF HostTypeOK
    <2>2. LinkTypeOK' /\ HostTypeOK'
        BY <1>15 DEF HostConnClosed, LinkTypeOK, HostTypeOK
    <2>3. StoreTypeOK'
        BY <1>15, <2>1, PersistType DEF HostConnClosed, StoreTypeOK
    <2> QED
        BY <1>15, <2>2, <2>3, Untouched DEF HostConnClosed, TypeOK
<1>16. ASSUME NEW c \in Conn, HostDiesMidAppend(c)
       PROVE  TypeOK'
    <2> DEFINE msgs == Append(batch[c], Head(r2h[c]))
    <2>1. msgs \in Seq(Env)
        <3>1. Head(r2h[c]) \in Env
            BY <1>16 DEF HostDiesMidAppend, LinkTypeOK
        <3> QED
            BY <3>1 DEF HostTypeOK
    <2>2. /\ Len(msgs) \in Fresh(msgs, {})
          /\ rows' = rows \cup NewRows(msgs, Fresh(msgs, {}))
          /\ lastSeq' = lastSeq + Cardinality(Fresh(msgs, {})) - 1
          /\ drops' = drops + 1
          /\ LinkTypeOK' /\ HostTypeOK'
          /\ UNCHANGED <<runnerVars, spoolVars>>
        BY <1>16 DEF HostDiesMidAppend, HostGone, LinkTypeOK, HostTypeOK
    <2> HIDE DEF msgs
    <2>3. Fresh(msgs, {}) \in SUBSET (1..Len(msgs))
        BY <2>1 DEF Fresh
    <2>4. StoreTypeOK'
        BY <2>1, <2>2, <2>3, NewRowsFacts DEF StoreTypeOK
    <2> QED
        BY <2>2, <2>4, Untouched DEF TypeOK
<1>17. CASE HostDisconnect
    <2>1. HostTypeOK' /\ StoreTypeOK'
        BY <1>17 DEF HostDisconnect, HostTypeOK, StoreTypeOK
    <2> QED
        BY <1>17, <2>1, Untouched DEF HostDisconnect, TypeOK
<1>18. CASE HostRestart
    <2>1. LinkTypeOK' /\ HostTypeOK' /\ StoreTypeOK'
        BY <1>18 DEF HostRestart, HostGone, LinkTypeOK, HostTypeOK, StoreTypeOK
    <2> QED
        BY <1>18, <2>1, Untouched DEF HostRestart, HostGone, TypeOK
<1>19. CASE UNCHANGED vars
    BY <1>19, Untouched DEF vars, TypeOK
<1> QED
    BY <1>2, <1>3, <1>4, <1>5, <1>6, <1>7, <1>8, <1>9, <1>10, <1>11, <1>12,
       <1>13, <1>14, <1>15, <1>16, <1>17, <1>18, <1>19 DEF Next

\* Every variable keeps its type, in every instance and under every fault.
THEOREM TypeCorrect == Spec => []TypeOK
BY TypeInit, TypeStep, PTL DEF Spec

-----------------------------------------------------------------------------
(* The numbers of the rows.                                                *)

\* Rows are numbered up to last_seq: new rows get numbers above it.
SeqInv == UniqueSeq /\ \A r \in rows : r.seq <= lastSeq

\* A new row counts the fresh messages up to its own.
LEMMA BelowGrows ==
    ASSUME NEW n \in Nat, NEW F \in SUBSET (1..n)
    PROVE  /\ \A i \in F : /\ Cardinality({j \in F : j <= i}) \in Nat \ {0}
                           /\ Cardinality({j \in F : j <= i}) <= Cardinality(F)
           /\ \A i, k \in F : i < k => Cardinality({j \in F : j <= i}) < Cardinality({j \in F : j <= k})
<1> DEFINE below(i) == {j \in F : j <= i}
<1>1. IsFiniteSet(F) /\ F \in SUBSET Nat
    <2>1. IsFiniteSet(1..n)
        BY FS_Interval
    <2>2. F \in SUBSET Nat
        OBVIOUS
    <2> QED
        BY <2>1, <2>2, FS_Subset
<1>2. ASSUME NEW i \in F
      PROVE  /\ IsFiniteSet(below(i)) /\ Cardinality(below(i)) \in Nat \ {0}
             /\ Cardinality(below(i)) <= Cardinality(F)
    <2>1. below(i) \in SUBSET F /\ i \in below(i)
        BY <1>1
    <2> HIDE DEF below
    <2> QED
        BY <1>1, <2>1, FS_Subset, FS_CardinalityType, FS_EmptySet
<1>3. ASSUME NEW i \in F, NEW k \in F, i < k
      PROVE  Cardinality(below(i)) < Cardinality(below(k))
    <2>1. below(i) \in SUBSET below(k) /\ k \in below(k) /\ k \notin below(i)
        <3>1. i \in Nat /\ k \in Nat /\ \A j \in F : j \in Nat
            BY <1>1
        <3>2. \A j \in F : j <= i => j <= k
            BY <1>3, <3>1
        <3>3. k <= k /\ ~(k <= i)
            BY <1>3, <3>1
        <3>4. \A j \in below(i) : j \in below(k)
            BY <3>2, Zenon
        <3> QED
            BY <3>3, <3>4, Zenon
    <2>2. Cardinality(below(i)) \in Nat /\ Cardinality(below(k)) \in Nat /\ IsFiniteSet(below(k))
        BY <1>2
    <2> HIDE DEF below
    <2>3. /\ Cardinality(below(i)) <= Cardinality(below(k))
          /\ Cardinality(below(k)) = Cardinality(below(i)) => below(k) = below(i)
        BY <2>1, <2>2, FS_Subset
    <2> QED
        BY <2>1, <2>2, <2>3
<1> QED
    BY <1>2, <1>3

\* New rows have numbers of their own, up to the new last_seq.
LEMMA NewRowsSeqs ==
    ASSUME lastSeq \in Nat, NEW msgs \in Seq(Env), NEW F \in SUBSET (1..Len(msgs))
    PROVE  /\ \A r \in NewRows(msgs, F) : lastSeq < r.seq /\ r.seq <= lastSeq + Cardinality(F)
           /\ \A q, r \in NewRows(msgs, F) : q.seq = r.seq => q = r
<1> DEFINE below(i) == {j \in F : j <= i}
           row(i)   == [ev |-> msgs[i].ev, seq |-> lastSeq + Cardinality(below(i))]
<1>1. Len(msgs) \in Nat /\ Cardinality(F) \in Nat /\ F \in SUBSET Nat
    BY NewRowsFacts
<1>2. \A i \in F : Cardinality(below(i)) \in Nat \ {0} /\ Cardinality(below(i)) <= Cardinality(F)
    BY <1>1, BelowGrows
<1>3. \A i, k \in F : i < k => Cardinality(below(i)) < Cardinality(below(k))
    BY <1>1, BelowGrows
<1>4. NewRows(msgs, F) = {row(i) : i \in F}
    BY DEF NewRows
<1>5. \A i \in F : row(i).seq = lastSeq + Cardinality(below(i))
    OBVIOUS
<1>6. ASSUME NEW i \in F, NEW k \in F, row(i).seq = row(k).seq
      PROVE  i = k
    <2>1. Cardinality(below(i)) \in Nat /\ Cardinality(below(k)) \in Nat
        BY <1>2
    <2>2. Cardinality(below(i)) = Cardinality(below(k))
        BY <1>5, <1>6, <2>1
    <2> HIDE DEF below
    <2>3. ~(i < k) /\ ~(k < i)
        BY <1>3, <2>1, <2>2
    <2> QED
        BY <1>1, <2>3
<1> HIDE DEF row, below
<1>7. \A r \in NewRows(msgs, F) : lastSeq < r.seq /\ r.seq <= lastSeq + Cardinality(F)
    BY <1>1, <1>2, <1>4, <1>5
<1>8. \A q, r \in NewRows(msgs, F) : q.seq = r.seq => q = r
    BY <1>4, <1>6
<1> QED
    BY <1>7, <1>8

LEMMA PersistNumbers ==
    ASSUME TypeOK, SeqInv, NEW msgs \in Seq(Env), Persist(msgs)
    PROVE  SeqInv'
<1>1. rows \subseteq Row /\ lastSeq \in Nat
    BY DEF TypeOK, StoreTypeOK
<1>2. PICK failed \in Failures(msgs) :
          /\ rows' = rows \cup NewRows(msgs, Fresh(msgs, failed))
          /\ lastSeq' = lastSeq + Cardinality(Fresh(msgs, failed))
    BY DEF Persist
<1> DEFINE F == Fresh(msgs, failed)
<1>3. F \in SUBSET (1..Len(msgs))
    BY DEF Fresh
<1> HIDE DEF F
<1>4. /\ \A r \in NewRows(msgs, F) : lastSeq < r.seq /\ r.seq <= lastSeq + Cardinality(F)
      /\ \A q, r \in NewRows(msgs, F) : q.seq = r.seq => q = r
      /\ Cardinality(F) \in Nat /\ NewRows(msgs, F) \subseteq Row
    BY <1>1, <1>3, NewRowsSeqs, NewRowsFacts
<1>5. rows' = rows \cup NewRows(msgs, F) /\ lastSeq' = lastSeq + Cardinality(F)
    BY <1>2 DEF F
<1>6. \A r \in rows \cup NewRows(msgs, F) : r.seq \in Nat
    BY <1>1, <1>4 DEF Row
<1>7. \A r \in rows' : r.seq <= lastSeq'
    BY <1>1, <1>4, <1>5, <1>6 DEF SeqInv
<1>8. UniqueSeq'
    <2> SUFFICES ASSUME NEW q \in rows', NEW r \in rows', q.seq = r.seq
                 PROVE  q = r
        BY DEF UniqueSeq
    <2>1. CASE q \in rows /\ r \in rows
        BY <2>1 DEF SeqInv, UniqueSeq
    <2>2. CASE q \in NewRows(msgs, F) /\ r \in NewRows(msgs, F)
        BY <1>4, <2>2
    <2>3. CASE q \in rows /\ r \in NewRows(msgs, F)
        BY <1>1, <1>4, <1>6, <2>3 DEF SeqInv
    <2>4. CASE r \in rows /\ q \in NewRows(msgs, F)
        BY <1>1, <1>4, <1>6, <2>4 DEF SeqInv
    <2> QED
        BY <1>5, <2>1, <2>2, <2>3, <2>4
<1> QED
    BY <1>7, <1>8 DEF SeqInv

LEMMA SeqStep ==
    ASSUME "midAppend" \notin Faults, TypeOK, SeqInv, [Next]_vars
    PROVE  SeqInv'
<1>1. /\ batch \in [Conn -> Seq(Env)] /\ r2h \in [Conn -> Seq(Env \cup {Hello})]
    BY DEF TypeOK, HostTypeOK, LinkTypeOK
<1>2. ASSUME UNCHANGED storeVars
      PROVE  SeqInv'
    BY <1>2 DEF storeVars, SeqInv, UniqueSeq
<1>3. ASSUME NEW c \in Conn, HostOutput(c) \/ HostEvent(c)
      PROVE  SeqInv'
    <2>1. Head(r2h[c]) \in Env
        BY <1>1, <1>3, EnvFacts DEF HostOutput, HostEvent
    <2>2. Append(batch[c], Head(r2h[c])) \in Seq(Env)
        BY <1>1, <2>1, AppendType
    <2>3. Persist(Append(batch[c], Head(r2h[c]))) \/ UNCHANGED storeVars
        BY <1>3 DEF HostOutput, HostEvent
    <2> QED
        BY <1>2, <2>2, <2>3, PersistNumbers
<1>4. ASSUME NEW c \in Conn, HostFlush(c) \/ HostConnClosed(c)
      PROVE  SeqInv'
    <2>1. batch[c] \in Seq(Env) /\ Persist(batch[c])
        BY <1>1, <1>4 DEF HostFlush, HostConnClosed
    <2> QED
        BY <2>1, PersistNumbers
<1>5. CASE \/ RunnerStart \/ RunnerCrash \/ (\E out \in BOOLEAN : RunnerEmit(out))
           \/ SpoolAppend \/ SpoolSaveAck \/ RunnerHello \/ RunnerAck \/ RunnerConnClosed
           \/ HostDisconnect \/ HostRestart \/ UNCHANGED vars
    BY <1>2, <1>5 DEF RunnerStart, RunnerCrash, RunnerEmit, SpoolAppend, SpoolSaveAck, RunnerHello,
       RunnerAck, RunnerConnClosed, HostDisconnect, HostRestart, vars
<1>6. ASSUME NEW c \in Conn, RunnerConnect(c) \/ HostHello(c)
      PROVE  SeqInv'
    BY <1>2, <1>6 DEF RunnerConnect, HostHello
<1>7. \A c \in Conn : ~HostDiesMidAppend(c)
    BY DEF HostDiesMidAppend
<1> QED
    BY <1>3, <1>4, <1>5, <1>6, <1>7 DEF Next

\* As long as the host does not die between the two statements of Store.appendEvent,
\* no two events of a session share a seq, whatever is resent, batched or rejected.
THEOREM NumbersUnique == "midAppend" \notin Faults => (Spec => []UniqueSeq)
<1> SUFFICES ASSUME "midAppend" \notin Faults PROVE Spec => []UniqueSeq
    OBVIOUS
<1>1. Init => SeqInv
    BY DEF Init, SeqInv, UniqueSeq
<1>2. TypeOK /\ SeqInv /\ [Next]_vars => SeqInv'
    BY SeqStep
<1>3. SeqInv => UniqueSeq
    BY DEF SeqInv
<1> QED
    BY <1>1, <1>2, <1>3, TypeCorrect, PTL DEF Spec

-----------------------------------------------------------------------------
(* Sequences.                                                              *)

LEMMA TailFacts ==
    ASSUME NEW S, NEW seq \in Seq(S), seq # <<>>
    PROVE  /\ Len(seq) \in Nat \ {0} /\ Head(seq) = seq[1] /\ seq[1] \in S
           /\ Tail(seq) \in Seq(S) /\ Len(Tail(seq)) = Len(seq) - 1
           /\ \A i \in 1..(Len(seq) - 1) : Tail(seq)[i] = seq[i + 1]
OBVIOUS

LEMMA AppendFacts ==
    ASSUME NEW S, NEW seq \in Seq(S), NEW x \in S
    PROVE  /\ Len(seq) \in Nat /\ Append(seq, x) \in Seq(S)
           /\ Len(Append(seq, x)) = Len(seq) + 1
           /\ Append(seq, x)[Len(seq) + 1] = x
           /\ \A i \in 1..Len(seq) : Append(seq, x)[i] = seq[i]
OBVIOUS

LEMMA ConcatFacts ==
    ASSUME NEW S, NEW seq \in Seq(S), NEW tseq \in Seq(S)
    PROVE  /\ Len(seq) \in Nat /\ Len(tseq) \in Nat /\ seq \o tseq \in Seq(S)
           /\ Len(seq \o tseq) = Len(seq) + Len(tseq)
           /\ \A i \in 1..Len(seq) : (seq \o tseq)[i] = seq[i]
           /\ \A i \in 1..Len(tseq) : (seq \o tseq)[Len(seq) + i] = tseq[i]
OBVIOUS

LEMMA ConcatOne ==
    ASSUME NEW S, NEW seq \in Seq(S), NEW x \in S
    PROVE  /\ Len(seq) \in Nat /\ Len(seq \o <<x>>) = Len(seq) + 1
           /\ (seq \o <<x>>)[Len(seq) + 1] = x
           /\ \A i \in 1..Len(seq) : (seq \o <<x>>)[i] = seq[i]
OBVIOUS

-----------------------------------------------------------------------------
(* What a step of the host leaves alone.                                   *)

\* The runner's side of the invariant depends on the table only through
\* Recorded, and survives when Recorded grows.
LEMMA RunnerSideKept ==
    ASSUME ProcessInv, PendingInv, SpoolInv, NoLossWhileUp, SpoolSurvives,
           UNCHANGED <<runnerVars, spoolVars, cur, phase>>, Recorded \subseteq Recorded'
    PROVE  ProcessInv' /\ PendingInv' /\ SpoolInv' /\ NoLossWhileUp' /\ SpoolSurvives'
<1> USE DEF runnerVars, spoolVars
<1>1. ProcessInv'
    BY DEF ProcessInv
<1>2. PendingInv'
    BY DEF PendingInv
<1>3. SpoolInv'
    <2>1. Spooled' = Spooled
        BY DEF Spooled
    <2> QED
        BY <2>1 DEF SpoolInv
<1>4. NoLossWhileUp'
    BY DEF NoLossWhileUp
<1>5. SpoolSurvives'
    BY DEF SpoolSurvives
<1> QED
    BY <1>1, <1>2, <1>3, <1>4, <1>5

\* A stream that a step does not touch stays in order: pending may shrink and
\* Recorded may grow.
LEMMA StreamKept ==
    ASSUME NEW c, StreamOf(c), Recorded \subseteq Recorded', pending' \subseteq pending,
           UNCHANGED <<phase, sendSeq>>,
           r2h'[c] = r2h[c], h2r'[c] = h2r[c], batch'[c] = batch[c], hostEnd'[c] = hostEnd[c]
    PROVE  StreamOf(c)'
<1>1. \A i : Ready(c, i)' <=> Ready(c, i)
    BY DEF Ready
<1>2. \A e, i : (InBatch(c, e, i)' <=> InBatch(c, e, i)) /\ (InQueue(c, e, i)' <=> InQueue(c, e, i))
    BY <1>1 DEF InBatch, InQueue
<1>3. \A e, i : Ahead(c, e, i) => Ahead(c, e, i)'
    BY <1>2 DEF Ahead
<1>4. OpenInv(c)' /\ QueueInv(c)'
    BY <1>1, <1>3 DEF StreamOf, OpenInv, QueueInv
<1>5. BatchInv(c)'
    BY DEF StreamOf, BatchInv, InOrder
<1>6. FlowInv(c)' /\ AckInv(c)'
    BY <1>1, <1>3 DEF StreamOf, FlowInv, AckInv
<1> QED
    BY <1>4, <1>5, <1>6 DEF StreamOf

-----------------------------------------------------------------------------
(* The host takes the first message of a connection.                       *)

LEMMA RecordedGrows == rows \subseteq rows' => Recorded \subseteq Recorded'
BY DEF Recorded

\* The messages behind the first one move up.  What was ahead of them stays
\* ahead, if the first message and the batch went into the batch or the table.
LEMMA MovesUp ==
    ASSUME TypeOK, NEW c \in Conn, QueueInv(c), FlowInv(c),
           r2h[c] # <<>>, r2h'[c] = Tail(r2h[c]),
           UNCHANGED <<pending, sendSeq>>, Recorded \subseteq Recorded',
           \A i \in 1..Len(r2h[c]) : Ready(c, i)' => Ready(c, i + 1),
           \A j \in 2..Len(r2h[c]) : Ready(c, j) => Ready(c, j - 1)',
           \A p \in pending :
              InBatch(c, p, Len(batch[c]) + 1) \/ (Ready(c, 1) /\ r2h[c][1] = p) =>
                 p.ev \in Recorded' \/ InBatch(c, p, Len(batch[c]) + 1)'
    PROVE  QueueInv(c)' /\ FlowInv(c)'
<1> DEFINE q == r2h[c]
<1>1. PICK n \in Nat \ {0} :
          /\ n = Len(q) /\ Len(r2h'[c]) = n - 1
          /\ \A i \in 1..(n - 1) : r2h'[c][i] = q[i + 1]
    BY TailFacts DEF TypeOK, LinkTypeOK
<1>2. ASSUME NEW p \in pending, NEW i \in 1..n, Ahead(c, p, i + 1)
      PROVE  Ahead(c, p, i)'
    <2>1. CASE p.ev \in Recorded
        BY <2>1 DEF Ahead
    <2>2. CASE InBatch(c, p, Len(batch[c]) + 1)
        BY <2>2 DEF Ahead
    <2>3. CASE InQueue(c, p, i + 1)
        <3>1. PICK j \in 1..i : Ready(c, j) /\ q[j] = p
            BY <2>3 DEF InQueue
        <3>2. CASE j = 1
            BY <3>1, <3>2 DEF Ahead
        <3>3. CASE j # 1
            <4>1. j \in 2..n /\ j - 1 \in 1..(i - 1) /\ j - 1 \in 1..(n - 1)
                BY <3>1, <3>3, <1>1
            <4>2. Ready(c, j - 1)'
                BY <4>1, <3>1, <1>1
            <4>3. r2h'[c][j - 1] = p
                BY <4>1, <1>1, <3>1
            <4> QED
                BY <4>1, <4>2, <4>3 DEF Ahead, InQueue
        <3> QED
            BY <3>2, <3>3
    <2> QED
        BY <1>2, <2>1, <2>2, <2>3 DEF Ahead
<1>3. QueueInv(c)'
    <2> SUFFICES ASSUME NEW i \in 1..(n - 1), Ready(c, i)', q[i + 1] # Hello
                 PROVE  /\ q[i + 1].seq <= sendSeq
                        /\ \A p \in pending : p.seq = q[i + 1].seq => p = q[i + 1]
                        /\ \A p \in pending : p.seq < q[i + 1].seq => Ahead(c, p, i)'
        BY <1>1 DEF QueueInv
    <2>1. i \in 1..n /\ i + 1 \in 1..n /\ Ready(c, i + 1)
        BY <1>1
    <2> QED
        BY <2>1, <1>1, <1>2 DEF QueueInv
<1>4. FlowInv(c)'
    <2> SUFFICES ASSUME Ready(c, n)', NEW p \in pending
                 PROVE  Ahead(c, p, n)'
        BY <1>1 DEF FlowInv
    <2>1. n \in 1..n /\ n \in 1..Len(r2h[c]) /\ Ready(c, n + 1)
        BY <1>1
    <2> QED
        BY <2>1, <1>1, <1>2 DEF FlowInv
<1> QED
    BY <1>3, <1>4

\* Messages in order are stored and acknowledged.
LEMMA Acknowledged ==
    ASSUME TypeOK, NEW c \in Conn, AckInv(c), NEW msgs \in Seq(Env), InOrder(msgs),
           Acknowledge(c, msgs), UNCHANGED <<pending, sendSeq>>,
           Recorded' = Recorded \cup {msgs[i].ev : i \in 1..Len(msgs)}
    PROVE  AckInv(c)'
<1> DEFINE acks == [i \in DOMAIN msgs |-> msgs[i].seq]
<1>1. acks \in Seq(Nat) /\ Len(acks) = Len(msgs) /\ \A i \in 1..Len(msgs) : acks[i] = msgs[i].seq
    <2>1. \A i \in 1..Len(msgs) : msgs[i] \in Env
        OBVIOUS
    <2>2. \A i \in 1..Len(msgs) : msgs[i].seq \in Nat
        BY <2>1, EnvFacts
    <2> QED
        BY <2>2
<1>2. h2r[c] \in Seq(Nat)
    BY DEF TypeOK, LinkTypeOK
<1>3. h2r'[c] = h2r[c] \/ h2r'[c] = h2r[c] \o acks
    BY DEF Acknowledge, TypeOK, LinkTypeOK
<1> HIDE DEF acks
<1>4. ASSUME NEW i \in 1..Len(msgs)
      PROVE  acks[i] <= sendSeq /\ \A p \in pending : p.seq <= acks[i] => p.ev \in Recorded'
    <2>1. acks[i] = msgs[i].seq /\ msgs[i].seq <= sendSeq
        BY <1>1 DEF InOrder
    <2> SUFFICES ASSUME NEW p \in pending, p.seq <= msgs[i].seq
                 PROVE  p.ev \in Recorded'
        BY <2>1
    <2>2. p.seq \in Nat /\ msgs[i].seq \in Nat
        <3>1. p \in Env /\ msgs[i] \in Env
            BY DEF TypeOK, RunnerTypeOK
        <3> QED
            BY <3>1, EnvFacts
    <2>3. CASE p.seq = msgs[i].seq
        BY <2>3 DEF InOrder
    <2>4. CASE p.seq < msgs[i].seq
        <3>1. p.ev \in Recorded \/ \E k \in 1..(i - 1) : msgs[k] = p
            BY <2>4 DEF InOrder
        <3>2. \A k \in 1..(i - 1) : k \in 1..Len(msgs)
            OBVIOUS
        <3> QED
            BY <3>1, <3>2
    <2> QED
        BY <2>2, <2>3, <2>4
<1>5. CASE h2r'[c] = h2r[c]
    BY <1>5 DEF AckInv
<1>6. CASE h2r'[c] = h2r[c] \o acks
    <2>1. /\ Len(h2r'[c]) = Len(h2r[c]) + Len(msgs) /\ Len(h2r[c]) \in Nat /\ Len(msgs) \in Nat
          /\ \A i \in 1..Len(h2r[c]) : h2r'[c][i] = h2r[c][i]
          /\ \A i \in 1..Len(msgs) : h2r'[c][Len(h2r[c]) + i] = acks[i]
        <3>1. ASSUME NEW old \in Seq(Nat), NEW new \in Seq(Nat)
              PROVE  /\ Len(old \o new) = Len(old) + Len(new)
                     /\ Len(old) \in Nat /\ Len(new) \in Nat
                     /\ \A i \in 1..Len(old) : (old \o new)[i] = old[i]
                     /\ \A i \in 1..Len(new) : (old \o new)[Len(old) + i] = new[i]
            BY ConcatFacts
        <3>2. acks \in Seq(Nat)
            BY <1>1
        <3>3. /\ Len(h2r[c] \o acks) = Len(h2r[c]) + Len(acks)
              /\ Len(h2r[c]) \in Nat /\ Len(acks) \in Nat
              /\ \A i \in 1..Len(h2r[c]) : (h2r[c] \o acks)[i] = h2r[c][i]
              /\ \A i \in 1..Len(acks) : (h2r[c] \o acks)[Len(h2r[c]) + i] = acks[i]
            BY <3>1, <3>2, <1>2, Zenon
        <3>4. Len(acks) = Len(msgs)
            BY <1>1
        <3> QED
            BY <3>3, <3>4, <1>6
    <2> SUFFICES ASSUME NEW i \in 1..Len(h2r'[c])
                 PROVE  /\ h2r'[c][i] <= sendSeq
                        /\ \A p \in pending : p.seq <= h2r'[c][i] => p.ev \in Recorded'
        BY DEF AckInv
    <2>2. CASE i \in 1..Len(h2r[c])
        BY <2>1, <2>2 DEF AckInv
    <2>3. CASE i \notin 1..Len(h2r[c])
        <3>1. PICK k \in 1..Len(msgs) : i = Len(h2r[c]) + k
            <4>1. i - Len(h2r[c]) \in 1..Len(msgs) /\ i = Len(h2r[c]) + (i - Len(h2r[c]))
                BY <2>1, <2>3
            <4> QED
                BY <4>1
        <3> QED
            BY <3>1, <2>1, <1>4
    <2> QED
        BY <2>2, <2>3
<1> QED
    BY <1>3, <1>5, <1>6

-----------------------------------------------------------------------------
(* The steps of the host.                                                  *)

\* The parts of the state that the steps of the host leave alone.
LEMMA OtherStream ==
    ASSUME StreamInv, NEW c \in Conn, cur # c, Recorded \subseteq Recorded', TypeOK,
           UNCHANGED <<pending, sendSeq, cur, phase>>,
           \A d \in Conn \ {c} : /\ r2h'[d] = r2h[d] /\ h2r'[d] = h2r[d]
                                 /\ batch'[d] = batch[d] /\ hostEnd'[d] = hostEnd[d]
    PROVE  StreamInv'
<1> SUFFICES ASSUME cur # NoConn PROVE StreamOf(cur)'
    BY DEF StreamInv
<1>1. cur \in Conn \ {c} /\ StreamOf(cur)
    BY DEF StreamInv, TypeOK, LinkTypeOK
<1>2. ASSUME NEW d \in Conn \ {c}, StreamOf(d)
      PROVE  StreamOf(d)'
    BY <1>2, StreamKept
<1>3. PICK d \in Conn \ {c} : d = cur
    BY <1>1
<1>4. StreamOf(d)'
    BY <1>1, <1>2, <1>3
<1> QED
    BY <1>3, <1>4

LEMMA CurrentStream ==
    ASSUME NEW c, UNCHANGED cur, cur = c, StreamOf(c)'
    PROVE  StreamInv'
<1>1. StreamOf(cur)'
    BY Zenon
<1> QED
    BY <1>1 DEF StreamInv

\* The first message of an accepted connection is in order behind its batch.
LEMMA InOrderAppend ==
    ASSUME TypeOK, NEW c \in Conn, BatchInv(c), QueueInv(c),
           hostEnd[c] = "authed", r2h[c] # <<>>, Head(r2h[c]) # Hello
    PROVE  InOrder(Append(batch[c], Head(r2h[c])))
<1> DEFINE m == Head(r2h[c])
           msgs == Append(batch[c], m)
<1>1. batch[c] \in Seq(Env) /\ r2h[c] \in Seq(Env \cup {Hello})
    BY DEF TypeOK, HostTypeOK, LinkTypeOK
<1>2. m = r2h[c][1] /\ 1 \in 1..Len(r2h[c]) /\ m \in Env
    <2>1. Len(r2h[c]) \in Nat \ {0} /\ m = r2h[c][1] /\ m \in Env \cup {Hello}
        BY <1>1, TailFacts
    <2> QED
        BY <2>1
<1> HIDE DEF m
<1>3. /\ Len(batch[c]) \in Nat /\ Len(msgs) = Len(batch[c]) + 1
      /\ msgs[Len(batch[c]) + 1] = m
      /\ \A i \in 1..Len(batch[c]) : msgs[i] = batch[c][i]
    BY <1>1, <1>2, AppendFacts
<1> HIDE DEF msgs
<1>4. /\ m.seq <= sendSeq
      /\ \A p \in pending : p.seq = m.seq => p = m
      /\ \A p \in pending : p.seq < m.seq => Ahead(c, p, 1)
    BY <1>2 DEF QueueInv, Ready, m
<1> SUFFICES ASSUME NEW k \in 1..Len(msgs)
             PROVE  /\ msgs[k].seq <= sendSeq
                    /\ \A p \in pending : p.seq = msgs[k].seq => p = msgs[k]
                    /\ \A p \in pending : p.seq < msgs[k].seq =>
                          p.ev \in Recorded \/ \E i \in 1..(k - 1) : msgs[i] = p
    BY DEF InOrder, msgs, m
<1>5. CASE k \in 1..Len(batch[c])
    <2>1. msgs[k] = batch[c][k] /\ \A i \in 1..(k - 1) : msgs[i] = batch[c][i]
        BY <1>3, <1>5
    <2> QED
        BY <2>1, <1>5 DEF BatchInv, InOrder
<1>6. CASE k = Len(batch[c]) + 1
    <2>1. msgs[k] = m
        BY <1>3, <1>6
    <2>2. ASSUME NEW p \in pending, p.seq < m.seq
          PROVE  p.ev \in Recorded \/ \E i \in 1..(k - 1) : msgs[i] = p
        <3>1. Ahead(c, p, 1)
            BY <1>4, <2>2
        <3>2. p.ev \in Recorded \/ \E i \in 1..Len(batch[c]) : batch[c][i] = p
            BY <3>1, <1>3 DEF Ahead, InBatch, InQueue
        <3> QED
            BY <3>2, <1>3, <1>6
    <2> QED
        BY <1>4, <2>1, <2>2
<1> QED
    BY <1>3, <1>5, <1>6

LEMMA HelloKeeps ==
    ASSUME TypeOK, HostInv, StreamInv, NEW c \in Conn, HostHello(c)
    PROVE  HostInv' /\ StreamInv'
<1>1. /\ hostEnd[c] = "fresh" /\ r2h[c] # <<>> /\ r2h' = [r2h EXCEPT ![c] = Tail(@)]
      /\ UNCHANGED <<pending, sendSeq, cur, phase, h2r, batch, rows>>
      /\ IF Head(r2h[c]) = Hello THEN hostEnd' = [hostEnd EXCEPT ![c] = "authed"]
                                 ELSE UNCHANGED hostEnd
    BY DEF HostHello, runnerVars, storeVars
<1>2. /\ r2h \in [Conn -> Seq(Env \cup {Hello})] /\ batch \in [Conn -> Seq(Env)]
      /\ hostEnd \in [Conn -> {"none", "fresh", "authed"}] /\ pending \subseteq Env
    BY DEF TypeOK, LinkTypeOK, HostTypeOK, RunnerTypeOK
<1>3. batch[c] = <<>> /\ r2h'[c] = Tail(r2h[c]) /\ Recorded' = Recorded
    BY <1>1, <1>2 DEF HostInv, Recorded
<1>4. HostInv'
    BY <1>1, <1>2 DEF HostInv
<1>5. CASE cur # c
    <2>1. \A d \in Conn \ {c} : /\ r2h'[d] = r2h[d] /\ h2r'[d] = h2r[d]
                                /\ batch'[d] = batch[d] /\ hostEnd'[d] = hostEnd[d]
        BY <1>1, <1>2
    <2>2. UNCHANGED <<pending, sendSeq, cur, phase>> /\ Recorded \subseteq Recorded'
        BY <1>1, <1>3
    <2> QED
        BY <1>4, <1>5, <2>1, <2>2, OtherStream
<1>6. CASE cur = c
    <2>1. StreamOf(c)
        BY <1>6, ConnAssumption DEF StreamInv
    <2>2. /\ Len(r2h[c]) \in Nat \ {0} /\ Head(r2h[c]) = r2h[c][1]
          /\ Len(r2h'[c]) = Len(r2h[c]) - 1
          /\ \A i \in 1..(Len(r2h[c]) - 1) : r2h'[c][i] = r2h[c][i + 1]
        BY <1>1, <1>2, <1>3, TailFacts
    <2>3. \A i \in 1..Len(r2h[c]) : Ready(c, i)' => Ready(c, i + 1)
        <3>1. CASE r2h[c][1] = Hello
            BY <2>2, <3>1 DEF Ready
        <3>2. CASE r2h[c][1] # Hello
            <4>1. hostEnd'[c] = "fresh"
                BY <1>1, <1>2, <2>2, <3>2
            <4> QED
                BY <4>1, <2>2 DEF Ready
        <3> QED
            BY <3>1, <3>2
    <2>4. \A j \in 2..Len(r2h[c]) : Ready(c, j) => Ready(c, j - 1)'
        <3>1. CASE r2h[c][1] = Hello
            <4>1. hostEnd'[c] = "authed"
                BY <1>1, <1>2, <2>2, <3>1
            <4> QED
                BY <4>1 DEF Ready
        <3>2. CASE r2h[c][1] # Hello
            <4> SUFFICES ASSUME NEW j \in 2..Len(r2h[c]), Ready(c, j)
                         PROVE  Ready(c, j - 1)'
                OBVIOUS
            <4>1. PICK h \in 1..(j - 1) : r2h[c][h] = Hello
                BY <1>1 DEF Ready
            <4>2. h - 1 \in 1..(j - 2) /\ h - 1 \in 1..(Len(r2h[c]) - 1)
                BY <3>2, <4>1, <2>2
            <4>3. r2h'[c][h - 1] = Hello
                BY <4>1, <4>2, <2>2
            <4> QED
                BY <4>2, <4>3 DEF Ready
        <3> QED
            BY <3>1, <3>2
    <2>5. ~Ready(c, 1) /\ Len(batch[c]) = 0
        BY <1>1, <1>3 DEF Ready
    <2>6. QueueInv(c)' /\ FlowInv(c)'
        <3>1. \A p \in pending : ~InBatch(c, p, Len(batch[c]) + 1)
            BY <2>5 DEF InBatch
        <3> QED
            BY <1>1, <1>3, <2>1, <2>3, <2>4, <2>5, <3>1, MovesUp DEF StreamOf
    <2>7. BatchInv(c)' /\ AckInv(c)'
        BY <1>1, <1>3, <2>1 DEF StreamOf, BatchInv, InOrder, AckInv
    <2>8. OpenInv(c)'
        BY <1>1, <2>1, <2>2 DEF StreamOf, OpenInv
    <2>9. StreamOf(c)'
        BY <2>6, <2>7, <2>8 DEF StreamOf
    <2>10. UNCHANGED cur
        BY <1>1
    <2> QED
        BY <1>4, <1>6, <2>9, <2>10, CurrentStream
<1> QED
    BY <1>4, <1>5, <1>6

\* An output joins the batch.
LEMMA QueuedKeeps ==
    ASSUME TypeOK, HostInv, StreamInv, NEW c \in Conn,
           hostEnd[c] = "authed", r2h[c] # <<>>, Head(r2h[c]) # Hello,
           r2h' = [r2h EXCEPT ![c] = Tail(@)],
           batch' = [batch EXCEPT ![c] = Append(batch[c], Head(r2h[c]))],
           UNCHANGED <<pending, sendSeq, cur, phase, hostEnd, h2r, rows>>
    PROVE  HostInv' /\ StreamInv'
<1>1. /\ r2h \in [Conn -> Seq(Env \cup {Hello})] /\ batch \in [Conn -> Seq(Env)]
      /\ pending \subseteq Env
    BY DEF TypeOK, LinkTypeOK, HostTypeOK, RunnerTypeOK
<1>2. /\ r2h'[c] = Tail(r2h[c]) /\ Recorded' = Recorded
      /\ batch'[c] = Append(batch[c], Head(r2h[c]))
    BY <1>1 DEF Recorded
<1>3. HostInv'
    BY <1>1 DEF HostInv
<1>4. CASE cur # c
    <2>1. \A d \in Conn \ {c} : /\ r2h'[d] = r2h[d] /\ h2r'[d] = h2r[d]
                                /\ batch'[d] = batch[d] /\ hostEnd'[d] = hostEnd[d]
        BY <1>1
    <2> QED
        BY <1>2, <1>3, <1>4, <2>1, OtherStream
<1>5. CASE cur = c
    <2>1. StreamOf(c)
        BY <1>5, ConnAssumption DEF StreamInv
    <2>2. \A i : Ready(c, i) /\ Ready(c, i)'
        BY DEF Ready
    <2>3. BatchInv(c)'
        <3>1. InOrder(Append(batch[c], Head(r2h[c])))
            BY <2>1, InOrderAppend DEF StreamOf
        <3> QED
            BY <1>2, <3>1 DEF BatchInv, InOrder
    <2>4. QueueInv(c)' /\ FlowInv(c)'
        <3>1. Head(r2h[c]) = r2h[c][1] /\ r2h[c][1] \in Env
            <4>1. Head(r2h[c]) = r2h[c][1] /\ r2h[c][1] \in Env \cup {Hello}
                BY <1>1, TailFacts
            <4> QED
                BY <4>1
        <3>2. /\ Len(batch[c]) \in Nat /\ Len(batch'[c]) = Len(batch[c]) + 1
              /\ batch'[c][Len(batch[c]) + 1] = r2h[c][1]
              /\ \A i \in 1..Len(batch[c]) : batch'[c][i] = batch[c][i]
            BY <1>1, <1>2, <3>1, AppendFacts
        <3>3. ASSUME NEW p \in pending,
                     InBatch(c, p, Len(batch[c]) + 1) \/ (Ready(c, 1) /\ r2h[c][1] = p)
              PROVE  InBatch(c, p, Len(batch[c]) + 1)'
            <4>1. PICK k \in 1..(Len(batch[c]) + 1) : batch'[c][k] = p
                BY <3>2, <3>3 DEF InBatch
            <4> QED
                BY <3>2, <4>1 DEF InBatch
        <3>4. Recorded \subseteq Recorded'
            BY <1>2
        <3>5. \A p \in pending :
                InBatch(c, p, Len(batch[c]) + 1) \/ (Ready(c, 1) /\ r2h[c][1] = p) =>
                   p.ev \in Recorded' \/ InBatch(c, p, Len(batch[c]) + 1)'
            BY <3>3
        <3>6. /\ \A i \in 1..Len(r2h[c]) : Ready(c, i)' => Ready(c, i + 1)
              /\ \A j \in 2..Len(r2h[c]) : Ready(c, j) => Ready(c, j - 1)'
            BY <2>2
        <3>7. QueueInv(c) /\ FlowInv(c)
            BY <2>1 DEF StreamOf
        <3> QED
            BY <1>2, <3>4, <3>5, <3>6, <3>7, MovesUp
    <2>5. AckInv(c)' /\ OpenInv(c)'
        BY <1>2, <2>1 DEF StreamOf, AckInv, OpenInv
    <2>6. StreamOf(c)'
        BY <2>3, <2>4, <2>5 DEF StreamOf
    <2> QED
        BY <1>3, <1>5, <2>6, CurrentStream
<1> QED
    BY <1>4, <1>5

\* The batch, and possibly the first message with it, is stored and
\* acknowledged.
LEMMA StoredKeeps ==
    ASSUME TypeOK, HostInv, StreamInv, NEW c \in Conn, "storeError" \notin Faults,
           NEW msgs \in Seq(Env), Persist(msgs), Acknowledge(c, msgs),
           hostEnd[c] = "authed",
           \/ r2h' = r2h /\ msgs = batch[c]
           \/ /\ r2h[c] # <<>> /\ Head(r2h[c]) # Hello
              /\ r2h' = [r2h EXCEPT ![c] = Tail(@)] /\ msgs = Append(batch[c], Head(r2h[c])),
           batch' = [batch EXCEPT ![c] = <<>>],
           UNCHANGED <<pending, sendSeq, cur, phase, hostEnd>>
    PROVE  HostInv' /\ StreamInv'
<1>1. /\ r2h \in [Conn -> Seq(Env \cup {Hello})] /\ batch \in [Conn -> Seq(Env)]
      /\ h2r \in [Conn -> Seq(Nat)] /\ pending \subseteq Env /\ lastSeq \in Nat
    BY DEF TypeOK, LinkTypeOK, HostTypeOK, RunnerTypeOK, StoreTypeOK
<1>2. Recorded' = Recorded \cup {msgs[i].ev : i \in 1..Len(msgs)}
    BY <1>1, PersistRecords
<1>3. HostInv'
    BY <1>1 DEF HostInv
<1>4. CASE cur # c
    <2>1. \A d \in Conn \ {c} : /\ r2h'[d] = r2h[d] /\ h2r'[d] = h2r[d]
                                /\ batch'[d] = batch[d] /\ hostEnd'[d] = hostEnd[d]
        BY <1>1, <1>4 DEF Acknowledge
    <2>2. Recorded \subseteq Recorded'
        BY <1>2
    <2> QED
        BY <1>3, <1>4, <2>1, <2>2, OtherStream
<1>5. CASE cur = c
    <2>1. StreamOf(c)
        BY <1>5, ConnAssumption DEF StreamInv
    <2>2. \A i : Ready(c, i) /\ Ready(c, i)'
        BY DEF Ready
    <2>3. InOrder(msgs)
        BY <2>1, InOrderAppend DEF StreamOf, BatchInv
    <2>4. AckInv(c)'
        BY <1>2, <2>1, <2>3, Acknowledged DEF StreamOf
    <2>5. BatchInv(c)' /\ OpenInv(c)'
        BY <1>1, <2>1 DEF StreamOf, BatchInv, InOrder, OpenInv
    <2>6. ASSUME NEW p \in pending, InBatch(c, p, Len(batch[c]) + 1)
          PROVE  p.ev \in Recorded'
        <3>1. \A i \in 1..Len(batch[c]) : i \in 1..Len(msgs) /\ msgs[i] = batch[c][i]
            <4>1. CASE msgs = batch[c]
                BY <4>1
            <4>2. CASE r2h[c] # <<>> /\ msgs = Append(batch[c], Head(r2h[c])) /\ Head(r2h[c]) # Hello
                <5>1. Head(r2h[c]) \in Env
                    BY <1>1, <4>2
                <5> QED
                    BY <1>1, <4>2, <5>1, AppendFacts
            <4> QED
                BY <4>1, <4>2
        <3> QED
            BY <1>2, <2>6, <3>1 DEF InBatch
    <2>7. QueueInv(c)' /\ FlowInv(c)'
        <3>1. QueueInv(c) /\ FlowInv(c)
            BY <2>1 DEF StreamOf
        <3>2. CASE r2h' = r2h
            <4>1. \A p \in pending : \A i : Ahead(c, p, i) => Ahead(c, p, i)'
                BY <1>2, <2>2, <2>6, <3>2 DEF Ahead, InQueue
            <4> QED
                BY <2>2, <3>1, <3>2, <4>1 DEF QueueInv, FlowInv
        <3>3. CASE /\ r2h[c] # <<>> /\ Head(r2h[c]) # Hello
                   /\ r2h' = [r2h EXCEPT ![c] = Tail(@)] /\ msgs = Append(batch[c], Head(r2h[c]))
            <4>1. Head(r2h[c]) = r2h[c][1] /\ r2h[c][1] \in Env
                <5>1. Head(r2h[c]) = r2h[c][1] /\ r2h[c][1] \in Env \cup {Hello}
                    BY <1>1, <3>3, TailFacts
                <5> QED
                    BY <3>3, <5>1
            <4>2. r2h[c][1].ev \in Recorded'
                <5>1. /\ Len(batch[c]) + 1 \in 1..Len(msgs)
                      /\ msgs[Len(batch[c]) + 1] = r2h[c][1]
                    BY <1>1, <3>3, <4>1, AppendFacts
                <5> QED
                    BY <1>2, <5>1
            <4>3. \A p \in pending :
                    InBatch(c, p, Len(batch[c]) + 1) \/ (Ready(c, 1) /\ r2h[c][1] = p) =>
                       p.ev \in Recorded' \/ InBatch(c, p, Len(batch[c]) + 1)'
                BY <2>6, <4>2
            <4>4. /\ \A i \in 1..Len(r2h[c]) : Ready(c, i)' => Ready(c, i + 1)
                  /\ \A j \in 2..Len(r2h[c]) : Ready(c, j) => Ready(c, j - 1)'
                BY <2>2
            <4>5. r2h'[c] = Tail(r2h[c]) /\ Recorded \subseteq Recorded'
                BY <1>1, <1>2, <3>3
            <4> QED
                BY <3>1, <3>3, <4>3, <4>4, <4>5, MovesUp
        <3> QED
            BY <3>2, <3>3
    <2>8. StreamOf(c)'
        BY <2>4, <2>5, <2>7 DEF StreamOf
    <2> QED
        BY <1>3, <1>5, <2>8, CurrentStream
<1> QED
    BY <1>4, <1>5

\* The host's end of a connection goes away, with what is in flight to it.
LEMMA GoneKeeps ==
    ASSUME TypeOK, HostInv, StreamInv, NEW C \in SUBSET Conn, Recorded \subseteq Recorded',
           \A c \in C : hostEnd'[c] = "none" /\ r2h'[c] = <<>> /\ batch'[c] = <<>>,
           \A c \in Conn \ C : /\ r2h'[c] = r2h[c]
                               /\ batch'[c] = batch[c] /\ hostEnd'[c] = hostEnd[c],
           UNCHANGED <<pending, sendSeq, cur, phase, h2r>>
    PROVE  HostInv' /\ StreamInv'
<1>1. HostInv'
    BY DEF HostInv
<1>2. CASE cur \in C
    <2>1. PICK c \in C : c = cur
        BY <1>2
    <2>2. StreamOf(c)
        BY <2>1, ConnAssumption DEF StreamInv
    <2>3. Len(r2h'[c]) = 0 /\ Len(batch'[c]) = 0 /\ hostEnd'[c] = "none"
        OBVIOUS
    <2>4. ~Ready(c, 1)'
        BY <2>3 DEF Ready
    <2>5. QueueInv(c)' /\ FlowInv(c)' /\ BatchInv(c)' /\ OpenInv(c)'
        BY <2>3, <2>4 DEF QueueInv, FlowInv, BatchInv, InOrder, OpenInv
    <2>6. AckInv(c)'
        BY <2>2 DEF StreamOf, AckInv
    <2>7. StreamOf(c)'
        BY <2>5, <2>6 DEF StreamOf
    <2> QED
        BY <1>1, <2>1, <2>7, CurrentStream
<1>3. CASE cur \notin C /\ cur # NoConn
    <2>1. PICK c \in Conn \ C : c = cur
        BY <1>3 DEF TypeOK, LinkTypeOK
    <2>2. StreamOf(c)
        BY <2>1, <1>3 DEF StreamInv
    <2>3. StreamOf(c)'
        BY <2>2, StreamKept
    <2> QED
        BY <1>1, <2>1, <2>3, CurrentStream
<1>4. CASE cur = NoConn
    BY <1>1, <1>4 DEF StreamInv
<1> QED
    BY <1>2, <1>3, <1>4

\* Every step of the host.
HostStep ==
    \/ \E c \in Conn : \/ HostHello(c) \/ HostOutput(c) \/ HostEvent(c) \/ HostFlush(c)
                       \/ HostConnClosed(c) \/ HostDiesMidAppend(c)
    \/ HostDisconnect \/ HostRestart

\* The runner's side of the state.
RunnerSide == <<runnerVars, spoolVars, cur, phase>>

LEMMA HostStepKeeps ==
    ASSUME TypeOK, HostInv, StreamInv, "storeError" \notin Faults, HostStep
    PROVE  HostInv' /\ StreamInv' /\ UNCHANGED RunnerSide /\ Recorded \subseteq Recorded'
<1> USE DEF RunnerSide
<1>1. lastSeq \in Nat /\ rows \subseteq Row
    BY DEF TypeOK, StoreTypeOK
<1>2. /\ r2h \in [Conn -> Seq(Env \cup {Hello})] /\ batch \in [Conn -> Seq(Env)]
      /\ hostEnd \in [Conn -> {"none", "fresh", "authed"}]
    BY DEF TypeOK, LinkTypeOK, HostTypeOK
<1>3. ASSUME NEW c \in Conn, r2h[c] # <<>>, Head(r2h[c]) # Hello
      PROVE  Head(r2h[c]) \in Env /\ Append(batch[c], Head(r2h[c])) \in Seq(Env)
    <2>1. Head(r2h[c]) \in Env
        BY <1>2, <1>3
    <2> QED
        BY <1>2, <2>1, AppendType
<1>4. ASSUME NEW msgs \in Seq(Env), Persist(msgs)
      PROVE  Recorded \subseteq Recorded'
    BY <1>1, <1>4, PersistRecords
<1>5. ASSUME NEW c \in Conn, HostHello(c)
      PROVE  HostInv' /\ StreamInv' /\ UNCHANGED RunnerSide /\ Recorded \subseteq Recorded'
    <2>1. UNCHANGED RunnerSide /\ rows' = rows
        BY <1>5 DEF HostHello, storeVars
    <2> QED
        BY <1>5, <2>1, HelloKeeps, RecordedGrows
<1>6. ASSUME NEW c \in Conn, HostOutput(c)
      PROVE  HostInv' /\ StreamInv' /\ UNCHANGED RunnerSide /\ Recorded \subseteq Recorded'
    <2> DEFINE msgs == Append(batch[c], Head(r2h[c]))
    <2>1. /\ hostEnd[c] = "authed" /\ r2h[c] # <<>> /\ Head(r2h[c]) # Hello
          /\ r2h' = [r2h EXCEPT ![c] = Tail(@)]
          /\ \/ Persist(msgs) /\ Acknowledge(c, msgs) /\ batch' = [batch EXCEPT ![c] = <<>>]
             \/ batch' = [batch EXCEPT ![c] = msgs] /\ UNCHANGED <<rows, h2r>>
          /\ UNCHANGED RunnerSide /\ UNCHANGED <<pending, sendSeq, cur, phase, hostEnd>>
        BY <1>6, EnvFacts DEF HostOutput, storeVars, runnerVars
    <2>2. msgs \in Seq(Env)
        BY <1>3, <2>1
    <2>3. CASE Persist(msgs) /\ Acknowledge(c, msgs) /\ batch' = [batch EXCEPT ![c] = <<>>]
        <3> HIDE DEF RunnerSide
        <3>1. HostInv' /\ StreamInv'
            BY <2>1, <2>2, <2>3, StoredKeeps
        <3> QED
            BY <1>4, <2>1, <2>2, <2>3, <3>1
    <2>4. CASE batch' = [batch EXCEPT ![c] = msgs] /\ UNCHANGED <<rows, h2r>>
        <3> HIDE DEF RunnerSide
        <3>1. HostInv' /\ StreamInv'
            BY <2>1, <2>4, QueuedKeeps
        <3> QED
            BY <2>1, <2>4, <3>1, RecordedGrows
    <2> QED
        BY <2>1, <2>3, <2>4
<1>7. ASSUME NEW c \in Conn, HostEvent(c)
      PROVE  HostInv' /\ StreamInv' /\ UNCHANGED RunnerSide /\ Recorded \subseteq Recorded'
    <2> DEFINE msgs == Append(batch[c], Head(r2h[c]))
    <2>1. /\ hostEnd[c] = "authed" /\ r2h[c] # <<>> /\ Head(r2h[c]) # Hello
          /\ r2h' = [r2h EXCEPT ![c] = Tail(@)]
          /\ Persist(msgs) /\ Acknowledge(c, msgs) /\ batch' = [batch EXCEPT ![c] = <<>>]
          /\ UNCHANGED RunnerSide /\ UNCHANGED <<pending, sendSeq, cur, phase, hostEnd>>
        BY <1>7 DEF HostEvent, runnerVars
    <2>2. msgs \in Seq(Env)
        BY <1>3, <2>1
    <2> HIDE DEF RunnerSide
    <2>3. HostInv' /\ StreamInv'
        BY <2>1, <2>2, StoredKeeps
    <2> QED
        BY <1>4, <2>1, <2>2, <2>3
<1>8. ASSUME NEW c \in Conn, HostFlush(c)
      PROVE  HostInv' /\ StreamInv' /\ UNCHANGED RunnerSide /\ Recorded \subseteq Recorded'
    <2>1. /\ batch[c] # <<>> /\ batch[c] \in Seq(Env)
          /\ Persist(batch[c]) /\ Acknowledge(c, batch[c]) /\ batch' = [batch EXCEPT ![c] = <<>>]
          /\ UNCHANGED RunnerSide /\ UNCHANGED <<pending, sendSeq, cur, phase, hostEnd, r2h>>
        BY <1>2, <1>8 DEF HostFlush, runnerVars
    <2>2. hostEnd[c] = "authed"
        BY <2>1 DEF HostInv
    <2> HIDE DEF RunnerSide
    <2>3. HostInv' /\ StreamInv'
        BY <2>1, <2>2, StoredKeeps
    <2> QED
        BY <1>4, <2>1, <2>3
<1>9. ASSUME NEW c \in Conn, HostConnClosed(c)
      PROVE  HostInv' /\ StreamInv' /\ UNCHANGED RunnerSide /\ Recorded \subseteq Recorded'
    <2>1. /\ Persist(batch[c]) /\ batch[c] \in Seq(Env) /\ batch' = [batch EXCEPT ![c] = <<>>]
          /\ hostEnd' = [hostEnd EXCEPT ![c] = "none"] /\ r2h' = [r2h EXCEPT ![c] = <<>>]
          /\ UNCHANGED RunnerSide /\ UNCHANGED <<pending, sendSeq, cur, phase, h2r>>
        BY <1>2, <1>9 DEF HostConnClosed, runnerVars
    <2>2. Recorded \subseteq Recorded'
        BY <1>4, <2>1
    <2> DEFINE C == {c}
    <2>3. /\ C \in SUBSET Conn
          /\ \A d \in C : hostEnd'[d] = "none" /\ r2h'[d] = <<>> /\ batch'[d] = <<>>
          /\ \A d \in Conn \ C : /\ r2h'[d] = r2h[d]
                                /\ batch'[d] = batch[d] /\ hostEnd'[d] = hostEnd[d]
        BY <1>2, <2>1
    <2> HIDE DEF RunnerSide, C
    <2>4. HostInv' /\ StreamInv'
        BY <2>1, <2>2, <2>3, GoneKeeps
    <2> QED
        BY <2>1, <2>2, <2>4
<1>10. ASSUME HostGone, rows \subseteq rows'
       PROVE  HostInv' /\ StreamInv' /\ UNCHANGED RunnerSide /\ Recorded \subseteq Recorded'
    <2>1. /\ \A d \in Conn : hostEnd'[d] = "none" /\ r2h'[d] = <<>> /\ batch'[d] = <<>>
          /\ UNCHANGED RunnerSide /\ UNCHANGED <<pending, sendSeq, cur, phase, h2r>>
        BY <1>10 DEF HostGone, runnerVars
    <2>2. Recorded \subseteq Recorded'
        BY <1>10, RecordedGrows
    <2> HIDE DEF RunnerSide
    <2>3. HostInv' /\ StreamInv'
        BY <2>1, <2>2, GoneKeeps
    <2> QED
        BY <2>1, <2>2, <2>3
<1>11. ASSUME HostDisconnect
       PROVE  HostInv' /\ StreamInv' /\ UNCHANGED RunnerSide /\ Recorded \subseteq Recorded'
    <2>1. /\ UNCHANGED <<pending, sendSeq, cur, phase, h2r, r2h, batch, hostEnd, rows>>
          /\ UNCHANGED RunnerSide
        BY <1>11 DEF HostDisconnect, runnerVars, linkVars, storeVars
    <2>2. Recorded \subseteq Recorded'
        BY <2>1, RecordedGrows
    <2> HIDE DEF RunnerSide
    <2>3. HostInv' /\ StreamInv'
        BY <2>1, <2>2, GoneKeeps
    <2> QED
        BY <2>1, <2>2, <2>3
<1> HIDE DEF RunnerSide
<1> QED
    <2>1. HostRestart => HostGone /\ rows \subseteq rows'
        BY DEF HostRestart, storeVars
    <2>2. \A c \in Conn : HostDiesMidAppend(c) => HostGone /\ rows \subseteq rows'
        BY DEF HostDiesMidAppend
    <2> QED
        BY <1>5, <1>6, <1>7, <1>8, <1>9, <1>10, <1>11, <2>1, <2>2 DEF HostStep

-----------------------------------------------------------------------------
(* The steps of the runner and its spool.                                  *)

\* What is known of the types of the runner's side.
LEMMA RunnerTypes ==
    ASSUME TypeOK
    PROVE  /\ boot \in 0..MaxBoots /\ emits \in [1..MaxBoots -> Nat]
           /\ sendSeq \in Nat /\ ackSeq \in Nat /\ spoolAck \in Nat /\ diskAck \in Nat
           /\ pending \subseteq Env /\ spoolLog \subseteq Env /\ jobs \in Seq(Job)
           /\ \A e \in Spooled : e \in Env
           /\ \A p \in pending : p.seq \in Nat \ {0}
           /\ \A e \in Spooled : e.seq \in Nat \ {0}
           /\ spoolLog \subseteq Spooled
<1>1. /\ boot \in 0..MaxBoots /\ emits \in [1..MaxBoots -> Nat]
      /\ sendSeq \in Nat /\ ackSeq \in Nat /\ spoolAck \in Nat /\ diskAck \in Nat
      /\ pending \subseteq Env /\ spoolLog \subseteq Env /\ jobs \in Seq(Job)
    BY DEF TypeOK, RunnerTypeOK, SpoolTypeOK
<1>2. \A e \in Spooled : e \in Env
    BY <1>1, JobFacts DEF Spooled
<1>3. spoolLog \subseteq Spooled
    BY DEF Spooled
<1> QED
    BY <1>1, <1>2, <1>3, EnvFacts

LEMMA StartKeeps ==
    ASSUME DeliveryInv, RunnerStart
    PROVE  ProcessInv' /\ PendingInv' /\ SpoolInv' /\ HostInv' /\ StreamInv'
           /\ NoLossWhileUp' /\ SpoolSurvives'
<1> USE RunnerTypes DEF DeliveryInv
<1>1. /\ ~up /\ up' /\ boot' = boot + 1 /\ boot < MaxBoots
      /\ pending' = {e \in spoolLog : e.seq > diskAck}
      /\ ackSeq' = diskAck /\ spoolAck' = diskAck /\ jobs' = <<>>
      /\ sendSeq' >= diskAck /\ \A e \in pending' : e.seq <= sendSeq'
      /\ UNCHANGED <<emits, spoolLog, tornTail, diskAck, durable, cur, phase, r2h,
                      hostEnd, batch, rows>>
    BY DEF RunnerStart, linkVars, hostVars, storeVars
<1>2. cur' = NoConn /\ jobs = <<>> /\ Recorded' = Recorded
    BY <1>1 DEF ProcessInv, Recorded
<1>3. ProcessInv'
    BY <1>1, <1>2 DEF ProcessInv
<1>4. Spooled = spoolLog /\ Spooled' = spoolLog
    BY <1>1, <1>2 DEF Spooled
<1>5. PendingInv'
    <2>1. ackSeq' <= sendSeq'
        BY <1>1
    <2>2. \A p \in pending' : ackSeq' < p.seq /\ p.seq <= sendSeq'
        BY <1>1
    <2>3. \A p, q \in pending' : p.seq = q.seq => p = q
        BY <1>1, <1>4 DEF SpoolInv
    <2> QED
        BY <2>1, <2>2, <2>3 DEF PendingInv
<1>6. SpoolInv'
    <2>1. \A e \in Spooled' : (e.seq <= ackSeq' /\ e.ev \in Recorded') \/ e \in pending'
        BY <1>1, <1>2, <1>4 DEF SpoolInv
    <2> QED
        BY <1>1, <1>2, <1>4, <2>1 DEF SpoolInv
<1>7. HostInv' /\ StreamInv'
    BY <1>1, <1>2 DEF HostInv, StreamInv
<1>8. NoLossWhileUp'
    <2>1. boot' \in 1..MaxBoots /\ boot' > boot
        BY <1>1, BoundsAssumption
    <2>2. emits'[boot'] = 0
        BY <1>1, <2>1 DEF ProcessInv
    <2> QED
        BY <2>2 DEF NoLossWhileUp
<1>9. SpoolSurvives'
    BY <1>1, <1>2 DEF SpoolSurvives
<1> QED
    BY <1>3, <1>5, <1>6, <1>7, <1>8, <1>9

LEMMA CrashKeeps ==
    ASSUME DeliveryInv, RunnerCrash, "tornAppend" \notin Faults
    PROVE  ProcessInv' /\ PendingInv' /\ SpoolInv' /\ HostInv' /\ StreamInv'
           /\ NoLossWhileUp' /\ SpoolSurvives'
<1> USE RunnerTypes DEF DeliveryInv
<1>1. /\ up' = FALSE /\ sendSeq' = 0 /\ pending' = {} /\ ackSeq' = 0 /\ jobs' = <<>>
      /\ cur' = NoConn /\ phase' = "off" /\ diskAck' \in {0, diskAck}
      /\ UNCHANGED <<boot, emits, spoolLog, durable, r2h, hostEnd, batch, rows>>
    BY DEF RunnerCrash, hostVars, storeVars
<1>2. tornTail' = tornTail
    BY DEF RunnerCrash
<1>3. ProcessInv'
    BY <1>1, <1>2 DEF ProcessInv
<1>4. PendingInv'
    BY <1>1 DEF PendingInv
<1>5. Recorded' = Recorded /\ Spooled' = spoolLog
    BY <1>1 DEF Recorded, Spooled
<1>6. SpoolInv'
    <2>1. \A e \in spoolLog' : e.seq <= diskAck' => e.ev \in Recorded'
        BY <1>1, <1>5 DEF SpoolInv
    <2>2. \A d, e \in Spooled' : d.seq = e.seq => d = e
        BY <1>5 DEF SpoolInv
    <2> QED
        BY <1>1, <2>1, <2>2 DEF SpoolInv
<1>7. HostInv' /\ StreamInv' /\ NoLossWhileUp'
    BY <1>1 DEF HostInv, StreamInv, NoLossWhileUp
<1>8. SpoolSurvives'
    BY <1>1, <1>5 DEF SpoolSurvives
<1> QED
    BY <1>3, <1>4, <1>6, <1>7, <1>8

\* A disk write spools nothing that was not spooled before.
LEMMA SpoolShrinks ==
    ASSUME DeliveryInv, SpoolAppend \/ SpoolSaveAck
    PROVE  Spooled' \subseteq Spooled
<1> USE RunnerTypes DEF DeliveryInv
<1>1. /\ up /\ jobs # <<>> /\ jobs' = Tail(jobs)
      /\ UNCHANGED <<up, boot, emits, sendSeq, pending, ackSeq, spoolAck, cur, phase, r2h, h2r,
                      hostEnd, batch, rows>>
      /\ diskAck' \in {diskAck, spoolAck}
    BY DEF SpoolAppend, SpoolSaveAck, runnerVars, linkVars, hostVars, storeVars
<1>2. ~tornTail
    BY DEF ProcessInv
<1> DEFINE written == IF Head(jobs).op = "append" THEN {Head(jobs).env} ELSE {}
<1>3. /\ ~tornTail' /\ spoolLog' \subseteq spoolLog \cup written
      /\ \A e \in spoolLog \cup written : e.seq > spoolAck => e \in spoolLog'
      /\ \A x \in durable' : x \in durable \/ \E e \in written : e.ev = x
    <2>1. CASE SpoolAppend
        BY <1>2, <2>1 DEF SpoolAppend, MaybeCompact
    <2>2. CASE SpoolSaveAck
        BY <1>2, <2>2 DEF SpoolSaveAck, MaybeCompact
    <2> QED
        BY <2>1, <2>2
<1>4. written \subseteq Spooled
    BY <1>1, TailFacts DEF Spooled
<1> QED
    <2>1. /\ Len(jobs) \in Nat \ {0} /\ Len(jobs') = Len(jobs) - 1
          /\ \A i \in 1..(Len(jobs) - 1) : jobs'[i] = jobs[i + 1]
        BY <1>1, TailFacts
    <2>2. ASSUME NEW i \in 1..Len(jobs'), jobs'[i].op = "append"
          PROVE  jobs'[i].env \in Spooled
        <3>1. i + 1 \in 1..Len(jobs) /\ jobs'[i] = jobs[i + 1]
            BY <2>1
        <3> QED
            BY <2>2, <3>1 DEF Spooled
    <2> QED
        BY <1>3, <1>4, <2>2 DEF Spooled

\* A disk write, of a line or of the cursor, with the compaction after it.
LEMMA DiskWriteKeeps ==
    ASSUME DeliveryInv, SpoolAppend \/ SpoolSaveAck
    PROVE  ProcessInv' /\ PendingInv' /\ SpoolInv' /\ HostInv' /\ StreamInv'
           /\ NoLossWhileUp' /\ SpoolSurvives'
<1> USE RunnerTypes DEF DeliveryInv
<1>1. /\ up /\ jobs # <<>> /\ jobs' = Tail(jobs)
      /\ UNCHANGED <<up, boot, emits, sendSeq, pending, ackSeq, spoolAck, cur, phase, r2h, h2r,
                      hostEnd, batch, rows>>
      /\ diskAck' \in {diskAck, spoolAck}
    BY DEF SpoolAppend, SpoolSaveAck, runnerVars, linkVars, hostVars, storeVars
<1>2. ~tornTail
    BY DEF ProcessInv
<1> DEFINE written == IF Head(jobs).op = "append" THEN {Head(jobs).env} ELSE {}
<1>3. /\ ~tornTail' /\ spoolLog' \subseteq spoolLog \cup written
      /\ \A e \in spoolLog \cup written : e.seq > spoolAck => e \in spoolLog'
      /\ \A x \in durable' : x \in durable \/ \E e \in written : e.ev = x
    <2>1. CASE SpoolAppend
        BY <1>2, <2>1 DEF SpoolAppend, MaybeCompact
    <2>2. CASE SpoolSaveAck
        BY <1>2, <2>2 DEF SpoolSaveAck, MaybeCompact
    <2> QED
        BY <2>1, <2>2
<1>4. written \subseteq Spooled
    BY <1>1, TailFacts DEF Spooled
<1>5. Spooled' \subseteq Spooled
    BY SpoolShrinks
<1> HIDE DEF written
<1>6. Recorded' = Recorded
    BY <1>1 DEF Recorded
<1>7. ProcessInv' /\ PendingInv' /\ HostInv' /\ NoLossWhileUp'
    BY <1>1, <1>3, <1>6 DEF ProcessInv, PendingInv, HostInv, NoLossWhileUp
<1>8. StreamInv'
    <2> SUFFICES ASSUME cur # NoConn PROVE StreamOf(cur)'
        BY <1>1 DEF StreamInv
    <2>1. PICK c : c = cur
        OBVIOUS
    <2>2. StreamOf(c)
        BY <2>1 DEF StreamInv
    <2>3. StreamOf(c)'
        BY <1>1, <1>6, <2>2, StreamKept
    <2> QED
        BY <1>1, <2>1, <2>3
<1>9. \A e \in Spooled : e.seq <= ackSeq => e.ev \in Recorded
    BY <1>1 DEF SpoolInv, PendingInv
<1>10. SpoolInv'
    <2>1. diskAck' <= spoolAck' /\ spoolAck' <= ackSeq'
        BY <1>1 DEF SpoolInv
    <2>2. \A e \in Spooled' : (e.seq <= ackSeq' /\ e.ev \in Recorded') \/ e \in pending'
        BY <1>1, <1>5, <1>6 DEF SpoolInv
    <2>3. \A e \in spoolLog' : e.seq <= diskAck' => e.ev \in Recorded'
        <3>1. spoolLog' \subseteq Spooled
            BY <1>3, <1>4
        <3>2. diskAck' \in Nat /\ diskAck' <= ackSeq
            BY <1>1 DEF SpoolInv
        <3>3. \A e \in spoolLog' : e \in Spooled /\ e.seq \in Nat
            BY <3>1
        <3> QED
            BY <1>6, <1>9, <3>2, <3>3
    <2>4. \A d, e \in Spooled' : d.seq = e.seq => d = e
        BY <1>5 DEF SpoolInv
    <2> QED
        BY <2>1, <2>2, <2>3, <2>4 DEF SpoolInv
<1>11. SpoolSurvives'
    <2> SUFFICES ASSUME NEW x \in durable', x \notin Recorded
                 PROVE  \E e \in spoolLog' : e.ev = x /\ e.seq > diskAck'
        BY <1>6 DEF SpoolSurvives
    <2>1. PICK e \in spoolLog \cup written : e.ev = x
        BY <1>3 DEF SpoolSurvives
    <2>2. e \in Spooled /\ e.seq \in Nat
        BY <1>4
    <2>3. e.seq > ackSeq
        BY <1>9, <2>1, <2>2
    <2>4. e.seq > spoolAck /\ e.seq > diskAck'
        BY <1>1, <2>2, <2>3 DEF SpoolInv
    <2> QED
        BY <1>3, <2>1, <2>4
<1> QED
    BY <1>7, <1>8, <1>10, <1>11

LEMMA EmitKeeps ==
    ASSUME DeliveryInv, NEW out \in BOOLEAN, RunnerEmit(out)
    PROVE  ProcessInv' /\ PendingInv' /\ SpoolInv' /\ HostInv' /\ StreamInv'
           /\ NoLossWhileUp' /\ SpoolSurvives'
<1> USE RunnerTypes DEF DeliveryInv
<1> DEFINE n   == emits[boot] + 1
           env == [seq |-> sendSeq + 1, ev |-> <<boot, n>>, out |-> out]
<1>1. /\ up /\ emits' = [emits EXCEPT ![boot] = n] /\ sendSeq' = sendSeq + 1
      /\ pending' = pending \cup {env}
      /\ jobs' = IF disabled THEN jobs ELSE Append(jobs, [op |-> "append", env |-> env])
      /\ Transmit(<<env>>)
      /\ UNCHANGED <<up, boot, ackSeq, spoolAck, disabled, spoolLog, tornTail, diskAck,
                      durable, cur, phase, h2r, hostEnd, batch, rows>>
    BY DEF RunnerEmit, hostVars, storeVars
<1>2. boot \in 1..MaxBoots /\ n \in Nat \ {0}
    BY <1>1, BoundsAssumption DEF TypeOK, RunnerTypeOK
<1>3. env \in Env /\ env.seq = sendSeq + 1 /\ env.ev = <<boot, n>> /\ env # Hello
    <2>1. <<boot, n>> \in Event
        BY <1>2 DEF Event
    <2>2. sendSeq + 1 \in Nat \ {0}
        OBVIOUS
    <2>3. env \in Env
        BY <2>1, <2>2, Zenon DEF Env
    <2> QED
        BY <2>3, EnvFacts
<1> HIDE DEF env, n
<1>4. Recorded' = Recorded
    BY <1>1 DEF Recorded
<1>5. ProcessInv'
    BY <1>1, <1>2 DEF ProcessInv
<1>6. PendingInv'
    BY <1>1, <1>3 DEF PendingInv
<1>7. Spooled' \subseteq Spooled \cup {env}
    <2>1. CASE jobs' = jobs
        BY <1>1, <2>1 DEF Spooled
    <2>2. CASE jobs' = Append(jobs, [op |-> "append", env |-> env])
        <3>1. [op |-> "append", env |-> env] \in Job
            BY <1>3, JobFacts
        <3>2. PICK job \in Job : job = [op |-> "append", env |-> env]
            BY <3>1
        <3>3. /\ Len(jobs) \in Nat /\ Len(jobs') = Len(jobs) + 1 /\ jobs'[Len(jobs) + 1] = job
              /\ \A i \in 1..Len(jobs) : jobs'[i] = jobs[i]
            BY <2>2, <3>2, AppendFacts
        <3>4. job.env = env
            BY <3>2
        <3>5. ASSUME NEW i \in 1..Len(jobs'), jobs'[i].op = "append"
              PROVE  jobs'[i].env \in Spooled \cup {env}
            <4>1. CASE i \in 1..Len(jobs)
                BY <3>3, <3>5, <4>1 DEF Spooled
            <4>2. CASE i = Len(jobs) + 1
                BY <3>3, <3>4, <4>2
            <4> QED
                BY <3>3, <4>1, <4>2
        <3> QED
            BY <1>1, <3>5 DEF Spooled
    <2> QED
        BY <1>1, <2>1, <2>2
<1>8. \A e \in Spooled : e.seq <= sendSeq
    BY <1>1 DEF SpoolInv, PendingInv
<1>9. SpoolInv'
    <2>1. \A e \in Spooled' : (e.seq <= ackSeq' /\ e.ev \in Recorded') \/ e \in pending'
        BY <1>1, <1>4, <1>7 DEF SpoolInv
    <2>2. \A d, e \in Spooled' : d.seq = e.seq => d = e
        <3>1. \A d, e \in Spooled : d.seq = e.seq => d = e
            BY DEF SpoolInv
        <3>2. \A e \in Spooled : e.seq # env.seq
            BY <1>3, <1>8
        <3> QED
            BY <1>7, <3>1, <3>2
    <2>3. \A e \in spoolLog' : e.seq <= diskAck' => e.ev \in Recorded'
        BY <1>1, <1>4 DEF SpoolInv
    <2> QED
        BY <1>1, <2>1, <2>2, <2>3 DEF SpoolInv
<1>10. NoLossWhileUp'
    <2>1. emits'[boot] = n /\ emits[boot] \in Nat /\ n = emits[boot] + 1
        BY <1>1, <1>2 DEF n
    <2> SUFFICES ASSUME NEW k \in 1..n
                 PROVE  <<boot, k>> \in Recorded \/ \E e \in pending' : e.ev = <<boot, k>>
        BY <1>1, <1>4, <2>1 DEF NoLossWhileUp
    <2>2. CASE k = n
        BY <1>1, <1>3, <2>2
    <2>3. CASE k \in 1..emits[boot]
        BY <1>1, <2>3 DEF NoLossWhileUp
    <2> QED
        BY <2>1, <2>2, <2>3
<1>11. SpoolSurvives'
    BY <1>1, <1>4 DEF SpoolSurvives
<1>12. CASE cur = NoConn \/ hostEnd[cur] = "none"
    <2>1. UNCHANGED r2h
        BY <1>1, <1>12 DEF Transmit
    <2>2. HostInv'
        BY <1>1, <2>1 DEF HostInv
    <2>3. ASSUME cur # NoConn PROVE StreamInv'
        <3>1. PICK c \in Conn : c = cur /\ hostEnd[c] = "none"
            BY <1>12, <2>3 DEF TypeOK, LinkTypeOK
        <3>2. StreamOf(c)
            BY <2>3, <3>1 DEF StreamInv
        <3>3. Len(r2h[c]) = 0 /\ Len(batch[c]) = 0
            BY <3>1 DEF HostInv
        <3>4. ~Ready(c, 1)'
            BY <1>1, <3>1 DEF Ready
        <3>5. OpenInv(c)' /\ QueueInv(c)' /\ BatchInv(c)' /\ FlowInv(c)'
            BY <1>1, <2>1, <3>1, <3>3, <3>4 DEF OpenInv, QueueInv, BatchInv, InOrder, FlowInv
        <3>6. AckInv(c)'
            <4>1. \A i \in 1..Len(h2r[c]) : h2r[c][i] \in Nat
                BY DEF TypeOK, LinkTypeOK
            <4> QED
                BY <1>1, <1>3, <1>4, <3>2, <4>1 DEF StreamOf, AckInv
        <3>7. StreamOf(c)'
            BY <3>5, <3>6 DEF StreamOf
        <3> QED
            BY <1>1, <3>1, <3>7, CurrentStream
    <2>4. StreamInv'
        BY <1>1, <2>3 DEF StreamInv
    <2> QED
        BY <1>5, <1>6, <1>9, <1>10, <1>11, <2>2, <2>4
<1>13. CASE cur # NoConn /\ hostEnd[cur] # "none"
    <2>1. PICK c \in Conn : c = cur
        BY <1>13 DEF TypeOK, LinkTypeOK
    <2>2. r2h' = [r2h EXCEPT ![c] = @ \o <<env>>] /\ r2h[c] \in Seq(Env \cup {Hello})
        BY <1>1, <1>13, <2>1 DEF Transmit, TypeOK, LinkTypeOK
    <2>3. StreamOf(c) /\ hostEnd[c] # "none"
        BY <1>13, <2>1 DEF StreamInv
    <2>4. HostInv'
        BY <1>1, <1>13, <2>1, <2>2 DEF HostInv, TypeOK, LinkTypeOK
    <2>5. PICK m \in Nat :
              /\ m = Len(r2h[c]) /\ Len(r2h'[c]) = m + 1 /\ r2h'[c][m + 1] = env
              /\ \A i \in 1..m : r2h'[c][i] = r2h[c][i]
        <3>1. r2h'[c] = r2h[c] \o <<env>>
            BY <2>2 DEF TypeOK, LinkTypeOK
        <3>2. env \in Env \cup {Hello}
            BY <1>3
        <3>3. /\ Len(r2h[c]) \in Nat /\ Len(r2h[c] \o <<env>>) = Len(r2h[c]) + 1
              /\ (r2h[c] \o <<env>>)[Len(r2h[c]) + 1] = env
              /\ \A i \in 1..Len(r2h[c]) : (r2h[c] \o <<env>>)[i] = r2h[c][i]
            BY <2>2, <3>2, ConcatOne
        <3> QED
            BY <3>1, <3>3
    <2>6. \A i \in 1..(m + 1) : Ready(c, i)' <=> Ready(c, i)
        <3>1. \A i \in 1..(m + 1) : \A h \in 1..(i - 1) : r2h'[c][h] = r2h[c][h]
            BY <2>5
        <3> QED
            BY <1>1, <3>1 DEF Ready
    <2>7. ASSUME NEW p \in pending, NEW i \in 1..(m + 1), Ahead(c, p, i)
          PROVE  Ahead(c, p, i)' /\ Ahead(c, p, m + 2)'
        <3>1. CASE p.ev \in Recorded \/ InBatch(c, p, Len(batch[c]) + 1)
            BY <1>1, <1>4, <3>1 DEF Ahead, InBatch
        <3>2. CASE InQueue(c, p, i)
            <4>1. PICK j \in 1..(i - 1) : Ready(c, j) /\ r2h[c][j] = p
                BY <3>2 DEF InQueue
            <4>2. j \in 1..m /\ j \in 1..(m + 1) /\ Ready(c, j)' /\ r2h'[c][j] = p
                BY <2>5, <2>6, <4>1
            <4> QED
                BY <4>1, <4>2 DEF Ahead, InQueue
        <3> QED
            BY <2>7, <3>1, <3>2 DEF Ahead
    <2>8. Ready(c, m + 1) => \A p \in pending : Ahead(c, p, m + 1)
        BY <2>3, <2>5 DEF StreamOf, FlowInv
    <2>9. OpenInv(c)'
        <3>1. \A i \in 1..(m + 1) : i \in 1..m \/ i = m + 1
            OBVIOUS
        <3>2. phase = "open" => \A i \in 1..m : r2h[c][i] # Hello
            BY <2>3, <2>5 DEF StreamOf, OpenInv
        <3> QED
            BY <1>1, <1>3, <2>3, <2>5, <3>1, <3>2 DEF StreamOf, OpenInv
    <2>10. QueueInv(c)'
        <3> SUFFICES ASSUME NEW i \in 1..(m + 1), Ready(c, i), r2h'[c][i] # Hello
                     PROVE  /\ r2h'[c][i].seq <= sendSeq'
                            /\ \A p \in pending' : p.seq = r2h'[c][i].seq => p = r2h'[c][i]
                            /\ \A p \in pending' : p.seq < r2h'[c][i].seq => Ahead(c, p, i)'
            BY <2>5, <2>6 DEF QueueInv
        <3>1. CASE i = m + 1
            <4>1. r2h'[c][i] = env
                BY <2>5, <3>1
            <4>2. \A p \in pending : p.seq <= sendSeq
                BY DEF PendingInv
            <4>3. ASSUME NEW p \in pending', p.seq < env.seq
                  PROVE  Ahead(c, p, i)'
                <5>1. p # env
                    BY <1>3, <4>3
                <5>2. p \in pending
                    BY <1>1, <5>1
                <5> QED
                    BY <2>7, <2>8, <3>1, <5>2
            <4> QED
                BY <1>1, <1>3, <4>1, <4>2, <4>3
        <3>2. CASE i \in 1..m
            <4>1. r2h'[c][i] = r2h[c][i] /\ i \in 1..Len(r2h[c])
                BY <2>5, <3>2
            <4>2. r2h[c][i] \in Env
                BY <2>2, <4>1
            <4>3. /\ r2h[c][i].seq <= sendSeq
                  /\ \A p \in pending : p.seq = r2h[c][i].seq => p = r2h[c][i]
                  /\ \A p \in pending : p.seq < r2h[c][i].seq => Ahead(c, p, i)
                BY <2>3, <4>1 DEF StreamOf, QueueInv
            <4>4. r2h[c][i].seq \in Nat /\ ~(env.seq <= r2h[c][i].seq)
                BY <1>3, <4>2, <4>3, EnvFacts
            <4> QED
                BY <1>1, <1>3, <2>7, <3>2, <4>1, <4>3, <4>4
        <3> QED
            BY <3>1, <3>2
    <2>11. BatchInv(c)'
        <3> SUFFICES ASSUME NEW k \in 1..Len(batch[c])
                     PROVE  /\ batch[c][k].seq <= sendSeq'
                            /\ \A p \in pending' : p.seq = batch[c][k].seq => p = batch[c][k]
                            /\ \A p \in pending' : p.seq < batch[c][k].seq =>
                                  p.ev \in Recorded \/ \E i \in 1..(k - 1) : batch[c][i] = p
            BY <1>1, <1>4 DEF BatchInv, InOrder
        <3>1. batch[c][k] \in Env
            BY DEF TypeOK, HostTypeOK
        <3>2. batch[c][k].seq <= sendSeq /\ batch[c][k].seq \in Nat
            BY <2>3, <3>1, EnvFacts DEF StreamOf, BatchInv, InOrder
        <3> QED
            BY <1>1, <1>3, <2>3, <3>2 DEF StreamOf, BatchInv, InOrder
    <2>12. FlowInv(c)'
        <3> SUFFICES ASSUME Ready(c, m + 2)', NEW p \in pending'
                     PROVE  Ahead(c, p, m + 2)'
            BY <2>5 DEF FlowInv
        <3>1. Ready(c, m + 1)
            <4>1. CASE hostEnd[c] = "authed"
                BY <4>1 DEF Ready
            <4>2. CASE hostEnd[c] # "authed"
                <5>1. PICK h \in 1..(m + 1) : r2h'[c][h] = Hello
                    BY <1>1, <4>2 DEF Ready
                <5>2. h \in 1..m
                    BY <1>3, <2>5, <5>1
                <5> QED
                    BY <2>5, <5>1, <5>2 DEF Ready
            <4> QED
                BY <4>1, <4>2
        <3>2. CASE p \in pending
            BY <2>7, <2>8, <3>1, <3>2
        <3>3. CASE p = env
            <4>1. Ready(c, m + 1)' /\ r2h'[c][m + 1] = env /\ m + 1 \in 1..(m + 2 - 1)
                BY <2>5, <2>6, <3>1
            <4> QED
                BY <3>3, <4>1 DEF Ahead, InQueue
        <3> QED
            BY <1>1, <3>2, <3>3
    <2>13. AckInv(c)'
        <3>1. \A i \in 1..Len(h2r[c]) : h2r[c][i] \in Nat
            BY DEF TypeOK, LinkTypeOK
        <3> QED
            BY <1>1, <1>3, <1>4, <2>3, <3>1 DEF StreamOf, AckInv
    <2>14. StreamOf(c)'
        BY <2>9, <2>10, <2>11, <2>12, <2>13 DEF StreamOf
    <2>15. StreamInv'
        BY <1>1, <2>1, <2>14, CurrentStream
    <2> QED
        BY <1>5, <1>6, <1>9, <1>10, <1>11, <2>4, <2>15
<1> QED
    BY <1>12, <1>13

\* Steps that change nothing of the runner's side but the connection.
LEMMA SpoolKept ==
    ASSUME PendingInv, SpoolInv, NoLossWhileUp, SpoolSurvives,
           UNCHANGED <<runnerVars, spoolVars, rows>>
    PROVE  PendingInv' /\ SpoolInv' /\ NoLossWhileUp' /\ SpoolSurvives'
<1> USE DEF runnerVars, spoolVars
<1>1. Recorded' = Recorded /\ Spooled' = Spooled
    BY DEF Recorded, Spooled
<1>2. PendingInv' /\ SpoolInv'
    BY <1>1 DEF PendingInv, SpoolInv
<1>3. NoLossWhileUp' /\ SpoolSurvives'
    BY <1>1 DEF NoLossWhileUp, SpoolSurvives
<1> QED
    BY <1>2, <1>3

LEMMA ConnectKeeps ==
    ASSUME DeliveryInv, NEW c \in Conn, RunnerConnect(c)
    PROVE  ProcessInv' /\ PendingInv' /\ SpoolInv' /\ HostInv' /\ StreamInv'
           /\ NoLossWhileUp' /\ SpoolSurvives'
<1> USE DEF DeliveryInv
<1>1. /\ up /\ cur' = c /\ phase' = "open" /\ hostEnd[c] = "none"
      /\ r2h' = [r2h EXCEPT ![c] = <<>>] /\ h2r' = [h2r EXCEPT ![c] = <<>>]
      /\ hostEnd' = [hostEnd EXCEPT ![c] = "fresh"] /\ batch' = batch
      /\ UNCHANGED <<runnerVars, spoolVars, rows>>
    BY DEF RunnerConnect, storeVars
<1>2. /\ r2h \in [Conn -> Seq(Env \cup {Hello})] /\ h2r \in [Conn -> Seq(Nat)]
      /\ hostEnd \in [Conn -> {"none", "fresh", "authed"}]
    BY DEF TypeOK, LinkTypeOK, HostTypeOK
<1>3. ProcessInv'
    BY <1>1, ConnAssumption DEF ProcessInv, runnerVars, spoolVars
<1>4. HostInv'
    BY <1>1, <1>2 DEF HostInv
<1>5. /\ Len(r2h'[c]) = 0 /\ Len(h2r'[c]) = 0 /\ Len(batch'[c]) = 0
      /\ hostEnd'[c] = "fresh"
    BY <1>1, <1>2 DEF HostInv
<1>6. ~Ready(c, 1)'
    BY <1>5 DEF Ready
<1>7. StreamOf(c)'
    BY <1>5, <1>6 DEF StreamOf, OpenInv, QueueInv, BatchInv, InOrder, FlowInv, AckInv
<1>8. StreamInv'
    <2>1. StreamOf(cur)'
        BY <1>1, <1>7
    <2> QED
        BY <2>1 DEF StreamInv
<1> QED
    BY <1>1, <1>3, <1>4, <1>8, SpoolKept

LEMMA ClosedKeeps ==
    ASSUME DeliveryInv, RunnerConnClosed
    PROVE  ProcessInv' /\ PendingInv' /\ SpoolInv' /\ HostInv' /\ StreamInv'
           /\ NoLossWhileUp' /\ SpoolSurvives'
<1> USE DEF DeliveryInv
<1>1. /\ cur' = NoConn /\ phase' = "off"
      /\ UNCHANGED <<runnerVars, spoolVars, rows, r2h, hostEnd, batch>>
    BY DEF RunnerConnClosed, hostVars, storeVars
<1>2. ProcessInv' /\ HostInv' /\ StreamInv'
    BY <1>1 DEF ProcessInv, HostInv, StreamInv, runnerVars, spoolVars
<1> QED
    BY <1>1, <1>2, SpoolKept

\* What a hello and the messages after it do to the stream of a connection.
LEMMA ResentFacts ==
    ASSUME r2h \in [Conn -> Seq(Env \cup {Hello})], pending \subseteq Env,
           Cardinality(pending) \in Nat, NEW c \in Conn,
           NEW s \in [1..Cardinality(pending) -> pending],
           r2h' = [r2h EXCEPT ![c] = @ \o (<<Hello>> \o s)]
    PROVE  \E n \in Nat, k \in Nat :
              /\ n = Len(r2h[c]) /\ k = Cardinality(pending) /\ Len(r2h'[c]) = n + 1 + k
              /\ \A i \in 1..n : r2h'[c][i] = r2h[c][i]
              /\ r2h'[c][n + 1] = Hello
              /\ \A i \in 1..k : r2h'[c][n + 1 + i] = s[i]
<1>1. s \in Seq(Env \cup {Hello}) /\ Len(s) = Cardinality(pending)
    <2>1. PICK k \in Nat : k = Cardinality(pending)
        OBVIOUS
    <2>2. s \in [1..k -> Env \cup {Hello}]
        BY <2>1
    <2>3. s \in Seq(Env \cup {Hello}) /\ Len(s) = k
        BY <2>2
    <2> QED
        BY <2>1, <2>3
<1>2. /\ <<Hello>> \o s \in Seq(Env \cup {Hello}) /\ Len(<<Hello>> \o s) = 1 + Len(s)
      /\ (<<Hello>> \o s)[1] = Hello
      /\ \A i \in 1..Len(s) : (<<Hello>> \o s)[1 + i] = s[i]
    BY <1>1
<1> DEFINE tseq == <<Hello>> \o s
<1>3. r2h'[c] = r2h[c] \o tseq /\ r2h[c] \in Seq(Env \cup {Hello})
    OBVIOUS
<1>4. /\ tseq \in Seq(Env \cup {Hello}) /\ Len(tseq) = 1 + Len(s) /\ tseq[1] = Hello
      /\ \A i \in 1..Len(s) : tseq[1 + i] = s[i] /\ 1 + i \in 1..Len(tseq)
    BY <1>1, <1>2
<1> HIDE DEF tseq
<1>5. PICK n \in Nat, k \in Nat : n = Len(r2h[c]) /\ k = Cardinality(pending)
    BY <1>3
<1>6. ASSUME NEW old \in Seq(Env \cup {Hello}), NEW new \in Seq(Env \cup {Hello})
      PROVE  /\ Len(old \o new) = Len(old) + Len(new)
             /\ \A i \in 1..Len(old) : (old \o new)[i] = old[i]
             /\ \A i \in 1..Len(new) : (old \o new)[Len(old) + i] = new[i]
    BY ConcatFacts
<1>7. tseq \in Seq(Env \cup {Hello})
    BY <1>4
<1>8. /\ Len(r2h[c] \o tseq) = Len(r2h[c]) + Len(tseq)
      /\ \A i \in 1..Len(r2h[c]) : (r2h[c] \o tseq)[i] = r2h[c][i]
      /\ \A i \in 1..Len(tseq) : (r2h[c] \o tseq)[Len(r2h[c]) + i] = tseq[i]
    BY <1>3, <1>6, <1>7, Zenon
<1>9. /\ Len(r2h'[c]) = n + Len(tseq) /\ Len(tseq) = 1 + k
      /\ \A i \in 1..n : r2h'[c][i] = r2h[c][i]
      /\ \A i \in 1..Len(tseq) : r2h'[c][n + i] = tseq[i]
    BY <1>1, <1>3, <1>4, <1>5, <1>8
<1>10. Len(r2h'[c]) = n + 1 + k /\ r2h'[c][n + 1] = Hello
    <2>1. 1 \in 1..Len(tseq) /\ tseq[1] = Hello
        BY <1>4, <1>9
    <2>2. r2h'[c][n + 1] = tseq[1]
        BY <1>9, <2>1
    <2>3. n + (1 + k) = n + 1 + k
        OBVIOUS
    <2> QED
        BY <1>9, <2>1, <2>2, <2>3
<1>11. \A i \in 1..k : r2h'[c][n + 1 + i] = s[i]
    <2> TAKE i \in 1..k
    <2>1. 1 + i \in 1..Len(tseq) /\ tseq[1 + i] = s[i]
        BY <1>1, <1>4, <1>5
    <2>2. r2h'[c][n + (1 + i)] = tseq[1 + i]
        BY <1>9, <2>1
    <2>3. n + (1 + i) = n + 1 + i
        OBVIOUS
    <2> QED
        BY <2>1, <2>2, <2>3
<1> QED
    BY <1>5, <1>9, <1>10, <1>11

LEMMA HelloSentKeeps ==
    ASSUME DeliveryInv, RunnerHello
    PROVE  ProcessInv' /\ PendingInv' /\ SpoolInv' /\ HostInv' /\ StreamInv'
           /\ NoLossWhileUp' /\ SpoolSurvives'
<1> USE DEF DeliveryInv
<1>1. PICK s \in [1..Cardinality(pending) -> pending] : InSeqOrder(s) /\ Transmit(<<Hello>> \o s)
    BY DEF RunnerHello
<1>2. /\ cur # NoConn /\ phase = "open" /\ phase' = "live"
      /\ UNCHANGED <<runnerVars, spoolVars, cur, h2r, hostEnd, batch, rows>>
    BY DEF RunnerHello, hostVars, storeVars
<1>3. PICK c \in Conn : c = cur
    BY <1>2 DEF TypeOK, LinkTypeOK
<1>4. StreamOf(c)
    BY <1>2, <1>3 DEF StreamInv
<1>5. /\ r2h[c] \in Seq(Env \cup {Hello}) /\ pending \subseteq Env
      /\ Cardinality(pending) \in Nat
    BY FS_CardinalityType DEF TypeOK, LinkTypeOK, RunnerTypeOK
<1>6. /\ hostEnd[c] # "authed" /\ Len(batch[c]) = 0
      /\ \A i \in 1..Len(r2h[c]) : r2h[c][i] # Hello
    BY <1>2, <1>4 DEF StreamOf, OpenInv, HostInv
<1>7. ProcessInv'
    BY <1>2 DEF ProcessInv, runnerVars, spoolVars
<1>8. PendingInv' /\ SpoolInv' /\ NoLossWhileUp' /\ SpoolSurvives'
    BY <1>2, SpoolKept
<1>9. Recorded' = Recorded /\ pending' = pending /\ sendSeq' = sendSeq
    BY <1>2 DEF Recorded, runnerVars
<1>10. BatchInv(c)' /\ AckInv(c)' /\ OpenInv(c)'
    BY <1>2, <1>4, <1>9 DEF StreamOf, BatchInv, InOrder, AckInv, OpenInv
<1>11. CASE hostEnd[c] = "none"
    <2>1. r2h' = r2h /\ Len(r2h[c]) = 0
        BY <1>1, <1>3, <1>11 DEF Transmit, HostInv
    <2>2. ~Ready(c, 1)'
        BY <1>2, <1>11, <2>1 DEF Ready
    <2>3. HostInv' /\ QueueInv(c)' /\ FlowInv(c)'
        BY <1>2, <2>1, <2>2 DEF HostInv, QueueInv, FlowInv
    <2>4. StreamOf(c)'
        BY <1>10, <2>3 DEF StreamOf
    <2>5. StreamInv'
        BY <1>2, <1>3, <2>4, CurrentStream
    <2> QED
        BY <1>7, <1>8, <2>3, <2>5
<1>12. CASE hostEnd[c] # "none"
    <2>1. r2h' = [r2h EXCEPT ![c] = @ \o (<<Hello>> \o s)]
        BY <1>1, <1>2, <1>3, <1>12 DEF Transmit
    <2>2. PICK n \in Nat, k \in Nat :
              /\ n = Len(r2h[c]) /\ k = Cardinality(pending) /\ Len(r2h'[c]) = n + 1 + k
              /\ \A i \in 1..n : r2h'[c][i] = r2h[c][i]
              /\ r2h'[c][n + 1] = Hello
              /\ \A i \in 1..k : r2h'[c][n + 1 + i] = s[i]
        <3>1. s \in [1..Cardinality(pending) -> pending]
            OBVIOUS
        <3> QED
            BY <1>5, <2>1, <3>1, ResentFacts DEF TypeOK, LinkTypeOK
    <2>3. HostInv'
        BY <1>2, <1>3, <1>12, <2>1 DEF HostInv, TypeOK, LinkTypeOK
    <2>4. \A i \in 1..(n + 2 + k) : Ready(c, i)' <=> i > n + 1
        <3>1. \A h \in 1..(n + 1 + k) : r2h'[c][h] = Hello <=> h = n + 1
            <4> TAKE h \in 1..(n + 1 + k)
            <4>1. CASE h \in 1..n
                BY <1>6, <2>2, <4>1
            <4>2. CASE h = n + 1
                BY <2>2, <4>2
            <4>3. CASE h > n + 1
                <5>1. h - n - 1 \in 1..k /\ h = n + 1 + (h - n - 1)
                    BY <4>3
                <5>2. PICK i \in 1..k : h = n + 1 + i
                    BY <5>1
                <5>3. r2h'[c][h] = s[i] /\ s[i] \in Env
                    BY <1>5, <2>2, <5>2
                <5> QED
                    BY <4>3, <5>3, EnvFacts
            <4> QED
                BY <4>1, <4>2, <4>3
        <3>2. hostEnd'[c] # "authed"
            BY <1>2, <1>6
        <3> QED
            BY <3>1, <3>2 DEF Ready
    <2>5. \A p \in pending : \E i \in 1..k : s[i] = p
        BY <1>1, <1>5, <2>2 DEF InSeqOrder
    <2>6. \A i, j \in 1..k : i < j => s[i].seq < s[j].seq
        BY <1>1, <1>5, <2>2 DEF InSeqOrder
    <2>7. \A i \in 1..k : s[i] \in pending /\ s[i].seq \in Nat
        BY <1>5, <2>2, EnvFacts
    <2>8. ASSUME NEW i \in 1..k, NEW j \in 1..(n + 1 + k + 1), n + 1 + i < j
          PROVE  Ahead(c, s[i], j)'
        <3>1. n + 1 + i \in 1..(j - 1) /\ n + 1 + i \in 1..(n + 2 + k) /\ n + 1 + i > n + 1
            BY <2>8
        <3>2. Ready(c, n + 1 + i)' /\ r2h'[c][n + 1 + i] = s[i]
            BY <2>2, <2>4, <3>1
        <3> QED
            BY <3>1, <3>2 DEF Ahead, InQueue
    <2>9. QueueInv(c)'
        <3> SUFFICES ASSUME NEW j \in 1..(n + 1 + k), j > n + 1
                     PROVE  /\ r2h'[c][j].seq <= sendSeq
                            /\ \A p \in pending : p.seq = r2h'[c][j].seq => p = r2h'[c][j]
                            /\ \A p \in pending : p.seq < r2h'[c][j].seq => Ahead(c, p, j)'
            <4>1. \A j \in 1..(n + 1 + k) : Ready(c, j)' => j > n + 1
                BY <2>4
            <4> QED
                BY <1>9, <2>2, <4>1 DEF QueueInv
        <3>1. PICK i \in 1..k : j = n + 1 + i
            <4>1. j - n - 1 \in 1..k /\ j = n + 1 + (j - n - 1)
                OBVIOUS
            <4> QED
                BY <4>1
        <3>2. r2h'[c][j] = s[i] /\ s[i] \in pending
            BY <2>2, <2>7, <3>1
        <3>3. ASSUME NEW p \in pending, p.seq < s[i].seq
              PROVE  Ahead(c, p, j)'
            <4>1. PICK h \in 1..k : s[h] = p
                BY <2>5
            <4>2. h < i
                <5>1. CASE h = i
                    BY <2>7, <3>3, <4>1, <5>1
                <5>2. CASE h > i
                    BY <2>6, <2>7, <3>3, <4>1, <5>2
                <5> QED
                    BY <5>1, <5>2
            <4> QED
                BY <2>8, <3>1, <4>1, <4>2
        <3> QED
            BY <3>2, <3>3 DEF PendingInv
    <2>10. FlowInv(c)'
        <3> SUFFICES ASSUME NEW p \in pending
                     PROVE  Ahead(c, p, n + 1 + k + 1)'
            BY <1>9, <2>2 DEF FlowInv
        <3>1. PICK h \in 1..k : s[h] = p
            BY <2>5
        <3>2. n + 1 + k + 1 \in 1..(n + 1 + k + 1) /\ n + 1 + h < n + 1 + k + 1
            OBVIOUS
        <3> QED
            BY <2>8, <3>1, <3>2
    <2>11. StreamOf(c)'
        BY <1>10, <2>9, <2>10 DEF StreamOf
    <2>12. StreamInv'
        BY <1>2, <1>3, <2>11, CurrentStream
    <2> QED
        BY <1>7, <1>8, <2>3, <2>12
<1> QED
    BY <1>11, <1>12
\* An ack queues no line.
LEMMA AckSpool ==
    ASSUME DeliveryInv, RunnerAck
    PROVE  Spooled' = Spooled
<1> USE RunnerTypes DEF DeliveryInv
<1>1. /\ UNCHANGED spoolLog /\ jobs \in Seq(Job)
      /\ jobs' = jobs \/ jobs' = Append(jobs, [op |-> "ack"])
    BY DEF RunnerAck, runnerVars, spoolVars, TypeOK
<1>2. CASE jobs' = jobs
    BY <1>1, <1>2 DEF Spooled
<1>3. CASE jobs' = Append(jobs, [op |-> "ack"])
    <2>1. PICK job \in Job : job = [op |-> "ack"]
        BY JobFacts
    <2>2. /\ Len(jobs) \in Nat /\ Len(jobs') = Len(jobs) + 1 /\ jobs'[Len(jobs) + 1] = job
          /\ \A i \in 1..Len(jobs) : jobs'[i] = jobs[i]
        BY <1>1, <1>3, <2>1, AppendFacts
    <2>3. job.op # "append"
        BY <2>1
    <2>4. {k \in 1..Len(jobs') : jobs'[k].op = "append"} = {k \in 1..Len(jobs) : jobs[k].op = "append"}
        BY <2>2, <2>3
    <2> QED
        BY <1>1, <2>2, <2>4 DEF Spooled
<1> QED
    BY <1>1, <1>2, <1>3

LEMMA AckKeeps ==
    ASSUME DeliveryInv, RunnerAck
    PROVE  ProcessInv' /\ PendingInv' /\ SpoolInv' /\ HostInv' /\ StreamInv'
           /\ NoLossWhileUp' /\ SpoolSurvives'
<1> USE RunnerTypes DEF DeliveryInv
<1>1. PICK c \in Conn : c = cur
    BY DEF RunnerAck, TypeOK, LinkTypeOK
<1>2. /\ h2r[c] # <<>> /\ h2r' = [h2r EXCEPT ![c] = Tail(@)] /\ cur # NoConn
      /\ h2r[c] \in Seq(Nat)
      /\ UNCHANGED <<cur, phase, r2h, hostEnd, batch, rows, up, boot, emits, sendSeq, disabled,
                      spoolLog, tornTail, diskAck, durable>>
    BY <1>1 DEF RunnerAck, hostVars, storeVars, runnerVars, spoolVars, TypeOK, LinkTypeOK
<1>3. up /\ Recorded' = Recorded
    BY <1>2 DEF ProcessInv, Recorded
<1>4. StreamOf(c)
    BY <1>1, <1>2 DEF StreamInv
<1>5. /\ Len(h2r[c]) \in Nat \ {0} /\ Head(h2r[c]) = h2r[c][1] /\ h2r[c][1] \in Nat
      /\ h2r'[c] = Tail(h2r[c]) /\ Len(h2r'[c]) = Len(h2r[c]) - 1
      /\ \A i \in 1..(Len(h2r[c]) - 1) : h2r'[c][i] = h2r[c][i + 1]
    BY <1>2, TailFacts DEF TypeOK, LinkTypeOK
<1>6. PICK n \in Nat : n = h2r[c][1]
    BY <1>5
<1>7. n <= sendSeq /\ \A p \in pending : p.seq <= n => p.ev \in Recorded
    <2>1. 1 \in 1..Len(h2r[c])
        BY <1>5
    <2> QED
        BY <1>4, <1>6, <2>1 DEF StreamOf, AckInv
<1>8. \/ /\ UNCHANGED <<ackSeq, pending, spoolAck, jobs>>
      \/ /\ n > ackSeq /\ ackSeq' = n /\ pending' = {e \in pending : e.seq > n}
         /\ \/ UNCHANGED <<spoolAck, jobs>>
            \/ spoolAck' = n /\ jobs' = Append(jobs, [op |-> "ack"])
    BY <1>1, <1>5, <1>6, Zenon DEF RunnerAck, runnerVars, spoolVars
<1>9. ackSeq' \in Nat /\ ackSeq <= ackSeq' /\ ackSeq' <= sendSeq
    BY <1>7, <1>8 DEF PendingInv
<1>10. pending' = {e \in pending : e.seq > ackSeq'}
    BY <1>8 DEF PendingInv
<1>11. \A p \in pending : p.seq <= ackSeq' => p.ev \in Recorded
    BY <1>7, <1>8 DEF PendingInv
<1>12. ProcessInv' /\ HostInv' /\ SpoolSurvives'
    BY <1>2, <1>3 DEF ProcessInv, HostInv, SpoolSurvives
<1>13. PendingInv'
    BY <1>2, <1>9, <1>10 DEF PendingInv
<1>14. NoLossWhileUp'
    <2>1. \A p \in pending : p.ev \in Recorded \/ p \in pending'
        BY <1>9, <1>10, <1>11
    <2> QED
        BY <1>2, <1>3, <2>1 DEF NoLossWhileUp
<1>15. Spooled' = Spooled
    BY AckSpool
<1>16. SpoolInv'
    <2>1. diskAck' <= spoolAck' /\ spoolAck' <= ackSeq'
        BY <1>2, <1>3, <1>8 DEF SpoolInv
    <2>2. \A e \in Spooled' : (e.seq <= ackSeq' /\ e.ev \in Recorded') \/ e \in pending'
        BY <1>3, <1>9, <1>10, <1>11, <1>15 DEF SpoolInv
    <2> QED
        BY <1>2, <1>3, <1>15, <2>1, <2>2 DEF SpoolInv
<1>17. StreamInv'
    <2>1. \A i : Ready(c, i)' <=> Ready(c, i)
        BY <1>2 DEF Ready
    <2>2. \A e, i : Ahead(c, e, i)' <=> Ahead(c, e, i)
        BY <1>2, <1>3, <2>1 DEF Ahead, InBatch, InQueue
    <2>3. pending' \subseteq pending
        BY <1>10
    <2>4. OpenInv(c)' /\ QueueInv(c)' /\ FlowInv(c)'
        BY <1>2, <1>4, <2>1, <2>2, <2>3 DEF StreamOf, OpenInv, QueueInv, FlowInv
    <2>5. BatchInv(c)'
        BY <1>2, <1>3, <1>4, <2>3 DEF StreamOf, BatchInv, InOrder
    <2>6. AckInv(c)'
        <3>1. \A i \in 1..(Len(h2r[c]) - 1) : i + 1 \in 1..Len(h2r[c])
            BY <1>5
        <3> QED
            BY <1>2, <1>3, <1>4, <1>5, <2>3, <3>1 DEF StreamOf, AckInv
    <2>7. StreamOf(c)'
        BY <2>4, <2>5, <2>6 DEF StreamOf
    <2> QED
        BY <1>1, <1>2, <2>7, CurrentStream
<1> QED
    BY <1>12, <1>13, <1>14, <1>16, <1>17

-----------------------------------------------------------------------------
(* The theorems.                                                           *)

\* Under these assumptions DeliveryInv is inductive.
NoDiskFault == "storeError" \notin Faults /\ "tornAppend" \notin Faults

LEMMA DeliveryInit == Init => DeliveryInv
<1> SUFFICES ASSUME Init PROVE DeliveryInv
    OBVIOUS
<1>1. TypeOK
    BY TypeInit
<1>2. ProcessInv /\ PendingInv /\ HostInv
    BY DEF Init, ProcessInv, PendingInv, HostInv
<1>3. SpoolInv
    <2>1. Spooled = {}
        BY DEF Init, Spooled
    <2> QED
        BY <2>1 DEF Init, SpoolInv
<1>4. StreamInv /\ NoLossWhileUp /\ SpoolSurvives
    BY DEF Init, StreamInv, NoLossWhileUp, SpoolSurvives
<1> QED
    BY <1>1, <1>2, <1>3, <1>4 DEF DeliveryInv

LEMMA DeliveryStep ==
    ASSUME NoDiskFault, DeliveryInv, [Next]_vars
    PROVE  DeliveryInv'
<1>1. TypeOK'
    BY TypeStep DEF DeliveryInv
<1>2. CASE RunnerStart
    BY <1>1, <1>2, StartKeeps DEF DeliveryInv
<1>3. CASE RunnerCrash
    BY <1>1, <1>3, CrashKeeps DEF DeliveryInv, NoDiskFault
<1>4. ASSUME NEW out \in BOOLEAN, RunnerEmit(out)
      PROVE  DeliveryInv'
    BY <1>1, <1>4, EmitKeeps DEF DeliveryInv
<1>5. CASE SpoolAppend \/ SpoolSaveAck
    BY <1>1, <1>5, DiskWriteKeeps DEF DeliveryInv
<1>6. CASE RunnerHello
    BY <1>1, <1>6, HelloSentKeeps DEF DeliveryInv
<1>7. CASE RunnerAck
    BY <1>1, <1>7, AckKeeps DEF DeliveryInv
<1>8. CASE RunnerConnClosed
    BY <1>1, <1>8, ClosedKeeps DEF DeliveryInv
<1>9. ASSUME NEW c \in Conn, RunnerConnect(c)
      PROVE  DeliveryInv'
    BY <1>1, <1>9, ConnectKeeps DEF DeliveryInv
<1>10. CASE HostStep
    <2>1. HostInv' /\ StreamInv' /\ UNCHANGED RunnerSide /\ Recorded \subseteq Recorded'
        BY <1>10, HostStepKeeps DEF DeliveryInv, NoDiskFault
    <2>2. ProcessInv' /\ PendingInv' /\ SpoolInv' /\ NoLossWhileUp' /\ SpoolSurvives'
        BY <2>1, RunnerSideKept DEF DeliveryInv, RunnerSide
    <2> QED
        BY <1>1, <2>1, <2>2 DEF DeliveryInv
<1>11. CASE UNCHANGED vars
    <2>1. /\ UNCHANGED RunnerSide /\ UNCHANGED <<rows, r2h, h2r, batch, hostEnd>>
          /\ UNCHANGED <<pending, sendSeq, cur, phase>>
        BY <1>11 DEF vars, RunnerSide, runnerVars, linkVars, hostVars, storeVars
    <2>2. Recorded \subseteq Recorded'
        BY <2>1, RecordedGrows
    <2>3. HostInv' /\ StreamInv'
        <3>1. TypeOK /\ HostInv /\ StreamInv
            BY DEF DeliveryInv
        <3>2. PICK C \in SUBSET Conn : C = {}
            OBVIOUS
        <3>3. \A c \in C : hostEnd'[c] = "none" /\ r2h'[c] = <<>> /\ batch'[c] = <<>>
            BY <3>2
        <3>4. \A c \in Conn \ C : /\ r2h'[c] = r2h[c]
                                 /\ batch'[c] = batch[c] /\ hostEnd'[c] = hostEnd[c]
            BY <2>1
        <3> HIDE DEF RunnerSide
        <3> QED
            BY <2>1, <2>2, <3>1, <3>3, <3>4, GoneKeeps
    <2>4. ProcessInv' /\ PendingInv' /\ SpoolInv' /\ NoLossWhileUp' /\ SpoolSurvives'
        BY <2>1, <2>2, RunnerSideKept DEF DeliveryInv, RunnerSide
    <2> QED
        BY <1>1, <2>3, <2>4 DEF DeliveryInv
<1> QED
    BY <1>2, <1>3, <1>4, <1>5, <1>6, <1>7, <1>8, <1>9, <1>10, <1>11 DEF Next, HostStep

\* The four places that hold an event stay consistent.
THEOREM DeliveryInductive == NoDiskFault => (Spec => []DeliveryInv)
<1> SUFFICES ASSUME NoDiskFault PROVE Spec => []DeliveryInv
    OBVIOUS
<1>1. DeliveryInv /\ [Next]_vars => DeliveryInv'
    BY DeliveryStep
<1> QED
    BY <1>1, DeliveryInit, PTL DEF Spec

\* While the runner lives, an event it emitted is in the table or pending: no
\* lost connection, replaced connection, batch or host restart loses it.
THEOREM NothingLostWhileUp == NoDiskFault => (Spec => []NoLossWhileUp)
<1> SUFFICES ASSUME NoDiskFault PROVE Spec => []NoLossWhileUp
    OBVIOUS
<1>1. DeliveryInv => NoLossWhileUp
    BY DEF DeliveryInv
<1> QED
    BY <1>1, DeliveryInductive, PTL

\* What the spool has on disk survives runner crashes until it is recorded.
THEOREM SpoolKeepsUnrecorded == NoDiskFault => (Spec => []SpoolSurvives)
<1> SUFFICES ASSUME NoDiskFault PROVE Spec => []SpoolSurvives
    OBVIOUS
<1>1. DeliveryInv => SpoolSurvives
    BY DEF DeliveryInv
<1> QED
    BY <1>1, DeliveryInductive, PTL

-----------------------------------------------------------------------------
(* The order of the events of one process.                                 *)

LEMMA EarlierFacts ==
    /\ \A x \in Event : \A y \in Earlier(x) : y[1] = x[1] /\ y[2] \in 1..(x[2] - 1) /\ y \in Event
    /\ \A x \in Event : \A n \in 1..(x[2] - 1) : <<x[1], n>> \in Earlier(x)
    /\ Earlier(Hello.ev) = {}
BY DEF Earlier, Event, Hello

\* Storing consecutive messages keeps the table in order.
LEMMA StoredInOrder ==
    ASSUME rows \subseteq Row, lastSeq \in Nat, RowsNumbered, BootFIFO,
           NEW msgs \in Seq(Env), Consecutive(msgs),
           rows' = rows \cup NewRows(msgs, Fresh(msgs, {}))
    PROVE  BootFIFO'
<1> DEFINE F == Fresh(msgs, {})
           count(i) == Cardinality({j \in F : j <= i})
<1>1. Len(msgs) \in Nat /\ F \in SUBSET (1..Len(msgs)) /\ \A i \in 1..Len(msgs) : msgs[i] \in Env
    BY DEF Fresh
<1>2. \A i \in F : /\ msgs[i].ev \notin Recorded
                   /\ \A j \in 1..(i - 1) : msgs[j].ev # msgs[i].ev
    BY DEF Fresh
<1>3. Recorded' = Recorded \cup {msgs[i].ev : i \in 1..Len(msgs)}
    <2>1. Recorded' = Recorded \cup {r.ev : r \in NewRows(msgs, F)}
        BY DEF Recorded
    <2>2. Recorded' = Recorded \cup {msgs[i].ev : i \in F}
        BY <1>1, <2>1, NewRowsFacts
    <2> QED
        BY <1>1, <2>2, FreshCovers
<1>4. /\ \A i \in F : count(i) \in Nat \ {0}
      /\ \A i, k \in F : i < k => count(i) < count(k)
    BY <1>1, BelowGrows
<1>5. \A r \in NewRows(msgs, F) : \E i \in F : r.ev = msgs[i].ev /\ r.seq = lastSeq + count(i)
    BY DEF NewRows
<1> HIDE DEF F, count
<1>6. rows' = rows \cup NewRows(msgs, F)
    BY DEF F
<1>7. \A r \in rows : r.ev \in Event /\ r.seq \in Nat /\ r.ev \in Recorded
    BY DEF Row, Recorded
<1> SUFFICES ASSUME NEW r \in rows'
             PROVE  /\ \A n \in 1..(r.ev[2] - 1) : <<r.ev[1], n>> \in Recorded'
                    /\ \A q \in rows' : q.ev[1] = r.ev[1] /\ q.ev[2] < r.ev[2] => q.seq <= r.seq
    BY DEF BootFIFO
<1>8. CASE r \in rows
    <2>1. \A n \in 1..(r.ev[2] - 1) : <<r.ev[1], n>> \in Recorded
        BY <1>8 DEF BootFIFO
    <2>2. ASSUME NEW q \in NewRows(msgs, F), q.ev[1] = r.ev[1], q.ev[2] < r.ev[2]
          PROVE  FALSE
        <3>1. PICK i \in F : q.ev = msgs[i].ev
            BY <1>5
        <3>2. msgs[i].ev \in Event
            BY <1>1, <3>1, EnvFacts
        <3>3. q.ev = <<r.ev[1], q.ev[2]>> /\ q.ev[2] \in 1..(r.ev[2] - 1)
            BY <1>7, <1>8, <2>2, <3>1, <3>2 DEF Event
        <3> QED
            BY <1>2, <2>1, <3>1, <3>3
    <2> QED
        BY <1>3, <1>6, <1>8, <2>1, <2>2 DEF BootFIFO
<1>9. CASE r \in NewRows(msgs, F)
    <2>1. PICK k \in F : r.ev = msgs[k].ev /\ r.seq = lastSeq + count(k)
        BY <1>5, <1>9
    <2>2. r.ev \in Event
        BY <1>1, <2>1, EnvFacts
    <2>3. \A n \in 1..(r.ev[2] - 1) : \/ <<r.ev[1], n>> \in Recorded
                                      \/ \E i \in 1..(k - 1) : msgs[i].ev = <<r.ev[1], n>>
        <3> TAKE n \in 1..(r.ev[2] - 1)
        <3>1. k \in 1..Len(msgs) /\ <<r.ev[1], n>> \in Earlier(msgs[k].ev)
            BY <1>1, <2>1, <2>2, EarlierFacts
        <3> QED
            BY <3>1 DEF Consecutive
    <2>4. ASSUME NEW q \in NewRows(msgs, F), q.ev[1] = r.ev[1], q.ev[2] < r.ev[2]
          PROVE  q.seq <= r.seq
        <3>1. PICK i \in F : q.ev = msgs[i].ev /\ q.seq = lastSeq + count(i)
            BY <1>5
        <3>2. msgs[i].ev \in Event
            BY <1>1, <3>1, EnvFacts
        <3>3. q.ev = <<r.ev[1], q.ev[2]>> /\ q.ev[2] \in 1..(r.ev[2] - 1)
            BY <2>2, <2>4, <3>1, <3>2 DEF Event
        <3>4. PICK l \in 1..(k - 1) : msgs[l].ev = q.ev
            BY <1>2, <2>3, <3>1, <3>3
        <3>5. i \in Nat /\ k \in Nat /\ ~(l < i)
            BY <1>1, <1>2, <3>1, <3>4
        <3>6. i < k
            BY <3>4, <3>5
        <3> QED
            BY <1>4, <2>1, <3>1, <3>6
    <2>5. \A q \in rows : q.seq <= r.seq
        BY <1>4, <1>7, <2>1 DEF RowsNumbered
    <2>6. \A n \in 1..(r.ev[2] - 1) : <<r.ev[1], n>> \in Recorded'
        <3>1. k \in 1..Len(msgs) /\ \A i \in 1..(k - 1) : i \in 1..Len(msgs)
            BY <1>1
        <3> QED
            BY <1>3, <2>3, <3>1
    <2> QED
        BY <1>6, <2>4, <2>5, <2>6
<1> QED
    BY <1>6, <1>8, <1>9

-----------------------------------------------------------------------------
(* The order in which messages arrive.                                     *)

\* A connection that a step does not touch.
LEMMA ArrivalKept ==
    ASSUME NEW c, ArrivalOf(c), Recorded \subseteq Recorded',
           r2h'[c] = r2h[c], batch'[c] = batch[c], hostEnd'[c] = hostEnd[c]
    PROVE  ArrivalOf(c)'
<1>1. \A i : Ready(c, i)' <=> Ready(c, i)
    BY DEF Ready
<1>2. \A x, i : Underway(c, x, i) => Underway(c, x, i)'
    BY <1>1 DEF Underway
<1>3. Consecutive(batch[c])'
    BY DEF ArrivalOf, Consecutive
<1> QED
    BY <1>1, <1>2, <1>3 DEF ArrivalOf, Consecutive

\* A connection that the host forgets, or that is new.
LEMMA ArrivalGone ==
    ASSUME NEW c, r2h'[c] = <<>>, batch'[c] = <<>>
    PROVE  ArrivalOf(c)'
<1>1. Len(r2h'[c]) = 0 /\ Len(batch'[c]) = 0
    OBVIOUS
<1> QED
    BY <1>1 DEF ArrivalOf, Consecutive

\* The host takes the first message, the messages behind it move up.
LEMMA ArrivalMoves ==
    ASSUME TypeOK, NEW c \in Conn, ArrivalOf(c), r2h[c] # <<>>, r2h'[c] = Tail(r2h[c]),
           Consecutive(batch[c])', Recorded \subseteq Recorded',
           \A i \in 1..Len(r2h[c]) : Ready(c, i)' => Ready(c, i + 1),
           \A j \in 2..Len(r2h[c]) : Ready(c, j) => Ready(c, j - 1)',
           \A x : (\E k \in 1..Len(batch[c]) : batch[c][k].ev = x)
                     \/ (Ready(c, 1) /\ r2h[c][1].ev = x) =>
                  x \in Recorded' \/ \E k \in 1..Len(batch'[c]) : batch'[c][k].ev = x
    PROVE  ArrivalOf(c)'
<1>1. PICK n \in Nat \ {0} :
          /\ n = Len(r2h[c]) /\ Len(r2h'[c]) = n - 1
          /\ \A i \in 1..(n - 1) : r2h'[c][i] = r2h[c][i + 1]
    BY TailFacts DEF TypeOK, LinkTypeOK
<1>2. ASSUME NEW i \in 1..(n - 1), NEW x, Underway(c, x, i + 1)
      PROVE  Underway(c, x, i)'
    <2>1. CASE x \in Recorded \/ \E k \in 1..Len(batch[c]) : batch[c][k].ev = x
        BY <2>1 DEF Underway
    <2>2. CASE \E j \in 1..(i + 1 - 1) : Ready(c, j) /\ r2h[c][j].ev = x
        <3>1. PICK j \in 1..i : Ready(c, j) /\ r2h[c][j].ev = x
            BY <2>2
        <3>2. CASE j = 1
            BY <3>1, <3>2 DEF Underway
        <3>3. CASE j # 1
            <4>1. j \in 2..n /\ j - 1 \in 1..(i - 1) /\ j - 1 \in 1..(n - 1)
                BY <3>1, <3>3, <1>1
            <4>2. Ready(c, j - 1)'
                BY <4>1, <3>1, <1>1
            <4>3. r2h'[c][j - 1].ev = x
                BY <4>1, <1>1, <3>1
            <4> QED
                BY <4>1, <4>2, <4>3 DEF Underway
        <3> QED
            BY <3>2, <3>3
    <2>3. \/ x \in Recorded \/ \E k \in 1..Len(batch[c]) : batch[c][k].ev = x
          \/ \E j \in 1..(i + 1 - 1) : Ready(c, j) /\ r2h[c][j].ev = x
        BY <1>2 DEF Underway
    <2> QED
        BY <2>1, <2>2, <2>3
<1>3. ASSUME NEW i \in 1..(n - 1), Ready(c, i)', NEW x \in Earlier(r2h'[c][i].ev)
      PROVE  Underway(c, x, i)'
    <2>1. i + 1 \in 1..n /\ Ready(c, i + 1) /\ r2h'[c][i] = r2h[c][i + 1]
        BY <1>1, <1>3
    <2>2. Underway(c, x, i + 1)
        BY <1>1, <1>3, <2>1 DEF ArrivalOf
    <2> QED
        BY <1>2, <2>2
<1> QED
    BY <1>1, <1>3 DEF ArrivalOf

LEMMA ArrivalHello ==
    ASSUME TypeOK, HostInv, NEW c \in Conn, ArrivalOf(c), HostHello(c)
    PROVE  ArrivalOf(c)'
<1>1. /\ hostEnd[c] = "fresh" /\ r2h[c] # <<>> /\ r2h' = [r2h EXCEPT ![c] = Tail(@)]
      /\ batch' = batch /\ rows' = rows
      /\ IF Head(r2h[c]) = Hello THEN hostEnd' = [hostEnd EXCEPT ![c] = "authed"]
                                 ELSE UNCHANGED hostEnd
    BY DEF HostHello, storeVars
<1>2. /\ r2h \in [Conn -> Seq(Env \cup {Hello})]
      /\ hostEnd \in [Conn -> {"none", "fresh", "authed"}]
    BY DEF TypeOK, LinkTypeOK, HostTypeOK
<1>3. batch[c] = <<>> /\ r2h'[c] = Tail(r2h[c]) /\ Recorded' = Recorded /\ Len(batch[c]) = 0
    BY <1>1, <1>2 DEF HostInv, Recorded
<1>4. /\ Len(r2h[c]) \in Nat \ {0} /\ Head(r2h[c]) = r2h[c][1]
      /\ Len(r2h'[c]) = Len(r2h[c]) - 1
      /\ \A i \in 1..(Len(r2h[c]) - 1) : r2h'[c][i] = r2h[c][i + 1]
    BY <1>1, <1>2, <1>3, TailFacts
<1>5. \A i \in 1..Len(r2h[c]) : Ready(c, i)' => Ready(c, i + 1)
    <2>1. CASE r2h[c][1] = Hello
        <3>1. \A i \in 1..Len(r2h[c]) : 1 \in 1..(i + 1 - 1)
            BY <1>4
        <3> QED
            BY <2>1, <3>1 DEF Ready
    <2>2. CASE r2h[c][1] # Hello
        <3>1. hostEnd'[c] = "fresh"
            BY <1>1, <1>2, <1>4, <2>2
        <3> QED
            BY <1>4, <3>1 DEF Ready
    <2> QED
        BY <2>1, <2>2
<1>6. \A j \in 2..Len(r2h[c]) : Ready(c, j) => Ready(c, j - 1)'
    <2>1. CASE r2h[c][1] = Hello
        <3>1. hostEnd'[c] = "authed"
            BY <1>1, <1>2, <1>4, <2>1
        <3> QED
            BY <3>1 DEF Ready
    <2>2. CASE r2h[c][1] # Hello
        <3> SUFFICES ASSUME NEW j \in 2..Len(r2h[c]), Ready(c, j)
                     PROVE  Ready(c, j - 1)'
            OBVIOUS
        <3>1. PICK h \in 1..(j - 1) : r2h[c][h] = Hello
            BY <1>1 DEF Ready
        <3>2. h - 1 \in 1..(j - 2) /\ h - 1 \in 1..(Len(r2h[c]) - 1)
            BY <1>4, <2>2, <3>1
        <3>3. r2h'[c][h - 1] = Hello
            BY <1>4, <3>1, <3>2
        <3> QED
            BY <3>2, <3>3 DEF Ready
    <2> QED
        BY <2>1, <2>2
<1>7. ~Ready(c, 1) /\ Consecutive(batch[c])'
    BY <1>1, <1>3 DEF Ready, Consecutive
<1> QED
    BY <1>1, <1>3, <1>5, <1>6, <1>7, ArrivalMoves

\* The first message of an accepted connection comes after its batch.
LEMMA ConsecutiveAppend ==
    ASSUME TypeOK, NEW c \in Conn, ArrivalOf(c), hostEnd[c] = "authed",
           r2h[c] # <<>>, Head(r2h[c]) # Hello
    PROVE  /\ Consecutive(Append(batch[c], Head(r2h[c])))
           /\ Append(batch[c], Head(r2h[c])) \in Seq(Env)
<1> DEFINE m == Head(r2h[c])
           msgs == Append(batch[c], m)
<1>1. batch[c] \in Seq(Env) /\ r2h[c] \in Seq(Env \cup {Hello})
    BY DEF TypeOK, HostTypeOK, LinkTypeOK
<1>2. m = r2h[c][1] /\ 1 \in 1..Len(r2h[c]) /\ m \in Env
    <2>1. Len(r2h[c]) \in Nat \ {0} /\ m = r2h[c][1] /\ m \in Env \cup {Hello}
        BY <1>1, TailFacts
    <2> QED
        BY <2>1
<1> HIDE DEF m
<1>3. /\ Len(batch[c]) \in Nat /\ Len(msgs) = Len(batch[c]) + 1
      /\ msgs[Len(batch[c]) + 1] = m /\ msgs \in Seq(Env)
      /\ \A i \in 1..Len(batch[c]) : msgs[i] = batch[c][i]
    BY <1>1, <1>2, AppendFacts
<1> HIDE DEF msgs
<1>4. \A x \in Earlier(m.ev) : Underway(c, x, 1)
    BY <1>2 DEF ArrivalOf, Ready
<1>5. ASSUME NEW k \in 1..Len(msgs), NEW x \in Earlier(msgs[k].ev)
      PROVE  x \in Recorded \/ \E i \in 1..(k - 1) : msgs[i].ev = x
    <2>1. CASE k \in 1..Len(batch[c])
        <3>1. msgs[k] = batch[c][k] /\ \A i \in 1..(k - 1) : msgs[i] = batch[c][i]
            BY <1>3, <2>1
        <3> QED
            BY <1>5, <2>1, <3>1 DEF ArrivalOf, Consecutive
    <2>2. CASE k = Len(batch[c]) + 1
        <3>1. x \in Recorded \/ \E i \in 1..Len(batch[c]) : batch[c][i].ev = x
            BY <1>3, <1>4, <1>5, <2>2 DEF Underway
        <3> QED
            BY <1>3, <2>2, <3>1
    <2> QED
        BY <1>3, <2>1, <2>2
<1> QED
    BY <1>3, <1>5 DEF Consecutive, msgs, m

LEMMA PersistOrder ==
    ASSUME TypeOK, "storeError" \notin Faults, RowsNumbered, BootFIFO,
           NEW msgs \in Seq(Env), Consecutive(msgs), Persist(msgs)
    PROVE  /\ RowsNumbered' /\ BootFIFO'
           /\ Recorded' = Recorded \cup {msgs[i].ev : i \in 1..Len(msgs)}
<1>1. rows \subseteq Row /\ lastSeq \in Nat
    BY DEF TypeOK, StoreTypeOK
<1> DEFINE F == Fresh(msgs, {})
<1>2. rows' = rows \cup NewRows(msgs, F) /\ lastSeq' = lastSeq + Cardinality(F)
    BY DEF Persist, Failures
<1>3. F \in SUBSET (1..Len(msgs))
    BY DEF Fresh
<1>4. BootFIFO'
    BY <1>1, <1>2, StoredInOrder
<1> HIDE DEF F
<1>5. /\ \A r \in NewRows(msgs, F) : r \in Row /\ r.seq <= lastSeq + Cardinality(F)
      /\ Cardinality(F) \in Nat
    BY <1>1, <1>3, NewRowsSeqs, NewRowsFacts
<1>6. \A r \in rows \cup NewRows(msgs, F) : r.seq \in Nat
    BY <1>1, <1>5 DEF Row
<1>7. RowsNumbered'
    BY <1>1, <1>2, <1>5, <1>6 DEF RowsNumbered
<1>8. Recorded' = Recorded \cup {msgs[i].ev : i \in 1..Len(msgs)}
    BY <1>1, PersistRecords
<1> QED
    BY <1>4, <1>7, <1>8

\* The first message of an accepted connection is queued or stored.
LEMMA ArrivalTaken ==
    ASSUME TypeOK, NEW c \in Conn, ArrivalOf(c), hostEnd[c] = "authed", hostEnd'[c] = "authed",
           r2h[c] # <<>>, Head(r2h[c]) # Hello, r2h'[c] = Tail(r2h[c]),
           NEW msgs, msgs = Append(batch[c], Head(r2h[c])),
           \/ batch'[c] = msgs /\ Recorded' = Recorded
           \/ batch'[c] = <<>> /\ Recorded' = Recorded \cup {msgs[i].ev : i \in 1..Len(msgs)}
    PROVE  ArrivalOf(c)'
<1>1. Consecutive(msgs)
    BY ConsecutiveAppend
<1>2. Recorded \subseteq Recorded'
    OBVIOUS
<1>3. Consecutive(batch[c])'
    <2>1. CASE batch'[c] = msgs
        BY <1>1, <1>2, <2>1 DEF Consecutive
    <2>2. CASE batch'[c] = <<>>
        BY <2>2 DEF Consecutive
    <2> QED
        BY <2>1, <2>2
<1>4. \A i : Ready(c, i) /\ Ready(c, i)'
    BY DEF Ready
<1>5. /\ \A i \in 1..Len(batch[c]) : i \in 1..Len(msgs) /\ msgs[i] = batch[c][i]
      /\ Len(batch[c]) + 1 \in 1..Len(msgs) /\ msgs[Len(batch[c]) + 1] = r2h[c][1]
    <2>1. /\ batch[c] \in Seq(Env) /\ r2h[c] \in Seq(Env \cup {Hello})
          /\ Head(r2h[c]) = r2h[c][1] /\ Head(r2h[c]) \in Env \cup {Hello}
        BY TailFacts DEF TypeOK, HostTypeOK, LinkTypeOK
    <2>2. Head(r2h[c]) \in Env
        BY <2>1
    <2> QED
        BY <2>1, <2>2, AppendFacts
<1>6. ASSUME NEW x, (\E k \in 1..Len(batch[c]) : batch[c][k].ev = x) \/ r2h[c][1].ev = x
      PROVE  x \in Recorded' \/ \E k \in 1..Len(batch'[c]) : batch'[c][k].ev = x
    <2>1. PICK k \in 1..Len(msgs) : msgs[k].ev = x
        BY <1>5, <1>6
    <2> QED
        BY <2>1
<1> QED
    BY <1>2, <1>3, <1>4, <1>6, ArrivalMoves

\* The batch of a connection is stored.
LEMMA ArrivalFlushed ==
    ASSUME NEW c, ArrivalOf(c), hostEnd'[c] = hostEnd[c], r2h'[c] = r2h[c],
           batch'[c] = <<>>,
           Recorded' = Recorded \cup {batch[c][i].ev : i \in 1..Len(batch[c])}
    PROVE  ArrivalOf(c)'
<1>1. \A i : Ready(c, i)' <=> Ready(c, i)
    BY DEF Ready
<1>2. \A x, i : Underway(c, x, i) => Underway(c, x, i)'
    BY <1>1 DEF Underway
<1>3. Consecutive(batch[c])'
    BY DEF Consecutive
<1> QED
    BY <1>1, <1>2, <1>3 DEF ArrivalOf

\* Whatever a step leaves alone stays in order.
LEMMA ArrivalOfOthers ==
    ASSUME NEW c, ArrivalOrder, ArrivalOf(c)', Recorded \subseteq Recorded',
           \A d \in Conn \ {c} : /\ r2h'[d] = r2h[d] /\ batch'[d] = batch[d]
                                 /\ hostEnd'[d] = hostEnd[d]
    PROVE  ArrivalOrder'
<1>1. ASSUME NEW d \in Conn \ {c}
      PROVE  ArrivalOf(d)'
    BY ArrivalKept DEF ArrivalOrder
<1>2. ASSUME NEW d \in Conn, d = c
      PROVE  ArrivalOf(d)'
    BY <1>2
<1> QED
    BY <1>1, <1>2 DEF ArrivalOrder

LEMMA HostStepOrder ==
    ASSUME TypeOK, HostInv, ArrivalOrder, RowsNumbered, BootFIFO,
           "storeError" \notin Faults, HostStep
    PROVE  ArrivalOrder' /\ RowsNumbered' /\ BootFIFO'
<1>1. /\ r2h \in [Conn -> Seq(Env \cup {Hello})] /\ batch \in [Conn -> Seq(Env)]
      /\ hostEnd \in [Conn -> {"none", "fresh", "authed"}]
      /\ rows \subseteq Row /\ lastSeq \in Nat
    BY DEF TypeOK, LinkTypeOK, HostTypeOK, StoreTypeOK
<1>2. ASSUME UNCHANGED storeVars
      PROVE  RowsNumbered' /\ BootFIFO' /\ Recorded' = Recorded
    BY <1>2 DEF storeVars, RowsNumbered, BootFIFO, Recorded
<1>3. ASSUME NEW c \in Conn, HostHello(c)
      PROVE  ArrivalOrder' /\ RowsNumbered' /\ BootFIFO'
    <2>1. /\ UNCHANGED storeVars
          /\ \A d \in Conn \ {c} : /\ r2h'[d] = r2h[d] /\ batch'[d] = batch[d]
                                   /\ hostEnd'[d] = hostEnd[d]
        BY <1>1, <1>3 DEF HostHello
    <2>2. ArrivalOf(c)'
        BY <1>3, ArrivalHello DEF ArrivalOrder
    <2> QED
        BY <1>2, <2>1, <2>2, ArrivalOfOthers
<1>4. ASSUME NEW c \in Conn, HostOutput(c) \/ HostEvent(c)
      PROVE  ArrivalOrder' /\ RowsNumbered' /\ BootFIFO'
    <2> DEFINE msgs == Append(batch[c], Head(r2h[c]))
    <2>1. /\ hostEnd[c] = "authed" /\ r2h[c] # <<>> /\ Head(r2h[c]) # Hello
          /\ r2h' = [r2h EXCEPT ![c] = Tail(@)] /\ hostEnd' = hostEnd
          /\ \/ Persist(msgs) /\ batch' = [batch EXCEPT ![c] = <<>>]
             \/ batch' = [batch EXCEPT ![c] = msgs] /\ UNCHANGED storeVars
        BY <1>4, EnvFacts DEF HostOutput, HostEvent
    <2>2. Consecutive(msgs) /\ msgs \in Seq(Env)
        BY <2>1, ConsecutiveAppend DEF ArrivalOrder
    <2>3. r2h'[c] = Tail(r2h[c]) /\ hostEnd'[c] = "authed" /\ ArrivalOf(c)
        BY <1>1, <2>1 DEF ArrivalOrder
    <2>4. \A d \in Conn \ {c} : /\ r2h'[d] = r2h[d] /\ batch'[d] = batch[d]
                                /\ hostEnd'[d] = hostEnd[d]
        BY <1>1, <2>1
    <2> HIDE DEF msgs
    <2>5. CASE Persist(msgs) /\ batch' = [batch EXCEPT ![c] = <<>>]
        <3>1. /\ RowsNumbered' /\ BootFIFO' /\ batch'[c] = <<>>
              /\ Recorded' = Recorded \cup {msgs[i].ev : i \in 1..Len(msgs)}
            BY <1>1, <2>2, <2>5, PersistOrder
        <3>2. ArrivalOf(c)'
            BY <2>1, <2>3, <3>1, ArrivalTaken DEF msgs
        <3> QED
            BY <2>4, <3>1, <3>2, ArrivalOfOthers
    <2>6. CASE batch' = [batch EXCEPT ![c] = msgs] /\ UNCHANGED storeVars
        <3>1. RowsNumbered' /\ BootFIFO' /\ batch'[c] = msgs /\ Recorded' = Recorded
            BY <1>1, <1>2, <2>6
        <3>2. ArrivalOf(c)'
            BY <2>1, <2>3, <3>1, ArrivalTaken DEF msgs
        <3> QED
            BY <2>4, <3>1, <3>2, ArrivalOfOthers
    <2> QED
        BY <2>1, <2>5, <2>6 DEF msgs
<1>5. ASSUME NEW c \in Conn, HostFlush(c) \/ HostConnClosed(c)
      PROVE  ArrivalOrder' /\ RowsNumbered' /\ BootFIFO'
    <2>1. Persist(batch[c]) /\ batch' = [batch EXCEPT ![c] = <<>>] /\ batch[c] \in Seq(Env)
        BY <1>1, <1>5 DEF HostFlush, HostConnClosed
    <2>2. ArrivalOf(c) /\ Consecutive(batch[c])
        BY DEF ArrivalOrder, ArrivalOf
    <2>3. /\ RowsNumbered' /\ BootFIFO' /\ batch'[c] = <<>>
          /\ Recorded' = Recorded \cup {batch[c][i].ev : i \in 1..Len(batch[c])}
        BY <1>1, <2>1, <2>2, PersistOrder
    <2>4. \A d \in Conn \ {c} : /\ r2h'[d] = r2h[d] /\ batch'[d] = batch[d]
                                /\ hostEnd'[d] = hostEnd[d]
        BY <1>1, <1>5, <2>1 DEF HostFlush, HostConnClosed
    <2>5. ArrivalOf(c)'
        <3>1. CASE HostFlush(c)
            BY <2>2, <2>3, <3>1, ArrivalFlushed DEF HostFlush
        <3>2. CASE HostConnClosed(c)
            <4>1. r2h'[c] = <<>>
                BY <1>1, <3>2 DEF HostConnClosed
            <4> QED
                BY <2>3, <4>1, ArrivalGone
        <3> QED
            BY <1>5, <3>1, <3>2
    <2> QED
        BY <2>3, <2>4, <2>5, ArrivalOfOthers
<1>6. ASSUME HostGone
      PROVE  ArrivalOrder'
    <2>1. \A d \in Conn : r2h'[d] = <<>> /\ batch'[d] = <<>>
        BY <1>6 DEF HostGone
    <2> QED
        BY <2>1, ArrivalGone DEF ArrivalOrder
<1>7. ASSUME NEW c \in Conn, HostDiesMidAppend(c)
      PROVE  ArrivalOrder' /\ RowsNumbered' /\ BootFIFO'
    <2> DEFINE msgs == Append(batch[c], Head(r2h[c]))
               F == Fresh(msgs, {})
    <2>1. /\ hostEnd[c] = "authed" /\ r2h[c] # <<>> /\ Head(r2h[c]) # Hello
          /\ rows' = rows \cup NewRows(msgs, F) /\ F # {}
          /\ lastSeq' = lastSeq + Cardinality(F) - 1 /\ HostGone
        BY <1>7 DEF HostDiesMidAppend
    <2>2. Consecutive(msgs) /\ msgs \in Seq(Env)
        BY <2>1, ConsecutiveAppend DEF ArrivalOrder
    <2>3. F \in SUBSET (1..Len(msgs))
        BY DEF Fresh
    <2>4. BootFIFO'
        BY <1>1, <2>1, <2>2, StoredInOrder
    <2> HIDE DEF msgs, F
    <2>5. /\ \A r \in NewRows(msgs, F) : r \in Row /\ r.seq <= lastSeq + Cardinality(F)
          /\ Cardinality(F) \in Nat \ {0}
        <3>1. /\ NewRows(msgs, F) \subseteq Row /\ Cardinality(F) \in Nat
              /\ F # {} => Cardinality(F) > 0
            BY <1>1, <2>2, <2>3, NewRowsFacts
        <3>2. \A r \in NewRows(msgs, F) : r.seq <= lastSeq + Cardinality(F)
            BY <1>1, <2>2, <2>3, NewRowsSeqs
        <3> QED
            BY <2>1, <3>1, <3>2
    <2>6. \A r \in rows \cup NewRows(msgs, F) : r.seq \in Nat
        BY <1>1, <2>5 DEF Row
    <2>7. RowsNumbered'
        BY <1>1, <2>1, <2>5, <2>6 DEF RowsNumbered
    <2> QED
        BY <1>6, <2>1, <2>4, <2>7
<1>8. CASE HostRestart
    BY <1>2, <1>6, <1>8 DEF HostRestart
<1>9. CASE HostDisconnect
    <2>1. UNCHANGED storeVars /\ UNCHANGED <<r2h, batch, hostEnd>>
        BY <1>9 DEF HostDisconnect, linkVars
    <2>2. \A d \in Conn : ArrivalOf(d)'
        BY <1>2, <2>1, ArrivalKept DEF ArrivalOrder
    <2> QED
        BY <1>2, <2>1, <2>2 DEF ArrivalOrder
<1> QED
    BY <1>3, <1>4, <1>5, <1>7, <1>8, <1>9 DEF HostStep

-----------------------------------------------------------------------------
(* The order in the spool, in pending and in what is sent.                 *)

\* The table grows, and the runner's side of the state stays.
LEMMA SpoolOrderKept ==
    ASSUME SpoolOrder, Recorded \subseteq Recorded',
           UNCHANGED <<up, disabled, pending, spoolLog, jobs>>
    PROVE  SpoolOrder'
<1>1. Spooled' = Spooled
    BY DEF Spooled
<1>2. InEmitOrder(pending)' /\ InEmitOrder(spoolLog)' /\ JobsInOrder'
    BY DEF SpoolOrder, InEmitOrder, JobsInOrder
<1> QED
    BY <1>1, <1>2 DEF SpoolOrder

LEMMA StartOrder ==
    ASSUME DeliveryInv, SpoolOrder, RunnerStart
    PROVE  SpoolOrder'
<1>1. /\ pending' = {e \in spoolLog : e.seq > diskAck} /\ jobs' = <<>> /\ Len(jobs') = 0
      /\ spoolLog' = spoolLog /\ Recorded' = Recorded
    BY DEF RunnerStart, storeVars, Recorded
<1>2. \A e \in spoolLog : e.seq \in Nat /\ diskAck \in Nat
    BY RunnerTypes DEF DeliveryInv
<1>3. \A e \in spoolLog : e.seq <= diskAck => e.ev \in Recorded
    BY DEF DeliveryInv, SpoolInv
<1>4. InEmitOrder(spoolLog)'
    BY <1>1 DEF SpoolOrder, InEmitOrder
<1>5. InEmitOrder(pending)'
    <2> SUFFICES ASSUME NEW e \in pending', NEW x \in Earlier(e.ev), x \notin Recorded
                 PROVE  \E d \in pending' : d.ev = x /\ d.seq < e.seq
        BY <1>1 DEF InEmitOrder
    <2>1. PICK d \in spoolLog : d.ev = x /\ d.seq < e.seq
        BY <1>1 DEF SpoolOrder, InEmitOrder
    <2>2. d \in pending'
        BY <1>1, <1>2, <1>3, <2>1
    <2> QED
        BY <2>1, <2>2
<1>6. pending' \subseteq Spooled'
    BY <1>1 DEF Spooled
<1> QED
    BY <1>1, <1>4, <1>5, <1>6 DEF SpoolOrder, JobsInOrder

LEMMA CrashOrder ==
    ASSUME SpoolOrder, RunnerCrash
    PROVE  SpoolOrder'
<1>1. pending' = {} /\ jobs' = <<>> /\ Len(jobs') = 0 /\ ~up' /\ UNCHANGED <<spoolLog, rows>>
    BY DEF RunnerCrash, storeVars
<1> QED
    BY <1>1 DEF SpoolOrder, InEmitOrder, JobsInOrder, Recorded

\* A disk write with the compaction after it: what is dropped is recorded.
LEMMA DiskWriteOrder ==
    ASSUME DeliveryInv, SpoolOrder, SpoolAppend \/ SpoolSaveAck
    PROVE  SpoolOrder'
<1> USE RunnerTypes DEF DeliveryInv
<1>1. /\ up /\ jobs # <<>> /\ jobs' = Tail(jobs) /\ UNCHANGED <<up, pending, rows>>
    BY DEF SpoolAppend, SpoolSaveAck, runnerVars, storeVars
<1>2. ~tornTail /\ Recorded' = Recorded
    BY <1>1 DEF ProcessInv, Recorded
<1>3. /\ Len(jobs) \in Nat \ {0} /\ Head(jobs) = jobs[1] /\ Len(jobs') = Len(jobs) - 1
      /\ \A i \in 1..(Len(jobs) - 1) : jobs'[i] = jobs[i + 1]
    BY <1>1, TailFacts
<1> DEFINE written == IF jobs[1].op = "append" THEN {jobs[1].env} ELSE {}
<1>4. /\ spoolLog' \subseteq spoolLog \cup written
      /\ \A e \in spoolLog \cup written : e.seq > spoolAck => e \in spoolLog'
      /\ ~disabled' => ~disabled
    <2>1. CASE SpoolAppend
        BY <1>2, <1>3, <2>1 DEF SpoolAppend, MaybeCompact
    <2>2. CASE SpoolSaveAck
        BY <1>2, <1>3, <2>2 DEF SpoolSaveAck, MaybeCompact
    <2> QED
        BY <2>1, <2>2
<1>5. spoolLog \cup written \subseteq Spooled
    BY <1>3 DEF Spooled
<1>6. \A e \in spoolLog \cup written : e \in spoolLog' \/ (e \notin pending /\ e.ev \in Recorded)
    <2> TAKE e \in spoolLog \cup written
    <2>1. e \in Spooled /\ e.seq \in Nat
        BY <1>5
    <2>2. (e.seq <= ackSeq /\ e.ev \in Recorded) \/ e \in pending
        BY <1>1, <2>1 DEF SpoolInv
    <2>3. e \in pending => e.seq > spoolAck
        BY <1>1, <2>1 DEF SpoolInv, PendingInv
    <2> QED
        BY <1>4, <2>2, <2>3
<1>7. \A i \in 1..Len(jobs) : jobs[i].op = "append" => jobs[i].env \in Env /\ jobs[i].env.seq \in Nat
    <2>1. \A i \in 1..Len(jobs) : jobs[i] \in Job
        OBVIOUS
    <2> QED
        BY <2>1, JobFacts, EnvFacts
<1>8. InEmitOrder(spoolLog)'
    <2> SUFFICES ASSUME NEW e \in spoolLog', NEW x \in Earlier(e.ev), x \notin Recorded
                 PROVE  \E d \in spoolLog' : d.ev = x /\ d.seq < e.seq
        BY <1>2 DEF InEmitOrder
    <2>1. \E d \in spoolLog : d.ev = x /\ d.seq < e.seq
        <3>1. CASE e \in spoolLog
            BY <3>1 DEF SpoolOrder, InEmitOrder
        <3>2. CASE e \in written
            <4>1. jobs[1].op = "append" /\ e = jobs[1].env /\ 1 \in 1..Len(jobs)
                BY <1>3, <3>2
            <4> QED
                BY <4>1 DEF SpoolOrder, JobsInOrder
        <3> QED
            BY <1>4, <3>1, <3>2
    <2> QED
        BY <1>6, <2>1
<1>9. JobsInOrder'
    <2> SUFFICES ASSUME NEW i \in 1..Len(jobs'), jobs'[i].op = "append",
                        NEW x \in Earlier(jobs'[i].env.ev), x \notin Recorded
                 PROVE  \/ \E d \in spoolLog' : d.ev = x /\ d.seq < jobs'[i].env.seq
                        \/ \E k \in 1..(i - 1) : /\ jobs'[k].op = "append" /\ jobs'[k].env.ev = x
                                                 /\ jobs'[k].env.seq < jobs'[i].env.seq
        BY <1>2, Zenon DEF JobsInOrder
    <2>1. i + 1 \in 1..Len(jobs) /\ i \in 1..(Len(jobs) - 1) /\ jobs'[i] = jobs[i + 1]
        BY <1>3
    <2>2. \/ \E d \in spoolLog : d.ev = x /\ d.seq < jobs[i + 1].env.seq
          \/ \E k \in 1..i : /\ jobs[k].op = "append" /\ jobs[k].env.ev = x
                             /\ jobs[k].env.seq < jobs[i + 1].env.seq
        <3>1. \/ \E d \in spoolLog : d.ev = x /\ d.seq < jobs[i + 1].env.seq
              \/ \E k \in 1..(i + 1 - 1) : /\ jobs[k].op = "append" /\ jobs[k].env.ev = x
                                            /\ jobs[k].env.seq < jobs[i + 1].env.seq
            BY <2>1 DEF SpoolOrder, JobsInOrder
        <3> QED
            BY <3>1
    <2>3. CASE \E d \in spoolLog : d.ev = x /\ d.seq < jobs[i + 1].env.seq
        BY <1>6, <2>1, <2>3
    <2>4. CASE \E k \in 1..i : /\ jobs[k].op = "append" /\ jobs[k].env.ev = x
                               /\ jobs[k].env.seq < jobs[i + 1].env.seq
        <3>1. PICK k \in 1..i : /\ jobs[k].op = "append" /\ jobs[k].env.ev = x
                                /\ jobs[k].env.seq < jobs[i + 1].env.seq
            BY <2>4
        <3>2. CASE k = 1
            <4>1. jobs[k].env \in written
                BY <3>1, <3>2
            <4> QED
                BY <1>6, <2>1, <3>1, <4>1
        <3>3. CASE k # 1
            <4>1. k - 1 \in 1..(i - 1) /\ k - 1 \in 1..(Len(jobs) - 1)
                BY <1>3, <3>3
            <4>2. jobs'[k - 1] = jobs[k]
                BY <1>3, <4>1
            <4> QED
                BY <2>1, <3>1, <4>1, <4>2
        <3> QED
            BY <3>2, <3>3
    <2> QED
        BY <2>2, <2>3, <2>4
<1>10. up' /\ ~disabled' => pending' \subseteq Spooled'
    <2> SUFFICES ASSUME ~disabled', NEW p \in pending
                 PROVE  p \in Spooled'
        BY <1>1
    <2>1. p \in Spooled
        BY <1>1, <1>4 DEF SpoolOrder
    <2>2. CASE p \in spoolLog \cup written
        BY <1>6, <2>2 DEF Spooled
    <2>3. CASE p \notin spoolLog \cup written
        <3>1. PICK k \in 1..Len(jobs) : jobs[k].op = "append" /\ p = jobs[k].env
            BY <2>1, <2>3 DEF Spooled
        <3>2. k # 1
            BY <2>3, <3>1
        <3>3. k - 1 \in 1..(Len(jobs) - 1) /\ k - 1 \in 1..Len(jobs')
            BY <1>3, <3>2
        <3>4. jobs'[k - 1] = jobs[k]
            BY <1>3, <3>3
        <3> QED
            BY <3>1, <3>3, <3>4 DEF Spooled
    <2> QED
        BY <2>2, <2>3
<1>11. InEmitOrder(pending)'
    BY <1>1, <1>2 DEF SpoolOrder, InEmitOrder
<1> QED
    BY <1>8, <1>9, <1>10, <1>11 DEF SpoolOrder

\* What is acknowledged is recorded.
LEMMA AckOrder ==
    ASSUME DeliveryInv, SpoolOrder, RunnerAck
    PROVE  SpoolOrder'
<1> USE RunnerTypes DEF DeliveryInv
<1>1. PICK c \in Conn : c = cur
    BY DEF RunnerAck, TypeOK, LinkTypeOK
<1>2. /\ h2r[c] # <<>> /\ cur # NoConn /\ h2r[c] \in Seq(Nat)
      /\ UNCHANGED <<up, disabled, spoolLog, rows>>
    BY <1>1 DEF RunnerAck, storeVars, runnerVars, spoolVars, TypeOK, LinkTypeOK
<1>3. Recorded' = Recorded
    BY <1>2 DEF Recorded
<1>4. PICK n \in Nat : n = Head(h2r[c]) /\ n = h2r[c][1] /\ 1 \in 1..Len(h2r[c])
    BY <1>2, TailFacts
<1>5. \A p \in pending : p.seq <= n => p.ev \in Recorded
    BY <1>1, <1>2, <1>4 DEF StreamInv, StreamOf, AckInv
<1>6. /\ pending' = pending \/ pending' = {e \in pending : e.seq > n}
      /\ jobs' = jobs \/ jobs' = Append(jobs, [op |-> "ack"])
    BY <1>1, <1>4, Zenon DEF RunnerAck, runnerVars, spoolVars
<1>7. InEmitOrder(pending)'
    <2> SUFFICES ASSUME NEW e \in pending', NEW x \in Earlier(e.ev), x \notin Recorded
                 PROVE  \E d \in pending' : d.ev = x /\ d.seq < e.seq
        BY <1>3 DEF InEmitOrder
    <2>1. PICK d \in pending : d.ev = x /\ d.seq < e.seq
        BY <1>6 DEF SpoolOrder, InEmitOrder
    <2>2. d \in pending'
        BY <1>5, <1>6, <2>1
    <2> QED
        BY <2>1, <2>2
<1>8. /\ Len(jobs) \in Nat /\ Len(jobs') \in Nat /\ Len(jobs) <= Len(jobs')
      /\ \A i \in 1..Len(jobs) : jobs'[i] = jobs[i]
      /\ \A i \in 1..Len(jobs') : i \notin 1..Len(jobs) => jobs'[i].op # "append"
    <2>1. CASE jobs' = jobs
        BY <2>1
    <2>2. CASE jobs' = Append(jobs, [op |-> "ack"])
        <3>1. PICK job \in Job : job = [op |-> "ack"]
            BY JobFacts
        <3>2. /\ Len(jobs) \in Nat /\ Len(jobs') = Len(jobs) + 1 /\ jobs'[Len(jobs) + 1] = job
              /\ \A i \in 1..Len(jobs) : jobs'[i] = jobs[i]
            BY <2>2, <3>1, AppendFacts
        <3>3. job.op # "append"
            BY <3>1
        <3> QED
            BY <3>2, <3>3
    <2> QED
        BY <1>6, <2>1, <2>2
<1>9. JobsInOrder'
    <2> SUFFICES ASSUME NEW i \in 1..Len(jobs'), jobs'[i].op = "append",
                        NEW x \in Earlier(jobs'[i].env.ev), x \notin Recorded
                 PROVE  \/ \E d \in spoolLog : d.ev = x /\ d.seq < jobs'[i].env.seq
                        \/ \E k \in 1..(i - 1) : /\ jobs'[k].op = "append" /\ jobs'[k].env.ev = x
                                                 /\ jobs'[k].env.seq < jobs'[i].env.seq
        BY <1>2, <1>3 DEF JobsInOrder
    <2>1. i \in 1..Len(jobs) /\ jobs'[i] = jobs[i]
        BY <1>8
    <2>2. \A k \in 1..(i - 1) : k \in 1..Len(jobs) /\ jobs'[k] = jobs[k]
        BY <1>8, <2>1
    <2>3. \/ \E d \in spoolLog : d.ev = x /\ d.seq < jobs[i].env.seq
          \/ \E k \in 1..(i - 1) : /\ jobs[k].op = "append" /\ jobs[k].env.ev = x
                                   /\ jobs[k].env.seq < jobs[i].env.seq
        BY <2>1 DEF SpoolOrder, JobsInOrder
    <2> QED
        BY <2>1, <2>2, <2>3
<1>10. Spooled \subseteq Spooled' /\ pending' \subseteq pending
    <2>1. \A i \in 1..Len(jobs) : i \in 1..Len(jobs')
        BY <1>8
    <2> QED
        BY <1>2, <1>6, <1>8, <2>1 DEF Spooled
<1> QED
    BY <1>2, <1>3, <1>7, <1>9, <1>10 DEF SpoolOrder, InEmitOrder

\* A new event comes after everything its process emitted before.
LEMMA EmitOrder ==
    ASSUME DeliveryInv, SpoolOrder, ArrivalOrder, NEW out \in BOOLEAN, RunnerEmit(out)
    PROVE  SpoolOrder' /\ ArrivalOrder'
<1> USE RunnerTypes DEF DeliveryInv
<1> DEFINE n   == emits[boot] + 1
           env == [seq |-> sendSeq + 1, ev |-> <<boot, n>>, out |-> out]
<1>1. /\ up /\ pending' = pending \cup {env}
      /\ jobs' = IF disabled THEN jobs ELSE Append(jobs, [op |-> "append", env |-> env])
      /\ Transmit(<<env>>)
      /\ UNCHANGED <<up, disabled, spoolLog, batch, hostEnd, rows>>
    BY DEF RunnerEmit, hostVars, storeVars
<1>2. boot \in 1..MaxBoots /\ emits[boot] \in Nat /\ n \in Nat \ {0}
    BY <1>1, BoundsAssumption DEF TypeOK, RunnerTypeOK
<1>3. env.seq = sendSeq + 1 /\ env.ev = <<boot, n>> /\ env \in Env
    <2>1. <<boot, n>> \in Event /\ sendSeq + 1 \in Nat \ {0}
        BY <1>2 DEF Event
    <2> QED
        BY <2>1 DEF Env
<1>4. Recorded' = Recorded
    BY <1>1 DEF Recorded
<1>5. \A x \in Earlier(<<boot, n>>) : x \in Recorded \/ \E e \in pending : e.ev = x
    <2> TAKE x \in Earlier(<<boot, n>>)
    <2>1. PICK m \in 1..(n - 1) : x = <<boot, m>>
        BY DEF Earlier
    <2>2. m \in 1..emits[boot]
        BY <1>2
    <2> QED
        BY <1>1, <2>1, <2>2 DEF NoLossWhileUp
<1> HIDE DEF n, env
<1>6. \A e \in pending : e.seq < env.seq
    BY <1>3 DEF PendingInv
<1>7. InEmitOrder(pending)'
    <2> SUFFICES ASSUME NEW e \in pending', NEW x \in Earlier(e.ev), x \notin Recorded
                 PROVE  \E d \in pending' : d.ev = x /\ d.seq < e.seq
        BY <1>4 DEF InEmitOrder
    <2>1. CASE e \in pending
        BY <1>1, <2>1 DEF SpoolOrder, InEmitOrder
    <2>2. CASE e = env
        BY <1>1, <1>3, <1>5, <1>6, <2>2
    <2> QED
        BY <1>1, <2>1, <2>2
<1>8. InEmitOrder(spoolLog)'
    BY <1>1, <1>4 DEF SpoolOrder, InEmitOrder
<1>9. JobsInOrder' /\ (up' /\ ~disabled' => pending' \subseteq Spooled')
    <2>1. CASE disabled
        <3>1. JobsInOrder /\ UNCHANGED <<jobs, spoolLog>> /\ disabled'
            BY <1>1, <2>1 DEF SpoolOrder
        <3> HIDE DEF DeliveryInv
        <3> QED
            BY <1>4, <3>1 DEF JobsInOrder
    <2>2. CASE ~disabled
        <3>1. PICK job \in Job : job = [op |-> "append", env |-> env]
            BY <1>3, JobFacts
        <3>2. /\ Len(jobs) \in Nat /\ Len(jobs') = Len(jobs) + 1 /\ jobs'[Len(jobs) + 1] = job
              /\ \A i \in 1..Len(jobs) : jobs'[i] = jobs[i]
            BY <1>1, <2>2, <3>1, AppendFacts
        <3>3. job.op = "append" /\ job.env = env
            BY <3>1
        <3>4. pending \subseteq Spooled
            BY <1>1, <2>2 DEF SpoolOrder
        <3>5. JobsInOrder'
            <4> HIDE DEF DeliveryInv
            <4> SUFFICES ASSUME NEW i \in 1..Len(jobs'), jobs'[i].op = "append",
                                NEW x \in Earlier(jobs'[i].env.ev), x \notin Recorded
                         PROVE  \/ \E d \in spoolLog : d.ev = x /\ d.seq < jobs'[i].env.seq
                                \/ \E k \in 1..(i - 1) :
                                      /\ jobs'[k].op = "append" /\ jobs'[k].env.ev = x
                                      /\ jobs'[k].env.seq < jobs'[i].env.seq
                BY <1>1, <1>4 DEF JobsInOrder
            <4>1. CASE i \in 1..Len(jobs)
                <5>1. jobs'[i] = jobs[i]
                    BY <3>2, <4>1
                <5>2. \A k \in 1..(i - 1) : k \in 1..Len(jobs) /\ jobs'[k] = jobs[k]
                    BY <3>2, <4>1
                <5>3. \/ \E d \in spoolLog : d.ev = x /\ d.seq < jobs[i].env.seq
                      \/ \E k \in 1..(i - 1) : /\ jobs[k].op = "append" /\ jobs[k].env.ev = x
                                               /\ jobs[k].env.seq < jobs[i].env.seq
                    BY <4>1, <5>1 DEF SpoolOrder, JobsInOrder
                <5> QED
                    BY <5>1, <5>2, <5>3
            <4>2. CASE i = Len(jobs) + 1
                <5>1. jobs'[i].env = env
                    BY <3>2, <3>3, <4>2
                <5>2. PICK e \in pending : e.ev = x
                    BY <1>3, <1>5, <5>1
                <5>3. e.seq < env.seq /\ e \in Spooled
                    BY <1>6, <3>4
                <5>4. CASE e \in spoolLog
                    BY <5>1, <5>2, <5>3, <5>4
                <5>5. CASE e \notin spoolLog
                    <6>1. PICK k \in 1..Len(jobs) : jobs[k].op = "append" /\ e = jobs[k].env
                        BY <5>3, <5>5 DEF Spooled
                    <6>2. k \in 1..(i - 1) /\ jobs'[k] = jobs[k]
                        BY <3>2, <4>2
                    <6> QED
                        BY <5>1, <5>2, <5>3, <6>1, <6>2
                <5> QED
                    BY <5>4, <5>5
            <4> QED
                BY <3>2, <4>1, <4>2
        <3>6. pending' \subseteq Spooled'
            <4>1. ASSUME NEW p \in pending
                  PROVE  p \in Spooled'
                <5>1. CASE p \in spoolLog
                    BY <1>1, <5>1 DEF Spooled
                <5>2. CASE p \notin spoolLog
                    <6>1. PICK k \in 1..Len(jobs) : jobs[k].op = "append" /\ p = jobs[k].env
                        BY <3>4, <5>2 DEF Spooled
                    <6>2. k \in 1..Len(jobs') /\ jobs'[k] = jobs[k]
                        BY <3>2
                    <6> QED
                        BY <6>1, <6>2 DEF Spooled
                <5> QED
                    BY <5>1, <5>2
            <4>2. env \in Spooled'
                <5>1. Len(jobs) + 1 \in 1..Len(jobs') /\ jobs'[Len(jobs) + 1] = job
                    BY <3>2
                <5> QED
                    BY <3>3, <5>1 DEF Spooled
            <4> QED
                BY <1>1, <4>1, <4>2
        <3> QED
            BY <3>5, <3>6
    <2> QED
        BY <2>1, <2>2
<1>10. CASE ~(cur # NoConn /\ hostEnd[cur] # "none")
    <2>1. r2h' = r2h
        BY <1>1, <1>10 DEF Transmit
    <2>2. \A d \in Conn : ArrivalOf(d)'
        BY <1>1, <1>4, <2>1, ArrivalKept DEF ArrivalOrder
    <2> QED
        BY <1>7, <1>8, <1>9, <2>2 DEF SpoolOrder, ArrivalOrder
<1>11. CASE cur # NoConn /\ hostEnd[cur] # "none"
    <2>1. PICK c \in Conn : c = cur
        BY <1>11 DEF TypeOK, LinkTypeOK
    <2>2. r2h' = [r2h EXCEPT ![c] = @ \o <<env>>] /\ r2h \in [Conn -> Seq(Env \cup {Hello})]
        BY <1>1, <1>11, <2>1 DEF Transmit, TypeOK, LinkTypeOK
    <2>3. FlowInv(c)
        BY <1>11, <2>1 DEF StreamInv, StreamOf
    <2>4. PICK m \in Nat :
              /\ m = Len(r2h[c]) /\ Len(r2h'[c]) = m + 1 /\ r2h'[c][m + 1] = env
              /\ \A i \in 1..m : r2h'[c][i] = r2h[c][i]
        <3>1. r2h'[c] = r2h[c] \o <<env>> /\ r2h[c] \in Seq(Env \cup {Hello})
            BY <2>2
        <3>2. env \in Env \cup {Hello}
            BY <1>3
        <3>3. /\ Len(r2h[c]) \in Nat /\ Len(r2h[c] \o <<env>>) = Len(r2h[c]) + 1
              /\ (r2h[c] \o <<env>>)[Len(r2h[c]) + 1] = env
              /\ \A i \in 1..Len(r2h[c]) : (r2h[c] \o <<env>>)[i] = r2h[c][i]
            BY <3>1, <3>2, ConcatOne
        <3> QED
            BY <3>1, <3>3
    <2>5. \A i \in 1..(m + 1) : Ready(c, i)' <=> Ready(c, i)
        <3>1. \A i \in 1..(m + 1) : \A h \in 1..(i - 1) : r2h'[c][h] = r2h[c][h]
            BY <2>4
        <3> QED
            BY <1>1, <3>1 DEF Ready
    <2>6. ASSUME NEW x, NEW i \in 1..(m + 1), Underway(c, x, i)
          PROVE  Underway(c, x, i)'
        <3>1. \A j \in 1..(i - 1) : j \in 1..m /\ j \in 1..(m + 1) /\ r2h'[c][j] = r2h[c][j]
            BY <2>4
        <3>2. \A j \in 1..(i - 1) : Ready(c, j)' <=> Ready(c, j)
            BY <2>5, <3>1
        <3> QED
            BY <1>1, <1>4, <2>6, <3>1, <3>2 DEF Underway
    <2>7. ASSUME NEW i \in 1..(m + 1), Ready(c, i)', NEW x \in Earlier(r2h'[c][i].ev)
          PROVE  Underway(c, x, i)'
        <3>1. Ready(c, i)
            BY <2>5, <2>7
        <3>2. CASE i \in 1..m
            <4>1. Underway(c, x, i)
                BY <2>4, <2>7, <3>1, <3>2 DEF ArrivalOrder, ArrivalOf
            <4> QED
                BY <2>6, <4>1
        <3>3. CASE i = m + 1
            <4>1. x \in Earlier(<<boot, n>>)
                BY <1>3, <2>4, <2>7, <3>3
            <4>2. x \in Recorded \/ \E e \in pending : e.ev = x /\ Ahead(c, e, m + 1)
                BY <1>5, <2>3, <2>4, <3>1, <3>3, <4>1 DEF FlowInv
            <4>3. Len(batch[c]) \in Nat
                BY DEF TypeOK, HostTypeOK
            <4>4. Underway(c, x, m + 1)
                BY <4>2, <4>3 DEF Ahead, InBatch, InQueue, Underway
            <4> QED
                BY <2>6, <3>3, <4>4
        <3> QED
            BY <2>7, <3>2, <3>3
    <2>8. Consecutive(batch[c])'
        BY <1>1, <1>4 DEF ArrivalOrder, ArrivalOf, Consecutive
    <2>9. ArrivalOf(c)'
        BY <2>4, <2>7, <2>8 DEF ArrivalOf
    <2>10. \A d \in Conn \ {c} : /\ r2h'[d] = r2h[d] /\ batch'[d] = batch[d]
                                 /\ hostEnd'[d] = hostEnd[d]
        BY <1>1, <2>2
    <2>11. ArrivalOrder'
        BY <1>4, <2>9, <2>10, ArrivalOfOthers
    <2> QED
        BY <1>7, <1>8, <1>9, <2>11 DEF SpoolOrder
<1> QED
    BY <1>10, <1>11

\* pending is sent in the order of its numbers, after everything before it.
LEMMA HelloOrder ==
    ASSUME DeliveryInv, SpoolOrder, ArrivalOrder, RunnerHello
    PROVE  ArrivalOrder'
<1> USE DEF DeliveryInv
<1>1. PICK s \in [1..Cardinality(pending) -> pending] : InSeqOrder(s) /\ Transmit(<<Hello>> \o s)
    BY DEF RunnerHello
<1>2. /\ cur # NoConn /\ UNCHANGED <<hostEnd, batch, rows>>
    BY DEF RunnerHello, hostVars, storeVars
<1>3. PICK c \in Conn : c = cur
    BY <1>2 DEF TypeOK, LinkTypeOK
<1>4. Recorded' = Recorded
    BY <1>2 DEF Recorded
<1>5. /\ r2h \in [Conn -> Seq(Env \cup {Hello})] /\ pending \subseteq Env
      /\ Cardinality(pending) \in Nat
    BY FS_CardinalityType DEF TypeOK, LinkTypeOK, RunnerTypeOK
<1>6. CASE hostEnd[c] = "none"
    <2>1. r2h' = r2h
        BY <1>1, <1>3, <1>6 DEF Transmit
    <2>2. \A d \in Conn : ArrivalOf(d)'
        BY <1>2, <1>4, <2>1, ArrivalKept DEF ArrivalOrder
    <2> QED
        BY <2>2 DEF ArrivalOrder
<1>7. CASE hostEnd[c] # "none"
    <2>1. r2h' = [r2h EXCEPT ![c] = @ \o (<<Hello>> \o s)]
        BY <1>1, <1>2, <1>3, <1>7 DEF Transmit
    <2>2. PICK n \in Nat, k \in Nat :
              /\ n = Len(r2h[c]) /\ k = Cardinality(pending) /\ Len(r2h'[c]) = n + 1 + k
              /\ \A i \in 1..n : r2h'[c][i] = r2h[c][i]
              /\ r2h'[c][n + 1] = Hello
              /\ \A i \in 1..k : r2h'[c][n + 1 + i] = s[i]
        <3>1. s \in [1..Cardinality(pending) -> pending]
            OBVIOUS
        <3> QED
            BY <1>5, <2>1, <3>1, ResentFacts
    <2>3. /\ \A p \in pending : \E i \in 1..k : s[i] = p
          /\ \A i, j \in 1..k : i < j => s[i].seq < s[j].seq
          /\ \A i \in 1..k : s[i] \in pending /\ s[i].seq \in Nat
        BY <1>1, <1>5, <2>2, EnvFacts DEF InSeqOrder
    <2>4. \A i \in 1..(n + 1) : Ready(c, i)' <=> Ready(c, i)
        <3>1. \A i \in 1..(n + 1) : \A h \in 1..(i - 1) : r2h'[c][h] = r2h[c][h]
            BY <2>2
        <3> QED
            BY <1>2, <3>1 DEF Ready
    <2>5. \A j \in 1..(n + 1 + k) : j > n + 1 => Ready(c, j)'
        BY <2>2 DEF Ready
    <2>6. ASSUME NEW j \in 1..(n + 1 + k), Ready(c, j)', NEW x \in Earlier(r2h'[c][j].ev)
          PROVE  Underway(c, x, j)'
        <3>1. CASE j \in 1..n
            <4> j \in 1..(n + 1)
                BY <3>1
            <4>1. Ready(c, j) /\ r2h'[c][j] = r2h[c][j]
                BY <2>2, <2>4, <2>6, <3>1
            <4>2. Underway(c, x, j)
                BY <2>2, <2>6, <3>1, <4>1 DEF ArrivalOrder, ArrivalOf
            <4>3. \A h \in 1..(j - 1) : (Ready(c, h)' <=> Ready(c, h)) /\ r2h'[c][h] = r2h[c][h]
                <5>1. \A h \in 1..(j - 1) : h \in 1..n /\ h \in 1..(n + 1)
                    BY <3>1
                <5> QED
                    BY <2>2, <2>4, <5>1
            <4> QED
                BY <1>2, <1>4, <4>2, <4>3 DEF Underway
        <3>2. CASE j = n + 1
            BY <2>2, <2>6, <3>2, EarlierFacts
        <3>3. CASE j > n + 1
            <4>1. PICK i \in 1..k : j = n + 1 + i
                <5>1. j - n - 1 \in 1..k /\ j = n + 1 + (j - n - 1)
                    BY <3>3
                <5> QED
                    BY <5>1
            <4>2. r2h'[c][j] = s[i] /\ s[i] \in pending
                BY <2>2, <2>3, <4>1
            <4>3. x \in Recorded \/ \E q \in pending : q.ev = x /\ q.seq < s[i].seq
                BY <2>6, <4>2 DEF SpoolOrder, InEmitOrder
            <4>4. ASSUME NEW q \in pending, q.ev = x, q.seq < s[i].seq
                  PROVE  Underway(c, x, j)'
                <5>1. PICK h \in 1..k : s[h] = q
                    BY <2>3
                <5>2. h < i
                    <6>1. CASE h = i
                        BY <2>3, <4>4, <5>1, <6>1
                    <6>2. CASE h > i
                        BY <2>3, <4>4, <5>1, <6>2
                    <6> QED
                        BY <6>1, <6>2
                <5>3. n + 1 + h \in 1..(j - 1) /\ n + 1 + h \in 1..(n + 1 + k) /\ n + 1 + h > n + 1
                    BY <4>1, <5>2
                <5>4. Ready(c, n + 1 + h)' /\ r2h'[c][n + 1 + h].ev = x
                    BY <2>2, <2>5, <4>4, <5>1, <5>3
                <5> QED
                    BY <5>3, <5>4 DEF Underway
            <4> QED
                BY <1>4, <4>3, <4>4 DEF Underway
        <3> QED
            BY <2>2, <2>6, <3>1, <3>2, <3>3
    <2>7. ArrivalOf(c)'
        <3>1. Consecutive(batch[c])'
            BY <1>2, <1>4 DEF ArrivalOrder, ArrivalOf, Consecutive
        <3> QED
            BY <2>2, <2>6, <3>1 DEF ArrivalOf
    <2>8. \A d \in Conn \ {c} : /\ r2h'[d] = r2h[d] /\ batch'[d] = batch[d]
                                /\ hostEnd'[d] = hostEnd[d]
        BY <1>2, <1>5, <2>1
    <2> QED
        BY <1>4, <2>7, <2>8, ArrivalOfOthers
<1> QED
    BY <1>6, <1>7

-----------------------------------------------------------------------------
(* Where events come from.                                                 *)

LEMMA OriginKept ==
    ASSUME OriginInv, UNCHANGED emits, pending' \subseteq OnTheWay, Spooled' \subseteq OnTheWay,
           \A c \in Conn : Sent(c)' \subseteq OnTheWay \cup {Hello},
           Recorded' \subseteq Recorded \cup {e.ev : e \in OnTheWay}
    PROVE  OriginInv'
<1>1. Emitted' = Emitted
    BY DEF Emitted
<1>2. OnTheWay' \subseteq OnTheWay
    <2> SUFFICES ASSUME NEW e \in OnTheWay'
                 PROVE  e \in OnTheWay
        OBVIOUS
    <2>1. e \in pending' \/ e \in Spooled' \/ (e # Hello /\ \E c \in Conn : e \in Sent(c)')
        BY Zenon DEF OnTheWay
    <2> QED
        BY <2>1
<1> QED
    BY <1>1, <1>2 DEF OriginInv

\* Messages taken from a connection, queued, or dropped with it.
LEMMA SentFacts ==
    ASSUME TypeOK, NEW c \in Conn
    PROVE  /\ Sent(c) \subseteq OnTheWay \cup {Hello}
           /\ r2h'[c] \in {r2h[c], <<>>} /\ batch'[c] \in {batch[c], <<>>} =>
                 Sent(c)' \subseteq Sent(c)
           /\ r2h[c] # <<>> => /\ Head(r2h[c]) \in Sent(c)
                               /\ r2h'[c] = Tail(r2h[c]) /\ batch'[c] \in {batch[c], <<>>} =>
                                     Sent(c)' \subseteq Sent(c)
                               /\ r2h'[c] = Tail(r2h[c]) /\ Head(r2h[c]) # Hello
                                     /\ batch'[c] = Append(batch[c], Head(r2h[c])) =>
                                     Sent(c)' \subseteq Sent(c)
           /\ \A i \in 1..Len(batch[c]) : batch[c][i] \in OnTheWay
<1>1. batch[c] \in Seq(Env) /\ r2h[c] \in Seq(Env \cup {Hello})
    BY DEF TypeOK, HostTypeOK, LinkTypeOK
<1>2. Sent(c) \subseteq OnTheWay \cup {Hello}
    <2>1. \A e \in Sent(c) : e # Hello => e \in (UNION {Sent(d) : d \in Conn}) \ {Hello}
        BY Zenon
    <2> QED
        BY <2>1 DEF OnTheWay
<1>3. ASSUME r2h'[c] \in {r2h[c], <<>>}, batch'[c] \in {batch[c], <<>>}
      PROVE  Sent(c)' \subseteq Sent(c)
    BY <1>3 DEF Sent
<1>4. ASSUME r2h[c] # <<>>
      PROVE  /\ Head(r2h[c]) \in Sent(c) /\ Head(r2h[c]) = r2h[c][1]
             /\ r2h'[c] = Tail(r2h[c]) =>
                  {r2h'[c][i] : i \in 1..Len(r2h'[c])} \subseteq {r2h[c][i] : i \in 1..Len(r2h[c])}
    <2>1. /\ Len(r2h[c]) \in Nat \ {0} /\ Head(r2h[c]) = r2h[c][1]
          /\ Len(Tail(r2h[c])) = Len(r2h[c]) - 1
          /\ \A i \in 1..(Len(r2h[c]) - 1) : Tail(r2h[c])[i] = r2h[c][i + 1]
        BY <1>1, <1>4, TailFacts
    <2>2. 1 \in 1..Len(r2h[c]) /\ \A i \in 1..(Len(r2h[c]) - 1) : i + 1 \in 1..Len(r2h[c])
        BY <2>1
    <2>3. r2h'[c] = Tail(r2h[c]) =>
            {r2h'[c][i] : i \in 1..Len(r2h'[c])} \subseteq {r2h[c][i] : i \in 1..Len(r2h[c])}
        BY <2>1, <2>2
    <2> QED
        BY <2>1, <2>2, <2>3 DEF Sent
<1>5. ASSUME r2h[c] # <<>>, r2h'[c] = Tail(r2h[c]), batch'[c] \in {batch[c], <<>>}
      PROVE  Sent(c)' \subseteq Sent(c)
    <2>1. {batch'[c][k] : k \in 1..Len(batch'[c])} \subseteq {batch[c][k] : k \in 1..Len(batch[c])}
        BY <1>5
    <2> QED
        BY <1>4, <1>5, <2>1 DEF Sent
<1>6. ASSUME r2h[c] # <<>>, r2h'[c] = Tail(r2h[c]), Head(r2h[c]) # Hello,
             batch'[c] = Append(batch[c], Head(r2h[c]))
      PROVE  Sent(c)' \subseteq Sent(c)
    <2>1. Head(r2h[c]) \in Env
        BY <1>1, <1>6, TailFacts
    <2>2. /\ Len(batch[c]) \in Nat /\ Len(batch'[c]) = Len(batch[c]) + 1
          /\ batch'[c][Len(batch[c]) + 1] = Head(r2h[c])
          /\ \A i \in 1..Len(batch[c]) : batch'[c][i] = batch[c][i]
        BY <1>1, <1>6, <2>1, AppendFacts
    <2>3. ASSUME NEW k \in 1..Len(batch'[c])
          PROVE  batch'[c][k] \in Sent(c)
        <3>1. CASE k \in 1..Len(batch[c])
            BY <2>2, <3>1 DEF Sent
        <3>2. CASE k = Len(batch[c]) + 1
            BY <1>4, <1>6, <2>2, <3>2
        <3> QED
            BY <2>2, <3>1, <3>2
    <2> QED
        BY <1>4, <1>6, <2>3 DEF Sent
<1>7. \A i \in 1..Len(batch[c]) : batch[c][i] \in OnTheWay
    <2>1. \A i \in 1..Len(batch[c]) : batch[c][i] \in Env /\ batch[c][i] # Hello
        BY <1>1, EnvFacts
    <2> QED
        BY <1>2, <2>1 DEF Sent
<1> QED
    BY <1>2, <1>3, <1>4, <1>5, <1>6, <1>7

LEMMA HostStepOrigin ==
    ASSUME TypeOK, HostInv, OriginInv, "storeError" \notin Faults, HostStep
    PROVE  OriginInv'
<1>1. /\ r2h \in [Conn -> Seq(Env \cup {Hello})] /\ batch \in [Conn -> Seq(Env)]
      /\ lastSeq \in Nat
    BY DEF TypeOK, LinkTypeOK, HostTypeOK, StoreTypeOK
<1>2. UNCHANGED <<emits, pending>> /\ Spooled' = Spooled
    BY DEF HostStep, HostHello, HostOutput, HostEvent, HostFlush, HostConnClosed,
           HostDiesMidAppend, HostDisconnect, HostRestart, HostGone, Spooled,
           runnerVars, spoolVars
<1>3. pending \subseteq OnTheWay /\ Spooled \subseteq OnTheWay
    BY DEF OnTheWay
<1> DEFINE Stays(c) == r2h'[c] \in {r2h[c], <<>>} /\ batch'[c] \in {batch[c], <<>>}
<1>4. \A c \in Conn : Stays(c) => Sent(c)' \subseteq OnTheWay \cup {Hello}
    BY SentFacts
<1>5. ASSUME NEW c \in Conn, r2h[c] # <<>>, Head(r2h[c]) # Hello
      PROVE  /\ Append(batch[c], Head(r2h[c])) \in Seq(Env)
             /\ {Append(batch[c], Head(r2h[c]))[i].ev :
                    i \in 1..Len(Append(batch[c], Head(r2h[c])))} \subseteq {e.ev : e \in OnTheWay}
    <2>1. Head(r2h[c]) \in Env /\ Head(r2h[c]) \in OnTheWay
        BY <1>1, <1>5, TailFacts, SentFacts
    <2>2. /\ Append(batch[c], Head(r2h[c])) \in Seq(Env) /\ Len(batch[c]) \in Nat
          /\ Len(Append(batch[c], Head(r2h[c]))) = Len(batch[c]) + 1
          /\ Append(batch[c], Head(r2h[c]))[Len(batch[c]) + 1] = Head(r2h[c])
          /\ \A i \in 1..Len(batch[c]) : Append(batch[c], Head(r2h[c]))[i] = batch[c][i]
        BY <1>1, <2>1, AppendFacts
    <2>3. ASSUME NEW i \in 1..(Len(batch[c]) + 1)
          PROVE  Append(batch[c], Head(r2h[c]))[i] \in OnTheWay
        <3>1. CASE i \in 1..Len(batch[c])
            BY <2>2, <3>1, SentFacts
        <3>2. CASE i = Len(batch[c]) + 1
            BY <2>1, <2>2, <3>2
        <3> QED
            BY <2>2, <3>1, <3>2
    <2> QED
        BY <2>2, <2>3
<1>6. ASSUME NEW c \in Conn
      PROVE  {batch[c][i].ev : i \in 1..Len(batch[c])} \subseteq {e.ev : e \in OnTheWay}
    BY SentFacts
<1>7. ASSUME NEW c \in Conn, HostHello(c)
      PROVE  OriginInv'
    <2>1. /\ r2h[c] # <<>> /\ r2h'[c] = Tail(r2h[c]) /\ batch'[c] = batch[c]
          /\ Recorded' = Recorded /\ \A d \in Conn \ {c} : Stays(d)
        BY <1>1, <1>7 DEF HostHello, storeVars, Recorded
    <2>2. Sent(c)' \subseteq OnTheWay \cup {Hello}
        BY <2>1, SentFacts
    <2> QED
        BY <1>2, <1>3, <1>4, <2>1, <2>2, OriginKept
<1>8. ASSUME NEW c \in Conn, HostOutput(c) \/ HostEvent(c)
      PROVE  OriginInv'
    <2> DEFINE msgs == Append(batch[c], Head(r2h[c]))
    <2>1. /\ r2h[c] # <<>> /\ Head(r2h[c]) # Hello
          /\ r2h' = [r2h EXCEPT ![c] = Tail(@)]
          /\ \/ Persist(msgs) /\ batch' = [batch EXCEPT ![c] = <<>>]
             \/ batch' = [batch EXCEPT ![c] = msgs] /\ UNCHANGED storeVars
        BY <1>8, EnvFacts DEF HostOutput, HostEvent
    <2>2. r2h'[c] = Tail(r2h[c]) /\ \A d \in Conn \ {c} : Stays(d)
        BY <1>1, <2>1
    <2>3. Sent(c)' \subseteq OnTheWay \cup {Hello}
        <3>1. batch'[c] = <<>> \/ batch'[c] = msgs
            BY <1>1, <2>1
        <3> QED
            BY <2>1, <2>2, <3>1, SentFacts
    <2>4. Recorded' \subseteq Recorded \cup {e.ev : e \in OnTheWay}
        <3>1. CASE Persist(msgs)
            BY <1>1, <1>5, <2>1, <3>1, PersistRecords
        <3>2. CASE UNCHANGED storeVars
            BY <3>2 DEF storeVars, Recorded
        <3> QED
            BY <2>1, <3>1, <3>2
    <2> QED
        BY <1>2, <1>3, <1>4, <2>2, <2>3, <2>4, OriginKept
<1>9. ASSUME NEW c \in Conn, HostFlush(c) \/ HostConnClosed(c)
      PROVE  OriginInv'
    <2>1. Persist(batch[c]) /\ batch[c] \in Seq(Env) /\ \A d \in Conn : Stays(d)
        BY <1>1, <1>9 DEF HostFlush, HostConnClosed
    <2>2. Recorded' \subseteq Recorded \cup {e.ev : e \in OnTheWay}
        BY <1>1, <1>6, <2>1, PersistRecords
    <2> QED
        BY <1>2, <1>3, <1>4, <2>1, <2>2, OriginKept
<1>10. ASSUME HostGone
       PROVE  \A d \in Conn : Sent(d)' \subseteq OnTheWay \cup {Hello}
    <2>1. \A d \in Conn : Stays(d)
        BY <1>10 DEF HostGone
    <2> QED
        BY <1>4, <2>1
<1>11. ASSUME NEW c \in Conn, HostDiesMidAppend(c)
       PROVE  OriginInv'
    <2> DEFINE msgs == Append(batch[c], Head(r2h[c]))
               F == Fresh(msgs, {})
    <2>1. /\ r2h[c] # <<>> /\ Head(r2h[c]) # Hello
          /\ rows' = rows \cup NewRows(msgs, F) /\ HostGone
        BY <1>11 DEF HostDiesMidAppend
    <2>2. msgs \in Seq(Env) /\ {msgs[i].ev : i \in 1..Len(msgs)} \subseteq {e.ev : e \in OnTheWay}
        BY <1>5, <2>1
    <2>3. F \in SUBSET (1..Len(msgs))
        BY DEF Fresh
    <2> HIDE DEF msgs, F
    <2>4. Recorded' = Recorded \cup {r.ev : r \in NewRows(msgs, F)}
        BY <2>1 DEF Recorded
    <2>5. {r.ev : r \in NewRows(msgs, F)} = {msgs[i].ev : i \in F}
        BY <1>1, <2>2, <2>3, NewRowsFacts
    <2>6. Recorded' \subseteq Recorded \cup {e.ev : e \in OnTheWay}
        BY <2>2, <2>3, <2>4, <2>5
    <2> QED
        BY <1>2, <1>3, <1>10, <2>1, <2>6, OriginKept
<1>12. CASE HostRestart \/ HostDisconnect
    <2>1. Recorded' = Recorded
        BY <1>12 DEF HostRestart, HostDisconnect, storeVars, Recorded
    <2>2. \A d \in Conn : Sent(d)' \subseteq OnTheWay \cup {Hello}
        <3>1. CASE HostRestart
            BY <1>10, <3>1 DEF HostRestart
        <3>2. CASE HostDisconnect
            BY <1>4, <3>2 DEF HostDisconnect, linkVars
        <3> QED
            BY <1>12, <3>1, <3>2
    <2> QED
        BY <1>2, <1>3, <2>1, <2>2, OriginKept
<1> QED
    BY <1>7, <1>8, <1>9, <1>11, <1>12 DEF HostStep

\* The steps of the runner and its spool bring no event but the emitted one.
LEMMA RunnerStepOrigin ==
    ASSUME DeliveryInv, OriginInv,
           \/ RunnerStart \/ RunnerCrash \/ SpoolAppend \/ SpoolSaveAck
           \/ RunnerHello \/ RunnerAck \/ RunnerConnClosed
           \/ \E c \in Conn : RunnerConnect(c)
    PROVE  OriginInv'
<1> USE RunnerTypes DEF DeliveryInv
<1>1. UNCHANGED <<emits, rows, batch>>
    BY DEF RunnerStart, RunnerCrash, SpoolAppend, SpoolSaveAck, RunnerHello, RunnerAck,
           RunnerConnClosed, RunnerConnect, runnerVars, hostVars, storeVars
<1>2. pending \subseteq OnTheWay /\ Spooled \subseteq OnTheWay
    BY DEF OnTheWay
<1>3. Spooled' \subseteq Spooled
    <2>1. CASE RunnerStart \/ RunnerCrash
        <3>1. spoolLog' = spoolLog /\ jobs' = <<>> /\ Len(jobs') = 0
            BY <2>1 DEF RunnerStart, RunnerCrash
        <3> QED
            BY <3>1 DEF Spooled
    <2>2. CASE SpoolAppend \/ SpoolSaveAck
        BY <2>2, SpoolShrinks
    <2>3. CASE RunnerAck
        BY <2>3, AckSpool
    <2>4. CASE RunnerHello \/ RunnerConnClosed \/ \E c \in Conn : RunnerConnect(c)
        <3>1. UNCHANGED <<spoolLog, jobs>>
            BY <2>4 DEF RunnerHello, RunnerConnClosed, RunnerConnect, spoolVars
        <3> QED
            BY <3>1 DEF Spooled
    <2> QED
        BY <2>1, <2>2, <2>3, <2>4
<1>4. pending' \subseteq pending \cup Spooled
    <2>1. CASE RunnerStart
        BY <2>1 DEF RunnerStart
    <2>2. CASE RunnerCrash
        BY <2>2 DEF RunnerCrash
    <2>3. CASE RunnerAck
        BY <2>3, Zenon DEF RunnerAck, runnerVars
    <2>4. CASE SpoolAppend \/ SpoolSaveAck \/ RunnerHello \/ RunnerConnClosed
               \/ \E c \in Conn : RunnerConnect(c)
        BY <2>4 DEF SpoolAppend, SpoolSaveAck, RunnerHello, RunnerConnClosed, RunnerConnect,
                    runnerVars
    <2> QED
        BY <2>1, <2>2, <2>3, <2>4
<1>5. \A c \in Conn : Sent(c)' \subseteq OnTheWay \cup {Hello}
    <2> TAKE c \in Conn
    <2>1. CASE r2h'[c] \in {r2h[c], <<>>}
        BY <1>1, <2>1, SentFacts
    <2>2. CASE RunnerHello
        <3>1. PICK s \in [1..Cardinality(pending) -> pending] : Transmit(<<Hello>> \o s)
            BY <2>2 DEF RunnerHello
        <3>2. CASE r2h' = [r2h EXCEPT ![c] = @ \o (<<Hello>> \o s)]
            <4>1. /\ r2h \in [Conn -> Seq(Env \cup {Hello})] /\ pending \subseteq Env
                  /\ Cardinality(pending) \in Nat
                BY FS_CardinalityType DEF TypeOK, LinkTypeOK, RunnerTypeOK
            <4>2. s \in [1..Cardinality(pending) -> pending]
                OBVIOUS
            <4>3. PICK n \in Nat, k \in Nat :
                      /\ n = Len(r2h[c]) /\ k = Cardinality(pending) /\ Len(r2h'[c]) = n + 1 + k
                      /\ \A i \in 1..n : r2h'[c][i] = r2h[c][i]
                      /\ r2h'[c][n + 1] = Hello
                      /\ \A i \in 1..k : r2h'[c][n + 1 + i] = s[i]
                BY <3>2, <4>1, <4>2, ResentFacts
            <4>4. ASSUME NEW i \in 1..(n + 1 + k)
                  PROVE  r2h'[c][i] \in Sent(c) \cup {Hello} \cup pending
                <5>1. CASE i \in 1..n
                    BY <4>3, <5>1 DEF Sent
                <5>2. CASE i = n + 1
                    BY <4>3, <5>2
                <5>3. CASE i > n + 1
                    <6>1. i - n - 1 \in 1..k /\ i = n + 1 + (i - n - 1)
                        BY <5>3
                    <6>2. r2h'[c][i] = s[i - n - 1] /\ s[i - n - 1] \in pending
                        BY <4>2, <4>3, <6>1
                    <6> QED
                        BY <6>2
                <5> QED
                    BY <5>1, <5>2, <5>3
            <4>5. Sent(c)' \subseteq Sent(c) \cup {Hello} \cup pending
                <5>1. Sent(c)' = {batch[c][m] : m \in 1..Len(batch[c])}
                                     \cup {r2h'[c][i] : i \in 1..Len(r2h'[c])}
                    BY <1>1 DEF Sent
                <5>2. {batch[c][m] : m \in 1..Len(batch[c])} \subseteq Sent(c)
                    BY DEF Sent
                <5>3. \A i \in 1..Len(r2h'[c]) : r2h'[c][i] \in Sent(c) \cup {Hello} \cup pending
                    <6> HIDE DEF DeliveryInv
                    <6> QED
                        BY <4>3, <4>4
                <5> QED
                    BY <5>1, <5>2, <5>3
            <4> QED
                BY <1>2, <4>5, SentFacts
        <3>3. r2h'[c] = r2h[c] \/ r2h' = [r2h EXCEPT ![c] = @ \o (<<Hello>> \o s)]
            BY <3>1 DEF Transmit, TypeOK, LinkTypeOK
        <3> QED
            BY <2>1, <3>2, <3>3
    <2>3. CASE \E d \in Conn : RunnerConnect(d)
        <3>1. r2h'[c] \in {r2h[c], <<>>}
            BY <2>3 DEF RunnerConnect, TypeOK, LinkTypeOK
        <3> QED
            BY <2>1, <3>1
    <2>4. CASE RunnerStart \/ RunnerCrash \/ SpoolAppend \/ SpoolSaveAck \/ RunnerAck
               \/ RunnerConnClosed
        <3>1. r2h' = r2h
            BY <2>4 DEF RunnerStart, RunnerCrash, SpoolAppend, SpoolSaveAck, RunnerAck,
                        RunnerConnClosed, linkVars
        <3> QED
            BY <2>1, <3>1
    <2> QED
        BY <2>2, <2>3, <2>4
<1>6. Recorded' = Recorded
    BY <1>1 DEF Recorded
<1> HIDE DEF DeliveryInv
<1> QED
    BY <1>1, <1>2, <1>3, <1>4, <1>5, <1>6, OriginKept

LEMMA EmitOrigin ==
    ASSUME DeliveryInv, OriginInv, NEW out \in BOOLEAN, RunnerEmit(out)
    PROVE  OriginInv'
<1> USE RunnerTypes DEF DeliveryInv
<1> DEFINE n   == emits[boot] + 1
           env == [seq |-> sendSeq + 1, ev |-> <<boot, n>>, out |-> out]
<1>1. /\ up /\ n <= MaxEvents /\ emits' = [emits EXCEPT ![boot] = n]
      /\ pending' = pending \cup {env} /\ Transmit(<<env>>)
      /\ jobs' = IF disabled THEN jobs ELSE Append(jobs, [op |-> "append", env |-> env])
      /\ UNCHANGED <<spoolLog, batch, rows>>
    BY DEF RunnerEmit, hostVars, storeVars
<1>2. boot \in 1..MaxBoots /\ emits[boot] \in Nat /\ n \in Nat \ {0} /\ MaxEvents \in Nat
      /\ \A b \in 1..MaxBoots : emits[b] \in Nat /\ emits'[b] \in Nat /\ emits[b] <= emits'[b]
    BY <1>1, BoundsAssumption DEF TypeOK, RunnerTypeOK
<1>3. env.ev = <<boot, n>> /\ env \in Env
    <2>1. <<boot, n>> \in Event /\ sendSeq + 1 \in Nat \ {0}
        BY <1>2 DEF Event
    <2> QED
        BY <2>1 DEF Env
<1>4. <<boot, n>> \in Emitted' /\ Emitted \subseteq Emitted'
    <2>1. n \in 1..MaxEvents /\ emits'[boot] = n
        BY <1>1, <1>2 DEF TypeOK, RunnerTypeOK
    <2>2. <<boot, n>> \in Emitted'
        BY <1>2, <2>1 DEF Emitted
    <2>3. Emitted \subseteq Emitted'
        BY <1>2 DEF Emitted
    <2> QED
        BY <2>2, <2>3
<1>5. \A b \in 1..MaxBoots : emits'[b] <= MaxEvents
    BY <1>1, <1>2 DEF OriginInv
<1> HIDE DEF n, env
<1>6. Spooled' \subseteq Spooled \cup {env}
    <2>1. CASE disabled
        BY <1>1, <2>1 DEF Spooled
    <2>2. CASE ~disabled
        <3>1. PICK job \in Job : job = [op |-> "append", env |-> env]
            BY <1>3, JobFacts
        <3>2. /\ Len(jobs) \in Nat /\ Len(jobs') = Len(jobs) + 1 /\ jobs'[Len(jobs) + 1] = job
              /\ \A i \in 1..Len(jobs) : jobs'[i] = jobs[i]
            BY <1>1, <2>2, <3>1, AppendFacts
        <3>3. ASSUME NEW i \in 1..Len(jobs'), jobs'[i].op = "append"
              PROVE  jobs'[i].env \in Spooled \cup {env}
            <4>1. CASE i \in 1..Len(jobs)
                BY <3>2, <3>3, <4>1 DEF Spooled
            <4>2. CASE i = Len(jobs) + 1
                BY <3>1, <3>2, <4>2
            <4> QED
                BY <3>2, <4>1, <4>2
        <3> QED
            BY <1>1, <3>3 DEF Spooled
    <2> QED
        BY <2>1, <2>2
<1>7. \A c \in Conn : Sent(c)' \subseteq Sent(c) \cup {env}
    <2> TAKE c \in Conn
    <2>1. CASE r2h'[c] = r2h[c]
        BY <1>1, <2>1 DEF Sent
    <2>2. CASE r2h'[c] = r2h[c] \o <<env>>
        <3>1. r2h[c] \in Seq(Env \cup {Hello}) /\ env \in Env \cup {Hello}
            BY <1>3 DEF TypeOK, LinkTypeOK
        <3>2. /\ Len(r2h[c]) \in Nat /\ Len(r2h'[c]) = Len(r2h[c]) + 1
              /\ r2h'[c][Len(r2h[c]) + 1] = env
              /\ \A i \in 1..Len(r2h[c]) : r2h'[c][i] = r2h[c][i]
            BY <2>2, <3>1, ConcatOne
        <3>3. \A i \in 1..Len(r2h'[c]) : i \in 1..Len(r2h[c]) \/ i = Len(r2h[c]) + 1
            BY <3>2
        <3> QED
            BY <1>1, <3>2, <3>3 DEF Sent
    <2> QED
        BY <1>1, <2>1, <2>2 DEF Transmit, TypeOK, LinkTypeOK
<1>8. \A e \in OnTheWay' : e \in OnTheWay \/ e = env
    <2> TAKE e \in OnTheWay'
    <2>1. e \in pending' \/ e \in Spooled' \/ (e # Hello /\ \E c \in Conn : e \in Sent(c)')
        BY Zenon DEF OnTheWay
    <2>2. \A c \in Conn : e \in Sent(c) /\ e # Hello => e \in OnTheWay
        BY SentFacts
    <2>3. pending \subseteq OnTheWay /\ Spooled \subseteq OnTheWay
        BY DEF OnTheWay
    <2> QED
        BY <1>1, <1>6, <1>7, <2>1, <2>2, <2>3
<1>9. Recorded' = Recorded
    BY <1>1 DEF Recorded
<1> QED
    BY <1>3, <1>4, <1>5, <1>8, <1>9 DEF OriginInv

-----------------------------------------------------------------------------
(* The theorems about the order.                                           *)

LEMMA OrderInit == Init => OrderInv
<1> SUFFICES ASSUME Init PROVE OrderInv
    OBVIOUS
<1>1. /\ pending = {} /\ spoolLog = {} /\ Len(jobs) = 0 /\ rows = {} /\ ~up
      /\ \A c \in Conn : Len(r2h[c]) = 0 /\ Len(batch[c]) = 0
      /\ \A b \in 1..MaxBoots : emits[b] = 0
    BY DEF Init
<1>2. Recorded = {} /\ Spooled = {} /\ \A c \in Conn : Sent(c) = {}
    BY <1>1 DEF Recorded, Spooled, Sent
<1>3. OnTheWay = {}
    BY <1>1, <1>2 DEF OnTheWay
<1>4. SpoolOrder
    BY <1>1 DEF SpoolOrder, InEmitOrder, JobsInOrder
<1>5. ArrivalOrder
    BY <1>1 DEF ArrivalOrder, ArrivalOf, Consecutive
<1>6. OriginInv
    BY <1>1, <1>2, <1>3, BoundsAssumption DEF OriginInv
<1>7. RowsNumbered /\ BootFIFO
    BY <1>1 DEF RowsNumbered, BootFIFO
<1> QED
    BY <1>4, <1>5, <1>6, <1>7 DEF OrderInv

LEMMA OrderStep ==
    ASSUME NoDiskFault, DeliveryInv, OrderInv, [Next]_vars
    PROVE  OrderInv'
<1> USE DEF OrderInv
<1>1. TypeOK /\ HostInv
    BY DEF DeliveryInv
<1>2. ASSUME UNCHANGED <<rows, lastSeq>>
      PROVE  RowsNumbered' /\ BootFIFO' /\ Recorded' = Recorded
    BY <1>2 DEF RowsNumbered, BootFIFO, Recorded
<1>3. ASSUME UNCHANGED <<rows, r2h, batch, hostEnd>>
      PROVE  ArrivalOrder'
    <2>1. Recorded' = Recorded
        BY <1>3 DEF Recorded
    <2> QED
        BY <1>3, <2>1, ArrivalKept DEF ArrivalOrder
<1>4. CASE RunnerStart \/ RunnerCrash \/ SpoolAppend \/ SpoolSaveAck \/ RunnerAck
    <2>1. UNCHANGED <<rows, lastSeq, r2h, batch, hostEnd>>
        BY <1>4 DEF RunnerStart, RunnerCrash, SpoolAppend, SpoolSaveAck, RunnerAck,
                    linkVars, hostVars, storeVars
    <2>2. SpoolOrder'
        BY <1>4, StartOrder, CrashOrder, DiskWriteOrder, AckOrder
    <2>3. OriginInv'
        BY <1>4, RunnerStepOrigin
    <2> QED
        BY <1>2, <1>3, <2>1, <2>2, <2>3
<1>5. ASSUME NEW out \in BOOLEAN, RunnerEmit(out)
      PROVE  OrderInv'
    <2>1. UNCHANGED <<rows, lastSeq>>
        BY <1>5 DEF RunnerEmit, storeVars
    <2>2. SpoolOrder' /\ ArrivalOrder' /\ OriginInv'
        BY <1>5, EmitOrder, EmitOrigin
    <2> QED
        BY <1>2, <2>1, <2>2
<1>6. CASE RunnerHello \/ RunnerConnClosed \/ \E c \in Conn : RunnerConnect(c)
    <2>1. UNCHANGED <<rows, lastSeq, up, disabled, pending, spoolLog, jobs>>
        BY <1>6 DEF RunnerHello, RunnerConnClosed, RunnerConnect, runnerVars, spoolVars, storeVars
    <2>2. SpoolOrder' /\ RowsNumbered' /\ BootFIFO'
        BY <1>2, <2>1, SpoolOrderKept
    <2>3. OriginInv'
        BY <1>6, RunnerStepOrigin
    <2>4. ArrivalOrder'
        <3>1. CASE RunnerHello
            BY <3>1, HelloOrder
        <3>2. CASE RunnerConnClosed
            BY <1>3, <2>1, <3>2 DEF RunnerConnClosed, hostVars
        <3>3. ASSUME NEW c \in Conn, RunnerConnect(c)
              PROVE  ArrivalOrder'
            <4>1. /\ r2h'[c] = <<>> /\ batch'[c] = <<>>
                  /\ \A d \in Conn \ {c} : /\ r2h'[d] = r2h[d] /\ batch'[d] = batch[d]
                                           /\ hostEnd'[d] = hostEnd[d]
                BY <1>1, <3>3 DEF RunnerConnect, HostInv, TypeOK, LinkTypeOK, HostTypeOK
            <4>2. ArrivalOf(c)'
                BY <4>1, ArrivalGone
            <4> QED
                BY <1>2, <2>1, <4>1, <4>2, ArrivalOfOthers
        <3> QED
            BY <1>6, <3>1, <3>2, <3>3
    <2> QED
        BY <2>2, <2>3, <2>4
<1>7. CASE HostStep
    <2>1. "storeError" \notin Faults
        BY DEF NoDiskFault
    <2>2. UNCHANGED RunnerSide /\ Recorded \subseteq Recorded'
        BY <1>1, <1>7, <2>1, HostStepKeeps DEF DeliveryInv
    <2>3. SpoolOrder'
        BY <2>2, SpoolOrderKept DEF RunnerSide, runnerVars, spoolVars
    <2>4. ArrivalOrder' /\ RowsNumbered' /\ BootFIFO'
        BY <1>1, <1>7, <2>1, HostStepOrder
    <2>5. OriginInv'
        BY <1>1, <1>7, <2>1, HostStepOrigin
    <2> QED
        BY <2>3, <2>4, <2>5
<1>8. CASE UNCHANGED vars
    <2>1. /\ UNCHANGED <<rows, lastSeq, r2h, batch, hostEnd>>
          /\ UNCHANGED <<up, disabled, pending, spoolLog, jobs, emits>>
        BY <1>8 DEF vars, runnerVars, spoolVars, linkVars, hostVars, storeVars
    <2>2. SpoolOrder' /\ ArrivalOrder' /\ RowsNumbered' /\ BootFIFO'
        BY <1>2, <1>3, <2>1, SpoolOrderKept
    <2>3. OriginInv'
        <3>1. pending' \subseteq OnTheWay /\ Spooled' \subseteq OnTheWay
            BY <2>1 DEF Spooled, OnTheWay
        <3>2. \A c \in Conn : Sent(c)' \subseteq OnTheWay \cup {Hello}
            BY <1>1, <2>1, SentFacts
        <3> QED
            BY <1>2, <2>1, <3>1, <3>2, OriginKept
    <2> QED
        BY <2>2, <2>3
<1> QED
    BY <1>4, <1>5, <1>6, <1>7, <1>8 DEF Next, HostStep

\* Whatever holds an event holds the earlier ones of its process before it.
THEOREM OrderInductive == NoDiskFault => (Spec => []OrderInv)
<1> SUFFICES ASSUME NoDiskFault PROVE Spec => []OrderInv
    OBVIOUS
<1>1. DeliveryInv /\ OrderInv /\ [Next]_vars => OrderInv'
    BY OrderStep
<1> QED
    BY <1>1, OrderInit, DeliveryInductive, PTL DEF Spec

\* The events of one runner process enter the table in the order it emitted them
\* and without a gap, through resending, replaced connections, batches, a host that
\* dies between two statements of Store.appendEvent, and crashes of the runner.
THEOREM EventsInOrder == NoDiskFault => (Spec => []BootFIFO)
<1> SUFFICES ASSUME NoDiskFault PROVE Spec => []BootFIFO
    OBVIOUS
<1>1. OrderInv => BootFIFO
    BY DEF OrderInv
<1> QED
    BY <1>1, OrderInductive, PTL

-----------------------------------------------------------------------------
(* The refinement: the table is the log that EventStream describes.        *)

\* INSERT OR IGNORE: a new row is of an event that has no row yet.
LEMMA FreshRows ==
    ASSUME NEW msgs \in Seq(Env), NEW failed
    PROVE  /\ \A r \in NewRows(msgs, Fresh(msgs, failed)) : r.ev \notin Recorded
           /\ \A q, r \in NewRows(msgs, Fresh(msgs, failed)) : q.ev = r.ev => q = r
<1> DEFINE F == Fresh(msgs, failed)
           row(i) == [ev |-> msgs[i].ev, seq |-> lastSeq + Cardinality({j \in F : j <= i})]
<1>1. \A i \in F : /\ i \in 1..Len(msgs) /\ i \notin failed /\ msgs[i].ev \notin Recorded
                   /\ \A j \in 1..(i - 1) : j \in failed \/ msgs[j].ev # msgs[i].ev
    BY DEF Fresh
<1>2. NewRows(msgs, F) = {row(i) : i \in F} /\ \A i \in F : row(i).ev = msgs[i].ev
    BY DEF NewRows
<1> HIDE DEF F, row
<1>3. ASSUME NEW i \in F, NEW k \in F, msgs[i].ev = msgs[k].ev
      PROVE  i = k
    <2>1. i < k => i \in 1..(k - 1)
        BY <1>1
    <2>2. k < i => k \in 1..(i - 1)
        BY <1>1
    <2> QED
        BY <1>1, <1>3, <2>1, <2>2
<1>4. \A r \in NewRows(msgs, F) : r.ev \notin Recorded
    BY <1>1, <1>2
<1>5. \A q, r \in NewRows(msgs, F) : q.ev = r.ev => q = r
    BY <1>2, <1>3
<1> QED
    BY <1>4, <1>5 DEF F

LEMMA PersistLogs ==
    ASSUME TypeOK, SeqInv, NEW msgs \in Seq(Env), Persist(msgs), UNCHANGED emits,
           OriginInv', BootFIFO', TypeOK', SeqInv'
    PROVE  Stream!Record
<1>1. /\ rows \subseteq Row /\ lastSeq \in Nat /\ rows' \subseteq Row
      /\ \A r \in Row : r.ev \in Event /\ r.seq \in Nat
    BY DEF TypeOK, StoreTypeOK, Row
<1>2. PICK failed \in Failures(msgs) :
          /\ rows' = rows \cup NewRows(msgs, Fresh(msgs, failed))
          /\ lastSeq' = lastSeq + Cardinality(Fresh(msgs, failed))
    BY DEF Persist
<1> DEFINE F == Fresh(msgs, failed)
<1>3. /\ \A r \in NewRows(msgs, F) : r.ev \notin Recorded
      /\ \A q, r \in NewRows(msgs, F) : q.ev = r.ev => q = r
    BY FreshRows
<1>4. F \in SUBSET (1..Len(msgs))
    BY DEF Fresh
<1>5. rows' = rows \cup NewRows(msgs, F) /\ lastSeq' = lastSeq + Cardinality(F)
    BY <1>2
<1> HIDE DEF F
<1>6. /\ \A r \in NewRows(msgs, F) : lastSeq < r.seq /\ r.seq <= lastSeq + Cardinality(F)
      /\ Cardinality(F) \in Nat
    BY <1>1, <1>4, NewRowsSeqs, NewRowsFacts
<1>7. Emitted' = Emitted /\ Recorded' \subseteq Emitted
    BY DEF OriginInv, Emitted
<1>8. ASSUME NEW r \in rows' \ rows
      PROVE  /\ r.ev \in Emitted \ Recorded
             /\ r.seq > lastSeq /\ r.seq <= lastSeq'
             /\ \A q \in rows' : q.ev = r.ev \/ q.seq = r.seq => q = r
             /\ \A n \in 1..(r.ev[2] - 1) :
                   \E q \in rows' : q.ev = <<r.ev[1], n>> /\ q.seq < r.seq
    <2>1. r \in NewRows(msgs, F) /\ r \in rows' /\ r \in Row
        BY <1>1, <1>5
    <2>2. r.ev \in Emitted \ Recorded
        BY <1>3, <1>7, <2>1 DEF Recorded
    <2>3. r.seq > lastSeq /\ r.seq <= lastSeq'
        BY <1>1, <1>5, <1>6, <2>1
    <2>4. ASSUME NEW q \in rows', q.ev = r.ev
          PROVE  q = r
        <3>1. q \notin rows
            BY <2>2, <2>4 DEF Recorded
        <3> QED
            BY <1>3, <1>5, <2>1, <2>4, <3>1
    <2>5. \A q \in rows' : q.seq = r.seq => q = r
        BY <2>1 DEF SeqInv, UniqueSeq
    <2>6. ASSUME NEW n \in 1..(r.ev[2] - 1)
          PROVE  \E q \in rows' : q.ev = <<r.ev[1], n>> /\ q.seq < r.seq
        <3>1. r.ev[2] \in Nat /\ n \in Nat /\ n < r.ev[2]
            BY <1>1, <2>1 DEF Event
        <3>2. <<r.ev[1], n>> \in Recorded'
            BY <2>1 DEF BootFIFO
        <3>3. PICK q \in rows' : q.ev = <<r.ev[1], n>>
            BY <3>2 DEF Recorded
        <3>4. q.ev[1] = r.ev[1] /\ q.ev[2] = n
            BY <3>3
        <3>5. q.seq <= r.seq
            BY <2>1, <3>1, <3>4 DEF BootFIFO
        <3>6. q # r
            BY <3>1, <3>4
        <3>7. q.seq \in Nat /\ r.seq \in Nat
            BY <1>1, <2>1
        <3> QED
            BY <2>5, <3>3, <3>5, <3>6, <3>7
    <2> QED
        BY <2>2, <2>3, <2>4, <2>5, <2>6
<1>9. rows \subseteq rows' /\ lastSeq' >= lastSeq
    BY <1>1, <1>5, <1>6
<1> QED
    <2>1. Stream!Logged = Recorded
        BY DEF Stream!Logged, Recorded
    <2>2. UNCHANGED Emitted
        BY <1>7
    <2> QED
        BY <1>8, <1>9, <2>1, <2>2, Zenon DEF Stream!Record, Emitted

\* An emitted event is the next one of its process.
LEMMA EmitIsEmit ==
    ASSUME TypeOK, NEW out \in BOOLEAN, RunnerEmit(out)
    PROVE  Stream!Emit
<1> DEFINE n == emits[boot] + 1
<1>1. /\ up /\ n <= MaxEvents /\ emits' = [emits EXCEPT ![boot] = n]
      /\ UNCHANGED <<rows, lastSeq>>
    BY DEF RunnerEmit, storeVars
<1>2. /\ boot \in 1..MaxBoots /\ emits \in [1..MaxBoots -> Nat]
      /\ n \in 1..MaxEvents /\ emits[boot] \in Nat
    BY <1>1, BoundsAssumption DEF TypeOK, RunnerTypeOK
<1>3. Emitted' = Emitted \cup {<<boot, n>>} /\ <<boot, n>> \notin Emitted
    BY <1>1, <1>2 DEF Emitted
<1>4. <<boot, n>> \in Stream!Event
    BY <1>2, BoundsAssumption DEF Stream!Event
<1>5. \A k \in 1..(n - 1) : <<boot, k>> \in Emitted
    BY <1>2, BoundsAssumption DEF Emitted
<1>6. \E e \in Emitted' \ Emitted :
         /\ e \in Stream!Event /\ Emitted' = Emitted \cup {e}
         /\ \A k \in 1..(e[2] - 1) : <<e[1], k>> \in Emitted
    <2> HIDE DEF n
    <2> DEFINE e == <<boot, n>>
    <2>1. e[1] = boot /\ e[2] = n
        OBVIOUS
    <2>2. /\ e \in Emitted' \ Emitted /\ e \in Stream!Event /\ Emitted' = Emitted \cup {e}
          /\ \A k \in 1..(e[2] - 1) : <<e[1], k>> \in Emitted
        BY <1>3, <1>4, <1>5, <2>1
    <2> HIDE DEF e
    <2> QED
        BY <2>2
<1> QED
    BY <1>1, <1>6 DEF Stream!Emit, Emitted

LEMMA StreamStep ==
    ASSUME NoDiskFault, "midAppend" \notin Faults,
           TypeOK, TypeOK', SeqInv, SeqInv', OrderInv', [Next]_vars
    PROVE  [Stream!Next]_(Stream!vars)
<1>1. /\ batch \in [Conn -> Seq(Env)] /\ r2h \in [Conn -> Seq(Env \cup {Hello})]
    BY DEF TypeOK, HostTypeOK, LinkTypeOK
<1>2. ASSUME UNCHANGED <<emits, rows, lastSeq>>
      PROVE  UNCHANGED Stream!vars
    BY <1>2 DEF Stream!vars
<1>3. ASSUME NEW msgs \in Seq(Env), Persist(msgs), UNCHANGED emits
      PROVE  Stream!Record
    <2>1. OriginInv' /\ BootFIFO'
        BY DEF OrderInv
    <2> QED
        BY <1>3, <2>1, PersistLogs
<1>4. ASSUME NEW c \in Conn, HostOutput(c) \/ HostEvent(c)
      PROVE  [Stream!Next]_(Stream!vars)
    <2>1. Head(r2h[c]) \in Env
        BY <1>1, <1>4, EnvFacts DEF HostOutput, HostEvent
    <2>2. Append(batch[c], Head(r2h[c])) \in Seq(Env)
        BY <1>1, <2>1, AppendType
    <2>3. /\ UNCHANGED emits
          /\ Persist(Append(batch[c], Head(r2h[c]))) \/ UNCHANGED <<rows, lastSeq>>
        BY <1>4 DEF HostOutput, HostEvent, runnerVars, storeVars
    <2> QED
        BY <1>2, <1>3, <2>2, <2>3 DEF Stream!Next
<1>5. ASSUME NEW c \in Conn, HostFlush(c) \/ HostConnClosed(c)
      PROVE  [Stream!Next]_(Stream!vars)
    <2>1. batch[c] \in Seq(Env) /\ Persist(batch[c]) /\ UNCHANGED emits
        BY <1>1, <1>5 DEF HostFlush, HostConnClosed, runnerVars
    <2> QED
        BY <1>3, <2>1 DEF Stream!Next
<1>6. ASSUME NEW out \in BOOLEAN, RunnerEmit(out)
      PROVE  [Stream!Next]_(Stream!vars)
    BY <1>6, EmitIsEmit DEF Stream!Next
<1>7. CASE \/ RunnerStart \/ RunnerCrash \/ SpoolAppend \/ SpoolSaveAck
           \/ RunnerHello \/ RunnerAck \/ RunnerConnClosed
           \/ HostDisconnect \/ HostRestart \/ UNCHANGED vars
    <2>1. UNCHANGED <<emits, rows, lastSeq>>
        BY <1>7 DEF RunnerStart, RunnerCrash, SpoolAppend, SpoolSaveAck, RunnerHello, RunnerAck,
           RunnerConnClosed, HostDisconnect, HostRestart, HostGone, runnerVars, storeVars, vars
    <2> QED
        BY <1>2, <2>1
<1>8. ASSUME NEW c \in Conn, RunnerConnect(c) \/ HostHello(c)
      PROVE  [Stream!Next]_(Stream!vars)
    BY <1>2, <1>8 DEF RunnerConnect, HostHello, runnerVars, storeVars
<1>9. \A c \in Conn : ~HostDiesMidAppend(c)
    BY DEF HostDiesMidAppend
<1> QED
    BY <1>4, <1>5, <1>6, <1>7, <1>8, <1>9 DEF Next

\* With no fault of the database or the spool, and no end of the host between two
\* statements, the delivery implements the log: a step records new events, or emits
\* one, or is not seen by it.
THEOREM DeliveryIsAStream == NoDiskFault /\ "midAppend" \notin Faults => (Spec => StreamSpec)
<1> SUFFICES ASSUME NoDiskFault, "midAppend" \notin Faults PROVE Spec => StreamSpec
    OBVIOUS
<1>1. Init => Stream!Init
    BY BoundsAssumption DEF Init, Stream!Init
<1>2. Init => SeqInv
    BY DEF Init, SeqInv, UniqueSeq
<1>3. TypeOK /\ SeqInv /\ [Next]_vars => SeqInv'
    BY SeqStep
<1>4. TypeOK /\ TypeOK' /\ SeqInv /\ SeqInv' /\ OrderInv' /\ [Next]_vars
         => [Stream!Next]_(Stream!vars)
    BY StreamStep
<1> QED
    BY <1>1, <1>2, <1>3, <1>4, TypeCorrect, OrderInductive, PTL
       DEF Spec, StreamSpec, Stream!Spec
=============================================================================
