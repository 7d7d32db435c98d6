------------------------- MODULE MCWebHistoryProofs -------------------------
(***************************************************************************)
(* Proofs about the history of the session that a page shows and the       *)
(* output of its tools, as MCWeb puts them together with the other parts,  *)
(* for every value of the bounds.  What the page shows is whole because of *)
(* what is true while it is not:                                           *)
(*   HistoryInv   an event that the page ought to show and does not is     *)
(*                held back, behind a number that a call under way asks    *)
(*                from, on the stream behind everything the page knows, or *)
(*                before the row it was told of; and unless answers came   *)
(*                in another order, what is shown is in the order of the   *)
(*                events and what is held back is later;                   *)
(*   OutputsInv   the stream ends with the newest text, the texts after    *)
(*                the answer of a load are on the stream or on the page,   *)
(*                and reasoning that was opened after its turn was over    *)
(*                has all its pieces.                                      *)
(* Neither follows from what the run checks: a page may show everything in *)
(* order and still be about to lose what nothing under way would bring.    *)
(* The last part bounds what the other modules of the composition keep, so *)
(* that all variables have their types: no time of the lists is beyond the *)
(* changes made (ListsWithin, ListsCounted), no list of models is newer    *)
(* than the last upgrade (CatalogFits), and a choice of options is one of  *)
(* those counted (ChoicesFit).                                             *)
(***************************************************************************)
EXTENDS MCWebProofs

\* The bounds each part rests on.
LEMMA HistoryBounds ==
    /\ PageSize \in Nat \ {0} /\ MaxPages \in Nat \ {0}
    /\ MaxEvents \in Nat /\ MaxSelects \in Nat /\ MaxFails \in Nat /\ MaxConnects \in Nat
BY MCWebAssumption

LEMMA OutputBounds ==
    /\ OutputPage \in Nat \ {0}
    /\ MaxTexts \in Nat /\ MaxLeaves \in Nat /\ MaxReloads \in Nat /\ MaxPieces \in Nat
BY MCWebAssumption

-----------------------------------------------------------------------------
(* The history of the session.                                             *)

\* What the host has stored is n events, and there are no others on the page.
Group(n) == {g \in Seq(1..n) : g # <<>>}
StoreOf(n) ==
    [there : BOOLEAN, loaded : BOOLEAN, events : Seq(1..n), seen : SUBSET (1..n), last : 0..n,
     real : 0..n, more : BOOLEAN, before : 0..n, pending : Seq(Group(n)), turn : 0..n,
     loadingBefore : BOOLEAN, loadingAfter : BOOLEAN]
LoadOf(n) == [at : {"none", "asked", "answered"}, upto : 0..n]
BackfillOf(n) ==
    [after : 0..n, at : {"asked", "answered"}, upto : 0..n, more : BOOLEAN, selecting : BOOLEAN,
     page : 1..MaxPages]
FrameOf(n) == {"event", "snapshot"} \X (0..n)

HistoryTyped ==
    /\ log \in Seq(History!Kind) /\ Len(log) <= MaxEvents
    /\ historyFrames \in Seq(FrameOf(Len(log))) /\ historyRow \in 0..Len(log)
    /\ store \in StoreOf(Len(log))
    /\ historyLoad \in LoadOf(Len(log)) /\ older \subseteq 1..Len(log)
    /\ newer \subseteq BackfillOf(Len(log))
    /\ historyMissed \subseteq History!Event /\ merged \subseteq History!Event
    /\ raced \in BOOLEAN
    /\ subscribed \in BOOLEAN /\ historySelected \in BOOLEAN
    /\ selects \in 0..MaxSelects /\ fails \in 0..MaxFails /\ historyConnects \in 0..MaxConnects

\* Frames come in the order of their events, and a snapshot is the first.
HistoryFramesInOrder ==
    /\ \A k \in 1..Len(historyFrames) : historyFrames[k][1] = "event" => historyFrames[k][2] # 0
    /\ \A k \in 2..Len(historyFrames) : historyFrames[k][1] = "event"
    /\ \A k, l \in 1..Len(historyFrames) : k < l => historyFrames[k][2] < historyFrames[l][2]
CallsInOrder ==
    \A c \in newer : c.at = "answered" => c.after <= c.upto /\ (c.more => c.after < c.upto)

\* A loaded page has a store, and what is held back waits for a call.
Waits ==
    /\ store.loaded => store.there
    /\ store.pending # <<>> => store.loadingBefore
    /\ store.loadingBefore => store.before \in older

\* What is in seen is shown, and an event is shown twice only as a merged text.
Known(s) == s.seen \subseteq History!Shown(s)
Distinct(s, M) ==
    /\ History!Shown(s) \subseteq s.seen \cup M
    /\ \A i, j \in 1..Len(s.events) : i < j /\ s.events[i] = s.events[j] => s.events[i] \in M

Rising(q) == \A i, j \in 1..Len(q) : i < j => q[i] <= q[j]
PendingRises(p) ==
    /\ \A k \in 1..Len(p) : Rising(p[k])
    /\ \A k, l \in 1..Len(p) : k < l => \A i \in 1..Len(p[k]), j \in 1..Len(p[l]) :
        p[k][i] <= p[l][j]
Sorted(s) ==
    /\ Rising(s.events) /\ PendingRises(s.pending)
    /\ \A i \in History!Shown(s), j \in History!HeldIn(s) : i <= j
    /\ s.before > 0 => s.events # <<>> /\ \A i \in History!Shown(s) : s.before <= i

TurnIs(s) ==
    s.turn # 0 =>
        /\ s.turn <= Len(log) /\ log[s.turn] = "start" /\ s.before <= s.turn
        /\ \A i \in History!Shown(s) \cup History!HeldIn(s) : i > s.turn => log[i] = "text"

\* Where an event is that the page does not show: given up, behind a backfill that is
\* underway, on the stream behind all that is known to the page, or before the row.
AtSnapshot == historyFrames # <<>> /\ historyFrames[1][1] = "snapshot"
HistoryComing(i) ==
    \/ \E k \in 1..Len(historyFrames) : historyFrames[k] = <<"event", i>>
    \/ AtSnapshot /\ i <= historyFrames[1][2]
Brought(i) == i \in History!Shown(store) \cup History!HeldIn(store) \cup historyMissed
HistoryAskedFor(i) == \E c \in newer : c.after < i /\ (c.at = "asked" \/ c.more \/ i <= c.upto)
Beyond(i) == i > store.last /\ i > store.real /\ \A c \in newer : i > c.after
HistoryTold(i) == i <= historyRow /\ (AtSnapshot => i <= historyFrames[1][2])
HistoryReached(i) ==
    \/ Brought(i) \/ HistoryAskedFor(i)
    \/ Beyond(i) /\ HistoryComing(i)
    \/ HistoryTold(i) /\ (historyLoad.at = "answered" \/ (~historySelected /\ i > store.last))
Needed(i) ==
    \/ historyLoad.at = "answered" /\ i > historyLoad.upto
    \/ historyLoad.at = "none" /\ store.loaded /\ i >= store.before
AllReached == \A i \in 1..Len(log) : Needed(i) => HistoryReached(i)

HistoryInv ==
    /\ HistoryTyped /\ HistoryFramesInOrder /\ CallsInOrder /\ Waits
    /\ Known(store) /\ Distinct(store, merged) /\ History!MergedIn(store) \subseteq merged
    /\ ~raced => Sorted(store) /\ TurnIs(store)
    /\ AllReached

LEMMA HeldIs ==
    ASSUME NEW s, NEW i
    PROVE  i \in History!HeldIn(s) <=>
             \E k \in 1..Len(s.pending) : \E m \in 1..Len(s.pending[k]) : i = s.pending[k][m]
BY DEF History!HeldIn

LEMMA MergedIs ==
    ASSUME NEW s, NEW i
    PROVE  i \in History!MergedIn(s) <=>
             \E k \in 1..Len(s.pending) : \E m \in 2..Len(s.pending[k]) : i = s.pending[k][m]
BY DEF History!MergedIn

LEMMA StoreIs ==
    ASSUME NEW n \in Nat, NEW s \in StoreOf(n)
    PROVE  /\ Len(s.events) \in Nat /\ History!Shown(s) \subseteq 1..n /\ s.seen \subseteq 1..n
           /\ s.events \in Seq(1..n) /\ s.pending \in Seq(Group(n))
           /\ s.last \in 0..n /\ s.real \in 0..n /\ s.before \in 0..n /\ s.turn \in 0..n
           /\ s.loadingBefore \in BOOLEAN /\ s.loaded \in BOOLEAN /\ s.there \in BOOLEAN
           /\ Len(s.pending) \in Nat /\ History!HeldIn(s) \subseteq 1..n
           /\ \A k \in 1..Len(s.pending) :
                 s.pending[k] \in Seq(1..n) /\ Len(s.pending[k]) \in Nat \ {0}
                     /\ s.pending[k] # <<>>
<1>1. /\ s.events \in Seq(1..n) /\ s.pending \in Seq(Group(n))
      /\ s.seen \subseteq 1..n
      /\ s.last \in 0..n /\ s.real \in 0..n /\ s.before \in 0..n /\ s.turn \in 0..n
      /\ s.loadingBefore \in BOOLEAN /\ s.loaded \in BOOLEAN /\ s.there \in BOOLEAN
  BY DEF StoreOf
<1>2. Len(s.events) \in Nat /\ Len(s.pending) \in Nat /\ \A k \in 1..Len(s.events) :
        s.events[k] \in 1..n
  BY <1>1
<1>3. \A k \in 1..Len(s.pending) :
          s.pending[k] \in Seq(1..n) /\ Len(s.pending[k]) \in Nat \ {0} /\ s.pending[k] # <<>>
  <2> SUFFICES ASSUME NEW k \in 1..Len(s.pending)
               PROVE  s.pending[k] \in Seq(1..n) /\ Len(s.pending[k]) \in Nat \ {0}
                        /\ s.pending[k] # <<>>
    OBVIOUS
  <2>1. s.pending[k] \in Group(n)
    BY <1>1
  <2>2. s.pending[k] \in Seq(1..n) /\ s.pending[k] # <<>>
    BY <2>1 DEF Group
  <2> QED BY <2>2
<1>4. History!HeldIn(s) \subseteq 1..n
  BY HeldIs, <1>3
<1> QED BY <1>1, <1>2, <1>3, <1>4 DEF History!Shown

\* The fields that no event changes.
Same(s, t) ==
    /\ t.loaded = s.loaded /\ t.more = s.more /\ t.before = s.before
    /\ t.loadingBefore = s.loadingBefore /\ t.loadingAfter = s.loadingAfter

LEMMA AddIs ==
    ASSUME NEW n \in Nat, NEW s \in StoreOf(n), NEW i \in 1..n
    PROVE  /\ History!Add(s, i) \in StoreOf(n) /\ Same(s, History!Add(s, i))
           /\ History!Add(s, i).there = s.there /\ History!Add(s, i).real = s.real
           /\ History!Add(s, i).turn = s.turn
           /\ History!Add(s, i).pending = s.pending
           /\ i \in s.seen => History!Add(s, i) = s
           /\ i \notin s.seen => /\ History!Add(s, i).events = Append(s.events, i)
                                /\ History!Add(s, i).seen = s.seen \cup {i}
                                /\ History!Add(s, i).last = History!MaxOf(s.last, i)
<1>1. CASE i \in s.seen
  BY <1>1 DEF History!Add, Same
<1>2. CASE i \notin s.seen
  <2>1. /\ s.events \in Seq(1..n) /\ s.seen \cup {i} \subseteq 1..n
        /\ History!MaxOf(s.last, i) \in 0..n
    BY StoreIs DEF History!MaxOf
  <2>2. Append(s.events, i) \in Seq(1..n)
    BY <2>1
  <2>3. History!Add(s, i) = [s EXCEPT !.seen = s.seen \cup {i}, !.events = Append(s.events, i),
          !.last = History!MaxOf(s.last, i)]
    BY <1>2 DEF History!Add
  <2> QED BY <1>2, <2>1, <2>2, <2>3 DEF StoreOf, Same
<1> QED BY <1>1, <1>2

LEMMA HoldIs ==
    ASSUME NEW n \in Nat, NEW s \in StoreOf(n), NEW i \in 1..n
    PROVE  /\ History!Held(s, i) \in StoreOf(n) /\ Same(s, History!Held(s, i))
           /\ History!Held(s, i).there = s.there /\ History!Held(s, i).real = s.real
           /\ History!Held(s, i).turn = s.turn
           /\ History!Held(s, i).last = s.last /\ History!Held(s, i).events = s.events
           /\ History!Held(s, i).seen = s.seen
           /\ \/ History!Held(s, i).pending = Append(s.pending, <<i>>)
              \/ /\ s.pending # <<>>
                 /\ History!Held(s, i).pending =
                      [s.pending EXCEPT ![Len(s.pending)] = Append(s.pending[Len(s.pending)],
                          i)]
<1> DEFINE p == s.pending
           a == Append(p, <<i>>)
           b == [p EXCEPT ![Len(p)] = Append(p[Len(p)], i)]
<1>1. p \in Seq(Group(n))
  BY StoreIs
<1>2. a \in Seq(Group(n))
  BY <1>1 DEF Group
<1>3. p # <<>> => b \in Seq(Group(n))
  <2> SUFFICES ASSUME p # <<>> PROVE b \in Seq(Group(n))
    OBVIOUS
  <2>1. Len(p) \in 1..Len(p)
    BY <1>1
  <2>2. p[Len(p)] \in Seq(1..n) /\ Len(p[Len(p)]) \in Nat
    BY <2>1, StoreIs
  <2> DEFINE g == Append(p[Len(p)], i)
  <2>3. g \in Seq(1..n) /\ Len(g) = Len(p[Len(p)]) + 1
    BY <2>2
  <2> HIDE DEF g
  <2>4. g \in Seq(1..n) /\ Len(g) # 0
    BY <2>2, <2>3
  <2>5. g \in Group(n)
    BY <2>4 DEF Group
  <2>6. [p EXCEPT ![Len(p)] = g] \in Seq(Group(n))
    BY <1>1, <2>1, <2>5, ExceptSeq
  <2> QED BY <2>6 DEF g
<1> DEFINE merge == p # <<>> /\ log[p[Len(p)][1]] = "text" /\ log[i] = "text"
<1>4. History!Held(s, i) = [s EXCEPT !.pending = IF merge THEN b ELSE a]
  BY DEF History!Held
<1>5. (IF merge THEN b ELSE a) \in Seq(Group(n))
  BY <1>2, <1>3
<1> HIDE DEF a, b, merge
<1>6. History!Held(s, i).pending = IF merge THEN b ELSE a
  BY <1>4 DEF StoreOf
<1>7. History!Held(s, i).pending = a \/ (s.pending # <<>> /\ History!Held(s, i).pending = b)
  BY <1>6 DEF merge
<1> QED BY <1>4, <1>5, <1>7 DEF StoreOf, Same, a, b

LEMMA AddKeeps ==
    ASSUME NEW n \in Nat, NEW s \in StoreOf(n), NEW i \in 1..n, Known(s), NEW t,
             t = History!Add(s, i), NEW M
    PROVE  /\ History!Shown(t) = History!Shown(s) \cup {i}
           /\ History!HeldIn(t) = History!HeldIn(s) /\ Known(t)
           /\ Distinct(s, M) => Distinct(t, M)
           /\ Sorted(s) /\ s.pending = <<>> /\ (\A j \in History!Shown(s) : j <= i) => Sorted(t)
<1>1. /\ s.events \in Seq(1..n) /\ Len(s.events) \in Nat /\ History!Shown(s) \subseteq 1..n
      /\ s.before \in 0..n
  BY StoreIs
<1>2. t.pending = s.pending /\ History!HeldIn(t) = History!HeldIn(s) /\ t.before = s.before
  BY AddIs DEF History!HeldIn, Same
<1>3. CASE i \in s.seen
  BY <1>3, AddIs DEF Known
<1>4. CASE i \notin s.seen
  <2>1. t.events = Append(s.events, i) /\ t.seen = s.seen \cup {i}
    BY <1>4, AddIs
  <2>2. /\ Len(t.events) = Len(s.events) + 1 /\ t.events[Len(s.events) + 1] = i
        /\ \A k \in 1..Len(s.events) : t.events[k] = s.events[k]
    BY <1>1, <2>1
  <2>3. \A k \in 1..Len(t.events) : k = Len(s.events) + 1 \/ k \in 1..Len(s.events)
    BY <1>1, <2>2
  <2>4. History!Shown(t) = History!Shown(s) \cup {i}
    <3>1. \A j \in History!Shown(t) : j \in History!Shown(s) \cup {i}
      BY <2>2, <2>3 DEF History!Shown
    <3>2. i \in History!Shown(t)
      <4>1. Len(s.events) + 1 \in 1..Len(t.events)
        BY <1>1, <2>2
      <4> QED BY <2>2, <4>1 DEF History!Shown
    <3>3. \A j \in History!Shown(s) : j \in History!Shown(t)
      <4> SUFFICES ASSUME NEW k \in 1..Len(s.events) PROVE s.events[k] \in History!Shown(t)
        BY DEF History!Shown
      <4>1. k \in 1..Len(t.events) /\ t.events[k] = s.events[k]
        BY <1>1, <2>2
      <4> QED BY <4>1 DEF History!Shown
    <3> QED BY <3>1, <3>2, <3>3
  <2>5. Known(t)
    BY <2>1, <2>4 DEF Known
  <2>6. ASSUME Distinct(s, M) PROVE Distinct(t, M)
    <3>1. History!Shown(t) \subseteq t.seen \cup M
      BY <2>1, <2>4, <2>6 DEF Distinct
    <3>2. ASSUME NEW k \in 1..Len(t.events), NEW l \in 1..Len(t.events), k < l,
            t.events[k] = t.events[l]
          PROVE  t.events[k] \in M
      <4>1. k \in 1..Len(s.events) /\ t.events[k] = s.events[k]
        BY <1>1, <2>2, <3>2
      <4>2. CASE l = Len(s.events) + 1
        BY <2>2, <3>2, <4>1, <4>2, <1>4, <2>6 DEF History!Shown, Distinct
      <4>3. CASE l \in 1..Len(s.events)
        BY <2>2, <2>6, <3>2, <4>1, <4>3 DEF Distinct
      <4> QED BY <2>3, <4>2, <4>3
    <3> QED BY <3>1, <3>2 DEF Distinct
  <2>7. ASSUME Sorted(s), s.pending = <<>>, \A j \in History!Shown(s) : j <= i PROVE Sorted(t)
    <3>1. Rising(t.events)
      <4> SUFFICES ASSUME NEW k \in 1..Len(t.events), NEW l \in 1..Len(t.events), k < l
                   PROVE  t.events[k] <= t.events[l]
        BY DEF Rising
      <4>1. k \in 1..Len(s.events) /\ t.events[k] = s.events[k]
        BY <1>1, <2>2
      <4>2. CASE l = Len(s.events) + 1
        BY <4>1, <2>2, <2>7, <4>2 DEF History!Shown
      <4>3. CASE l \in 1..Len(s.events)
        BY <2>2, <2>7, <4>1, <4>3 DEF Sorted, Rising
      <4> QED BY <2>3, <4>2, <4>3
    <3>2. PendingRises(t.pending) /\ History!HeldIn(t) = {}
      BY <1>2, <2>7 DEF Sorted, History!HeldIn
    <3>3. ASSUME t.before > 0 PROVE t.events # <<>> /\ \A j \in History!Shown(t) : t.before <= j
      <4>1. s.events # <<>> /\ \A j \in History!Shown(s) : s.before <= j
        BY <1>2, <2>7, <3>3 DEF Sorted
      <4>2. 1 \in 1..Len(s.events) /\ s.events[1] \in History!Shown(s)
        BY <1>1, <4>1 DEF History!Shown
      <4>3. s.before <= i
        BY <1>1, <2>7, <4>1, <4>2
      <4>4. t.events # <<>>
        BY <1>1, <2>2
      <4> QED BY <1>2, <2>4, <4>1, <4>3, <4>4
    <3> QED BY <3>1, <3>2, <3>3 DEF Sorted
  <2> QED BY <1>2, <2>4, <2>5, <2>6, <2>7
<1> QED BY <1>3, <1>4

LEMMA HoldKeeps ==
    ASSUME NEW n \in Nat, NEW s \in StoreOf(n), NEW i \in 1..n, NEW t, t = History!Held(s, i),
             NEW M
    PROVE  /\ History!Shown(t) = History!Shown(s)
           /\ History!HeldIn(t) = History!HeldIn(s) \cup {i} /\ (Known(s) => Known(t))
           /\ Distinct(s, M) => Distinct(t, M)
           /\ Sorted(s) /\ (\A j \in History!Shown(s) \cup History!HeldIn(s) : j <= i) =>
               Sorted(t)
<1>1. /\ s.pending \in Seq(Group(n)) /\ Len(s.pending) \in Nat
          /\ History!HeldIn(s) \subseteq 1..n
      /\ \A k \in 1..Len(s.pending) : s.pending[k] \in Seq(1..n)
          /\ Len(s.pending[k]) \in Nat \ {0}
  BY StoreIs
<1>2. /\ t \in StoreOf(n) /\ t.events = s.events /\ t.seen = s.seen /\ t.before = s.before
      /\ \/ t.pending = Append(s.pending, <<i>>)
         \/ /\ s.pending # <<>>
            /\ t.pending = [s.pending EXCEPT ![Len(s.pending)] =
                Append(s.pending[Len(s.pending)], i)]
  BY HoldIs DEF Same
<1>3. /\ History!Shown(t) = History!Shown(s) /\ (Known(s) => Known(t))
      /\ (Distinct(s, M) => Distinct(t, M))
  BY <1>2 DEF History!Shown, Known, Distinct
\* The place of the new event in what is held.
<1> DEFINE last == Len(t.pending)
           end == Len(t.pending[last])
<1>4. /\ last \in Nat \ {0} /\ end \in Nat \ {0} /\ t.pending[last][end] = i
      /\ \A k \in 1..last : Len(t.pending[k]) \in Nat
      /\ \A k \in 1..last : \A m \in 1..Len(t.pending[k]) :
            \/ k = last /\ m = end
            \/ k \in 1..Len(s.pending) /\ m \in 1..Len(s.pending[k])
                /\ t.pending[k][m] = s.pending[k][m]
      /\ \A k \in 1..Len(s.pending) : \A m \in 1..Len(s.pending[k]) :
            k \in 1..last /\ m \in 1..Len(t.pending[k]) /\ t.pending[k][m] = s.pending[k][m]
  <2>1. CASE t.pending = Append(s.pending, <<i>>)
    BY <1>1, <2>1
  <2>2. CASE s.pending # <<>>
          /\ t.pending = [s.pending EXCEPT ![Len(s.pending)] =
              Append(s.pending[Len(s.pending)], i)]
    <3> DEFINE z == Len(s.pending)
    <3>1. z \in 1..z
      BY <1>1, <2>2
    <3>2. /\ last = z /\ t.pending[z] = Append(s.pending[z], i)
          /\ \A k \in 1..z : k # z => t.pending[k] = s.pending[k]
      BY <1>1, <2>2, <3>1
    <3>3. s.pending[z] \in Seq(1..n) /\ Len(s.pending[z]) \in Nat \ {0}
      BY <1>1, <3>1
    <3>4. /\ end = Len(s.pending[z]) + 1 /\ t.pending[z][end] = i
          /\ \A m \in 1..Len(s.pending[z]) : t.pending[z][m] = s.pending[z][m]
      BY <3>2, <3>3
    <3> HIDE DEF last, end, z
    <3>5. \A m \in 1..end : m = end \/ m \in 1..Len(s.pending[z])
      BY <3>3, <3>4
    <3>6. \A m \in 1..Len(s.pending[z]) : m \in 1..end
      BY <3>3, <3>4
    <3>7. end = Len(t.pending[z])
      BY <3>2 DEF end
    <3>8. \A k \in 1..z : Len(t.pending[k]) \in Nat
      BY <1>1, <3>2, <3>3, <3>4, <3>7 DEF z
    <3>9. last \in Nat \ {0} /\ end \in Nat \ {0}
      BY <1>1, <3>1, <3>2, <3>3, <3>4 DEF z
    <3>10. \A k \in 1..last : \A m \in 1..Len(t.pending[k]) :
             \/ k = last /\ m = end
             \/ k \in 1..z /\ m \in 1..Len(s.pending[k]) /\ t.pending[k][m] = s.pending[k][m]
      BY <3>2, <3>4, <3>5, <3>7
    <3>11. \A k \in 1..z : \A m \in 1..Len(s.pending[k]) :
             k \in 1..last /\ m \in 1..Len(t.pending[k]) /\ t.pending[k][m] = s.pending[k][m]
      BY <3>2, <3>4, <3>6, <3>7
    <3> QED BY <3>2, <3>4, <3>8, <3>9, <3>10, <3>11 DEF z
  <2> QED BY <1>2, <2>1, <2>2
<1> HIDE DEF end
<1>5. History!HeldIn(t) = History!HeldIn(s) \cup {i}
  <2>1. ASSUME NEW j \in History!HeldIn(t) PROVE j \in History!HeldIn(s) \cup {i}
    <3>1. PICK k \in 1..last : \E m \in 1..Len(t.pending[k]) : j = t.pending[k][m]
      BY <2>1, HeldIs
    <3>2. PICK m \in 1..Len(t.pending[k]) : j = t.pending[k][m]
      BY <3>1
    <3>3. j = i \/ (k \in 1..Len(s.pending) /\ m \in 1..Len(s.pending[k])
            /\ j = s.pending[k][m])
      BY <1>4, <3>1, <3>2
    <3> QED BY <3>3, HeldIs
  <2>2. ASSUME NEW j \in History!HeldIn(s) PROVE j \in History!HeldIn(t)
    <3>1. PICK k \in 1..Len(s.pending) : \E m \in 1..Len(s.pending[k]) : j = s.pending[k][m]
      BY <2>2, HeldIs
    <3>2. PICK m \in 1..Len(s.pending[k]) : j = s.pending[k][m]
      BY <3>1
    <3>3. k \in 1..last /\ m \in 1..Len(t.pending[k]) /\ j = t.pending[k][m]
      BY <1>4, <3>2
    <3> QED BY <3>3, HeldIs
  <2>3. i \in History!HeldIn(t)
    <3>1. last \in 1..last /\ end \in 1..Len(t.pending[last]) /\ i = t.pending[last][end]
      BY <1>4 DEF end
    <3> QED BY <3>1, HeldIs
  <2> QED BY <2>1, <2>2, <2>3
<1>6. ASSUME Sorted(s), \A j \in History!Shown(s) \cup History!HeldIn(s) : j <= i
        PROVE Sorted(t)
  <2>1. ASSUME NEW k \in 1..Len(s.pending), NEW m \in 1..Len(s.pending[k])
          PROVE s.pending[k][m] <= i
    BY HeldIs, <1>6
  <2>2. ASSUME NEW k \in 1..last, NEW l \in 1..last, k <= l,
               NEW m \in 1..Len(t.pending[k]), NEW o \in 1..Len(t.pending[l]), k = l => m < o
        PROVE  t.pending[k][m] <= t.pending[l][o]
    <3>1. ~(k = last /\ m = end)
      BY <1>4, <2>2 DEF end
    <3>2. /\ k \in 1..Len(s.pending) /\ m \in 1..Len(s.pending[k])
          /\ t.pending[k][m] = s.pending[k][m]
      BY <1>4, <3>1
    <3>3. CASE l = last /\ o = end
      BY <1>4, <2>1, <3>2, <3>3
    <3>4. CASE l \in 1..Len(s.pending) /\ o \in 1..Len(s.pending[l])
            /\ t.pending[l][o] = s.pending[l][o]
      BY <2>2, <3>2, <1>6, <3>4 DEF Sorted, PendingRises, Rising
    <3> QED BY <1>4, <3>3, <3>4
  <2>3. PendingRises(t.pending)
    <3>1. ASSUME NEW k \in 1..last PROVE Rising(t.pending[k])
      BY <2>2 DEF Rising
    <3>2. ASSUME NEW k \in 1..last, NEW l \in 1..last, k < l,
                 NEW m \in 1..Len(t.pending[k]), NEW o \in 1..Len(t.pending[l])
          PROVE  t.pending[k][m] <= t.pending[l][o]
      BY <2>2, <3>2
    <3> QED BY <3>1, <3>2 DEF PendingRises
  <2>4. \A j \in History!Shown(t), h \in History!HeldIn(t) : j <= h
    BY <1>3, <1>5, <1>6 DEF Sorted
  <2>5. t.before > 0 => t.events # <<>> /\ \A j \in History!Shown(t) : t.before <= j
    BY <1>2, <1>3, <1>6 DEF Sorted
  <2>6. Rising(t.events)
    BY <1>2, <1>6 DEF Sorted
  <2> QED BY <2>3, <2>4, <2>5, <2>6 DEF Sorted
<1> QED BY <1>3, <1>5, <1>6

\* What the page has of the event once it has been handled.
Here(s) == History!Shown(s) \cup History!HeldIn(s)

LEMMA HandledIs ==
    ASSUME NEW n \in Nat, NEW s \in StoreOf(n), NEW i \in 1..n, NEW above \in BOOLEAN, Known(s),
           historySelected \in BOOLEAN, log \in Seq(History!Kind), NEW r,
               r = History!Handled(s, i, above), NEW M, Distinct(s, M),
           s.pending # <<>> => s.loadingBefore
    PROVE  /\ r \in StoreOf(n) /\ Same(s, r) /\ Known(r) /\ Distinct(r, M)
           /\ History!Shown(s) \subseteq History!Shown(r)
           /\ s.there => r.there
           /\ r.real <= s.real \/ r.real <= i
           /\ r.last <= s.last \/ r.last <= i
           /\ r.pending # <<>> => r.loadingBefore
           /\ historySelected => Here(r) = Here(s) \cup {i}
           /\ ~historySelected => /\ Here(r) = Here(s) /\ r.last = s.last /\ r.events = s.events
                                  /\ r.pending = s.pending /\ r.turn = s.turn
                                  /\ (Sorted(s) => Sorted(r)) /\ (TurnIs(s) => TurnIs(r))
           /\ s.pending = <<>> /\ ~(s.loadingBefore /\ above) => r.pending = <<>>
           /\ historySelected /\ s.pending # <<>> /\ i \notin History!Shown(r) => above
           /\ Sorted(s) /\ TurnIs(s) /\ i <= Len(log) /\ (\A j \in Here(s) : j <= i)
                /\ (s.pending = <<>> \/ above \/ i \notin History!Shown(r)) => Sorted(r)
                    /\ TurnIs(r)
<1> DEFINE t == [s EXCEPT !.real = IF s.there THEN History!MaxOf(@, i) ELSE @]
           u == [t EXCEPT !.there = TRUE,
                          !.turn = CASE log[i] = "start" -> i [] log[i] =
                              "end" -> 0 [] OTHER -> @]
<1>1. s.real \in 0..n /\ s.turn \in 0..n /\ s.last \in 0..n
  BY StoreIs
<1>2. /\ t \in StoreOf(n) /\ Same(s, t) /\ t.there = s.there /\ t.turn = s.turn
      /\ t.events = s.events /\ t.pending = s.pending /\ t.seen = s.seen /\ t.last = s.last
      /\ t.real = IF s.there THEN History!MaxOf(s.real, i) ELSE s.real
  <2> DEFINE a == IF s.there THEN History!MaxOf(s.real, i) ELSE s.real
  <2>1. a \in 0..n
    BY <1>1 DEF History!MaxOf
  <2>2. t = [s EXCEPT !.real = a]
    OBVIOUS
  <2> HIDE DEF a, t
  <2>3. /\ t \in StoreOf(n) /\ Same(s, t) /\ t.there = s.there /\ t.turn = s.turn
        /\ t.events = s.events /\ t.pending = s.pending /\ t.seen = s.seen /\ t.last = s.last
        /\ t.real = a
    BY <2>1, <2>2 DEF StoreOf, Same
  <2> QED BY <2>3 DEF a
<1>3. t.real <= s.real \/ t.real <= i
  BY <1>1, <1>2 DEF History!MaxOf
<1>4. CASE ~historySelected
  <2>1. r = t
    BY <1>4 DEF History!Handled
  <2> HIDE DEF t, u
  <2>2. History!Shown(r) = History!Shown(s) /\ History!HeldIn(r) = History!HeldIn(s)
    <3>1. r.events = s.events /\ r.pending = s.pending
      BY <1>2, <2>1
    <3> QED BY <3>1 DEF History!Shown, History!HeldIn
  <2>3. Known(r) /\ Distinct(r, M)
    BY <1>2, <2>1, <2>2 DEF Known, Distinct
  <2>4. Sorted(s) => Sorted(r)
    BY <1>2, <2>1, <2>2 DEF Sorted, Same
  <2>5. TurnIs(s) => TurnIs(r)
    BY <1>2, <2>1, <2>2 DEF TurnIs, Same
  <2>6. s.pending # <<>> => s.loadingBefore
    OBVIOUS
  <2> QED BY <1>1, <1>2, <1>3, <1>4, <2>1, <2>2, <2>3, <2>4, <2>5 DEF Same, Here
<1>5. CASE historySelected
  <2> DEFINE a == CASE log[i] = "start" -> i [] log[i] = "end" -> 0 [] OTHER -> t.turn
  <2>1. a \in 0..n
    BY <1>1, <1>2
  <2>2. u = [t EXCEPT !.there = TRUE, !.turn = a]
    OBVIOUS
  <2>3. r = IF u.loadingBefore /\ above THEN History!Held(u, i) ELSE History!Add(u, i)
    BY <1>5 DEF History!Handled
  <2> HIDE DEF a, t, u
  <2>4. /\ u \in StoreOf(n) /\ Same(s, u) /\ u.there /\ u.turn = a
        /\ u.events = s.events /\ u.pending = s.pending /\ u.seen = s.seen /\ u.last = s.last
        /\ u.real = t.real
    BY <1>2, <2>1, <2>2 DEF StoreOf, Same
  <2>5. History!Shown(u) = History!Shown(s) /\ History!HeldIn(u) = History!HeldIn(s)
    BY <2>4 DEF History!Shown, History!HeldIn
  <2>6. Known(u) /\ Distinct(u, M) /\ (Sorted(s) => Sorted(u))
    BY <2>4, <2>5 DEF Known, Distinct, Sorted, Same
  <2>7. ASSUME NEW w, TurnIs(s), Sorted(s), i <= Len(log), \A j \in Here(s) : j <= i,
               w.turn = a, w.before = s.before, Here(w) = Here(s) \cup {i}
        PROVE  TurnIs(w)
    <3>1. s.before <= i
      <4>1. CASE s.before = 0
        BY <4>1
      <4>2. CASE s.before > 0
        <5>1. s.events # <<>> /\ \A j \in History!Shown(s) : s.before <= j
          BY <2>7, <4>2 DEF Sorted
        <5>2. 1 \in 1..Len(s.events)
          BY <5>1, StoreIs
        <5>3. s.events[1] \in History!Shown(s) /\ s.events[1] \in 1..n /\ s.before \in 0..n
          BY <5>2, StoreIs DEF History!Shown
        <5> QED BY <2>7, <5>1, <5>3 DEF Here
      <4> QED BY <4>1, <4>2, StoreIs
    <3>2. CASE log[i] = "start"
      <4>1. a = i
        BY <3>2 DEF a
      <4>2. \A j \in Here(w) : j \in 1..n /\ j <= i
        BY <2>7, StoreIs DEF Here
      <4> QED BY <2>7, <3>1, <3>2, <4>1, <4>2 DEF TurnIs, Here
    <3>3. CASE log[i] = "end"
      BY <3>3, <2>7 DEF a, TurnIs
    <3>4. CASE log[i] # "start" /\ log[i] # "end"
      BY <1>2, <3>4, <2>7 DEF a, TurnIs, Here, History!Kind
    <3> QED BY <3>2, <3>3, <3>4
  <2>8. CASE u.loadingBefore /\ above
    <3>1. r = History!Held(u, i)
      BY <2>3, <2>8
    <3>2. /\ r \in StoreOf(n) /\ Same(u, r) /\ r.there = u.there /\ r.real = u.real
              /\ r.turn = a
          /\ r.last = s.last
      <4>1. /\ History!Held(u, i) \in StoreOf(n) /\ Same(u, History!Held(u, i))
            /\ History!Held(u, i).there = u.there
            /\ History!Held(u, i).real = u.real /\ History!Held(u, i).turn = u.turn
            /\ History!Held(u, i).last = u.last
        BY <2>4, HoldIs
      <4> QED BY <2>4, <3>1, <4>1
    <3>3. /\ History!Shown(r) = History!Shown(u)
              /\ History!HeldIn(r) = History!HeldIn(u) \cup {i} /\ Known(r) /\ Distinct(r, M)
          /\ Sorted(u) /\ (\A j \in History!Shown(u) \cup History!HeldIn(u) : j <= i) =>
              Sorted(r)
      BY <2>4, <2>6, <3>1, HoldKeeps
    <3>4. Here(r) = Here(s) \cup {i}
      BY <2>5, <3>3 DEF Here
    <3>5. Sorted(s) /\ TurnIs(s) /\ i <= Len(log) /\ (\A j \in Here(s) : j <= i) =>
            Sorted(r) /\ TurnIs(r)
      BY <2>4, <2>5, <2>6, <2>7, <3>2, <3>3, <3>4 DEF Here, Same
    <3>6. Same(s, r) /\ r.loadingBefore /\ above /\ s.loadingBefore
      BY <2>4, <2>8, <3>2 DEF Same
    <3>7. /\ r.there /\ (r.real <= s.real \/ r.real <= i)
          /\ History!Shown(s) \subseteq History!Shown(r) /\ r.last <= s.last
      BY <1>1, <1>3, <2>4, <2>5, <3>2, <3>3
    <3> QED BY <1>5, <3>2, <3>3, <3>4, <3>5, <3>6, <3>7
  <2>9. CASE ~(u.loadingBefore /\ above)
    <3>1. r = History!Add(u, i)
      BY <2>3, <2>9
    <3>2. /\ r \in StoreOf(n) /\ Same(u, r) /\ r.there = u.there /\ r.real = u.real
              /\ r.turn = a
          /\ r.pending = s.pending /\ (r.last = s.last \/ r.last = History!MaxOf(s.last, i))
      <4> DEFINE w == History!Add(u, i)
      <4>1. /\ w \in StoreOf(n) /\ Same(u, w) /\ w.there = u.there /\ w.real = u.real
            /\ w.turn = u.turn /\ w.pending = u.pending
            /\ (w = u \/ w.last = History!MaxOf(u.last, i))
        BY <2>4, AddIs
      <4>2. r = w
        BY <3>1
      <4> HIDE DEF w
      <4> QED BY <2>4, <4>1, <4>2
    <3>3. /\ History!Shown(r) = History!Shown(u) \cup {i}
              /\ History!HeldIn(r) = History!HeldIn(u) /\ Known(r) /\ Distinct(r, M)
          /\ Sorted(u) /\ u.pending = <<>> /\ (\A j \in History!Shown(u) : j <= i) => Sorted(r)
      BY <2>4, <2>6, <3>1, AddKeeps
    <3>4. Here(r) = Here(s) \cup {i} /\ i \in History!Shown(r)
      BY <2>5, <3>3 DEF Here
    <3>5. r.last <= s.last \/ r.last <= i
      BY <1>1, <3>2 DEF History!MaxOf
    <3>6. Same(s, r) /\ (s.pending # <<>> => ~above)
      BY <2>4, <2>9, <3>2 DEF Same
    <3>7. Sorted(s) /\ TurnIs(s) /\ i <= Len(log) /\ (\A j \in Here(s) : j <= i)
            /\ s.pending = <<>>
             => Sorted(r) /\ TurnIs(r)
      BY <2>4, <2>5, <2>6, <2>7, <3>2, <3>3, <3>4 DEF Here, Same
    <3>8. r.pending # <<>> => r.loadingBefore
      BY <3>2, <3>6 DEF Same
    <3>9. /\ r.there /\ (r.real <= s.real \/ r.real <= i)
          /\ History!Shown(s) \subseteq History!Shown(r)
      BY <1>3, <2>4, <2>5, <3>2, <3>3
    <3> QED BY <1>5, <3>2, <3>3, <3>4, <3>5, <3>6, <3>7, <3>8, <3>9
  <2> QED BY <2>8, <2>9
<1> QED BY <1>4, <1>5

\* d has what the page has after each of the n events behind after.
Handling(d, s, after, n, above) ==
    d = [k \in 0..n |-> IF k = 0 THEN s ELSE History!Handled(d[k - 1], after + k, above)]

LEMMA HandlingExists ==
    ASSUME NEW s, NEW after \in Nat, NEW n \in Nat, NEW above
    PROVE  \E d : Handling(d, s, after, n, above)
<1> DEFINE S == {m \in Nat : \E d : Handling(d, s, after, m, above)}
<1>1. 0 \in S
  <2>1. Handling([k \in 0..0 |-> s], s, after, 0, above)
    BY DEF Handling
  <2> QED BY <2>1
<1>2. ASSUME NEW m \in Nat, m \in S PROVE m + 1 \in S
  <2>1. PICK d : Handling(d, s, after, m, above)
    BY <1>2
  <2> DEFINE w == [k \in 0..(m + 1) |-> IF k = m + 1
        THEN History!Handled(d[m], after + (m + 1), above) ELSE d[k]]
  <2>2. \A k \in 0..m : w[k] = d[k]
    OBVIOUS
  <2>3. \A k \in 0..(m + 1) : w[k] = IF k = 0 THEN s
          ELSE History!Handled(w[k - 1], after + k, above)
    <3> SUFFICES ASSUME NEW k \in 0..(m + 1)
                 PROVE  w[k] = IF k = 0 THEN s ELSE History!Handled(w[k - 1], after + k, above)
      OBVIOUS
    <3>1. CASE k = m + 1
      BY <3>1, <2>2
    <3>2. CASE k \in 0..m
      BY <2>1, <3>2, <2>2 DEF Handling
    <3> QED BY <3>1, <3>2
  <2>4. Handling(w, s, after, m + 1, above)
    BY <2>3 DEF Handling
  <2> QED BY <2>4
<1>3. n \in S
  <2> HIDE DEF S
  <2> QED BY <1>1, <1>2, EveryNumber
<1> QED BY <1>3

\* What m events behind after leave of s.
HistoryAfter(t, s, after, m, above, M) ==
    /\ t \in StoreOf(Len(log)) /\ Same(s, t) /\ Known(t) /\ Distinct(t, M)
    /\ History!Shown(s) \subseteq History!Shown(t)
    /\ s.there => t.there
    /\ t.real <= s.real \/ t.real <= after + m
    /\ t.last <= s.last \/ t.last <= after + m
    /\ t.pending # <<>> => t.loadingBefore
    /\ historySelected => Here(t) = Here(s) \cup (after + 1)..(after + m)
    /\ ~historySelected => /\ Here(t) = Here(s) /\ t.last = s.last
                           /\ Sorted(s) => Sorted(t)
                           /\ TurnIs(s) => TurnIs(t)
    /\ s.pending = <<>> /\ ~(s.loadingBefore /\ above) => t.pending = <<>>
    /\ Sorted(s) /\ TurnIs(s) /\ (\A j \in Here(s) : j <= after) /\ s.pending = <<>>
         => Sorted(t) /\ TurnIs(t)

LEMMA AfterNext ==
    ASSUME log \in Seq(History!Kind), historySelected \in BOOLEAN, NEW s \in StoreOf(Len(log)),
             NEW after \in Nat,
           NEW m \in Nat, after + (m + 1) <= Len(log), NEW above \in BOOLEAN, NEW M,
           NEW t, HistoryAfter(t, s, after, m, above, M), NEW r,
               r = History!Handled(t, after + (m + 1), above)
    PROVE  HistoryAfter(r, s, after, m + 1, above, M)
<1> DEFINE n == Len(log)
           i == after + (m + 1)
<1>1. n \in Nat /\ i \in 1..n /\ i = (after + m) + 1 /\ i \in Nat
  OBVIOUS
<1>2. /\ t \in StoreOf(n) /\ Same(s, t) /\ Known(t) /\ Distinct(t, M)
      /\ History!Shown(s) \subseteq History!Shown(t)
      /\ s.there => t.there
      /\ t.real <= s.real \/ t.real <= after + m
      /\ t.last <= s.last \/ t.last <= after + m
      /\ t.pending # <<>> => t.loadingBefore
  BY DEF HistoryAfter
<1>3. /\ historySelected => Here(t) = Here(s) \cup (after + 1)..(after + m)
      /\ ~historySelected => /\ Here(t) = Here(s) /\ t.last = s.last
                             /\ Sorted(s) => Sorted(t)
                             /\ TurnIs(s) => TurnIs(t)
      /\ s.pending = <<>> /\ ~(s.loadingBefore /\ above) => t.pending = <<>>
      /\ Sorted(s) /\ TurnIs(s) /\ (\A j \in Here(s) : j <= after) /\ s.pending = <<>>
           => Sorted(t) /\ TurnIs(t)
  BY DEF HistoryAfter
<1> HIDE DEF n, i
<1>4. /\ r \in StoreOf(n) /\ Same(t, r) /\ Known(r) /\ Distinct(r, M)
      /\ History!Shown(t) \subseteq History!Shown(r)
      /\ t.there => r.there
      /\ r.real <= t.real \/ r.real <= i
      /\ r.last <= t.last \/ r.last <= i
      /\ r.pending # <<>> => r.loadingBefore
      /\ historySelected => Here(r) = Here(t) \cup {i}
      /\ ~historySelected => /\ Here(r) = Here(t) /\ r.last = t.last
                             /\ (Sorted(t) => Sorted(r)) /\ (TurnIs(t) => TurnIs(r))
      /\ t.pending = <<>> /\ ~(t.loadingBefore /\ above) => r.pending = <<>>
      /\ Sorted(t) /\ TurnIs(t) /\ i <= Len(log) /\ (\A j \in Here(t) : j <= i)
           /\ (t.pending = <<>> \/ above) => Sorted(r) /\ TurnIs(r)
  BY <1>1, <1>2, HandledIs DEF i
<1>5. Same(s, r) /\ t.loadingBefore = s.loadingBefore
  BY <1>2, <1>4 DEF Same
<1>6. /\ r.real \in Nat /\ t.real \in Nat /\ s.real \in Nat /\ r.last \in Nat /\ t.last \in Nat
      /\ s.last \in Nat
      /\ Here(s) \subseteq 1..n
  <2>1. /\ r.real \in Nat /\ t.real \in Nat /\ s.real \in Nat /\ r.last \in Nat
        /\ t.last \in Nat /\ s.last \in Nat
    <3>1. s \in StoreOf(n)
      BY DEF n
    <3>2. t \in StoreOf(n) /\ r \in StoreOf(n)
      BY <1>2, <1>4
    <3> QED BY <1>1, <3>1, <3>2, StoreIs
  <2>2. Here(s) \subseteq 1..n
    BY <1>1, StoreIs DEF Here, n
  <2> QED BY <2>1, <2>2
<1>7. /\ (r.real <= s.real \/ r.real <= after + (m + 1))
      /\ (r.last <= s.last \/ r.last <= after + (m + 1))
  <2>1. (t.real <= s.real \/ t.real <= after + m) /\ (t.last <= s.last \/ t.last <= after + m)
    BY <1>2
  <2>2. (r.real <= t.real \/ r.real <= i) /\ (r.last <= t.last \/ r.last <= i)
    BY <1>4
  <2>3. after \in Nat /\ m \in Nat /\ i = after + (m + 1)
    BY DEF i
  <2> QED BY <1>6, <2>1, <2>2, <2>3
<1>8. historySelected => Here(r) = Here(s) \cup (after + 1)..(after + (m + 1))
  BY <1>1, <1>3, <1>4
<1>9. ASSUME Sorted(s), TurnIs(s), \A j \in Here(s) : j <= after, s.pending = <<>>
      PROVE  Sorted(r) /\ TurnIs(r)
  <2>1. Sorted(t) /\ TurnIs(t)
    BY <1>3, <1>9
  <2>2. CASE ~historySelected
    BY <1>4, <2>1, <2>2
  <2>3. CASE historySelected
    BY <1>1, <1>6, <1>9, <1>3, <2>3, <1>4, <2>1 DEF n
  <2> QED BY <2>2, <2>3
<1>10. s.pending = <<>> /\ ~(s.loadingBefore /\ above) => r.pending = <<>>
  BY <1>3, <1>4, <1>5
<1>11. /\ r \in StoreOf(Len(log)) /\ Known(r) /\ Distinct(r, M)
       /\ History!Shown(s) \subseteq History!Shown(r)
       /\ s.there => r.there
       /\ r.pending # <<>> => r.loadingBefore
  BY <1>2, <1>4 DEF n
<1>12. ~historySelected => /\ Here(r) = Here(s) /\ r.last = s.last
                           /\ Sorted(s) => Sorted(r)
                           /\ TurnIs(s) => TurnIs(r)
  BY <1>3, <1>4
<1> QED BY <1>5, <1>7, <1>8, <1>9, <1>10, <1>11, <1>12 DEF HistoryAfter

LEMMA HandledAllIs ==
    ASSUME log \in Seq(History!Kind), historySelected \in BOOLEAN, NEW s \in StoreOf(Len(log)),
             NEW after \in Nat,
           NEW n \in Nat, after + n <= Len(log), NEW above \in BOOLEAN, NEW M,
           Known(s), Distinct(s, M), s.pending # <<>> => s.loadingBefore
    PROVE  HistoryAfter(History!HandledAll(s, after, n, above), s, after, n, above, M)
<1>1. PICK e : Handling(e, s, after, n, above)
  BY HandlingExists
<1>2. \E d : History!HandledAll(s, after, n, above) = d[n] /\ Handling(d, s, after, n, above)
  BY <1>1 DEF History!HandledAll, Handling
<1>3. PICK d : History!HandledAll(s, after, n, above) = d[n] /\ Handling(d, s, after, n, above)
  BY <1>2
<1> DEFINE S == {m \in Nat : m <= n => HistoryAfter(d[m], s, after, m, above, M)}
<1>4. 0 \in S
  BY <1>3, StoreIs DEF Handling, Same, HistoryAfter
<1>5. ASSUME NEW m \in Nat, m \in S PROVE m + 1 \in S
  <2> SUFFICES ASSUME m + 1 <= n PROVE HistoryAfter(d[m + 1], s, after, m + 1, above, M)
    OBVIOUS
  <2>1. HistoryAfter(d[m], s, after, m, above, M) /\ after + (m + 1) <= Len(log)
    BY <1>5
  <2>2. d[m + 1] = History!Handled(d[m], after + (m + 1), above)
    BY <1>3 DEF Handling
  <2> QED BY <2>1, <2>2, AfterNext
<1>6. n \in S
  <2> HIDE DEF S
  <2> QED BY <1>4, <1>5, EveryNumber
<1> QED BY <1>3, <1>6

Elems(q) == {q[i] : i \in 1..Len(q)}
Twice(q, M) == \A i, j \in 1..Len(q) : i < j /\ q[i] = q[j] => q[i] \in M

LEMMA JoinedSeqs ==
    ASSUME NEW n \in Nat, NEW a \in Seq(1..n), NEW c \in Seq(1..n), NEW q, q = a \o c, NEW M
    PROVE  /\ q \in Seq(1..n) /\ (\A x : x \in Elems(q) <=> x \in Elems(a) \/ x \in Elems(c))
           /\ (q = <<>> => a = <<>> /\ c = <<>>)
           /\ Rising(a) /\ Rising(c) /\ (\A x \in Elems(a), y \in Elems(c) : x <= y) =>
               Rising(q)
           /\ Twice(a, M) /\ Twice(c, M) /\ Elems(a) \cap Elems(c) \subseteq M => Twice(q, M)
<1> DEFINE l == Len(a)
<1>1. /\ q \in Seq(1..n) /\ Len(q) = l + Len(c) /\ l \in Nat /\ Len(c) \in Nat
      /\ \A k \in 1..l : q[k] = a[k]
      /\ \A k \in 1..Len(c) : q[l + k] = c[k]
  OBVIOUS
<1>2. q = <<>> => a = <<>> /\ c = <<>>
  BY <1>1
<1>3. /\ \A k \in 1..l : a[k] \in 1..n
      /\ \A k \in 1..Len(c) : c[k] \in 1..n
  OBVIOUS
<1> HIDE DEF l
<1>4. \A k \in 1..Len(q) : k \in 1..l \/ (k - l \in 1..Len(c) /\ q[k] = c[k - l])
  BY <1>1
<1>5. /\ \A k \in 1..l : k \in 1..Len(q)
      /\ \A k \in 1..Len(c) : l + k \in 1..Len(q)
  BY <1>1
<1>6. Elems(q) = Elems(a) \cup Elems(c)
  <2>1. ASSUME NEW x \in Elems(q) PROVE x \in Elems(a) \cup Elems(c)
    BY <2>1, <1>1, <1>4 DEF Elems, l
  <2>2. ASSUME NEW k \in 1..l PROVE a[k] \in Elems(q)
    BY <1>1, <1>5 DEF Elems
  <2>3. ASSUME NEW k \in 1..Len(c) PROVE c[k] \in Elems(q)
    BY <1>1, <1>5 DEF Elems
  <2> QED BY <2>1, <2>2, <2>3 DEF Elems, l
<1>7. ASSUME Rising(a), Rising(c), \A x \in Elems(a), y \in Elems(c) : x <= y PROVE Rising(q)
  <2> SUFFICES ASSUME NEW i \in 1..Len(q), NEW j \in 1..Len(q), i < j PROVE q[i] <= q[j]
    BY DEF Rising
  <2>1. CASE i \in 1..l /\ j \in 1..l
    BY <1>1, <1>7, <2>1 DEF Rising, l
  <2>2. CASE i \in 1..l /\ j - l \in 1..Len(c) /\ q[j] = c[j - l]
    BY <1>1, <2>2, <1>7 DEF Elems, l
  <2>3. CASE i - l \in 1..Len(c) /\ q[i] = c[i - l] /\ j - l \in 1..Len(c) /\ q[j] = c[j - l]
    <3>1. i - l < j - l
      BY <1>1
    <3> QED BY <1>7, <2>3, <3>1 DEF Rising
  <2>4. CASE i \notin 1..l /\ j \in 1..l
    BY <1>1, <2>4
  <2> QED BY <1>4, <2>1, <2>2, <2>3, <2>4
<1>8. ASSUME Twice(a, M), Twice(c, M), Elems(a) \cap Elems(c) \subseteq M PROVE Twice(q, M)
  <2> SUFFICES ASSUME NEW i \in 1..Len(q), NEW j \in 1..Len(q), i < j, q[i] = q[j]
        PROVE q[i] \in M
    BY DEF Twice
  <2>1. CASE i \in 1..l /\ j \in 1..l
    BY <1>1, <1>8, <2>1 DEF Twice, l
  <2>2. CASE i \in 1..l /\ j - l \in 1..Len(c) /\ q[j] = c[j - l]
    BY <1>1, <2>2, <1>8 DEF Elems, l
  <2>3. CASE i - l \in 1..Len(c) /\ q[i] = c[i - l] /\ j - l \in 1..Len(c) /\ q[j] = c[j - l]
    <3>1. i - l < j - l
      BY <1>1
    <3> QED BY <1>8, <2>3, <3>1 DEF Twice
  <2>4. CASE i \notin 1..l /\ j \in 1..l
    BY <1>1, <2>4
  <2> QED BY <1>4, <2>1, <2>2, <2>3, <2>4
<1> QED BY <1>1, <1>2, <1>6, <1>7, <1>8

\* What does not change when what was held is added, or an older page is.
HistoryKept(s, t) ==
    t.there = s.there /\ t.loaded = s.loaded /\ t.last = s.last /\ t.real = s.real
        /\ t.turn = s.turn

LEMMA JoinedIs ==
    ASSUME NEW n \in Nat, NEW s \in StoreOf(n), NEW g \in Group(n), Known(s), NEW M,
             Distinct(s, M),
           \A m \in 2..Len(g) : g[m] \in M, NEW t, t = History!Joined(s, g)
    PROVE  /\ t \in StoreOf(n) /\ Same(s, t) /\ HistoryKept(s, t) /\ t.pending = s.pending
           /\ Known(t) /\ Distinct(t, M)
           /\ History!Shown(s) \subseteq History!Shown(t)
           /\ History!Shown(t) \subseteq History!Shown(s) \cup Elems(g)
           /\ s.events # <<>> => t.events # <<>>
           /\ Rising(s.events) /\ Rising(g)
               /\ (\A x \in History!Shown(s), y \in Elems(g) : x <= y)
                => Rising(t.events)
<1>1. g \in Seq(1..n) /\ g # <<>>
  BY DEF Group
<1>2. Len(g) \in Nat \ {0} /\ 1 \in 1..Len(g) /\ g[1] \in 1..n
  BY <1>1
<1>3. CASE g[1] \in s.seen
  <2>1. t = s
    BY <1>3 DEF History!Joined
  <2> QED BY <2>1 DEF Same, HistoryKept
<1>4. CASE g[1] \notin s.seen
  <2>0. PICK q : q = s.events \o g
    OBVIOUS
  <2>1. s.events \in Seq(1..n) /\ s.seen \subseteq 1..n
    BY StoreIs
  <2>2. History!Shown(s) = Elems(s.events)
    BY DEF History!Shown, Elems
  <2>3. /\ q \in Seq(1..n) /\ Elems(q) = Elems(s.events) \cup Elems(g)
        /\ (q = <<>> => s.events = <<>> /\ g = <<>>)
        /\ Rising(s.events) /\ Rising(g)
            /\ (\A x \in Elems(s.events), y \in Elems(g) : x <= y) => Rising(q)
        /\ Twice(s.events, M) /\ Twice(g, M) /\ Elems(s.events) \cap Elems(g) \subseteq M =>
            Twice(q, M)
    <3>1. PICK e : e = s.events
      OBVIOUS
    <3>2. e \in Seq(1..n) /\ g \in Seq(1..n) /\ q = e \o g
      BY <1>1, <2>0, <2>1, <3>1
    <3>3. q \in Seq(1..n) /\ (q = <<>> => e = <<>> /\ g = <<>>)
      BY <3>2, JoinedSeqs
    <3>4. \A x : x \in Elems(q) <=> x \in Elems(e) \/ x \in Elems(g)
      BY <3>2, JoinedSeqs, ZenonT(30)
    <3>5. Rising(e) /\ Rising(g) /\ (\A x \in Elems(e), y \in Elems(g) : x <= y) => Rising(q)
      BY <3>2, JoinedSeqs, ZenonT(30)
    <3>6. Twice(e, M) /\ Twice(g, M) /\ Elems(e) \cap Elems(g) \subseteq M => Twice(q, M)
      BY <3>2, JoinedSeqs, ZenonT(30)
    <3> QED BY <3>1, <3>3, <3>4, <3>5, <3>6
  <2> DEFINE z == s.seen \cup {g[1]}
  <2>4. t = [s EXCEPT !.seen = z, !.events = q] /\ z \subseteq 1..n
    BY <1>2, <1>4, <2>0, <2>1 DEF History!Joined
  <2> HIDE DEF z
  <2>5. /\ t \in StoreOf(n) /\ Same(s, t) /\ HistoryKept(s, t) /\ t.pending = s.pending
        /\ t.events = q /\ t.seen = s.seen \cup {g[1]}
    BY <2>3, <2>4 DEF StoreOf, Same, HistoryKept, z
  <2>6. History!Shown(t) = History!Shown(s) \cup Elems(g)
    BY <2>2, <2>3, <2>5 DEF History!Shown, Elems
  <2>7. \A x \in Elems(g) : x = g[1] \/ x \in M
    BY <1>2 DEF Elems
  <2>8. Known(t)
    BY <1>2, <2>5, <2>6 DEF Elems, Known
  <2>9. Distinct(t, M)
    BY <1>2, <1>4, <2>2, <2>7, <2>3, <2>5, <2>6 DEF Distinct, Twice
  <2> QED BY <2>2, <2>3, <2>5, <2>6, <2>8, <2>9
<1> QED BY <1>3, <1>4

\* d has the store after each of what was held is added to z.
FlushingTo(d, z, p, n) ==
    d = [k \in 0..n |-> IF k = 0 THEN z ELSE History!Joined(d[k - 1], p[k])]

LEMMA FlushingExists ==
    ASSUME NEW z, NEW p, NEW n \in Nat
    PROVE  \E d : FlushingTo(d, z, p, n)
<1> DEFINE S == {m \in Nat : \E d : FlushingTo(d, z, p, m)}
<1>1. 0 \in S
  <2>1. FlushingTo([k \in 0..0 |-> z], z, p, 0)
    BY DEF FlushingTo
  <2> QED BY <2>1
<1>2. ASSUME NEW m \in Nat, m \in S PROVE m + 1 \in S
  <2>1. PICK d : FlushingTo(d, z, p, m)
    BY <1>2
  <2> DEFINE w == [k \in 0..(m + 1) |-> IF k = m + 1 THEN History!Joined(d[m], p[m + 1])
        ELSE d[k]]
  <2>2. \A k \in 0..m : w[k] = d[k]
    OBVIOUS
  <2>3. \A k \in 0..(m + 1) : w[k] = IF k = 0 THEN z ELSE History!Joined(w[k - 1], p[k])
    BY <2>2, <2>1 DEF FlushingTo
  <2>4. FlushingTo(w, z, p, m + 1)
    BY <2>3 DEF FlushingTo
  <2> QED BY <2>4
<1>3. n \in S
  <2> HIDE DEF S
  <2> QED BY <1>1, <1>2, EveryNumber
<1> QED BY <1>3

\* t has the first m of what s holds.
HistoryEmptied(t, s, n, m, M) ==
    /\ t \in StoreOf(n) /\ Same(s, t) /\ HistoryKept(s, t) /\ t.pending = <<>>
    /\ Known(t) /\ Distinct(t, M)
    /\ History!Shown(s) \subseteq History!Shown(t) /\ History!Shown(t) \subseteq Here(s)
    /\ s.events # <<>> => t.events # <<>>
    /\ Sorted(s) =>
          /\ Rising(t.events)
          /\ \A k \in (m + 1)..Len(s.pending) : \A x \in History!Shown(t),
              y \in Elems(s.pending[k]) : x <= y

LEMMA EmptiedNext ==
    ASSUME NEW n \in Nat, NEW s \in StoreOf(n), NEW M, History!MergedIn(s) \subseteq M,
           NEW m \in Nat, m + 1 <= Len(s.pending), NEW t, HistoryEmptied(t, s, n, m, M),
           NEW r, r = History!Joined(t, s.pending[m + 1])
    PROVE  HistoryEmptied(r, s, n, m + 1, M)
<1>1. PICK g : g = s.pending[m + 1]
  OBVIOUS
<1>2. s.pending \in Seq(Group(n)) /\ Len(s.pending) \in Nat /\ History!HeldIn(s) \subseteq 1..n
  BY StoreIs
<1>3. m + 1 \in 1..Len(s.pending)
  BY <1>2
<1>4. g \in Group(n)
  BY <1>1, <1>2, <1>3
<1>5. \A j \in 2..Len(g) : g[j] \in M
  BY <1>1, <1>3, MergedIs
<1>6. \A j \in 1..Len(g) : g[j] \in History!HeldIn(s)
  BY <1>1, <1>3, HeldIs
<1>7. /\ t \in StoreOf(n) /\ Same(s, t) /\ HistoryKept(s, t) /\ t.pending = <<>>
      /\ Known(t) /\ Distinct(t, M)
      /\ History!Shown(s) \subseteq History!Shown(t) /\ History!Shown(t) \subseteq Here(s)
      /\ s.events # <<>> => t.events # <<>>
      /\ Sorted(s) =>
            /\ Rising(t.events)
            /\ \A k \in (m + 1)..Len(s.pending) : \A x \in History!Shown(t),
                y \in Elems(s.pending[k]) : x <= y
  BY DEF HistoryEmptied
<1>8. /\ r \in StoreOf(n) /\ Same(t, r) /\ HistoryKept(t, r) /\ r.pending = t.pending
      /\ Known(r) /\ Distinct(r, M)
      /\ History!Shown(t) \subseteq History!Shown(r)
      /\ History!Shown(r) \subseteq History!Shown(t) \cup Elems(g)
      /\ t.events # <<>> => r.events # <<>>
      /\ Rising(t.events) /\ Rising(g)
          /\ (\A x \in History!Shown(t), y \in Elems(g) : x <= y) => Rising(r.events)
  BY <1>1, <1>4, <1>5, <1>7, JoinedIs
<1>9. History!Shown(s) \subseteq History!Shown(r) /\ History!Shown(r) \subseteq Here(s)
  BY <1>6, <1>7, <1>8 DEF Elems, Here
<1>10. Same(s, r) /\ HistoryKept(s, r)
  BY <1>7, <1>8 DEF Same, HistoryKept
<1>11. ASSUME Sorted(s)
       PROVE  /\ Rising(r.events)
              /\ \A k \in ((m + 1) + 1)..Len(s.pending) : \A x \in History!Shown(r),
                  y \in Elems(s.pending[k]) : x <= y
  <2>1. PendingRises(s.pending)
    BY <1>11 DEF Sorted
  <2>2. Rising(g)
    BY <1>1, <1>3, <2>1 DEF PendingRises
  <2>3. \A x \in History!Shown(t), y \in Elems(g) : x <= y
    BY <1>1, <1>2, <1>7, <1>11
  <2>4. Rising(r.events)
    BY <1>7, <1>8, <1>11, <2>2, <2>3
  <2>5. ASSUME NEW k \in ((m + 1) + 1)..Len(s.pending), NEW x \in History!Shown(r),
          NEW y \in Elems(s.pending[k])
        PROVE  x <= y
    BY <1>2, <1>7, <1>11, <2>5, <1>1, <1>3, <2>1, <1>8 DEF Elems, PendingRises
  <2> QED BY <2>4, <2>5
<1> QED BY <1>7, <1>8, <1>9, <1>10, <1>11 DEF HistoryEmptied

LEMMA FlushedIs ==
    ASSUME NEW n \in Nat, NEW s \in StoreOf(n), NEW M, History!MergedIn(s) \subseteq M,
             Known(s), Distinct(s, M),
           NEW r, r = History!Flushed(s)
    PROVE  /\ r \in StoreOf(n) /\ Same(s, r) /\ HistoryKept(s, r) /\ r.pending = <<>>
           /\ Known(r) /\ Distinct(r, M) /\ History!HeldIn(r) = {} /\ History!MergedIn(r) = {}
           /\ History!Shown(s) \subseteq History!Shown(r) /\ History!Shown(r) \subseteq Here(s)
           /\ Sorted(s) => Sorted(r)
           /\ TurnIs(s) => TurnIs(r)
<1>1. s.pending \in Seq(Group(n)) /\ Len(s.pending) \in Nat
  BY StoreIs
<1>2. PICK e : FlushingTo(e, [s EXCEPT !.pending = <<>>], s.pending, Len(s.pending))
  BY <1>1, FlushingExists
<1>3. \E d : r = d[Len(s.pending)]
        /\ FlushingTo(d, [s EXCEPT !.pending = <<>>], s.pending, Len(s.pending))
  BY <1>2 DEF History!Flushed, FlushingTo
<1>4. PICK d : r = d[Len(s.pending)]
        /\ FlushingTo(d, [s EXCEPT !.pending = <<>>], s.pending, Len(s.pending))
  BY <1>3
<1> DEFINE S == {m \in Nat : m <= Len(s.pending) => HistoryEmptied(d[m], s, n, m, M)}
<1>5. 0 \in S
  <2>1. d[0] = [s EXCEPT !.pending = <<>>]
    BY <1>1, <1>4 DEF FlushingTo
  <2>2. PICK t : t = [s EXCEPT !.pending = <<>>]
    OBVIOUS
  <2>3. /\ t \in StoreOf(n) /\ Same(s, t) /\ HistoryKept(s, t) /\ t.pending = <<>>
        /\ t.events = s.events /\ t.seen = s.seen
    <3> DEFINE no == <<>>
    <3>1. no \in Seq(Group(n)) /\ t = [s EXCEPT !.pending = no]
      BY <2>2
    <3> HIDE DEF no
    <3>2. /\ t \in StoreOf(n) /\ Same(s, t) /\ HistoryKept(s, t) /\ t.pending = no
          /\ t.events = s.events /\ t.seen = s.seen
      BY <3>1 DEF StoreOf, Same, HistoryKept
    <3> QED BY <3>2 DEF no
  <2>4. History!Shown(t) = History!Shown(s)
    BY <2>3 DEF History!Shown
  <2>5. Known(t) /\ Distinct(t, M)
    BY <2>3, <2>4 DEF Known, Distinct
  <2>6. ASSUME Sorted(s)
        PROVE  /\ Rising(t.events)
               /\ \A k \in (0 + 1)..Len(s.pending) : \A x \in History!Shown(t),
                   y \in Elems(s.pending[k]) : x <= y
    BY <1>1, HeldIs, <2>3, <2>4, <2>6 DEF Elems, Sorted
  <2>7. HistoryEmptied(t, s, n, 0, M)
    BY <2>3, <2>4, <2>5, <2>6 DEF HistoryEmptied, Here
  <2> QED BY <2>1, <2>2, <2>7
<1>6. ASSUME NEW m \in Nat, m \in S PROVE m + 1 \in S
  <2> SUFFICES ASSUME m + 1 <= Len(s.pending) PROVE HistoryEmptied(d[m + 1], s, n, m + 1, M)
    OBVIOUS
  <2>1. HistoryEmptied(d[m], s, n, m, M)
    BY <1>1, <1>6
  <2>2. d[m + 1] = History!Joined(d[m], s.pending[m + 1])
    <3>1. m + 1 \in 0..Len(s.pending) /\ m + 1 # 0 /\ (m + 1) - 1 = m
      BY <1>1
    <3> QED BY <1>4, <3>1 DEF FlushingTo
  <2> QED BY <2>1, <2>2, EmptiedNext
<1>7. Len(s.pending) \in S
  <2> HIDE DEF S
  <2> QED BY <1>1, <1>5, <1>6, EveryNumber
<1>8. HistoryEmptied(r, s, n, Len(s.pending), M)
  BY <1>1, <1>4, <1>7
<1>9. /\ r \in StoreOf(n) /\ Same(s, r) /\ HistoryKept(s, r) /\ r.pending = <<>>
      /\ Known(r) /\ Distinct(r, M)
      /\ History!Shown(s) \subseteq History!Shown(r) /\ History!Shown(r) \subseteq Here(s)
      /\ s.events # <<>> => r.events # <<>>
      /\ Sorted(s) => Rising(r.events)
  BY <1>8 DEF HistoryEmptied
<1>10. History!HeldIn(r) = {} /\ History!MergedIn(r) = {}
  BY <1>9 DEF History!HeldIn, History!MergedIn
<1>11. ASSUME Sorted(s) PROVE Sorted(r)
  <2>1. PendingRises(r.pending)
    BY <1>9 DEF PendingRises
  <2>2. ASSUME r.before > 0 PROVE r.events # <<>> /\ \A x \in History!Shown(r) : r.before <= x
    <3>1. r.before = s.before /\ s.before \in Nat /\ Here(s) \subseteq 1..n
      BY <1>9, StoreIs DEF Same, Here
    <3>2. /\ s.events # <<>> /\ \A x \in History!Shown(s) : s.before <= x
          /\ \A x \in History!Shown(s), y \in History!HeldIn(s) : x <= y
      BY <1>11, <2>2, <3>1 DEF Sorted
    <3>3. 1 \in 1..Len(s.events)
      BY <3>2, StoreIs
    <3>4. s.events[1] \in History!Shown(s) /\ s.events[1] \in 1..n
      BY <3>1, <3>3 DEF History!Shown, Here
    <3>5. \A y \in History!HeldIn(s) : s.before <= y
      BY <3>1, <3>2, <3>4 DEF Here
    <3> QED BY <1>9, <3>1, <3>2, <3>5 DEF Here
  <2> QED BY <1>9, <1>10, <1>11, <2>1, <2>2 DEF Sorted
<1>12. TurnIs(s) => TurnIs(r)
  BY <1>9, <1>10 DEF TurnIs, Here, Same, HistoryKept
<1> QED BY <1>9, <1>10, <1>11, <1>12

\* d has what is new in the first events of a page that begins at from.
SiftingTo(d, s, from, n) ==
    d = [k \in 0..n |->
            IF k = 0 THEN <<>>
            ELSE IF from + k - 1 \in s.seen THEN d[k - 1] ELSE Append(d[k - 1], from + k - 1)]
SiftedNext(s, g, i) == IF i \in s.seen THEN g ELSE Append(g, i)

LEMMA SiftingExists ==
    ASSUME NEW s, NEW from \in Nat, NEW n \in Nat
    PROVE  \E d : SiftingTo(d, s, from, n)
<1> DEFINE S == {m \in Nat : \E d : SiftingTo(d, s, from, m)}
<1>1. 0 \in S
  <2>1. SiftingTo([k \in 0..0 |-> <<>>], s, from, 0)
    BY DEF SiftingTo
  <2> QED BY <2>1
<1>2. ASSUME NEW m \in Nat, m \in S PROVE m + 1 \in S
  <2>1. PICK d : SiftingTo(d, s, from, m)
    BY <1>2
  <2> DEFINE w == [k \in 0..(m + 1) |-> IF k = m + 1
        THEN SiftedNext(s, d[m], from + (m + 1) - 1) ELSE d[k]]
  <2>2. \A k \in 0..m : w[k] = d[k]
    OBVIOUS
  <2>3. \A k \in 0..(m + 1) : w[k] = IF k = 0 THEN <<>>
          ELSE SiftedNext(s, w[k - 1], from + k - 1)
    <3> SUFFICES ASSUME NEW k \in 0..(m + 1)
                 PROVE  w[k] = IF k = 0 THEN <<>> ELSE SiftedNext(s, w[k - 1], from + k - 1)
      OBVIOUS
    <3>1. CASE k = m + 1
      BY <3>1, <2>2
    <3>2. CASE k \in 0..m
      <4>1. d[k] = IF k = 0 THEN <<>> ELSE SiftedNext(s, d[k - 1], from + k - 1)
        BY <2>1, <3>2 DEF SiftingTo, SiftedNext
      <4>2. k # 0 => w[k - 1] = d[k - 1]
        BY <2>2, <3>2
      <4> QED BY <2>2, <3>2, <4>1, <4>2
    <3> QED BY <3>1, <3>2
  <2>4. SiftingTo(w, s, from, m + 1)
    BY <2>3 DEF SiftingTo, SiftedNext
  <2> QED BY <2>4
<1>3. n \in S
  <2> HIDE DEF S
  <2> QED BY <1>1, <1>2, EveryNumber
<1> QED BY <1>3

Climbing(q) == \A i, j \in 1..Len(q) : i < j => q[i] < q[j]
Sifted(u, s, from, m, n) ==
    /\ u \in Seq(1..n) /\ Climbing(u)
    /\ \A x : x \in Elems(u) <=> x \in from..(from + m - 1) /\ x \notin s.seen

LEMMA SiftedStep ==
    ASSUME NEW n \in Nat, NEW s, NEW from \in Nat \ {0}, NEW m \in Nat, from + m <= n,
           NEW g, Sifted(g, s, from, m, n), NEW u, u = SiftedNext(s, g, from + (m + 1) - 1)
    PROVE  Sifted(u, s, from, m + 1, n)
<1> DEFINE i == from + (m + 1) - 1
<1>1. i \in 1..n /\ i = from + m /\ from..(from + (m + 1) - 1) = from..(from + m - 1) \cup {i}
  OBVIOUS
<1> HIDE DEF i
<1>2. /\ g \in Seq(1..n) /\ Climbing(g)
      /\ \A x : x \in Elems(g) <=> x \in from..(from + m - 1) /\ x \notin s.seen
  BY DEF Sifted
<1>3. CASE i \in s.seen
  BY <1>3, <1>1, <1>2 DEF SiftedNext, i, Sifted
<1>4. CASE i \notin s.seen
  <2>1. u = Append(g, i)
    BY <1>4 DEF SiftedNext, i
  <2>2. /\ u \in Seq(1..n) /\ Len(g) \in Nat /\ Len(u) = Len(g) + 1 /\ u[Len(g) + 1] = i
        /\ \A k \in 1..Len(g) : u[k] = g[k]
    <3>1. g \in Seq(1..n) /\ i \in 1..n
      BY <1>1, <1>2
    <3>2. u \in Seq(1..n)
      BY <2>1, <3>1
    <3>3. /\ Len(g) \in Nat /\ Len(u) = Len(g) + 1 /\ u[Len(g) + 1] = i
          /\ \A k \in 1..Len(g) : u[k] = g[k]
      BY <2>1, <3>1, SMTT(15)
    <3> QED BY <3>2, <3>3
  <2>3. \A k \in 1..Len(u) : k = Len(g) + 1 \/ k \in 1..Len(g)
    BY <2>2
  <2>4. \A k \in 1..Len(g) : k \in 1..Len(u)
    BY <2>2
  <2>5. \A x : x \in Elems(u) <=> x \in Elems(g) \/ x = i
    <3>1. \A x \in Elems(u) : x \in Elems(g) \/ x = i
      BY <2>2, <2>3 DEF Elems
    <3>2. \A x \in Elems(g) : x \in Elems(u)
      BY <2>2, <2>4 DEF Elems
    <3>3. i \in Elems(u)
      BY <2>2 DEF Elems
    <3> QED BY <3>1, <3>2, <3>3
  <2>6. Climbing(u)
    <3> SUFFICES ASSUME NEW k \in 1..Len(u), NEW l \in 1..Len(u), k < l PROVE u[k] < u[l]
      BY DEF Climbing
    <3>0. Len(g) \in Nat /\ Len(u) = Len(g) + 1
      BY <2>2
    <3>1. k \in 1..Len(g) /\ u[k] = g[k]
      <4>1. k \in 1..Len(g)
        BY <3>0
      <4> QED BY <2>2, <4>1
    <3>2. CASE l = Len(g) + 1
      <4>1. g[k] \in Elems(g)
        BY <3>1 DEF Elems
      <4> QED BY <1>1, <1>2, <2>2, <3>1, <3>2, <4>1
    <3>3. CASE l \in 1..Len(g)
      BY <1>2, <2>2, <3>1, <3>3 DEF Climbing
    <3> QED BY <2>3, <3>2, <3>3
  <2> QED BY <1>1, <1>2, <1>4, <2>2, <2>5, <2>6 DEF Sifted
<1> QED BY <1>3, <1>4

LEMMA UnseenIs ==
    ASSUME NEW n \in Nat, NEW s, NEW from \in Nat \ {0}, NEW m \in Nat, from + m <= n + 1
    PROVE  Sifted(History!Unseen(s, from, m), s, from, m, n)
<1>1. PICK e : SiftingTo(e, s, from, m)
  BY SiftingExists
<1>2. \E d : History!Unseen(s, from, m) = d[m] /\ SiftingTo(d, s, from, m)
  BY <1>1 DEF History!Unseen, SiftingTo
<1>3. PICK d : History!Unseen(s, from, m) = d[m] /\ SiftingTo(d, s, from, m)
  BY <1>2
<1> DEFINE S == {k \in Nat : k <= m => Sifted(d[k], s, from, k, n)}
<1>4. 0 \in S
  BY <1>3 DEF SiftingTo, Sifted, Climbing, Elems
<1>5. ASSUME NEW k \in Nat, k \in S PROVE k + 1 \in S
  <2> SUFFICES ASSUME k + 1 <= m PROVE Sifted(d[k + 1], s, from, k + 1, n)
    OBVIOUS
  <2>1. Sifted(d[k], s, from, k, n) /\ from + k <= n
    BY <1>5
  <2>2. d[k + 1] = SiftedNext(s, d[k], from + (k + 1) - 1)
    <3>1. k + 1 \in 0..m /\ k + 1 # 0 /\ (k + 1) - 1 = k
      OBVIOUS
    <3> QED BY <1>3, <3>1 DEF SiftingTo, SiftedNext
  <2> QED BY <2>1, <2>2, SiftedStep
<1>6. m \in S
  <2> HIDE DEF S
  <2> QED BY <1>4, <1>5, EveryNumber
<1> QED BY <1>3, <1>6

LEMMA OlderPageIs ==
    ASSUME NEW n \in Nat, NEW s \in StoreOf(n), NEW b \in 1..n, Known(s), NEW M, Distinct(s, M),
           NEW r, r = History!OlderPage(s, b), NEW from, from = History!MaxOf(1, b - PageSize)
    PROVE  /\ r \in StoreOf(n) /\ HistoryKept(s, r) /\ r.pending = s.pending /\ ~r.loadingBefore
           /\ r.loadingAfter = s.loadingAfter
           /\ r.before = from /\ from \in 1..b
           /\ Known(r) /\ Distinct(r, M) /\ History!HeldIn(r) = History!HeldIn(s)
           /\ History!MergedIn(r) = History!MergedIn(s)
           /\ History!Shown(s) \subseteq History!Shown(r)
           /\ from..(b - 1) \subseteq History!Shown(r)
           /\ History!Shown(r) \subseteq History!Shown(s) \cup from..(b - 1)
           /\ Sorted(s) /\ b = s.before => Sorted(r)
           /\ Sorted(s) /\ b = s.before /\ TurnIs(s) => TurnIs(r)
<1>1. from \in 1..b /\ from \in Nat \ {0} /\ b - from \in Nat /\ from + (b - from) <= n + 1
      /\ from + (b - from) - 1 = b - 1 /\ from..(b - 1) \subseteq 1..n /\ from \in 0..n
  BY HistoryBounds DEF History!MaxOf
<1>2. /\ s.events \in Seq(1..n) /\ s.seen \subseteq 1..n /\ History!Shown(s) \subseteq 1..n
      /\ s.before \in 0..n /\ History!HeldIn(s) \subseteq 1..n
  BY StoreIs
<1>3. PICK u : u = History!Unseen(s, from, b - from)
  OBVIOUS
<1>4. Sifted(u, s, from, b - from, n)
  BY <1>1, <1>3, UnseenIs
<1>5. u \in Seq(1..n) /\ Climbing(u) /\ \A x : x \in Elems(u) <=>
        x \in from..(b - 1) /\ x \notin s.seen
  BY <1>1, <1>4 DEF Sifted
<1>6. PICK e : e = s.events
  OBVIOUS
<1>7. PICK q : q = u \o e
  OBVIOUS
<1>8. e \in Seq(1..n) /\ History!Shown(s) = Elems(e)
  BY <1>2, <1>6 DEF History!Shown, Elems
<1>9. q \in Seq(1..n) /\ (q = <<>> => u = <<>> /\ e = <<>>)
  BY <1>5, <1>7, <1>8, JoinedSeqs
<1>10. \A x : x \in Elems(q) <=> x \in Elems(u) \/ x \in Elems(e)
  BY <1>5, <1>7, <1>8, JoinedSeqs, Zenon
<1>11. Rising(u) /\ Rising(e) /\ (\A x \in Elems(u), y \in Elems(e) : x <= y) => Rising(q)
  BY <1>5, <1>7, <1>8, JoinedSeqs, Zenon
<1>12. Twice(u, M) /\ Twice(e, M) /\ Elems(u) \cap Elems(e) \subseteq M => Twice(q, M)
  BY <1>5, <1>7, <1>8, JoinedSeqs, Zenon
<1> DEFINE z == s.seen \cup from..(b - 1)
           more == from > 1
<1>13. /\ r = [s EXCEPT !.events = q, !.seen = z, !.more = more, !.before = from,
           !.loadingBefore = FALSE]
       /\ z \subseteq 1..n /\ more \in BOOLEAN
  BY <1>1, <1>2, <1>3, <1>6, <1>7 DEF History!OlderPage
<1> HIDE DEF z, more
<1>14. /\ r \in StoreOf(n) /\ HistoryKept(s, r) /\ r.pending = s.pending /\ ~r.loadingBefore
       /\ r.loadingAfter = s.loadingAfter
       /\ r.before = from /\ r.events = q /\ r.seen = z
  BY <1>1, <1>9, <1>13 DEF StoreOf, HistoryKept
<1>15. History!HeldIn(r) = History!HeldIn(s) /\ History!MergedIn(r) = History!MergedIn(s)
  BY <1>14 DEF History!HeldIn, History!MergedIn
<1>16. \A x : x \in History!Shown(r) <=> (x \in from..(b - 1) /\ x \notin s.seen)
         \/ x \in History!Shown(s)
  BY <1>14, <1>5, <1>8, <1>10 DEF History!Shown, Elems
<1>17. /\ History!Shown(s) \subseteq History!Shown(r)
           /\ from..(b - 1) \subseteq History!Shown(r)
       /\ History!Shown(r) \subseteq History!Shown(s) \cup from..(b - 1)
  BY <1>16 DEF Known
<1>18. Known(r)
  BY <1>14, <1>17 DEF Known, z
<1>19. Distinct(r, M)
  BY <1>6, <1>5, <1>8, <1>12, <1>14, <1>17 DEF Distinct, Twice, Climbing, z
<1>20. ASSUME Sorted(s), b = s.before PROVE Sorted(r)
  <2>1. /\ Rising(e) /\ PendingRises(s.pending) /\ \A x \in History!Shown(s),
            y \in History!HeldIn(s) : x <= y
        /\ s.events # <<>> /\ \A x \in History!Shown(s) : b <= x
    BY <1>6, <1>20 DEF Sorted
  <2>2. Rising(u)
    BY <1>5 DEF Rising, Climbing
  <2>3. \A x \in Elems(u), y \in Elems(e) : x <= y
    <3> SUFFICES ASSUME NEW x \in Elems(u), NEW y \in Elems(e) PROVE x <= y
      OBVIOUS
    <3>1. x \in from..(b - 1) /\ b <= y /\ y \in 1..n
      BY <1>2, <1>5, <1>8, <2>1
    <3> QED BY <1>1, <3>1
  <2>4. Rising(r.events) /\ PendingRises(r.pending)
    BY <1>11, <1>14, <2>1, <2>2, <2>3
  <2>5. \A x \in History!Shown(s) : x \in 1..n /\ b <= x
    BY <1>2, <2>1
  <2>6. PICK w : w \in History!Shown(s)
    <3>1. 1 \in 1..Len(s.events)
      BY <1>2, <2>1
    <3> QED BY <3>1 DEF History!Shown
  <2>7. ASSUME NEW x \in History!Shown(r), NEW y \in History!HeldIn(r) PROVE x <= y
    <3>1. CASE x \in History!Shown(s)
      BY <1>15, <2>1, <3>1
    <3>2. CASE x \in from..(b - 1)
      BY <1>2, <1>15, <2>1, <2>5, <2>6, <1>1, <3>2
    <3> QED BY <1>17, <3>1, <3>2
  <2>8. ASSUME NEW x \in History!Shown(r) PROVE from <= x
    BY <1>1, <2>5, <1>17
  <2>9. r.events # <<>>
    BY <1>6, <1>9, <1>14, <2>1
  <2> QED BY <1>14, <2>4, <2>7, <2>8, <2>9 DEF Sorted
<1>21. ASSUME Sorted(s), b = s.before, TurnIs(s) PROVE TurnIs(r)
  <2> SUFFICES ASSUME s.turn # 0 PROVE TurnIs(r)
    BY <1>14 DEF TurnIs, HistoryKept
  <2>1. /\ s.turn <= Len(log) /\ log[s.turn] = "start" /\ b <= s.turn
        /\ \A x \in History!Shown(s) \cup History!HeldIn(s) : x > s.turn => log[x] = "text"
    BY <1>21 DEF TurnIs
  <2>2. s.turn \in Nat
    BY StoreIs
  <2>3. \A x \in History!Shown(r) \cup History!HeldIn(r) : x > s.turn =>
          x \in History!Shown(s) \cup History!HeldIn(s)
    <3> SUFFICES ASSUME NEW x \in from..(b - 1) PROVE ~(x > s.turn)
      BY <1>15, <1>17
    <3>1. x \in Int /\ x < b /\ b \in Nat
      BY <1>1
    <3> QED BY <2>1, <2>2, <3>1
  <2>4. from <= s.turn
    <3>1. from \in Nat /\ b \in Nat /\ from <= b
      BY <1>1
    <3> QED BY <2>1, <2>2, <3>1
  <2> QED BY <1>14, <2>1, <2>3, <2>4 DEF TurnIs, HistoryKept
<1> QED BY <1>1, <1>14, <1>15, <1>17, <1>18, <1>19, <1>20, <1>21

LEMMA TypedNext ==
    ASSUME NEW n \in Nat, n = Len(log'), n <= MaxEvents, log' \in Seq(History!Kind), NEW x,
             x = store', x \in StoreOf(n),
           historyFrames' \in Seq(FrameOf(n)), historyRow' \in 0..n,
               historyLoad' \in LoadOf(n), older' \subseteq 1..n,
           newer' \subseteq BackfillOf(n), historyMissed' \subseteq History!Event,
               merged' \subseteq History!Event, raced' \in BOOLEAN,
           subscribed' \in BOOLEAN, historySelected' \in BOOLEAN,
           selects' \in 0..MaxSelects, fails' \in 0..MaxFails,
               historyConnects' \in 0..MaxConnects
    PROVE  HistoryTyped'
<1>1. store' \in StoreOf(n) /\ n = Len(log')
  OBVIOUS
<1>2. (store \in StoreOf(Len(log)))'
  BY <1>1 DEF StoreOf, Group
<1>3. /\ (historyFrames \in Seq(FrameOf(Len(log))))' /\ (historyLoad \in LoadOf(Len(log)))'
      /\ (newer \subseteq BackfillOf(Len(log)))'
  BY <1>1 DEF FrameOf, LoadOf, BackfillOf
<1>4. /\ (historyRow \in 0..Len(log))' /\ (older \subseteq 1..Len(log))'
      /\ (Len(log) <= MaxEvents)'
  BY <1>1
<1> QED BY <1>2, <1>3, <1>4 DEF HistoryTyped

\* The places of an event that is needed, with the store of the next state.
ReachedNext(x, i) ==
    \/ i \in Here(x) \cup historyMissed' \/ HistoryAskedFor(i)'
        \/ (Beyond(i)' /\ HistoryComing(i)')
    \/ HistoryTold(i)' /\ (historyLoad'.at = "answered" \/ (~historySelected' /\ i > x.last))

LEMMA ReachedIs ==
    ASSUME NEW x, x = store', NEW i, ReachedNext(x, i)
    PROVE  HistoryReached(i)'
<1>1. ASSUME i \in Here(x) \cup historyMissed' PROVE Brought(i)'
  BY <1>1 DEF Brought, Here, History!Shown, History!HeldIn
<1>2. x.last = store'.last
  OBVIOUS
<1> QED BY <1>1, <1>2 DEF ReachedNext, HistoryReached

LEMMA InvNext ==
    ASSUME NEW x, x = store', NEW m, m = merged', HistoryTyped', HistoryFramesInOrder',
             CallsInOrder',
           x.loaded => x.there, x.pending # <<>> => x.loadingBefore, x.loadingBefore =>
               x.before \in older',
           Known(x), Distinct(x, m), History!MergedIn(x) \subseteq m,
           ~raced' => Sorted(x) /\ TurnIs(x)',
           \A i \in 1..Len(log') : Needed(i)' => ReachedNext(x, i)
    PROVE  HistoryInv'
<1>1. Waits'
  BY DEF Waits
<1>2. Known(store)' /\ Distinct(store, merged)' /\ (History!MergedIn(store) \subseteq merged)'
  OBVIOUS
<1>3. Sorted(x) => Sorted(store)'
  OBVIOUS
<1>4. TurnIs(x)' => TurnIs(store)'
  BY DEF TurnIs, History!Shown, History!HeldIn
<1>5. AllReached'
  BY ReachedIs DEF AllReached
<1> QED BY <1>1, <1>2, <1>3, <1>4, <1>5 DEF HistoryInv

LEMMA SeqGrows ==
    ASSUME NEW S, NEW T, S \subseteq T, NEW q \in Seq(S)
    PROVE  q \in Seq(T)
OBVIOUS

LEMMA TypesGrow ==
    ASSUME NEW n \in Nat
    PROVE  /\ \A s \in StoreOf(n) : s \in StoreOf(n + 1)
           /\ \A l \in LoadOf(n) : l \in LoadOf(n + 1)
           /\ \A c \in BackfillOf(n) : c \in BackfillOf(n + 1)
           /\ \A q \in Seq(FrameOf(n)) : q \in Seq(FrameOf(n + 1))
<1>1. 0..n \subseteq 0..(n + 1) /\ 1..n \subseteq 1..(n + 1)
  OBVIOUS
<1>2. FrameOf(n) \subseteq FrameOf(n + 1)
  BY <1>1 DEF FrameOf
<1>3. \A q \in Seq(1..n) : q \in Seq(1..(n + 1))
  BY <1>1, SeqGrows
<1>4. Group(n) \subseteq Group(n + 1)
  BY <1>3 DEF Group
<1>5. \A q \in Seq(Group(n)) : q \in Seq(Group(n + 1))
  BY <1>4, SeqGrows
<1>6. ASSUME NEW s \in StoreOf(n) PROVE s \in StoreOf(n + 1)
  BY <1>1, <1>3, <1>5, StoreIs DEF StoreOf
<1>7. \A q \in Seq(FrameOf(n)) : q \in Seq(FrameOf(n + 1))
  BY <1>2, SeqGrows
<1> QED BY <1>1, <1>6, <1>7 DEF LoadOf, BackfillOf

LEMMA StoreKeeps ==
    ASSUME HistoryInv, NEW kind \in History!Kind, History!Store(kind)
    PROVE  HistoryInv'
<1> DEFINE n == Len(log)
<1>1. /\ log \in Seq(History!Kind) /\ n \in Nat /\ historyFrames \in Seq(FrameOf(n))
      /\ Len(historyFrames) \in Nat
      /\ store \in StoreOf(n) /\ historyRow \in 0..n
  BY DEF HistoryInv, HistoryTyped
<1>2. /\ n + 1 <= MaxEvents /\ log' = Append(log, kind)
      /\ \/ historyFrames' = Append(historyFrames, <<"event", n + 1>>)
             /\ historyMissed' = historyMissed
         \/ historyFrames' = historyFrames /\ historyMissed' = historyMissed \cup {n + 1}
      /\ UNCHANGED <<subscribed, historySelected, historyRow, store, historyLoad, older, newer,
          merged, raced, History!bounds>>
  BY DEF History!Store
<1>3. log' \in Seq(History!Kind) /\ Len(log') = n + 1 /\ \A k \in 1..n : log'[k] = log[k]
  BY <1>1, <1>2
<1>4. n + 1 \in History!Event /\ n + 1 \in Nat
  BY <1>1, <1>2 DEF History!Event
<1> HIDE DEF n
<1>5. historyFrames' \in Seq(FrameOf(n + 1))
  <2>1. historyFrames \in Seq(FrameOf(n + 1))
    BY <1>1, TypesGrow
  <2>2. PICK e : e = <<"event", n + 1>>
    OBVIOUS
  <2>3. e \in FrameOf(n + 1)
    BY <1>1, <2>2 DEF FrameOf
  <2>4. Append(historyFrames, e) \in Seq(FrameOf(n + 1))
    BY <2>1, <2>3
  <2> QED BY <1>2, <2>1, <2>2, <2>4
<1>6. HistoryTyped'
  BY <1>1, TypesGrow, <1>2, <1>4, <1>3, <1>5, TypedNext DEF HistoryInv, HistoryTyped, n,
     History!bounds
\* The new frame is the last.
<1>7. ASSUME NEW f, f = historyFrames'
      PROVE  /\ Len(f) \in Nat /\ \A k \in 1..Len(historyFrames) : k \in 1..Len(f)
                 /\ f[k] = historyFrames[k]
             /\ \A k \in 1..Len(f) :
                   k \in 1..Len(historyFrames)
                       \/ (k = Len(historyFrames) + 1 /\ f[k] = <<"event", n + 1>>)
             /\ historyFrames' # historyFrames => Len(f) = Len(historyFrames) + 1
                 /\ f[Len(f)] = <<"event", n + 1>>
  <2>1. CASE f = historyFrames
    BY <1>1, <1>7, <2>1
  <2>2. CASE f = Append(historyFrames, <<"event", n + 1>>)
    BY <1>1, <1>7, <2>2
  <2> QED BY <1>2, <1>7, <2>1, <2>2
<1>8. PICK f : f = historyFrames'
  OBVIOUS
<1>9. \A k \in 1..Len(historyFrames) : historyFrames[k][2] \in 0..n
        /\ historyFrames[k][1] \in {"event", "snapshot"}
  BY <1>1 DEF FrameOf
<1>10. HistoryFramesInOrder'
  <2>1. HistoryFramesInOrder
    BY DEF HistoryInv
  <2>2. \A k \in 1..Len(f) : f[k][1] = "event" => f[k][2] # 0
    BY <1>1, <1>7, <1>8, <2>1 DEF HistoryFramesInOrder
  <2>3. \A k \in 2..Len(f) : f[k][1] = "event"
    BY <1>7, <1>8, <1>1, <2>1 DEF HistoryFramesInOrder
  <2>4. ASSUME NEW k \in 1..Len(f), NEW l \in 1..Len(f), k < l PROVE f[k][2] < f[l][2]
    BY <1>1, <1>7, <1>8, <2>4, <2>1, <1>9 DEF HistoryFramesInOrder
  <2> QED BY <1>8, <2>2, <2>3, <2>4 DEF HistoryFramesInOrder
<1>11. CallsInOrder' /\ Waits'
  BY <1>2 DEF HistoryInv, CallsInOrder, Waits
<1>12. ASSUME TurnIs(store) PROVE TurnIs(store)'
  BY <1>2, <1>1, StoreIs, <1>12, <1>3 DEF TurnIs
<1>13. ASSUME NEW i \in 1..Len(log'), Needed(i)' PROVE ReachedNext(store, i)
  <2>1. Needed(i)
    BY <1>2, <1>13 DEF Needed
  <2>2. CASE i = n + 1
    <3>1. CASE historyMissed' = historyMissed \cup {n + 1}
      BY <2>2, <3>1 DEF ReachedNext
    <3>2. CASE historyFrames' = Append(historyFrames, <<"event", n + 1>>)
      <4>1. historyFrames' # historyFrames
        BY <1>1, <3>2
      <4>2. Len(f) \in 1..Len(f) /\ f[Len(f)] = <<"event", i>>
        BY <1>1, <1>7, <1>8, <2>2, <4>1
      <4>3. HistoryComing(i)'
        BY <1>8, <4>2 DEF HistoryComing
      <4>4. Beyond(i)'
        BY <1>1, StoreIs, <1>2, <2>2 DEF HistoryInv, HistoryTyped, BackfillOf, n, Beyond
      <4> QED BY <4>3, <4>4 DEF ReachedNext
    <3> QED BY <1>2, <3>1, <3>2
  <2>3. CASE i \in 1..n
    <3>1. HistoryReached(i)
      BY <2>1, <2>3 DEF HistoryInv, AllReached, n
    <3>2. CASE Brought(i)
      BY <1>2, <3>2 DEF Brought, ReachedNext, Here
    <3>3. CASE HistoryAskedFor(i)
      BY <1>2, <3>3 DEF HistoryAskedFor, ReachedNext
    <3>4. historyFrames # <<>> => f # <<>> /\ f[1] = historyFrames[1]
      BY <1>1, <1>7, <1>8
    <3>5. CASE Beyond(i) /\ HistoryComing(i)
      BY <1>2, <3>5, <1>7, <1>8, <3>4 DEF Beyond, HistoryComing, AtSnapshot, ReachedNext
    <3>6. CASE HistoryTold(i)
            /\ (historyLoad.at = "answered" \/ (~historySelected /\ i > store.last))
      <4>1. AtSnapshot' => AtSnapshot /\ f[1] = historyFrames[1]
        BY <1>8, <1>1, <1>2, <1>5, <1>7, <3>4 DEF AtSnapshot
      <4>2. HistoryTold(i)'
        BY <1>2, <1>8, <3>6, <4>1 DEF HistoryTold
      <4> QED BY <1>2, <3>6, <4>2 DEF ReachedNext
    <3> QED BY <3>1, <3>2, <3>3, <3>5, <3>6 DEF HistoryReached
  <2> QED BY <1>1, <1>3, <2>2, <2>3
<1>14. /\ Known(store) /\ Distinct(store, merged) /\ History!MergedIn(store) \subseteq merged
       /\ ~raced => Sorted(store) /\ TurnIs(store)
  BY DEF HistoryInv
<1>15. store' = store /\ merged' = merged /\ raced' = raced
  BY <1>2
<1>16. PICK x, m : x = store' /\ m = merged'
  OBVIOUS
<1>17. /\ x.loaded => x.there
       /\ x.pending # <<>> => x.loadingBefore
       /\ x.loadingBefore => x.before \in older'
  BY <1>11, <1>16 DEF Waits
<1>18. TurnIs(store) => TurnIs(x)'
  BY <1>12, <1>15, <1>16 DEF TurnIs, History!Shown, History!HeldIn
<1> QED BY <1>6, <1>10, <1>11, <1>13, <1>14, <1>15, <1>16, <1>17, <1>18, InvNext

TypedStep(n) ==
    /\ historyFrames' \in Seq(FrameOf(n)) /\ historyRow' \in 0..n /\ historyLoad' \in LoadOf(n)
    /\ older' \subseteq 1..n
    /\ newer' \subseteq BackfillOf(n) /\ historyMissed' \subseteq History!Event
    /\ merged' \subseteq History!Event /\ raced' \in BOOLEAN
    /\ subscribed' \in BOOLEAN /\ historySelected' \in BOOLEAN
    /\ selects' \in 0..MaxSelects /\ fails' \in 0..MaxFails
        /\ historyConnects' \in 0..MaxConnects

LEMMA HistoryIs ==
    ASSUME HistoryInv, NEW n, n = Len(log)
    PROVE  /\ n \in Nat /\ n <= MaxEvents /\ log \in Seq(History!Kind)
           /\ 1..n \subseteq History!Event /\ store \in StoreOf(n)
           /\ historyFrames \in Seq(FrameOf(n)) /\ historyRow \in 0..n
           /\ historyLoad \in LoadOf(n) /\ older \subseteq 1..n
           /\ newer \subseteq BackfillOf(n) /\ historyMissed \subseteq History!Event
           /\ merged \subseteq History!Event
           /\ raced \in BOOLEAN /\ subscribed \in BOOLEAN /\ historySelected \in BOOLEAN
           /\ selects \in 0..MaxSelects /\ fails \in 0..MaxFails
           /\ historyConnects \in 0..MaxConnects
           /\ \A i \in 1..n : Needed(i) => HistoryReached(i)
<1>1. HistoryTyped /\ AllReached
  BY DEF HistoryInv
<1>2. n \in Nat /\ n <= MaxEvents
  BY <1>1 DEF HistoryTyped
<1>3. 1..n \subseteq History!Event
  BY <1>2, HistoryBounds DEF History!Event
<1> QED BY <1>1, <1>2, <1>3 DEF HistoryTyped, AllReached

LEMMA QuietNext ==
    ASSUME HistoryInv, NEW n, n = Len(log), log' = log, NEW x, x = store', x \in StoreOf(n),
             TypedStep(n),
           NEW M, M = merged', HistoryFramesInOrder', CallsInOrder',
           x.loaded => x.there, x.pending # <<>> => x.loadingBefore, x.loadingBefore =>
               x.before \in older',
           Known(x), Distinct(x, M), History!MergedIn(x) \subseteq M,
           ~raced' => Sorted(x) /\ TurnIs(x),
           \A i \in 1..n : Needed(i)' => ReachedNext(x, i)
    PROVE  HistoryInv'
<1>1. n \in Nat /\ n <= MaxEvents /\ log' \in Seq(History!Kind) /\ n = Len(log')
  BY HistoryIs
<1>2. HistoryTyped'
  BY <1>1, TypedNext DEF TypedStep
<1>3. TurnIs(x) => TurnIs(x)'
  BY DEF TurnIs
<1> QED BY <1>1, <1>2, <1>3, InvNext

\* The page has what it had; the flags of the calls may differ.
Alike(s, x) ==
    /\ x.events = s.events /\ x.seen = s.seen /\ x.pending = s.pending /\ x.before = s.before
    /\ x.turn = s.turn /\ x.there = s.there /\ x.loaded = s.loaded /\ x.last = s.last
    /\ x.real = s.real

LEMMA AlikeIs ==
    ASSUME NEW s, NEW x, Alike(s, x)
    PROVE  /\ History!Shown(x) = History!Shown(s) /\ History!HeldIn(x) = History!HeldIn(s)
           /\ History!MergedIn(x) = History!MergedIn(s) /\ Here(x) = Here(s)
           /\ Known(s) => Known(x)
           /\ \A M : Distinct(s, M) => Distinct(x, M)
           /\ Sorted(s) => Sorted(x)
           /\ TurnIs(s) => TurnIs(x)
<1>1. /\ History!Shown(x) = History!Shown(s) /\ History!HeldIn(x) = History!HeldIn(s)
      /\ History!MergedIn(x) = History!MergedIn(s)
  BY DEF Alike, History!Shown, History!HeldIn, History!MergedIn
<1> QED BY <1>1 DEF Alike, Here, Known, Distinct, Sorted, TurnIs

LEMMA AlikeNext ==
    ASSUME HistoryInv, NEW n, n = Len(log), log' = log, NEW x, x = store', x \in StoreOf(n),
             TypedStep(n),
           Alike(store, x), merged' = merged, raced' = raced, HistoryFramesInOrder',
               CallsInOrder',
           x.pending # <<>> => x.loadingBefore, x.loadingBefore => x.before \in older',
           \A i \in 1..n : Needed(i)' => ReachedNext(x, i)
    PROVE  HistoryInv'
<1>1. PICK M : M = merged'
  OBVIOUS
<1>2. /\ Known(store) /\ Distinct(store, M) /\ History!MergedIn(store) \subseteq M
      /\ ~raced => Sorted(store) /\ TurnIs(store)
  BY <1>1 DEF HistoryInv
<1>3. store.loaded => store.there
  BY DEF HistoryInv, Waits
<1>4. /\ Known(x) /\ Distinct(x, M) /\ History!MergedIn(x) \subseteq M
      /\ (~raced' => Sorted(x) /\ TurnIs(x))
  BY <1>2, AlikeIs
<1>5. x.loaded => x.there
  BY <1>3 DEF Alike
<1> QED BY <1>1, <1>4, <1>5, QuietNext

\* What is reached stays so when the page, the calls and the stream only gain.
LEMMA ReachedStays ==
    ASSUME NEW i, HistoryReached(i), NEW x, Here(store) \subseteq Here(x), x.last = store.last,
             x.real = store.real,
           x = store', historyMissed \subseteq historyMissed', newer' = newer,
               historyFrames' = historyFrames, historyRow' = historyRow,
                   historyLoad'.at = historyLoad.at,
           historySelected' = historySelected \/ ~historySelected'
    PROVE  ReachedNext(x, i)
<1>1. Brought(i) => i \in Here(x) \cup historyMissed'
  BY DEF Brought, Here
<1>2. HistoryAskedFor(i) => HistoryAskedFor(i)'
  BY DEF HistoryAskedFor
<1>3. Beyond(i) /\ HistoryComing(i) => Beyond(i)' /\ HistoryComing(i)'
  BY DEF Beyond, HistoryComing, AtSnapshot
<1>4. HistoryTold(i) => HistoryTold(i)'
  BY DEF HistoryTold, AtSnapshot
<1> QED BY <1>1, <1>2, <1>3, <1>4 DEF HistoryReached, ReachedNext

LEMMA PostKeeps ==
    ASSUME HistoryInv, History!Post
    PROVE  HistoryInv'
<1>1. PICK n, x : n = Len(log) /\ x = store
  OBVIOUS
<1>2. /\ subscribed' = historySelected
          /\ UNCHANGED <<log, historyFrames, historySelected, historyRow, store, historyLoad,
              older, newer>>
      /\ UNCHANGED <<historyMissed, merged, raced>>
      /\ UNCHANGED <<selects, fails, historyConnects>>
  BY DEF History!Post, History!historyVars, History!bounds
<1>3. TypedStep(n) /\ x \in StoreOf(n) /\ Alike(store, x)
  BY <1>1, <1>2, HistoryIs DEF TypedStep, Alike
<1>4. HistoryFramesInOrder' /\ CallsInOrder'
  BY <1>2 DEF HistoryInv, HistoryFramesInOrder, CallsInOrder
<1>5. (x.pending # <<>> => x.loadingBefore) /\ (x.loadingBefore => x.before \in older')
  BY <1>1, <1>2 DEF HistoryInv, Waits
<1>6. ASSUME NEW i \in 1..n, Needed(i)' PROVE ReachedNext(x, i)
  BY <1>2, <1>6, <1>1, HistoryIs, ReachedStays DEF Needed
<1> QED BY <1>1, <1>2, <1>3, <1>4, <1>5, <1>6, AlikeNext

LEMMA ReconnectKeeps ==
    ASSUME HistoryInv, History!Reconnect
    PROVE  HistoryInv'
<1>1. PICK n, x : n = Len(log) /\ x = store
  OBVIOUS
<1>2. /\ historyConnects < MaxConnects /\ historyConnects' = historyConnects + 1
      /\ subscribed' = historySelected
      /\ historyFrames' = <<<<"snapshot", n>>>>
      /\ UNCHANGED <<log, historySelected, historyRow, store, historyLoad, older, newer,
          selects, fails>>
      /\ UNCHANGED <<historyMissed, merged, raced>>
  BY <1>1 DEF History!Reconnect, History!historyVars
<1>3. TypedStep(n) /\ x \in StoreOf(n) /\ Alike(store, x)
  <2>1. n \in Nat
    BY <1>1, HistoryIs
  <2>2. <<"snapshot", n>> \in FrameOf(n)
    BY <2>1 DEF FrameOf
  <2>3. historyFrames' \in Seq(FrameOf(n))
    BY <1>2, <2>2
  <2>4. historyConnects' \in 0..MaxConnects
    BY <1>1, <1>2, HistoryIs, HistoryBounds
  <2> QED BY <1>1, <1>2, <2>3, <2>4, HistoryIs DEF TypedStep, Alike
<1>4. HistoryFramesInOrder' /\ CallsInOrder'
  BY <1>2 DEF HistoryFramesInOrder, HistoryInv, CallsInOrder
<1>5. (x.pending # <<>> => x.loadingBefore) /\ (x.loadingBefore => x.before \in older')
  BY <1>1, <1>2 DEF HistoryInv, Waits
<1>6. ASSUME NEW i \in 1..n, Needed(i)' PROVE ReachedNext(x, i)
  <2>1. Needed(i)
    BY <1>2, <1>6 DEF Needed
  <2>2. HistoryReached(i)
    BY <1>1, <2>1, HistoryIs
  <2>3. AtSnapshot' /\ historyFrames'[1][2] = n /\ i <= n
    BY <1>2 DEF AtSnapshot
  <2>4. Brought(i) => i \in Here(x) \cup historyMissed'
    BY <1>1, <1>2 DEF Brought, Here
  <2>5. HistoryAskedFor(i) => HistoryAskedFor(i)'
    BY <1>2 DEF HistoryAskedFor
  <2>6. Beyond(i) => Beyond(i)' /\ HistoryComing(i)'
    BY <1>2, <2>3 DEF Beyond, HistoryComing
  <2>7. HistoryTold(i) => HistoryTold(i)'
    BY <1>2, <2>3 DEF HistoryTold
  <2> QED BY <1>1, <1>2, <2>2, <2>4, <2>5, <2>6, <2>7 DEF HistoryReached, ReachedNext
<1> QED BY <1>1, <1>2, <1>3, <1>4, <1>5, <1>6, AlikeNext

LEMMA LeaveKeeps ==
    ASSUME HistoryInv, History!Leave
    PROVE  HistoryInv'
<1>1. PICK n, x : n = Len(log) /\ x = store
  OBVIOUS
<1>2. /\ historySelected' = FALSE /\ historyLoad' \in {historyLoad, History!NoLoad}
      /\ historyMissed' = (IF historyLoad' = historyLoad THEN historyMissed
          ELSE historyMissed \cup ((1..n) \ History!Shown(x)))
      /\ UNCHANGED <<log, subscribed, historyFrames, historyRow, store, older, newer, merged,
          raced, selects, fails, historyConnects>>
  BY <1>1 DEF History!Leave, History!hostVars, History!bounds
<1>3. TypedStep(n) /\ x \in StoreOf(n) /\ Alike(store, x)
  <2>1. historyLoad' \in LoadOf(n)
    BY <1>1, <1>2, HistoryIs DEF LoadOf, History!NoLoad
  <2>2. historyMissed' \subseteq History!Event
    BY <1>1, <1>2, HistoryIs
  <2> QED BY <1>1, <1>2, <2>1, <2>2, HistoryIs DEF TypedStep, Alike
<1>4. HistoryFramesInOrder' /\ CallsInOrder'
  BY <1>2 DEF HistoryInv, HistoryFramesInOrder, CallsInOrder
<1>5. (x.pending # <<>> => x.loadingBefore) /\ (x.loadingBefore => x.before \in older')
  BY <1>1, <1>2 DEF HistoryInv, Waits
<1>6. ASSUME NEW i \in 1..n, Needed(i)' PROVE ReachedNext(x, i)
  BY <1>2, <1>6, <1>1, HistoryIs, ReachedStays DEF Needed, ReachedNext, Here
<1> QED BY <1>1, <1>2, <1>3, <1>4, <1>5, <1>6, AlikeNext

LEMMA LoadAnsweredKeeps ==
    ASSUME HistoryInv, History!LoadAnswered
    PROVE  HistoryInv'
<1>1. PICK n, x : n = Len(log) /\ x = store
  OBVIOUS
<1>2. /\ historyLoad' = [at |-> "answered", upto |-> n]
      /\ UNCHANGED <<log, subscribed, historyFrames, historySelected, historyRow, store, older,
          newer, historyMissed, merged, raced>>
      /\ UNCHANGED <<selects, fails, historyConnects>>
  BY <1>1 DEF History!LoadAnswered, History!hostVars, History!historyVars, History!bounds
<1>3. TypedStep(n) /\ x \in StoreOf(n) /\ Alike(store, x)
  BY <1>1, <1>2, HistoryIs DEF LoadOf, TypedStep, Alike
<1>4. HistoryFramesInOrder' /\ CallsInOrder'
  BY <1>2 DEF HistoryInv, HistoryFramesInOrder, CallsInOrder
<1>5. (x.pending # <<>> => x.loadingBefore) /\ (x.loadingBefore => x.before \in older')
  BY <1>1, <1>2 DEF HistoryInv, Waits
<1>6. ASSUME NEW i \in 1..n, Needed(i)' PROVE ReachedNext(x, i)
  <2>1. i > n
    BY <1>2, <1>6 DEF Needed
  <2> QED BY <1>1, <2>1, HistoryIs
<1> QED BY <1>1, <1>2, <1>3, <1>4, <1>5, <1>6, AlikeNext

LEMMA LoadFailsKeeps ==
    ASSUME HistoryInv, History!LoadFails
    PROVE  HistoryInv'
<1>1. PICK n, x : n = Len(log) /\ x = store
  OBVIOUS
<1>2. /\ historyLoad' = History!NoLoad /\ fails < MaxFails /\ fails' = fails + 1
      /\ historyMissed' = historyMissed \cup ((1..n) \ History!Shown(x))
      /\ UNCHANGED <<log, subscribed, historyFrames, historySelected, historyRow, store, older,
          newer, merged, raced, selects, historyConnects>>
  BY <1>1 DEF History!LoadFails, History!hostVars
<1>3. TypedStep(n) /\ x \in StoreOf(n) /\ Alike(store, x)
  BY <1>1, <1>2, HistoryIs, HistoryBounds DEF LoadOf, History!NoLoad, TypedStep, Alike
<1>4. HistoryFramesInOrder' /\ CallsInOrder'
  BY <1>2 DEF HistoryInv, HistoryFramesInOrder, CallsInOrder
<1>5. (x.pending # <<>> => x.loadingBefore) /\ (x.loadingBefore => x.before \in older')
  BY <1>1, <1>2 DEF HistoryInv, Waits
<1>6. ASSUME NEW i \in 1..n, Needed(i)' PROVE ReachedNext(x, i)
  BY <1>2 DEF ReachedNext, Here
<1> QED BY <1>1, <1>2, <1>3, <1>4, <1>5, <1>6, AlikeNext

LEMMA FlagsIs ==
    ASSUME NEW n, NEW s \in StoreOf(n), NEW b \in BOOLEAN
    PROVE  /\ [s EXCEPT !.loadingBefore = b] \in StoreOf(n)
           /\ Alike(s, [s EXCEPT !.loadingBefore = b])
           /\ [s EXCEPT !.loadingBefore = b].loadingBefore = b
           /\ [s EXCEPT !.loadingBefore = b].loadingAfter = s.loadingAfter
           /\ [s EXCEPT !.loadingAfter = b] \in StoreOf(n)
           /\ Alike(s, [s EXCEPT !.loadingAfter = b])
           /\ [s EXCEPT !.loadingAfter = b].loadingBefore = s.loadingBefore
BY DEF StoreOf, Alike

LEMMA OlderAskKeeps ==
    ASSUME HistoryInv, History!OlderAsk
    PROVE  HistoryInv'
<1>1. PICK n, x : n = Len(log) /\ x = [store EXCEPT !.loadingBefore = TRUE]
  OBVIOUS
<1>2. /\ store.before > 0 /\ older' = older \cup {store.before} /\ store' = x
      /\ UNCHANGED <<log, subscribed, historyFrames, historySelected, historyRow, historyLoad,
          newer, historyMissed, merged, raced>>
      /\ UNCHANGED <<selects, fails, historyConnects>>
  BY <1>1 DEF History!OlderAsk, History!hostVars, History!historyVars, History!bounds
<1>3. n \in Nat /\ x \in StoreOf(n) /\ Alike(store, x) /\ x.loadingBefore
  BY <1>1, HistoryIs, FlagsIs
<1>4. TypedStep(n)
  BY <1>1, <1>2, HistoryIs, StoreIs DEF TypedStep
<1>5. HistoryFramesInOrder' /\ CallsInOrder'
  BY <1>2 DEF HistoryInv, HistoryFramesInOrder, CallsInOrder
<1>6. x.before \in older'
  BY <1>2, <1>3 DEF Alike
<1>7. ASSUME NEW i \in 1..n, Needed(i)' PROVE ReachedNext(x, i)
  BY <1>2, <1>3, <1>7, <1>1, HistoryIs, AlikeIs, ReachedStays DEF Needed, Alike
<1> QED BY <1>1, <1>2, <1>3, <1>4, <1>5, <1>6, <1>7, AlikeNext

LEMMA NewerAnsweredKeeps ==
    ASSUME HistoryInv, NEW c, History!NewerAnswered(c)
    PROVE  HistoryInv'
<1>1. PICK n, x : n = Len(log) /\ x = store
  OBVIOUS
<1>2. PICK upto, d : /\ upto = History!MinOf(c.after + PageSize, n)
                     /\ d = [c EXCEPT !.at = "answered", !.upto = upto, !.more = upto < n]
  OBVIOUS
<1>3. /\ c \in newer /\ c.at = "asked" /\ newer' = (newer \ {c}) \cup {d}
      /\ UNCHANGED <<log, subscribed, historyFrames, historySelected, historyRow, store,
          historyLoad, older, historyMissed, merged, raced>>
      /\ UNCHANGED <<selects, fails, historyConnects>>
  BY <1>1, <1>2 DEF History!NewerAnswered, History!hostVars, History!historyVars, History!bounds
<1>4. c \in BackfillOf(n) /\ n \in Nat
  BY <1>1, <1>3, HistoryIs
<1>5. /\ c.after \in 0..n /\ upto \in 0..n /\ c.after <= upto /\ (upto < n => c.after < upto)
      /\ upto <= n
  BY <1>4, <1>2, HistoryBounds DEF BackfillOf, History!MinOf
<1>6. /\ d \in BackfillOf(n) /\ d.after = c.after /\ d.at = "answered" /\ d.upto = upto
      /\ d.more = (upto < n)
  <2>1. (upto < n) \in BOOLEAN
    OBVIOUS
  <2> QED BY <1>2, <1>4, <1>5, <2>1 DEF BackfillOf
<1>7. TypedStep(n) /\ x \in StoreOf(n) /\ Alike(store, x)
  BY <1>1, <1>3, <1>6, HistoryIs DEF TypedStep, Alike
<1>8. HistoryFramesInOrder'
  BY <1>3 DEF HistoryInv, HistoryFramesInOrder
<1>9. CallsInOrder'
  BY <1>3, <1>5, <1>6 DEF HistoryInv, CallsInOrder
<1>10. (x.pending # <<>> => x.loadingBefore) /\ (x.loadingBefore => x.before \in older')
  BY <1>1, <1>3 DEF HistoryInv, Waits
<1>11. ASSUME NEW i \in 1..n, Needed(i)' PROVE ReachedNext(x, i)
  <2>1. Needed(i)
    BY <1>3, <1>11 DEF Needed
  <2>2. HistoryReached(i)
    BY <1>1, <2>1, HistoryIs
  <2>3. Brought(i) => i \in Here(x) \cup historyMissed'
    BY <1>1, <1>3 DEF Brought, Here
  <2>4. ASSUME HistoryAskedFor(i) PROVE HistoryAskedFor(i)'
    <3>1. PICK e \in newer : e.after < i /\ (e.at = "asked" \/ e.more \/ i <= e.upto)
      BY <2>4 DEF HistoryAskedFor
    <3>2. CASE e = c
      <4>1. d.after < i /\ (d.more \/ i <= d.upto)
        <5>1. upto < n \/ i <= upto
          BY <1>4, <1>5
        <5> QED BY <1>6, <3>1, <3>2, <5>1
      <4> QED BY <1>3, <4>1 DEF HistoryAskedFor
    <3>3. CASE e # c
      BY <1>3, <3>1, <3>3 DEF HistoryAskedFor
    <3> QED BY <3>2, <3>3
  <2>5. Beyond(i) /\ HistoryComing(i) => Beyond(i)' /\ HistoryComing(i)'
    BY <1>3, <1>6 DEF Beyond, HistoryComing, AtSnapshot
  <2>6. HistoryTold(i) => HistoryTold(i)'
    BY <1>3 DEF HistoryTold, AtSnapshot
  <2> QED BY <1>1, <1>3, <2>2, <2>3, <2>4, <2>5, <2>6 DEF HistoryReached, ReachedNext
<1> QED BY <1>1, <1>3, <1>7, <1>8, <1>9, <1>10, <1>11, AlikeNext

LEMMA NewerFailsKeeps ==
    ASSUME HistoryInv, NEW c, History!NewerFails(c)
    PROVE  HistoryInv'
<1>1. PICK n, x : n = Len(log) /\ x = [store EXCEPT !.loadingAfter = FALSE]
  OBVIOUS
<1>2. /\ c \in newer /\ newer' = newer \ {c} /\ fails < MaxFails /\ fails' = fails + 1
      /\ store' = x
      /\ \/ historyLoad' = [at |-> "asked", upto |-> 0] /\ historyMissed' = historyMissed
         \/ historyLoad' = historyLoad
             /\ historyMissed' = historyMissed \cup (c.after + 1)..History!MaxOf(historyRow, n)
      /\ UNCHANGED <<log, subscribed, historyFrames, historySelected, historyRow, older,
          merged, raced, selects, historyConnects>>
  BY <1>1 DEF History!NewerFails, History!hostVars
<1>3. /\ n \in Nat /\ x \in StoreOf(n) /\ Alike(store, x)
          /\ x.loadingBefore = store.loadingBefore
      /\ historyRow \in 0..n
  BY <1>1, HistoryIs, FlagsIs
<1>4. c.after \in 0..n
  BY <1>1, <1>2, HistoryIs DEF BackfillOf
<1>5. History!MaxOf(historyRow, n) = n
  BY <1>3 DEF History!MaxOf
<1>6. TypedStep(n)
  <2>1. historyLoad' \in LoadOf(n)
    BY <1>1, <1>2, <1>3, HistoryIs DEF LoadOf
  <2>2. historyMissed' \subseteq History!Event
    BY <1>3, <1>4, <1>1, <1>2, <1>5, HistoryIs
  <2>3. fails' \in 0..MaxFails
    BY <1>1, <1>2, HistoryIs, HistoryBounds
  <2> QED BY <1>1, <1>2, <2>1, <2>2, <2>3, HistoryIs DEF TypedStep
<1>7. HistoryFramesInOrder' /\ CallsInOrder'
  BY <1>2 DEF HistoryInv, HistoryFramesInOrder, CallsInOrder
<1>8. (x.pending # <<>> => x.loadingBefore) /\ (x.loadingBefore => x.before \in older')
  BY <1>2, <1>3 DEF HistoryInv, Waits, Alike
<1>9. ASSUME NEW i \in 1..n, Needed(i)' PROVE ReachedNext(x, i)
  <2>1. CASE historyLoad' = [at |-> "asked", upto |-> 0]
    BY <1>9, <2>1 DEF Needed
  <2>2. CASE historyLoad' = historyLoad
          /\ historyMissed' = historyMissed \cup (c.after + 1)..History!MaxOf(historyRow, n)
    <3>1. Needed(i)
      BY <1>2, <1>3, <1>9, <2>2 DEF Needed, Alike
    <3>2. HistoryReached(i)
      BY <1>1, <3>1, HistoryIs
    <3>3. Brought(i) => i \in Here(x) \cup historyMissed'
      BY <1>3, <2>2, AlikeIs DEF Brought, Here
    <3>4. ASSUME HistoryAskedFor(i) PROVE i \in historyMissed' \/ HistoryAskedFor(i)'
      BY <3>4, <1>3, <1>4, <1>5, <2>2, <1>2 DEF HistoryAskedFor
    <3>5. Beyond(i) /\ HistoryComing(i) => Beyond(i)' /\ HistoryComing(i)'
      BY <1>2, <1>3 DEF Beyond, HistoryComing, AtSnapshot, Alike
    <3>6. HistoryTold(i) => HistoryTold(i)'
      BY <1>2 DEF HistoryTold, AtSnapshot
    <3> QED BY <1>2, <1>3, <2>2, <3>2, <3>3, <3>4, <3>5, <3>6 DEF HistoryReached, ReachedNext,
          Alike
  <2> QED BY <1>2, <2>1, <2>2
<1> QED BY <1>1, <1>2, <1>3, <1>6, <1>7, <1>8, <1>9, AlikeNext

\* The first frame is read.
LEMMA TailIs ==
    ASSUME NEW n \in Nat, historyFrames \in Seq(FrameOf(n)), historyFrames # <<>>,
             HistoryFramesInOrder, historyFrames' = Tail(historyFrames)
    PROVE  /\ historyFrames[1] \in FrameOf(n) /\ historyFrames[1] = Head(historyFrames)
           /\ historyFrames[1][2] \in 0..n
           /\ historyFrames' \in Seq(FrameOf(n)) /\ HistoryFramesInOrder' /\ ~AtSnapshot'
           /\ historyFrames[1][1] = "event" => historyFrames[1][2] \in 1..n
           /\ \A i : (\E k \in 1..Len(historyFrames) : historyFrames[k] = <<"event", i>>) =>
                 \/ historyFrames[1] = <<"event", i>>
                 \/ historyFrames[1][2] < i /\ \E k \in 1..Len(historyFrames') :
                     historyFrames'[k] = <<"event", i>>
<1>1. PICK f, t : f = historyFrames /\ t = historyFrames'
  OBVIOUS
<1>2. /\ f \in Seq(FrameOf(n)) /\ f # <<>> /\ t = Tail(f)
  BY <1>1
<1>3. /\ t \in Seq(FrameOf(n)) /\ Len(f) \in Nat \ {0} /\ Len(t) = Len(f) - 1
      /\ \A k \in 1..Len(t) : t[k] = f[k + 1]
  BY <1>2
<1>4. /\ \A k \in 1..Len(t) : k + 1 \in 1..Len(f) /\ k + 1 \in 2..Len(f)
      /\ 1 \in 1..Len(f)
  BY <1>3
<1>5. f[1] \in FrameOf(n) /\ f[1] = Head(f)
  BY <1>2, <1>4
<1>6. /\ \A k \in 1..Len(f) : f[k][1] = "event" => f[k][2] # 0
      /\ \A k \in 2..Len(f) : f[k][1] = "event"
      /\ \A k, l \in 1..Len(f) : k < l => f[k][2] < f[l][2]
  BY <1>1 DEF HistoryFramesInOrder
<1>7. HistoryFramesInOrder'
  <2>1. \A k \in 1..Len(t) : t[k][1] = "event" /\ t[k][2] # 0
    BY <1>3, <1>4, <1>6
  <2>2. \A k, l \in 1..Len(t) : k < l => t[k][2] < t[l][2]
    <3> SUFFICES ASSUME NEW k \in 1..Len(t), NEW l \in 1..Len(t), k < l PROVE t[k][2] < t[l][2]
      OBVIOUS
    <3>1. k + 1 < l + 1 /\ k + 1 \in 1..Len(f) /\ l + 1 \in 1..Len(f)
      BY <1>4
    <3> QED BY <1>3, <1>6, <3>1
  <2>3. \A k \in 2..Len(t) : t[k][1] = "event"
    BY <1>3, <2>1
  <2> QED BY <1>1, <2>1, <2>2, <2>3 DEF HistoryFramesInOrder
<1>8. ~AtSnapshot'
  BY <1>1, <1>3, <1>4, <1>6 DEF AtSnapshot
<1>9. f[1][2] \in 0..n /\ (f[1][1] = "event" => f[1][2] \in 1..n)
  BY <1>5, <1>4, <1>6 DEF FrameOf
<1>10. ASSUME NEW i, NEW k \in 1..Len(f), f[k] = <<"event", i>>
       PROVE  \/ f[1] = <<"event", i>>
              \/ f[1][2] < i /\ \E m \in 1..Len(t) : t[m] = <<"event", i>>
  <2>1. CASE k = 1
    BY <1>10, <2>1
  <2>2. CASE k # 1
    <3>1. k - 1 \in 1..Len(t) /\ (k - 1) + 1 = k /\ 1 < k
      BY <1>3, <2>2
    <3>2. t[k - 1] = <<"event", i>>
      BY <1>3, <1>10, <3>1
    <3>3. f[1][2] < f[k][2] /\ f[k][2] = i
      BY <1>4, <1>6, <1>10, <3>1
    <3> QED BY <3>1, <3>2, <3>3
  <2> QED BY <2>1, <2>2
<1> QED BY <1>1, <1>3, <1>5, <1>7, <1>8, <1>9, <1>10

LEMMA BackfillIs ==
    ASSUME NEW n \in Nat, NEW after \in 0..n, NEW b \in BOOLEAN
    PROVE  /\ \A p \in 1..MaxPages :
                /\ History!BackfillPage(after, b, p) \in BackfillOf(n)
                /\ History!BackfillPage(after, b, p).after = after
                /\ History!BackfillPage(after, b, p).at = "asked"
           /\ History!Backfill(after, b) \in BackfillOf(n)
           /\ History!Backfill(after, b).after = after
           /\ History!Backfill(after, b).at = "asked"
BY HistoryBounds DEF History!BackfillPage, History!Backfill, BackfillOf

LEMMA SnapshotKeeps ==
    ASSUME HistoryInv, History!Snapshot
    PROVE  HistoryInv'
<1>1. PICK n, x, w : n = Len(log) /\ x = store' /\ w = historyFrames[1][2]
  OBVIOUS
<1>2. /\ historyFrames # <<>> /\ Head(historyFrames)[1] = "snapshot"
      /\ historyFrames' = Tail(historyFrames)
  BY DEF History!Snapshot
<1>3. /\ n \in Nat /\ historyFrames \in Seq(FrameOf(n)) /\ HistoryFramesInOrder
      /\ store \in StoreOf(n)
  BY <1>1, HistoryIs DEF HistoryInv
<1>4. /\ historyFrames[1] = Head(historyFrames) /\ w \in 0..n
      /\ historyFrames' \in Seq(FrameOf(n)) /\ HistoryFramesInOrder' /\ ~AtSnapshot'
      /\ \A i : (\E k \in 1..Len(historyFrames) : historyFrames[k] = <<"event", i>>) =>
            \/ historyFrames[1] = <<"event", i>>
            \/ \E k \in 1..Len(historyFrames') : historyFrames'[k] = <<"event", i>>
  BY <1>1, <1>2, <1>3, TailIs
<1>5. historyFrames[1][1] = "snapshot" /\ AtSnapshot
  BY <1>2, <1>4 DEF AtSnapshot
<1> DEFINE asks == historySelected /\ store.real > 0 /\ w > store.real /\ ~store.loadingAfter
<1>6. /\ historyRow' = w
      /\ newer' = IF asks THEN newer \cup {History!Backfill(store.real, FALSE)} ELSE newer
      /\ store' = IF asks THEN [store EXCEPT !.loadingAfter = TRUE] ELSE store
      /\ historyMissed' = IF historySelected /\ store.there /\ ~asks
                   THEN historyMissed
                        \cup ((1..w) \ (History!Shown(store) \cup History!HeldIn(store)))
                   ELSE historyMissed
      /\ UNCHANGED <<log, subscribed, historySelected, historyLoad, older, merged, raced,
          selects, fails, historyConnects>>
  BY <1>1, <1>4 DEF History!Snapshot, History!bounds
<1> HIDE DEF asks
<1>7. x \in StoreOf(n) /\ Alike(store, x) /\ x.loadingBefore = store.loadingBefore
  <2>1. CASE asks
    BY <1>1, <1>3, <1>6, <2>1, FlagsIs
  <2>2. CASE ~asks
    BY <1>1, <1>3, <1>6, <2>2 DEF Alike
  <2> QED BY <2>1, <2>2
<1>8. store.real \in 0..n
  BY <1>3, StoreIs
<1>9. TypedStep(n)
  <2>1. newer' \subseteq BackfillOf(n)
    BY <1>1, <1>3, <1>6, <1>8, HistoryIs, BackfillIs
  <2>2. historyMissed' \subseteq History!Event
    BY <1>3, <1>4, <1>1, <1>6, HistoryIs
  <2> QED BY <1>1, <1>4, <1>6, <2>1, <2>2, HistoryIs DEF TypedStep
<1>10. CallsInOrder'
  BY <1>3, <1>6, <1>8, BackfillIs DEF HistoryInv, CallsInOrder
<1>11. (x.pending # <<>> => x.loadingBefore) /\ (x.loadingBefore => x.before \in older')
  BY <1>6, <1>7 DEF HistoryInv, Waits, Alike
<1>12. ASSUME NEW i \in 1..n, Needed(i)' PROVE ReachedNext(x, i)
  <2>1. Needed(i)
    BY <1>1, <1>6, <1>7, <1>12 DEF Needed, Alike
  <2>2. HistoryReached(i)
    BY <1>1, <2>1, HistoryIs
  <2>3. Brought(i) => i \in Here(x) \cup historyMissed'
    BY <1>6, <1>7, AlikeIs DEF Brought, Here
  <2>4. HistoryAskedFor(i) => HistoryAskedFor(i)'
    BY <1>6 DEF HistoryAskedFor
  <2>5. HistoryTold(i) => HistoryTold(i)'
    BY <1>1, <1>4, <1>5, <1>6 DEF HistoryTold
  <2>6. ASSUME Beyond(i), HistoryComing(i) PROVE ReachedNext(x, i)
    <3>1. CASE asks
      BY <1>6, <1>8, <2>6, <3>1, <1>3, BackfillIs DEF Beyond, HistoryAskedFor, ReachedNext
    <3>2. CASE ~asks /\ \E k \in 1..Len(historyFrames) : historyFrames[k] = <<"event", i>>
      <4>0. historyFrames[1] # <<"event", i>>
        BY <1>5
      <4>1. \E k \in 1..Len(historyFrames') : historyFrames'[k] = <<"event", i>>
        BY <1>4, <3>2, <4>0
      <4>2. HistoryComing(i)'
        BY <4>1 DEF HistoryComing
      <4>3. Beyond(i)'
        BY <1>6, <2>6, <3>2 DEF Beyond
      <4> QED BY <4>2, <4>3 DEF ReachedNext
    <3>3. CASE ~asks /\ i <= w
      BY <1>4, <3>3, <1>6, <1>7, AlikeIs, <2>1, <2>6 DEF HistoryTold, ReachedNext, Here,
         HistoryInv, Waits, Needed, Beyond, Alike
    <3> QED BY <1>1, <2>6, <3>1, <3>2, <3>3 DEF HistoryComing
  <2> QED BY <1>6, <1>7, <2>2, <2>3, <2>4, <2>5, <2>6 DEF HistoryReached, ReachedNext, Alike
<1> QED BY <1>1, <1>4, <1>6, <1>7, <1>9, <1>10, <1>11, <1>12, AlikeNext

LEMMA SelectKeeps ==
    ASSUME HistoryInv, History!Select
    PROVE  HistoryInv'
<1>1. PICK n, x : n = Len(log) /\ x = store'
  OBVIOUS
<1> DEFINE asks == History!Strategy = "backfill" /\ ~store.loadingAfter
<1>2. /\ ~historySelected /\ selects < MaxSelects /\ selects' = selects + 1
      /\ historySelected' = TRUE
      /\ historyLoad' = IF History!Strategy = "load" THEN [at |-> "asked", upto |-> 0]
          ELSE historyLoad
      /\ newer' = IF asks THEN newer \cup {History!Backfill(store.last, TRUE)} ELSE newer
      /\ store' = IF History!Strategy = "backfill"
          THEN [store EXCEPT !.loadingAfter = TRUE] ELSE store
      /\ historyMissed' = IF History!Strategy = "backfill" /\ ~asks
                   THEN historyMissed
                        \cup ((1..historyRow) \ (History!Shown(store) \cup History!HeldIn(store)))
                   ELSE historyMissed
      /\ UNCHANGED <<log, subscribed, historyFrames, historyRow, older, merged, raced, fails,
          historyConnects>>
  BY DEF History!Select, History!hostVars
<1>3. n \in Nat /\ store \in StoreOf(n) /\ historyRow \in 0..n /\ historyLoad \in LoadOf(n)
  BY <1>1, HistoryIs
<1> HIDE DEF asks
<1>4. x \in StoreOf(n) /\ Alike(store, x) /\ x.loadingBefore = store.loadingBefore
  <2>1. CASE History!Strategy = "backfill"
    BY <1>1, <1>2, <1>3, <2>1, FlagsIs
  <2>2. CASE History!Strategy # "backfill"
    BY <1>1, <1>2, <1>3, <2>2 DEF Alike
  <2> QED BY <2>1, <2>2
<1>5. store.last \in 0..n
  BY <1>3, StoreIs
<1>6. TypedStep(n)
  <2>1. newer' \subseteq BackfillOf(n)
    BY <1>1, <1>2, <1>3, <1>5, HistoryIs, BackfillIs
  <2>2. historyMissed' \subseteq History!Event
    BY <1>3, <1>1, <1>2, HistoryIs
  <2>3. historyLoad' \in LoadOf(n)
    BY <1>2, <1>3 DEF LoadOf
  <2>4. selects' \in 0..MaxSelects
    BY <1>1, <1>2, HistoryIs, HistoryBounds
  <2> QED BY <1>1, <1>2, <2>1, <2>2, <2>3, <2>4, HistoryIs DEF TypedStep
<1>7. HistoryFramesInOrder'
  BY <1>2 DEF HistoryInv, HistoryFramesInOrder
<1>8. CallsInOrder'
  BY <1>2, <1>3, <1>5, BackfillIs DEF HistoryInv, CallsInOrder
<1>9. (x.pending # <<>> => x.loadingBefore) /\ (x.loadingBefore => x.before \in older')
  BY <1>2, <1>4 DEF HistoryInv, Waits, Alike
<1>10. ASSUME NEW i \in 1..n, Needed(i)' PROVE ReachedNext(x, i)
  <2>1. History!Strategy # "load" /\ historyLoad' = historyLoad
    BY <1>2, <1>10 DEF Needed
  <2>2. Needed(i)
    BY <1>1, <1>2, <1>4, <1>10, <2>1 DEF Needed, Alike
  <2>3. HistoryReached(i)
    BY <1>1, <2>2, HistoryIs
  <2>4. Brought(i) => i \in Here(x) \cup historyMissed'
    BY <1>2, <1>4, AlikeIs DEF Brought, Here
  <2>5. HistoryAskedFor(i) => HistoryAskedFor(i)'
    BY <1>2 DEF HistoryAskedFor
  <2>6. Beyond(i) /\ HistoryComing(i) => Beyond(i)' /\ HistoryComing(i)'
    <3> SUFFICES ASSUME Beyond(i), HistoryComing(i) PROVE Beyond(i)' /\ HistoryComing(i)'
      OBVIOUS
    <3>1. i > x.last /\ i > x.real /\ \A c \in newer' : i > c.after
      BY <1>2, <1>3, <1>4, <1>5, BackfillIs DEF Beyond, Alike
    <3> QED BY <1>1, <1>2, <3>1 DEF Beyond, HistoryComing, AtSnapshot
  <2>7. HistoryTold(i) => HistoryTold(i)'
    BY <1>2 DEF HistoryTold, AtSnapshot
  <2>8. ASSUME HistoryTold(i), i > store.last PROVE ReachedNext(x, i)
    <3>1. i <= historyRow /\ i \in 1..historyRow
      BY <1>3, <2>8 DEF HistoryTold
    <3>2. History!Strategy = "backfill"
      BY <1>3, <1>5, <2>1, <2>8, <3>1 DEF History!Strategy
    <3>3. CASE asks
      BY <1>2, <3>3, <1>3, <1>5, <2>8, BackfillIs DEF HistoryAskedFor, ReachedNext
    <3>4. CASE ~asks
      BY <1>2, <1>4, <3>1, <3>2, <3>4, AlikeIs DEF ReachedNext, Here
    <3> QED BY <3>3, <3>4
  <2> QED BY <1>2, <2>1, <2>3, <2>4, <2>5, <2>6, <2>7, <2>8 DEF HistoryReached, ReachedNext
<1> QED BY <1>1, <1>2, <1>4, <1>6, <1>7, <1>8, <1>9, <1>10, AlikeNext

LEMMA DistinctGrows ==
    ASSUME NEW s, NEW M, NEW N, M \subseteq N, Distinct(s, M)
    PROVE  Distinct(s, N)
BY DEF Distinct

LEMMA MergedHeld ==
    ASSUME NEW n \in Nat, NEW s \in StoreOf(n)
    PROVE  History!MergedIn(s) \subseteq 1..n
<1> SUFFICES ASSUME NEW i \in History!MergedIn(s) PROVE i \in 1..n
  OBVIOUS
<1>1. PICK k \in 1..Len(s.pending) : \E m \in 2..Len(s.pending[k]) : i = s.pending[k][m]
  BY MergedIs
<1>2. PICK m \in 2..Len(s.pending[k]) : i = s.pending[k][m]
  BY <1>1
<1>3. s.pending[k] \in Seq(1..n)
  BY StoreIs
<1>4. m \in 1..Len(s.pending[k])
  BY <1>3
<1> QED BY <1>2, <1>3, <1>4

LEMMA HistoryReceiveKeeps ==
    ASSUME HistoryInv, History!Receive
    PROVE  HistoryInv'
<1>1. PICK n, x, i, M : n = Len(log) /\ x = store' /\ i = historyFrames[1][2] /\ M = merged'
  OBVIOUS
<1>2. /\ historyFrames # <<>> /\ Head(historyFrames)[1] = "event"
      /\ historyFrames' = Tail(historyFrames)
  BY DEF History!Receive
<1>3. n \in Nat /\ historyFrames \in Seq(FrameOf(n)) /\ HistoryFramesInOrder
        /\ store \in StoreOf(n) /\ log \in Seq(History!Kind)
      /\ historySelected \in BOOLEAN /\ historyRow \in 0..n /\ 1..n \subseteq History!Event
      /\ merged \subseteq History!Event
  BY <1>1, HistoryIs DEF HistoryInv
<1>4. /\ historyFrames[1] = Head(historyFrames) /\ historyFrames' \in Seq(FrameOf(n))
      /\ HistoryFramesInOrder' /\ ~AtSnapshot'
      /\ historyFrames[1][1] = "event" => historyFrames[1][2] \in 1..n
      /\ \A j : (\E k \in 1..Len(historyFrames) : historyFrames[k] = <<"event", j>>) =>
            \/ historyFrames[1] = <<"event", j>>
            \/ historyFrames[1][2] < j /\ \E k \in 1..Len(historyFrames') :
                historyFrames'[k] = <<"event", j>>
  BY <1>2, <1>3, TailIs
<1>5. /\ historyFrames[1][1] = "event" /\ i \in 1..n /\ ~AtSnapshot
      /\ historyFrames[1] = <<"event", i>>
  BY <1>2, <1>3, TailIs, <1>1, <1>4 DEF AtSnapshot, FrameOf
<1>6. /\ \E above \in BOOLEAN : x = History!Handled(store, i, above)
      /\ historyRow' = History!MaxOf(historyRow, i) /\ M = merged \cup History!MergedIn(x)
      /\ raced' = (raced
          \/ (historySelected /\ (newer # {} \/ (store.pending # <<>> /\ i \in History!Shown(x))
                                   \/ \E j \in History!Shown(store) \cup History!HeldIn(store) :
                                          j > i)))
      /\ UNCHANGED <<log, subscribed, historySelected, historyLoad, older, newer,
          historyMissed, selects, fails, historyConnects>>
  BY <1>1, <1>4 DEF History!Receive, History!bounds
<1>7. PICK above \in BOOLEAN : x = History!Handled(store, i, above)
  BY <1>6
<1>8. /\ Known(store) /\ Distinct(store, M) /\ (store.pending # <<>> => store.loadingBefore)
      /\ (~raced => Sorted(store) /\ TurnIs(store))
  BY <1>6, DistinctGrows DEF HistoryInv, Waits
<1>9. /\ x \in StoreOf(n) /\ Same(store, x) /\ Known(x) /\ Distinct(x, M)
      /\ History!Shown(store) \subseteq History!Shown(x)
      /\ store.there => x.there
      /\ x.real <= store.real \/ x.real <= i
      /\ x.last <= store.last \/ x.last <= i
      /\ x.pending # <<>> => x.loadingBefore
      /\ historySelected => Here(x) = Here(store) \cup {i}
      /\ ~historySelected => /\ Here(x) = Here(store) /\ x.last = store.last
                             /\ (Sorted(store) => Sorted(x)) /\ (TurnIs(store) => TurnIs(x))
      /\ store.pending # <<>> /\ historySelected /\ i \notin History!Shown(x) => above
      /\ Sorted(store) /\ TurnIs(store) /\ i <= Len(log) /\ (\A j \in Here(store) : j <= i)
           /\ (store.pending = <<>> \/ above \/ i \notin History!Shown(x)) => Sorted(x)
               /\ TurnIs(x)
  BY <1>3, <1>5, <1>7, <1>8, HandledIs
<1>10. /\ x.last \in Nat /\ store.last \in Nat /\ x.real \in Nat /\ store.real \in Nat
       /\ Here(store) \subseteq 1..n
  BY <1>3, <1>9, StoreIs DEF Here
<1>11. TypedStep(n)
  BY <1>3, <1>5, <1>6, <1>9, MergedHeld, <1>1, <1>4, HistoryIs DEF History!MaxOf, TypedStep
<1>12. CallsInOrder'
  BY <1>6 DEF HistoryInv, CallsInOrder
<1>13. (x.loaded => x.there) /\ (x.loadingBefore => x.before \in older')
  BY <1>6, <1>9 DEF HistoryInv, Waits, Same
<1>14. ASSUME ~raced' PROVE Sorted(x) /\ TurnIs(x)
  <2>1. Sorted(store) /\ TurnIs(store)
    BY <1>6, <1>8, <1>14
  <2>2. CASE ~historySelected
    BY <1>9, <2>1, <2>2
  <2>3. CASE historySelected
    <3>1. (store.pending = <<>> \/ i \notin History!Shown(x))
            /\ ~\E j \in History!Shown(store) \cup History!HeldIn(store) : j > i
      BY <1>6, <1>14, <2>3
    <3>2. \A j \in Here(store) : j <= i
      BY <1>5, <1>10, <3>1 DEF Here
    <3>3. i <= Len(log)
      BY <1>1, <1>5
    <3> QED BY <1>9, <2>1, <3>1, <3>2, <3>3
  <2> QED BY <1>3, <2>2, <2>3
<1>15. ASSUME NEW j \in 1..n, Needed(j)' PROVE ReachedNext(x, j)
  <2>1. Needed(j)
    BY <1>1, <1>6, <1>9, <1>15 DEF Needed, Same
  <2>2. HistoryReached(j)
    BY <1>1, <2>1, HistoryIs
  <2>3. Here(store) \subseteq Here(x)
    BY <1>3, <1>9
  <2>4. Brought(j) => j \in Here(x) \cup historyMissed'
    BY <1>6, <2>3 DEF Brought, Here
  <2>5. HistoryAskedFor(j) => HistoryAskedFor(j)'
    BY <1>6 DEF HistoryAskedFor
  <2>6. HistoryTold(j) => HistoryTold(j)'
    BY <1>3, <1>4, <1>5, <1>6 DEF HistoryTold, History!MaxOf
  <2>7. ASSUME Beyond(j), HistoryComing(j) PROVE ReachedNext(x, j)
    <3>1. \E k \in 1..Len(historyFrames) : historyFrames[k] = <<"event", j>>
      BY <1>5, <2>7 DEF HistoryComing
    <3>2. CASE historyFrames[1] = <<"event", j>>
      BY <1>1, <3>2, <1>9, <1>3, <1>4, <1>5, <1>6, <2>7 DEF ReachedNext, HistoryTold,
         History!MaxOf, Beyond
    <3>3. CASE i < j /\ \E k \in 1..Len(historyFrames') : historyFrames'[k] = <<"event", j>>
      <4>1. HistoryComing(j)'
        BY <3>3 DEF HistoryComing
      <4>2. j > x.last /\ j > x.real
        BY <1>5, <1>9, <1>10, <2>7, <3>3 DEF Beyond
      <4>3. Beyond(j)'
        BY <1>1, <1>6, <2>7, <4>2 DEF Beyond
      <4> QED BY <4>1, <4>3 DEF ReachedNext
    <3> QED BY <1>1, <1>4, <3>1, <3>2, <3>3
  <2>8. ASSUME HistoryTold(j), historyLoad.at = "answered"
          \/ (~historySelected /\ j > store.last) PROVE ReachedNext(x, j)
    BY <1>6, <1>9, <2>6, <2>8 DEF ReachedNext
  <2> QED BY <2>2, <2>4, <2>5, <2>7, <2>8 DEF HistoryReached, ReachedNext
<1>16. History!MergedIn(x) \subseteq M /\ x = store' /\ log' = log
  BY <1>1, <1>6
<1> QED BY <1>1, <1>4, <1>9, <1>11, <1>12, <1>13, <1>14, <1>15, <1>16, QuietNext

-----------------------------------------------------------------------------
(* A load is applied.                                                      *)

LEMMA TurnInIs ==
    ASSUME log \in Seq(History!Kind), NEW from \in Nat \ {0}, NEW upto \in 0..Len(log), NEW w,
             w = History!TurnIn(from, upto)
    PROVE  /\ w \in 0..Len(log)
           /\ w # 0 => /\ w \in from..upto /\ log[w] = "start"
                       /\ \A i \in from..upto : i > w => log[i] = "text"
<1> DEFINE marks == {i \in from..upto : log[i] # "text"}
           latest == {i \in marks : \A j \in marks : j <= i}
<1>1. w = IF \E i \in latest : log[i] = "start" THEN CHOOSE i \in latest : TRUE ELSE 0
  BY DEF History!TurnIn
<1> HIDE DEF latest
<1>2. CASE ~\E i \in latest : log[i] = "start"
  BY <1>1, <1>2
<1>3. CASE \E i \in latest : log[i] = "start"
  BY <1>3, <1>1 DEF latest
<1> QED BY <1>2, <1>3

LEMMA LoadAppliedIs ==
    ASSUME NEW n, n = Len(log), log \in Seq(History!Kind), NEW upto \in 0..n, NEW x,
             x = History!LoadApplied(store, upto)
    PROVE  /\ x \in StoreOf(n) /\ Known(x) /\ Distinct(x, {}) /\ Sorted(x) /\ TurnIs(x)
           /\ History!HeldIn(x) = {} /\ History!MergedIn(x) = {}
           /\ x.there /\ x.loaded /\ x.pending = <<>> /\ ~x.loadingBefore /\ x.last = upto
           /\ x.real = 0
           /\ \A i \in 1..upto : i >= x.before => i \in History!Shown(x)
<1> DEFINE m == History!MinOf(PageSize, upto)
           from == upto - m + 1
           page == [i \in 1..m |-> upto - m + i]
           begun == History!TurnIn(upto - m + 1, upto)
           numbers == (upto - m + 1)..upto
           before == IF m = 0 THEN 0 ELSE upto - m + 1
           more == m < upto
<1>1. /\ n \in Nat /\ upto \in Nat /\ m \in 0..upto /\ from \in Nat \ {0} /\ (m = 0 => upto = 0)
      /\ upto <= n /\ from <= upto + 1
  BY HistoryBounds DEF History!MinOf
<1>2. /\ page \in Seq(1..n) /\ Len(page) = m /\ \A k \in 1..m : page[k] = upto - m + k
  BY <1>1
<1>3. begun \in 0..n /\ (begun # 0 => /\ begun \in from..upto /\ log[begun] = "start"
                                      /\ \A i \in from..upto : i > begun => log[i] = "text")
  <2>1. PICK w : w = History!TurnIn(from, upto)
    OBVIOUS
  <2>2. w = begun
    BY <2>1
  <2>3. upto \in 0..Len(log)
    OBVIOUS
  <2> HIDE DEF from, begun, m
  <2>4. w \in 0..Len(log) /\ (w # 0 => /\ w \in from..upto /\ log[w] = "start"
                                      /\ \A i \in from..upto : i > w => log[i] = "text")
    <3>1. log \in Seq(History!Kind) /\ from \in Nat \ {0}
      BY <1>1
    <3> QED BY <2>1, <2>3, <3>1, TurnInIs
  <2> QED BY <2>2, <2>4
<1>4. numbers \subseteq 1..n /\ before \in 0..n /\ more \in BOOLEAN
  BY <1>1
<1>5. x = [History!NoStore EXCEPT !.there = TRUE, !.loaded = TRUE, !.last = upto,
        !.events = page, !.seen = numbers,
                          !.more = more, !.before = before, !.turn = begun]
  BY DEF History!LoadApplied
<1>6. numbers = from..upto /\ before = IF m = 0 THEN 0 ELSE from
  OBVIOUS
<1> HIDE DEF page, begun, numbers, before, more
<1>7. /\ x.there /\ x.loaded /\ x.pending = <<>> /\ ~x.loadingBefore /\ x.last = upto
      /\ x.real = 0
      /\ x.events = page /\ x.seen = numbers /\ x.before = before /\ x.turn = begun
  BY <1>5 DEF History!NoStore
<1>8. x \in StoreOf(n)
  <2> DEFINE no == <<>>
  <2>1. no \in Seq(Group(n)) /\ 0 \in 0..n
    BY <1>1
  <2>2. x = [there |-> TRUE, loaded |-> TRUE, events |-> page, seen |-> numbers, last |-> upto,
             real |-> 0, more |-> more, before |-> before, pending |-> no, turn |-> begun,
             loadingBefore |-> FALSE, loadingAfter |-> FALSE]
    BY <1>5 DEF History!NoStore
  <2> HIDE DEF no
  <2> QED BY <1>2, <1>3, <1>4, <2>1, <2>2 DEF StoreOf
<1>9. History!HeldIn(x) = {} /\ History!MergedIn(x) = {} /\ PendingRises(x.pending)
  BY <1>7 DEF History!HeldIn, History!MergedIn, PendingRises
<1>10. History!Shown(x) = from..upto
  <2>1. ASSUME NEW k \in 1..Len(page) PROVE page[k] \in from..upto
    BY <1>2, <1>1
  <2>2. ASSUME NEW i \in from..upto PROVE i \in History!Shown(x)
    <3>1. i - (upto - m) \in 1..m
      BY <1>1
    <3>2. page[i - (upto - m)] = i
      BY <1>1, <1>2, <3>1
    <3> QED BY <1>2, <1>7, <3>1, <3>2 DEF History!Shown
  <2> QED BY <1>7, <2>1, <2>2 DEF History!Shown
<1> HIDE DEF m, from
<1>11. \A i, j \in 1..Len(page) : i < j => page[i] < page[j] /\ page[i] \in Nat
         /\ page[j] \in Nat
  BY <1>2, <1>1
<1>12. Known(x) /\ Distinct(x, {})
  BY <1>11, <1>6, <1>7, <1>10 DEF Known, Distinct
<1>13. Sorted(x)
  BY <1>7, <1>11, <1>6, <1>2, <1>1, <1>10, <1>9 DEF Rising, Sorted
<1>14. TurnIs(x)
  BY <1>7, <1>1, <1>3, <1>6, <1>9, <1>10 DEF TurnIs
<1>15. \A i \in 1..upto : i >= x.before => i \in History!Shown(x)
  BY <1>1, <1>6, <1>7, <1>10
<1> QED BY <1>7, <1>8, <1>9, <1>12, <1>13, <1>14, <1>15

LEMMA LoadApplyKeeps ==
    ASSUME HistoryInv, History!LoadApply
    PROVE  HistoryInv'
<1>1. PICK n, x, upto, M : n = Len(log) /\ x = History!LoadApplied(store, historyLoad.upto)
        /\ upto = historyLoad.upto /\ M = merged'
  OBVIOUS
<1>2. /\ historyLoad.at = "answered" /\ historyLoad' = History!NoLoad /\ historyRow' = upto
      /\ store' = x
      /\ historyMissed' =
          {i \in historyMissed \cup History!Shown(store) \cup History!HeldIn(store) :
              i > upto} \cup (upto + 1)..historyRow
      /\ UNCHANGED <<log, subscribed, historyFrames, historySelected, older, newer, merged,
          raced, selects, fails, historyConnects>>
  BY <1>1 DEF History!LoadApply, History!hostVars, History!bounds
<1>3. n \in Nat /\ log \in Seq(History!Kind) /\ upto \in 0..n /\ historyRow \in 0..n
        /\ store \in StoreOf(n)
      /\ 1..n \subseteq History!Event /\ historyMissed \subseteq History!Event
  BY <1>1, HistoryIs DEF LoadOf
<1>4. /\ x \in StoreOf(n) /\ Known(x) /\ Distinct(x, {}) /\ Sorted(x) /\ TurnIs(x)
      /\ History!HeldIn(x) = {} /\ History!MergedIn(x) = {}
      /\ x.there /\ x.loaded /\ x.pending = <<>> /\ ~x.loadingBefore /\ x.last = upto
      /\ x.real = 0
      /\ \A i \in 1..upto : i >= x.before => i \in History!Shown(x)
  BY <1>1, <1>3, LoadAppliedIs
<1>5. TypedStep(n)
  BY <1>3, StoreIs, <1>2, <1>1, HistoryIs DEF LoadOf, History!NoLoad, TypedStep
<1>6. HistoryFramesInOrder' /\ CallsInOrder'
  BY <1>2 DEF HistoryInv, HistoryFramesInOrder, CallsInOrder
<1>7. Distinct(x, M)
  BY <1>4, DistinctGrows
<1>8. ASSUME NEW i \in 1..n, Needed(i)' PROVE ReachedNext(x, i)
  <2>1. i >= x.before
    BY <1>2, <1>8 DEF Needed, History!NoLoad
  <2>2. CASE i <= upto
    BY <1>3, <2>2, <1>4, <2>1 DEF ReachedNext, Here
  <2>3. CASE i > upto
    <3>1. HistoryReached(i)
      BY <1>1, <1>2, <2>3, HistoryIs DEF Needed
    <3>2. Brought(i) => i \in historyMissed'
      BY <1>2, <2>3 DEF Brought
    <3>3. HistoryAskedFor(i) => HistoryAskedFor(i)'
      BY <1>2 DEF HistoryAskedFor
    <3>4. Beyond(i) /\ HistoryComing(i) => Beyond(i)' /\ HistoryComing(i)'
      BY <1>2, <1>4, <2>3 DEF Beyond, HistoryComing, AtSnapshot
    <3>5. HistoryTold(i) => i \in historyMissed'
      BY <1>2, <1>3, <2>3 DEF HistoryTold
    <3> QED BY <3>1, <3>2, <3>3, <3>4, <3>5 DEF HistoryReached, ReachedNext
  <2> QED BY <1>3, <2>2, <2>3
<1>9. log' = log /\ x = store' /\ History!MergedIn(x) \subseteq M
  BY <1>2, <1>4
<1> QED BY <1>1, <1>4, <1>5, <1>6, <1>7, <1>8, <1>9, QuietNext

\* What a page is waiting for, with a store that has what it had and more.
LEMMA FlushedReaches ==
    ASSUME NEW i, HistoryReached(i), NEW x, x = store', x.last = store.last,
             x.real = store.real,
           History!Shown(store) \subseteq History!Shown(x),
           historyMissed \cup {j \in History!HeldIn(store) :
               j \notin History!Shown(x)} \subseteq historyMissed',
           UNCHANGED <<newer, historyFrames, historyRow, historyLoad, historySelected>>
    PROVE  ReachedNext(x, i)
<1>1. Brought(i) => i \in Here(x) \cup historyMissed'
  BY DEF Brought, Here
<1>2. HistoryAskedFor(i) => HistoryAskedFor(i)'
  BY DEF HistoryAskedFor
<1>3. Beyond(i) /\ HistoryComing(i) => Beyond(i)' /\ HistoryComing(i)'
  BY DEF Beyond, HistoryComing, AtSnapshot
<1>4. HistoryTold(i) => HistoryTold(i)'
  BY DEF HistoryTold, AtSnapshot
<1> QED BY <1>1, <1>2, <1>3, <1>4 DEF HistoryReached, ReachedNext

LEMMA OlderApplyKeeps ==
    ASSUME HistoryInv, NEW b, History!OlderApply(b)
    PROVE  HistoryInv'
<1>1. PICK n, s, x, M, from : /\ n = Len(log) /\ s = History!OlderPage(store, b) /\ x = store'
                              /\ M = merged'
                              /\ from = History!MaxOf(1, b - PageSize)
  OBVIOUS
<1>2. /\ b \in older /\ older' = older \ {b} /\ x = History!Flushed(s)
      /\ raced' = (raced \/ (newer # {} /\ store.pending # <<>>) \/ b # store.before)
      /\ historyMissed' =
          historyMissed \cup b..(store.before - 1) \cup {i \in History!HeldIn(store) :
              i \notin History!Shown(x)}
      /\ UNCHANGED <<log, subscribed, historyFrames, historySelected, historyRow, historyLoad,
          newer, merged, selects, fails, historyConnects>>
  BY <1>1 DEF History!OlderApply, History!hostVars, History!bounds
<1>3. /\ n \in Nat /\ store \in StoreOf(n) /\ b \in 1..n /\ 1..n \subseteq History!Event
      /\ historyMissed \subseteq History!Event
  BY <1>1, <1>2, HistoryIs
<1>4. /\ Known(store) /\ Distinct(store, M) /\ History!MergedIn(store) \subseteq M
      /\ (~raced => Sorted(store) /\ TurnIs(store))
      /\ (store.loaded => store.there)
  BY <1>1, <1>2 DEF HistoryInv, Waits
<1>5. /\ s \in StoreOf(n) /\ HistoryKept(store, s) /\ ~s.loadingBefore
      /\ s.before = from /\ from \in 1..b
      /\ Known(s) /\ Distinct(s, M) /\ History!HeldIn(s) = History!HeldIn(store)
      /\ History!MergedIn(s) = History!MergedIn(store)
      /\ History!Shown(store) \subseteq History!Shown(s)
      /\ from..(b - 1) \subseteq History!Shown(s)
      /\ Sorted(store) /\ b = store.before => Sorted(s)
      /\ Sorted(store) /\ b = store.before /\ TurnIs(store) => TurnIs(s)
  BY <1>1, <1>3, <1>4, OlderPageIs
<1>6. /\ x \in StoreOf(n) /\ Same(s, x) /\ HistoryKept(s, x) /\ x.pending = <<>>
      /\ Known(x) /\ Distinct(x, M) /\ History!HeldIn(x) = {} /\ History!MergedIn(x) = {}
      /\ History!Shown(s) \subseteq History!Shown(x)
      /\ Sorted(s) => Sorted(x)
      /\ TurnIs(s) => TurnIs(x)
  BY <1>2, <1>3, <1>4, <1>5, FlushedIs
<1>7. /\ x.last = store.last /\ x.real = store.real /\ x.loaded = store.loaded
      /\ x.there = store.there
      /\ x.before = from /\ ~x.loadingBefore /\ History!Shown(store) \subseteq History!Shown(x)
      /\ from..(b - 1) \subseteq History!Shown(x)
  BY <1>5, <1>6 DEF HistoryKept, Same
<1>8. store.before \in 0..n /\ History!HeldIn(store) \subseteq 1..n
  BY <1>3, StoreIs
<1>9. TypedStep(n)
  BY <1>3, <1>8, <1>2, <1>1, HistoryIs DEF TypedStep
<1>10. HistoryFramesInOrder' /\ CallsInOrder'
  BY <1>2 DEF HistoryInv, HistoryFramesInOrder, CallsInOrder
<1>11. ~raced' => Sorted(x) /\ TurnIs(x)
  BY <1>2, <1>4, <1>5, <1>6
<1>12. ASSUME NEW i \in 1..n, Needed(i)' PROVE ReachedNext(x, i)
  <2>1. CASE Needed(i)
    BY <1>1, <2>1, HistoryIs, <1>2, <1>7, FlushedReaches
  <2>2. CASE ~Needed(i)
    BY <1>1, <1>2, <1>7, <1>12, <2>2, <1>3, <1>5, <1>8 DEF Needed, ReachedNext, Here
  <2> QED BY <2>1, <2>2
<1>13. log' = log /\ (x.loaded => x.there) /\ History!MergedIn(x) \subseteq M
  BY <1>2, <1>4, <1>6, <1>7
<1> QED BY <1>1, <1>6, <1>7, <1>9, <1>10, <1>11, <1>12, <1>13, QuietNext

LEMMA OlderFailsKeeps ==
    ASSUME HistoryInv, NEW b, History!OlderFails(b)
    PROVE  HistoryInv'
<1>1. PICK n, s, x, M : /\ n = Len(log) /\ s = [store EXCEPT !.loadingBefore = FALSE]
                        /\ x = store' /\ M = merged'
  OBVIOUS
<1>2. /\ older' = older \ {b} /\ x = History!Flushed(s) /\ fails < MaxFails
          /\ fails' = fails + 1
      /\ raced' = (raced \/ (newer # {} /\ store.pending # <<>>))
      /\ historyMissed' = historyMissed \cup {i \in History!HeldIn(store) :
          i \notin History!Shown(x)}
      /\ UNCHANGED <<log, subscribed, historyFrames, historySelected, historyRow, historyLoad,
          newer, merged, selects, historyConnects>>
  BY <1>1 DEF History!OlderFails, History!hostVars
<1>3. /\ n \in Nat /\ store \in StoreOf(n) /\ 1..n \subseteq History!Event
      /\ historyMissed \subseteq History!Event
  BY <1>1, HistoryIs
<1>4. /\ Known(store) /\ Distinct(store, M) /\ History!MergedIn(store) \subseteq M
      /\ (~raced => Sorted(store) /\ TurnIs(store))
      /\ (store.loaded => store.there)
  BY <1>1, <1>2 DEF HistoryInv, Waits
<1>5. s \in StoreOf(n) /\ Alike(store, s) /\ ~s.loadingBefore
  BY <1>1, <1>3, FlagsIs
<1>6. /\ History!Shown(s) = History!Shown(store) /\ History!HeldIn(s) = History!HeldIn(store)
      /\ History!MergedIn(s) = History!MergedIn(store)
      /\ Known(s) /\ Distinct(s, M)
      /\ (Sorted(store) => Sorted(s)) /\ (TurnIs(store) => TurnIs(s))
  BY <1>4, <1>5, AlikeIs
<1>7. /\ x \in StoreOf(n) /\ Same(s, x) /\ HistoryKept(s, x) /\ x.pending = <<>>
      /\ Known(x) /\ Distinct(x, M) /\ History!HeldIn(x) = {} /\ History!MergedIn(x) = {}
      /\ History!Shown(s) \subseteq History!Shown(x)
      /\ Sorted(s) => Sorted(x)
      /\ TurnIs(s) => TurnIs(x)
  BY <1>2, <1>3, <1>4, <1>5, <1>6, FlushedIs
<1>8. /\ x.last = store.last /\ x.real = store.real /\ x.loaded = store.loaded
      /\ x.there = store.there
      /\ x.before = store.before /\ ~x.loadingBefore
      /\ History!Shown(store) \subseteq History!Shown(x)
  BY <1>5, <1>6, <1>7 DEF HistoryKept, Same, Alike
<1>9. TypedStep(n)
  BY <1>2, <1>3, StoreIs, <1>1, HistoryIs, HistoryBounds DEF TypedStep
<1>10. HistoryFramesInOrder' /\ CallsInOrder'
  BY <1>2 DEF HistoryInv, HistoryFramesInOrder, CallsInOrder
<1>11. ~raced' => Sorted(x) /\ TurnIs(x)
  BY <1>2, <1>4, <1>6, <1>7
<1>12. ASSUME NEW i \in 1..n, Needed(i)' PROVE ReachedNext(x, i)
  BY <1>1, <1>2, <1>8, <1>12, HistoryIs, FlushedReaches DEF Needed
<1>13. log' = log /\ (x.loaded => x.there) /\ History!MergedIn(x) \subseteq M
  BY <1>2, <1>4, <1>7, <1>8
<1> QED BY <1>1, <1>7, <1>8, <1>9, <1>10, <1>11, <1>12, <1>13, QuietNext

LEMMA NewerApplyKeeps ==
    ASSUME HistoryInv, NEW c, History!NewerApply(c)
    PROVE  HistoryInv'
<1>1. PICK n, x, M : n = Len(log) /\ x = store' /\ M = merged'
  OBVIOUS
<1>2. /\ c \in newer /\ c.at = "answered" /\ newer' = (newer \ {c}) \cup History!NextPage(c)
      /\ \E above \in BOOLEAN : \E s : s = History!HandledAll(store, c.after, c.upto - c.after,
          above) /\
           x = IF History!NextPage(c) = {} THEN [s EXCEPT !.loadingAfter = FALSE] ELSE s
      /\ historyRow' = History!MaxOf(historyRow, c.upto)
      /\ historyMissed' = historyMissed \cup History!LeftBehind(c)
          \cup IF historySelected THEN {} ELSE (c.after + 1)..c.upto
      /\ M = merged \cup History!MergedIn(x)
      /\ raced' = (raced
          \/ (historySelected /\ (History!Cardinality(newer) > 1 \/ store.pending # <<>>
                                             \/ \E i \in History!Shown(store) : i > c.after)))
      /\ UNCHANGED <<log, subscribed, historyFrames, historySelected, historyLoad, older,
          selects, fails, historyConnects>>
  BY <1>1 DEF History!NewerApply, History!hostVars, History!bounds
<1>30. PICK above \in BOOLEAN :
          \E s : s = History!HandledAll(store, c.after, c.upto - c.after, above) /\
              x = IF History!NextPage(c) = {} THEN [s EXCEPT !.loadingAfter = FALSE] ELSE s
  BY <1>2
<1>3. PICK s : s = History!HandledAll(store, c.after, c.upto - c.after, above) /\
         x = IF History!NextPage(c) = {} THEN [s EXCEPT !.loadingAfter = FALSE] ELSE s
  BY <1>30
<1>4. /\ n \in Nat /\ log \in Seq(History!Kind) /\ store \in StoreOf(n)
      /\ historySelected \in BOOLEAN /\ historyRow \in 0..n
      /\ c \in BackfillOf(n) /\ 1..n \subseteq History!Event /\ merged \subseteq History!Event
      /\ historyMissed \subseteq History!Event
  BY <1>1, <1>2, HistoryIs
<1>5. /\ c.after \in 0..n /\ c.upto \in 0..n /\ c.selecting \in BOOLEAN /\ c.after <= c.upto
      /\ (c.more => c.after < c.upto)
  BY <1>2, <1>4 DEF HistoryInv, CallsInOrder, BackfillOf
<1>6. /\ Known(store) /\ Distinct(store, M) /\ (store.pending # <<>> => store.loadingBefore)
      /\ (~raced => Sorted(store) /\ TurnIs(store))
  BY <1>2, DistinctGrows DEF HistoryInv, Waits
<1>7. PICK m : m = c.upto - c.after
  OBVIOUS
<1>8. m \in Nat /\ c.after \in Nat /\ c.after + m <= Len(log) /\ c.after + m = c.upto
  BY <1>1, <1>4, <1>5, <1>7
<1>9. HistoryAfter(s, store, c.after, m, above, M)
  BY <1>1, <1>3, <1>4, <1>6, <1>7, <1>8, HandledAllIs
<1>10. /\ s \in StoreOf(n) /\ Same(store, s) /\ Known(s) /\ Distinct(s, M)
       /\ History!Shown(store) \subseteq History!Shown(s)
       /\ store.there => s.there
       /\ s.real <= store.real \/ s.real <= c.upto
       /\ s.last <= store.last \/ s.last <= c.upto
       /\ s.pending # <<>> => s.loadingBefore
       /\ historySelected => Here(s) = Here(store) \cup (c.after + 1)..c.upto
       /\ ~historySelected => /\ Here(s) = Here(store) /\ s.last = store.last
                              /\ Sorted(store) => Sorted(s)
                              /\ TurnIs(store) => TurnIs(s)
       /\ Sorted(store) /\ TurnIs(store) /\ (\A j \in Here(store) : j <= c.after)
           /\ store.pending = <<>>
            => Sorted(s) /\ TurnIs(s)
  BY <1>1, <1>8, <1>9 DEF HistoryAfter
<1>11. x \in StoreOf(n) /\ Alike(s, x) /\ x.loadingBefore = s.loadingBefore
  <2>1. CASE History!NextPage(c) = {}
    <3>1. s \in StoreOf(n) /\ x = [s EXCEPT !.loadingAfter = FALSE]
      BY <1>3, <1>10, <2>1
    <3> QED BY <3>1, FlagsIs
  <2>2. CASE History!NextPage(c) # {}
    BY <1>3, <1>10, <2>2 DEF Alike
  <2> QED BY <2>1, <2>2
<1>12. /\ History!Shown(x) = History!Shown(s) /\ History!HeldIn(x) = History!HeldIn(s)
       /\ History!MergedIn(x) = History!MergedIn(s) /\ Here(x) = Here(s)
       /\ Known(x) /\ Distinct(x, M) /\ (Sorted(s) => Sorted(x)) /\ (TurnIs(s) => TurnIs(x))
  BY <1>10, <1>11, AlikeIs
<1>13. /\ x.last \in Nat /\ store.last \in Nat /\ x.real \in Nat /\ store.real \in Nat
       /\ Here(store) \subseteq 1..n
  BY <1>4, <1>11, StoreIs DEF Here
<1>14. /\ x.loaded = store.loaded /\ x.before = store.before /\ (store.there => x.there)
       /\ x.loadingBefore = store.loadingBefore /\ (x.pending # <<>> => x.loadingBefore)
       /\ (x.real <= store.real \/ x.real <= c.upto)
           /\ (x.last <= store.last \/ x.last <= c.upto)
       /\ (~historySelected => x.last = store.last)
  BY <1>10, <1>11 DEF Alike, Same
<1>15. /\ \A d \in History!NextPage(c) : d \in BackfillOf(n) /\ d.after = c.upto /\ d.at = "asked"
       /\ c.more => History!LeftBehind(c) = (c.upto + 1)..n \/ \E d \in History!NextPage(c) : TRUE
       /\ History!LeftBehind(c) = {} \/ History!LeftBehind(c) = (c.upto + 1)..n
       /\ History!LeftBehind(c) \subseteq History!Event
  <2>1. c.page \in 1..MaxPages /\ (c.page < MaxPages => c.page + 1 \in 1..MaxPages)
    BY <1>4, HistoryBounds DEF BackfillOf
  <2>2. /\ History!LeftBehind(c) = {} \/ History!LeftBehind(c) = (c.upto + 1)..n
        /\ c.more /\ c.page = MaxPages => History!LeftBehind(c) = (c.upto + 1)..n
    BY <1>1 DEF History!LeftBehind
  <2>3. CASE c.page = MaxPages
    BY <1>4, <1>5, <2>2, <2>3, HistoryBounds DEF History!NextPage
  <2>4. CASE c.page # MaxPages
    <3>1. c.page < MaxPages
      BY <2>1, <2>4, HistoryBounds
    <3>2. History!NextPage(c) =
            IF c.more THEN {History!BackfillPage(c.upto, c.selecting, c.page + 1)} ELSE {}
      BY <1>5, <3>1 DEF History!NextPage
    <3> QED
      BY <1>4, <1>5, <2>1, <2>2, <3>1, <3>2, BackfillIs
  <2> QED BY <2>3, <2>4
<1>16. TypedStep(n)
  <2>1. (c.after + 1)..c.upto \subseteq History!Event
    BY <1>4, <1>5
  <2>2. historyMissed' \subseteq History!Event
    BY <1>2, <1>4, <1>15, <2>1
  <2> QED
    BY <1>2, <1>4, <1>5, <1>11, MergedHeld, <1>1, <1>15, <2>2, HistoryIs DEF History!MaxOf, TypedStep
<1>17. HistoryFramesInOrder'
  BY <1>2 DEF HistoryInv, HistoryFramesInOrder
<1>18. CallsInOrder'
  BY <1>2, <1>15 DEF HistoryInv, CallsInOrder
<1>19. (x.loaded => x.there) /\ (x.loadingBefore => x.before \in older')
  BY <1>2, <1>14 DEF HistoryInv, Waits
<1>20. ASSUME ~raced' PROVE Sorted(x) /\ TurnIs(x)
  <2>1. Sorted(store) /\ TurnIs(store)
    BY <1>2, <1>6, <1>20
  <2>2. CASE ~historySelected
    BY <1>10, <1>12, <2>1, <2>2
  <2>3. CASE historySelected
    <3>1. store.pending = <<>> /\ ~\E i \in History!Shown(store) : i > c.after
      BY <1>2, <1>20, <2>3
    <3>2. History!HeldIn(store) = {}
      BY <3>1 DEF History!HeldIn
    <3>3. \A j \in Here(store) : j <= c.after
      BY <1>5, <1>13, <3>1, <3>2 DEF Here
    <3> QED BY <1>10, <1>12, <2>1, <3>1, <3>3
  <2> QED BY <1>4, <2>2, <2>3
<1>21. ASSUME NEW i \in 1..n, Needed(i)' PROVE ReachedNext(x, i)
  <2>1. Needed(i)
    BY <1>1, <1>2, <1>14, <1>21 DEF Needed
  <2>2. HistoryReached(i)
    BY <1>1, <2>1, HistoryIs
  <2>3. Here(store) \subseteq Here(x) /\ historyMissed \subseteq historyMissed'
    BY <1>2, <1>4, <1>10, <1>12
  <2>4. ASSUME i \in (c.after + 1)..c.upto PROVE i \in Here(x) \cup historyMissed'
    BY <1>2, <1>4, <1>10, <1>12, <2>4
  <2>5. Brought(i) => i \in Here(x) \cup historyMissed'
    BY <2>3 DEF Brought, Here
  <2>6. ASSUME HistoryAskedFor(i) PROVE ReachedNext(x, i)
    <3>1. PICK d \in newer : d.after < i /\ (d.at = "asked" \/ d.more \/ i <= d.upto)
      BY <2>6 DEF HistoryAskedFor
    <3>2. CASE d # c
      BY <1>2, <3>1, <3>2 DEF HistoryAskedFor, ReachedNext
    <3>3. CASE i <= c.upto /\ d = c
      BY <1>5, <2>4, <3>1, <3>3 DEF ReachedNext
    <3>4. CASE c.upto < i /\ d = c
      <4>1. c.more
        BY <1>2, <1>5, <3>1, <3>4
      <4>2. CASE \E e \in History!NextPage(c) : TRUE
        BY <1>2, <1>15, <3>4, <4>2 DEF HistoryAskedFor, ReachedNext
      <4>3. CASE History!LeftBehind(c) = (c.upto + 1)..n
        BY <1>2, <1>4, <1>5, <3>4, <4>3 DEF ReachedNext
      <4> QED BY <1>15, <4>1, <4>2, <4>3
    <3> QED BY <1>5, <3>2, <3>3, <3>4
  <2>7. ASSUME Beyond(i), HistoryComing(i) PROVE ReachedNext(x, i)
    <3>1. i > c.after
      BY <1>2, <2>7 DEF Beyond
    <3>2. CASE i <= c.upto
      BY <1>5, <3>1, <3>2, <2>4 DEF ReachedNext
    <3>3. CASE c.upto < i
      <4>1. i > x.last /\ i > x.real
        BY <1>5, <1>13, <1>14, <2>7, <3>3 DEF Beyond
      <4>2. \A d \in newer' : i > d.after
        BY <1>2, <1>15, <2>7, <3>3 DEF Beyond
      <4>3. Beyond(i)'
        BY <1>1, <4>1, <4>2 DEF Beyond
      <4>4. HistoryComing(i)'
        BY <1>2, <2>7 DEF HistoryComing, AtSnapshot
      <4> QED BY <4>3, <4>4 DEF ReachedNext
    <3> QED BY <1>5, <3>2, <3>3
  <2>8. HistoryTold(i) => HistoryTold(i)'
    BY <1>2, <1>4, <1>5 DEF HistoryTold, AtSnapshot, History!MaxOf
  <2>9. ASSUME HistoryTold(i), historyLoad.at = "answered"
          \/ (~historySelected /\ i > store.last) PROVE ReachedNext(x, i)
    BY <1>2, <1>14, <2>8, <2>9 DEF ReachedNext
  <2> QED BY <2>2, <2>5, <2>6, <2>7, <2>9 DEF HistoryReached, ReachedNext
<1>22. History!MergedIn(x) \subseteq M /\ log' = log
  BY <1>2
<1> QED BY <1>1, <1>11, <1>12, <1>14, <1>16, <1>17, <1>18, <1>19, <1>20, <1>21, <1>22, QuietNext

LEMMA HistoryBegins ==
    ASSUME History!Init
    PROVE  HistoryInv
<1>1. /\ log = <<>> /\ Len(log) = 0 /\ historyFrames = <<>> /\ Len(historyFrames) = 0
      /\ historyRow = 0 /\ store = History!NoStore
      /\ historyLoad = History!NoLoad /\ older = {} /\ newer = {} /\ historyMissed = {}
      /\ merged = {} /\ raced = FALSE
      /\ subscribed = FALSE /\ historySelected = FALSE /\ selects = 0 /\ fails = 0
      /\ historyConnects = 0
  BY DEF History!Init
<1>2. /\ store.events = <<>> /\ store.seen = {} /\ store.pending = <<>> /\ store.before = 0
      /\ store.turn = 0
      /\ ~store.loaded /\ ~store.loadingBefore
  BY <1>1 DEF History!NoStore
<1>3. store \in StoreOf(0)
  BY <1>1 DEF History!NoStore, StoreOf
<1>4. HistoryTyped
  <2>1. historyFrames \in Seq(FrameOf(0)) /\ log \in Seq(History!Kind)
    BY <1>1
  <2>2. historyLoad \in LoadOf(0)
    BY <1>1 DEF LoadOf, History!NoLoad
  <2>3. /\ Len(log) <= MaxEvents /\ historyRow \in 0..Len(log) /\ store \in StoreOf(Len(log))
        /\ 0 \in 0..MaxSelects /\ 0 \in 0..MaxFails /\ 0 \in 0..MaxConnects
    BY <1>1, <1>3, HistoryBounds
  <2>4. historyFrames \in Seq(FrameOf(Len(log))) /\ historyLoad \in LoadOf(Len(log))
    BY <1>1, <2>1, <2>2
  <2>5. /\ older \subseteq 1..Len(log) /\ newer \subseteq BackfillOf(Len(log))
        /\ historyMissed \subseteq History!Event /\ merged \subseteq History!Event
    BY <1>1
  <2>6. selects \in 0..MaxSelects /\ fails \in 0..MaxFails /\ historyConnects \in 0..MaxConnects
    BY <1>1, <2>3
  <2>7. raced \in BOOLEAN /\ subscribed \in BOOLEAN /\ historySelected \in BOOLEAN
    BY <1>1
  <2> QED BY <2>1, <2>3, <2>4, <2>5, <2>6, <2>7 DEF HistoryTyped
<1>5. HistoryFramesInOrder /\ CallsInOrder /\ Waits
  BY <1>1, <1>2 DEF HistoryFramesInOrder, CallsInOrder, Waits
<1>6. History!Shown(store) = {} /\ History!HeldIn(store) = {} /\ History!MergedIn(store) = {}
  BY <1>2 DEF History!Shown, History!HeldIn, History!MergedIn
<1>7. Known(store) /\ Distinct(store, merged) /\ Sorted(store) /\ TurnIs(store)
  BY <1>2, <1>6 DEF Known, Distinct, Sorted, TurnIs, Rising, PendingRises
<1>8. AllReached
  BY <1>1 DEF AllReached
<1> QED BY <1>4, <1>5, <1>6, <1>7, <1>8 DEF HistoryInv

LEMMA StutterKeeps ==
    ASSUME HistoryInv, UNCHANGED History!vars
    PROVE  HistoryInv'
<1>1. PICK n, x : n = Len(log) /\ x = store
  OBVIOUS
<1>2. /\ UNCHANGED <<log, subscribed, historyFrames, historySelected, historyRow, store,
          historyLoad, older, newer>>
      /\ UNCHANGED <<historyMissed, merged, raced>>
      /\ UNCHANGED <<selects, fails, historyConnects>>
  BY DEF History!vars, History!hostVars, History!historyVars, History!bounds
<1>3. TypedStep(n) /\ x \in StoreOf(n) /\ Alike(store, x)
  BY <1>1, <1>2, HistoryIs DEF TypedStep, Alike
<1>4. HistoryFramesInOrder' /\ CallsInOrder'
  BY <1>2 DEF HistoryInv, HistoryFramesInOrder, CallsInOrder
<1>5. (x.pending # <<>> => x.loadingBefore) /\ (x.loadingBefore => x.before \in older')
  BY <1>1, <1>2 DEF HistoryInv, Waits
<1>6. ASSUME NEW i \in 1..n, Needed(i)' PROVE ReachedNext(x, i)
  BY <1>2, <1>6, <1>1, HistoryIs, ReachedStays DEF Needed
<1> QED BY <1>1, <1>2, <1>3, <1>4, <1>5, <1>6, AlikeNext

LEMMA HistoryKeeps ==
    ASSUME HistoryInv, [History!Next]_History!vars
    PROVE  HistoryInv'
<1>1. CASE \E kind \in History!Kind : History!Store(kind)
  BY <1>1, StoreKeeps
<1>2. CASE History!Post \/ History!Reconnect \/ History!Receive \/ History!Snapshot
        \/ History!Select \/ History!Leave
  BY <1>2, PostKeeps, ReconnectKeeps, HistoryReceiveKeeps, SnapshotKeeps, SelectKeeps,
      LeaveKeeps
<1>3. CASE History!LoadAnswered \/ History!LoadFails \/ History!LoadApply \/ History!OlderAsk
  BY <1>3, LoadAnsweredKeeps, LoadFailsKeeps, LoadApplyKeeps, OlderAskKeeps
<1>4. CASE \E b \in older : History!OlderApply(b) \/ History!OlderFails(b)
  BY <1>4, OlderApplyKeeps, OlderFailsKeeps
<1>5. CASE \E c \in newer : History!NewerAnswered(c) \/ History!NewerApply(c)
        \/ History!NewerFails(c)
  BY <1>5, NewerAnsweredKeeps, NewerApplyKeeps, NewerFailsKeeps
<1>6. CASE UNCHANGED History!vars
  BY <1>6, StutterKeeps
<1> QED BY <1>1, <1>2, <1>3, <1>4, <1>5, <1>6 DEF History!Next

LEMMA HistoryFollows ==
    ASSUME HistoryInv
    PROVE  History!TypeOK /\ History!Once /\ History!NoGap /\ History!InOrder
             /\ History!TurnShown
<1>1. PICK n, s : n = Len(log) /\ s = store
  OBVIOUS
<1>2. /\ n \in Nat /\ n <= MaxEvents /\ log \in Seq(History!Kind)
          /\ 1..n \subseteq History!Event /\ store \in StoreOf(n)
      /\ historyFrames \in Seq(FrameOf(n)) /\ historyRow \in 0..n /\ historyLoad \in LoadOf(n)
      /\ older \subseteq 1..n
      /\ newer \subseteq BackfillOf(n) /\ historyMissed \subseteq History!Event
      /\ merged \subseteq History!Event
      /\ raced \in BOOLEAN /\ subscribed \in BOOLEAN /\ historySelected \in BOOLEAN
      /\ selects \in 0..MaxSelects /\ fails \in 0..MaxFails
          /\ historyConnects \in 0..MaxConnects
      /\ \A i \in 1..n : Needed(i) => HistoryReached(i)
  BY <1>1, HistoryIs
<1>3. /\ Known(store) /\ Distinct(store, merged) /\ (~raced => Sorted(store) /\ TurnIs(store))
      /\ Waits
  BY DEF HistoryInv
<1>4. History!TypeOK
  <2>1. \A i \in 1..Len(historyFrames) : historyFrames[i][1] \in {"event", "snapshot"}
          /\ historyFrames[i][2] \in 0..MaxEvents
    BY <1>2, HistoryBounds DEF FrameOf
  <2>2. DOMAIN store = DOMAIN History!NoStore
    BY <1>2 DEF StoreOf, History!NoStore
  <2>3. /\ store.events \in Seq(1..n) /\ store.seen \subseteq History!Event
        /\ {store.last, store.real, store.before, store.turn} \subseteq 0..n
    BY <1>2, StoreIs
  <2>4. store.events \in Seq(History!Event)
    BY <1>2, <2>3, SeqGrows
  <2>5. 0..n \subseteq 0..MaxEvents
    BY <1>2, HistoryBounds
  <2>6. store.seen \subseteq {store.events[i] : i \in 1..Len(store.events)}
    BY <1>3 DEF Known, History!Shown
  <2>7. historyLoad \in [at : {"none", "asked", "answered"}, upto : 0..MaxEvents]
    BY <1>2, <2>5 DEF LoadOf
  <2>8. newer \subseteq [after : 0..MaxEvents, at : {"asked", "answered"}, upto : 0..MaxEvents,
                         more : BOOLEAN, selecting : BOOLEAN, page : 1..MaxPages]
    BY <1>2, <2>5 DEF BackfillOf
  <2> QED BY <1>1, <1>2, <2>1, <2>2, <2>3, <2>4, <2>5, <2>6, <2>7, <2>8 DEF History!TypeOK
<1>5. History!Once
  BY <1>3 DEF History!Once, Distinct
<1>6. History!InOrder
  BY <1>3 DEF History!InOrder, Sorted, Rising
<1>7. ASSUME History!Settled, NEW i \in 1..n, i >= store.before
        PROVE i \in History!Shown(store) \cup historyMissed
  <2>1. Needed(i)
    BY <1>7 DEF History!Settled, History!NoLoad, Needed
  <2>2. HistoryReached(i)
    BY <1>2, <2>1
  <2>3. ~AtSnapshot /\ ~HistoryComing(i) /\ ~HistoryAskedFor(i)
    BY <1>7 DEF History!Settled, AtSnapshot, HistoryComing, HistoryAskedFor
  <2>4. Brought(i)
    BY <1>7, <2>2, <2>3 DEF HistoryReached, History!Settled, History!NoLoad
  <2>5. History!HeldIn(store) = {}
    BY <1>3, <1>7 DEF Waits, History!Settled, History!HeldIn
  <2> QED BY <2>4, <2>5 DEF Brought
<1>8. store.before \in 0..n /\ store.turn \in 0..n /\ History!Shown(store) \subseteq 1..n
  BY <1>2, StoreIs
<1>9. History!NoGap
  BY <1>1, <1>2, <1>8, <1>7 DEF History!NoGap, History!MaxOf
<1>10. History!TurnShown
  <2> SUFFICES ASSUME History!Settled, ~raced, historyMissed = {}, store.turn # 0
        PROVE store.turn = History!TurnIn(1, Len(log))
    BY DEF History!TurnShown
  <2>1. PICK t : t = store.turn
    OBVIOUS
  <2>2. /\ t \in 1..n /\ log[t] = "start" /\ store.before <= t
        /\ \A i \in History!Shown(store) \cup History!HeldIn(store) : i > t => log[i] = "text"
    BY <1>1, <1>3, <1>8, <2>1 DEF TurnIs
  <2>3. \A i \in 1..n : i > t => log[i] = "text"
    BY <1>8, <2>2, <1>7
  <2> DEFINE marks == {i \in 1..Len(log) : log[i] # "text"}
             latest == {i \in marks : \A j \in marks : j <= i}
  <2>4. t \in marks /\ \A j \in marks : j <= t
    BY <1>1, <1>2, <2>2, <2>3
  <2>5. t \in latest /\ \A i \in latest : i = t
    BY <2>4, <1>1, <1>2, <2>2
  <2>6. History!TurnIn(1, Len(log)) = IF \E i \in latest : log[i] = "start"
          THEN CHOOSE i \in latest : TRUE ELSE 0
    BY DEF History!TurnIn
  <2> HIDE DEF latest
  <2>7. (CHOOSE i \in latest : TRUE) \in latest
    BY <2>5
  <2> QED BY <2>1, <2>2, <2>5, <2>6, <2>7
<1> QED BY <1>4, <1>5, <1>6, <1>9, <1>10

-----------------------------------------------------------------------------
(* The output of the tools, and the reasoning.                             *)

OutputOf(n) ==
    [texts : Seq(1..n), loaded : BOOLEAN, loading : BOOLEAN, more : BOOLEAN, before : 0..n]
CallOf(n) == [at : {"none", "asked", "answered"}, before : 0..n, upto : 0..n]
ReasoningOf(n) ==
    [loading : BOOLEAN, loaded : BOOLEAN, loadingBody : BOOLEAN, bodyLoaded : BOOLEAN,
     pieces : 0..n, bodies : BOOLEAN]
AnswerOf(n) == [at : {"none", "asked", "answered"}, pieces : 0..n]

OutputTyped ==
    /\ stored \in 0..MaxTexts /\ outputFrames \in Seq(1..stored) /\ outputSelected \in BOOLEAN
    /\ output \in OutputOf(stored) /\ call \in CallOf(stored)
    /\ again \subseteq Outputs!Text /\ outputMissed \subseteq Outputs!Text
    /\ leaves \in 0..MaxLeaves

\* The stream of a page that has the session ends with the newest text.
StreamEnds == outputSelected => \A k \in 1..Len(outputFrames) :
    outputFrames[k] = stored - Len(outputFrames) + k

Streamed == {outputFrames[k] : k \in 1..Len(outputFrames)}
Somewhere(i) == i \in Outputs!Shown \/ i \in outputMissed \/ i \in Streamed

\* The page has nothing before it has loaded; an older page is asked for from the
\* oldest text that there is; what came after the answer is on its way or there.
CallFits ==
    /\ output.loading = (call.at # "none")
    /\ ~output.loaded => output.texts = <<>> /\ ~output.more /\ output.before = 0
    /\ output.more => output.before > 0
    /\ call.before > 0 => output.loaded /\ output.more /\ call.before = output.before
    /\ call.at = "answered" /\ call.before > 0 => call.upto = call.before - 1
    /\ call.at = "answered" /\ call.before = 0 => \A i \in (call.upto + 1)..stored :
        Somewhere(i)

NoneLeftOut ==
    output.loaded => \A i \in (IF output.more THEN output.before ELSE 1)..stored : Somewhere(i)

TextsRise(o) ==
    /\ \A i, j \in 1..Len(o.texts) : i < j => o.texts[i] < o.texts[j]
    /\ o.before > 0 => o.texts # <<>> /\ \A i \in 1..Len(o.texts) : o.before <= o.texts[i]

OutputInv ==
    OutputTyped /\ StreamEnds /\ CallFits /\ NoneLeftOut /\ (again = {} => TextsRise(output))

ReasoningTyped ==
    /\ pieces \in 0..MaxPieces /\ turn \in {"runs", "over", "ended"} /\ early \in BOOLEAN
    /\ reasoning \in ReasoningOf(pieces) /\ meta \in AnswerOf(pieces)
        /\ body \in AnswerOf(pieces)

\* A turn that was opened when it was over has got all its pieces.
ReasoningInv ==
    /\ ReasoningTyped
    /\ reasoning.loading = (meta.at # "none") /\ reasoning.loadingBody = (body.at # "none")
    /\ reasoning.pieces > 0 => reasoning.loaded
    /\ ~early =>
         /\ reasoning.loaded \/ meta.at # "none" \/ body.at # "none" => turn = "ended"
         /\ reasoning.loaded => reasoning.pieces = pieces
         /\ meta.at = "answered" => meta.pieces = pieces
         /\ body.at = "answered" => body.pieces = pieces

LEMMA OutputIs ==
    ASSUME OutputInv, NEW n, n = stored
    PROVE  /\ n \in Nat /\ n <= MaxTexts /\ outputFrames \in Seq(1..n)
           /\ Len(outputFrames) \in Nat /\ outputSelected \in BOOLEAN
           /\ output \in OutputOf(n) /\ output.texts \in Seq(1..n) /\ Len(output.texts) \in Nat
           /\ output.before \in 0..n /\ output.loaded \in BOOLEAN /\ output.loading \in BOOLEAN
           /\ output.more \in BOOLEAN
           /\ call \in CallOf(n) /\ call.upto \in 0..n /\ call.before \in 0..n
           /\ call.at \in {"none", "asked", "answered"}
           /\ again \subseteq Outputs!Text /\ outputMissed \subseteq Outputs!Text
           /\ leaves \in 0..MaxLeaves
           /\ 1..n \subseteq Outputs!Text /\ Outputs!Shown \subseteq 1..n
           /\ Streamed \subseteq 1..n
<1>1. /\ n \in Nat /\ n <= MaxTexts /\ outputFrames \in Seq(1..n) /\ outputSelected \in BOOLEAN
      /\ output \in OutputOf(n) /\ call \in CallOf(n)
      /\ again \subseteq Outputs!Text /\ outputMissed \subseteq Outputs!Text
      /\ leaves \in 0..MaxLeaves
  BY OutputBounds DEF OutputInv, OutputTyped
<1>2. /\ output.texts \in Seq(1..n) /\ output.before \in 0..n /\ output.loaded \in BOOLEAN
      /\ output.loading \in BOOLEAN /\ output.more \in BOOLEAN
  BY <1>1 DEF OutputOf
<1>3. call.upto \in 0..n /\ call.before \in 0..n /\ call.at \in {"none", "asked", "answered"}
  BY <1>1 DEF CallOf
<1>4. 1..n \subseteq Outputs!Text
  BY <1>1, OutputBounds DEF Outputs!Text
<1>5. Len(output.texts) \in Nat /\ \A i \in 1..Len(output.texts) : output.texts[i] \in 1..n
  BY <1>1, <1>2
<1>6. Streamed \subseteq 1..n
  BY <1>1 DEF Streamed
<1> QED BY <1>1, <1>2, <1>3, <1>4, <1>5, <1>6 DEF Outputs!Shown

\* A step that leaves the texts and the stream alone: what is somewhere stays there.
LEMMA OutputNext ==
    ASSUME NEW n, n = stored', n \in Nat, n <= MaxTexts, NEW o, o = output', o \in OutputOf(n),
           NEW c, c = call', c \in CallOf(n), outputFrames' \in Seq(1..n),
               outputSelected' \in BOOLEAN,
           again' \subseteq Outputs!Text, outputMissed' \subseteq Outputs!Text,
               leaves' \in 0..MaxLeaves,
           StreamEnds', CallFits', NoneLeftOut', again' = {} => TextsRise(o)
    PROVE  OutputInv'
<1>1. OutputTyped'
  BY OutputBounds DEF OutputTyped
<1>2. TextsRise(o) => TextsRise(output)'
  OBVIOUS
<1> QED BY <1>1, <1>2 DEF OutputInv

LEMMA OutputStays ==
    ASSUME OutputInv, UNCHANGED Outputs!outputVars
    PROVE  OutputInv'
<1>1. PICK n, o, c : n = stored /\ o = output /\ c = call
  OBVIOUS
<1>2. UNCHANGED <<stored, outputFrames, outputSelected, output, call, again, outputMissed,
        leaves>>
  BY DEF Outputs!outputVars
<1>3. /\ n = stored' /\ o = output' /\ c = call'
      /\ UNCHANGED <<Outputs!Shown, Streamed>>
  BY <1>1, <1>2 DEF Outputs!Shown, Streamed
<1>4. \A i : Somewhere(i) => Somewhere(i)'
  BY <1>2, <1>3 DEF Somewhere
<1>5. StreamEnds' /\ CallFits' /\ NoneLeftOut'
  BY <1>2, <1>4 DEF OutputInv, StreamEnds, CallFits, NoneLeftOut
<1>6. again' = {} => TextsRise(o)
  BY <1>1, <1>2 DEF OutputInv
<1> QED BY <1>1, <1>2, <1>3, <1>5, <1>6, OutputIs, OutputNext

LEMMA OutputBegins ==
    ASSUME Outputs!Init
    PROVE  OutputInv
<1>1. /\ stored = 0 /\ outputFrames = <<>> /\ Len(outputFrames) = 0 /\ outputSelected = TRUE
      /\ output = Outputs!NoOutput /\ call = Outputs!NoCall
      /\ again = {} /\ outputMissed = {} /\ leaves = 0
  BY DEF Outputs!Init
<1>2. /\ output.texts = <<>> /\ Len(output.texts) = 0 /\ ~output.loaded /\ ~output.loading
      /\ ~output.more
      /\ output.before = 0
  BY <1>1 DEF Outputs!NoOutput
<1>3. call.at = "none" /\ call.before = 0 /\ call.upto = 0
  BY <1>1 DEF Outputs!NoCall
<1>4. output \in OutputOf(0)
  BY <1>1 DEF Outputs!NoOutput, OutputOf
<1>5. call \in CallOf(0)
  BY <1>1 DEF Outputs!NoCall, CallOf
<1>6. OutputTyped
  BY OutputBounds, <1>1, <1>4, <1>5 DEF OutputTyped
<1>7. StreamEnds
  BY <1>1 DEF StreamEnds
<1>9. CallFits
  <2>1. output.loading = (call.at # "none")
    BY <1>1, <1>3 DEF Outputs!NoOutput
  <2> QED BY <1>2, <1>3, <2>1 DEF CallFits
<1>10. NoneLeftOut
  BY <1>2 DEF NoneLeftOut
<1>8. TextsRise(output)
  BY <1>2 DEF TextsRise
<1> QED BY <1>6, <1>7, <1>8, <1>9, <1>10 DEF OutputInv

LEMMA WriteKeeps ==
    ASSUME OutputInv, Outputs!Write
    PROVE  OutputInv'
<1>1. PICK n, o, c : n = stored /\ o = output /\ c = call
  OBVIOUS
<1>2. /\ n + 1 <= MaxTexts /\ stored' = n + 1
      /\ outputFrames' = (IF outputSelected THEN Append(outputFrames, n + 1) ELSE outputFrames)
      /\ outputMissed' = (IF outputSelected THEN outputMissed ELSE outputMissed \cup {n + 1})
      /\ UNCHANGED <<outputSelected, output, call, again, leaves>>
  BY <1>1 DEF Outputs!Write
<1>3. /\ n \in Nat /\ outputFrames \in Seq(1..n) /\ Len(outputFrames) \in Nat
      /\ outputSelected \in BOOLEAN
      /\ o \in OutputOf(n) /\ c \in CallOf(n) /\ again \subseteq Outputs!Text
      /\ outputMissed \subseteq Outputs!Text /\ leaves \in 0..MaxLeaves
      /\ c.upto \in 0..n /\ o.before \in 0..n
  BY <1>1, OutputIs
<1>4. /\ 1..n \subseteq 1..(n + 1) /\ 0..n \subseteq 0..(n + 1) /\ n + 1 \in 1..(n + 1)
      /\ n + 1 \in Outputs!Text
  BY <1>2, <1>3, OutputBounds DEF Outputs!Text
<1>5. o \in OutputOf(n + 1) /\ c \in CallOf(n + 1)
  BY <1>3, <1>4 DEF OutputOf, CallOf
<1>6. outputFrames \in Seq(1..(n + 1))
  BY <1>3, <1>4
<1>7. Append(outputFrames, n + 1) \in Seq(1..(n + 1))
  BY <1>4, <1>6
<1>8. outputFrames' \in Seq(1..(n + 1)) /\ outputMissed' \subseteq Outputs!Text
  BY <1>2, <1>3, <1>4, <1>6, <1>7
<1>9. \A x \in 1..(n + 1) : Append(outputFrames, n + 1)[x] = (IF x <= Len(outputFrames)
        THEN outputFrames[x] ELSE n + 1) \/ x > Len(outputFrames) + 1
  BY <1>3
<1>10. StreamEnds'
  <2> SUFFICES ASSUME outputSelected, NEW k \in 1..Len(outputFrames')
        PROVE outputFrames'[k] = (n + 1) - Len(outputFrames') + k
    BY <1>2 DEF StreamEnds
  <2> DEFINE q == Append(outputFrames, n + 1)
  <2>1. Len(q) = Len(outputFrames) + 1 /\ q[Len(outputFrames) + 1] = n + 1
          /\ \A x \in 1..Len(outputFrames) : q[x] = outputFrames[x]
    BY <1>3
  <2>2. \A x \in 1..Len(outputFrames) : outputFrames[x] = n - Len(outputFrames) + x
    BY <1>1 DEF OutputInv, StreamEnds
  <2>3. outputFrames' = q
    BY <1>2
  <2> HIDE DEF q
  <2>4. Len(outputFrames') = Len(outputFrames) + 1 /\ outputFrames'[k] = q[k]
    BY <2>1, <2>3
  <2>5. k \in 1..Len(outputFrames) \/ k = Len(outputFrames) + 1
    BY <1>3, <2>4
  <2>6. CASE k \in 1..Len(outputFrames)
    BY <2>1, <2>2, <2>6, <1>3, <2>4
  <2>7. CASE k = Len(outputFrames) + 1
    BY <1>3, <2>1, <2>4, <2>7
  <2> QED BY <2>5, <2>6, <2>7
<1>11. Outputs!Shown' = Outputs!Shown
  BY <1>2 DEF Outputs!Shown
<1>12. \A i : Somewhere(i) => Somewhere(i)'
  BY <1>2, <1>3, <1>11 DEF Streamed, Somewhere
<1>13. Somewhere(n + 1)'
  BY <1>2, <1>3 DEF Streamed, Somewhere
<1>14. \A i : i \in 1..n \/ i = n + 1 \/ i \notin 1..(n + 1)
  BY <1>3
<1>15. CallFits'
  BY <1>3, <1>1, <1>12, <1>13, <1>2 DEF OutputInv, CallFits
<1>16. NoneLeftOut'
  BY <1>1, <1>2, <1>3, <1>12, <1>13 DEF NoneLeftOut, OutputInv
<1>17. again' = {} => TextsRise(o)
  BY <1>1, <1>2 DEF OutputInv
<1>18. /\ n + 1 = stored' /\ n + 1 \in Nat /\ o = output' /\ c = call'
       /\ outputSelected' \in BOOLEAN
       /\ again' \subseteq Outputs!Text /\ leaves' \in 0..MaxLeaves
  BY <1>1, <1>2, <1>3
<1> QED BY <1>2, <1>5, <1>8, <1>10, <1>15, <1>16, <1>17, <1>18, OutputNext

LEMMA LeaveKeepsOutput ==
    ASSUME OutputInv, Outputs!Leave
    PROVE  OutputInv'
<1>1. PICK n, o, c : n = stored /\ o = output /\ c = call
  OBVIOUS
<1>2. /\ outputSelected' = FALSE /\ leaves < MaxLeaves /\ leaves' = leaves + 1
      /\ UNCHANGED <<stored, outputFrames, output, call, again, outputMissed>>
  BY DEF Outputs!Leave
<1>3. UNCHANGED <<Outputs!Shown, Streamed>>
  BY <1>2 DEF Outputs!Shown, Streamed
<1>4. \A i : Somewhere(i) => Somewhere(i)'
  BY <1>2, <1>3 DEF Somewhere
<1>5. StreamEnds' /\ CallFits' /\ NoneLeftOut'
  BY <1>2, <1>4 DEF OutputInv, StreamEnds, CallFits, NoneLeftOut
<1>6. again' = {} => TextsRise(o)
  BY <1>1, <1>2 DEF OutputInv
<1>7. leaves' \in 0..MaxLeaves
  BY OutputIs, <1>2, OutputBounds
<1> QED BY <1>1, <1>2, <1>5, <1>6, <1>7, OutputIs, OutputNext

LEMMA ReturnKeeps ==
    ASSUME OutputInv, Outputs!Return
    PROVE  OutputInv'
<1>1. PICK n, o, c : n = stored /\ o = output /\ c = call
  OBVIOUS
<1>2. /\ outputFrames = <<>> /\ outputSelected' = TRUE
      /\ UNCHANGED <<stored, output, call, again, outputMissed, leaves>>
      /\ \E from \in 1..(n + 1) : outputFrames' = [k \in 1..(n + 1 - from) |-> from + k - 1]
  BY <1>1 DEF Outputs!Return
<1>3. PICK from \in 1..(n + 1) : outputFrames' = [k \in 1..(n + 1 - from) |-> from + k - 1]
  BY <1>2
<1>4. n \in Nat
  BY <1>1, OutputIs
<1>5. outputFrames' \in Seq(1..n) /\ Len(outputFrames') = n + 1 - from
  BY <1>4, <1>3, SeqDef
<1>6. StreamEnds'
  BY <1>1, <1>2, <1>3, <1>4, <1>5 DEF StreamEnds
<1>7. Outputs!Shown' = Outputs!Shown /\ Streamed = {}
  BY <1>2 DEF Outputs!Shown, Streamed
<1>8. \A i : Somewhere(i) => Somewhere(i)'
  BY <1>2, <1>7 DEF Somewhere
<1>9. CallFits' /\ NoneLeftOut'
  BY <1>2, <1>8 DEF OutputInv, CallFits, NoneLeftOut
<1>10. again' = {} => TextsRise(o)
  BY <1>1, <1>2 DEF OutputInv
<1>11. outputSelected' \in BOOLEAN
  BY <1>2
<1> QED BY <1>1, <1>2, <1>5, <1>6, <1>9, <1>10, <1>11, OutputIs, OutputNext

LEMMA OutputReloadKeeps ==
    ASSUME OutputInv, Outputs!Reload
    PROVE  OutputInv'
<1>1. PICK n, o, c : n = stored /\ o = Outputs!NoOutput /\ c = Outputs!NoCall
  OBVIOUS
<1>2. /\ output' = o /\ call' = c /\ again' = {} /\ outputMissed' = {}
      /\ UNCHANGED <<stored, outputFrames, outputSelected, leaves>>
  BY <1>1 DEF Outputs!Reload
<1>3. n \in Nat /\ 0 \in 0..n
  BY <1>1, OutputIs
<1>4. /\ o.texts = <<>> /\ Len(o.texts) = 0 /\ ~o.loaded /\ o.loading = FALSE /\ ~o.more
      /\ o.before = 0
      /\ c.at = "none" /\ c.before = 0
  BY <1>1 DEF Outputs!NoOutput, Outputs!NoCall
<1>5. o \in OutputOf(n)
  BY <1>1, <1>3 DEF Outputs!NoOutput, OutputOf
<1>6. c \in CallOf(n)
  BY <1>1, <1>3 DEF Outputs!NoCall, CallOf
<1>7. StreamEnds'
  BY <1>2 DEF OutputInv, StreamEnds
<1>8. CallFits' /\ NoneLeftOut'
  <2>1. output'.loading = (call'.at # "none")
    BY <1>2, <1>4
  <2>2. CallFits'
    BY <1>2, <1>4, <2>1 DEF CallFits
  <2>3. NoneLeftOut'
    BY <1>2, <1>4 DEF NoneLeftOut
  <2> QED BY <2>2, <2>3
<1>9. TextsRise(o)
  BY <1>4 DEF TextsRise
<1>10. again' \subseteq Outputs!Text /\ outputMissed' \subseteq Outputs!Text
  BY <1>2
<1> QED BY <1>1, <1>2, <1>5, <1>6, <1>7, <1>8, <1>9, <1>10, OutputIs, OutputNext

LEMMA ReceiveKeepsOutput ==
    ASSUME OutputInv, Outputs!Receive
    PROVE  OutputInv'
<1>1. PICK n, o, c, i : n = stored /\ o = output /\ c = call /\ i = Head(outputFrames)
  OBVIOUS
<1>2. /\ outputFrames # <<>> /\ outputFrames' = Tail(outputFrames)
      /\ output' = (IF outputSelected THEN Outputs!Appended(o, i) ELSE o)
      /\ again' = (IF outputSelected /\ (\E j \in Outputs!Shown : j >= i)
          THEN again \cup {i} ELSE again)
      /\ outputMissed' = (IF outputSelected
          THEN (outputMissed \ {i}) \cup (IF o.loaded THEN {} ELSE 1..(i - 1))
                    ELSE outputMissed \cup ({i} \ Outputs!Shown))
      /\ UNCHANGED <<stored, outputSelected, call, leaves>>
  BY <1>1 DEF Outputs!Receive
<1>3. /\ n \in Nat /\ n <= MaxTexts /\ outputFrames \in Seq(1..n) /\ Len(outputFrames) \in Nat
      /\ outputSelected \in BOOLEAN
      /\ o \in OutputOf(n) /\ c \in CallOf(n) /\ again \subseteq Outputs!Text
      /\ outputMissed \subseteq Outputs!Text /\ leaves \in 0..MaxLeaves
      /\ o.texts \in Seq(1..n) /\ Len(o.texts) \in Nat /\ Outputs!Shown \subseteq 1..n
      /\ 1..n \subseteq Outputs!Text
      /\ o.before \in 0..n
  BY <1>1, OutputIs
<1>4. /\ Len(outputFrames) > 0 /\ i = outputFrames[1] /\ i \in 1..n
          /\ outputFrames' \in Seq(1..n) /\ Len(outputFrames') = Len(outputFrames) - 1
      /\ \A k \in 1..Len(outputFrames') : outputFrames'[k] = outputFrames[k + 1]
  BY <1>1, <1>2, <1>3
<1>5. \A x : x \in Streamed => x = i \/ x \in Streamed'
  <2> SUFFICES ASSUME NEW k \in 1..Len(outputFrames) PROVE outputFrames[k] = i
        \/ outputFrames[k] \in Streamed'
    BY DEF Streamed
  <2>1. k = 1 \/ (k - 1 \in 1..Len(outputFrames') /\ outputFrames'[k - 1] = outputFrames[k])
    BY <1>3, <1>4
  <2> QED BY <1>4, <2>1 DEF Streamed
<1>6. StreamEnds'
  BY <1>1, <1>2, <1>3, <1>4 DEF StreamEnds, OutputInv
<1>7. /\ CallFits
      /\ \A x \in (IF o.more THEN o.before ELSE 1)..n : o.loaded => Somewhere(x)
      /\ again = {} => TextsRise(o)
  BY <1>1 DEF OutputInv, NoneLeftOut
<1>8. /\ n = stored' /\ c = call' /\ outputSelected' \in BOOLEAN
          /\ again' \subseteq Outputs!Text /\ leaves' \in 0..MaxLeaves
  BY <1>1, <1>2, <1>3, <1>4
<1>9. CASE outputSelected
  <2>1. PICK p : p = Outputs!Appended(o, i)
    OBVIOUS
  <2>2. Append(o.texts, i) \in Seq(1..n)
    BY <1>3, <1>4
  <2>3. /\ p = output' /\ p.texts = Append(o.texts, i) /\ p.loaded = TRUE
            /\ p.loading = o.loading
        /\ p.more = o.more /\ p.before = o.before /\ p \in OutputOf(n)
    BY <1>2, <1>3, <1>9, <2>1, <2>2 DEF Outputs!Appended, OutputOf
  <2>4. /\ Len(p.texts) = Len(o.texts) + 1 /\ p.texts[Len(o.texts) + 1] = i
        /\ \A k \in 1..Len(o.texts) : p.texts[k] = o.texts[k]
    BY <1>3, <2>3
  <2>5. i \in Outputs!Shown' /\ \A x : x \in Outputs!Shown => x \in Outputs!Shown'
    <3>1. \A k \in 1..Len(o.texts) : k \in 1..Len(p.texts)
      BY <1>3, <2>4
    <3>2. Len(o.texts) + 1 \in 1..Len(p.texts)
      BY <1>3, <2>4
    <3> QED BY <1>1, <2>3, <2>4, <3>1, <3>2 DEF Outputs!Shown
  <2>6. outputMissed' = (outputMissed \ {i}) \cup (IF o.loaded THEN {} ELSE 1..(i - 1))
    BY <1>2, <1>9
  <2>7. outputMissed' \subseteq Outputs!Text
    BY <1>3, <1>4, <2>6
  <2>8. \A x : Somewhere(x) => Somewhere(x)'
    BY <1>5, <2>5, <2>6 DEF Somewhere
  <2>9. CallFits'
    BY <1>1, <1>2, <1>7, <2>3, <2>8 DEF CallFits
  <2>10. NoneLeftOut'
    <3> SUFFICES ASSUME NEW x \in (IF o.more THEN o.before ELSE 1)..n PROVE Somewhere(x)'
      BY <1>1, <1>2, <2>3 DEF NoneLeftOut
    <3>1. CASE o.loaded
      BY <1>7, <2>8, <3>1
    <3>2. CASE ~o.loaded
      <4>1. x \in 1..n
        BY <1>1, <1>7, <3>2 DEF CallFits
      <4>2. CASE x < i
        BY <1>3, <1>4, <4>1, <4>2, <2>6, <3>2 DEF Somewhere
      <4>3. CASE x = i
        BY <2>5, <4>3 DEF Somewhere
      <4>4. CASE x > i
        <5>1. \A k \in 1..Len(outputFrames) : outputFrames[k] = n - Len(outputFrames) + k
          BY <1>1, <1>9 DEF OutputInv, StreamEnds
        <5>2. i = n - Len(outputFrames) + 1
          BY <1>3, <1>4, <5>1
        <5> DEFINE k == x - n + Len(outputFrames)
        <5>3. n \in Nat /\ Len(outputFrames) \in Nat /\ x \in Int
          BY <1>3, <4>1
        <5>4. k \in 2..Len(outputFrames) /\ x = n - Len(outputFrames) + k
          BY <1>4, <4>1, <4>4, <5>2, <5>3
        <5> HIDE DEF k
        <5>5. outputFrames[k] = x
          BY <5>1, <5>4
        <5>6. k - 1 \in 1..Len(outputFrames') /\ outputFrames'[k - 1] = x
          BY <1>3, <1>4, <5>4, <5>5, SMTT(15)
        <5>7. x \in Streamed'
          BY <5>6 DEF Streamed
        <5> QED BY <5>7 DEF Somewhere
      <4> QED BY <1>3, <1>4, <4>1, <4>2, <4>3, <4>4
    <3> QED BY <3>1, <3>2
  <2>11. again' = {} => TextsRise(p)
    <3> SUFFICES ASSUME again' = {} PROVE TextsRise(p)
      OBVIOUS
    <3>1. TextsRise(o) /\ \A j \in Outputs!Shown : ~(j >= i)
      BY <1>2, <1>7, <1>9
    <3>2. \A k \in 1..Len(o.texts) : o.texts[k] \in 1..n /\ o.texts[k] < i
      <4> SUFFICES ASSUME NEW k \in 1..Len(o.texts) PROVE o.texts[k] \in 1..n /\ o.texts[k] < i
        OBVIOUS
      <4>1. o.texts[k] \in Outputs!Shown
        BY <1>1 DEF Outputs!Shown
      <4>2. o.texts[k] \in 1..n /\ ~(o.texts[k] >= i)
        BY <1>3, <3>1, <4>1
      <4> QED BY <1>3, <1>4, <4>2
    <3>3. \A j, k \in 1..Len(o.texts) : j < k => o.texts[j] < o.texts[k]
      BY <3>1 DEF TextsRise
    <3>4. \A j, k \in 1..Len(p.texts) : j < k => p.texts[j] < p.texts[k]
      <4> SUFFICES ASSUME NEW j \in 1..Len(p.texts), NEW k \in 1..Len(p.texts), j < k
            PROVE p.texts[j] < p.texts[k]
        OBVIOUS
      <4>1. j \in 1..Len(o.texts) /\ (k \in 1..Len(o.texts) \/ k = Len(o.texts) + 1)
        BY <1>3, <2>4
      <4> QED BY <2>4, <3>2, <3>3, <4>1
    <3>5. ASSUME o.before > 0 PROVE p.texts # <<>> /\ \A k \in 1..Len(p.texts) :
            o.before <= p.texts[k]
      <4>1. o.texts # <<>> /\ \A k \in 1..Len(o.texts) : o.before <= o.texts[k]
        BY <3>1, <3>5 DEF TextsRise
      <4>2. 1 \in 1..Len(o.texts)
        BY <1>3, <4>1
      <4>3. o.before < i
        <5>1. o.texts[1] \in 1..n /\ o.texts[1] < i /\ o.before <= o.texts[1]
          BY <3>2, <4>1, <4>2
        <5> QED BY <1>3, <1>4, <5>1
      <4>4. p.texts # <<>>
        BY <1>3, <2>4
      <4>5. \A k \in 1..Len(p.texts) : k \in 1..Len(o.texts) \/ k = Len(o.texts) + 1
        BY <1>3, <2>4
      <4>6. ASSUME NEW k \in 1..Len(p.texts) PROVE o.before <= p.texts[k]
        <5>1. CASE k \in 1..Len(o.texts)
          BY <2>4, <4>1, <5>1
        <5>2. CASE k = Len(o.texts) + 1
          BY <1>3, <1>4, <2>4, <4>3, <5>2
        <5> QED BY <4>5, <5>1, <5>2
      <4> QED BY <4>4, <4>6
    <3> QED BY <2>3, <3>4, <3>5 DEF TextsRise
  <2> QED BY <1>3, <1>4, <1>6, <1>8, <2>3, <2>7, <2>9, <2>10, <2>11, OutputNext
<1>10. CASE ~outputSelected
  BY <1>2, <1>10, <1>1, <1>3, <1>4, <1>5, <1>7, <1>6, <1>8, OutputNext DEF Outputs!Shown,
     Somewhere, CallFits, NoneLeftOut
<1> QED BY <1>3, <1>9, <1>10

\* A step that only makes a call, or ends one, without an answer to it.
LEMMA CallMoves ==
    ASSUME OutputInv, NEW n, n = stored, NEW o, o = output', NEW c, c = call',
           UNCHANGED <<stored, outputFrames, outputSelected, again, outputMissed, leaves>>,
           o \in OutputOf(n), c \in CallOf(n),
           o.texts = output.texts, o.loaded = output.loaded, o.more = output.more,
               o.before = output.before,
           o.loading = (c.at # "none"), c.before > 0 => o.loaded /\ o.more
               /\ c.before = o.before,
           c.at = "answered" /\ c.before > 0 => c.upto = c.before - 1,
           c.at = "answered" /\ c.before = 0 => c.upto = n
    PROVE  OutputInv'
<1>1. UNCHANGED <<Outputs!Shown, Streamed>>
  BY DEF Outputs!Shown, Streamed
<1>2. \A i : Somewhere(i) => Somewhere(i)'
  BY <1>1 DEF Somewhere
<1>3. n \in Nat
  BY OutputIs
<1>4. CallFits'
  BY <1>3 DEF OutputInv, CallFits
<1>5. NoneLeftOut' /\ StreamEnds'
  BY <1>2 DEF OutputInv, NoneLeftOut, StreamEnds
<1>6. again' = {} => TextsRise(o)
  BY DEF OutputInv, TextsRise
<1> QED BY <1>4, <1>5, <1>6, OutputIs, OutputNext

LEMMA OpenKeeps ==
    ASSUME OutputInv, Outputs!Open \/ Outputs!OpenOlder
    PROVE  OutputInv'
<1>1. PICK n, o, c : n = stored /\ o = output' /\ c = call'
  OBVIOUS
<1>2. /\ n \in Nat /\ output \in OutputOf(n) /\ output.before \in 0..n /\ 0 \in 0..n /\ CallFits
  BY <1>1, OutputIs DEF OutputInv
<1>3. /\ UNCHANGED <<stored, outputFrames, outputSelected, again, outputMissed, leaves>>
      /\ o = [output EXCEPT !.loading = TRUE]
      /\ \/ c = [Outputs!NoCall EXCEPT !.at = "asked"]
         \/ c = [at |-> "asked", before |-> output.before, upto |-> 0] /\ output.more
             /\ output.before > 0
  BY <1>1 DEF Outputs!Open, Outputs!OpenOlder
<1>4. /\ o \in OutputOf(n) /\ o.texts = output.texts /\ o.loaded = output.loaded
      /\ o.more = output.more
      /\ o.before = output.before /\ o.loading = TRUE
  BY <1>2, <1>3 DEF OutputOf
<1>5. /\ c \in CallOf(n) /\ c.at = "asked"
      /\ (c.before = 0 \/ (c.before = output.before /\ output.more))
  BY <1>2, <1>3 DEF CallOf, Outputs!NoCall
<1>6. output.more => output.loaded
  BY <1>2 DEF CallFits
<1>7. o.loading = (c.at # "none")
  BY <1>4, <1>5
<1>8. c.before > 0 => o.loaded /\ o.more /\ c.before = o.before
  BY <1>4, <1>5, <1>6
<1>9. c.at # "answered"
  BY <1>5
<1> QED BY <1>1, <1>3, <1>4, <1>5, <1>7, <1>8, <1>9, CallMoves

LEMMA AnswerKeeps ==
    ASSUME OutputInv, Outputs!Answer
    PROVE  OutputInv'
<1>1. PICK n, o, c : n = stored /\ o = output' /\ c = call'
  OBVIOUS
<1>2. /\ n \in Nat /\ output \in OutputOf(n) /\ call \in CallOf(n) /\ call.before \in 0..n
      /\ CallFits
  BY <1>1, OutputIs DEF OutputInv
<1>3. /\ call.at = "asked" /\ o = output
      /\ UNCHANGED <<stored, outputFrames, outputSelected, again, outputMissed, leaves>>
      /\ c = [call EXCEPT !.at = "answered", !.upto = IF call.before = 0 THEN n
          ELSE call.before - 1]
  BY <1>1 DEF Outputs!Answer
<1>4. (IF call.before = 0 THEN n ELSE call.before - 1) \in 0..n
  BY <1>2
<1>5. /\ c \in CallOf(n) /\ c.at = "answered" /\ c.before = call.before
      /\ c.upto = (IF call.before = 0 THEN n ELSE call.before - 1)
  BY <1>2, <1>3, <1>4 DEF CallOf
<1>6. o.loading = (c.at # "none") /\ (c.before > 0 => o.loaded /\ o.more /\ c.before = o.before)
  BY <1>2, <1>3, <1>5 DEF CallFits
<1>7. (c.before > 0 => c.upto = c.before - 1) /\ (c.before = 0 => c.upto = n)
  BY <1>5
<1> QED BY <1>1, <1>2, <1>3, <1>5, <1>6, <1>7, CallMoves

LEMMA FailKeeps ==
    ASSUME OutputInv, Outputs!Fail
    PROVE  OutputInv'
<1>1. PICK n, o, c : n = stored /\ o = output' /\ c = call'
  OBVIOUS
<1>2. n \in Nat /\ output \in OutputOf(n)
  BY <1>1, OutputIs
<1>3. /\ c = Outputs!NoCall /\ o = [output EXCEPT !.loading = FALSE]
      /\ UNCHANGED <<stored, outputFrames, outputSelected, again, outputMissed, leaves>>
  BY <1>1 DEF Outputs!Fail
<1>4. /\ o \in OutputOf(n) /\ o.texts = output.texts /\ o.loaded = output.loaded
      /\ o.more = output.more
      /\ o.before = output.before /\ o.loading = FALSE
  BY <1>2, <1>3 DEF OutputOf
<1>5. c \in CallOf(n) /\ c.at = "none" /\ c.before = 0
  BY <1>2, <1>3 DEF CallOf, Outputs!NoCall
<1>6. o.loading = (c.at # "none")
  BY <1>4, <1>5
<1>7. ~(c.before > 0) /\ c.at # "answered"
  BY <1>5
<1> QED BY <1>1, <1>3, <1>4, <1>5, <1>6, <1>7, CallMoves

\* The texts of an answer, in their order.
LEMMA PageIs ==
    ASSUME NEW n \in Nat, NEW u \in 0..n
    PROVE  /\ Outputs!From(u) \in 1..(u + 1) /\ (u > 0 => Outputs!From(u) <= u)
           /\ Outputs!PageOf(u) \in Seq(1..n)
               /\ Len(Outputs!PageOf(u)) = u + 1 - Outputs!From(u)
           /\ \A k \in 1..Len(Outputs!PageOf(u)) :
               Outputs!PageOf(u)[k] = Outputs!From(u) + k - 1
           /\ \A i \in Outputs!From(u)..u : \E k \in 1..Len(Outputs!PageOf(u)) :
               Outputs!PageOf(u)[k] = i
<1>1. Outputs!From(u) \in 1..(u + 1) /\ (u > 0 => Outputs!From(u) <= u)
  BY OutputBounds DEF Outputs!From
<1> DEFINE m == u + 1 - Outputs!From(u)
           q == [k \in 1..m |-> Outputs!From(u) + k - 1]
<1>2. m \in Nat
  BY <1>1
<1>3. Outputs!PageOf(u) = q
  BY DEF Outputs!PageOf
<1>4. \A k \in 1..m : q[k] = Outputs!From(u) + k - 1
  OBVIOUS
<1>5. \A k \in 1..m : q[k] \in 1..n
  BY <1>1, <1>4
<1>6. DOMAIN q = 1..m
  OBVIOUS
<1>7. q \in [1..m -> 1..n]
  BY <1>5, <1>6
<1>8. \A i \in Outputs!From(u)..u : i - Outputs!From(u) + 1 \in 1..m
        /\ Outputs!From(u) + (i - Outputs!From(u) + 1) - 1 = i
  BY <1>1
<1>9. m = u + 1 - Outputs!From(u)
  OBVIOUS
<1> HIDE DEF m, q
<1>10. q \in Seq(1..n)
  BY <1>2, <1>7, SeqDef
<1>11. Len(q) = m
  BY <1>2, <1>7, <1>10
<1>12. \A i \in Outputs!From(u)..u : \E k \in 1..m : q[k] = i
  BY <1>4, <1>8
<1> QED BY <1>1, <1>3, <1>4, <1>9, <1>10, <1>11, <1>12

\* The output p after an answer was put in its place, if n texts are stored.
FilledRight(p, n, u) ==
    /\ p \in OutputOf(n) /\ p.loaded = TRUE /\ p.loading = FALSE /\ (p.more => p.before > 0)
    /\ Outputs!From(u) = (IF p.more THEN p.before ELSE 1)
    /\ \A x \in Outputs!From(u)..u : \E k \in 1..Len(p.texts) : p.texts[k] = x
    /\ call.before > 0 => \A x \in Outputs!Shown : \E k \in 1..Len(p.texts) : p.texts[k] = x
    /\ call.before = 0 \/ TextsRise(output) => TextsRise(p)

LEMMA FilledIs ==
    ASSUME OutputInv, NEW n, n = stored, call.at = "answered", NEW p,
             p = Outputs!Filled(output, call),
           NEW u, u = call.upto
    PROVE  FilledRight(p, n, u)
<1> SUFFICES
      /\ p \in OutputOf(n) /\ p.loaded = TRUE /\ p.loading = FALSE /\ (p.more => p.before > 0)
      /\ Outputs!From(u) = (IF p.more THEN p.before ELSE 1)
      /\ \A x \in Outputs!From(u)..u : \E k \in 1..Len(p.texts) : p.texts[k] = x
      /\ call.before > 0 => \A x \in Outputs!Shown : \E k \in 1..Len(p.texts) : p.texts[k] = x
      /\ call.before = 0 \/ TextsRise(output) => TextsRise(p)
  BY DEF FilledRight
<1>1. /\ n \in Nat /\ output \in OutputOf(n) /\ output.texts \in Seq(1..n)
      /\ Len(output.texts) \in Nat
      /\ u \in 0..n /\ call.before \in 0..n /\ output.before \in 0..n
  BY OutputIs
<1>2. PICK q, t : q = Outputs!PageOf(u) /\ t = output.texts
  OBVIOUS
<1>3. /\ Outputs!From(u) \in 1..(u + 1) /\ (u > 0 => Outputs!From(u) <= u) /\ q \in Seq(1..n)
      /\ Len(q) = u + 1 - Outputs!From(u)
      /\ \A k \in 1..Len(q) : q[k] = Outputs!From(u) + k - 1
      /\ \A i \in Outputs!From(u)..u : \E k \in 1..Len(q) : q[k] = i
  <2>1. /\ Outputs!From(u) \in 1..(u + 1) /\ (u > 0 => Outputs!From(u) <= u)
        /\ Outputs!PageOf(u) \in Seq(1..n) /\ Len(Outputs!PageOf(u)) = u + 1 - Outputs!From(u)
        /\ \A k \in 1..Len(Outputs!PageOf(u)) : Outputs!PageOf(u)[k] = Outputs!From(u) + k - 1
        /\ \A i \in Outputs!From(u)..u : \E k \in 1..Len(Outputs!PageOf(u)) :
            Outputs!PageOf(u)[k] = i
    BY <1>1, PageIs, Zenon
  <2> QED BY <1>2, <2>1
<1>4. t \in Seq(1..n) /\ Len(t) \in Nat /\ Len(q) \in Nat
  BY <1>1, <1>2, <1>3
<1>5. q \o t \in Seq(1..n)
  BY <1>3, <1>4
<1>6. (IF u = 0 THEN 0 ELSE Outputs!From(u)) \in 0..n
  BY <1>1, <1>3
<1>7. /\ p \in OutputOf(n) /\ p.loaded = TRUE /\ p.loading = FALSE
      /\ p.more = (Outputs!From(u) > 1)
      /\ p.before = (IF u = 0 THEN 0 ELSE Outputs!From(u))
      /\ p.texts = (IF call.before = 0 THEN q ELSE q \o t)
  <2>1. PICK r, b, m : /\ r = (IF call.before = 0 THEN q ELSE q \o t)
                           /\ m = (Outputs!From(u) > 1)
                       /\ b = (IF u = 0 THEN 0 ELSE Outputs!From(u))
    OBVIOUS
  <2>2. p = [output EXCEPT !.texts = r, !.loaded = TRUE, !.loading = FALSE, !.more = m,
          !.before = b]
    BY <1>2, <2>1 DEF Outputs!Filled
  <2>3. r \in Seq(1..n) /\ b \in 0..n /\ m \in BOOLEAN
    <3>1. r \in Seq(1..n)
      BY <1>3, <1>5, <2>1
    <3>2. b \in 0..n
      BY <1>6, <2>1
    <3>3. m \in BOOLEAN
      BY <2>1
    <3> QED BY <3>1, <3>2, <3>3
  <2>4. p \in OutputOf(n) /\ p.loaded = TRUE /\ p.loading = FALSE /\ p.more = m
          /\ p.before = b /\ p.texts = r
    BY <1>1, <2>2, <2>3 DEF OutputOf
  <2> QED BY <2>1, <2>4
<1>8. \A j, k \in 1..Len(q) : j < k => q[j] < q[k]
  BY <1>3, <1>1, <1>4
<1>9. u > 0 => q # <<>> /\ \A k \in 1..Len(q) : Outputs!From(u) <= q[k]
  BY <1>1, <1>3, <1>4
<1>10. (p.more => p.before > 0) /\ Outputs!From(u) = (IF p.more THEN p.before ELSE 1)
  <2>1. CASE Outputs!From(u) > 1
    <3>1. u # 0
      BY <1>1, <1>3, <2>1
    <3>2. p.more = TRUE /\ p.before = Outputs!From(u)
      BY <1>7, <2>1, <3>1
    <3> QED BY <1>1, <1>3, <3>2
  <2>2. CASE ~(Outputs!From(u) > 1)
    <3>1. Outputs!From(u) = 1
      BY <1>1, <1>3, <2>2
    <3> QED BY <1>7, <2>2, <3>1
  <2> QED BY <2>1, <2>2
<1>11. CASE call.before = 0
  <2>1. p.texts = q
    BY <1>7, <1>11
  <2>2. TextsRise(p)
    <3>1. p.before > 0 => u > 0 /\ p.before = Outputs!From(u)
      BY <1>1, <1>7
    <3> QED BY <1>8, <1>9, <2>1, <3>1 DEF TextsRise
  <2>3. \A x \in Outputs!From(u)..u : \E k \in 1..Len(p.texts) : p.texts[k] = x
    BY <1>3, <2>1
  <2>4. ~(call.before > 0)
    BY <1>11
  <2> QED BY <1>7, <1>10, <2>2, <2>3, <2>4
<1>12. CASE call.before > 0
  <2>1. p.texts = q \o t
    BY <1>1, <1>7, <1>12
  <2>2. call.before = output.before /\ u = call.before - 1
    BY <1>12 DEF OutputInv, CallFits
  <2>3. /\ Len(p.texts) = Len(q) + Len(t)
        /\ \A k \in 1..Len(q) : p.texts[k] = q[k]
        /\ \A k \in 1..Len(t) : p.texts[Len(q) + k] = t[k]
    <3>1. /\ Len(q \o t) = Len(q) + Len(t)
          /\ \A k \in 1..Len(q) : (q \o t)[k] = q[k]
          /\ \A k \in 1..Len(t) : (q \o t)[Len(q) + k] = t[k]
      <4>1. Len(q \o t) = Len(q) + Len(t)
        BY <1>3, <1>4
      <4>2. \A k \in 1..Len(q) : (q \o t)[k] = q[k]
        BY <1>3, <1>4
      <4>3. \A k \in 1..Len(t) : Len(q) + k \in 1..(Len(q) + Len(t))
              /\ (Len(q) + k) - Len(q) = k /\ ~(Len(q) + k <= Len(q))
        BY <1>4
      <4>4. \A k \in 1..Len(t) : (q \o t)[Len(q) + k] = t[k]
        BY <1>3, <1>4, <4>3, ConcatProperties
      <4> QED BY <4>1, <4>2, <4>4
    <3> QED BY <2>1, <3>1
  <2>4. \A x \in Outputs!From(u)..u : \E k \in 1..Len(p.texts) : p.texts[k] = x
    <3> SUFFICES ASSUME NEW x \in Outputs!From(u)..u PROVE \E k \in 1..Len(p.texts) :
          p.texts[k] = x
      OBVIOUS
    <3>1. PICK k \in 1..Len(q) : q[k] = x
      BY <1>3
    <3>2. k \in 1..Len(p.texts) /\ p.texts[k] = x
      BY <1>4, <2>3, <3>1
    <3> QED BY <3>2
  <2>5. \A x \in Outputs!Shown : \E k \in 1..Len(p.texts) : p.texts[k] = x
    <3> SUFFICES ASSUME NEW k \in 1..Len(t) PROVE \E l \in 1..Len(p.texts) : p.texts[l] = t[k]
      BY <1>2 DEF Outputs!Shown
    <3>1. Len(q) + k \in 1..Len(p.texts) /\ p.texts[Len(q) + k] = t[k]
      BY <1>4, <2>3
    <3> QED BY <3>1
  <2>6. ASSUME TextsRise(output) PROVE TextsRise(p)
    <3>1. /\ \A j, k \in 1..Len(t) : j < k => t[j] < t[k]
          /\ \A k \in 1..Len(t) : call.before <= t[k]
      BY <1>2, <1>12, <2>2, <2>6 DEF TextsRise
    <3>2. \A k \in 1..Len(q) : q[k] < call.before /\ q[k] \in 1..n
      <4> SUFFICES ASSUME NEW k \in 1..Len(q) PROVE q[k] < call.before /\ q[k] \in 1..n
        OBVIOUS
      <4>1. q[k] = Outputs!From(u) + k - 1
        BY <1>3
      <4>2. q[k] <= u /\ Outputs!From(u) \in Nat
        BY <1>1, <1>3, <4>1
      <4>3. q[k] \in 1..n
        <5>1. q \in Seq(1..n)
          BY <1>3
        <5> QED BY <5>1, ElementOfSeq
      <4> QED BY <1>1, <2>2, <4>2, <4>3
    <3>3. \A k \in 1..Len(t) : t[k] \in 1..n
      BY <1>1, <1>4
    <3>4. \A k \in 1..Len(p.texts) : k \in 1..Len(q)
            \/ (k - Len(q) \in 1..Len(t) /\ Len(q) + (k - Len(q)) = k)
      BY <1>4, <2>3
    <3>5. \A j, k \in 1..Len(p.texts) : j < k => p.texts[j] < p.texts[k]
      <4> SUFFICES ASSUME NEW j \in 1..Len(p.texts), NEW k \in 1..Len(p.texts), j < k
            PROVE p.texts[j] < p.texts[k]
        OBVIOUS
      <4>1. CASE j \in 1..Len(q) /\ k \in 1..Len(q)
        BY <1>8, <2>3, <4>1
      <4>2. CASE j \in 1..Len(q) /\ k \notin 1..Len(q)
        <5>1. k - Len(q) \in 1..Len(t) /\ p.texts[k] = t[k - Len(q)]
          BY <2>3, <3>4, <4>2
        <5>2. p.texts[j] = q[j] /\ q[j] < call.before /\ q[j] \in 1..n
          BY <2>3, <3>2, <4>2
        <5>3. call.before <= t[k - Len(q)] /\ t[k - Len(q)] \in 1..n
          BY <3>1, <3>3, <5>1
        <5> QED BY <1>1, <5>1, <5>2, <5>3
      <4>3. CASE j \notin 1..Len(q)
        <5>1. j - Len(q) \in 1..Len(t) /\ p.texts[j] = t[j - Len(q)]
          BY <2>3, <3>4, <4>3
        <5>2. k \notin 1..Len(q)
          BY <1>4, <2>3, <4>3
        <5>3. k - Len(q) \in 1..Len(t) /\ p.texts[k] = t[k - Len(q)]
          BY <2>3, <3>4, <5>2
        <5>4. j - Len(q) < k - Len(q)
          BY <1>4, <2>3
        <5> QED BY <3>1, <5>1, <5>3, <5>4
      <4> QED BY <4>1, <4>2, <4>3
    <3>6. ASSUME p.before > 0 PROVE p.texts # <<>> /\ \A k \in 1..Len(p.texts) :
            p.before <= p.texts[k]
      <4>1. u > 0 /\ p.before = Outputs!From(u)
        BY <1>1, <1>7, <3>6
      <4>2. q # <<>> /\ \A k \in 1..Len(q) : Outputs!From(u) <= q[k]
        BY <1>9, <4>1
      <4>3. Len(p.texts) > 0
        BY <1>1, <1>3, <4>1, <1>4, <2>3
      <4>4. ASSUME NEW k \in 1..Len(p.texts) PROVE p.before <= p.texts[k]
        <5>1. CASE k \in 1..Len(q)
          BY <2>3, <4>1, <4>2, <5>1
        <5>2. CASE k \notin 1..Len(q)
          <6>1. k - Len(q) \in 1..Len(t) /\ p.texts[k] = t[k - Len(q)]
            BY <2>3, <3>4, <5>2
          <6>2. call.before <= t[k - Len(q)] /\ t[k - Len(q)] \in 1..n
            BY <3>1, <3>3, <6>1
          <6>3. Outputs!From(u) \in Int /\ Outputs!From(u) <= u
            BY <1>1, <1>3, <4>1
          <6> QED BY <1>1, <2>2, <4>1, <6>1, <6>2, <6>3
        <5> QED BY <5>1, <5>2
      <4> QED BY <4>3, <4>4
    <3> QED BY <3>5, <3>6 DEF TextsRise
  <2>7. call.before # 0
    BY <1>1, <1>12
  <2> QED BY <1>7, <1>10, <2>4, <2>5, <2>6, <2>7
<1>13. call.before = 0 \/ call.before > 0
  BY <1>1
<1> QED BY <1>11, <1>12, <1>13

LEMMA ApplyKeeps ==
    ASSUME OutputInv, Outputs!Apply
    PROVE  OutputInv'
<1>1. PICK n, o, c, u : n = stored /\ o = output' /\ c = call' /\ u = call.upto
  OBVIOUS
<1>2. /\ call.at = "answered" /\ c = Outputs!NoCall /\ o = Outputs!Filled(output, call)
      /\ IF call.before = 0
         THEN /\ outputMissed' = {i \in outputMissed \cup Outputs!Shown : i > u}
              /\ again' = again \cap {i \in Outputs!Text : i > u}
         ELSE UNCHANGED <<outputMissed, again>>
      /\ UNCHANGED <<stored, outputFrames, outputSelected, leaves>>
  BY <1>1 DEF Outputs!Apply
<1>3. /\ o \in OutputOf(n) /\ o.loaded = TRUE /\ o.loading = FALSE /\ (o.more => o.before > 0)
      /\ Outputs!From(u) = (IF o.more THEN o.before ELSE 1)
      /\ \A x \in Outputs!From(u)..u : \E k \in 1..Len(o.texts) : o.texts[k] = x
      /\ call.before > 0 => \A x \in Outputs!Shown : \E k \in 1..Len(o.texts) : o.texts[k] = x
      /\ call.before = 0 \/ TextsRise(output) => TextsRise(o)
  <2>1. FilledRight(o, n, u)
    BY <1>1, <1>2, FilledIs
  <2> QED BY <2>1 DEF FilledRight
<1>4. /\ n \in Nat /\ u \in 0..n /\ call.before \in 0..n /\ output.before \in 0..n
      /\ Outputs!Shown \subseteq 1..n /\ 1..n \subseteq Outputs!Text
      /\ outputMissed \subseteq Outputs!Text /\ again \subseteq Outputs!Text
      /\ Outputs!From(u) \in 1..(u + 1)
  BY <1>1, OutputIs, PageIs
<1>5. c \in CallOf(n) /\ c.at = "none" /\ c.before = 0
  BY <1>2, <1>4 DEF CallOf, Outputs!NoCall
<1>6. again' \subseteq Outputs!Text /\ outputMissed' \subseteq Outputs!Text
  BY <1>2, <1>4
<1>7. Streamed' = Streamed
  BY <1>2 DEF Streamed
<1>8. /\ \A x \in Outputs!From(u)..u : x \in Outputs!Shown'
      /\ call.before > 0 => \A x \in Outputs!Shown : x \in Outputs!Shown'
  BY <1>1, <1>3 DEF Outputs!Shown
<1>9. CallFits'
  <2>1. output'.loading = (call'.at # "none")
    BY <1>1, <1>3, <1>5
  <2> QED BY <1>1, <1>3, <1>5, <2>1 DEF CallFits
<1>10. StreamEnds'
  BY <1>2 DEF OutputInv, StreamEnds
<1>11. NoneLeftOut'
  BY <1>1, <1>2, <1>3, <1>4, <1>8, <1>7 DEF NoneLeftOut, Somewhere, OutputInv, CallFits
<1>12. again' = {} => TextsRise(o)
  BY <1>3, <1>2 DEF OutputInv
<1> QED BY <1>1, <1>2, <1>3, <1>5, <1>6, <1>9, <1>10, <1>11, <1>12, OutputIs, OutputNext

LEMMA ReasoningIs ==
    ASSUME ReasoningInv, NEW n, n = pieces
    PROVE  /\ n \in Nat /\ n <= MaxPieces /\ turn \in {"runs", "over", "ended"}
           /\ early \in BOOLEAN
           /\ reasoning \in ReasoningOf(n) /\ meta \in AnswerOf(n) /\ body \in AnswerOf(n)
           /\ reasoning.pieces \in 0..n /\ reasoning.loading \in BOOLEAN
           /\ reasoning.loaded \in BOOLEAN
           /\ reasoning.loadingBody \in BOOLEAN /\ meta.pieces \in 0..n /\ body.pieces \in 0..n
<1>1. /\ n \in Nat /\ n <= MaxPieces /\ turn \in {"runs", "over", "ended"} /\ early \in BOOLEAN
      /\ reasoning \in ReasoningOf(n) /\ meta \in AnswerOf(n) /\ body \in AnswerOf(n)
  BY OutputBounds DEF ReasoningInv, ReasoningTyped
<1> QED BY <1>1 DEF ReasoningOf, AnswerOf

\* The invariant, of the entry r and the calls m and b.
Whole(r, m, b, n, t) ==
    /\ r.loaded \/ m.at # "none" \/ b.at # "none" => t = "ended"
    /\ r.loaded => r.pieces = n
    /\ m.at = "answered" => m.pieces = n
    /\ b.at = "answered" => b.pieces = n
LEMMA ReasoningNext ==
    ASSUME NEW n, n = pieces', n \in Nat, n <= MaxPieces, turn' \in {"runs", "over", "ended"},
             early' \in BOOLEAN,
           NEW r, r = reasoning', r \in ReasoningOf(n), NEW m, m = meta', m \in AnswerOf(n),
           NEW b, b = body', b \in AnswerOf(n), r.loading = (m.at # "none"),
               r.loadingBody = (b.at # "none"),
           r.pieces > 0 => r.loaded, ~early' => Whole(r, m, b, n, turn')
    PROVE  ReasoningInv'
<1>1. ReasoningTyped'
  BY OutputBounds DEF ReasoningTyped
<1> QED BY <1>1 DEF ReasoningInv, Whole

LEMMA ReasoningStays ==
    ASSUME ReasoningInv, UNCHANGED Outputs!reasoningVars
    PROVE  ReasoningInv'
BY DEF Outputs!reasoningVars, ReasoningInv, ReasoningTyped

LEMMA ThinkKeeps ==
    ASSUME ReasoningInv, Outputs!Think \/ Outputs!Complete
    PROVE  ReasoningInv'
<1>1. PICK n, o, r, m, b : n = pieces' /\ o = pieces /\ r = reasoning /\ m = meta /\ b = body
  OBVIOUS
<1>2. /\ o \in Nat /\ o <= MaxPieces /\ turn \in {"runs", "over", "ended"} /\ early \in BOOLEAN
      /\ r \in ReasoningOf(o) /\ m \in AnswerOf(o) /\ b \in AnswerOf(o)
  BY <1>1, ReasoningIs
<1>3. /\ UNCHANGED <<early, reasoning, meta, body>>
      /\ \/ turn = "runs" /\ n = o + 1 /\ n <= MaxPieces /\ turn' = turn
         \/ turn # "ended" /\ n = o /\ turn' \in {"over", "ended"}
  BY <1>1, <1>2, OutputBounds DEF Outputs!Think, Outputs!Complete
<1>4. n \in Nat /\ n <= MaxPieces /\ turn' \in {"runs", "over", "ended"} /\ 0..o \subseteq 0..n
  BY <1>2, <1>3, OutputBounds
<1>5. r \in ReasoningOf(n) /\ m \in AnswerOf(n) /\ b \in AnswerOf(n)
  BY <1>2, <1>4 DEF ReasoningOf, AnswerOf
<1>6. /\ r.loading = (m.at # "none") /\ r.loadingBody = (b.at # "none")
      /\ (r.pieces > 0 => r.loaded)
  BY <1>1 DEF ReasoningInv
<1>7. ASSUME ~early PROVE Whole(r, m, b, n, turn')
  BY <1>1, <1>3, <1>7 DEF ReasoningInv, Whole
<1> QED BY <1>1, <1>2, <1>3, <1>4, <1>5, <1>6, <1>7, ReasoningNext

LEMMA OutputAskKeeps ==
    ASSUME ReasoningInv, Outputs!AskTitles \/ Outputs!AskBodies
    PROVE  ReasoningInv'
<1>1. PICK n, r, m, b : n = pieces /\ r = reasoning' /\ m = meta' /\ b = body'
  OBVIOUS
<1>2. /\ n \in Nat /\ n <= MaxPieces /\ turn \in {"runs", "over", "ended"} /\ early \in BOOLEAN
      /\ reasoning \in ReasoningOf(n) /\ meta \in AnswerOf(n) /\ body \in AnswerOf(n)
      /\ 0 \in 0..n
  BY <1>1, ReasoningIs
<1>3. /\ reasoning.loading = (meta.at # "none") /\ reasoning.loadingBody = (body.at # "none")
      /\ (reasoning.pieces > 0 => reasoning.loaded)
      /\ ~early => Whole(reasoning, meta, body, n, turn)
  BY <1>1 DEF ReasoningInv, Whole
<1>4. CASE Outputs!AskTitles
  <2>1. /\ ~reasoning.loaded /\ r = [reasoning EXCEPT !.loading = TRUE]
        /\ m = [at |-> "asked", pieces |-> 0]
        /\ b = body /\ early' = (early \/ turn # "ended") /\ UNCHANGED <<pieces, turn>>
    BY <1>1, <1>4 DEF Outputs!AskTitles, Outputs!Mistaken
  <2>2. /\ r \in ReasoningOf(n) /\ r.loading = TRUE /\ r.loaded = reasoning.loaded
        /\ r.loadingBody = reasoning.loadingBody /\ r.pieces = reasoning.pieces
    BY <1>2, <2>1 DEF ReasoningOf
  <2>3. m \in AnswerOf(n) /\ m.at = "asked" /\ b \in AnswerOf(n)
    BY <1>2, <2>1 DEF AnswerOf
  <2>4. r.loading = (m.at # "none")
    BY <2>2, <2>3
  <2>5. r.loadingBody = (b.at # "none") /\ (r.pieces > 0 => r.loaded)
    BY <1>3, <2>1, <2>2
  <2>6. early' \in BOOLEAN
    BY <2>1
  <2>7. ASSUME ~early' PROVE Whole(r, m, b, n, turn')
    BY <2>1, <2>7, <1>3, <2>2, <2>3 DEF Whole
  <2> QED BY <1>1, <1>2, <2>1, <2>2, <2>3, <2>4, <2>5, <2>6, <2>7, ReasoningNext
<1>5. CASE Outputs!AskBodies
  <2>1. /\ reasoning.pieces > 0 /\ r = [reasoning EXCEPT !.loadingBody = TRUE]
        /\ b = [at |-> "asked", pieces |-> 0]
        /\ m = meta /\ UNCHANGED <<pieces, turn, early>>
    BY <1>1, <1>5 DEF Outputs!AskBodies
  <2>2. /\ r \in ReasoningOf(n) /\ r.loadingBody = TRUE /\ r.loaded = reasoning.loaded
        /\ r.loading = reasoning.loading /\ r.pieces = reasoning.pieces
    BY <1>2, <2>1 DEF ReasoningOf
  <2>3. b \in AnswerOf(n) /\ b.at = "asked" /\ m \in AnswerOf(n)
    BY <1>2, <2>1 DEF AnswerOf
  <2>4. r.loadingBody = (b.at # "none")
    BY <2>2, <2>3
  <2>5. r.loading = (m.at # "none") /\ (r.pieces > 0 => r.loaded)
    BY <1>3, <2>1, <2>2
  <2>7. ASSUME ~early PROVE Whole(r, m, b, n, turn)
    BY <1>3, <2>1, <2>2, <2>3, <2>7 DEF Whole
  <2> QED BY <1>1, <1>2, <2>1, <2>2, <2>3, <2>4, <2>5, <2>7, ReasoningNext
<1> QED BY <1>4, <1>5

LEMMA AnswerReasoningKeeps ==
    ASSUME ReasoningInv, Outputs!AnswerReasoning
    PROVE  ReasoningInv'
<1>1. PICK n, r, m, b : n = pieces /\ r = reasoning /\ m = meta' /\ b = body'
  OBVIOUS
<1>2. /\ n \in Nat /\ n <= MaxPieces /\ turn \in {"runs", "over", "ended"} /\ early \in BOOLEAN
      /\ r \in ReasoningOf(n) /\ meta \in AnswerOf(n) /\ body \in AnswerOf(n) /\ n \in 0..n
  BY <1>1, ReasoningIs
<1>3. /\ r.loading = (meta.at # "none") /\ r.loadingBody = (body.at # "none")
      /\ (r.pieces > 0 => r.loaded)
      /\ ~early => Whole(r, meta, body, n, turn)
  BY <1>1 DEF ReasoningInv, Whole
<1>4. /\ \/ meta.at = "asked" /\ m = [at |-> "answered", pieces |-> n] /\ b = body
         \/ body.at = "asked" /\ b = [at |-> "answered", pieces |-> n] /\ m = meta
      /\ UNCHANGED <<pieces, turn, early, reasoning>>
  BY <1>1 DEF Outputs!AnswerReasoning
<1>5. m \in AnswerOf(n) /\ b \in AnswerOf(n)
  BY <1>2, <1>4 DEF AnswerOf
<1>6. /\ (m.at # "none") = (meta.at # "none") /\ (b.at # "none") = (body.at # "none")
      /\ m = meta \/ m.pieces = n
      /\ b = body \/ b.pieces = n
  BY <1>4
<1>7. ~early => Whole(r, m, b, n, turn)
  BY <1>3, <1>6 DEF Whole
<1> QED BY <1>1, <1>2, <1>3, <1>4, <1>5, <1>6, <1>7, ReasoningNext

LEMMA ApplyReasoningKeeps ==
    ASSUME ReasoningInv, Outputs!ApplyReasoning \/ Outputs!FailReasoning
    PROVE  ReasoningInv'
<1>1. PICK n, r, m, b : n = pieces /\ r = reasoning' /\ m = meta' /\ b = body'
  OBVIOUS
<1>2. /\ n \in Nat /\ n <= MaxPieces /\ turn \in {"runs", "over", "ended"} /\ early \in BOOLEAN
      /\ reasoning \in ReasoningOf(n) /\ meta \in AnswerOf(n) /\ body \in AnswerOf(n)
      /\ 0 \in 0..n
      /\ meta.pieces \in 0..n /\ body.pieces \in 0..n
  BY <1>1, ReasoningIs
<1>3. /\ reasoning.loading = (meta.at # "none") /\ reasoning.loadingBody = (body.at # "none")
      /\ (reasoning.pieces > 0 => reasoning.loaded)
      /\ ~early => Whole(reasoning, meta, body, n, turn)
  BY <1>1 DEF ReasoningInv, Whole
<1>4. UNCHANGED <<pieces, turn, early>>
  BY DEF Outputs!ApplyReasoning, Outputs!FailReasoning
<1>5. Outputs!NoAnswer \in AnswerOf(n) /\ Outputs!NoAnswer.at = "none"
  BY <1>2 DEF Outputs!NoAnswer, AnswerOf
<1>6. CASE m = Outputs!NoAnswer /\ b = body /\ \/ meta.at = "answered"
                                                   /\ r = Outputs!Titles(reasoning, meta.pieces)
                                               \/ r = Outputs!TitlesFail(reasoning)
  <2>1. /\ r \in ReasoningOf(n) /\ r.loading = FALSE /\ r.loadingBody = reasoning.loadingBody
        /\ \/ r.loaded = reasoning.loaded /\ r.pieces = reasoning.pieces
           \/ meta.at = "answered" /\ r.loaded = TRUE /\ r.pieces = meta.pieces
    BY <1>2, <1>6 DEF Outputs!Titles, Outputs!TitlesFail, ReasoningOf
  <2>2. r.loading = (m.at # "none")
    BY <1>5, <1>6, <2>1
  <2>3. r.loadingBody = (b.at # "none") /\ (r.pieces > 0 => r.loaded)
    BY <1>3, <1>6, <2>1
  <2>4. ~early => Whole(r, m, b, n, turn)
    BY <1>3, <1>5, <1>6, <2>1 DEF Whole
  <2> QED BY <1>1, <1>2, <1>4, <1>5, <1>6, <2>1, <2>2, <2>3, <2>4, ReasoningNext
<1>7. CASE b = Outputs!NoAnswer /\ m = meta /\ \/ body.at = "answered"
                                                   /\ r = Outputs!Bodies(reasoning, body.pieces)
                                               \/ r = [reasoning EXCEPT !.loadingBody = FALSE]
  <2>1. /\ r \in ReasoningOf(n) /\ r.loadingBody = FALSE /\ r.loading = reasoning.loading
        /\ \/ r.loaded = reasoning.loaded /\ r.pieces = reasoning.pieces
           \/ body.at = "answered" /\ r.loaded = TRUE /\ r.pieces = body.pieces
    BY <1>2, <1>7 DEF Outputs!Bodies, ReasoningOf
  <2>2. r.loadingBody = (b.at # "none")
    BY <1>5, <1>7, <2>1
  <2>3. r.loading = (m.at # "none") /\ (r.pieces > 0 => r.loaded)
    BY <1>3, <1>7, <2>1
  <2>4. ~early => Whole(r, m, b, n, turn)
    BY <1>3, <1>5, <1>7, <2>1 DEF Whole
  <2> QED BY <1>1, <1>2, <1>4, <1>5, <1>7, <2>1, <2>2, <2>3, <2>4, ReasoningNext
<1> QED BY <1>1, <1>6, <1>7 DEF Outputs!ApplyReasoning, Outputs!FailReasoning

OutputsInv == OutputInv /\ ReasoningInv /\ reloads \in 0..MaxReloads

LEMMA OutputsBegin ==
    ASSUME Outputs!Init
    PROVE  OutputsInv
<1>1. OutputInv
  BY OutputBegins
<1>2. PICK r, m : r = Outputs!NoReasoning /\ m = Outputs!NoAnswer
  OBVIOUS
<1>3. /\ pieces = 0 /\ turn = "runs" /\ early = FALSE /\ reasoning = r /\ meta = m /\ body = m
      /\ reloads = 0
  BY <1>2 DEF Outputs!Init
<1>4. r \in ReasoningOf(0) /\ m \in AnswerOf(0)
  BY <1>2 DEF Outputs!NoReasoning, Outputs!NoAnswer, ReasoningOf, AnswerOf
<1>5. /\ m.at = "none" /\ r.loading = FALSE /\ r.loadingBody = FALSE /\ r.loaded = FALSE
      /\ r.pieces = 0
  BY <1>2 DEF Outputs!NoReasoning, Outputs!NoAnswer
<1>6. ReasoningTyped
  <2>1. 0 \in 0..MaxPieces
    BY OutputBounds
  <2>2. /\ reasoning \in ReasoningOf(pieces) /\ meta \in AnswerOf(pieces)
        /\ body \in AnswerOf(pieces)
    BY <1>3, <1>4
  <2>3. pieces \in 0..MaxPieces /\ turn \in {"runs", "over", "ended"} /\ early \in BOOLEAN
    BY <1>3, <2>1
  <2> QED BY <2>2, <2>3 DEF ReasoningTyped
<1>7. /\ r.loading = (m.at # "none") /\ r.loadingBody = (m.at # "none")
      /\ (r.pieces > 0 => r.loaded)
  <2>1. r.loading = (m.at # "none")
    BY <1>5
  <2>2. r.loadingBody = (m.at # "none")
    BY <1>5
  <2> QED BY <1>5, <2>1, <2>2
<1>8. ReasoningInv
  BY <1>3, <1>5, <1>6, <1>7 DEF ReasoningInv
<1> QED BY <1>1, <1>3, <1>8, OutputBounds DEF OutputsInv

LEMMA ReloadRestarts ==
    ASSUME ReasoningInv, Outputs!Reload
    PROVE  ReasoningInv'
<1>1. PICK n, r, m, b : n = pieces /\ r = Outputs!NoReasoning /\ m = Outputs!NoAnswer
        /\ b = Outputs!NoAnswer
  OBVIOUS
<1>8. /\ UNCHANGED <<pieces, turn>> /\ early' = FALSE /\ reasoning' = r /\ meta' = m
          /\ body' = b
  BY <1>1 DEF Outputs!Reload
<1>2. n \in Nat /\ n <= MaxPieces /\ 0 \in 0..n
  BY <1>1, ReasoningIs
<1>3. turn' \in {"runs", "over", "ended"}
  BY <1>8, ReasoningIs
<1>4. r \in ReasoningOf(n) /\ m \in AnswerOf(n) /\ b \in AnswerOf(n)
  BY <1>1, <1>2 DEF Outputs!NoReasoning, Outputs!NoAnswer, ReasoningOf, AnswerOf
<1>5. /\ m.at = "none" /\ b.at = "none" /\ r.loading = FALSE /\ r.loadingBody = FALSE
      /\ r.loaded = FALSE
      /\ r.pieces = 0
  BY <1>1 DEF Outputs!NoReasoning, Outputs!NoAnswer
<1>6. /\ r.loading = (m.at # "none") /\ r.loadingBody = (b.at # "none")
      /\ (r.pieces > 0 => r.loaded)
  <2>1. r.loading = (m.at # "none")
    BY <1>5
  <2>2. r.loadingBody = (b.at # "none")
    BY <1>5
  <2> QED BY <1>5, <2>1, <2>2
<1>7. Whole(r, m, b, n, turn')
  BY <1>5 DEF Whole
<1> QED BY <1>1, <1>2, <1>3, <1>4, <1>6, <1>7, <1>8, ReasoningNext

LEMMA OutputsKeep ==
    ASSUME OutputsInv, [Outputs!Next]_Outputs!vars
    PROVE  OutputsInv'
<1>1. OutputInv /\ ReasoningInv /\ reloads \in 0..MaxReloads
  BY DEF OutputsInv
<1>2. CASE Outputs!Write \/ Outputs!Receive \/ Outputs!Leave \/ Outputs!Return
        \/ Outputs!Open \/ Outputs!OpenOlder \/ Outputs!Answer \/ Outputs!Apply \/ Outputs!Fail
  <2>1. UNCHANGED Outputs!reasoningVars /\ reloads' = reloads
    BY <1>2 DEF Outputs!Write, Outputs!Receive, Outputs!Leave, Outputs!Return, Outputs!Open,
       Outputs!OpenOlder, Outputs!Answer, Outputs!Apply, Outputs!Fail
  <2>2. OutputInv'
    BY <1>1, <1>2, WriteKeeps, ReceiveKeepsOutput, LeaveKeepsOutput, ReturnKeeps, OpenKeeps,
       AnswerKeeps,
       ApplyKeeps, FailKeeps
  <2> QED BY <1>1, <2>1, <2>2, ReasoningStays DEF OutputsInv
<1>3. CASE Outputs!Think \/ Outputs!Complete \/ Outputs!AskTitles \/ Outputs!AskBodies
        \/ Outputs!AnswerReasoning \/ Outputs!ApplyReasoning \/ Outputs!FailReasoning
  BY <1>3, <1>1, ThinkKeeps, OutputAskKeeps, AnswerReasoningKeeps, ApplyReasoningKeeps,
     OutputStays DEF Outputs!Think, Outputs!Complete, Outputs!AskTitles, Outputs!AskBodies,
     Outputs!AnswerReasoning, Outputs!ApplyReasoning, Outputs!FailReasoning, OutputsInv
<1>4. CASE Outputs!Reload
  <2>1. reloads < MaxReloads /\ reloads' = reloads + 1
    BY <1>4 DEF Outputs!Reload
  <2>2. reloads' \in 0..MaxReloads
    BY <1>1, <2>1, OutputBounds
  <2> QED BY <1>1, <1>4, <2>2, OutputReloadKeeps, ReloadRestarts DEF OutputsInv
<1>5. CASE UNCHANGED Outputs!vars
  BY <1>5, <1>1, OutputStays, ReasoningStays DEF Outputs!vars, OutputsInv
<1> QED BY <1>2, <1>3, <1>4, <1>5 DEF Outputs!Next

LEMMA OutputsFollow ==
    ASSUME OutputsInv
    PROVE  Outputs!TypeOK /\ Outputs!OutputAgrees /\ Outputs!ReasoningAgrees
<1>1. PICK n, p : n = stored /\ p = pieces
  OBVIOUS
<1>2. /\ n \in Nat /\ n <= MaxTexts /\ outputFrames \in Seq(1..n) /\ outputSelected \in BOOLEAN
      /\ output \in OutputOf(n) /\ output.texts \in Seq(1..n) /\ output.before \in 0..n
      /\ call \in CallOf(n) /\ again \subseteq Outputs!Text
          /\ outputMissed \subseteq Outputs!Text /\ leaves \in 0..MaxLeaves
      /\ 1..n \subseteq Outputs!Text
  BY <1>1, OutputIs DEF OutputsInv
<1>3. /\ p \in Nat /\ p <= MaxPieces /\ turn \in {"runs", "over", "ended"} /\ early \in BOOLEAN
      /\ reasoning \in ReasoningOf(p) /\ meta \in AnswerOf(p) /\ body \in AnswerOf(p)
  BY <1>1, ReasoningIs DEF OutputsInv
<1>4. /\ 0..n \subseteq 0..MaxTexts /\ 0..p \subseteq 0..MaxPieces /\ n \in 0..MaxTexts
      /\ p \in 0..MaxPieces
  BY <1>2, <1>3, OutputBounds
<1>5. Outputs!TypeOK
  <2>1. outputFrames \in Seq(Outputs!Text) /\ output.texts \in Seq(Outputs!Text)
    BY <1>2
  <2>2. DOMAIN output = DOMAIN Outputs!NoOutput
    BY <1>2 DEF OutputOf, Outputs!NoOutput
  <2>3. call \in [at : {"none", "asked", "answered"}, before : 0..MaxTexts, upto : 0..MaxTexts]
    BY <1>2, <1>4 DEF CallOf
  <2>4. reasoning \in [loading : BOOLEAN, loaded : BOOLEAN, loadingBody : BOOLEAN,
          bodyLoaded : BOOLEAN,
                       pieces : 0..MaxPieces, bodies : BOOLEAN]
    BY <1>3, <1>4 DEF ReasoningOf
  <2>5. {meta, body} \subseteq [at : {"none", "asked", "answered"}, pieces : 0..MaxPieces]
    BY <1>3, <1>4 DEF AnswerOf
  <2>6. output.loading = (call.at # "none")
    BY DEF OutputsInv, OutputInv, CallFits
  <2>7. reasoning.loading = (meta.at # "none") /\ reasoning.loadingBody = (body.at # "none")
    BY DEF OutputsInv, ReasoningInv
  <2>8. output.before \in 0..MaxTexts /\ stored \in 0..MaxTexts /\ pieces \in 0..MaxPieces
    BY <1>1, <1>2, <1>4
  <2> QED BY <1>2, <1>3, <2>1, <2>2, <2>3, <2>4, <2>5, <2>6, <2>7, <2>8 DEF Outputs!TypeOK,
        OutputsInv
<1>6. Outputs!OutputAgrees
  BY DEF OutputsInv, OutputInv, TextsRise, NoneLeftOut, Streamed, Somewhere,
     Outputs!OutputAgrees
<1>7. Outputs!ReasoningAgrees
  BY DEF OutputsInv, ReasoningInv, Outputs!ReasoningAgrees
<1> QED BY <1>5, <1>6, <1>7

-----------------------------------------------------------------------------
(* The types.  What is known of the list, the models and the options says   *)
(* nothing of their bounds: for that, no time is beyond the changes of the   *)
(* table, no list of models is newer than the last upgrade, and every choice *)
(* is a change that was made or a call that has yet to make one.             *)

LEMMA ListBounds ==
    MaxListChanges \in Nat /\ MaxCalls \in Nat /\ MaxSnapshots \in Nat /\ ListPage \in Nat \ {0}
BY MCWebAssumption

\* No time or number is beyond the changes of the table so far.
Within(e, n) == e.at <= n /\ e.seq <= n /\ e.read <= n
TableWithin(t, n) == \A s \in Session : Within(t[s], n)
PageWithin(p, n) == p.next <= n /\ TableWithin(p.entries, n)
FrameWithin(f, n) == IF HasPage(f) THEN PageWithin(f.page, n) ELSE Within(f.entry, n)
FramesWithin(u, n) == \A i \in 1..Len(u) : FrameWithin(u[i], n)
AnswersWithin(A, n) == \A a \in A : Within(a.entry, n)
ListsWithin ==
    /\ TableWithin(table, listChanges) /\ TableWithin(listRows, listChanges)
    /\ FramesWithin(listUpdates, listChanges) /\ AnswersWithin(answers, listChanges)
    /\ PageWithin(paging, listChanges) /\ list.before <= listChanges
ListsCounted ==
    /\ listChanges <= MaxListChanges /\ listCalls \in 0..MaxCalls
        /\ snapshots \in 0..MaxSnapshots
    /\ needs \subseteq Session /\ unmoved \subseteq Session /\ hasty \subseteq Session

LEMMA WithinMore ==
    ASSUME NEW n \in Nat, NEW m \in Nat, n <= m
    PROVE  /\ \A e \in ListEntry : Within(e, n) => Within(e, m)
           /\ \A t \in [Session -> ListEntry] : TableWithin(t, n) => TableWithin(t, m)
           /\ \A u \in Seq(Frame) : FramesWithin(u, n) => FramesWithin(u, m)
           /\ \A A \in SUBSET AnswerOfCall : AnswersWithin(A, n) => AnswersWithin(A, m)
           /\ \A p \in PagingOfList : PageWithin(p, n) => PageWithin(p, m)
<1>1. \A e \in ListEntry : Within(e, n) => Within(e, m)
  BY DEF Within, ListEntry
<1>2. \A t \in [Session -> ListEntry] : TableWithin(t, n) => TableWithin(t, m)
  BY <1>1 DEF TableWithin
<1>3. \A p \in PageOfList : PageWithin(p, n) => PageWithin(p, m)
  BY <1>2 DEF PageWithin, PageOfList
<1>4. \A f \in Frame : FrameWithin(f, n) => FrameWithin(f, m)
  BY <1>1, <1>3 DEF FrameWithin, Frame, HasPage
<1>5. \A u \in Seq(Frame) : FramesWithin(u, n) => FramesWithin(u, m)
  BY <1>4 DEF FramesWithin
<1>6. \A A \in SUBSET AnswerOfCall : AnswersWithin(A, n) => AnswersWithin(A, m)
  BY <1>1 DEF AnswersWithin, AnswerOfCall
<1>7. \A p \in PagingOfList : PageWithin(p, n) => PageWithin(p, m)
  BY <1>2 DEF PageWithin, PagingOfList
<1> QED BY <1>1, <1>2, <1>5, <1>6, <1>7

LEMMA NothingWithin == ASSUME NEW n \in Nat PROVE Within(Lists!NoEntry, n)
    /\ Lists!NoEntry \in ListEntry
BY DEF Within, Lists!NoEntry, ListEntry

LEMMA FramesWithinMore ==
    ASSUME NEW n \in Nat, NEW u \in Seq(Frame), FramesWithin(u, n), NEW s \in Session,
           NEW kind \in {"upsert", "delete", "event"}, NEW e \in ListEntry, Within(e, n)
    PROVE  FramesWithin(Append(u, Lists!Send(kind, s, e)), n)
<1> DEFINE f == Lists!Send(kind, s, e)
<1>1. f \in Frame /\ FrameWithin(f, n)
  BY SendIsFrame DEF FrameWithin
<1> HIDE DEF f
<1>2. /\ Append(u, f) \in Seq(Frame) /\ Len(Append(u, f)) = Len(u) + 1 /\ Len(u) \in Nat
      /\ Append(u, f)[Len(u) + 1] = f
      /\ \A i \in 1..Len(u) : Append(u, f)[i] = u[i]
  BY <1>1, AppendFacts
<1>3. ASSUME NEW i \in 1..(Len(u) + 1) PROVE FrameWithin(Append(u, f)[i], n)
  BY <1>1, <1>2 DEF FramesWithin
<1>4. FramesWithin(Append(u, f), n)
  BY <1>2, <1>3 DEF FramesWithin
<1> QED BY <1>4 DEF f

LEMMA FramesWithinTail ==
    ASSUME NEW n \in Nat, NEW u \in Seq(Frame), FramesWithin(u, n), u # <<>>
    PROVE  FramesWithin(Tail(u), n) /\ FrameWithin(Head(u), n)
<1>1. /\ Head(u) = u[1] /\ 1 \in 1..Len(u)
      /\ \A i \in 1..Len(Tail(u)) : Tail(u)[i] = u[i + 1] /\ i + 1 \in 1..Len(u)
  BY TailFacts
<1> QED BY <1>1 DEF FramesWithin

\* A change of the table, which the stream and an answer may tell.
HostChanges(s, d) ==
    /\ table' = [table EXCEPT ![s] = d]
    /\ listUpdates' = listUpdates
       \/ \E kind \in {"upsert", "delete", "event"} :
              listUpdates' = Append(listUpdates, Lists!Send(kind, s, d))
    /\ \A a \in answers' : a \in answers \/ a.entry = d
    /\ listRows' = listRows /\ list' = list /\ paging' = paging

LEMMA HostStaysWithin ==
    ASSUME ListsTyped, ListsWithin, NEW s \in Session, NEW d \in ListEntry, HostChanges(s, d),
           listChanges' \in Nat, listChanges <= listChanges', Within(d, listChanges')
    PROVE  ListsWithin'
<1>1. PICK n, m : n = listChanges /\ m = listChanges'
  OBVIOUS
<1>2. /\ n \in Nat /\ m \in Nat /\ n <= m /\ Within(d, m)
      /\ table \in [Session -> ListEntry] /\ listUpdates \in Seq(Frame)
      /\ listRows \in [Session -> ListEntry] /\ list \in Cursor /\ paging \in PagingOfList
      /\ answers \subseteq AnswerOfCall
  BY <1>1 DEF ListsTyped, HostTyped, PageTyped
<1>3. /\ TableWithin(table, m) /\ TableWithin(listRows, m) /\ FramesWithin(listUpdates, m)
      /\ AnswersWithin(answers, m) /\ PageWithin(paging, m)
  BY <1>1, <1>2, WithinMore DEF ListsWithin
<1>4. list.before <= m
  BY <1>1, <1>2 DEF ListsWithin, Cursor
<1>5. TableWithin(table', m)
  BY <1>2, <1>3 DEF TableWithin, HostChanges
<1>6. FramesWithin(listUpdates', m)
  BY <1>2, <1>3, FramesWithinMore DEF HostChanges
<1>7. AnswersWithin(answers', m)
  BY <1>2, <1>3 DEF AnswersWithin, HostChanges
<1> QED BY <1>1, <1>3, <1>4, <1>5, <1>6, <1>7 DEF ListsWithin, HostChanges

LEMMA CallStaysWithin ==
    ASSUME ListsTyped, ListsWithin, NEW kind \in {"read", "archive", "unarchive"},
             NEW s \in Session,
           Lists!Call(kind, s), UNCHANGED <<listRows, list, paging, listChanges>>
    PROVE  ListsWithin'
<1> DEFINE d == Lists!Changed(kind, table[s])
<1>1. /\ table[s] \in ListEntry /\ Within(table[s], listChanges) /\ listChanges \in Nat
  BY DEF ListsTyped, HostTyped, ListsWithin, TableWithin
<1>2. d \in ListEntry
  BY <1>1, ChangedTyped
<1>3. Within(d, listChanges)
  BY <1>1 DEF Lists!Changed, Within, ListEntry
<1>4. table' = [table EXCEPT ![s] = d] /\ table'[s] = d
  BY CallTyped
<1> HIDE DEF d
<1>5. /\ listUpdates' = Append(listUpdates, Lists!Send("upsert", s, d))
      /\ answers' = answers \cup {[kind |-> kind, s |-> s, entry |-> d]}
  BY <1>4 DEF Lists!Call
<1>6. HostChanges(s, d)
  BY <1>4, <1>5 DEF HostChanges
<1> QED BY <1>1, <1>2, <1>3, <1>6, HostStaysWithin

LEMMA HostStepWithin ==
    ASSUME ListsTyped, ListsWithin, NEW s \in Session,
           \/ Lists!Create(s) \/ Lists!Event(s) \/ Lists!Delete(s) \/ Lists!Prune(s)
           \/ \E kind \in {"archive", "unarchive"} : Lists!Archive(kind, s)
    PROVE  ListsWithin'
<1>1. /\ table \in [Session -> ListEntry] /\ table[s] \in ListEntry /\ listChanges \in Nat
      /\ Within(table[s], listChanges)
  BY DEF ListsTyped, HostTyped, ListsWithin, TableWithin
<1>2. Lists!Now \in Nat /\ listChanges <= Lists!Now /\ Lists!Now = listChanges + 1
  BY <1>1 DEF Lists!Now
<1>3. CASE Lists!Create(s)
  <2> DEFINE d == [Lists!NoEntry EXCEPT !.at = Lists!Now]
  <2>1. d \in ListEntry /\ Within(d, Lists!Now)
    <3>1. d \in ListEntry
      BY <1>2, NothingWithin, EntryWith
    <3>2. d.at = Lists!Now /\ d.seq = 0 /\ d.read = 0
      BY DEF Lists!NoEntry
    <3> HIDE DEF d
    <3> QED BY <1>2, <3>1, <3>2 DEF Within
  <2>2. table' = [table EXCEPT ![s] = d]
    BY <1>3 DEF Lists!Create
  <2> HIDE DEF d
  <2>3. table'[s] = d
    BY <1>1, <2>2
  <2>4. HostChanges(s, d) /\ listChanges' = Lists!Now
    BY <1>3, <2>2, <2>3 DEF Lists!Create, HostChanges
  <2> QED BY <1>2, <2>1, <2>4, HostStaysWithin
<1>4. CASE Lists!Event(s)
  <2> DEFINE d == [table[s] EXCEPT !.at = Lists!Now, !.seq = @ + 1]
  <2>1. d \in ListEntry /\ Within(d, Lists!Now)
    <3>1. /\ d.archived \in BOOLEAN /\ d.at = Lists!Now /\ d.seq = table[s].seq + 1
          /\ d.read = table[s].read /\ DOMAIN d = {"archived", "at", "seq", "read"}
      BY <1>1 DEF ListEntry
    <3>2. /\ table[s].seq \in Nat /\ table[s].read \in Nat
          /\ table[s].seq <= listChanges /\ table[s].read <= listChanges
      BY <1>1 DEF ListEntry, Within
    <3>3. d.at \in Nat /\ d.seq \in Nat /\ d.read \in Nat
      BY <1>2, <3>1, <3>2
    <3>4. d \in ListEntry
      <4>1. table[s].seq + 1 \in Nat
        BY <3>2
      <4> QED BY <1>1, <1>2, <4>1, EntryWith
    <3> HIDE DEF d
    <3> QED BY <1>1, <1>2, <3>1, <3>2, <3>4 DEF Within
  <2>2. table' = [table EXCEPT ![s] = d]
    BY <1>4 DEF Lists!Event
  <2> HIDE DEF d
  <2>3. table'[s] = d
    BY <1>1, <2>2
  <2>4. HostChanges(s, d) /\ listChanges' = Lists!Now
    BY <1>4, <2>2, <2>3 DEF Lists!Event, HostChanges
  <2> QED BY <1>2, <2>1, <2>4, HostStaysWithin
<1>5. CASE Lists!Delete(s) \/ Lists!Prune(s)
  BY <1>2, NothingWithin, <1>5, HostStaysWithin DEF Lists!Delete, Lists!Prune, HostChanges
<1>6. ASSUME NEW kind \in {"archive", "unarchive"}, Lists!Archive(kind, s) PROVE ListsWithin'
  BY <1>6, CallStaysWithin DEF Lists!Archive
<1> QED BY <1>3, <1>4, <1>5, <1>6

LEMMA PageBeforeWithin ==
    ASSUME ListsTyped, AllIsMade, ListsWithin, NEW b \in Nat
    PROVE  /\ Lists!PageBefore(b) \in PageOfList
           /\ PageWithin(Lists!PageBefore(b), listChanges)
<1> DEFINE p == Lists!PageBefore(b)
<1>1. /\ p \in PageOfList
      /\ \A s \in Session : /\ s \in p.rows => Lists!There(table, s)
                            /\ p.entries[s] = IF s \in p.rows THEN table[s] ELSE Lists!NoEntry
      /\ p.next = 0 \/ \E s \in Session : p.next = table[s].at
  BY PageBeforeIs DEF ListsTyped, AllIsMade
<1>2. /\ listChanges \in Nat /\ table \in [Session -> ListEntry]
      /\ \A s \in Session : Within(table[s], listChanges)
  BY DEF ListsTyped, HostTyped, ListsWithin, TableWithin
<1>3. TableWithin(p.entries, listChanges)
  BY <1>1, <1>2, NothingWithin DEF TableWithin
<1> HIDE DEF p
<1>4. p.next <= listChanges
  BY <1>1, <1>2 DEF Within
<1> QED BY <1>1, <1>3, <1>4 DEF PageWithin, p

LEMMA NoPagingWithin ==
    ASSUME NEW n \in Nat
    PROVE  /\ PageWithin(Lists!NoPaging, n)
           /\ \A b : PageWithin([Lists!NoPaging EXCEPT !.at = "asked", !.before = b], n)
<1> DEFINE e == [s \in Session |-> Lists!NoEntry]
<1>1. TableWithin(e, n)
  BY NothingWithin DEF TableWithin
<1>2. Lists!NoPaging.entries = e /\ Lists!NoPaging.next = 0
  BY DEF Lists!NoPaging
<1>3. ASSUME NEW b
      PROVE  /\ [Lists!NoPaging EXCEPT !.at = "asked", !.before = b].entries = e
             /\ [Lists!NoPaging EXCEPT !.at = "asked", !.before = b].next = 0
  BY DEF Lists!NoPaging
<1> HIDE DEF e
<1> QED BY <1>1, <1>2, <1>3 DEF PageWithin

\* What the page does with a row of no later number.
PagePuts(u, s, d) ==
    /\ listUpdates' = u /\ listRows' = [listRows EXCEPT ![s] = d]
    /\ UNCHANGED <<table, list, paging, listChanges>> /\ answers' \subseteq answers

LEMMA PutStaysWithin ==
    ASSUME ListsTyped, ListsWithin, NEW s \in Session, NEW d \in ListEntry,
           Within(d, listChanges), NEW u \in Seq(Frame), FramesWithin(u, listChanges),
           PagePuts(u, s, d)
    PROVE  ListsWithin'
<1>1. listRows \in [Session -> ListEntry]
  BY DEF ListsTyped, PageTyped
<1>2. TableWithin(listRows', listChanges) /\ AnswersWithin(answers', listChanges)
  BY <1>1 DEF PagePuts, ListsWithin, TableWithin, AnswersWithin
<1> QED BY <1>2 DEF PagePuts, ListsWithin

LEMMA PageStepWithin ==
    ASSUME ListsTyped, AllIsMade, ListsWithin,
           \/ Lists!Snapshot \/ Lists!Upsert \/ Lists!Removed \/ Lists!Told
           \/ \E a \in answers : Lists!Answered(a)
    PROVE  ListsWithin'
<1>1. /\ listRows \in [Session -> ListEntry] /\ listChanges \in Nat /\ PageTyped
      /\ listUpdates \in Seq(Frame) /\ answers \subseteq AnswerOfCall
      /\ FramesWithin(listUpdates, listChanges) /\ TableWithin(listRows, listChanges)
  BY DEF ListsTyped, HostTyped, PageTyped, ListsWithin
<1>2. ASSUME listUpdates # <<>>
      PROVE  /\ Tail(listUpdates) \in Seq(Frame) /\ FramesWithin(Tail(listUpdates), listChanges)
             /\ FrameWithin(Head(listUpdates), listChanges)
             /\ HasPage(Head(listUpdates)) => Head(listUpdates).page \in PageOfList
             /\ ~HasPage(Head(listUpdates)) =>
                  Head(listUpdates).s \in Session /\ Head(listUpdates).entry \in ListEntry
  BY <1>1, <1>2, FramesWithinTail, HeadFrame DEF HasPage
<1>3. CASE Lists!Snapshot
  BY <1>3, <1>2 DEF Lists!Snapshot, HasPage, Lists!bounds, FrameWithin, ListsWithin, PageWithin
<1>4. CASE Lists!Upsert
  BY <1>4, <1>2, <1>1, PutTyped, PutStaysWithin DEF Lists!Upsert, HasPage, Lists!bounds,
     FrameWithin, PagePuts
<1>5. CASE Lists!Removed
  BY <1>5, <1>1, <1>2, NothingWithin, PutStaysWithin DEF Lists!Removed, HasPage, Lists!bounds,
     PagePuts
<1>6. CASE Lists!Told
  <2>1. /\ listUpdates # <<>> /\ ~HasPage(Head(listUpdates)) /\ listUpdates' = Tail(listUpdates)
        /\ UNCHANGED <<table, list, paging, answers, listChanges>>
    BY <1>6 DEF Lists!Told, HasPage, Lists!bounds
  <2>2. Within(Head(listUpdates).entry, listChanges)
    BY <1>2, <2>1 DEF FrameWithin
  <2>3. CASE Head(listUpdates).s \notin Lists!Known
    BY <1>6, <2>3, <1>2, <2>1 DEF Lists!Told, ListsWithin
  <2>4. CASE Head(listUpdates).s \in Lists!Known
    <3>1. PICK s, d, r, e : /\ s = Head(listUpdates).s /\ d = listRows'[s] /\ r = listRows[s]
                            /\ e = Head(listUpdates).entry
      OBVIOUS
    <3>2. /\ s \in Session /\ r \in ListEntry /\ d \in ListEntry /\ SameMarks(d, r)
          /\ d.at = (IF r.at > e.at THEN r.at ELSE e.at)
          /\ d.seq = (IF r.seq > e.seq THEN r.seq ELSE e.seq)
          /\ listRows' = [listRows EXCEPT ![s] = d]
      BY <1>6, <2>4, <3>1, ToldTyped
    <3>3. Within(r, listChanges) /\ Within(e, listChanges)
      BY <1>1, <2>2, <3>1, <3>2 DEF TableWithin
    <3>4. Within(d, listChanges)
      BY <3>2, <3>3 DEF Within, SameMarks
    <3>5. PagePuts(Tail(listUpdates), s, d)
      BY <2>1, <3>2 DEF PagePuts
    <3> QED BY <1>2, <2>1, <3>2, <3>4, <3>5, PutStaysWithin
  <2> QED BY <2>3, <2>4
<1>7. ASSUME NEW a \in answers, Lists!Answered(a) PROVE ListsWithin'
  BY <1>1, <1>7, PutTyped, PutStaysWithin DEF AnswerOfCall, ListsWithin, AnswersWithin,
     Lists!Answered, PagePuts, Lists!hostVars, Lists!bounds
<1> QED BY <1>3, <1>4, <1>5, <1>6, <1>7

LEMMA ListsWithinStep == ListsInv /\ ListsWithin /\ [Lists!Next]_Lists!vars => ListsWithin'
<1> SUFFICES ASSUME ListsInv, ListsWithin, [Lists!Next]_Lists!vars PROVE ListsWithin'
  OBVIOUS
<1>1. /\ ListsTyped /\ AllIsMade /\ list \in Cursor /\ paging \in PagingOfList
      /\ timer \in Session \cup {NoSession} /\ listChanges \in Nat
      /\ listRows \in [Session -> ListEntry]
  BY DEF ListsInv, ListsTyped, HostTyped, PageTyped
<1>2. CASE UNCHANGED <<table, listRows, listUpdates, answers, paging, list, listChanges>>
  BY <1>2 DEF ListsWithin
<1>3. ASSUME NEW s \in Session,
             \/ Lists!Create(s) \/ Lists!Event(s) \/ Lists!Delete(s) \/ Lists!Prune(s)
             \/ \E kind \in {"archive", "unarchive"} : Lists!Archive(kind, s)
      PROVE  ListsWithin'
  BY <1>1, <1>3, HostStepWithin
<1>4. CASE \/ Lists!Snapshot \/ Lists!Upsert \/ Lists!Removed \/ Lists!Told
           \/ \E a \in answers : Lists!Answered(a)
  BY <1>1, <1>4, PageStepWithin
<1>5. CASE Lists!Connect
  BY <1>1, <1>5, PageBeforeWithin DEF Lists!Connect, PagingOfList, FrameWithin, HasPage,
     FramesWithin, ListsWithin, PageWithin
<1>6. ASSUME NEW a \in answers, Lists!Unanswered(a) PROVE ListsWithin'
  BY <1>6 DEF Lists!Unanswered, Lists!hostVars, Lists!bounds, ListsWithin, AnswersWithin
<1>7. CASE Lists!More \/ Lists!MoreFails
  BY <1>1, <1>7, NoPagingWithin DEF Lists!More, Lists!MoreFails, Lists!hostVars, Lists!bounds,
     ListsWithin
<1>8. CASE Lists!MoreAnswered
  BY <1>1, <1>8, PageBeforeWithin DEF PagingOfList, Lists!MoreAnswered, Lists!PageAnswer,
     PageWithin, Lists!hostVars, Lists!bounds, ListsWithin
<1>9. CASE Lists!MoreApplied
  BY <1>9, <1>1, NoPagingWithin DEF Lists!MoreApplied, Lists!hostVars, Lists!bounds,
     ListsWithin, TableWithin, PageWithin, Cursor
<1>10. CASE Lists!Mark
  BY <1>10, <1>2, <1>1, CallStaysWithin DEF Lists!Mark, Lists!hostVars
<1>11. ASSUME \/ \E s \in Session \cup {NoSession} : Lists!Select(s)
              \/ Lists!Interact \/ UNCHANGED Lists!vars
       PROVE  ListsWithin'
  BY <1>2, <1>11 DEF Lists!Select, Lists!Interact, Lists!vars, Lists!hostVars, Lists!bounds
<1> QED BY <1>3, <1>4, <1>5, <1>6, <1>7, <1>8, <1>9, <1>10, <1>11 DEF Lists!Next

LEMMA ListsCountedStep ==
    ListsInv /\ ListsCounted /\ [Lists!Next]_Lists!vars => ListsCounted'
<1> SUFFICES ASSUME ListsInv, ListsCounted, [Lists!Next]_Lists!vars PROVE ListsCounted'
  OBVIOUS
<1>0. /\ listChanges \in Nat /\ snapshots \in Nat /\ listUpdates \in Seq(Frame)
      /\ answers \subseteq AnswerOfCall /\ paging \in PagingOfList
      /\ timer \in Session \cup {NoSession}
  BY DEF ListsInv, ListsTyped, HostTyped, PageTyped
<1>1. \A n, e : \A s \in Session : n \subseteq Session =>
        Lists!NeedsOf(n, s, e) \subseteq Session
  BY DEF Lists!NeedsOf
<1>2. ASSUME NEW kind, NEW s, Lists!Call(kind, s) PROVE listCalls' \in 0..MaxCalls
  BY <1>2, ListBounds DEF Lists!Call, ListsCounted
<1>3. ASSUME listUpdates # <<>>, Head(listUpdates).kind # "snapshot"
      PROVE  Head(listUpdates).s \in Session
  BY <1>0, <1>3, HeadFrame
<1>4. ASSUME NEW s \in Session, Lists!Create(s) \/ Lists!Event(s) \/ Lists!Delete(s)
        \/ Lists!Prune(s)
      PROVE  ListsCounted'
  BY <1>0, <1>4, ListBounds DEF Lists!Create, Lists!Event, Lists!Delete, Lists!Prune, Lists!Now,
     Lists!gateVars, ListsCounted
<1>5. ASSUME NEW s \in Session, NEW kind, Lists!Archive(kind, s) PROVE ListsCounted'
  BY <1>2, <1>5 DEF Lists!Archive, Lists!gateVars, ListsCounted
<1>6. ASSUME NEW s, Lists!Select(s) PROVE ListsCounted'
  BY <1>6 DEF Lists!Select, Lists!bounds, ListsCounted
<1>7. ASSUME NEW a \in answers, Lists!Answered(a) PROVE ListsCounted'
  BY <1>0, <1>1, <1>7 DEF AnswerOfCall, Lists!Answered, Lists!Put, ListsCounted, Lists!bounds
<1>8. ASSUME NEW a, Lists!Unanswered(a) PROVE ListsCounted'
  BY <1>8 DEF Lists!Unanswered, Lists!gateVars, Lists!bounds, ListsCounted
<1>9. CASE Lists!Connect
  BY <1>0, <1>9, ListBounds DEF Lists!Connect, Lists!gateVars, ListsCounted
<1>10. CASE Lists!Snapshot
  BY <1>0, <1>10, HeadFrame DEF Lists!Snapshot, PageOfList, ListsCounted, Lists!bounds
<1>11. CASE Lists!Upsert
  BY <1>1, <1>3, <1>11 DEF Lists!Upsert, Lists!Put, ListsCounted, Lists!bounds
<1>12. CASE Lists!Removed
  BY <1>12 DEF Lists!Removed, Lists!bounds, ListsCounted
<1>13. CASE Lists!Told
  BY <1>1, <1>3, <1>13 DEF Lists!Told, ListsCounted, Lists!bounds
<1>14. CASE Lists!More \/ Lists!MoreAnswered \/ Lists!MoreFails
  BY <1>14 DEF Lists!More, Lists!MoreAnswered, Lists!MoreFails, Lists!gateVars, Lists!bounds,
     ListsCounted
<1>15. CASE Lists!MoreApplied
  BY <1>15 DEF Lists!MoreApplied, Lists!bounds, ListsCounted
<1>16. CASE Lists!Interact
  BY <1>16 DEF Lists!Interact, Lists!bounds, ListsCounted
<1>17. CASE Lists!Mark
  BY <1>0, <1>17, <1>2 DEF Lists!Mark, ListsCounted
<1>18. CASE UNCHANGED Lists!vars
  BY <1>18 DEF Lists!vars, Lists!gateVars, Lists!bounds, ListsCounted
<1> QED BY <1>4, <1>5, <1>6, <1>7, <1>8, <1>9, <1>10, <1>11, <1>12, <1>13, <1>14, <1>15, <1>16,
      <1>17, <1>18 DEF Lists!Next

LEMMA ListsBegin == Lists!Init => ListsWithin /\ ListsCounted
<1> SUFFICES ASSUME Lists!Init PROVE ListsWithin /\ ListsCounted
  OBVIOUS
<1>1. ListsCounted
  BY ListBounds DEF Lists!Init, ListsCounted
<1>2. TableWithin(table, 0) /\ TableWithin(listRows, 0)
  BY NothingWithin DEF Lists!Init, TableWithin
<1>3. PageWithin(paging, 0) /\ list.before <= 0
  <2>1. paging = Lists!NoPaging /\ list.before = 0
    BY DEF Lists!Init
  <2>2. PageWithin(Lists!NoPaging, 0)
    BY NoPagingWithin
  <2> QED BY <2>1, <2>2
<1> QED BY <1>1, <1>2, <1>3 DEF Lists!Init, ListsWithin, FramesWithin, AnswersWithin

LEMMA ListsTypeFollows == ListsInv /\ ListsWithin /\ ListsCounted => Lists!TypeOK
<1> SUFFICES ASSUME ListsInv, ListsWithin, ListsCounted PROVE Lists!TypeOK
  OBVIOUS
<1>1. PICK n : n = listChanges
  OBVIOUS
<1>2. /\ n \in Nat /\ n <= MaxListChanges + MaxCalls
      /\ ListsTyped /\ HostTyped /\ PageTyped
  BY <1>1, ListBounds DEF ListsInv, ListsTyped, HostTyped, ListsCounted
<1>3. \A e \in ListEntry : Within(e, n) => e \in Lists!Entry
  BY <1>2, ListBounds DEF ListEntry, Within, Lists!Entry, Lists!Time
<1>4. table \in [Session -> Lists!Entry] /\ listRows \in [Session -> Lists!Entry]
  BY <1>1, <1>2, <1>3 DEF HostTyped, PageTyped, ListsWithin, TableWithin
<1>5. list \in [loaded : BOOLEAN, more : BOOLEAN, before : Lists!Time]
  BY <1>1, <1>2, ListBounds DEF PageTyped, ListsWithin, Cursor, Lists!Time
<1>6. \A i \in 1..Len(listUpdates) : listUpdates[i].kind \in {"snapshot", "upsert", "delete",
        "event"}
  BY <1>2 DEF Frame, HostTyped
<1>7. paging.at \in {"none", "asked", "answered"} /\ paging.rows \subseteq Session
  BY <1>2 DEF PageTyped, PagingOfList
<1>8. {a.s : a \in answers} \subseteq Session
  BY <1>2 DEF PageTyped, AnswerOfCall
<1>9. listChanges \in 0..MaxListChanges
  BY <1>1, <1>2, ListBounds DEF ListsCounted
<1>10. /\ {current, timer} \subseteq Session \cup {NoSession}
       /\ passed \subseteq Session /\ ghosts \subseteq Session /\ stale \subseteq Session
       /\ made \subseteq Session
  BY <1>2 DEF HostTyped, PageTyped
<1>11. \A a \in {needs, unmoved, hasty, passed, ghosts, stale, made} : a \subseteq Session
  BY <1>10 DEF ListsCounted
<1> QED BY <1>4, <1>5, <1>6, <1>7, <1>8, <1>9, <1>10, <1>11 DEF Lists!TypeOK, ListsCounted

-----------------------------------------------------------------------------

LEMMA CatalogBounds ==
    MaxLinks \in Nat /\ MaxSwitches \in Nat /\ MaxListings \in Nat /\ CacheSize \in Nat
BY MCWebAssumption

\* The cache is no larger than it may be, and no list is newer than the last upgrade.
EntriesFit(es, n) == Len(es) <= CacheSize /\ \A i \in 1..Len(es) : es[i].list <= n
CallsFit(L, n) == \A l \in L : l.id <= MaxListings /\ l.list <= n
CatalogFits ==
    /\ EntriesFit(entries, links + 1) /\ CallsFit(listings, links + 1)
    /\ \A m \in Machine : installed[m] <= links + 1
    /\ modelsLoad.list <= links + 1 /\ catalog.list <= links + 1
    /\ links <= MaxLinks /\ switches \in 0..MaxSwitches
    /\ modelsSelected \in BOOLEAN /\ modelsMissed \in BOOLEAN

LEMMA TouchedFits ==
    ASSUME NEW n \in Nat, NEW es \in Seq(CacheEntry), OneEntryEach(es), EntriesFit(es, n),
           NEW e \in CacheEntry, e.list <= n
    PROVE  EntriesFit(Catalog!Touched(es, e), n)
<1> DEFINE t == Catalog!Touched(es, e)
<1>1. /\ Len(es) <= CacheSize => Len(t) <= CacheSize
      /\ \A j \in 1..Len(t) : t[j] = e \/ \E i \in 1..Len(es) : t[j] = es[i]
  BY TouchedKeeps
<1> HIDE DEF t
<1>2. EntriesFit(t, n)
  BY <1>1 DEF EntriesFit
<1> QED BY <1>2 DEF t

LEMMA AskFits ==
    ASSUME CacheInv, CatalogFits, NEW m \in Machine, Catalog!Ask(m)
    PROVE  EntriesFit(entries', links + 1) /\ CallsFit(listings', links + 1)
<1>0. /\ entries \in Seq(CacheEntry) /\ OneEntryEach(entries) /\ links + 1 \in Nat
      /\ EntriesFit(entries, links + 1) /\ CallsFit(listings, links + 1)
  BY DEF CacheInv, CatalogTyped, CatalogFits
<1>1. CASE Catalog!Known(m)
  <2> DEFINE e == CHOOSE x \in Catalog!EntryOf(m) : TRUE
  <2>1. e \in Catalog!EntryOf(m)
    BY <1>1 DEF Catalog!Known
  <2>2. entries' = Catalog!Touched(entries, e) /\ listings' = listings
    BY <1>1 DEF Catalog!Ask
  <2> HIDE DEF e
  <2>3. e \in CacheEntry /\ \E i \in 1..Len(entries) : entries[i] = e
    BY <2>1, EntryIsThere
  <2>4. e.list <= links + 1
    BY <1>0, <2>3 DEF EntriesFit
  <2> QED BY <1>0, <2>2, <2>3, <2>4, TouchedFits
<1>2. CASE ~Catalog!Known(m) /\ Catalog!Underway(m) # {}
  BY <1>2, <1>0 DEF Catalog!Ask
<1>3. CASE ~Catalog!Known(m) /\ Catalog!Underway(m) = {}
  <2> DEFINE e == Catalog!Pending(m, Catalog!NextCall)
             l == [id |-> Catalog!NextCall, machine |-> m, read |-> FALSE,
                 list |-> Catalog!NoListing]
  <2>1. /\ Cardinality(listings) < MaxListings
        /\ entries' = Catalog!Touched(entries, e) /\ listings' = listings \cup {l}
    BY <1>3, SizeAgrees DEF Catalog!Ask
  <2>2. Catalog!NextCall \in Nat \ {0} /\ Catalog!NextCall <= MaxListings
    BY <2>1, NextCallIsNew
  <2>3. e \in CacheEntry /\ e.list = 0 /\ l.list = 0 /\ l.id = Catalog!NextCall
    BY <2>2 DEF Catalog!Pending, CacheEntry, Catalog!NoListing
  <2> HIDE DEF e, l
  <2>4. 0 <= links + 1
    BY <1>0
  <2>5. EntriesFit(entries', links + 1)
    BY <1>0, <2>1, <2>3, <2>4, TouchedFits
  <2>6. CallsFit(listings', links + 1)
    BY <1>0, <2>1, <2>2, <2>3, <2>4 DEF CallsFit
  <2> QED BY <2>5, <2>6
<1> QED BY <1>1, <1>2, <1>3

LEMMA RejectFits ==
    ASSUME CacheInv, CatalogFits, NEW L \in SUBSET listings, \A k,
             l \in L : k.machine = l.machine,
           Catalog!Reject(L)
    PROVE  /\ EntriesFit(entries', links + 1) /\ CallsFit(listings', links + 1)
           /\ modelsLoad'.list = modelsLoad.list
<1>0. /\ entries \in Seq(CacheEntry) /\ OneEntryEach(entries) /\ listings \subseteq ModelCall
      /\ modelsLoad \in CatalogLoad
  BY DEF CacheInv, CatalogTyped
<1> DEFINE I == {i \in 1..Len(entries) : entries[i].call \in {l.id : l \in L}}
<1>1. entries' = Catalog!Without(entries, I) /\ listings' = listings \ L
  BY DEF Catalog!Reject
<1>2. \A i, j \in I : i = j
  BY <1>0 DEF CacheInv, PendingIsCalled, OneCallEach, ModelCall, OneEntryEach
<1>3. I \in SUBSET (1..Len(entries))
  OBVIOUS
<1> HIDE DEF I
<1>4. /\ entries' \in Seq(CacheEntry) /\ Len(entries') <= Len(entries)
      /\ \A j \in 1..Len(entries') : \E i \in 1..Len(entries) : entries'[j] = entries[i]
  BY <1>0, <1>1, <1>2, <1>3, WithoutKeeps
<1>5. Len(entries') \in Nat /\ Len(entries) \in Nat
  BY <1>0, <1>4
<1>6. EntriesFit(entries', links + 1)
  <2>1. Len(entries) <= CacheSize /\ \A i \in 1..Len(entries) : entries[i].list <= links + 1
    BY DEF CatalogFits, EntriesFit
  <2>2. Len(entries') <= CacheSize
    BY <1>4, <1>5, <2>1, CatalogBounds
  <2>3. \A j \in 1..Len(entries') : entries'[j].list <= links + 1
    BY <1>4, <2>1
  <2> QED BY <2>2, <2>3 DEF EntriesFit
<1>7. CallsFit(listings', links + 1)
  BY <1>1 DEF CatalogFits, CallsFit
<1>8. modelsLoad'.list = modelsLoad.list
  BY <1>0 DEF Catalog!Reject, CatalogLoad
<1> QED BY <1>6, <1>7, <1>8

LEMMA LoadOfFits ==
    ASSUME CatalogFits, NEW m, NEW force, Catalog!LoadOf(m, force)
    PROVE  /\ modelsLoad'.list = modelsLoad.list \/ modelsLoad'.list = 0
           /\ modelsMissed' \in BOOLEAN
<1>1. CASE modelsLoad' = modelsLoad
  BY <1>1 DEF Catalog!LoadOf, CatalogFits
<1>2. CASE modelsLoad' = [Catalog!NoLoad EXCEPT !.at = "asked", !.machine = m]
  BY <1>2 DEF Catalog!NoLoad, Catalog!NoListing, Catalog!LoadOf, CatalogFits
<1> QED BY <1>1, <1>2 DEF Catalog!LoadOf

LEMMA WatchFits ==
    ASSUME CatalogFits, Catalog!Watch
    PROVE  /\ modelsLoad'.list = modelsLoad.list \/ modelsLoad'.list = 0
           /\ modelsMissed' \in BOOLEAN
<1>1. CASE UNCHANGED <<modelsLoad, modelsMissed>>
  BY <1>1 DEF CatalogFits
<1>2. ASSUME NEW m, Catalog!LoadOf(m, FALSE)
      PROVE  /\ modelsLoad'.list = modelsLoad.list \/ modelsLoad'.list = 0
             /\ modelsMissed' \in BOOLEAN
  BY <1>2, LoadOfFits
<1> QED BY <1>1, <1>2 DEF Catalog!Watch

\* Whatever was fit stays so when there have been more upgrades.
LEMMA FitsMore ==
    ASSUME NEW n \in Nat, NEW m \in Nat, n <= m
    PROVE  /\ \A es \in Seq(CacheEntry) : EntriesFit(es, n) => EntriesFit(es, m)
           /\ \A L \in SUBSET ModelCall : CallsFit(L, n) => CallsFit(L, m)
<1>1. ASSUME NEW es \in Seq(CacheEntry), EntriesFit(es, n) PROVE EntriesFit(es, m)
  <2>1. \A i \in 1..Len(es) : es[i] \in CacheEntry
    OBVIOUS
  <2>2. \A i \in 1..Len(es) : es[i].list \in Nat
    BY <2>1 DEF CacheEntry
  <2> QED BY <1>1, <2>2 DEF EntriesFit
<1>2. ASSUME NEW L \in SUBSET ModelCall, CallsFit(L, n) PROVE CallsFit(L, m)
  BY <1>2 DEF CallsFit, ModelCall
<1> QED BY <1>1, <1>2

LEMMA CatalogFitsStep == CatalogInv /\ CatalogFits /\ [Catalog!Next]_Catalog!vars =>
    CatalogFits'
<1> SUFFICES ASSUME CacheInv, CatalogFits, [Catalog!Next]_Catalog!vars PROVE CatalogFits'
  BY DEF CatalogInv
<1>0. /\ installed \in [Machine -> Nat] /\ links \in Nat /\ links + 1 \in Nat
      /\ entries \in Seq(CacheEntry) /\ OneEntryEach(entries)
      /\ listings \subseteq ModelCall /\ catalog \in Offer /\ modelsLoad \in CatalogLoad
      /\ modelsLoad.list \in Nat /\ catalog.list \in Nat
  BY DEF CacheInv, CatalogTyped, Offer, CatalogLoad
<1>a. /\ EntriesFit(entries, links + 1) /\ CallsFit(listings, links + 1)
      /\ \A m \in Machine : installed[m] <= links + 1
      /\ modelsLoad.list <= links + 1 /\ catalog.list <= links + 1
      /\ links <= MaxLinks /\ switches \in 0..MaxSwitches
      /\ modelsSelected \in BOOLEAN /\ modelsMissed \in BOOLEAN
  BY DEF CatalogFits
<1>1. CASE UNCHANGED Catalog!vars
  BY <1>a, <1>1 DEF CatalogFits, Catalog!vars, Catalog!machineVars, Catalog!pageVars,
      Catalog!bounds
<1>2. CASE Catalog!Request
  <2> DEFINE m == modelsLoad.machine
  <2>1. UNCHANGED <<installed, links, catalog, switches, modelsSelected, modelsMissed>>
    BY <1>2 DEF Catalog!Request, Catalog!bounds
  <2>2. CASE m \notin connected /\ modelsLoad' = [modelsLoad EXCEPT !.at = "failed"]
          /\ UNCHANGED <<entries, listings>>
    BY <1>0, <2>2, <1>a, <2>1 DEF CatalogLoad, CatalogFits
  <2>3. CASE m \in connected /\ Catalog!Ask(m)
    <3>1. m \in Machine
      BY <2>3 DEF CacheInv, CatalogTyped
    <3>2. EntriesFit(entries', links + 1) /\ CallsFit(listings', links + 1)
      BY <2>3, <3>1, AskFits
    <3>3. modelsLoad'.list <= links + 1
      <4>1. CASE Catalog!Known(m)
        <5> DEFINE e == CHOOSE x \in Catalog!EntryOf(m) : TRUE
        <5>1. e \in Catalog!EntryOf(m)
          BY <4>1 DEF Catalog!Known
        <5>2. modelsLoad' = [modelsLoad EXCEPT !.at = "answered", !.of = m, !.list = e.list]
          BY <1>2, <2>3, <4>1 DEF Catalog!Request
        <5> HIDE DEF e
        <5>3. modelsLoad'.list = e.list
          BY <1>0, <5>2 DEF CatalogLoad
        <5>4. \E i \in 1..Len(entries) : entries[i] = e
          BY <5>1, EntryIsThere
        <5> QED BY <1>a, <5>3, <5>4 DEF EntriesFit
      <4>2. CASE ~Catalog!Known(m)
        BY <1>2, <2>3, <4>2, <1>0, <1>a DEF Catalog!Request, CatalogLoad
      <4> QED BY <4>1, <4>2
    <3> QED BY <1>a, <2>1, <3>2, <3>3 DEF CatalogFits
  <2> QED BY <1>2, <2>2, <2>3 DEF Catalog!Request
<1>3. ASSUME NEW m \in Machine, Catalog!Visit(m) PROVE CatalogFits'
  BY <1>3, AskFits, <1>a DEF Catalog!Visit, Catalog!pageVars, Catalog!bounds, CatalogFits
<1>4. ASSUME NEW l \in listings, Catalog!Read(l) PROVE CatalogFits'
  BY <1>0, <1>4, <1>a DEF ModelCall, Catalog!Read, Catalog!pageVars, Catalog!bounds, CallsFit,
     CatalogFits
<1>5. ASSUME NEW l \in listings, Catalog!Settle(l) PROVE CatalogFits'
  BY <1>0, <1>5, <1>a, TouchedFits DEF Catalog!Fresh, CacheEntry, ModelCall, Catalog!Settle,
     Catalog!bounds, CallsFit, CatalogLoad, CatalogFits
<1>b. ASSUME links' = links + 1, links < MaxLinks, EntriesFit(entries', links + 1),
             CallsFit(listings', links + 1), modelsLoad'.list = modelsLoad.list,
             UNCHANGED <<catalog, switches, modelsSelected, modelsMissed>>,
             \A m \in Machine : installed'[m] <= links' + 1,
             entries' \in Seq(CacheEntry), listings' \subseteq ModelCall
      PROVE  CatalogFits'
  BY <1>0, <1>b, CatalogBounds, FitsMore, <1>a DEF CatalogFits
<1>c. ASSUME links' = links + 1, UNCHANGED installed
      PROVE  \A m \in Machine : installed'[m] <= links' + 1
  BY <1>0, <1>a, <1>c
<1>6. ASSUME NEW l \in listings, Catalog!Fails(l) PROVE CatalogFits'
  BY <1>6, RejectFits, RejectKeeps, <1>b, <1>c DEF Catalog!Fails, CacheKept
<1>7. ASSUME NEW m \in Machine, Catalog!Disconnect(m) PROVE CatalogFits'
  BY <1>7, RejectFits, RejectKeeps, <1>b, <1>c DEF Catalog!Disconnect, CacheKept
<1>8. ASSUME NEW m \in Machine, Catalog!Connect(m) PROVE CatalogFits'
  BY <1>a, <1>8 DEF Catalog!Connect, Catalog!pageVars, Catalog!bounds, CatalogFits
<1>9. ASSUME NEW m \in Machine, Catalog!Upgrade(m) PROVE CatalogFits'
  BY <1>9, <1>0, <1>a, <1>b DEF Catalog!Upgrade, Catalog!pageVars
<1>10. ASSUME NEW i \in 1..CacheSize, Catalog!Expire(i) PROVE CatalogFits'
  <2>1. /\ i \in 1..Len(entries) /\ entries' = [entries EXCEPT ![i].fresh = FALSE]
        /\ UNCHANGED <<installed, listings, links, switches, modelsLoad, catalog,
            modelsSelected,
            modelsMissed>>
    BY <1>10 DEF Catalog!Expire, Catalog!pageVars, Catalog!bounds
  <2> DEFINE e == [entries[i] EXCEPT !.fresh = FALSE]
  <2>2. e \in CacheEntry /\ e.list = entries[i].list
    <3>1. entries[i] \in CacheEntry
      BY <1>0, <2>1
    <3> QED BY <3>1 DEF CacheEntry
  <2>3. entries' = [entries EXCEPT ![i] = e]
    BY <2>1
  <2> HIDE DEF e
  <2>4. /\ Len([entries EXCEPT ![i] = e]) = Len(entries)
        /\ \A j \in 1..Len(entries) : [entries EXCEPT ![i] = e][j] = IF j = i THEN e
            ELSE entries[j]
    <3>1. i \in 1..Len(entries) /\ entries \in Seq(CacheEntry) /\ e \in CacheEntry
      BY <1>0, <2>1, <2>2
    <3> QED BY ONLY <3>1, ExceptSeq
  <2>5. EntriesFit(entries', links + 1)
    BY <1>a, <2>2, <2>3, <2>4 DEF EntriesFit
  <2> QED BY <1>a, <2>1, <2>5 DEF CatalogFits
<1>11. CASE Catalog!Loaded
  BY <1>11, <1>0, <1>a DEF Catalog!Loaded, Catalog!machineVars, Catalog!bounds, Catalog!NoLoad,
     Catalog!NoListing, CatalogFits
<1>12. CASE Catalog!LoadFails
  BY <1>12, <1>0, <1>a DEF Catalog!LoadFails, Catalog!machineVars, Catalog!bounds,
     Catalog!NoLoad, Catalog!NoListing, CatalogFits
<1>13. CASE Catalog!Age
  BY <1>13, <1>0, <1>a DEF Catalog!Age, Catalog!machineVars, Catalog!bounds, Offer, CatalogFits
<1>d. ASSUME modelsLoad'.list = modelsLoad.list \/ modelsLoad'.list = 0,
     modelsMissed' \in BOOLEAN,
             UNCHANGED <<installed, entries, listings, links, catalog>>,
             switches' \in 0..MaxSwitches, modelsSelected' \in BOOLEAN
      PROVE  CatalogFits'
  BY <1>0, <1>a, <1>d DEF CatalogFits
<1>14. CASE Catalog!Switch
  <2>1. UNCHANGED <<installed, entries, listings, links, catalog>> /\ Catalog!Watch
    BY <1>14 DEF Catalog!Switch, Catalog!machineVars
  <2>2. switches' \in 0..MaxSwitches
    BY <1>a, <1>14, CatalogBounds DEF Catalog!Switch
  <2>3. modelsSelected' \in BOOLEAN
    BY <1>a, <1>14 DEF Catalog!Switch
  <2> QED BY <1>d, <2>1, <2>2, <2>3, WatchFits
<1>15. ASSUME NEW m \in Machine, Catalog!MachineShown(m) PROVE CatalogFits'
  BY <1>15, <1>a, <1>d, WatchFits DEF Catalog!MachineShown, Catalog!machineVars, Catalog!bounds
<1>16. CASE Catalog!Refresh
  <2>1. UNCHANGED <<installed, entries, listings, links, catalog, modelsSelected>>
          /\ Catalog!LoadOf(Home, TRUE)
    BY <1>16 DEF Catalog!Refresh, Catalog!machineVars
  <2>2. switches' \in 0..MaxSwitches
    BY <1>a, <1>16, CatalogBounds DEF Catalog!Refresh
  <2> QED BY <1>a, <1>d, <2>1, <2>2, LoadOfFits
<1> QED BY <1>1, <1>2, <1>3, <1>4, <1>5, <1>6, <1>7, <1>8, <1>9, <1>10, <1>11, <1>12, <1>13,
      <1>14, <1>15, <1>16 DEF Catalog!Next

LEMMA CatalogBegins == Catalog!Init => CatalogFits
<1> SUFFICES ASSUME Catalog!Init PROVE CatalogFits
  OBVIOUS
<1>1. modelsLoad.list = 0 /\ catalog.list = 0
  BY DEF Catalog!Init, Catalog!NoLoad, Catalog!NoCatalog, Catalog!NoListing
<1>2. EntriesFit(entries, 1) /\ CallsFit(listings, 1)
  BY CatalogBounds DEF Catalog!Init, EntriesFit, CallsFit
<1>3. links = 0 /\ links + 1 = 1 /\ \A m \in Machine : installed[m] <= 1
  BY DEF Catalog!Init
<1>4. switches \in 0..MaxSwitches /\ links <= MaxLinks
  BY CatalogBounds DEF Catalog!Init
<1>5. modelsSelected \in BOOLEAN /\ modelsMissed \in BOOLEAN
  <2>1. modelsSelected = FALSE /\ modelsMissed = FALSE
    BY Zenon DEF Catalog!Init
  <2> QED BY <2>1
<1> QED BY <1>1, <1>2, <1>3, <1>4, <1>5 DEF CatalogFits

LEMMA CatalogTypeFollows == CatalogInv /\ CatalogFits => Catalog!TypeOK
<1> SUFFICES ASSUME CacheInv, CatalogFits PROVE Catalog!TypeOK
  BY DEF CatalogInv
<1>1. PICK n : n = links + 1
  OBVIOUS
<1>2. /\ installed \in [Machine -> Nat] /\ links \in Nat /\ connected \subseteq Machine
      /\ entries \in Seq(CacheEntry) /\ listings \subseteq ModelCall
      /\ catalog \in Offer /\ modelsLoad \in CatalogLoad
      /\ favourite \in Machine \cup {None} /\ online \subseteq Machine
  BY DEF CacheInv, CatalogTyped
<1>3. /\ n \in Nat /\ n <= MaxLinks + 1
      /\ EntriesFit(entries, n) /\ CallsFit(listings, n) /\ catalog.list <= n
      /\ \A m \in Machine : installed[m] <= n
      /\ links \in 0..MaxLinks /\ switches \in 0..MaxSwitches
      /\ modelsSelected \in BOOLEAN /\ modelsMissed \in BOOLEAN
  BY <1>1, <1>2, CatalogBounds DEF CatalogFits
<1>4. \A k \in Nat : k <= n => k \in Catalog!Listing
  BY <1>3, CatalogBounds DEF Catalog!Listing
<1>5. installed \in [Machine -> Catalog!Listing]
  BY <1>2, <1>3, <1>4
<1>6. ASSUME NEW i \in 1..Len(entries)
      PROVE  /\ entries[i].machine \in Machine /\ entries[i].call \in 0..MaxListings
             /\ entries[i].list \in Catalog!Listing /\ entries[i].fresh \in BOOLEAN
  <2>1. entries[i] \in CacheEntry
    BY <1>2
  <2>2. entries[i].call \in Nat /\ entries[i].list \in Nat
    BY <2>1 DEF CacheEntry
  <2>3. entries[i].call <= MaxListings
    BY CatalogBounds, <1>3 DEF CacheInv, PendingIsCalled, CallsFit
  <2>4. entries[i].list \in Catalog!Listing
    BY <1>3, <1>4, <2>2 DEF EntriesFit
  <2>5. entries[i].call \in 0..MaxListings
    BY <2>2, <2>3, CatalogBounds
  <2> QED BY <2>1, <2>4, <2>5 DEF CacheEntry
<1>7. \A l \in listings : l.machine \in Machine /\ l.list \in Catalog!Listing
        /\ l.read \in BOOLEAN
  BY <1>2, <1>3, <1>4 DEF ModelCall, CallsFit
<1>8. /\ catalog.machine \in Machine \cup {None} /\ catalog.list \in Catalog!Listing
      /\ catalog.young \in BOOLEAN
  BY <1>2, <1>3, <1>4 DEF Offer
<1>9. modelsLoad.at \in {"none", "asked", "waiting", "answered", "failed"}
  BY <1>2 DEF CatalogLoad
<1>10. Len(entries) <= CacheSize
  BY <1>3 DEF EntriesFit
<1> QED BY <1>2, <1>3, <1>5, <1>6, <1>7, <1>8, <1>9, <1>10 DEF Catalog!TypeOK

-----------------------------------------------------------------------------

\* A choice is a change that was made, or a call that has yet to make one.
Unmade == {p \in puts : p.at = "asked"}
ChoicesFit ==
    /\ choices <= MaxChoices /\ IsFiniteSet(puts)
    /\ put.n + Cardinality(Unmade) <= choices
    /\ \A p \in puts : p.row.n <= put.n

LEMMA UnmadeIs ==
    ASSUME OptionsInv, ChoicesFit
    PROVE  /\ MaxChoices \in Nat /\ choices \in Nat /\ put \in Change /\ put.n \in Nat
           /\ puts \subseteq Choice /\ IsFiniteSet(puts)
           /\ IsFiniteSet(Unmade) /\ Cardinality(Unmade) \in Nat
           /\ \A p \in puts : p.row.n \in Nat
<1>1. /\ MaxChoices \in Nat /\ choices \in Nat /\ put \in Change /\ put.n \in Nat
      /\ puts \subseteq Choice /\ IsFiniteSet(puts) /\ Unmade \subseteq puts
  BY MCWebAssumption DEF OptionsInv, OptionsTyped, Change, ChoicesFit, Unmade
<1>2. \A p \in puts : p.row.n \in Nat
  BY <1>1 DEF Choice, Change
<1> QED BY <1>1, <1>2, FS_Subset, FS_CardinalityType

LEMMA ChoicesFitStep == OptionsInv /\ ChoicesFit /\ [Options!Next]_Options!vars => ChoicesFit'
<1> SUFFICES ASSUME OptionsInv, ChoicesFit, [Options!Next]_Options!vars PROVE ChoicesFit'
  OBVIOUS
<1>0. /\ MaxChoices \in Nat /\ choices \in Nat /\ put \in Change /\ put.n \in Nat
      /\ puts \subseteq Choice /\ IsFiniteSet(puts)
      /\ IsFiniteSet(Unmade) /\ Cardinality(Unmade) \in Nat
      /\ \A p \in puts : p.row.n \in Nat
  BY UnmadeIs
<1>a. /\ choices <= MaxChoices /\ put.n + Cardinality(Unmade) <= choices
      /\ \A p \in puts : p.row.n <= put.n
  BY DEF ChoicesFit
<1>1. CASE UNCHANGED <<put, puts, choices>>
  BY <1>1 DEF ChoicesFit, Unmade
<1>2. ASSUME NEW p \in puts, puts' = puts \ {p}, UNCHANGED <<put, choices>> PROVE ChoicesFit'
  BY <1>0, <1>2, FS_RemoveElement, FS_Subset, FS_CardinalityType, <1>a DEF Unmade, ChoicesFit
<1>3. ASSUME NEW f \in Options!Field, NEW v \in Options!Value(f), Options!Choose(f, v)
      PROVE  ChoicesFit'
  <2> DEFINE new == [id |-> choices + 1, field |-> f, value |-> v, at |-> "asked",
                     whole |-> [optionsRow.options EXCEPT ![f] = v], row |-> put]
  <2>1. /\ choices < MaxChoices /\ choices' = choices + 1 /\ put' = put
        /\ puts' = puts \/ puts' = puts \cup {new}
    BY <1>3 DEF Options!Choose
  <2>2. new.row = put /\ new.at = "asked"
    OBVIOUS
  <2> HIDE DEF new
  <2>3. CASE puts' = puts
    BY <2>3, <1>0, <1>a, <2>1 DEF Unmade, ChoicesFit
  <2>4. CASE puts' = puts \cup {new}
    <3>1. Unmade' = Unmade \cup {new}
      BY <2>2, <2>4 DEF Unmade
    <3>2. Cardinality(Unmade') <= Cardinality(Unmade) + 1 /\ Cardinality(Unmade') \in Nat
      <4>1. /\ IsFiniteSet(Unmade \cup {new})
            /\ Cardinality(Unmade \cup {new}) =
                 IF new \in Unmade THEN Cardinality(Unmade) ELSE Cardinality(Unmade) + 1
        BY <1>0, FS_AddElement
      <4>2. Cardinality(Unmade \cup {new}) \in Nat
        BY <4>1, FS_CardinalityType
      <4> QED BY <1>0, <3>1, <4>1, <4>2
    <3>3. put'.n + Cardinality(Unmade') <= choices' /\ choices' <= MaxChoices
      BY <1>0, <1>a, <2>1, <3>2
    <3>4. IsFiniteSet(puts')
      BY <1>0, <2>4, FS_AddElement
    <3>5. \A p \in puts' : p.row.n <= put'.n
      BY <1>0, <1>a, <2>1, <2>2, <2>4
    <3> QED BY <3>3, <3>4, <3>5 DEF ChoicesFit
  <2> QED BY <2>1, <2>3, <2>4
<1>4. ASSUME NEW f \in Options!Field, NEW v \in Options!Value(f), Options!Elsewhere(f, v)
      PROVE  ChoicesFit'
  BY <1>4, <1>0, <1>a DEF Options!Elsewhere, Unmade, ChoicesFit
<1>5. ASSUME NEW p \in puts, Options!Put(p) PROVE ChoicesFit'
  <2> DEFINE new == [p EXCEPT !.at = "answered", !.row = put']
  <2>1. /\ p.at = "asked" /\ put'.n = put.n + 1 /\ choices' = choices
        /\ puts' = (puts \ {p}) \cup {new}
    BY <1>5 DEF Options!Put
  <2>2. new.row = put' /\ new.at = "answered"
    BY <1>0 DEF Choice
  <2> HIDE DEF new
  <2>3. Unmade' = Unmade \ {p} /\ p \in Unmade
    BY <2>1, <2>2 DEF Unmade
  <2>4. Cardinality(Unmade') = Cardinality(Unmade) - 1 /\ Cardinality(Unmade') \in Nat
    BY <1>0, <2>3, FS_RemoveElement, FS_CardinalityType
  <2>5. put'.n + Cardinality(Unmade') <= choices'
    BY <1>0, <1>a, <2>1, <2>4
  <2>6. IsFiniteSet(puts')
    BY <1>0, <2>1, FS_AddElement, FS_RemoveElement
  <2>7. \A q \in puts' : q.row.n <= put'.n
    BY <1>0, <1>a, <2>1, <2>2
  <2> QED BY <1>a, <2>1, <2>5, <2>6, <2>7 DEF ChoicesFit
<1>6. CASE Options!Select \/ Options!Upsert
  BY <1>1, <1>6 DEF Options!Select, Options!Upsert
<1>7. ASSUME NEW p \in puts, Options!PutFails(p) \/ Options!PutAnswered(p) PROVE ChoicesFit'
  BY <1>2, <1>7 DEF Options!PutFails, Options!PutAnswered
<1>8. CASE UNCHANGED Options!vars
  BY <1>1, <1>8 DEF Options!vars
<1> QED BY <1>3, <1>4, <1>5, <1>6, <1>7, <1>8 DEF Options!Next

LEMMA ChoicesBegin == Options!Init => ChoicesFit
<1> SUFFICES ASSUME Options!Init PROVE ChoicesFit
  OBVIOUS
<1>1. puts = {} /\ Unmade = {} /\ put.n = 0 /\ choices = 0
  BY DEF Options!Init, Unmade
<1>2. MaxChoices \in Nat /\ IsFiniteSet({}) /\ Cardinality({}) = 0
  BY MCWebAssumption, FS_EmptySet
<1> QED BY <1>1, <1>2 DEF ChoicesFit

LEMMA OptionsTypeFollows == OptionsInv /\ ChoicesFit => Options!TypeOK
<1> SUFFICES ASSUME OptionsInv, ChoicesFit PROVE Options!TypeOK
  OBVIOUS
<1>1. /\ MaxChoices \in Nat /\ choices \in Nat /\ put \in Change /\ put.n \in Nat
      /\ puts \subseteq Choice /\ Cardinality(Unmade) \in Nat
  BY UnmadeIs
<1>2. put.n <= MaxChoices /\ choices \in 0..MaxChoices
  BY <1>1 DEF ChoicesFit
<1>3. \A r \in Change : r.n <= put.n => r \in Options!Row
  BY <1>1, <1>2 DEF Change, Options!Row
<1>4. put \in Options!Row /\ optionsRow \in Options!Row
  BY <1>1, <1>3 DEF OptionsInv, OptionsTyped, RowsInOrder, NotNewer
<1>5. \A i \in 1..Len(optionsUpdates) : optionsUpdates[i] \in Options!Row
  BY <1>3 DEF OptionsInv, OptionsTyped, RowsInOrder, NotNewer
<1>6. \A p \in puts : p.field \in Options!Field /\ p.at \in {"asked", "answered"}
        /\ p.row \in Options!Row
  BY <1>1, <1>3 DEF ChoicesFit, Choice
<1>7. newest \in 0..MaxChoices
  BY <1>1, <1>2 DEF OptionsInv, OptionsTyped, RowsInOrder
<1> QED BY <1>2, <1>4, <1>5, <1>6, <1>7 DEF OptionsInv, OptionsTyped, Options!TypeOK

-----------------------------------------------------------------------------
(* A behaviour of the whole is one of each part.                           *)

LEMMA HistoryRuns == Spec => History!Spec
<1>1. Init => History!Init
  BY DEF Init
<1>2. [Next]_vars => [History!Next]_History!vars
  BY DEF Next, vars, historyVars, History!vars, History!hostVars, History!historyVars,
      History!bounds
<1> QED
  BY <1>1, <1>2, PTL DEF Spec, History!Spec

LEMMA OutputsRun == Spec => Outputs!Spec
<1>1. Init => Outputs!Init
  BY DEF Init
<1>2. [Next]_vars => [Outputs!Next]_Outputs!vars
  BY DEF Next, vars, outputVars, Outputs!vars, Outputs!outputVars, Outputs!reasoningVars
<1> QED
  BY <1>1, <1>2, PTL DEF Spec, Outputs!Spec

LEMMA HistoryInductive == History!Spec => []HistoryInv
<1>1. History!Init => HistoryInv
  BY HistoryBegins
<1>2. HistoryInv /\ [History!Next]_History!vars => HistoryInv'
  BY HistoryKeeps
<1> QED
  BY <1>1, <1>2, PTL DEF History!Spec

LEMMA OutputsInductive == Outputs!Spec => []OutputsInv
<1>1. Outputs!Init => OutputsInv
  BY OutputsBegin
<1>2. OutputsInv /\ [Outputs!Next]_Outputs!vars => OutputsInv'
  BY OutputsKeep
<1> QED
  BY <1>1, <1>2, PTL DEF Outputs!Spec

LEMMA ListsStayTyped == Lists!Spec => []Lists!TypeOK
<1>1. Lists!Init => ListsWithin /\ ListsCounted
  BY ListsBegin
<1>2. ListsInv /\ ListsWithin /\ ListsCounted /\ [Lists!Next]_Lists!vars =>
        (ListsWithin /\ ListsCounted)'
  BY ListsWithinStep, ListsCountedStep
<1> QED
  BY <1>1, <1>2, ListsInductive, ListsTypeFollows, PTL DEF Lists!Spec

LEMMA CatalogStaysTyped == Catalog!Spec => []Catalog!TypeOK
BY CatalogBegins, CatalogFitsStep, CatalogInductive, CatalogTypeFollows, PTL DEF Catalog!Spec

LEMMA OptionsStayTyped == Options!Spec => []Options!TypeOK
BY ChoicesBegin, ChoicesFitStep, OptionsInductive, OptionsTypeFollows, PTL DEF Options!Spec

-----------------------------------------------------------------------------
(* What the run checks, for every value of the bounds.                     *)

\* An event that the page of a session ought to show is shown or held back, or it was
\* given up, or what will bring it is under way: a call that asks from before it, the
\* stream behind all the page knows, or the load of the row that tells of it
\* (sessionHistory, sessionEnvelopeHandler).
THEOREM WebHistoryInductive == Spec => []HistoryInv
BY HistoryRuns, HistoryInductive, PTL

\* The texts of a tool that a page lacks are on its stream or behind its next page, and
\* reasoning opened after its turn has every piece (sessionHistory, sessionUi,
\* sessionEnvelopeHandler).
LEMMA WebOutputsInductive == Spec => []OutputsInv
BY OutputsRun, OutputsInductive, PTL

\* What the page shows of a session is what the host has stored: its events once,
\* in order and without a gap, the turn it is in, the output of its tools and
\* its reasoning (sessionHistory, sessionEnvelopeHandler).
THEOREM WebHistoryIsWhole == Spec => []HistoryIsWhole
<1>1. HistoryInv /\ OutputsInv => HistoryIsWhole
  BY HistoryFollows, OutputsFollow DEF HistoryIsWhole
<1> QED
  BY <1>1, WebHistoryInductive, WebOutputsInductive, PTL

\* The parts of the page keep to their types: no time of a row is beyond the changes of
\* the table, no list of models is newer than the last upgrade, no choice of options is
\* beyond those made (sessionListLoader, modelCatalogCache, composerModels).
THEOREM WebTypeCorrect == Spec => []TypeOK
<1>1. ComposerInv => Drafts!TypeOK
  BY DEF ComposerInv
<1>2. StreamInv => Stream!TypeOK
  BY DEF StreamInv, StreamTyped
<1>3. HistoryInv => History!TypeOK
  BY HistoryFollows
<1>4. OutputsInv => Outputs!TypeOK
  BY OutputsFollow
<1>5. Stream!TypeOK /\ Drafts!TypeOK /\ History!TypeOK /\ Outputs!TypeOK
        /\ Lists!TypeOK /\ Catalog!TypeOK /\ Options!TypeOK => TypeOK
  BY DEF TypeOK
<1> QED
  BY <1>1, <1>2, <1>3, <1>4, <1>5, WebDraftsInductive, WebStreamInductive,
     WebHistoryInductive, WebOutputsInductive, ListsRun, ListsStayTyped, CatalogRuns,
     CatalogStaysTyped, OptionsRun, OptionsStayTyped, PTL
=============================================================================
