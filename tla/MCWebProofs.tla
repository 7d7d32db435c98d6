---------------------------- MODULE MCWebProofs ----------------------------
(***************************************************************************)
(* Proofs about the parts of MCWeb, for every value of the bounds.  Each   *)
(* part has an inductive invariant that says what its properties do not:   *)
(*   ComposerInv  where every text is: in a draft, in a call that has not  *)
(*                been answered or in a list of what became of it;         *)
(*   ListsInv     what the frames under way, one after the other, make of  *)
(*                a row, which sessions the pages that are still to come   *)
(*                have, and what the row of an older answer may be behind; *)
(*   CatalogInv   one entry of each machine in the cache and one call for  *)
(*                each entry that waits;                                   *)
(*   StreamInv    what a page lacks is behind every number it can resume   *)
(*                with, in the history, or the history no longer reaches   *)
(*                back;                                                    *)
(*   OptionsInv   the rows under way come in the order of the changes, and *)
(*                the last of the choices that wait is the one wanted.     *)
(* A behaviour of the whole is one of each part, since a step of the whole *)
(* is a step of one part and leaves the others alone.                      *)
(***************************************************************************)
EXTENDS MCWeb, Sequences, FiniteSets, SequenceTheorems, FiniteSetTheorems,
        WellFoundedInduction, TLAPS

-----------------------------------------------------------------------------
(* Numbers.                                                                *)

\* A set of natural numbers that is not empty has a smallest.
LEMMA SmallestNumber ==
    ASSUME NEW S \in SUBSET Nat, S # {}
    PROVE  \E k \in S : \A m \in S : k <= m
<1> DEFINE R == {ss \in Nat \X Nat : ss[1] < ss[2]}
<1>1. IsWellFoundedOn(R, Nat)
  BY NatLessThanWellFounded DEF OpToRel
<1>2. \A x, y \in Nat : ~(<<y, x>> \in R) => x <= y
  OBVIOUS
<1> HIDE DEF R
<1>3. \E x \in S : \A y \in S : ~(<<y, x>> \in R)
  BY <1>1, WFMin
<1> QED BY <1>2, <1>3

-----------------------------------------------------------------------------
(* The composer.                                                           *)

Stage == {"none", "create", "upload", "post", "runner", "ok", "failed", "done", "gone"}
Prompt == [kind : {"none", "send", "create", "queue"}, key : Drafts!Key, text : 0..MaxSent,
           att : Drafts!Call \cup {Local, None}, at : Stage]
\* The texts of the queued prompts that came back to their drafts.
Returned == {composerCalls[q].text :
    q \in {c \in Drafts!Call : composerCalls[c].kind = "queue" /\ composerCalls[c].at = "done"
        /\ c \notin accepted}}
Direct(c) == composerCalls[c].kind \in {"send", "create"}

CallsAreMade ==
    /\ \A c \in Drafts!Call : composerCalls[c].kind = "none" => composerCalls[c].text = 0
        /\ composerCalls[c].at = "none"
    /\ \A c, d \in Drafts!Call : c < d /\ composerCalls[d].kind # "none" =>
        composerCalls[c].kind # "none"
    /\ \A c \in Drafts!Call : composerCalls[c].at = "ok" => c \in accepted
    /\ \A c \in Drafts!Call : c \in accepted => composerCalls[c].kind # "none"
TextsAreKnown ==
    /\ \A k \in Drafts!Key : drafts[k].text <= edits
    /\ \A c \in Drafts!Call : composerCalls[c].text <= edits
TextHasKey ==
    /\ \A k, l \in Drafts!Key : drafts[k].text # 0 /\ drafts[k].text = drafts[l].text => k = l
    /\ \A k \in Drafts!Key, c \in Drafts!Call : drafts[k].text # 0
        /\ drafts[k].text = composerCalls[c].text => composerCalls[c].key = k
    /\ \A c, d \in Drafts!Call : composerCalls[c].text # 0
        /\ composerCalls[c].text = composerCalls[d].text =>
            composerCalls[c].key = composerCalls[d].key
DraftOfCall ==
    \A c \in Drafts!Underway({"send", "create", "queue"}) :
        drafts[composerCalls[c].key].text \in {composerCalls[c].text, 0} \cup late
DoneIsGone ==
    \A c \in Drafts!Call : Direct(c) /\ composerCalls[c].at = "done"
        /\ composerCalls[c].text # 0 =>
        composerCalls[c].text \in Returned \/ \A k \in Drafts!Key :
            drafts[k].text # composerCalls[c].text
AgainAfterFailure ==
    \A c, d \in Drafts!Call : c < d /\ Direct(c) /\ Direct(d)
        /\ composerCalls[c].text = composerCalls[d].text /\ composerCalls[c].text # 0 =>
        composerCalls[c].at \in {"failed", "gone"} \/ composerCalls[c].text \in Returned
ComposerInv ==
    /\ Drafts!TypeOK /\ CallsAreMade /\ TextsAreKnown /\ TextHasKey
    /\ DraftOfCall /\ DoneIsGone /\ AgainAfterFailure /\ Drafts!DraftKept

LEMMA ComposerInvInit == Drafts!Init => ComposerInv
<1> SUFFICES ASSUME Drafts!Init PROVE ComposerInv
  OBVIOUS
<1>1. Drafts!TypeOK
  BY MCWebAssumption DEF Drafts!Empty, Drafts!NoCall, Prompt, Drafts!Key, Stage, Drafts!Init,
     Drafts!TypeOK
<1>2. CallsAreMade /\ TextsAreKnown
  BY DEF Drafts!Init, CallsAreMade, TextsAreKnown, Drafts!Empty, Drafts!NoCall
<1>3. TextHasKey /\ DraftOfCall /\ DoneIsGone /\ AgainAfterFailure /\ Drafts!DraftKept
  BY DEF Drafts!Init, TextHasKey, DraftOfCall, Drafts!Underway, DoneIsGone, AgainAfterFailure,
     Direct, Drafts!DraftKept, Drafts!Empty, Drafts!NoCall, Drafts!Key
<1> QED BY <1>1, <1>2, <1>3 DEF ComposerInv

\* What a call was made with does not change; only how far it is, and its attachment.
Kept(c) == composerCalls'[c].kind = composerCalls[c].kind
    /\ composerCalls'[c].key = composerCalls[c].key
        /\ composerCalls'[c].text = composerCalls[c].text

LEMMA GoesKeeps ==
    ASSUME Drafts!TypeOK, NEW c \in Drafts!Call, NEW at \in Stage, Drafts!Goes(c, at)
    PROVE  /\ composerCalls' \in [Drafts!Call -> Prompt]
           /\ \A d \in Drafts!Call : Kept(d) /\ (d # c => composerCalls'[d] = composerCalls[d])
           /\ composerCalls'[c].at = at
<1>1. composerCalls \in [Drafts!Call -> Prompt] /\ composerCalls[c] \in Prompt
  BY DEF Drafts!TypeOK, Prompt, Stage
<1> DEFINE q == [composerCalls[c] EXCEPT !.at = at]
<1>2. q \in Prompt /\ q.kind = composerCalls[c].kind /\ q.key = composerCalls[c].key
        /\ q.text = composerCalls[c].text /\ q.at = at
  BY <1>1 DEF Prompt
<1>3. composerCalls' = [composerCalls EXCEPT ![c] = q]
  BY DEF Drafts!Goes
<1> HIDE DEF q
<1> QED BY <1>1, <1>2, <1>3 DEF Kept

LEMMA EmptyTyped == Drafts!Empty \in [text : 0..MaxSent, att : Drafts!Call \cup {Local, None}]
BY MCWebAssumption DEF Drafts!Empty

LEMMA ComposerTypeStep == ComposerInv /\ [Drafts!Next]_Drafts!vars => Drafts!TypeOK'
<1> SUFFICES ASSUME Drafts!TypeOK, CallsAreMade, [Drafts!Next]_Drafts!vars PROVE Drafts!TypeOK'
  BY DEF ComposerInv
<1> DEFINE D == [text : 0..MaxSent, att : Drafts!Call \cup {Local, None}]
<1>0. /\ composerSelected \in Drafts!Key /\ drafts \in [Drafts!Key -> D] /\ edits \in 0..MaxSent
      /\ composerCalls \in [Drafts!Call -> Prompt] /\ \A k \in Drafts!Key : drafts[k] \in D
      /\ \A c \in Drafts!Call : composerCalls[c] \in Prompt
  BY DEF Drafts!TypeOK, Prompt, Stage
<1>a. ASSUME composerCalls' \in [Drafts!Call -> Prompt],
             UNCHANGED <<composerSelected, drafts, edits, typed, running, turns, composerRows,
                 canceled, replaced, late>>,
             accepted' \subseteq Drafts!Call
      PROVE  Drafts!TypeOK'
  BY <1>a DEF Drafts!TypeOK, Prompt, Stage
<1>1. CASE UNCHANGED Drafts!vars
  BY <1>1 DEF Drafts!TypeOK, Drafts!vars
<1>2. CASE Drafts!Type
  BY <1>0, <1>2, MCWebAssumption DEF Drafts!Type, Drafts!Text, Drafts!TypeOK
<1>3. CASE Drafts!Attach \/ Drafts!Detach
  BY <1>3, <1>0, MCWebAssumption DEF Drafts!Attach, Drafts!Detach, Drafts!TypeOK
<1>4. ASSUME NEW k \in Drafts!Key, Drafts!Select(k) PROVE Drafts!TypeOK'
  BY <1>4 DEF Drafts!Select, Drafts!TypeOK
<1>5. ASSUME NEW k \in {"open", "made"}, Drafts!Turn(k) PROVE Drafts!TypeOK'
  BY <1>5, MCWebAssumption DEF Drafts!Turn, Drafts!TypeOK
<1>6. ASSUME NEW c \in Drafts!Call, NEW kind \in {"send", "create", "queue"}, NEW at \in Stage,
        Drafts!Made(c, kind, at)
      PROVE  Drafts!TypeOK'
  BY <1>0, <1>6, <1>a DEF Prompt, Drafts!Made, Drafts!TypeOK
<1>7. ASSUME NEW c \in Drafts!Call, Drafts!Queue(c) \/ Drafts!Send(c) \/ Drafts!Create(c)
        PROVE Drafts!TypeOK'
  BY <1>6, <1>7 DEF Drafts!Queue, Drafts!Send, Drafts!Create, Drafts!Posts, Stage
<1>8. ASSUME NEW c \in Drafts!Call, Drafts!Created(c) PROVE Drafts!TypeOK'
  <2>1. PICK at \in Stage : Drafts!Goes(c, at)
    BY <1>8 DEF Drafts!Created, Stage
  <2>2. composerCalls' \in [Drafts!Call -> Prompt]
    BY <2>1, GoesKeeps
  <2>3. drafts' \in [Drafts!Key -> D]
    BY <1>0, <1>8, EmptyTyped DEF Drafts!Created, Drafts!Key
  <2>4. replaced' \subseteq Drafts!Text
    <3>1. drafts["made"].text \in 0..MaxSent
      BY <1>0 DEF Drafts!Key
    <3>2. {drafts["made"].text} \ {0} \subseteq Drafts!Text
      BY <3>1, MCWebAssumption DEF Drafts!Text
    <3> QED BY <1>8, <3>2 DEF Drafts!Created, Drafts!TypeOK
  <2> QED BY <1>8, <2>2, <2>3, <2>4 DEF Drafts!Created, Drafts!TypeOK, Prompt, Stage
<1>9. ASSUME NEW c \in Drafts!Call, Drafts!Uploaded(c) PROVE Drafts!TypeOK'
  <2>1. CASE \E at \in {"post", "failed"} : Drafts!Goes(c, at)
          /\ UNCHANGED <<drafts, composerRows>>
    BY <2>1, GoesKeeps, <1>9, <1>a DEF Stage, Drafts!Uploaded, Drafts!TypeOK
  <2>2. CASE /\ composerRows' = composerRows \cup {c}
             /\ composerCalls' = [composerCalls EXCEPT ![c].at = "post", ![c].att = c]
             /\ drafts' = IF drafts[composerCalls[c].key].att = composerCalls[c].att
                          THEN [drafts EXCEPT ![composerCalls[c].key].att = c] ELSE drafts
    <3> DEFINE q == [composerCalls[c] EXCEPT !.at = "post", !.att = c]
               d == [drafts[composerCalls[c].key] EXCEPT !.att = c]
    <3>1. q \in Prompt
      BY <1>0 DEF Prompt, Stage
    <3>2. composerCalls[c].key \in Drafts!Key
      BY <1>0 DEF Prompt
    <3>3. d \in D
      BY <1>0, <3>2
    <3>4. composerCalls' = [composerCalls EXCEPT ![c] = q]
            /\ (drafts' = drafts \/ drafts' = [drafts EXCEPT ![composerCalls[c].key] = d])
      BY <2>2
    <3> HIDE DEF q, d
    <3>5. composerCalls' \in [Drafts!Call -> Prompt] /\ drafts' \in [Drafts!Key -> D]
      BY <1>0, <3>1, <3>2, <3>3, <3>4
    <3> QED BY <1>9, <2>2, <3>5 DEF Drafts!Uploaded, Drafts!TypeOK, Prompt, Stage
  <2> QED BY <1>9, <2>1, <2>2 DEF Drafts!Uploaded
<1>10. ASSUME NEW c \in Drafts!Call, Drafts!Posted(c) \/ Drafts!Taken(c)
         \/ Drafts!NotSent(c) PROVE Drafts!TypeOK'
  BY <1>10, GoesKeeps DEF Drafts!Posted, Drafts!Taken, Drafts!NotSent, Stage, Drafts!TypeOK,
     Prompt
<1>11. ASSUME NEW c \in Drafts!Call, Drafts!Ended(c) PROVE Drafts!TypeOK'
  BY <1>11, GoesKeeps, <1>0, EmptyTyped DEF Drafts!Ended, Stage, Drafts!TypeOK, Drafts!Key,
     Prompt
<1>12. ASSUME NEW c \in Drafts!Call, Drafts!Restored(c) PROVE Drafts!TypeOK'
  <2> DEFINE d == [text |-> composerCalls[c].text, att |-> composerCalls[c].att]
  <2>1. d \in D /\ composerCalls[c].text \in 0..MaxSent /\ composerCalls[c].key \in Drafts!Key
    BY <1>0 DEF Prompt
  <2>2. drafts[composerCalls[c].key].text \in 0..MaxSent
    BY <1>0, <2>1
  <2>3. drafts' = [drafts EXCEPT ![composerCalls[c].key] = d]
    BY <1>12 DEF Drafts!Restored
  <2> HIDE DEF d
  <2>4. drafts' \in [Drafts!Key -> D]
    BY <1>0, <2>1, <2>3
  <2>5. {drafts[composerCalls[c].key].text} \ {0} \subseteq Drafts!Text
    BY <2>2, MCWebAssumption DEF Drafts!Text
  <2>6. replaced' \subseteq Drafts!Text /\ late' \subseteq 0..MaxSent
          /\ accepted' \subseteq Drafts!Call
    BY <1>12, <2>1, <2>5 DEF Drafts!Restored, Drafts!TypeOK
  <2> QED BY <1>12, <2>4, <2>6 DEF Drafts!Restored, Drafts!TypeOK
<1> QED BY <1>1, <1>2, <1>3, <1>4, <1>5, <1>7, <1>8, <1>9, <1>10, <1>11, <1>12 DEF Drafts!Next

Early == {"create", "upload", "post", "runner"}

\* Calls go on, none of them to its end with "ok".
Went ==
    \A c \in Drafts!Call :
        /\ Kept(c)
        /\ \/ composerCalls'[c].at = composerCalls[c].at
           \/ composerCalls[c].at \in Early
               /\ composerCalls'[c].at \in Early \cup {"ok", "failed"}
           \/ composerCalls[c].at = "failed" /\ composerCalls'[c].at = "gone"
        /\ composerCalls'[c].at = "ok" => c \in accepted'
        /\ c \in accepted => c \in accepted'
        /\ c \in accepted' => c \in accepted \/ composerCalls[c].at \in Early
Still ==
    /\ Went /\ \A k \in Drafts!Key : drafts'[k].text = drafts[k].text
    /\ edits <= edits' /\ UNCHANGED <<typed, replaced, late>>
Emptied(k) ==
    /\ \A l \in Drafts!Key : drafts'[l].text = IF l = k THEN 0 ELSE drafts[l].text
    /\ UNCHANGED <<edits, typed, late>>
CreatedNow == Went /\ Emptied("made") /\ replaced' = replaced \cup ({drafts["made"].text} \ {0})
EndedWell(c) ==
    /\ composerCalls[c].at = "ok" /\ Drafts!Goes(c, "done") /\ Emptied(composerCalls[c].key)
    /\ UNCHANGED <<accepted, replaced>>
MadeNow(c, kind, at) ==
    Drafts!Made(c, kind, at) /\ (kind # "queue" => ~Drafts!Sending)

LEMMA WentIf ==
    ASSUME ComposerInv, NEW c \in Drafts!Call, NEW at \in Stage, Drafts!Goes(c, at),
           \/ at = composerCalls[c].at
           \/ composerCalls[c].at \in Early /\ at \in Early \cup {"ok", "failed"}
           \/ composerCalls[c].at = "failed" /\ at = "gone",
           at = "ok" => c \in accepted',
           accepted \subseteq accepted', accepted' \subseteq accepted \cup {c},
           composerCalls[c].at \notin Early => accepted' = accepted
    PROVE  Went
<1>1. /\ \A d \in Drafts!Call : Kept(d) /\ (d # c => composerCalls'[d] = composerCalls[d])
      /\ composerCalls'[c].at = at
  BY GoesKeeps DEF ComposerInv
<1>2. \A d \in Drafts!Call : composerCalls[d].at = "ok" => d \in accepted
  BY DEF ComposerInv, CallsAreMade
<1> SUFFICES ASSUME NEW d \in Drafts!Call
    PROVE /\ Kept(d)
          /\ \/ composerCalls'[d].at = composerCalls[d].at
             \/ composerCalls[d].at \in Early
                 /\ composerCalls'[d].at \in Early \cup {"ok", "failed"}
             \/ composerCalls[d].at = "failed" /\ composerCalls'[d].at = "gone"
          /\ composerCalls'[d].at = "ok" => d \in accepted'
          /\ d \in accepted => d \in accepted'
          /\ d \in accepted' => d \in accepted \/ composerCalls[d].at \in Early
  BY DEF Went
<1>3. CASE d = c
  BY <1>1, <1>3
<1>4. CASE d # c
  BY <1>1, <1>2, <1>4
<1> QED BY <1>3, <1>4

LEMMA WentIfSame ==
    ASSUME ComposerInv, UNCHANGED <<composerCalls, accepted>>
    PROVE  Went
BY DEF ComposerInv, CallsAreMade, Went, Kept

LEMMA StepKinds ==
    ASSUME ComposerInv, [Drafts!Next]_Drafts!vars
    PROVE  \/ Still \/ Drafts!Type \/ CreatedNow
           \/ \E c \in Drafts!Call : Drafts!Restored(c) \/ EndedWell(c)
           \/ \E c \in Drafts!Call : \E kind \in {"send", "create", "queue"} : \E at \in Early :
               MadeNow(c, kind, at)
<1>0. /\ drafts \in [Drafts!Key -> [text : 0..MaxSent, att : Drafts!Call \cup {Local, None}]]
      /\ composerCalls \in [Drafts!Call -> Prompt] /\ composerSelected \in Drafts!Key
          /\ edits \in Nat
  BY DEF ComposerInv, Drafts!TypeOK, Prompt, Stage
<1>a. ASSUME UNCHANGED drafts, Went, UNCHANGED <<edits, typed, replaced, late>> PROVE Still
  BY <1>0, <1>a DEF Still
<1>1. CASE UNCHANGED Drafts!vars
  BY <1>0, <1>1, <1>a, WentIfSame DEF Drafts!vars
<1>3. CASE Drafts!Attach \/ Drafts!Detach
  BY <1>3, <1>0, WentIfSame DEF Drafts!Attach, Drafts!Detach, Still
<1>4. ASSUME NEW k \in Drafts!Key, Drafts!Select(k) PROVE Still
  BY <1>4, <1>a, WentIfSame DEF Drafts!Select
<1>5. ASSUME NEW k \in {"open", "made"}, Drafts!Turn(k) PROVE Still
  BY <1>5, <1>a, WentIfSame DEF Drafts!Turn
<1>7. ASSUME NEW c \in Drafts!Call, Drafts!Queue(c) \/ Drafts!Send(c) \/ Drafts!Create(c)
      PROVE  \E kind \in {"send", "create", "queue"} : \E at \in Early : MadeNow(c, kind, at)
  BY <1>7 DEF Drafts!Posts, Early, Drafts!Queue, Drafts!Send, Drafts!Create, MadeNow
<1>8. ASSUME NEW c \in Drafts!Call, Drafts!Created(c) PROVE Still \/ CreatedNow
  BY <1>8, WentIf, <1>a, <1>0 DEF Drafts!Created, Early, Stage, Drafts!Empty, CreatedNow,
     Emptied
<1>9. ASSUME NEW c \in Drafts!Call, Drafts!Uploaded(c) PROVE Still
  <2>1. CASE \E at \in {"post", "failed"} : Drafts!Goes(c, at)
          /\ UNCHANGED <<drafts, composerRows>>
    BY <1>9, <2>1, WentIf, <1>a DEF Drafts!Uploaded, Early, Stage
  <2>2. CASE /\ composerCalls' = [composerCalls EXCEPT ![c].at = "post", ![c].att = c]
             /\ drafts' = IF drafts[composerCalls[c].key].att = composerCalls[c].att
                          THEN [drafts EXCEPT ![composerCalls[c].key].att = c] ELSE drafts
    BY <1>0, <2>2, <1>9 DEF Prompt, Drafts!Uploaded, ComposerInv, CallsAreMade, Went, Kept,
       Early, Still
  <2> QED BY <1>9, <2>1, <2>2 DEF Drafts!Uploaded
<1>10. ASSUME NEW c \in Drafts!Call, Drafts!Posted(c) \/ Drafts!Taken(c)
         \/ Drafts!NotSent(c) PROVE Still
  BY <1>10, WentIf, <1>a DEF Drafts!Posted, Drafts!Taken, Drafts!NotSent, Early, Stage
<1>11. ASSUME NEW c \in Drafts!Call, Drafts!Ended(c) PROVE Still \/ EndedWell(c)
  BY <1>11, WentIf, <1>a, <1>0 DEF Drafts!Ended, Stage, Early, Drafts!Empty, EndedWell, Emptied
<1> QED BY <1>1, <1>3, <1>4, <1>5, <1>7, <1>8, <1>9, <1>10, <1>11 DEF Drafts!Next

\* The invariant, but for the types.
TextsAgree ==
    /\ CallsAreMade /\ TextsAreKnown /\ TextHasKey
    /\ DraftOfCall /\ DoneIsGone /\ AgainAfterFailure /\ Drafts!DraftKept

LEMMA ComposerTypes ==
    ASSUME Drafts!TypeOK
    PROVE  /\ edits \in Nat /\ composerSelected \in Drafts!Key /\ typed \subseteq Nat \ {0}
               /\ accepted \subseteq Drafts!Call
           /\ \A k \in Drafts!Key : drafts[k].text \in Nat
           /\ \A c \in Drafts!Call : /\ composerCalls[c].text \in Nat
                                         /\ composerCalls[c].key \in Drafts!Key
                                             /\ composerCalls[c].at \in Stage
                             /\ composerCalls[c].kind \in {"none", "send", "create", "queue"}
           /\ Drafts!Call \subseteq Nat
BY MCWebAssumption DEF Drafts!TypeOK, Drafts!Text, Drafts!Call, Stage

LEMMA WentKeeps ==
    ASSUME ComposerInv, Went
    PROVE  /\ CallsAreMade' /\ Returned \subseteq Returned'
           /\ \A c \in Drafts!Call : c \in Drafts!Underway({"send", "create", "queue"})' =>
               c \in Drafts!Underway({"send", "create", "queue"})
           /\ AgainAfterFailure'
<1>0. CallsAreMade /\ AgainAfterFailure /\ accepted \subseteq Drafts!Call
  BY DEF ComposerInv, Drafts!TypeOK
<1>1. CallsAreMade'
  BY <1>0 DEF Went, Kept, CallsAreMade, Early
<1>2. Returned \subseteq Returned'
  BY DEF Returned, Went, Kept, Early
<1>3. ASSUME NEW c \in Drafts!Call, c \in Drafts!Underway({"send", "create", "queue"})'
      PROVE  c \in Drafts!Underway({"send", "create", "queue"})
  BY <1>3 DEF Drafts!Underway, Went, Kept, Early
<1>4. AgainAfterFailure'
  BY <1>0, <1>2 DEF AgainAfterFailure, Went, Kept, Direct, Early
<1> QED BY <1>1, <1>2, <1>3, <1>4

LEMMA StillKeeps ==
    ASSUME ComposerInv, Still, edits' \in Nat
    PROVE  TextsAgree'
<1>0. /\ Drafts!TypeOK /\ CallsAreMade /\ TextsAreKnown /\ TextHasKey
      /\ DraftOfCall /\ DoneIsGone /\ AgainAfterFailure /\ Drafts!DraftKept
  BY DEF ComposerInv
<1>1. /\ Went /\ \A k \in Drafts!Key : drafts'[k].text = drafts[k].text
      /\ edits <= edits' /\ UNCHANGED <<typed, replaced, late>>
      /\ \A c \in Drafts!Call : Kept(c)
  BY DEF Still, Went
<1>2. /\ CallsAreMade' /\ Returned \subseteq Returned'
      /\ \A c \in Drafts!Call : c \in Drafts!Underway({"send", "create", "queue"})' =>
          c \in Drafts!Underway({"send", "create", "queue"})
      /\ AgainAfterFailure'
  BY <1>1, WentKeeps
<1>3. TextsAreKnown'
  BY <1>0, <1>1, ComposerTypes DEF TextsAreKnown, Kept
<1>4. TextHasKey'
  BY <1>0, <1>1 DEF TextHasKey, Kept
<1>5. DraftOfCall'
  BY <1>0, <1>1, <1>2, ComposerTypes DEF DraftOfCall, Drafts!Underway, Kept
<1>6. DoneIsGone'
  BY <1>1, <1>0, <1>2 DEF DoneIsGone, Went, Direct, Kept, Early
<1>7. Drafts!DraftKept'
  BY <1>1, <1>0, ComposerTypes DEF Drafts!DraftKept, Went, Kept
<1> QED BY <1>2, <1>3, <1>4, <1>5, <1>6, <1>7 DEF TextsAgree

LEMMA TypeKeeps ==
    ASSUME ComposerInv, Drafts!Type
    PROVE  TextsAgree'
<1>0. /\ Drafts!TypeOK /\ CallsAreMade /\ TextsAreKnown /\ TextHasKey
      /\ DraftOfCall /\ DoneIsGone /\ AgainAfterFailure /\ Drafts!DraftKept
  BY DEF ComposerInv
<1>1. /\ edits' = edits + 1 /\ typed' = typed \cup {edits + 1}
          /\ UNCHANGED <<composerCalls, accepted>>
      /\ replaced' = replaced \cup ({drafts[composerSelected].text} \ {0})
      /\ late' = IF Drafts!For(composerSelected) = {} THEN late ELSE late \cup {edits + 1}
      /\ \A k \in Drafts!Key : drafts'[k].text = IF k = composerSelected THEN edits + 1
          ELSE drafts[k].text
  BY <1>0 DEF Drafts!Type, Drafts!TypeOK
<1>2. /\ edits \in Nat /\ composerSelected \in Drafts!Key /\ typed \subseteq Nat \ {0}
          /\ accepted \subseteq Drafts!Call
      /\ \A k \in Drafts!Key : drafts[k].text \in Nat
      /\ \A c \in Drafts!Call : composerCalls[c].text \in Nat
          /\ composerCalls[c].key \in Drafts!Key
  BY <1>0, ComposerTypes
<1>3. CallsAreMade' /\ AgainAfterFailure' /\ Returned' = Returned
  BY <1>0, <1>1 DEF CallsAreMade, AgainAfterFailure, Direct, Returned
<1>4. TextsAreKnown' /\ TextHasKey'
  BY <1>0, <1>1, <1>2 DEF TextsAreKnown, TextHasKey
<1>5. DraftOfCall'
  BY <1>1, <1>0, <1>2 DEF DraftOfCall, Drafts!Underway, Drafts!For
<1>6. DoneIsGone'
  BY <1>1, <1>3, <1>0, <1>2 DEF DoneIsGone, Direct, TextsAreKnown
<1>7. Drafts!DraftKept'
  BY <1>1, <1>2, <1>0 DEF Drafts!DraftKept
<1> QED BY <1>3, <1>4, <1>5, <1>6, <1>7 DEF TextsAgree

LEMMA CreatedKeeps ==
    ASSUME ComposerInv, CreatedNow
    PROVE  TextsAgree'
<1>0. /\ Drafts!TypeOK /\ CallsAreMade /\ TextsAreKnown /\ TextHasKey
      /\ DraftOfCall /\ DoneIsGone /\ AgainAfterFailure /\ Drafts!DraftKept
  BY DEF ComposerInv
<1>1. /\ Went /\ \A k \in Drafts!Key : drafts'[k].text = IF k = "made" THEN 0 ELSE drafts[k].text
      /\ UNCHANGED <<edits, typed, late>> /\ \A c \in Drafts!Call : Kept(c)
      /\ replaced' = replaced \cup ({drafts["made"].text} \ {0})
  BY DEF CreatedNow, Emptied, Went
<1>2. /\ CallsAreMade' /\ Returned \subseteq Returned'
      /\ \A c \in Drafts!Call : c \in Drafts!Underway({"send", "create", "queue"})' =>
          c \in Drafts!Underway({"send", "create", "queue"})
      /\ AgainAfterFailure'
  BY <1>1, WentKeeps
<1>a. edits \in Nat /\ typed \subseteq Nat \ {0} /\ accepted \subseteq Drafts!Call
     /\ \A c \in Drafts!Call : composerCalls[c].key \in Drafts!Key
  BY <1>0, ComposerTypes
<1>3. TextsAreKnown'
  BY <1>0, <1>1, <1>a DEF TextsAreKnown, Kept
<1>4. TextHasKey'
  BY <1>0, <1>1 DEF TextHasKey, Kept
<1>5. DraftOfCall'
  BY <1>0, <1>1, <1>2, <1>a DEF DraftOfCall, Drafts!Underway, Kept
<1>6. DoneIsGone'
  BY <1>1, <1>0, <1>2 DEF DoneIsGone, Went, Direct, Kept, Early
<1>7. Drafts!DraftKept'
  BY <1>1, <1>a, <1>0 DEF Drafts!DraftKept, Went, Kept
<1> QED BY <1>2, <1>3, <1>4, <1>5, <1>6, <1>7 DEF TextsAgree

LEMMA EndedKeeps ==
    ASSUME ComposerInv, NEW c \in Drafts!Call, EndedWell(c)
    PROVE  TextsAgree'
<1>0. /\ Drafts!TypeOK /\ CallsAreMade /\ TextsAreKnown /\ TextHasKey
      /\ DraftOfCall /\ DoneIsGone /\ AgainAfterFailure /\ Drafts!DraftKept
  BY DEF ComposerInv
<1>a. edits \in Nat /\ typed \subseteq Nat \ {0} /\ accepted \subseteq Drafts!Call
     /\ \A d \in Drafts!Call : composerCalls[d].key \in Drafts!Key
  BY <1>0, ComposerTypes
<1>1. /\ \A d \in Drafts!Call : Kept(d) /\ composerCalls'[d].at = IF d = c THEN "done"
          ELSE composerCalls[d].at
      /\ \A k \in Drafts!Key : drafts'[k].text = IF k = composerCalls[c].key THEN 0
          ELSE drafts[k].text
      /\ UNCHANGED <<edits, typed, late, accepted, replaced>> /\ composerCalls[c].at = "ok"
  BY <1>0, GoesKeeps DEF EndedWell, Emptied, Stage
<1>b. c \in accepted /\ composerCalls[c].kind # "none"
  BY <1>0, <1>1 DEF CallsAreMade
<1>2. Returned \subseteq Returned'
  BY <1>1 DEF Returned, Kept
<1>3. CallsAreMade' /\ TextsAreKnown' /\ TextHasKey'
  BY <1>0, <1>1, <1>b, <1>a DEF CallsAreMade, Kept, TextsAreKnown, TextHasKey
<1>4. AgainAfterFailure'
  BY <1>0, <1>1, <1>2 DEF AgainAfterFailure, Kept, Direct
<1>5. DraftOfCall'
  BY <1>0, <1>1, <1>a DEF DraftOfCall, Drafts!Underway, Kept
<1>6. DoneIsGone'
  BY <1>0, <1>1, <1>2 DEF DoneIsGone, TextHasKey, Kept, Direct
<1>7. Drafts!DraftKept'
  BY <1>1, <1>a, <1>0, <1>b, ComposerTypes DEF Drafts!DraftKept, Kept, Drafts!Underway,
     DraftOfCall
<1> QED BY <1>3, <1>4, <1>5, <1>6, <1>7 DEF TextsAgree

LEMMA RestoredKeeps ==
    ASSUME ComposerInv, NEW c \in Drafts!Call, Drafts!Restored(c)
    PROVE  TextsAgree'
<1>0. /\ Drafts!TypeOK /\ CallsAreMade /\ TextsAreKnown /\ TextHasKey
      /\ DraftOfCall /\ DoneIsGone /\ AgainAfterFailure /\ Drafts!DraftKept
  BY DEF ComposerInv
<1>a. edits \in Nat /\ typed \subseteq Nat \ {0} /\ accepted \subseteq Drafts!Call
     /\ \A d \in Drafts!Call : composerCalls[d].key \in Drafts!Key
  BY <1>0, ComposerTypes
<1>1. /\ UNCHANGED <<composerCalls, edits, typed>> /\ accepted' = accepted \ {c}
      /\ composerCalls[c].kind = "queue" /\ composerCalls[c].at = "done"
      /\ \A k \in Drafts!Key : drafts'[k].text = IF k = composerCalls[c].key
          THEN composerCalls[c].text ELSE drafts[k].text
      /\ replaced' = replaced \cup ({drafts[composerCalls[c].key].text} \ {0})
      /\ late' = IF Drafts!For(composerCalls[c].key) = {} THEN late
          ELSE late \cup {composerCalls[c].text}
  BY <1>0 DEF Drafts!Restored, Drafts!TypeOK
<1>2. /\ Returned \subseteq Returned'
      /\ composerCalls'[c].text \in Returned'
  BY <1>1 DEF Returned
<1>3. CallsAreMade' /\ TextsAreKnown' /\ TextHasKey'
  BY <1>0, <1>1, <1>a DEF CallsAreMade, TextsAreKnown, TextHasKey
<1>4. AgainAfterFailure'
  BY <1>0, <1>1, <1>2 DEF AgainAfterFailure, Direct
<1>5. DraftOfCall'
  BY <1>1, <1>0, <1>a DEF DraftOfCall, Drafts!Underway, Drafts!For
<1>6. DoneIsGone'
  BY <1>0, <1>1, <1>2 DEF DoneIsGone, Direct
<1>7. Drafts!DraftKept'
  BY <1>1, <1>0, <1>a DEF Drafts!DraftKept
<1> QED BY <1>3, <1>4, <1>5, <1>6, <1>7 DEF TextsAgree

LEMMA MadeKeeps ==
    ASSUME ComposerInv, NEW c \in Drafts!Call, NEW kind \in {"send", "create", "queue"},
             NEW at \in Early,
           MadeNow(c, kind, at)
    PROVE  TextsAgree'
<1>0. /\ Drafts!TypeOK /\ CallsAreMade /\ TextsAreKnown /\ TextHasKey
      /\ DraftOfCall /\ DoneIsGone /\ AgainAfterFailure /\ Drafts!DraftKept
  BY DEF ComposerInv
<1>a. /\ edits \in Nat /\ typed \subseteq Nat \ {0} /\ accepted \subseteq Drafts!Call
      /\ composerSelected \in Drafts!Key
      /\ \A d \in Drafts!Call :
            /\ composerCalls[d].key \in Drafts!Key /\ composerCalls[d].at \in Stage
            /\ composerCalls[d].kind \in {"none", "send", "create", "queue"}
      /\ Drafts!Call \subseteq Nat /\ Drafts!Call = 1..MaxSubmits
  BY <1>0, ComposerTypes DEF Drafts!Call
<1>1. /\ composerCalls[c].kind = "none" /\ \A d \in 1..(c - 1) : composerCalls[d].kind # "none"
      /\ UNCHANGED <<drafts, edits, typed, accepted, replaced, late>>
      /\ \A d \in Drafts!Call : d # c => composerCalls'[d] = composerCalls[d]
      /\ composerCalls'[c].kind = kind /\ composerCalls'[c].key = composerSelected
      /\ composerCalls'[c].text = drafts[composerSelected].text
      /\ composerCalls'[c].at = at
  BY <1>0 DEF MadeNow, Drafts!Made, Drafts!TypeOK
<1>b. c \notin accepted /\ \A d \in Drafts!Call : d < c => composerCalls[d].kind # "none"
  BY <1>0, <1>1, <1>a DEF CallsAreMade
<1>c. \A d \in Drafts!Call : c < d => composerCalls[d].kind = "none"
  BY <1>0, <1>1 DEF CallsAreMade
<1>d. kind # "none" /\ at \notin {"none", "ok", "done", "failed", "gone"}
  BY DEF Early
<1>2. Returned \subseteq Returned'
  BY <1>1 DEF Returned
<1>3. CallsAreMade'
  BY <1>0, <1>1, <1>a, <1>b, <1>c, <1>d DEF CallsAreMade
<1>4. TextsAreKnown' /\ TextHasKey'
  BY <1>0, <1>1, <1>a DEF TextsAreKnown, TextHasKey
<1>5. DraftOfCall'
  BY <1>0, <1>1, <1>a DEF DraftOfCall, Drafts!Underway
<1>6. DoneIsGone'
  BY <1>1, <1>d, <1>0, <1>2 DEF DoneIsGone, Direct
<1>7. AgainAfterFailure'
  BY <1>0, <1>1, <1>2, <1>a, <1>c DEF AgainAfterFailure, Direct, MadeNow, Drafts!Sending,
     Drafts!Underway, DoneIsGone
<1>8. Drafts!DraftKept'
  BY <1>0, <1>1, <1>b, <1>a DEF Drafts!DraftKept
<1> QED BY <1>3, <1>4, <1>5, <1>6, <1>7, <1>8 DEF TextsAgree

LEMMA ComposerInductive == Drafts!Spec => []ComposerInv
<1>1. ComposerInv /\ [Drafts!Next]_Drafts!vars => ComposerInv'
  BY ComposerTypeStep, MCWebAssumption, StepKinds, StillKeeps, TypeKeeps, CreatedKeeps,
     EndedKeeps, RestoredKeeps, MadeKeeps DEF Drafts!TypeOK, TextsAgree, ComposerInv
<1> QED BY ComposerInvInit, <1>1, PTL DEF Drafts!Spec

LEMMA ComposerFollows == ComposerInv => Drafts!DraftKept /\ Drafts!SentOnce
<1> SUFFICES ASSUME ComposerInv PROVE Drafts!SentOnce
  BY DEF ComposerInv
<1>1. accepted \subseteq Drafts!Call /\ AgainAfterFailure
  BY DEF ComposerInv, Drafts!TypeOK
<1> QED BY <1>1 DEF Drafts!SentOnce, AgainAfterFailure, Direct, Returned, Drafts!CameBack

-----------------------------------------------------------------------------
(* The list of sessions.                                                   *)

ListEntry == [archived : BOOLEAN, at : Nat, seq : Nat, read : Nat]
PageOfList == [rows : SUBSET Session, entries : [Session -> ListEntry], more : BOOLEAN,
    next : Nat]
Frame == [kind : {"snapshot"}, page : PageOfList]
         \cup [kind : {"upsert", "delete", "event"}, s : Session, entry : ListEntry]

\* What a frame says of session s.
HasPage(f) == f.kind = "snapshot"
IsOf(f, kind, s) == f.kind = kind /\ f.s = s
FullFor(f, s) == HasPage(f) \/ IsOf(f, "upsert", s)
Tells(f, s) == FullFor(f, s) \/ IsOf(f, "event", s)
Lacks(f, s) == HasPage(f) /\ s \notin f.page.rows
Carried(f, s) == IF HasPage(f) THEN f.page.entries[s] ELSE f.entry

SameMarks(d, e) == d.archived = e.archived /\ d.read = e.read
SameTimes(d, e) == d.at = e.at /\ d.seq = e.seq
NotAfter(d, e) == d.at <= e.at /\ d.seq <= e.seq

\* The frames u lead from the row r to the entry e of a session that is there, unless it is
\* in X: an answer has put an older row in its place.
NotDeleted(u, s) == \A i \in 1..Len(u) : ~IsOf(u[i], "delete", s)
NothingAfter(u, e, s) == \A i \in 1..Len(u) : Tells(u[i], s) => NotAfter(Carried(u[i], s), e)
LastMarks(u, e, s) ==
    \A i \in 1..Len(u) :
        FullFor(u[i], s) /\ ~Lacks(u[i], s)
            /\ (\A j \in 1..Len(u) : i < j => ~FullFor(u[j], s)) =>
            SameMarks(Carried(u[i], s), e)
LastTimes(u, e, s) ==
    \A i \in 1..Len(u) :
        Tells(u[i], s) /\ ~Lacks(u[i], s) /\ (\A j \in 1..Len(u) : i < j => ~Tells(u[j], s)) =>
            SameTimes(Carried(u[i], s), e)
RowShows(u, e, r, X, s) ==
    r.at # 0 /\ s \notin X /\ (\A i \in 1..Len(u) : ~FullFor(u[i], s)) =>
        /\ SameMarks(r, e) /\ NotAfter(r, e)
        /\ (\A i \in 1..Len(u) : ~Tells(u[i], s)) => SameTimes(r, e)
RowIsTold(u, e, r, X, s) ==
    /\ NotDeleted(u, s) /\ NothingAfter(u, e, s)
    /\ LastMarks(u, e, s) /\ LastTimes(u, e, s) /\ RowShows(u, e, r, X, s)

\* The same for a session that is gone: the row goes, too.
RowIsTaken(u, r, s) ==
    /\ r.at # 0 => \E i \in 1..Len(u) : IsOf(u[i], "delete", s) \/ HasPage(u[i])
    /\ \A i \in 1..Len(u) :
          FullFor(u[i], s) /\ ~Lacks(u[i], s) => \E j \in 1..Len(u) : i < j
              /\ IsOf(u[j], "delete", s)

Coming(u, s) == \E i \in 1..Len(u) : IsOf(u[i], "upsert", s) \/ IsOf(u[i], "event", s)

Cursor == [loaded : BOOLEAN, more : BOOLEAN, before : Nat]
PagingOfList == [at : {"none", "asked", "answered"}, before : Nat, rows : SUBSET Session,
                 entries : [Session -> ListEntry], more : BOOLEAN, next : Nat, former : BOOLEAN]
AnswerOfCall == [kind : {"read", "archive", "unarchive"}, s : Session, entry : ListEntry]

HostTyped ==
    /\ table \in [Session -> ListEntry] /\ listUpdates \in Seq(Frame)
    /\ made \subseteq Session /\ IsFiniteSet(made) /\ listChanges \in Nat /\ snapshots \in Nat
PageTyped ==
    /\ listRows \in [Session -> ListEntry] /\ list \in Cursor /\ paging \in PagingOfList
    /\ answers \subseteq AnswerOfCall
    /\ current \in Session \cup {NoSession} /\ timer \in Session \cup {NoSession}
    /\ passed \subseteq Session /\ ghosts \subseteq Session /\ stale \subseteq Session
ListsTyped == HostTyped /\ PageTyped

\* Everything tells of sessions that were made, and a snapshot is the first frame.
PageIsOf(p, M) ==
    /\ p.rows \subseteq M
    /\ \A s \in Session : IF s \in p.rows THEN p.entries[s].at # 0
        ELSE p.entries[s] = Lists!NoEntry
FramesAreOf(u, M) ==
    \A i \in 1..Len(u) :
        IF HasPage(u[i]) THEN i = 1 /\ PageIsOf(u[i].page, M)
        ELSE u[i].s \in M /\ (u[i].kind # "delete" => u[i].entry.at # 0)
AllIsMade ==
    /\ \A s \in Session : Lists!There(table, s) => s \in made /\ table[s].at <= listChanges
    /\ Lists!Known \subseteq made
    /\ FramesAreOf(listUpdates, made) /\ PageIsOf(paging, made)
    /\ \A a \in answers : a.s \in made /\ a.entry.at # 0
\* Nothing is there before the first stream.
NothingYet ==
    snapshots = 0 =>
        /\ listUpdates = <<>> /\ Lists!Known = {} /\ ~list.loaded /\ paging.at = "none"
            /\ answers = {}
        /\ current = NoSession /\ timer = NoSession

RowsFollow ==
    \A s \in Session :
        /\ Lists!There(table, s) => RowIsTold(listUpdates, table[s], listRows[s], stale, s)
        /\ ~Lists!There(table, s) /\ s \notin ghosts => RowIsTaken(listUpdates, listRows[s], s)

\* A session that the list has to show is shown, is told of, or is on a later page.
Listed(s) == Lists!There(table, s) /\ ~table[s].archived
AwaitedIn(u) == u # <<>> /\ HasPage(u[1])
Awaited == AwaitedIn(listUpdates)
OnPage(p, s, n) == s \in p.rows \/ (p.more /\ n < p.next)
Reached(s) ==
    /\ Awaited => OnPage(listUpdates[1].page, s, table[s].at) \/ Coming(listUpdates, s)
    /\ ~Awaited /\ list.loaded =>
          s \in Lists!Known \cup passed \/ Coming(listUpdates, s)
              \/ (list.more /\ table[s].at < list.before)
    /\ paging.at = "answered" /\ ~paging.former /\ table[s].at < paging.before =>
          \/ OnPage(paging, s, table[s].at) \/ Coming(listUpdates, s)
          \/ ~Awaited /\ s \in Lists!Known \cup passed
ListReaches == \A s \in Session : Listed(s) => Reached(s)

UnreadIsGated == unmoved \subseteq needs
    /\ (\A s \in unmoved : s \in Session /\ Lists!Unread(listRows[s])) /\ hasty = {}

ListsInv ==
    /\ ListsTyped /\ AllIsMade /\ NothingYet /\ RowsFollow
    /\ ListReaches /\ UnreadIsGated

LEMMA ListSizeAgrees == \A S : Lists!Cardinality(S) = Cardinality(S)
BY DEF Lists!Cardinality, Cardinality, Lists!IsFiniteSet, IsFiniteSet

LEMMA TailFacts ==
    ASSUME NEW S, NEW u \in Seq(S), u # <<>>
    PROVE  /\ Head(u) = u[1] /\ 1 \in 1..Len(u) /\ Tail(u) \in Seq(S) /\ Len(Tail(u)) = Len(u) - 1
           /\ u[1] \in S /\ Len(u) \in Nat
           /\ \A i \in 1..Len(Tail(u)) : Tail(u)[i] = u[i + 1] /\ i + 1 \in 1..Len(u)
           /\ \A i \in 1..Len(u) : i # 1 => i - 1 \in 1..Len(Tail(u)) /\ u[i] = Tail(u)[i - 1]
OBVIOUS

LEMMA AppendFacts ==
    ASSUME NEW S, NEW u \in Seq(S), NEW f \in S
    PROVE  /\ Append(u, f) \in Seq(S) /\ Len(Append(u, f)) = Len(u) + 1 /\ Len(u) \in Nat
           /\ Append(u, f)[Len(u) + 1] = f
           /\ \A i \in 1..Len(u) : Append(u, f)[i] = u[i]
OBVIOUS

LEMMA ToldTail ==
    ASSUME NEW u \in Seq(Frame), u # <<>>, NEW e \in ListEntry, NEW r \in ListEntry, NEW X,
             NEW s \in Session,
           RowIsTold(u, e, r, X, s), NEW d \in ListEntry, NEW Y,
           d.at # 0 /\ s \notin Y =>
              \/ ~Tells(Head(u), s) /\ d = r /\ s \notin X
              \/ FullFor(Head(u), s) /\ ~Lacks(Head(u), s) /\ d = Carried(Head(u), s)
              \/ /\ IsOf(Head(u), "event", s) /\ r.at # 0 /\ s \notin X /\ SameMarks(d, r)
                 /\ d.at = (IF r.at > Head(u).entry.at THEN r.at ELSE Head(u).entry.at)
                 /\ d.seq = (IF r.seq > Head(u).entry.seq THEN r.seq ELSE Head(u).entry.seq)
    PROVE  RowIsTold(Tail(u), e, d, Y, s)
<1> DEFINE w == Tail(u)
<1>1. /\ Head(u) = u[1] /\ 1 \in 1..Len(u) /\ w \in Seq(Frame) /\ Len(w) = Len(u) - 1
      /\ u[1] \in Frame /\ Len(u) \in Nat
      /\ \A i \in 1..Len(w) : w[i] = u[i + 1] /\ i + 1 \in 1..Len(u)
      /\ \A i \in 1..Len(u) : i # 1 => i - 1 \in 1..Len(w) /\ u[i] = w[i - 1]
  BY TailFacts
<1> HIDE DEF w
<1>2. \A i \in 1..Len(w) : ~IsOf(w[i], "delete", s)
        /\ (Tells(w[i], s) => NotAfter(Carried(w[i], s), e))
  BY <1>1 DEF RowIsTold, NotDeleted, NothingAfter, LastMarks, LastTimes, RowShows
<1>3. ASSUME NEW i \in 1..Len(w), FullFor(w[i], s) /\ ~Lacks(w[i], s),
             \A j \in 1..Len(w) : i < j => ~FullFor(w[j], s)
      PROVE  SameMarks(Carried(w[i], s), e)
  <2>1. w[i] = u[i + 1] /\ i + 1 \in 1..Len(u)
    BY <1>1
  <2>2. ASSUME NEW j \in 1..Len(u), i + 1 < j PROVE ~FullFor(u[j], s)
    BY <1>1, <2>2, <1>3
  <2> QED BY <1>3, <2>1, <2>2 DEF RowIsTold, NotDeleted, NothingAfter, LastMarks, LastTimes,
        RowShows
<1>4. ASSUME NEW i \in 1..Len(w), Tells(w[i], s) /\ ~Lacks(w[i], s),
             \A j \in 1..Len(w) : i < j => ~Tells(w[j], s)
      PROVE  SameTimes(Carried(w[i], s), e)
  BY <1>1, <1>4 DEF RowIsTold, NotDeleted, NothingAfter, LastMarks, LastTimes, RowShows
<1>5. ASSUME d.at # 0, s \notin Y, \A i \in 1..Len(w) : ~FullFor(w[i], s)
      PROVE  /\ SameMarks(d, e) /\ NotAfter(d, e)
             /\ (\A i \in 1..Len(w) : ~Tells(w[i], s)) => SameTimes(d, e)
  <2>0. \A j \in 1..Len(u) : 1 < j => ~FullFor(u[j], s)
          /\ ((\A i \in 1..Len(w) : ~Tells(w[i], s)) => ~Tells(u[j], s))
    BY <1>1, <1>5
  <2>1. CASE ~Tells(u[1], s) /\ d = r /\ s \notin X
    BY <2>0, <2>1, <1>5 DEF Tells, RowIsTold, NotDeleted, NothingAfter, LastMarks, LastTimes,
       RowShows
  <2>2. CASE FullFor(u[1], s) /\ ~Lacks(u[1], s) /\ d = Carried(u[1], s)
    BY <2>2, <1>1, <2>0 DEF Tells, RowIsTold, NotDeleted, NothingAfter, LastMarks, LastTimes,
       RowShows
  <2>3. CASE /\ IsOf(u[1], "event", s) /\ r.at # 0 /\ s \notin X /\ SameMarks(d, r)
             /\ d.at = (IF r.at > u[1].entry.at THEN r.at ELSE u[1].entry.at)
             /\ d.seq = (IF r.seq > u[1].entry.seq THEN r.seq ELSE u[1].entry.seq)
    <3>1. Tells(u[1], s) /\ ~FullFor(u[1], s) /\ ~Lacks(u[1], s) /\ Carried(u[1], s) = u[1].entry
      BY <2>3 DEF Tells, FullFor, IsOf, HasPage, Lacks, Carried
    <3>2. \A j \in 1..Len(u) : ~FullFor(u[j], s)
      BY <2>0, <3>1
    <3>3. SameMarks(r, e) /\ NotAfter(r, e)
      BY <2>3, <3>2 DEF RowIsTold, NotDeleted, NothingAfter, LastMarks, LastTimes, RowShows
    <3>4. NotAfter(u[1].entry, e)
      BY <1>1, <3>1 DEF RowIsTold, NotDeleted, NothingAfter, LastMarks, LastTimes, RowShows
    <3>5. (\A i \in 1..Len(w) : ~Tells(w[i], s)) => SameTimes(u[1].entry, e)
      BY <1>1, <2>0, <3>1 DEF RowIsTold, NotDeleted, NothingAfter, LastMarks, LastTimes, RowShows
    <3>6. u[1].entry \in ListEntry
      BY <1>1, <2>3 DEF Frame, IsOf
    <3> QED BY <2>3, <3>3, <3>4, <3>5, <3>6 DEF SameMarks, SameTimes, NotAfter, ListEntry
  <2> QED BY <1>1, <1>5, <2>1, <2>2, <2>3
<1>6. NotDeleted(w, s) /\ NothingAfter(w, e, s)
  BY <1>2 DEF NotDeleted, NothingAfter
<1>7. LastMarks(w, e, s)
  BY <1>3 DEF LastMarks
<1>8. LastTimes(w, e, s)
  BY <1>4 DEF LastTimes
<1>9. RowShows(w, e, d, Y, s)
  BY <1>5 DEF RowShows
<1>10. RowIsTold(w, e, d, Y, s)
  BY <1>6, <1>7, <1>8, <1>9 DEF RowIsTold
<1> QED BY <1>10 DEF w

LEMMA ToldAppend ==
    ASSUME NEW u \in Seq(Frame), NEW e \in ListEntry, NEW r \in ListEntry, NEW X,
             NEW s \in Session,
           RowIsTold(u, e, r, X, s), NEW f \in Frame, NEW d \in ListEntry, ~HasPage(f),
               ~IsOf(f, "delete", s),
           \/ ~Tells(f, s) /\ d = e
           \/ IsOf(f, "upsert", s) /\ f.entry = d /\ NotAfter(e, d)
           \/ IsOf(f, "event", s) /\ f.entry = d /\ NotAfter(e, d) /\ SameMarks(e, d)
    PROVE  RowIsTold(Append(u, f), d, r, X, s)
<1> DEFINE w == Append(u, f)  n == Len(u) + 1
<1>1. /\ w \in Seq(Frame) /\ Len(w) = n /\ Len(u) \in Nat /\ w[n] = f
      /\ \A i \in 1..Len(u) : w[i] = u[i]
  BY AppendFacts
<1> HIDE DEF w
<1>2. Tells(f, s) => Carried(f, s) = d /\ ~Lacks(f, s)
  BY DEF Tells, FullFor, Carried, Lacks
<1>3. NotAfter(e, d) /\ NotAfter(d, d)
  BY DEF NotAfter, ListEntry, Tells, FullFor
<1>4. ASSUME NEW i \in 1..Len(u), Tells(u[i], s) PROVE NotAfter(Carried(u[i], s), d)
  <2>1. NotAfter(Carried(u[i], s), e)
    BY <1>4 DEF RowIsTold, NotDeleted, NothingAfter, LastMarks, LastTimes, RowShows
  <2>2. Carried(u[i], s) \in ListEntry
    BY <1>4 DEF Frame, Carried, HasPage, Tells, FullFor, IsOf, PageOfList
  <2> QED BY <1>3, <2>1, <2>2 DEF NotAfter, ListEntry
<1>5. \A i \in 1..Len(w) : i \in 1..Len(u) \/ i = n
  BY <1>1
<1>6. \A i \in 1..Len(w) : ~IsOf(w[i], "delete", s)
        /\ (Tells(w[i], s) => NotAfter(Carried(w[i], s), d))
  BY <1>1, <1>2, <1>3, <1>4, <1>5 DEF RowIsTold, NotDeleted, NothingAfter, LastMarks, LastTimes,
     RowShows
<1>7. ASSUME NEW i \in 1..Len(w), FullFor(w[i], s) /\ ~Lacks(w[i], s),
             \A j \in 1..Len(w) : i < j => ~FullFor(w[j], s)
      PROVE  SameMarks(Carried(w[i], s), d)
  BY <1>1, <1>2, <1>7, <1>5 DEF SameMarks, Tells, FullFor, RowIsTold, NotDeleted, NothingAfter,
     LastMarks, LastTimes, RowShows
<1>8. ASSUME NEW i \in 1..Len(w), Tells(w[i], s) /\ ~Lacks(w[i], s),
             \A j \in 1..Len(w) : i < j => ~Tells(w[j], s)
      PROVE  SameTimes(Carried(w[i], s), d)
  BY <1>1, <1>2, <1>8, <1>5 DEF SameTimes, Tells, FullFor, RowIsTold, NotDeleted, NothingAfter,
     LastMarks, LastTimes, RowShows
<1>9. ASSUME r.at # 0, s \notin X, \A i \in 1..Len(w) : ~FullFor(w[i], s)
      PROVE  /\ SameMarks(r, d) /\ NotAfter(r, d)
             /\ (\A i \in 1..Len(w) : ~Tells(w[i], s)) => SameTimes(r, d)
  <2>1. ~FullFor(f, s) /\ \A i \in 1..Len(u) : ~FullFor(u[i], s)
    BY <1>1, <1>9
  <2>2. SameMarks(r, e) /\ NotAfter(r, e) /\ SameMarks(e, d)
    BY <1>9, <2>1 DEF RowIsTold, NotDeleted, NothingAfter, LastMarks, LastTimes, RowShows,
       FullFor, SameMarks
  <2>3. ASSUME \A i \in 1..Len(w) : ~Tells(w[i], s) PROVE SameTimes(r, d)
    BY <1>1, <2>3, <1>9, <2>1 DEF RowIsTold, NotDeleted, NothingAfter, LastMarks, LastTimes,
       RowShows, Tells, FullFor
  <2> QED BY <1>3, <2>2, <2>3 DEF SameMarks, NotAfter, ListEntry
<1>10. NotDeleted(w, s) /\ NothingAfter(w, d, s)
  BY <1>6 DEF NotDeleted, NothingAfter
<1>11. LastMarks(w, d, s)
  BY <1>7 DEF LastMarks
<1>12. LastTimes(w, d, s)
  BY <1>8 DEF LastTimes
<1>13. RowShows(w, d, r, X, s)
  BY <1>9 DEF RowShows
<1>14. RowIsTold(w, d, r, X, s)
  BY <1>10, <1>11, <1>12, <1>13 DEF RowIsTold
<1> QED BY <1>14 DEF w

\* A row from an answer is that of the host, or known to be older.
LEMMA ToldByAnswer ==
    ASSUME NEW u, NEW e \in ListEntry, NEW r, NEW X, NEW s,
           RowIsTold(u, e, r, X, s), NEW d, NEW Y, d = e \/ s \in Y
    PROVE  RowIsTold(u, e, d, Y, s)
BY DEF RowIsTold, NotDeleted, NothingAfter, LastMarks, LastTimes, RowShows, SameMarks,
   SameTimes, NotAfter, ListEntry

\* Nothing has been said of a new session.
LEMMA ToldOfNew ==
    ASSUME NEW u \in Seq(Frame), NEW e \in ListEntry, NEW r, NEW X, NEW s \in Session, r.at = 0,
           \A i \in 1..Len(u) : IF HasPage(u[i]) THEN s \notin u[i].page.rows
               /\ u[i].page.entries[s] = Lists!NoEntry
                                ELSE u[i].s # s
    PROVE  RowIsTold(u, e, r, X, s)
<1>1. \A i \in 1..Len(u) : /\ ~IsOf(u[i], "delete", s) /\ ~IsOf(u[i], "upsert", s)
                               /\ ~IsOf(u[i], "event", s)
                           /\ FullFor(u[i], s) => Lacks(u[i], s)
                               /\ Carried(u[i], s) = Lists!NoEntry
  BY DEF IsOf, HasPage, FullFor, Lacks, Carried
<1>2. NotAfter(Lists!NoEntry, e)
  BY DEF NotAfter, Lists!NoEntry, ListEntry
<1> QED BY <1>1, <1>2 DEF RowIsTold, NotDeleted, NothingAfter, LastMarks, LastTimes, RowShows,
      Tells

LEMMA ToldBySnapshot ==
    ASSUME NEW p \in PageOfList, NEW e \in ListEntry, NEW r, NEW X, NEW s \in Session,
           NEW f, f = [kind |-> "snapshot", page |-> p],
           p.entries[s] = IF s \in p.rows THEN e ELSE Lists!NoEntry
    PROVE  RowIsTold(<<f>>, e, r, X, s)
<1>1. /\ HasPage(f) /\ FullFor(f, s) /\ Carried(f, s) = p.entries[s]
      /\ (Lacks(f, s) <=> s \notin p.rows)
      /\ ~IsOf(f, "delete", s)
  BY DEF HasPage, FullFor, Carried, Lacks, IsOf
<1>2. NotAfter(Carried(f, s), e) /\ (~Lacks(f, s) => Carried(f, s) = e)
  BY <1>1 DEF NotAfter, Lists!NoEntry, ListEntry
<1>3. Len(<<f>>) = 1 /\ <<f>>[1] = f /\ \A i \in 1..Len(<<f>>) : i = 1
  OBVIOUS
<1> HIDE DEF HasPage
<1> QED BY <1>1, <1>2, <1>3 DEF RowIsTold, NotDeleted, NothingAfter, LastMarks, LastTimes,
      RowShows, SameMarks, SameTimes

\* What the host answers: a session that ought to be listed is on the page, or on a
\* later one.
LEMMA PageBeforeIs ==
    ASSUME HostTyped, \A s \in Session : Lists!There(table, s) => s \in made
             /\ table[s].at <= listChanges, NEW b \in Nat
    PROVE  /\ Lists!PageBefore(b) \in PageOfList /\ PageIsOf(Lists!PageBefore(b), made)
           /\ \A s \in Session : /\ s \in Lists!PageBefore(b).rows => Lists!There(table, s)
                               /\ Lists!PageBefore(b).entries[s] = IF s \in
                                   Lists!PageBefore(b).rows THEN table[s] ELSE Lists!NoEntry
           /\ \A s \in Session : Listed(s) /\ (b = 0 \/ table[s].at < b) =>
               OnPage(Lists!PageBefore(b), s, table[s].at)
           /\ Lists!PageBefore(b).next = 0
               \/ \E s \in Session : Lists!PageBefore(b).next = table[s].at
<1> DEFINE B == Lists!Before(b)
           page == Lists!Newest(B, ListPage)
           first == CHOOSE t \in {table[s].at : s \in page} : \A s \in page : t <= table[s].at
           Ahead(s) == {u \in B : table[u].at > table[s].at}
           p == Lists!PageBefore(b)
<1>1. /\ p.rows = page /\ p.entries = [s \in Session |-> IF s \in page THEN table[s]
          ELSE Lists!NoEntry]
      /\ p.more = (B # page) /\ p.next = IF page = {} THEN 0 ELSE first
      /\ p = [rows |-> p.rows, entries |-> p.entries, more |-> p.more, next |-> p.next]
  BY DEF Lists!PageBefore
<1>2. /\ \A s : s \in B <=> s \in Session /\ Listed(s) /\ (b = 0 \/ table[s].at < b)
      /\ B \subseteq made /\ B \subseteq Session
  BY DEF Lists!Before, Listed, HostTyped
<1>3. \A s : s \in page <=> s \in B /\ Cardinality(Ahead(s)) < ListPage
  BY ListSizeAgrees DEF Lists!Newest
<1>4. \A s : IsFiniteSet(Ahead(s)) /\ Cardinality(Ahead(s)) \in Nat
  BY <1>2, FS_Subset, FS_CardinalityType DEF HostTyped
<1>5. \A s \in Session : table[s] \in ListEntry /\ table[s].at \in Nat
  BY DEF HostTyped, ListEntry
<1> HIDE DEF B, p
<1>6. ASSUME page # {} PROVE first \in Nat /\ \E s \in page : first = table[s].at
  <2> DEFINE T == {table[s].at : s \in page}
  <2>1. T \in SUBSET Nat /\ T # {}
    BY <1>2, <1>3, <1>5, <1>6
  <2>2. PICK k \in T : \A m \in T : k <= m
    BY <2>1, SmallestNumber
  <2>3. \A s \in page : k <= table[s].at
    BY <2>2
  <2>4. first \in T
    BY <2>2, <2>3
  <2> QED BY <2>1, <2>4
<1>7. ASSUME NEW s \in B, s \notin page PROVE page # {} /\ table[s].at < first
  <2> DEFINE gap == {listChanges - table[u].at : u \in B}
  <2>1. page # {}
    <3>1. gap \in SUBSET Nat /\ gap # {}
      BY <1>2, <1>5, <1>7 DEF HostTyped, Listed
    <3>2. PICK k \in gap : \A n \in gap : k <= n
      BY <3>1, SmallestNumber
    <3>3. PICK m \in B : k = listChanges - table[m].at
      BY <3>2
    <3>a. \A u \in B : table[u].at <= table[m].at
      <4> SUFFICES ASSUME NEW u \in B PROVE table[u].at <= table[m].at
        OBVIOUS
      <4>1. k <= listChanges - table[u].at
        BY <3>2
      <4>2. table[u].at \in Nat /\ table[m].at \in Nat /\ listChanges \in Nat
        BY <1>2, <1>5 DEF HostTyped
      <4> QED BY ONLY <3>3, <4>1, <4>2
    <3>4. Ahead(m) = {}
      BY <1>2, <1>5, <3>a
    <3>5. Cardinality(Ahead(m)) = 0
      BY <3>4, FS_EmptySet
    <3> QED BY <1>3, <3>5, MCWebAssumption
  <2>2. PICK q \in page : first = table[q].at
    BY <1>6, <2>1
  <2>3. q \in B /\ q \in Session /\ s \in Session
    BY <1>2, <1>3
  <2>4. ASSUME table[q].at <= table[s].at PROVE FALSE
    <3>1. Ahead(s) \subseteq Ahead(q)
      BY <1>2, <1>5, <2>3, <2>4
    <3>2. Cardinality(Ahead(s)) <= Cardinality(Ahead(q))
      BY <1>4, <3>1, FS_Subset
    <3>3. Cardinality(Ahead(q)) < ListPage /\ ~(Cardinality(Ahead(s)) < ListPage)
      BY <1>3, <1>7
    <3>4. Cardinality(Ahead(s)) \in Nat /\ Cardinality(Ahead(q)) \in Nat
      BY <1>4
    <3> HIDE DEF Ahead
    <3> QED BY <3>2, <3>3, <3>4, MCWebAssumption
  <2>5. table[q].at \in Nat /\ table[s].at \in Nat
    BY <1>5, <2>3
  <2>6. ~(table[q].at <= table[s].at)
    BY <2>4
  <2> HIDE DEF first, page
  <2> QED BY <2>1, <2>2, <2>5, <2>6
<1>8. p \in PageOfList
  <2>1. p.next \in Nat
    BY <1>1, <1>6
  <2>2. p.entries \in [Session -> ListEntry]
    BY <1>1, <1>5 DEF Lists!NoEntry, ListEntry
  <2>3. p.rows \in SUBSET Session /\ p.more \in BOOLEAN
    BY <1>1, <1>2, <1>3
  <2> QED BY <1>1, <2>1, <2>2, <2>3 DEF PageOfList
<1>9. \A s \in Session : /\ s \in p.rows => Lists!There(table, s)
                        /\ p.entries[s] = IF s \in p.rows THEN table[s] ELSE Lists!NoEntry
  BY <1>1, <1>2, <1>3 DEF Listed
<1>10. PageIsOf(p, made)
  BY <1>1, <1>2, <1>3, <1>9 DEF PageIsOf, Lists!There
<1>11. \A s \in Session : Listed(s) /\ (b = 0 \/ table[s].at < b) => OnPage(p, s, table[s].at)
  BY <1>1, <1>2, <1>3, <1>7 DEF OnPage
<1>12. p.next = 0 \/ \E s \in Session : p.next = table[s].at
  BY <1>1, <1>2, <1>3, <1>6
<1> QED BY <1>8, <1>9, <1>10, <1>11, <1>12 DEF p

LEMMA TakenTail ==
    ASSUME NEW u \in Seq(Frame), u # <<>>, NEW r, NEW s, RowIsTaken(u, r, s), NEW d,
           d.at # 0 => \/ r.at # 0 /\ ~HasPage(Head(u)) /\ ~IsOf(Head(u), "delete", s)
                       \/ FullFor(Head(u), s) /\ ~Lacks(Head(u), s)
    PROVE  RowIsTaken(Tail(u), d, s)
<1> DEFINE w == Tail(u)
<1>1. /\ Head(u) = u[1] /\ 1 \in 1..Len(u) /\ w \in Seq(Frame) /\ Len(w) = Len(u) - 1
          /\ Len(u) \in Nat
      /\ \A i \in 1..Len(w) : w[i] = u[i + 1] /\ i + 1 \in 1..Len(u)
      /\ \A i \in 1..Len(u) : i # 1 => i - 1 \in 1..Len(w) /\ u[i] = w[i - 1]
  BY TailFacts
<1> HIDE DEF w
<1>2. ASSUME d.at # 0 PROVE \E i \in 1..Len(w) : IsOf(w[i], "delete", s) \/ HasPage(w[i])
  BY <1>1, <1>2 DEF RowIsTaken
<1>3. ASSUME NEW i \in 1..Len(w), FullFor(w[i], s), ~Lacks(w[i], s)
      PROVE  \E j \in 1..Len(w) : i < j /\ IsOf(w[j], "delete", s)
  BY <1>1, <1>3 DEF RowIsTaken
<1>4. RowIsTaken(w, d, s)
  BY <1>2, <1>3 DEF RowIsTaken
<1> QED BY <1>4 DEF w

LEMMA TakenAppend ==
    ASSUME NEW u \in Seq(Frame), NEW f \in Frame, NEW r, NEW s, ~FullFor(f, s),
           RowIsTaken(u, r, s) \/ IsOf(f, "delete", s)
    PROVE  RowIsTaken(Append(u, f), r, s)
<1> DEFINE w == Append(u, f)  n == Len(u) + 1
<1>1. /\ Len(w) = n /\ Len(u) \in Nat /\ w[n] = f /\ n \in 1..Len(w)
      /\ \A i \in 1..Len(u) : w[i] = u[i] /\ i \in 1..Len(w) /\ i < n
  BY AppendFacts
<1> HIDE DEF w
<1>2. \A i \in 1..Len(w) : i \in 1..Len(u) \/ i = n
  BY <1>1
<1>3. r.at # 0 => \E i \in 1..Len(w) : IsOf(w[i], "delete", s) \/ HasPage(w[i])
  BY <1>1 DEF RowIsTaken
<1>4. \A i \in 1..Len(w) :
         FullFor(w[i], s) /\ ~Lacks(w[i], s) => \E j \in 1..Len(w) : i < j
             /\ IsOf(w[j], "delete", s)
  BY <1>1, <1>2 DEF RowIsTaken
<1>5. RowIsTaken(w, r, s)
  BY <1>3, <1>4 DEF RowIsTaken
<1> QED BY <1>5 DEF w

LEMMA TakenBySnapshot ==
    ASSUME NEW f, NEW r, NEW s, HasPage(f), Lacks(f, s)
    PROVE  RowIsTaken(<<f>>, r, s)
<1>1. Len(<<f>>) = 1 /\ <<f>>[1] = f /\ 1 \in 1..Len(<<f>>) /\ \A i \in 1..Len(<<f>>) : i = 1
  OBVIOUS
<1> QED BY <1>1 DEF RowIsTaken

LEMMA ComingTail ==
    ASSUME NEW u \in Seq(Frame), u # <<>>, NEW s, Coming(u, s),
           ~IsOf(Head(u), "upsert", s), ~IsOf(Head(u), "event", s)
    PROVE  Coming(Tail(u), s)
<1>1. PICK i \in 1..Len(u) : IsOf(u[i], "upsert", s) \/ IsOf(u[i], "event", s)
  BY DEF Coming
<1>2. i - 1 \in 1..Len(Tail(u)) /\ u[i] = Tail(u)[i - 1]
  BY <1>1, TailFacts
<1> QED BY <1>1, <1>2 DEF Coming

LEMMA ComingAppend ==
    ASSUME NEW u \in Seq(Frame), NEW f \in Frame, NEW s,
           Coming(u, s) \/ IsOf(f, "upsert", s) \/ IsOf(f, "event", s)
    PROVE  Coming(Append(u, f), s)
<1>1. /\ Len(Append(u, f)) = Len(u) + 1 /\ Len(u) \in Nat /\ Append(u, f)[Len(u) + 1] = f
      /\ \A i \in 1..Len(u) : Append(u, f)[i] = u[i]
  BY AppendFacts
<1> QED BY <1>1 DEF Coming

LEMMA SendIsFrame ==
    ASSUME NEW kind \in {"upsert", "delete", "event"}, NEW s \in Session, NEW e \in ListEntry
    PROVE  /\ Lists!Send(kind, s, e) \in Frame /\ ~HasPage(Lists!Send(kind, s, e))
           /\ Lists!Send(kind, s, e).kind = kind /\ Lists!Send(kind, s, e).s = s
               /\ Lists!Send(kind, s, e).entry = e
BY DEF Lists!Send, Frame, HasPage

LEMMA ChangedTyped ==
    ASSUME NEW kind \in {"read", "archive", "unarchive"}, NEW e \in ListEntry
    PROVE  Lists!Changed(kind, e) \in ListEntry /\ SameTimes(Lists!Changed(kind, e), e)
BY DEF Lists!Changed, ListEntry, SameTimes

LEMMA EntryWith ==
    ASSUME NEW e \in ListEntry, NEW n \in Nat, NEW m \in Nat
    PROVE  /\ [e EXCEPT !.at = n] \in ListEntry /\ [e EXCEPT !.at = n].at = n
           /\ [e EXCEPT !.at = n, !.seq = m] \in ListEntry
           /\ [e EXCEPT !.at = n, !.seq = m].at = n /\ [e EXCEPT !.at = n, !.seq = m].seq = m
           /\ SameMarks([e EXCEPT !.at = n, !.seq = m], e)
BY DEF ListEntry, SameMarks

LEMMA HeadFrame ==
    ASSUME listUpdates \in Seq(Frame), listUpdates # <<>>
    PROVE  /\ Tail(listUpdates) \in Seq(Frame)
           /\ Head(listUpdates).kind = "snapshot" => Head(listUpdates).page \in PageOfList
           /\ Head(listUpdates).kind # "snapshot" =>
                 Head(listUpdates).s \in Session /\ Head(listUpdates).entry \in ListEntry
<1>1. Tail(listUpdates) \in Seq(Frame) /\ Head(listUpdates) \in Frame
  BY TailFacts
<1> QED BY <1>1 DEF Frame

LEMMA RowOfIs == ASSUME PageTyped, NEW s \in Session, NEW e \in ListEntry
    PROVE Lists!RowOf(s, e) = e
<1>1. listRows[s] \in ListEntry
  BY DEF PageTyped
<1> QED BY <1>1 DEF Lists!RowOf, ListEntry

LEMMA CallTyped ==
    ASSUME ListsTyped, NEW kind \in {"read", "archive", "unarchive"}, NEW s \in Session,
             Lists!Call(kind, s)
    PROVE  /\ table' = [table EXCEPT ![s] = Lists!Changed(kind, table[s])]
               /\ table'[s] = Lists!Changed(kind, table[s])
           /\ table'[s] \in ListEntry /\ table' \in [Session -> ListEntry]
               /\ listUpdates' \in Seq(Frame)
           /\ answers' \subseteq AnswerOfCall /\ passed' \subseteq Session /\ made' = made
<1>1. table' = [table EXCEPT ![s] = Lists!Changed(kind, table[s])] /\ made' = made
  BY DEF Lists!Call
<1>2. table[s] \in ListEntry /\ table \in [Session -> ListEntry]
  BY DEF ListsTyped, HostTyped
<1>3. Lists!Changed(kind, table[s]) \in ListEntry
  BY <1>2, ChangedTyped
<1>4. table'[s] = Lists!Changed(kind, table[s]) /\ table'[s] \in ListEntry
        /\ table' \in [Session -> ListEntry]
  BY <1>1, <1>2, <1>3
<1>5. Lists!Send("upsert", s, table'[s]) \in Frame
  BY <1>4, SendIsFrame
<1>6. listUpdates' \in Seq(Frame)
  BY <1>5 DEF Lists!Call, ListsTyped, HostTyped
<1>7. [kind |-> kind, s |-> s, entry |-> table'[s]] \in AnswerOfCall
  BY <1>4 DEF AnswerOfCall
<1>8. answers' \subseteq AnswerOfCall /\ passed' \subseteq Session
  BY <1>7 DEF Lists!Call, ListsTyped, PageTyped
<1> QED BY <1>1, <1>4, <1>6, <1>8

LEMMA HostTypedStep == ListsTyped /\ AllIsMade /\ [Lists!Next]_Lists!vars => HostTyped'
<1> SUFFICES ASSUME ListsTyped, AllIsMade, [Lists!Next]_Lists!vars PROVE HostTyped'
  OBVIOUS
<1>0. /\ table \in [Session -> ListEntry] /\ listUpdates \in Seq(Frame)
      /\ made \subseteq Session /\ IsFiniteSet(made) /\ listChanges \in Nat /\ snapshots \in Nat
  BY DEF ListsTyped, HostTyped
<1>1. ASSUME NEW s \in Session, Lists!Create(s) PROVE HostTyped'
  <2>1. [Lists!NoEntry EXCEPT !.at = Lists!Now] \in ListEntry
    <3>1. Lists!Now \in Nat /\ Lists!NoEntry \in ListEntry
      BY <1>0 DEF Lists!Now, Lists!NoEntry, ListEntry
    <3> QED BY <3>1, EntryWith
  <2>2. table' = [table EXCEPT ![s] = [Lists!NoEntry EXCEPT !.at = Lists!Now]]
    BY <1>1 DEF Lists!Create
  <2>3. table' \in [Session -> ListEntry] /\ table'[s] \in ListEntry
    BY <1>0, <2>1, <2>2
  <2>4. Lists!Send("upsert", s, table'[s]) \in Frame
    BY <2>3, SendIsFrame
  <2>5. listUpdates' \in Seq(Frame) /\ made' = made \cup {s} /\ listChanges' \in Nat
          /\ snapshots' = snapshots
    BY <1>0, <1>1, <2>4 DEF Lists!Create, Lists!Now
  <2>6. IsFiniteSet(made')
    BY <1>0, <2>5, FS_AddElement
  <2> QED BY <1>0, <2>3, <2>5, <2>6 DEF HostTyped
<1>2. ASSUME NEW s \in Session, Lists!Event(s) PROVE HostTyped'
  <2> DEFINE d == [table[s] EXCEPT !.at = Lists!Now, !.seq = @ + 1]
  <2>1. table[s] \in ListEntry /\ Lists!Now \in Nat
    BY <1>0 DEF Lists!Now
  <2>2. d \in ListEntry
    <3>1. table[s].seq + 1 \in Nat
      BY <2>1 DEF ListEntry
    <3> QED BY <2>1, <3>1, EntryWith
  <2>3. table' = [table EXCEPT ![s] = d]
    BY <1>2 DEF Lists!Event
  <2> HIDE DEF d
  <2>4. table' \in [Session -> ListEntry] /\ table'[s] \in ListEntry
    BY <1>0, <2>2, <2>3
  <2>5. Lists!Send("event", s, table'[s]) \in Frame
    BY <2>4, SendIsFrame
  <2>6. listUpdates' \in Seq(Frame) /\ made' = made /\ listChanges' \in Nat
          /\ snapshots' = snapshots
    BY <1>0, <1>2, <2>1, <2>5 DEF Lists!Event
  <2> QED BY <1>0, <2>4, <2>6 DEF HostTyped
<1>3. Lists!NoEntry \in ListEntry
  BY DEF Lists!NoEntry, ListEntry
<1>4. ASSUME NEW s \in Session, Lists!Delete(s) PROVE HostTyped'
  BY <1>3, SendIsFrame, <1>4, <1>0 DEF Lists!Delete, HostTyped, Lists!Now
<1>5. ASSUME NEW s \in Session, Lists!Prune(s) PROVE HostTyped'
  BY <1>0, <1>3, <1>5 DEF Lists!Prune, HostTyped, Lists!Now
<1>6. ASSUME NEW s \in Session, NEW kind \in {"archive", "unarchive"},
        Lists!Archive(kind, s) PROVE HostTyped'
  BY <1>0, <1>6, CallTyped DEF Lists!Archive, HostTyped
<1>7. ASSUME Lists!Mark PROVE HostTyped'
  BY <1>7, <1>0, CallTyped DEF Lists!Mark, ListsTyped, PageTyped, Lists!hostVars, HostTyped
<1>8. ASSUME Lists!Connect PROVE HostTyped'
  BY PageBeforeIs, <1>0, <1>8 DEF ListsTyped, AllIsMade, Frame, Lists!Connect, HostTyped
<1>9. ASSUME Lists!Snapshot \/ Lists!Upsert \/ Lists!Removed \/ Lists!Told PROVE HostTyped'
  BY <1>0, <1>9, HeadFrame DEF Lists!Snapshot, Lists!Upsert, Lists!Removed, Lists!Told,
     HostTyped, Lists!bounds
<1>10. ASSUME \/ \E s \in Session \cup {NoSession} : Lists!Select(s)
              \/ \E a \in answers : Lists!Answered(a) \/ Lists!Unanswered(a)
              \/ Lists!More \/ Lists!MoreAnswered \/ Lists!MoreApplied \/ Lists!MoreFails
                  \/ Lists!Interact
              \/ UNCHANGED Lists!vars
       PROVE  HostTyped'
  <2>1. table' = table /\ made' = made /\ listUpdates' = listUpdates
          /\ listChanges' = listChanges /\ snapshots' = snapshots
    BY <1>10 DEF Lists!Select, Lists!Answered, Lists!Unanswered, Lists!More, Lists!MoreAnswered,
       Lists!MoreApplied, Lists!MoreFails, Lists!Interact,
       Lists!vars, Lists!hostVars, Lists!bounds
  <2> QED BY <1>0, <2>1 DEF HostTyped
<1> QED BY <1>1, <1>2, <1>4, <1>5, <1>6, <1>7, <1>8, <1>9, <1>10 DEF Lists!Next

LEMMA PutTyped ==
    ASSUME PageTyped, NEW s \in Session, NEW e \in ListEntry, Lists!Put(s, e)
    PROVE  listRows' = [listRows EXCEPT ![s] = e] /\ listRows' \in [Session -> ListEntry]
<1>1. listRows' = [listRows EXCEPT ![s] = e]
  BY RowOfIs DEF Lists!Put
<1> QED BY <1>1 DEF PageTyped

LaterOf(n, m) == IF n > m THEN n ELSE m
LEMMA ToldRow ==
    ASSUME NEW r \in ListEntry, NEW e \in ListEntry
    PROVE  LET d == [r EXCEPT !.seq = LaterOf(r.seq, e.seq), !.at = LaterOf(r.at, e.at)] IN
           /\ d \in ListEntry /\ SameMarks(d, r)
           /\ d.at = LaterOf(r.at, e.at) /\ d.seq = LaterOf(r.seq, e.seq)
           /\ r.at # 0 => d.at # 0
<1>1. LaterOf(r.at, e.at) \in Nat /\ LaterOf(r.seq, e.seq) \in Nat
        /\ (r.at # 0 => LaterOf(r.at, e.at) # 0)
  BY DEF ListEntry, LaterOf
<1>2. ASSUME NEW n \in Nat, NEW m \in Nat
      PROVE  LET d == [r EXCEPT !.seq = m, !.at = n] IN
             d \in ListEntry /\ SameMarks(d, r) /\ d.at = n /\ d.seq = m
  BY DEF ListEntry, SameMarks
<1> QED BY <1>1, <1>2

\* The row of a session that the page knows, when it hears of an event.
LEMMA ToldTyped ==
    ASSUME ListsTyped, Lists!Told, Head(listUpdates).s \in Lists!Known, NEW s,
             s = Head(listUpdates).s
    PROVE  /\ s \in Session /\ listRows[s] \in ListEntry /\ listRows'[s] \in ListEntry
               /\ SameMarks(listRows'[s], listRows[s])
           /\ listRows'[s].at = (IF listRows[s].at > Head(listUpdates).entry.at
               THEN listRows[s].at ELSE Head(listUpdates).entry.at)
           /\ listRows'[s].seq = (IF listRows[s].seq > Head(listUpdates).entry.seq
               THEN listRows[s].seq ELSE Head(listUpdates).entry.seq)
           /\ listRows' = [listRows EXCEPT ![s] = listRows'[s]]
               /\ listRows' \in [Session -> ListEntry]
           /\ listRows[s].at # 0 /\ listRows'[s].at # 0
<1> DEFINE r == listRows[s]  e == Head(listUpdates).entry
           d == [r EXCEPT !.seq = LaterOf(r.seq, e.seq), !.at = LaterOf(r.at, e.at)]
<1>1. listUpdates \in Seq(Frame) /\ listUpdates # <<>> /\ Head(listUpdates).kind = "event"
        /\ listRows \in [Session -> ListEntry]
  BY DEF ListsTyped, HostTyped, PageTyped, Lists!Told
<1>2. e \in ListEntry /\ s \in Session /\ r \in ListEntry
  BY <1>1, HeadFrame DEF Lists!Known
<1>3. listRows' = [listRows EXCEPT ![s] = d]
  BY <1>1, <1>2 DEF Lists!Told, LaterOf
<1> HIDE DEF d
<1>4. /\ d \in ListEntry /\ SameMarks(d, r)
      /\ d.at = LaterOf(r.at, e.at) /\ d.seq = LaterOf(r.seq, e.seq)
      /\ r.at # 0 => d.at # 0
  BY <1>2, ToldRow DEF d
<1>5. listRows'[s] = d /\ listRows' \in [Session -> ListEntry]
  BY <1>1, <1>2, <1>3, <1>4
<1>6. r.at # 0
  BY DEF Lists!Known, Lists!There
<1> QED BY <1>2, <1>3, <1>4, <1>5, <1>6 DEF LaterOf

LEMMA PageTypedStep == ListsTyped /\ AllIsMade /\ [Lists!Next]_Lists!vars => PageTyped'
<1> SUFFICES ASSUME ListsTyped, AllIsMade, [Lists!Next]_Lists!vars PROVE PageTyped'
  OBVIOUS
<1>0. /\ listRows \in [Session -> ListEntry] /\ list \in Cursor /\ paging \in PagingOfList
      /\ answers \subseteq AnswerOfCall
      /\ current \in Session \cup {NoSession} /\ timer \in Session \cup {NoSession}
      /\ passed \subseteq Session /\ ghosts \subseteq Session /\ stale \subseteq Session
      /\ PageTyped /\ listUpdates \in Seq(Frame)
  BY DEF ListsTyped, HostTyped, PageTyped
<1>1. ASSUME NEW s \in Session, Lists!Create(s) \/ Lists!Event(s) \/ Lists!Delete(s)
        \/ Lists!Prune(s) PROVE PageTyped'
  BY <1>0, <1>1 DEF Lists!Create, Lists!Event, Lists!Delete, Lists!Prune, PageTyped,
     Lists!gateVars, Lists!historyVars
<1>2. ASSUME NEW s \in Session, NEW kind \in {"archive", "unarchive"},
        Lists!Archive(kind, s) PROVE PageTyped'
  BY <1>0, <1>2, CallTyped DEF Lists!Archive, PageTyped, Lists!gateVars
<1>3. ASSUME Lists!Mark PROVE PageTyped'
  BY <1>0, <1>3, CallTyped DEF Lists!Mark, PageTyped
<1>4. ASSUME Lists!Connect PROVE PageTyped'
  BY <1>4, <1>0 DEF Lists!Connect, PagingOfList, PageTyped, Lists!gateVars, Lists!historyVars
<1>5. ASSUME Lists!Snapshot PROVE PageTyped'
  BY <1>0, <1>5, HeadFrame DEF Lists!Snapshot, PageTyped, PageOfList, Cursor
<1>6. ASSUME Lists!Upsert PROVE PageTyped'
  BY <1>0, <1>6, HeadFrame, PutTyped DEF Lists!Upsert, PageTyped
<1>7. Lists!NoEntry \in ListEntry
  BY DEF Lists!NoEntry, ListEntry
<1>8. ASSUME Lists!Removed PROVE PageTyped'
  BY <1>0, <1>7, <1>8 DEF Lists!Removed, PageTyped, Lists!historyVars
<1>9. \A r, n : \A s \in Session : Lists!Scheduled(s, r, n) \in Session \cup {NoSession}
  BY DEF Lists!Scheduled
<1>10. ASSUME Lists!Told PROVE PageTyped'
  BY <1>0, <1>10, HeadFrame, <1>9, ToldTyped DEF Lists!Told, PageTyped
<1>11. ASSUME NEW a \in answers, Lists!Answered(a) PROVE PageTyped'
  BY <1>0, <1>11, PutTyped DEF AnswerOfCall, Lists!Answered, PageTyped
<1>12. ASSUME NEW a \in answers, Lists!Unanswered(a) PROVE PageTyped'
  BY <1>0, <1>12 DEF Lists!Unanswered, PageTyped, Lists!gateVars, Lists!historyVars
<1>13. ASSUME Lists!More PROVE PageTyped'
  BY <1>7, <1>0, <1>13 DEF Lists!NoPaging, PagingOfList, Lists!More, Cursor, PageTyped,
     Lists!gateVars, Lists!historyVars
<1>14. ASSUME Lists!MoreAnswered PROVE PageTyped'
  BY <1>0, PageBeforeIs, <1>14 DEF PagingOfList, ListsTyped, AllIsMade, Lists!MoreAnswered,
     Lists!PageAnswer, PageOfList, PageTyped, Lists!gateVars, Lists!historyVars
<1>15. ASSUME Lists!MoreApplied \/ Lists!MoreFails PROVE PageTyped'
  <2>1. Lists!NoPaging \in PagingOfList
    BY <1>7 DEF Lists!NoPaging, PagingOfList
  <2>2. CASE Lists!MoreApplied
    BY <2>2, <1>0, <2>1 DEF Lists!MoreApplied, PagingOfList, Cursor, PageTyped
  <2>3. CASE Lists!MoreFails
    BY <1>0, <2>1, <2>3 DEF Lists!MoreFails, PageTyped, Lists!gateVars, Lists!historyVars
  <2> QED BY <1>15, <2>2, <2>3
<1>16. ASSUME NEW s \in Session \cup {NoSession}, Lists!Select(s) PROVE PageTyped'
  BY <1>0, <1>9, <1>16 DEF Lists!Select, Lists!Known, PageTyped, Lists!historyVars
<1>17. ASSUME Lists!Interact PROVE PageTyped'
  BY <1>0, <1>9, <1>17 DEF Lists!Interact, PageTyped, Lists!historyVars
<1>18. ASSUME UNCHANGED Lists!vars PROVE PageTyped'
  BY <1>0, <1>18 DEF Lists!vars, Lists!gateVars, Lists!historyVars, PageTyped
<1> QED BY <1>1, <1>2, <1>3, <1>4, <1>5, <1>6, <1>8, <1>10, <1>11, <1>12, <1>13, <1>14, <1>15,
      <1>16, <1>17, <1>18 DEF Lists!Next

-----------------------------------------------------------------------------
\* What the steps do to the list: the host changes a session and tells so, or drops
\* one; a frame or an answer is applied; or none of it.
PageStays == listRows' = listRows /\ list' = list /\ paging' = paging /\ stale' = stale
    /\ snapshots' = snapshots
HostTells(s, kind, d) ==
    /\ table' = [table EXCEPT ![s] = d] /\ d.at # 0 /\ d.at <= listChanges'
    /\ \/ Lists!There(table, s) /\ NotAfter(table[s], d)
           /\ (kind = "event" => SameMarks(table[s], d))
       \/ s \notin made
    /\ listChanges \in Nat /\ listChanges' \in Nat /\ listChanges <= listChanges'
    /\ made' = made \cup {s}
    /\ listUpdates' = IF snapshots = 0 THEN listUpdates
        ELSE Append(listUpdates, Lists!Send(kind, s, d))
    /\ \A a \in answers' : a \in answers \/ (a.s = s /\ a.entry = d)
    /\ passed \subseteq passed' /\ ghosts' = ghosts /\ PageStays
HostDrops(s) ==
    /\ Lists!There(table, s) /\ table' = [table EXCEPT ![s] = Lists!NoEntry]
    /\ listChanges \in Nat /\ listChanges' \in Nat /\ listChanges <= listChanges' /\ made' = made
    /\ \/ listUpdates' = Append(listUpdates, Lists!Send("delete", s, Lists!NoEntry))
           /\ ghosts' = ghosts
       \/ listUpdates' = listUpdates /\ ghosts' = ghosts \cup {s}
    /\ answers' = answers /\ passed' = passed /\ PageStays
HostStays == table' = table /\ made' = made /\ listChanges' = listChanges
Quiet ==
    /\ HostStays /\ listUpdates' = listUpdates /\ listRows' = listRows /\ list' = list
        /\ stale' = stale
    /\ ghosts' = ghosts /\ passed' = passed /\ answers' \subseteq answers
    /\ paging' = paging
       \/ (paging'.at # "answered" /\ paging'.rows = {} /\ \A s \in Session :
           paging'.entries[s] = Lists!NoEntry)

LEMMA CallTells ==
    ASSUME ListsTyped, AllIsMade, NothingYet, NEW kind \in {"read", "archive", "unarchive"},
             NEW s \in Session,
           Lists!Call(kind, s), s \in Lists!Known \/ (timer = s /\ s # NoSession),
           PageStays, ghosts' = ghosts, listChanges' = listChanges
    PROVE  \E d \in ListEntry : HostTells(s, "upsert", d)
<1> DEFINE d == Lists!Changed(kind, table[s])
<1>1. table[s] \in ListEntry /\ Lists!There(table, s) /\ s \in made
        /\ table[s].at <= listChanges /\ listChanges \in Nat
  BY DEF ListsTyped, HostTyped, Lists!Call, AllIsMade
<1>2. d \in ListEntry /\ SameTimes(d, table[s])
  BY <1>1, ChangedTyped
<1>3. table' = [table EXCEPT ![s] = d] /\ table'[s] = d /\ made' = made
  BY CallTyped
<1>4. snapshots # 0
  BY DEF NothingYet
<1> HIDE DEF d
<1>5. NotAfter(table[s], d) /\ d.at # 0 /\ d.at <= listChanges
  BY <1>1, <1>2 DEF NotAfter, SameTimes, ListEntry, Lists!There
<1>6. /\ listUpdates' = Append(listUpdates, Lists!Send("upsert", s, d))
      /\ \A a \in answers' : a \in answers \/ (a.s = s /\ a.entry = d)
      /\ passed \subseteq passed'
  BY <1>3 DEF Lists!Call
<1>7. HostTells(s, "upsert", d)
  BY <1>1, <1>3, <1>4, <1>5, <1>6 DEF HostTells
<1> QED BY <1>2, <1>7

LEMMA ListStepKinds ==
    ASSUME ListsTyped, AllIsMade, NothingYet, [Lists!Next]_Lists!vars
    PROVE  \/ \E s \in Session, kind \in {"upsert", "event"}, d \in ListEntry :
               HostTells(s, kind, d)
           \/ \E s \in Session : HostDrops(s)
           \/ \E a \in answers : Lists!Answered(a)
           \/ Lists!Connect \/ Lists!Snapshot \/ Lists!Upsert \/ Lists!Removed \/ Lists!Told
               \/ Lists!MoreAnswered \/ Lists!MoreApplied \/ Quiet
<1>0. /\ table \in [Session -> ListEntry] /\ listChanges \in Nat /\ snapshots \in Nat
          /\ timer \in Session \cup {NoSession}
      /\ \A s \in Session : Lists!There(table, s) => s \in made /\ table[s].at <= listChanges
  BY DEF ListsTyped, HostTyped, PageTyped, AllIsMade
<1>1. ASSUME NEW s \in Session, Lists!Create(s) PROVE \E d \in ListEntry :
        HostTells(s, "upsert", d)
  <2>1. Lists!NoEntry \in ListEntry /\ Lists!Now \in Nat /\ Lists!Now # 0
          /\ listChanges <= Lists!Now
    BY <1>0 DEF Lists!NoEntry, ListEntry, Lists!Now
  <2> DEFINE d == [Lists!NoEntry EXCEPT !.at = Lists!Now]
  <2>2. d \in ListEntry /\ d.at = Lists!Now
    BY <2>1, EntryWith
  <2>3. table' = [table EXCEPT ![s] = d]
    BY <1>1 DEF Lists!Create
  <2> HIDE DEF d
  <2>4. table'[s] = d
    BY <1>0, <2>3
  <2>5. s \notin made
    BY <1>1 DEF Lists!Create
  <2>6. /\ listUpdates' = IF snapshots = 0 THEN listUpdates
            ELSE Append(listUpdates, Lists!Send("upsert", s, table'[s]))
        /\ made' = made \cup {s} /\ listChanges' = Lists!Now /\ answers' = answers
            /\ passed' = passed
        /\ ghosts' = ghosts /\ PageStays
    BY <1>0, <1>1 DEF Lists!Create, Lists!historyVars, PageStays
  <2>7. listUpdates' = IF snapshots = 0 THEN listUpdates
          ELSE Append(listUpdates, Lists!Send("upsert", s, d))
    BY <2>4, <2>6
  <2>8. made' = made \cup {s} /\ listChanges' = Lists!Now /\ answers' = answers
          /\ passed \subseteq passed' /\ ghosts' = ghosts /\ PageStays
    BY <2>6
  <2>9. HostTells(s, "upsert", d)
    BY <1>0, <2>1, <2>2, <2>3, <2>5, <2>7, <2>8 DEF HostTells
  <2> QED BY <2>2, <2>9
<1>2. ASSUME NEW s \in Session, Lists!Event(s) PROVE \E d \in ListEntry : HostTells(s, "event", d)
  <2> DEFINE d == [table[s] EXCEPT !.at = Lists!Now, !.seq = @ + 1]
  <2>1. /\ table[s] \in ListEntry /\ Lists!Now \in Nat /\ Lists!Now # 0
        /\ listChanges < Lists!Now /\ Lists!There(table, s) /\ s \in made
        /\ table[s].at <= listChanges
    BY <1>0, <1>2 DEF Lists!Event, Lists!Now
  <2>2. table[s].seq + 1 \in Nat /\ table[s].seq \in Nat /\ table[s].at \in Nat
    BY <2>1 DEF ListEntry
  <2>3. d \in ListEntry /\ d.at = Lists!Now /\ d.seq = table[s].seq + 1 /\ SameMarks(d, table[s])
    BY <2>1, <2>2 DEF ListEntry, SameMarks
  <2>4. table' = [table EXCEPT ![s] = d]
    BY <1>2 DEF Lists!Event
  <2> HIDE DEF d
  <2>5. table'[s] = d
    BY <1>0, <2>4
  <2>6. listUpdates' = IF snapshots = 0 THEN listUpdates
          ELSE Append(listUpdates, Lists!Send("event", s, d))
    BY <1>0, <1>2, <2>5 DEF Lists!Event
  <2>7. /\ made' = made \cup {s} /\ listChanges' = Lists!Now /\ answers' = answers
            /\ passed \subseteq passed'
        /\ ghosts' = ghosts /\ PageStays
    BY <1>2, <2>1 DEF Lists!Event, PageStays
  <2>8. NotAfter(table[s], d) /\ SameMarks(table[s], d)
    BY <1>0, <2>1, <2>2, <2>3 DEF NotAfter, SameMarks
  <2>9. HostTells(s, "event", d)
    BY <1>0, <2>1, <2>3, <2>4, <2>6, <2>7, <2>8 DEF HostTells
  <2> QED BY <2>3, <2>9
<1>3. ASSUME NEW s \in Session, Lists!Delete(s) \/ Lists!Prune(s) PROVE HostDrops(s)
  BY <1>0, <1>3 DEF Lists!Delete, Lists!Prune, HostDrops, PageStays, Lists!historyVars, Lists!Now
<1>4. ASSUME NEW s \in Session, NEW kind \in {"archive", "unarchive"}, Lists!Archive(kind, s)
      PROVE  \E d \in ListEntry : HostTells(s, "upsert", d)
  BY <1>4, CallTells DEF Lists!Archive, PageStays
<1>5. ASSUME Lists!Mark PROVE Quiet \/ \E s \in Session : \E d \in ListEntry :
        HostTells(s, "upsert", d)
  BY <1>0, <1>5, CallTells DEF Lists!Mark, PageStays, Quiet, HostStays, Lists!hostVars
<1>6. ASSUME NEW s \in Session \cup {NoSession}, Lists!Select(s) PROVE Quiet
  BY <1>6 DEF Lists!Select, Quiet, HostStays, Lists!hostVars, Lists!historyVars, Lists!bounds
<1>7. ASSUME \/ \E a \in answers : Lists!Unanswered(a)
             \/ Lists!Interact \/ UNCHANGED Lists!vars
      PROVE  Quiet
  BY <1>7 DEF Lists!Unanswered, Lists!Interact, Lists!vars, Quiet, HostStays, Lists!hostVars,
     Lists!historyVars, Lists!bounds
<1>8. ASSUME Lists!More \/ Lists!MoreFails PROVE Quiet
  <2>1. paging'.at # "answered" /\ paging'.rows = {} /\ \A s \in Session :
          paging'.entries[s] = Lists!NoEntry
    <3>1. /\ Lists!NoPaging.at = "none" /\ Lists!NoPaging.rows = {}
              /\ Lists!NoPaging.entries = [s \in Session |-> Lists!NoEntry]
      BY DEF Lists!NoPaging
    <3>2. CASE Lists!More
      BY <3>2, <3>1 DEF Lists!More, Lists!NoPaging
    <3>3. CASE Lists!MoreFails
      BY <3>1, <3>3 DEF Lists!MoreFails
    <3> QED BY <1>8, <3>2, <3>3
  <2> QED BY <1>8, <2>1 DEF Lists!More, Lists!MoreFails, Quiet, HostStays, Lists!hostVars,
        Lists!historyVars, Lists!bounds
<1> QED BY <1>1, <1>2, <1>3, <1>4, <1>5, <1>6, <1>7, <1>8 DEF Lists!Next

LEMMA NothingYetStep == ListsTyped /\ NothingYet /\ [Lists!Next]_Lists!vars => NothingYet'
<1> SUFFICES ASSUME ListsTyped, NothingYet, [Lists!Next]_Lists!vars, snapshots' = 0
      PROVE NothingYet'
  BY DEF NothingYet
<1>0. snapshots \in Nat
  BY DEF ListsTyped, HostTyped
<1>1. ~Lists!Connect
  BY <1>0 DEF Lists!Connect
<1>2. snapshots = 0
  BY <1>1 DEF Lists!Next, Lists!Create, Lists!Event, Lists!Delete, Lists!Prune, Lists!Archive,
     Lists!Select, Lists!Answered, Lists!Unanswered, Lists!Snapshot, Lists!Upsert,
     Lists!Removed, Lists!Told,
     Lists!More, Lists!MoreAnswered, Lists!MoreApplied, Lists!MoreFails, Lists!Interact,
        Lists!Mark, Lists!vars, Lists!bounds
<1>3. /\ listUpdates = <<>> /\ Lists!Known = {} /\ ~list.loaded /\ paging.at = "none"
          /\ answers = {}
      /\ current = NoSession /\ timer = NoSession
  BY <1>2 DEF NothingYet
<1>4. /\ \A s \in Session : ~Lists!Delete(s) /\ \A kind \in {"archive", "unarchive"} :
          ~Lists!Archive(kind, s)
      /\ \A s \in Session \cup {NoSession} : ~Lists!Select(s)
      /\ \A a \in answers : ~Lists!Answered(a) /\ ~Lists!Unanswered(a)
      /\ ~Lists!Snapshot /\ ~Lists!Upsert /\ ~Lists!Removed /\ ~Lists!Told /\ ~Lists!More
          /\ ~Lists!MoreAnswered /\ ~Lists!MoreApplied /\ ~Lists!MoreFails /\ ~Lists!Mark
  BY <1>3 DEF Lists!Delete, Lists!Archive, Lists!Select, Lists!Snapshot, Lists!Upsert,
     Lists!Removed, Lists!Told, Lists!More, Lists!MoreAnswered, Lists!MoreApplied,
     Lists!MoreFails, Lists!Mark
<1>5. (\E s \in Session : Lists!Create(s) \/ Lists!Event(s) \/ Lists!Prune(s))
        \/ Lists!Interact \/ UNCHANGED Lists!vars
  BY <1>1, <1>4 DEF Lists!Next
<1>6. /\ listUpdates' = listUpdates /\ listRows' = listRows /\ list' = list
          /\ paging' = paging /\ answers' = answers
      /\ current' = current /\ timer' = timer
  <2>1. ASSUME NEW s \in Session, Lists!Create(s) \/ Lists!Event(s) \/ Lists!Prune(s)
        PROVE  /\ listUpdates' = listUpdates /\ listRows' = listRows /\ list' = list
                   /\ paging' = paging /\ answers' = answers
               /\ current' = current /\ timer' = timer
    BY <1>2, <2>1 DEF Lists!Create, Lists!Event, Lists!Prune, Lists!gateVars
  <2>2. CASE Lists!Interact
    BY <1>3, <2>2 DEF Lists!Interact, Lists!hostVars
  <2>3. CASE UNCHANGED Lists!vars
    BY <2>3 DEF Lists!vars, Lists!hostVars, Lists!gateVars
  <2> QED BY <1>5, <2>1, <2>2, <2>3
<1> QED BY <1>3, <1>6 DEF NothingYet, Lists!Known

LEMMA FramesTail ==
    ASSUME NEW u \in Seq(Frame), u # <<>>, NEW M, FramesAreOf(u, M)
    PROVE  /\ FramesAreOf(Tail(u), M) /\ ~AwaitedIn(Tail(u))
           /\ AwaitedIn(u) <=> Head(u).kind = "snapshot"
           /\ IF Head(u).kind = "snapshot" THEN PageIsOf(Head(u).page, M)
              ELSE Head(u).s \in M /\ (Head(u).kind # "delete" => Head(u).entry.at # 0)
<1> DEFINE w == Tail(u)
<1>1. /\ Head(u) = u[1] /\ 1 \in 1..Len(u) /\ w \in Seq(Frame) /\ Len(w) = Len(u) - 1
          /\ Len(u) \in Nat
      /\ \A i \in 1..Len(w) : w[i] = u[i + 1] /\ i + 1 \in 1..Len(u)
  BY TailFacts
<1> HIDE DEF w
<1>2. \A i \in 1..Len(w) : i + 1 # 1
  OBVIOUS
<1>3. FramesAreOf(w, M)
  BY <1>1, <1>2 DEF FramesAreOf
<1>4. ~AwaitedIn(w)
  BY <1>1, <1>2 DEF FramesAreOf, AwaitedIn
<1>5. AwaitedIn(u) <=> u[1].kind = "snapshot"
  BY DEF AwaitedIn, HasPage
<1>6. IF u[1].kind = "snapshot" THEN PageIsOf(u[1].page, M)
      ELSE u[1].s \in M /\ (u[1].kind # "delete" => u[1].entry.at # 0)
  BY <1>1 DEF FramesAreOf, HasPage
<1> QED BY <1>1, <1>3, <1>4, <1>5, <1>6 DEF w

LEMMA FramesAppend ==
    ASSUME NEW u \in Seq(Frame), NEW f \in Frame, NEW M, NEW N, M \subseteq N, FramesAreOf(u, M),
             ~HasPage(f), f.s \in N,
           f.kind # "delete" => f.entry.at # 0
    PROVE  FramesAreOf(Append(u, f), N) /\ (AwaitedIn(Append(u, f)) <=> AwaitedIn(u))
           /\ (u # <<>> => Append(u, f)[1] = u[1])
<1> DEFINE w == Append(u, f)
<1>1. /\ Len(w) = Len(u) + 1 /\ Len(u) \in Nat /\ w[Len(u) + 1] = f /\ w # <<>>
      /\ \A i \in 1..Len(u) : w[i] = u[i]
  BY AppendFacts
<1>a. u = <<>> <=> Len(u) = 0
  OBVIOUS
<1> HIDE DEF w
<1>2. \A i \in 1..Len(w) : i \in 1..Len(u) \/ (i = Len(u) + 1 /\ w[i] = f)
  BY <1>1
<1>3. FramesAreOf(w, N)
  BY <1>1, <1>2 DEF FramesAreOf, PageIsOf
<1>4. u # <<>> => w[1] = u[1]
  BY <1>1, <1>a
<1>5. u = <<>> => w[1] = f
  BY <1>1, <1>a
<1> QED BY <1>1, <1>3, <1>4, <1>5 DEF w, AwaitedIn

LEMMA PageIsOfMore ==
    ASSUME NEW p, NEW M, NEW N, M \subseteq N, PageIsOf(p, M) PROVE PageIsOf(p, N)
BY DEF PageIsOf

\* The row of a frame or an answer is put in its place.
LEMMA PutKnown ==
    ASSUME PageTyped, NEW s \in Session, NEW e \in ListEntry, e.at # 0, Lists!Put(s, e)
    PROVE  Lists!Known' = Lists!Known \cup {s} /\ listRows' = [listRows EXCEPT ![s] = e]
           /\ \A t \in Session : listRows'[t] = IF t = s THEN e ELSE listRows[t]
<1>1. listRows' = [listRows EXCEPT ![s] = e] /\ listRows \in [Session -> ListEntry]
  BY PutTyped DEF PageTyped
<1>2. \A t \in Session : listRows'[t] = IF t = s THEN e ELSE listRows[t]
  BY <1>1
<1> QED BY <1>1, <1>2 DEF Lists!Known, Lists!There

LEMMA AllIsMadeStep == ListsTyped /\ AllIsMade /\ NothingYet /\ [Lists!Next]_Lists!vars =>
    AllIsMade'
<1> SUFFICES ASSUME ListsTyped, AllIsMade, NothingYet, [Lists!Next]_Lists!vars PROVE AllIsMade'
  OBVIOUS
<1>0. /\ table \in [Session -> ListEntry] /\ listUpdates \in Seq(Frame) /\ made \subseteq Session
      /\ listChanges \in Nat /\ listRows \in [Session -> ListEntry] /\ paging \in PagingOfList
      /\ answers \subseteq AnswerOfCall /\ PageTyped /\ HostTyped
  BY DEF ListsTyped, HostTyped, PageTyped
<1>a. /\ \A s \in Session : Lists!There(table, s) => s \in made /\ table[s].at <= listChanges
      /\ Lists!Known \subseteq made
      /\ FramesAreOf(listUpdates, made) /\ PageIsOf(paging, made)
      /\ \A a \in answers : a.s \in made /\ a.entry.at # 0
  BY DEF AllIsMade
<1> DEFINE Sessions == \A s \in Session : Lists!There(table', s) => s \in made'
      /\ table'[s].at <= listChanges'
           Calls == \A a \in answers' : a.s \in made' /\ a.entry.at # 0
<1>b. Sessions /\ Lists!Known' \subseteq made' /\ FramesAreOf(listUpdates', made')
     /\ PageIsOf(paging', made') /\ Calls => AllIsMade'
  BY DEF AllIsMade
<1>c. HostStays => Sessions
  BY <1>a DEF HostStays
<1>d. answers' \subseteq answers /\ made' = made => Calls
  BY <1>a
<1>1. ASSUME NEW s \in Session, NEW kind \in {"upsert", "event"}, NEW d \in ListEntry,
        HostTells(s, kind, d)
      PROVE  AllIsMade'
  <2>1. /\ table' = [table EXCEPT ![s] = d] /\ made' = made \cup {s} /\ d.at # 0
            /\ d.at <= listChanges'
        /\ listChanges <= listChanges' /\ listChanges' \in Nat /\ listRows' = listRows
            /\ paging' = paging
        /\ \A a \in answers' : a \in answers \/ (a.s = s /\ a.entry = d)
        /\ listUpdates' = listUpdates
            \/ listUpdates' = Append(listUpdates, Lists!Send(kind, s, d))
    BY <1>1 DEF HostTells, PageStays
  <2>2. Sessions
    BY <1>0, <2>1, <1>a DEF ListEntry, Lists!There
  <2>3. FramesAreOf(listUpdates', made')
    BY <1>a, <2>1, <1>0, SendIsFrame, FramesAppend DEF FramesAreOf, PageIsOf
  <2>4. PageIsOf(paging', made') /\ Lists!Known' \subseteq made'
    BY <1>a, <2>1, PageIsOfMore DEF Lists!Known
  <2>5. Calls
    BY <1>a, <2>1
  <2> QED BY <1>b, <2>2, <2>3, <2>4, <2>5
<1>2. ASSUME NEW s \in Session, HostDrops(s) PROVE AllIsMade'
  <2>1. /\ table' = [table EXCEPT ![s] = Lists!NoEntry] /\ made' = made /\ Lists!There(table, s)
        /\ listChanges <= listChanges' /\ listChanges' \in Nat /\ listRows' = listRows
            /\ paging' = paging /\ answers' = answers
        /\ listUpdates' = listUpdates
            \/ listUpdates' = Append(listUpdates, Lists!Send("delete", s, Lists!NoEntry))
    BY <1>2 DEF HostDrops, PageStays
  <2>2. Sessions
    BY <1>0, <2>1, <1>a DEF ListEntry, Lists!There, Lists!NoEntry
  <2>3. FramesAreOf(listUpdates', made')
    <3>1. Lists!NoEntry \in ListEntry
      BY DEF Lists!NoEntry, ListEntry
    <3>2. CASE listUpdates' = listUpdates
      BY <1>a, <2>1, <3>2
    <3>3. CASE listUpdates' = Append(listUpdates, Lists!Send("delete", s, Lists!NoEntry))
      <4>1. /\ Lists!Send("delete", s, Lists!NoEntry) \in Frame
                /\ ~HasPage(Lists!Send("delete", s, Lists!NoEntry))
            /\ Lists!Send("delete", s, Lists!NoEntry).kind = "delete"
                /\ Lists!Send("delete", s, Lists!NoEntry).s = s
        BY <3>1, SendIsFrame
      <4> QED BY <1>0, <1>a, <2>1, <3>3, <4>1, FramesAppend
    <3> QED BY <2>1, <3>2, <3>3
  <2>4. PageIsOf(paging', made') /\ Lists!Known' \subseteq made'
    BY <1>a, <2>1 DEF Lists!Known
  <2> QED BY <1>b, <1>d, <2>1, <2>2, <2>3, <2>4
<1>3. ASSUME NEW a \in answers, Lists!Answered(a) PROVE AllIsMade'
  BY <1>0, <1>a, <1>3, PutKnown, <1>b, <1>c, <1>d DEF AnswerOfCall, Lists!Answered, HostStays,
     Lists!hostVars, Lists!bounds
<1>4. ASSUME Lists!Connect PROVE AllIsMade'
  BY <1>4, <1>0, <1>a, PageBeforeIs, <1>b, <1>c, <1>d DEF Lists!Connect, HostStays, HasPage,
     FramesAreOf, PagingOfList, PageIsOf, Lists!Known
<1>5. ASSUME Lists!Snapshot PROVE AllIsMade'
  BY <1>5, <1>0, <1>a, FramesTail, <1>b, <1>c, <1>d DEF Lists!Snapshot, HostStays,
     Lists!bounds, PageIsOf, Lists!Known, Lists!There, Lists!NoEntry
<1>6. ASSUME Lists!Upsert PROVE AllIsMade'
  BY <1>6, <1>0, <1>a, FramesTail, HeadFrame, PutKnown, <1>b, <1>c, <1>d DEF Lists!Upsert,
     HostStays, Lists!bounds
<1>7. ASSUME Lists!Removed PROVE AllIsMade'
  BY <1>7, <1>0, <1>a, FramesTail, <1>b, <1>c, <1>d DEF Lists!Removed, HostStays, Lists!bounds,
     Lists!Known, Lists!There, Lists!NoEntry
<1>8. ASSUME Lists!Told PROVE AllIsMade'
  <2>1. /\ HostStays /\ paging' = paging /\ answers' = answers
            /\ listUpdates' = Tail(listUpdates) /\ listUpdates # <<>>
    BY <1>8 DEF Lists!Told, HostStays, Lists!bounds
  <2>2. FramesAreOf(listUpdates', made')
    BY <1>0, <1>a, <2>1, FramesTail DEF HostStays
  <2>3. Lists!Known' \subseteq made'
    BY <1>8, ToldTyped, <1>0, <1>a, <2>1 DEF Lists!Known, Lists!There, HostStays, Lists!Told
  <2> QED BY <1>a, <1>b, <1>c, <1>d, <2>1, <2>2, <2>3 DEF HostStays
<1>9. ASSUME Lists!MoreAnswered PROVE AllIsMade'
  BY <1>9, <1>0, <1>a, PageBeforeIs, <1>b, <1>c, <1>d DEF Lists!MoreAnswered, HostStays,
     Lists!hostVars, Lists!bounds, PagingOfList, Lists!PageAnswer, PageIsOf, Lists!Known
<1>10. ASSUME Lists!MoreApplied PROVE AllIsMade'
  BY <1>10, <1>a, <1>b, <1>c, <1>d DEF Lists!MoreApplied, HostStays, Lists!hostVars,
     Lists!bounds, Lists!NoPaging, PageIsOf, Lists!Known, Lists!There
<1>11. ASSUME Quiet PROVE AllIsMade'
  BY <1>11, <1>a, <1>b, <1>c, <1>d DEF Quiet, PageIsOf, HostStays, Lists!Known
<1> QED BY ListStepKinds, <1>1, <1>2, <1>3, <1>4, <1>5, <1>6, <1>7, <1>8, <1>9, <1>10, <1>11

LEMMA SendIsOf ==
    ASSUME NEW kind \in {"upsert", "delete", "event"}, NEW s, NEW d, NEW f,
             f = Lists!Send(kind, s, d)
    PROVE  /\ ~HasPage(f) /\ f.entry = d /\ (\A t : ~Lacks(f, t) /\ Carried(f, t) = d)
           /\ \A t, k : IsOf(f, k, t) <=> k = kind /\ t = s
           /\ \A t : t # s => ~Tells(f, t) /\ ~FullFor(f, t) /\ ~IsOf(f, "delete", t)
           /\ \A t : kind = "delete" => ~FullFor(f, t)
BY DEF Lists!Send, HasPage, IsOf, Tells, FullFor, Lacks, Carried

\* What the host does to one session leaves the rows of the others as they are told.
LEMMA OthersFollow ==
    ASSUME ListsTyped, RowsFollow, NEW kind \in {"upsert", "delete", "event"}, NEW s \in Session,
             NEW d \in ListEntry,
           NEW v, v = listUpdates \/ v = Append(listUpdates, Lists!Send(kind, s, d)),
               NEW t \in Session, t # s
    PROVE  /\ Lists!There(table, t) => RowIsTold(v, table[t], listRows[t], stale, t)
           /\ ~Lists!There(table, t) /\ t \notin ghosts => RowIsTaken(v, listRows[t], t)
<1> DEFINE f == Lists!Send(kind, s, d)
<1>0. table[t] \in ListEntry /\ listRows[t] \in ListEntry /\ listUpdates \in Seq(Frame)
  BY DEF ListsTyped, HostTyped, PageTyped
<1>1. f \in Frame
  BY SendIsFrame
<1>2. ~HasPage(f) /\ ~Tells(f, t) /\ ~FullFor(f, t) /\ ~IsOf(f, "delete", t)
  BY SendIsOf
<1> HIDE DEF f
<1>3. Lists!There(table, t) => RowIsTold(Append(listUpdates, f), table[t], listRows[t], stale, t)
  BY <1>0, <1>1, <1>2, ToldAppend DEF RowsFollow
<1>4. ~Lists!There(table, t) /\ t \notin ghosts =>
        RowIsTaken(Append(listUpdates, f), listRows[t], t)
  BY <1>0, <1>1, <1>2, TakenAppend DEF RowsFollow
<1>5. v = listUpdates \/ v = Append(listUpdates, f)
  BY DEF f
<1> QED BY <1>3, <1>4, <1>5 DEF RowsFollow

LEMMA HostTellsFollow ==
    ASSUME ListsTyped, AllIsMade, NothingYet, RowsFollow,
           NEW s \in Session, NEW kind \in {"upsert", "event"}, NEW d \in ListEntry,
               HostTells(s, kind, d)
    PROVE  RowsFollow'
<1> DEFINE f == Lists!Send(kind, s, d)
<1>0. /\ table \in [Session -> ListEntry] /\ listRows \in [Session -> ListEntry]
          /\ listUpdates \in Seq(Frame)
  BY DEF ListsTyped, HostTyped, PageTyped
<1>1. /\ table' = [table EXCEPT ![s] = d] /\ d.at # 0
      /\ \/ Lists!There(table, s) /\ NotAfter(table[s], d)
             /\ (kind = "event" => SameMarks(table[s], d))
         \/ s \notin made
      /\ listUpdates' = IF snapshots = 0 THEN listUpdates ELSE Append(listUpdates, f)
      /\ ghosts' = ghosts /\ listRows' = listRows /\ stale' = stale
  BY DEF HostTells, PageStays
<1>2. f \in Frame /\ ~HasPage(f)
  BY SendIsFrame
<1>3. f.entry = d /\ ~IsOf(f, "delete", s) /\ IsOf(f, kind, s)
  BY SendIsOf
<1> HIDE DEF f
<1>4. \A t \in Session : table'[t] = IF t = s THEN d ELSE table[t]
  BY <1>0, <1>1
<1>5. ASSUME s \notin made PROVE RowIsTold(listUpdates, d, listRows[s], stale, s)
  BY <1>5, <1>0, ToldOfNew DEF AllIsMade, Lists!Known, Lists!There, FramesAreOf, PageIsOf
<1>6. RowIsTold(listUpdates', d, listRows[s], stale, s)
  <2>1. CASE snapshots = 0
    <3>1. listUpdates = <<>> /\ Lists!Known = {} /\ listUpdates' = listUpdates
      BY <1>1, <2>1 DEF NothingYet
    <3>2. listRows[s].at = 0 /\ Len(listUpdates) = 0
      BY <3>1 DEF Lists!Known, Lists!There
    <3>3. \A i \in 1..Len(listUpdates) : FALSE
      BY <3>2
    <3> QED BY <1>0, <3>1, <3>2, <3>3, ToldOfNew
  <2>2. CASE snapshots # 0 /\ s \notin made
    <3>1. IsOf(f, "upsert", s) \/ IsOf(f, "event", s)
      BY <1>3
    <3>2. NotAfter(d, d) /\ SameMarks(d, d)
      BY DEF NotAfter, SameMarks, ListEntry
    <3>3. RowIsTold(Append(listUpdates, f), d, listRows[s], stale, s)
      BY <1>0, <1>2, <1>3, <1>5, <2>2, <3>1, <3>2, ToldAppend
    <3> QED BY <1>1, <2>2, <3>3
  <2>3. CASE snapshots # 0 /\ Lists!There(table, s) /\ NotAfter(table[s], d)
          /\ (kind = "event" => SameMarks(table[s], d))
    BY <1>0, <2>3, <1>3, <1>2, ToldAppend, <1>1 DEF RowsFollow
  <2> QED BY <1>1, <2>1, <2>2, <2>3
<1>7. listUpdates' = listUpdates \/ listUpdates' = Append(listUpdates, Lists!Send(kind, s, d))
  BY <1>1 DEF f
<1>8. ASSUME NEW t \in Session
      PROVE  /\ Lists!There(table', t) =>
                 RowIsTold(listUpdates', table'[t], listRows'[t], stale', t)
             /\ ~Lists!There(table', t) /\ t \notin ghosts' =>
                 RowIsTaken(listUpdates', listRows'[t], t)
  BY <1>1, <1>4, <1>6, <1>7, OthersFollow DEF Lists!There
<1> QED BY <1>8 DEF RowsFollow

LEMMA HostDropsFollow ==
    ASSUME ListsTyped, RowsFollow, NEW s \in Session, HostDrops(s)
    PROVE  RowsFollow'
<1> DEFINE f == Lists!Send("delete", s, Lists!NoEntry)
<1>0. /\ table \in [Session -> ListEntry] /\ listRows \in [Session -> ListEntry]
          /\ listUpdates \in Seq(Frame)
      /\ Lists!NoEntry \in ListEntry
  BY DEF ListsTyped, HostTyped, PageTyped, Lists!NoEntry, ListEntry
<1>1. /\ table' = [table EXCEPT ![s] = Lists!NoEntry] /\ listRows' = listRows /\ stale' = stale
      /\ listUpdates' = listUpdates \/ listUpdates' = Append(listUpdates, f)
      /\ ghosts \subseteq ghosts' /\ \A t \in Session : t # s /\ t \in ghosts' => t \in ghosts
      /\ s \notin ghosts' => listUpdates' = Append(listUpdates, f)
  BY DEF HostDrops, PageStays
<1>2. \A t \in Session : table'[t] = IF t = s THEN Lists!NoEntry ELSE table[t]
  BY <1>0, <1>1
<1>3. f \in Frame
  BY <1>0, SendIsFrame
<1>4. ~FullFor(f, s) /\ IsOf(f, "delete", s)
  BY SendIsOf
<1>5. ASSUME NEW t \in Session
      PROVE  /\ Lists!There(table', t) =>
                 RowIsTold(listUpdates', table'[t], listRows'[t], stale', t)
             /\ ~Lists!There(table', t) /\ t \notin ghosts' =>
                 RowIsTaken(listUpdates', listRows'[t], t)
  <2>1. CASE t = s
    <3>1. ~Lists!There(table', s)
      BY <1>2 DEF Lists!There, Lists!NoEntry
    <3>2. RowIsTaken(Append(listUpdates, f), listRows[s], s)
      <4> HIDE DEF f
      <4> QED BY <1>0, <1>3, <1>4, TakenAppend
    <3> QED BY <1>1, <2>1, <3>1, <3>2
  <2>2. CASE t # s
    BY <1>0, <1>1, <2>2, OthersFollow, <1>2 DEF Lists!There
  <2> QED BY <2>1, <2>2
<1> QED BY <1>5 DEF RowsFollow

\* A frame that was applied: the rows of the sessions it does not tell of stay.
LEMMA ByTail ==
    ASSUME ListsTyped, RowsFollow, listUpdates # <<>>, HostStays, ghosts' = ghosts,
             listUpdates' = Tail(listUpdates),
           PageTyped',
           \A t \in Session : Lists!There(table, t) /\ listRows'[t].at # 0 /\ t \notin stale' =>
              \/ ~Tells(Head(listUpdates), t) /\ listRows'[t] = listRows[t] /\ t \notin stale
              \/ FullFor(Head(listUpdates), t) /\ ~Lacks(Head(listUpdates), t)
                  /\ listRows'[t] = Carried(Head(listUpdates), t)
              \/ /\ IsOf(Head(listUpdates), "event", t) /\ listRows[t].at # 0
                     /\ t \notin stale /\ SameMarks(listRows'[t], listRows[t])
                 /\ listRows'[t].at = (IF listRows[t].at > Head(listUpdates).entry.at
                     THEN listRows[t].at ELSE Head(listUpdates).entry.at)
                 /\ listRows'[t].seq = (IF listRows[t].seq > Head(listUpdates).entry.seq
                     THEN listRows[t].seq ELSE Head(listUpdates).entry.seq),
           \A t \in Session : ~Lists!There(table, t) /\ listRows'[t].at # 0 =>
              \/ listRows[t].at # 0 /\ ~HasPage(Head(listUpdates))
                  /\ ~IsOf(Head(listUpdates), "delete", t)
              \/ FullFor(Head(listUpdates), t) /\ ~Lacks(Head(listUpdates), t)
    PROVE  RowsFollow'
<1>0. /\ table \in [Session -> ListEntry] /\ listRows \in [Session -> ListEntry]
          /\ listRows' \in [Session -> ListEntry]
      /\ listUpdates \in Seq(Frame) /\ table' = table
  BY DEF ListsTyped, HostTyped, PageTyped, HostStays
<1>1. ASSUME NEW t \in Session
      PROVE  /\ Lists!There(table', t) =>
                 RowIsTold(listUpdates', table'[t], listRows'[t], stale', t)
             /\ ~Lists!There(table', t) /\ t \notin ghosts' =>
                 RowIsTaken(listUpdates', listRows'[t], t)
  <2>1. CASE Lists!There(table, t)
    <3>1. RowIsTold(listUpdates, table[t], listRows[t], stale, t)
      BY <2>1 DEF RowsFollow
    <3>2. table[t] \in ListEntry /\ listRows[t] \in ListEntry /\ listRows'[t] \in ListEntry
      BY <1>0
    <3>3. RowIsTold(Tail(listUpdates), table[t], listRows'[t], stale', t)
      <4> DEFINE u == listUpdates  e == table[t]  r == listRows[t]  d == listRows'[t]
      <4>1. d.at # 0 /\ t \notin stale' =>
              \/ ~Tells(Head(u), t) /\ d = r /\ t \notin stale
              \/ FullFor(Head(u), t) /\ ~Lacks(Head(u), t) /\ d = Carried(Head(u), t)
              \/ /\ IsOf(Head(u), "event", t) /\ r.at # 0 /\ t \notin stale /\ SameMarks(d, r)
                 /\ d.at = (IF r.at > Head(u).entry.at THEN r.at ELSE Head(u).entry.at)
                 /\ d.seq = (IF r.seq > Head(u).entry.seq THEN r.seq ELSE Head(u).entry.seq)
        BY <2>1
      <4>2. u \in Seq(Frame) /\ u # <<>> /\ e \in ListEntry /\ r \in ListEntry /\ d \in ListEntry
            /\ RowIsTold(u, e, r, stale, t)
        BY <1>0, <3>1, <3>2
      <4> HIDE DEF u, e, r, d
      <4>3. RowIsTold(Tail(u), e, d, stale', t)
        BY ONLY <4>1, <4>2, ToldTail, t \in Session
      <4> QED BY <4>3 DEF u, e, d
    <3> QED BY <1>0, <2>1, <3>3
  <2>2. CASE ~Lists!There(table, t)
    BY <2>2, <1>0, TakenTail DEF RowsFollow
  <2> QED BY <2>1, <2>2
<1> QED BY <1>1 DEF RowsFollow

\* Rows that an answer brought.
LEMMA ByAnswer ==
    ASSUME ListsTyped, RowsFollow, HostStays, listUpdates' = listUpdates,
             ghosts \subseteq ghosts', stale \subseteq stale',
           \A t \in Session :
              \/ listRows'[t] = listRows[t] /\ (t \in stale' <=> t \in stale)
              \/ Lists!There(table, t) /\ (listRows'[t] = table[t] \/ t \in stale')
              \/ /\ ~Lists!There(table, t)
                 /\ t \in ghosts' \/ \E i \in 1..Len(listUpdates) :
                     IsOf(listUpdates[i], "delete", t)
    PROVE  RowsFollow'
<1>0. table \in [Session -> ListEntry] /\ table' = table
  BY DEF ListsTyped, HostTyped, HostStays
<1>1. ASSUME NEW t \in Session
      PROVE  /\ Lists!There(table', t) =>
                 RowIsTold(listUpdates', table'[t], listRows'[t], stale', t)
             /\ ~Lists!There(table', t) /\ t \notin ghosts' =>
                 RowIsTaken(listUpdates', listRows'[t], t)
  <2>1. CASE Lists!There(table, t)
    BY <1>0, <2>1, ToldByAnswer DEF RowsFollow, RowIsTold, RowShows
  <2>2. CASE ~Lists!There(table, t)
    BY <2>2, <1>0 DEF RowsFollow, RowIsTaken
  <2> QED BY <2>1, <2>2
<1> QED BY <1>1 DEF RowsFollow

LEMMA FrameTells ==
    ASSUME NEW f, NEW s
    PROVE  /\ f.kind = "snapshot" <=> HasPage(f)
           /\ ~HasPage(f) /\ f.s # s => ~Tells(f, s) /\ ~FullFor(f, s) /\ ~IsOf(f, "delete", s)
           /\ f.kind = "upsert" /\ f.s = s => FullFor(f, s) /\ ~Lacks(f, s)
               /\ Carried(f, s) = f.entry
           /\ f.kind = "event" /\ f.s = s => IsOf(f, "event", s)
           /\ f.kind # "delete" => ~IsOf(f, "delete", s)
           /\ f.kind = "snapshot" => /\ FullFor(f, s) /\ Carried(f, s) = f.page.entries[s]
                                     /\ s \in f.page.rows => ~Lacks(f, s)
BY DEF HasPage, Tells, FullFor, IsOf, Lacks, Carried

LEMMA RowsFollowStep == ListsInv /\ [Lists!Next]_Lists!vars => RowsFollow'
<1> SUFFICES ASSUME ListsInv, [Lists!Next]_Lists!vars PROVE RowsFollow'
  OBVIOUS
<1>0. /\ ListsTyped /\ AllIsMade /\ NothingYet /\ RowsFollow /\ HostTyped /\ PageTyped
      /\ table \in [Session -> ListEntry] /\ listRows \in [Session -> ListEntry]
          /\ listUpdates \in Seq(Frame)
      /\ answers \subseteq AnswerOfCall /\ stale \subseteq Session /\ PageTyped'
  BY PageTypedStep DEF ListsInv, ListsTyped, HostTyped, PageTyped
<1>a. /\ \A s \in Session : Lists!There(table, s) => s \in made /\ table[s].at <= listChanges
      /\ FramesAreOf(listUpdates, made) /\ PageIsOf(paging, made)
      /\ \A a \in answers : a.s \in made /\ a.entry.at # 0
  BY <1>0 DEF AllIsMade
<1>1. ASSUME NEW s \in Session, NEW kind \in {"upsert", "event"}, NEW d \in ListEntry,
        HostTells(s, kind, d)
      PROVE  RowsFollow'
  BY <1>0, <1>1, HostTellsFollow
<1>2. ASSUME NEW s \in Session, HostDrops(s) PROVE RowsFollow'
  BY <1>0, <1>2, HostDropsFollow
<1>3. ASSUME NEW a \in answers, Lists!Answered(a) PROVE RowsFollow'
  BY <1>0, <1>a, <1>3, PutKnown, ByAnswer DEF AnswerOfCall, Lists!Answered, HostStays,
     Lists!hostVars, Lists!bounds, Lists!Old, Lists!Gone, IsOf
<1>4. ASSUME Lists!Connect PROVE RowsFollow'
  BY <1>4, <1>0, <1>a, PageBeforeIs, ToldBySnapshot, TakenBySnapshot DEF Lists!Connect,
     Lists!historyVars, HasPage, Lacks, RowsFollow
<1>5. ASSUME Lists!Snapshot PROVE RowsFollow'
  BY <1>5, <1>0, <1>a, FramesTail, FrameTells, ByTail DEF Lists!Snapshot, HostStays,
     Lists!bounds, PageIsOf, Lists!NoEntry
<1>6. ASSUME Lists!Upsert PROVE RowsFollow'
  BY <1>6, <1>0, <1>a, HeadFrame, FramesTail, PutKnown, FrameTells, ByTail DEF Lists!Upsert,
     HostStays, Lists!bounds
<1>7. ASSUME Lists!Removed PROVE RowsFollow'
  BY <1>7, <1>0, FrameTells, ByTail DEF Lists!Removed, HostStays, Lists!bounds,
     Lists!historyVars, HasPage, Lists!NoEntry
<1>8. ASSUME Lists!Told PROVE RowsFollow'
  BY <1>8, FrameTells, <1>0, ToldTyped, ByTail DEF Lists!Told, HostStays, Lists!bounds,
     HasPage, IsOf, Lists!Known, Lists!There
<1>9. ASSUME Lists!MoreAnswered \/ Quiet PROVE RowsFollow'
  BY <1>9, <1>0 DEF Lists!MoreAnswered, Quiet, HostStays, Lists!hostVars, Lists!historyVars,
     RowsFollow
<1>10. ASSUME Lists!MoreApplied PROVE RowsFollow'
  BY <1>10, <1>0, ByAnswer DEF Lists!MoreApplied, HostStays, Lists!hostVars, Lists!bounds,
     Lists!Old, Lists!Gone, IsOf
<1> QED BY <1>0, ListStepKinds, <1>1, <1>2, <1>3, <1>4, <1>5, <1>6, <1>7, <1>8, <1>9, <1>10

\* A session that stays as it is, and is told of as before, is still reached.
LEMMA ReachedStill ==
    ASSUME NEW t \in Session, Listed(t)' => Reached(t) /\ table'[t] = table[t],
           Awaited' <=> Awaited, Awaited => listUpdates'[1] = listUpdates[1],
           Coming(listUpdates, t) => Coming(listUpdates', t), list' = list,
           paging' = paging \/ paging'.at # "answered" \/ paging'.former,
           t \in Lists!Known \cup passed => t \in Lists!Known' \cup passed',
           Listed(t)'
    PROVE  Reached(t)'
BY DEF Reached

\* A frame that is no snapshot was applied.
LEMMA ReachedByTail ==
    ASSUME NEW t \in Session, ListsTyped, AllIsMade, HostStays, listUpdates # <<>>,
             listUpdates' = Tail(listUpdates),
           Listed(t) => Reached(t), ~HasPage(Head(listUpdates)), list' = list, paging' = paging,
           t \in Lists!Known \cup passed => t \in Lists!Known' \cup passed',
           IsOf(Head(listUpdates), "upsert", t) \/ IsOf(Head(listUpdates), "event", t) =>
               t \in Lists!Known' \cup passed'
    PROVE  Listed(t)' => Reached(t)'
<1>1. listUpdates \in Seq(Frame) /\ FramesAreOf(listUpdates, made) /\ table' = table
  BY DEF ListsTyped, HostTyped, AllIsMade, HostStays
<1>2. ~Awaited' /\ ~Awaited
  BY <1>1, FramesTail, TailFacts DEF Awaited, AwaitedIn
<1>3. Coming(listUpdates, t) => Coming(listUpdates', t) \/ t \in Lists!Known' \cup passed'
  BY <1>1, ComingTail
<1>4. Listed(t)' => Listed(t)
  BY <1>1 DEF Listed
<1> QED BY <1>1, <1>2, <1>3, <1>4 DEF Reached

LEMMA ListReachesStep == ListsInv /\ [Lists!Next]_Lists!vars => ListReaches'
<1> SUFFICES ASSUME ListsInv, [Lists!Next]_Lists!vars, NEW t \in Session PROVE Listed(t)' =>
      Reached(t)'
  BY DEF ListReaches
<1>0. /\ ListsTyped /\ AllIsMade /\ NothingYet /\ HostTyped /\ PageTyped
      /\ table \in [Session -> ListEntry] /\ listRows \in [Session -> ListEntry]
          /\ listUpdates \in Seq(Frame)
      /\ answers \subseteq AnswerOfCall /\ (Listed(t) => Reached(t))
  BY DEF ListsInv, ListsTyped, HostTyped, PageTyped, ListReaches
<1>a. /\ \A s \in Session : Lists!There(table, s) => s \in made /\ table[s].at <= listChanges
      /\ FramesAreOf(listUpdates, made) /\ PageIsOf(paging, made)
      /\ \A a \in answers : a.s \in made /\ a.entry.at # 0
  BY <1>0 DEF AllIsMade
<1>1. ASSUME NEW s \in Session, NEW kind \in {"upsert", "event"}, NEW d \in ListEntry,
        HostTells(s, kind, d)
      PROVE  Listed(t)' => Reached(t)'
  <2> DEFINE f == Lists!Send(kind, s, d)
  <2>1. /\ table' = [table EXCEPT ![s] = d] /\ listRows' = listRows /\ list' = list
            /\ paging' = paging /\ passed \subseteq passed'
        /\ listUpdates' = IF snapshots = 0 THEN listUpdates ELSE Append(listUpdates, f)
    BY <1>1 DEF HostTells, PageStays
  <2>2. f \in Frame /\ ~HasPage(f) /\ (IsOf(f, "upsert", s) \/ IsOf(f, "event", s))
    BY SendIsFrame, SendIsOf
  <2>3. f.s \in made \cup {s} /\ f.entry.at # 0
    BY <1>1, SendIsFrame DEF HostTells
  <2> HIDE DEF f
  <2>4. CASE snapshots = 0
    BY <1>0, <2>1, <2>4 DEF NothingYet, Reached, Awaited, AwaitedIn
  <2>5. CASE snapshots # 0
    BY <2>1, <2>5, <1>0, <2>2, ComingAppend, <1>a, <2>3, FramesAppend, ReachedStill DEF
       Reached, Awaited, AwaitedIn, Lists!Known, Listed, Lists!There
  <2> QED BY <2>4, <2>5
<1>2. ASSUME NEW s \in Session, HostDrops(s) PROVE Listed(t)' => Reached(t)'
  <2> DEFINE f == Lists!Send("delete", s, Lists!NoEntry)
  <2>1. /\ table' = [table EXCEPT ![s] = Lists!NoEntry] /\ listRows' = listRows
            /\ list' = list /\ paging' = paging /\ passed' = passed
        /\ listUpdates' = listUpdates \/ listUpdates' = Append(listUpdates, f)
        /\ Lists!There(table, s)
    BY <1>2 DEF HostDrops, PageStays
  <2>2. Lists!NoEntry \in ListEntry
    BY DEF Lists!NoEntry, ListEntry
  <2>3. f \in Frame /\ ~HasPage(f) /\ f.kind = "delete" /\ f.s \in made
    BY <1>a, <2>1, <2>2, SendIsFrame
  <2> HIDE DEF f
  <2>4. CASE t = s
    BY <1>0, <2>1, <2>4 DEF Listed, Lists!There, Lists!NoEntry
  <2>5. CASE t # s
    <3>1. table'[t] = table[t]
      BY <1>0, <2>1, <2>5
    <3>2. Coming(listUpdates, t) => Coming(listUpdates', t)
      BY <1>0, <2>1, <2>3, ComingAppend
    <3>3. (AwaitedIn(listUpdates') <=> AwaitedIn(listUpdates))
            /\ (listUpdates # <<>> => listUpdates'[1] = listUpdates[1])
      BY <1>0, <1>a, <2>1, <2>3, FramesAppend
    <3>4. (Awaited' <=> Awaited) /\ (Awaited => listUpdates'[1] = listUpdates[1])
      BY <3>3 DEF Awaited, AwaitedIn
    <3>5. t \in Lists!Known \cup passed => t \in Lists!Known' \cup passed'
      BY <2>1 DEF Lists!Known
    <3>6. Listed(t)' => Reached(t)
      BY <1>0, <3>1 DEF Listed, Lists!There
    <3> QED BY <2>1, <3>1, <3>2, <3>4, <3>5, <3>6, ReachedStill
  <2> QED BY <2>4, <2>5
<1>3. ASSUME NEW a \in answers, Lists!Answered(a) PROVE Listed(t)' => Reached(t)'
  BY <1>0, <1>a, <1>3, PutKnown, ReachedStill DEF AnswerOfCall, Lists!Answered, Lists!hostVars,
     Awaited, Listed
<1>4. ASSUME Lists!Connect PROVE Listed(t)' => Reached(t)'
  BY <1>4, <1>0, <1>a, PageBeforeIs DEF Lists!Connect, HasPage, Awaited, AwaitedIn, PageTyped,
     PagingOfList, Listed, Reached
<1>5. ASSUME Lists!Snapshot PROVE Listed(t)' => Reached(t)'
  <2> DEFINE f == Head(listUpdates)
  <2>1. /\ table' = table /\ listUpdates' = Tail(listUpdates) /\ listUpdates # <<>>
            /\ f.kind = "snapshot"
        /\ listRows' = f.page.entries /\ paging' = paging
        /\ list' = [loaded |-> TRUE, more |-> f.page.more, before |-> f.page.next]
    BY <1>5 DEF Lists!Snapshot
  <2>2. /\ Awaited /\ ~AwaitedIn(Tail(listUpdates)) /\ PageIsOf(f.page, made)
    BY <1>0, <1>a, <2>1, FramesTail DEF Awaited
  <2>3. f = listUpdates[1]
    BY <1>0, <2>1, TailFacts
  <2>4. ~IsOf(f, "upsert", t) /\ ~IsOf(f, "event", t)
    BY <2>1 DEF IsOf
  <2>5. Coming(listUpdates, t) => Coming(listUpdates', t)
    BY <1>0, <2>1, <2>4, ComingTail
  <2>6. t \in f.page.rows => t \in Lists!Known'
    BY <2>1, <2>2 DEF PageIsOf, Lists!Known, Lists!There
  <2>7. list'.more = f.page.more /\ list'.before = f.page.next
    BY <2>1
  <2>8. ~Awaited'
    BY <2>1, <2>2 DEF Awaited
  <2>9. Listed(t)' => Listed(t)
    BY <2>1 DEF Listed
  <2> HIDE DEF f
  <2> QED BY <1>0, <2>1, <2>2, <2>3, <2>5, <2>6, <2>7, <2>8, <2>9 DEF Reached, OnPage
<1>6. ASSUME Lists!Upsert PROVE Listed(t)' => Reached(t)'
  BY <1>6, <1>0, <1>a, HeadFrame, FramesTail, PutKnown, ReachedByTail DEF Lists!Upsert,
     HostStays, Lists!bounds, HasPage, IsOf
<1>7. ASSUME Lists!Removed PROVE Listed(t)' => Reached(t)'
  <2> DEFINE f == Head(listUpdates)
  <2>1. /\ HostStays /\ listUpdates' = Tail(listUpdates) /\ passed' = passed /\ list' = list
            /\ paging' = paging
        /\ listUpdates # <<>> /\ f.kind = "delete"
            /\ listRows' = [listRows EXCEPT ![f.s] = Lists!NoEntry]
    BY <1>7 DEF Lists!Removed, HostStays, Lists!bounds, Lists!historyVars
  <2>2. ~HasPage(f) /\ ~IsOf(f, "upsert", t) /\ ~IsOf(f, "event", t)
    BY <2>1 DEF HasPage, IsOf
  <2>3. CASE t = f.s
    BY <1>0, <2>1, <2>3, TailFacts DEF IsOf, ListsInv, RowsFollow, RowIsTold, NotDeleted,
       Listed, HostStays
  <2>4. CASE t # f.s
    BY <1>0, <2>1, <2>4, <2>2, ReachedByTail DEF Lists!Known, Lists!There
  <2> QED BY <2>3, <2>4
<1>8. ASSUME Lists!Told PROVE Listed(t)' => Reached(t)'
  <2> DEFINE f == Head(listUpdates)
  <2>1. /\ HostStays /\ listUpdates' = Tail(listUpdates) /\ list' = list /\ paging' = paging
        /\ listUpdates # <<>> /\ f.kind = "event"
    BY <1>8 DEF Lists!Told, HostStays, Lists!bounds
  <2>2. ~HasPage(f) /\ \A k : IsOf(f, k, t) => t = f.s
    BY <2>1 DEF HasPage, IsOf
  <2>3. /\ t \in Lists!Known \cup passed => t \in Lists!Known' \cup passed'
        /\ t = f.s => t \in Lists!Known' \cup passed'
    BY <1>0, <1>8, ToldTyped DEF Lists!Told, Lists!Known, Lists!There
  <2> QED BY <1>0, <2>1, <2>2, <2>3, ReachedByTail
<1>9. ASSUME Lists!MoreAnswered PROVE Listed(t)' => Reached(t)'
  <2> DEFINE p == Lists!PageBefore(paging.before)
  <2>1. /\ table' = table /\ listUpdates' = listUpdates /\ listRows' = listRows
            /\ list' = list /\ passed' = passed
        /\ paging' = Lists!PageAnswer(paging.before)
    BY <1>9 DEF Lists!MoreAnswered, Lists!hostVars, Lists!historyVars
  <2>2. paging.before \in Nat
    BY <1>0 DEF PageTyped, PagingOfList
  <2>3. Listed(t) /\ table[t].at < paging.before => OnPage(p, t, table[t].at)
    BY <1>0, <1>a, <2>2, PageBeforeIs
  <2>4. paging'.before = paging.before /\ paging'.rows = p.rows /\ paging'.more = p.more
          /\ paging'.next = p.next
    BY <2>1 DEF Lists!PageAnswer
  <2> HIDE DEF p
  <2>5. Listed(t) /\ table[t].at < paging'.before => OnPage(paging', t, table[t].at)
    BY <2>3, <2>4 DEF OnPage
  <2>6. (Awaited' <=> Awaited) /\ Lists!Known' = Lists!Known /\ (Listed(t)' => Listed(t))
    BY <2>1 DEF Awaited, Lists!Known, Listed
  <2> QED BY <1>0, <2>1, <2>5, <2>6 DEF Reached
<1>10. ASSUME Lists!MoreApplied PROVE Listed(t)' => Reached(t)'
  <2>1. /\ table' = table /\ listUpdates' = listUpdates /\ paging.at = "answered"
            /\ paging' = Lists!NoPaging
        /\ listRows' = [s \in Session |-> IF s \in paging.rows THEN paging.entries[s]
            ELSE listRows[s]]
        /\ list' = [list EXCEPT !.more = paging.more, !.before = paging.next]
        /\ passed' = (passed \ paging.rows) \cup (IF paging.before = list.before
            /\ ~paging.former THEN {}
                                                 ELSE Session \ (Lists!Known \cup paging.rows))
    BY <1>10 DEF Lists!MoreApplied, Lists!hostVars
  <2>2. Lists!Known' = Lists!Known \cup paging.rows
    BY <1>a, <1>0, <2>1 DEF PageIsOf, Lists!Known, Lists!There, HostTyped
  <2>3. list'.loaded = list.loaded /\ list'.more = paging.more /\ list'.before = paging.next
    BY <1>0, <2>1 DEF PageTyped, Cursor
  <2>4. paging'.at = "none"
    BY <2>1 DEF Lists!NoPaging
  <2>5. (Awaited' <=> Awaited) /\ (Listed(t)' => Listed(t))
    BY <2>1 DEF Awaited, Listed
  <2>6. t \in Lists!Known \cup passed => t \in Lists!Known' \cup passed'
    BY <2>1, <2>2
  <2>7. CASE paging.before = list.before /\ ~paging.former
    BY <1>0, <2>1, <2>2, <2>3, <2>4, <2>5, <2>6, <2>7 DEF Reached, OnPage
  <2>8. CASE ~(paging.before = list.before /\ ~paging.former)
    BY <2>1, <2>2, <2>8, <1>0, <2>4, <2>5 DEF Reached
  <2> QED BY <2>7, <2>8
<1>11. ASSUME Quiet PROVE Listed(t)' => Reached(t)'
  BY <1>11, <1>0, ReachedStill DEF Quiet, HostStays, Awaited, Lists!Known, Listed
<1> QED BY <1>0, ListStepKinds, <1>1, <1>2, <1>3, <1>4, <1>5, <1>6, <1>7, <1>8, <1>9, <1>10, <1>11

LEMMA UnreadIsGatedStep == ListsInv /\ [Lists!Next]_Lists!vars => UnreadIsGated'
<1> SUFFICES ASSUME ListsInv, [Lists!Next]_Lists!vars PROVE UnreadIsGated'
  OBVIOUS
<1>0. /\ ListsTyped /\ AllIsMade /\ PageTyped /\ listRows \in [Session -> ListEntry]
          /\ listUpdates \in Seq(Frame)
      /\ answers \subseteq AnswerOfCall /\ paging \in PagingOfList
      /\ unmoved \subseteq needs /\ hasty = {} /\ \A s \in unmoved : s \in Session
          /\ Lists!Unread(listRows[s])
  BY DEF ListsInv, ListsTyped, HostTyped, PageTyped, UnreadIsGated
<1>a. FramesAreOf(listUpdates, made) /\ \A a \in answers : a.entry.at # 0
  BY <1>0 DEF AllIsMade
<1>1. ASSUME UNCHANGED <<listRows, unmoved, needs, hasty>> PROVE UnreadIsGated'
  BY <1>0, <1>1 DEF UnreadIsGated
<1>2. ASSUME NEW s \in Session, NEW e \in ListEntry, e.at # 0, Lists!Put(s, e),
        hasty' = hasty PROVE UnreadIsGated'
  BY <1>0, <1>2, PutKnown DEF Lists!Put, Lists!NeedsOf, UnreadIsGated
<1>3. ASSUME NEW s \in Session, Lists!Create(s) \/ Lists!Event(s) \/ Lists!Delete(s)
        \/ Lists!Prune(s)
                                \/ \E kind \in {"archive", "unarchive"} : Lists!Archive(kind, s)
      PROVE  UnreadIsGated'
  BY <1>1, <1>3 DEF Lists!Create, Lists!Event, Lists!Delete, Lists!Prune, Lists!Archive,
     Lists!gateVars
<1>4. ASSUME Lists!Connect \/ Lists!More \/ Lists!MoreAnswered \/ Lists!MoreFails
        \/ (\E a \in answers : Lists!Unanswered(a)) \/ UNCHANGED Lists!vars
      PROVE  UnreadIsGated'
  BY <1>1, <1>4 DEF Lists!Connect, Lists!More, Lists!MoreAnswered, Lists!MoreFails,
     Lists!Unanswered, Lists!vars, Lists!gateVars
<1>5. ASSUME NEW a \in answers, Lists!Answered(a) PROVE UnreadIsGated'
  BY <1>0, <1>a, <1>2, <1>5 DEF Lists!Answered, AnswerOfCall
<1>6. ASSUME Lists!Upsert PROVE UnreadIsGated'
  BY <1>0, <1>a, <1>6, HeadFrame, FramesTail, <1>2 DEF Lists!Upsert
<1>7. ASSUME Lists!Snapshot PROVE UnreadIsGated'
  BY <1>7, <1>0 DEF Lists!Snapshot, UnreadIsGated
<1>8. ASSUME Lists!Removed PROVE UnreadIsGated'
  BY <1>8, <1>0 DEF Lists!Removed, UnreadIsGated
<1>9. ASSUME Lists!Told PROVE UnreadIsGated'
  <2> DEFINE s == Head(listUpdates).s
  <2>1. hasty' = hasty
    BY <1>9 DEF Lists!Told
  <2>2. CASE s \in Lists!Known
    <3>1. s \in Session /\ listRows' = [listRows EXCEPT ![s] = listRows'[s]]
      BY <1>0, <1>9, <2>2, ToldTyped
    <3>2. /\ needs' = Lists!NeedsOf(needs, s, listRows'[s])
          /\ unmoved' = IF Lists!Unread(listRows'[s]) THEN unmoved \cup {s} ELSE unmoved \ {s}
      BY <1>9, <2>2 DEF Lists!Told
    <3>3. \A t \in Session : t # s => listRows'[t] = listRows[t]
      BY <1>0, <3>1
    <3> HIDE DEF s
    <3>4. CASE Lists!Unread(listRows'[s])
      BY <3>2, <3>4, <3>1, <1>0, <3>3, <2>1 DEF Lists!NeedsOf, UnreadIsGated
    <3>5. CASE ~Lists!Unread(listRows'[s])
      BY <3>2, <3>5, <1>0, <2>1, <3>3 DEF Lists!NeedsOf, UnreadIsGated
    <3> QED BY <3>4, <3>5
  <2>3. CASE s \notin Lists!Known
    BY <1>1, <1>9, <2>3 DEF Lists!Told
  <2> QED BY <2>2, <2>3
<1>10. ASSUME Lists!MoreApplied PROVE UnreadIsGated'
  BY <1>10, <1>0 DEF Lists!MoreApplied, UnreadIsGated
<1>11. ASSUME NEW s \in Session \cup {NoSession}, Lists!Select(s) PROVE UnreadIsGated'
  BY <1>11, <1>0, <1>1 DEF Lists!Select, UnreadIsGated
<1>12. ASSUME Lists!Interact PROVE UnreadIsGated'
  BY <1>0, <1>12 DEF Lists!Interact, UnreadIsGated
<1>13. ASSUME Lists!Mark PROVE UnreadIsGated'
  BY <1>13, <1>0, <1>1 DEF Lists!Mark, Lists!MayMark, UnreadIsGated
<1> QED BY <1>3, <1>4, <1>5, <1>6, <1>7, <1>8, <1>9, <1>10, <1>11, <1>12, <1>13 DEF Lists!Next

LEMMA ListsInvInit == Lists!Init => ListsInv
<1> SUFFICES ASSUME Lists!Init PROVE ListsInv
  OBVIOUS
<1>1. Lists!NoEntry \in ListEntry /\ Lists!NoEntry.at = 0
  BY DEF Lists!NoEntry, ListEntry
<1>2. Lists!NoPaging \in PagingOfList /\ Lists!NoPaging.at = "none"
  BY <1>1 DEF Lists!NoPaging, PagingOfList
<1>3. HostTyped
  BY <1>1, FS_EmptySet DEF Lists!Init, HostTyped
<1>4. PageTyped
  BY <1>1, <1>2 DEF Lists!Init, PageTyped, Cursor
<1>5. \A s \in Session : table[s].at = 0 /\ listRows[s].at = 0
  BY <1>1 DEF Lists!Init
<1>6. AllIsMade
  BY <1>5 DEF Lists!NoPaging, PageIsOf, Lists!Init, FramesAreOf, AllIsMade, Lists!Known,
     Lists!There
<1>7. NothingYet
  BY <1>2, <1>5 DEF Lists!Init, NothingYet, Lists!Known, Lists!There
<1>8. RowsFollow
  BY <1>5 DEF Lists!Init, RowsFollow, RowIsTaken, Lists!There
<1>9. ListReaches
  BY <1>5 DEF ListReaches, Listed, Lists!There
<1>10. UnreadIsGated
  BY DEF Lists!Init, UnreadIsGated
<1> QED BY <1>3, <1>4, <1>6, <1>7, <1>8, <1>9, <1>10 DEF ListsInv, ListsTyped

LEMMA ListsInductive == Lists!Spec => []ListsInv
<1>1. ListsInv /\ [Lists!Next]_Lists!vars => ListsInv'
  BY HostTypedStep, PageTypedStep, AllIsMadeStep, NothingYetStep, RowsFollowStep,
     ListReachesStep, UnreadIsGatedStep DEF ListsInv, ListsTyped
<1> QED BY ListsInvInit, <1>1, PTL DEF Lists!Spec

LEMMA ListsFollow == ListsInv => Lists!ListWhole /\ Lists!RowsAgree /\ Lists!ReadIsSeen
<1> SUFFICES ASSUME ListsInv PROVE Lists!ListWhole /\ Lists!RowsAgree /\ Lists!ReadIsSeen
  OBVIOUS
<1>1. Lists!ListWhole
  BY DEF Lists!ListWhole, Lists!Settled, Listed, Awaited, AwaitedIn, Coming, ListsInv,
     ListReaches, Reached
<1>2. Lists!RowsAgree
  <2> SUFFICES ASSUME listUpdates = <<>>, NEW s \in Lists!Known
               PROVE  /\ Lists!There(table, s) \/ s \in ghosts
                      /\ Lists!There(table, s) => listRows[s] = table[s] \/ s \in stale
    BY DEF Lists!RowsAgree, Lists!Settled
  <2>1. s \in Session /\ listRows[s].at # 0 /\ Len(listUpdates) = 0
    BY DEF Lists!Known, Lists!There
  <2>2. Lists!There(table, s) \/ s \in ghosts
    BY <2>1 DEF ListsInv, RowsFollow, RowIsTaken
  <2>3. ASSUME Lists!There(table, s), s \notin stale PROVE listRows[s] = table[s]
    <3>1. RowShows(listUpdates, table[s], listRows[s], stale, s)
      BY <2>1, <2>3 DEF ListsInv, RowsFollow, RowIsTold
    <3>2. SameMarks(listRows[s], table[s]) /\ SameTimes(listRows[s], table[s])
      BY <2>1, <2>3, <3>1 DEF RowShows
    <3>3. listRows[s] \in ListEntry /\ table[s] \in ListEntry
      BY <2>1 DEF ListsInv, ListsTyped, HostTyped, PageTyped
    <3> QED BY <3>2, <3>3 DEF SameMarks, SameTimes, ListEntry
  <2> QED BY <2>2, <2>3
<1>3. Lists!ReadIsSeen
  BY DEF ListsInv, UnreadIsGated, Lists!ReadIsSeen
<1> QED BY <1>1, <1>2, <1>3

-----------------------------------------------------------------------------
(* The models on offer.                                                    *)

CacheEntry == [machine : Machine, call : Nat, list : Nat, fresh : BOOLEAN]
ModelCall == [id : Nat \ {0}, machine : Machine, read : BOOLEAN, list : Nat]

Offer == [machine : Machine \cup {None}, of : Machine \cup {None}, list : Nat, young : BOOLEAN]
CatalogLoad == [at : {"none", "asked", "waiting", "answered", "failed"},
                machine : Machine \cup {None}, call : Nat, of : Machine \cup {None}, list : Nat]

CatalogTyped ==
    /\ installed \in [Machine -> Nat] /\ connected \subseteq Machine /\ links \in Nat
    /\ entries \in Seq(CacheEntry)
    /\ listings \subseteq ModelCall /\ IsFiniteSet(listings)
    /\ catalog \in Offer /\ modelsLoad \in CatalogLoad
    /\ favourite \in Machine \cup {None} /\ online \subseteq Machine

OneEntryEach(es) == \A i, j \in 1..Len(es) : es[i].machine = es[j].machine => i = j
OneCallEach == \A k, l \in listings : k.id = l.id => k = l
PendingIsCalled ==
    \A i \in 1..Len(entries) : entries[i].call # 0 =>
        \E l \in listings : l.id = entries[i].call /\ l.machine = entries[i].machine
LoadIsCalled ==
    /\ modelsLoad.at = "waiting" => \E l \in listings : l.id = modelsLoad.call
        /\ l.machine = modelsLoad.machine
    /\ modelsLoad.at = "answered" => modelsLoad.of = modelsLoad.machine
CacheInv ==
    CatalogTyped /\ OneEntryEach(entries) /\ OneCallEach /\ PendingIsCalled /\ LoadIsCalled
\* What of it is about the host.
CacheKept ==
    /\ entries \in Seq(CacheEntry) /\ listings \subseteq ModelCall /\ IsFiniteSet(listings)
    /\ OneEntryEach(entries) /\ OneCallEach /\ PendingIsCalled

OfferIsOfMachine ==
    /\ catalog.machine = catalog.of
    /\ LET m == Catalog!Target(modelsSelected, favourite, online) IN
       m \in online /\ ~modelsMissed => modelsLoad.at # "none" \/ catalog.machine = m

CatalogInv == CacheInv /\ OfferIsOfMachine

LEMMA SizeAgrees == \A S : Catalog!Cardinality(S) = Cardinality(S)
BY DEF Catalog!Cardinality, Cardinality, Catalog!IsFiniteSet, IsFiniteSet

LEMMA RemovedAt ==
    ASSUME NEW S, NEW s \in Seq(S), NEW k \in 1..Len(s)
    PROVE  /\ Catalog!RemoveAt(s, k) \in Seq(S) /\ Len(Catalog!RemoveAt(s, k)) = Len(s) - 1
           /\ \A j \in 1..(Len(s) - 1) : Catalog!RemoveAt(s, k)[j] = IF j < k THEN s[j]
               ELSE s[j + 1]
<1> DEFINE a == SubSeq(s, 1, k - 1)  b == SubSeq(s, k + 1, Len(s))
<1>1. a \in Seq(S) /\ Len(a) = k - 1 /\ \A j \in 1..(k - 1) : a[j] = s[j]
  OBVIOUS
<1>2. b \in Seq(S) /\ Len(b) = Len(s) - k /\ \A j \in 1..(Len(s) - k) : b[j] = s[k + j]
  OBVIOUS
<1>3. Catalog!RemoveAt(s, k) = a \o b
  BY DEF Catalog!RemoveAt
<1> HIDE DEF a, b
<1>4. a \o b \in Seq(S) /\ Len(a \o b) = Len(s) - 1
  <2>1. Len(s) \in Nat /\ k \in Int
    OBVIOUS
  <2>2. a \o b \in Seq(S) /\ Len(a \o b) = Len(a) + Len(b)
    BY <1>1, <1>2, ConcatProperties
  <2> QED BY <1>1, <1>2, <2>1, <2>2
<1>5. ASSUME NEW j \in 1..(Len(s) - 1) PROVE (a \o b)[j] = IF j < k THEN s[j] ELSE s[j + 1]
  <2>1. CASE j < k
    BY <1>1, <1>2, <2>1
  <2>2. CASE ~(j < k)
    <3>1. (a \o b)[j] = b[j - Len(a)]
      BY <1>1, <1>2, <2>2
    <3>2. j - Len(a) \in 1..(Len(s) - k) /\ k + (j - Len(a)) = j + 1
      BY <1>1, <2>2
    <3> QED BY <1>2, <2>2, <3>1, <3>2
  <2> QED BY <2>1, <2>2
<1> QED BY <1>3, <1>4, <1>5

\* What is left of the cache is there before, at a place that is not in I.
LEMMA WithoutKeeps ==
    ASSUME NEW es \in Seq(CacheEntry), NEW I \in SUBSET (1..Len(es)), \A i, j \in I : i = j,
           OneEntryEach(es)
    PROVE  /\ Catalog!Without(es, I) \in Seq(CacheEntry) /\ Len(Catalog!Without(es, I)) <= Len(es)
           /\ OneEntryEach(Catalog!Without(es, I))
           /\ \A j \in 1..Len(Catalog!Without(es, I)) :
                 \E i \in (1..Len(es)) \ I : Catalog!Without(es, I)[j] = es[i]
<1>1. CASE I = {}
  BY <1>1 DEF Catalog!Without
<1>2. CASE I # {}
  <2> DEFINE k == CHOOSE i \in I : TRUE  w == Catalog!RemoveAt(es, k)
  <2>1. k \in I /\ I = {k}
    BY <1>2
  <2>2. Catalog!Without(es, I) = w
    BY <1>2 DEF Catalog!Without
  <2> HIDE DEF k
  <2>3. /\ w \in Seq(CacheEntry) /\ Len(w) = Len(es) - 1
        /\ \A j \in 1..(Len(es) - 1) : w[j] = IF j < k THEN es[j] ELSE es[j + 1]
    BY <2>1, RemovedAt
  <2> HIDE DEF w
  <2> DEFINE at(j) == IF j < k THEN j ELSE j + 1
  <2>4. \A j \in 1..Len(w) : at(j) \in (1..Len(es)) \ {k} /\ w[j] = es[at(j)]
    BY <2>1, <2>3
  <2>5. \A i, j \in 1..Len(w) : at(i) = at(j) => i = j
    BY <2>1, <2>3
  <2> HIDE DEF at
  <2>6. OneEntryEach(w)
    BY <2>4, <2>5 DEF OneEntryEach
  <2>7. \A j \in 1..Len(w) : \E i \in (1..Len(es)) \ I : w[j] = es[i]
    BY <2>1, <2>4
  <2>8. Len(w) <= Len(es)
    BY <2>3
  <2> QED BY <2>2, <2>3, <2>6, <2>7, <2>8
<1> QED BY <1>1, <1>2

LEMMA TouchedKeeps ==
    ASSUME NEW es \in Seq(CacheEntry), OneEntryEach(es), NEW e \in CacheEntry
    PROVE  /\ Catalog!Touched(es, e) \in Seq(CacheEntry)
           /\ Len(es) <= CacheSize => Len(Catalog!Touched(es, e)) <= CacheSize
           /\ OneEntryEach(Catalog!Touched(es, e))
           /\ \A j \in 1..Len(Catalog!Touched(es, e)) :
                 \/ Catalog!Touched(es, e)[j] = e
                 \/ \E i \in 1..Len(es) :
                       Catalog!Touched(es, e)[j] = es[i] /\ es[i].machine # e.machine
<1> DEFINE I == {i \in 1..Len(es) : es[i].machine = e.machine}
           o == Catalog!Without(es, I)  all == Append(o, e)
<1>1. /\ o \in Seq(CacheEntry) /\ OneEntryEach(o) /\ Len(o) <= Len(es)
      /\ \A j \in 1..Len(o) : \E i \in (1..Len(es)) \ I : o[j] = es[i]
  <2>1. \A i, j \in I : i = j
    BY DEF OneEntryEach
  <2> HIDE DEF I
  <2>2. I \in SUBSET (1..Len(es))
    BY DEF I
  <2> QED BY <2>1, <2>2, WithoutKeeps
<1>2. Catalog!Touched(es, e) = IF Len(all) > CacheSize THEN Tail(all) ELSE all
  BY DEF Catalog!Touched, Catalog!Others
<1>3. \A j \in 1..Len(o) : \E i \in 1..Len(es) : o[j] = es[i] /\ es[i].machine # e.machine
  BY <1>1
<1> HIDE DEF o
<1>4. /\ all \in Seq(CacheEntry) /\ Len(all) = Len(o) + 1 /\ all[Len(all)] = e
      /\ \A j \in 1..Len(o) : all[j] = o[j]
  BY <1>1
<1> HIDE DEF all, I
<1>5. OneEntryEach(all)
  <2>1. \A k \in 1..Len(all) : k = Len(all) \/ k \in 1..Len(o)
    BY <1>1, <1>4
  <2>2. \A k \in 1..Len(o) : all[k].machine # all[Len(all)].machine
    BY <1>3, <1>4
  <2>3. \A i, j \in 1..Len(o) : all[i].machine = all[j].machine => i = j
    BY <1>1, <1>4 DEF OneEntryEach
  <2> QED BY <2>1, <2>2, <2>3 DEF OneEntryEach
<1>6. \A j \in 1..Len(all) :
        \/ all[j] = e
        \/ \E i \in 1..Len(es) : all[j] = es[i] /\ es[i].machine # e.machine
  <2>1. \A j \in 1..Len(all) : j = Len(all) \/ j \in 1..Len(o)
    BY <1>1, <1>4
  <2> QED BY <1>3, <1>4, <2>1
<1>7. /\ Tail(all) \in Seq(CacheEntry) /\ Len(Tail(all)) = Len(all) - 1
      /\ \A j \in 1..Len(Tail(all)) : Tail(all)[j] = all[j + 1] /\ j + 1 \in 1..Len(all)
  BY <1>1, <1>4
<1>8. OneEntryEach(Tail(all))
  BY <1>1, <1>4, <1>5, <1>7 DEF OneEntryEach
<1>9. Len(es) <= CacheSize /\ Len(all) > CacheSize => Len(Tail(all)) <= CacheSize
  BY <1>1, MCWebAssumption, <1>4, <1>7
<1>10. Len(all) \in Nat /\ CacheSize \in Nat
  BY <1>4, MCWebAssumption
<1>11. CASE Len(all) > CacheSize
  <2>1. Catalog!Touched(es, e) = Tail(all)
    BY <1>2, <1>11
  <2> QED BY <1>6, <1>7, <1>8, <1>9, <1>11, <2>1
<1>12. CASE ~(Len(all) > CacheSize)
  <2>1. Catalog!Touched(es, e) = all /\ Len(all) <= CacheSize
    BY <1>2, <1>10, <1>12
  <2> QED BY <1>4, <1>5, <1>6, <2>1
<1> QED BY <1>11, <1>12

\* A call that may be made has a number that no other has.
LEMMA NextCallIsNew ==
    ASSUME CacheInv, Cardinality(listings) < MaxListings
    PROVE  /\ Catalog!NextCall \in Nat \ {0} /\ Catalog!NextCall <= MaxListings
           /\ \A l \in listings : l.id # Catalog!NextCall
<1> DEFINE Ids == {l.id : l \in listings}
<1>1. Ids \subseteq Catalog!Called /\ Catalog!Called \subseteq Ids \cup {0}
  BY DEF CacheInv, PendingIsCalled, Catalog!Called, CatalogTyped
<1>2. IsFiniteSet(Ids) /\ Cardinality(Ids) <= Cardinality(listings)
  <2> DEFINE f == [l \in listings |-> l.id]
  <2>1. f \in Surjection(listings, Ids)
    BY DEF Surjection
  <2> QED BY <2>1, FS_Surjection DEF CacheInv, CatalogTyped
<1>3. Ids \subseteq Nat
  BY DEF CacheInv, CatalogTyped, ModelCall
<1> HIDE DEF Ids
<1>4. \E c \in 1..MaxListings : c \notin Ids
  <2> SUFFICES ASSUME 1..MaxListings \subseteq Ids PROVE FALSE
    OBVIOUS
  <2>1. Cardinality(1..MaxListings) = MaxListings
    BY MCWebAssumption, FS_Interval
  <2>2. Cardinality(1..MaxListings) <= Cardinality(Ids)
    BY <1>2, FS_Subset
  <2>3. Cardinality(Ids) \in Nat /\ Cardinality(listings) \in Nat
    BY <1>2, FS_CardinalityType DEF CacheInv, CatalogTyped
  <2> QED BY <1>2, <2>1, <2>2, <2>3, MCWebAssumption
<1>5. PICK c \in 1..MaxListings : c \notin Ids
  BY <1>4
<1> DEFINE Free == {d \in Nat \ {0} : d \notin Ids}
<1>6. PICK k \in Free : \A m \in Free : k <= m
  <2>1. c \in Free /\ Free \in SUBSET Nat
    BY <1>5, MCWebAssumption
  <2> HIDE DEF Free
  <2> QED BY <2>1, SmallestNumber
<1>7. k \in 1..(MaxListings + CacheSize) /\ k \notin Catalog!Called /\ \A d \in 1..(k - 1) :
        d \in Catalog!Called
  BY <1>1, <1>5, <1>6, MCWebAssumption
<1>8. /\ Catalog!NextCall \in 1..(MaxListings + CacheSize) /\ Catalog!NextCall \notin Catalog!Called
      /\ \A d \in 1..(Catalog!NextCall - 1) : d \in Catalog!Called
  BY <1>7 DEF Catalog!NextCall
<1>9. Catalog!NextCall <= MaxListings
  BY <1>8, MCWebAssumption, <1>5, <1>6, <1>7
<1> QED BY <1>1, <1>8, <1>9, MCWebAssumption DEF Ids

\* What a request meets is an entry of its machine.
LEMMA EntryIsThere ==
    ASSUME CacheInv, NEW m, NEW e \in Catalog!EntryOf(m)
    PROVE  /\ e \in CacheEntry /\ e.machine = m
           /\ \E i \in 1..Len(entries) : entries[i] = e
BY DEF CacheInv, CatalogTyped, Catalog!EntryOf

LEMMA AskKeeps ==
    ASSUME CacheInv, NEW m \in Machine, Catalog!Ask(m)
    PROVE  /\ CacheKept' /\ listings \subseteq listings'
           /\ ~Catalog!Known(m) /\ Catalog!Underway(m) = {} =>
                 \E l \in listings' : l.id = Catalog!NextCall /\ l.machine = m
<1>0. /\ entries \in Seq(CacheEntry) /\ OneEntryEach(entries)
      /\ listings \subseteq ModelCall /\ IsFiniteSet(listings)
  BY DEF CacheInv, CatalogTyped
<1>1. CASE Catalog!Known(m)
  <2> DEFINE e == CHOOSE x \in Catalog!EntryOf(m) : TRUE
  <2>1. e \in Catalog!EntryOf(m)
    BY <1>1 DEF Catalog!Known
  <2>2. entries' = Catalog!Touched(entries, e) /\ listings' = listings
    BY <1>1 DEF Catalog!Ask
  <2> HIDE DEF e
  <2>3. e \in CacheEntry /\ \E i \in 1..Len(entries) : entries[i] = e
    BY <2>1, EntryIsThere
  <2>4. /\ entries' \in Seq(CacheEntry) /\ OneEntryEach(entries')
        /\ \A j \in 1..Len(entries') : \E i \in 1..Len(entries) : entries'[j] = entries[i]
    BY <1>0, <2>2, <2>3, TouchedKeeps
  <2>5. PendingIsCalled'
    BY <2>2, <2>4 DEF CacheInv, PendingIsCalled
  <2> QED BY <1>0, <1>1, <2>2, <2>4, <2>5 DEF CacheInv, CacheKept, OneEntryEach, OneCallEach
<1>2. CASE ~Catalog!Known(m) /\ Catalog!Underway(m) # {}
  BY <1>2, <1>0 DEF Catalog!Ask, CacheInv, CacheKept, OneEntryEach, OneCallEach,
     PendingIsCalled
<1>3. CASE ~Catalog!Known(m) /\ Catalog!Underway(m) = {}
  <2> DEFINE e == Catalog!Pending(m, Catalog!NextCall)
             l == [id |-> Catalog!NextCall, machine |-> m, read |-> FALSE,
                 list |-> Catalog!NoListing]
  <2>1. /\ Cardinality(listings) < MaxListings
        /\ entries' = Catalog!Touched(entries, e) /\ listings' = listings \cup {l}
    BY <1>3, SizeAgrees DEF Catalog!Ask
  <2>2. Catalog!NextCall \in Nat \ {0} /\ \A k \in listings : k.id # Catalog!NextCall
    BY <2>1, NextCallIsNew
  <2>3. e \in CacheEntry /\ e.call = Catalog!NextCall /\ e.machine = m
    BY <2>2 DEF Catalog!Pending, CacheEntry, Catalog!NoListing
  <2>4. l \in ModelCall /\ l.id = Catalog!NextCall /\ l.machine = m
    BY <2>2 DEF ModelCall, Catalog!NoListing
  <2> HIDE DEF e, l
  <2>5. /\ entries' \in Seq(CacheEntry) /\ OneEntryEach(entries')
        /\ \A j \in 1..Len(entries') :
              entries'[j] = e \/ \E i \in 1..Len(entries) : entries'[j] = entries[i]
    BY <1>0, <2>1, <2>3, TouchedKeeps
  <2>6. PendingIsCalled'
    BY <2>1, <2>3, <2>4, <2>5 DEF CacheInv, PendingIsCalled
  <2>7. OneCallEach'
    BY <2>1, <2>2, <2>4 DEF CacheInv, OneCallEach
  <2>8. IsFiniteSet(listings') /\ listings' \subseteq ModelCall
    BY <1>0, <2>1, <2>4, FS_AddElement
  <2>9. OneEntryEach(entries)'
    BY <2>5 DEF OneEntryEach
  <2> QED BY <2>1, <2>4, <2>5, <2>6, <2>7, <2>8, <2>9 DEF CacheKept
<1> QED BY <1>1, <1>2, <1>3

\* The calls that are given up are those of one machine.
LEMMA RejectKeeps ==
    ASSUME CacheInv, NEW L \in SUBSET listings, \A k, l \in L : k.machine = l.machine,
             Catalog!Reject(L)
    PROVE  CacheKept' /\ LoadIsCalled' /\ modelsLoad' \in CatalogLoad
<1>0. /\ entries \in Seq(CacheEntry) /\ OneEntryEach(entries)
      /\ listings \subseteq ModelCall /\ IsFiniteSet(listings) /\ modelsLoad \in CatalogLoad
  BY DEF CacheInv, CatalogTyped
<1> DEFINE I == {i \in 1..Len(entries) : entries[i].call \in {l.id : l \in L}}
<1>1. entries' = Catalog!Without(entries, I) /\ listings' = listings \ L
  BY DEF Catalog!Reject
<1>2. \A i, j \in I : i = j
  BY <1>0 DEF CacheInv, PendingIsCalled, OneCallEach, ModelCall, OneEntryEach
<1>3. /\ entries' \in Seq(CacheEntry) /\ OneEntryEach(entries')
      /\ \A j \in 1..Len(entries') : \E i \in (1..Len(entries)) \ I : entries'[j] = entries[i]
  <2>1. I \in SUBSET (1..Len(entries))
    OBVIOUS
  <2> HIDE DEF I
  <2> QED BY <1>0, <1>1, <1>2, <2>1, WithoutKeeps
<1>4. PendingIsCalled'
  <2> SUFFICES ASSUME NEW j \in 1..Len(entries'), entries'[j].call # 0
               PROVE  \E l \in listings' : l.id = entries'[j].call
                        /\ l.machine = entries'[j].machine
    BY DEF PendingIsCalled
  <2>1. PICK i \in (1..Len(entries)) \ I : entries'[j] = entries[i]
    BY <1>3
  <2>2. PICK l \in listings : l.id = entries[i].call /\ l.machine = entries[i].machine
    BY <2>1 DEF CacheInv, PendingIsCalled
  <2>3. l \notin L
    BY <2>1, <2>2
  <2> QED BY <1>1, <2>1, <2>2, <2>3
<1>5. OneEntryEach(entries)' /\ OneCallEach' /\ IsFiniteSet(listings')
  BY <1>0, <1>1, <1>3, FS_Subset DEF CacheInv, OneEntryEach, OneCallEach
<1>6. CASE \E l \in L : Catalog!Waits(l)
  BY <1>6, <1>0, <1>1, <1>3, <1>4, <1>5 DEF Catalog!Reject, CacheKept, LoadIsCalled,
     CatalogLoad
<1>7. CASE ~\E l \in L : Catalog!Waits(l)
  BY <1>7, <1>1, <1>0, <1>3, <1>4, <1>5 DEF Catalog!Reject, CacheInv, LoadIsCalled,
     Catalog!Waits, CacheKept
<1> QED BY <1>6, <1>7

\* A load that begins.
LEMMA LoadOfKeeps ==
    ASSUME CacheInv, NEW m \in Machine, NEW force \in BOOLEAN, Catalog!LoadOf(m, force),
           UNCHANGED <<entries, listings>>
    PROVE  modelsLoad' \in CatalogLoad /\ CacheKept' /\ LoadIsCalled'
<1>0. modelsLoad \in CatalogLoad /\ CacheKept'
  BY DEF CacheInv, CatalogTyped, CacheKept, OneEntryEach, OneCallEach, PendingIsCalled
<1>1. CASE modelsLoad' = modelsLoad
  BY <1>0, <1>1 DEF CacheInv, LoadIsCalled
<1>2. CASE modelsLoad' = [Catalog!NoLoad EXCEPT !.at = "asked", !.machine = m]
  BY <1>0, <1>2 DEF LoadIsCalled, Catalog!NoLoad, CatalogLoad, Catalog!NoListing
<1> QED BY <1>1, <1>2 DEF Catalog!LoadOf

LEMMA WatchKeeps ==
    ASSUME CacheInv, Catalog!Watch, online' \subseteq Machine, UNCHANGED <<entries, listings>>
    PROVE  modelsLoad' \in CatalogLoad /\ CacheKept' /\ LoadIsCalled'
<1> DEFINE now == Catalog!Target(modelsSelected', favourite', online')
<1>1. CASE Catalog!Works(modelsSelected', favourite', online') /\ Catalog!LoadOf(now, FALSE)
  BY <1>1, LoadOfKeeps DEF Catalog!Works
<1>2. CASE modelsLoad' = modelsLoad
  BY <1>2 DEF CacheInv, CatalogTyped, LoadIsCalled, CacheKept, OneEntryEach, OneCallEach,
     PendingIsCalled
<1> QED BY <1>1, <1>2 DEF Catalog!Watch

LEMMA CacheInvStep == CacheInv /\ [Catalog!Next]_Catalog!vars => CacheInv'
<1> SUFFICES ASSUME CacheInv, [Catalog!Next]_Catalog!vars PROVE CacheInv'
  OBVIOUS
<1>0. /\ installed \in [Machine -> Nat] /\ connected \subseteq Machine /\ links \in Nat
      /\ entries \in Seq(CacheEntry)
      /\ listings \subseteq ModelCall /\ IsFiniteSet(listings)
      /\ catalog \in Offer /\ modelsLoad \in CatalogLoad
      /\ favourite \in Machine \cup {None} /\ online \subseteq Machine
      /\ OneEntryEach(entries)
  BY DEF CacheInv, CatalogTyped
<1>a. ASSUME CacheKept', LoadIsCalled', modelsLoad' \in CatalogLoad,
             installed' \in [Machine -> Nat], connected' \subseteq Machine, links' \in Nat,
             catalog' \in Offer, favourite' \in Machine \cup {None}, online' \subseteq Machine
      PROVE  CacheInv'
  BY <1>a DEF CacheInv, CatalogTyped, CacheKept
<1>b. ASSUME UNCHANGED <<entries, listings>> PROVE CacheKept'
  BY <1>b DEF CacheInv, CatalogTyped, CacheKept, OneEntryEach, OneCallEach, PendingIsCalled
<1>c. ASSUME UNCHANGED <<modelsLoad, listings>> PROVE LoadIsCalled' /\ modelsLoad' \in CatalogLoad
  BY <1>c, <1>0 DEF CacheInv, LoadIsCalled
<1>1. CASE UNCHANGED Catalog!vars
  BY <1>0, <1>1, <1>a, <1>b, <1>c DEF Catalog!vars, Catalog!machineVars, Catalog!pageVars,
     Catalog!bounds
<1>2. CASE Catalog!Request
  <2> DEFINE m == modelsLoad.machine
  <2>1. /\ UNCHANGED <<installed, connected, links, catalog, favourite, online>>
            /\ modelsLoad.at = "asked"
    BY <1>2 DEF Catalog!Request, Catalog!bounds
  <2>2. CASE m \notin connected /\ modelsLoad' = [modelsLoad EXCEPT !.at = "failed"]
          /\ UNCHANGED <<entries, listings>>
    BY <1>0, <2>2, <1>a, <1>b, <2>1 DEF LoadIsCalled, CatalogLoad
  <2>3. CASE m \in connected /\ Catalog!Ask(m) /\ Catalog!Known(m)
    <3> DEFINE e == CHOOSE x \in Catalog!EntryOf(m) : TRUE
    <3>1. e \in Catalog!EntryOf(m)
      BY <2>3 DEF Catalog!Known
    <3>2. modelsLoad' = [modelsLoad EXCEPT !.at = "answered", !.of = m, !.list = e.list]
      BY <1>2, <2>3 DEF Catalog!Request
    <3> HIDE DEF e
    <3>3. e.list \in Nat
      BY <3>1, EntryIsThere DEF CacheEntry
    <3>4. LoadIsCalled' /\ modelsLoad' \in CatalogLoad
      BY <1>0, <2>3, <3>2, <3>3 DEF LoadIsCalled, CatalogLoad
    <3>5. CacheKept'
      BY <1>0, <2>3, AskKeeps
    <3> QED BY <1>0, <1>a, <2>1, <3>4, <3>5
  <2>4. CASE m \in connected /\ Catalog!Ask(m) /\ ~Catalog!Known(m)
    <3> DEFINE c == IF Catalog!Underway(m) = {} THEN Catalog!NextCall
          ELSE (CHOOSE e \in Catalog!Underway(m) : TRUE).call
    <3>1. modelsLoad' = [modelsLoad EXCEPT !.at = "waiting", !.call = c]
      BY <1>2, <2>4 DEF Catalog!Request
    <3>2. CacheKept' /\ listings \subseteq listings'
      BY <1>0, <2>4, AskKeeps
    <3>3. \E l \in listings' : l.id = c /\ l.machine = m
      <4>1. CASE Catalog!Underway(m) = {}
        BY <1>0, <2>4, <4>1, AskKeeps
      <4>2. CASE Catalog!Underway(m) # {}
        <5> DEFINE e == CHOOSE x \in Catalog!Underway(m) : TRUE
        <5>1. e \in Catalog!EntryOf(m) /\ e.call # 0 /\ c = e.call
          BY <4>2 DEF Catalog!Underway
        <5> HIDE DEF e, c
        <5>2. \E l \in listings : l.id = e.call /\ l.machine = m
          BY <5>1, EntryIsThere DEF CacheInv, PendingIsCalled
        <5> QED BY <3>2, <5>1, <5>2
      <4> QED BY <4>1, <4>2
    <3> HIDE DEF c
    <3>4. c \in Nat
      BY <3>2, <3>3 DEF CacheKept, ModelCall
    <3>5. LoadIsCalled' /\ modelsLoad' \in CatalogLoad
      BY <1>0, <3>1, <3>3, <3>4 DEF LoadIsCalled, CatalogLoad
    <3> QED BY <1>0, <1>a, <2>1, <3>2, <3>5
  <2> QED BY <1>2, <2>2, <2>3, <2>4 DEF Catalog!Request
<1>3. ASSUME NEW m \in Machine, Catalog!Visit(m) PROVE CacheInv'
  BY <1>3, AskKeeps, <1>0, <1>a DEF Catalog!Visit, Catalog!pageVars, Catalog!bounds, CacheInv,
     LoadIsCalled
<1>4. ASSUME NEW l \in listings, Catalog!Read(l) PROVE CacheInv'
  <2> DEFINE k == [l EXCEPT !.read = TRUE, !.list = installed[l.machine]]
  <2>1. k \in ModelCall /\ k.id = l.id /\ k.machine = l.machine
    BY <1>0 DEF ModelCall
  <2>2. /\ listings' = (listings \ {l}) \cup {k}
        /\ UNCHANGED <<installed, connected, entries, links, catalog, favourite, online,
            modelsLoad>>
    BY <1>4 DEF Catalog!Read, Catalog!pageVars, Catalog!bounds
  <2> HIDE DEF k
  <2>3. IsFiniteSet(listings') /\ listings' \subseteq ModelCall
    BY <1>0, <2>1, <2>2, FS_AddElement, FS_RemoveElement
  <2>4. PendingIsCalled' /\ OneCallEach' /\ LoadIsCalled' /\ OneEntryEach(entries)'
    BY <2>1, <2>2 DEF CacheInv, PendingIsCalled, OneCallEach, LoadIsCalled, OneEntryEach
  <2> QED BY <1>0, <1>a, <2>2, <2>3, <2>4 DEF CacheKept
<1>5. ASSUME NEW l \in listings, Catalog!Settle(l) PROVE CacheInv'
  <2> DEFINE e == Catalog!Fresh(l.list, l.machine)
  <2>1. e \in CacheEntry /\ e.call = 0 /\ e.machine = l.machine
    BY <1>0 DEF Catalog!Fresh, CacheEntry, ModelCall
  <2>2. /\ listings' = listings \ {l} /\ entries' = Catalog!Touched(entries, e)
        /\ modelsLoad' = IF Catalog!Waits(l)
            THEN [modelsLoad EXCEPT !.at = "answered", !.of = l.machine, !.list = l.list]
                ELSE modelsLoad
        /\ UNCHANGED <<installed, connected, links, catalog, favourite, online>>
    BY <1>5 DEF Catalog!Settle, Catalog!bounds
  <2> HIDE DEF e
  <2>3. /\ entries' \in Seq(CacheEntry) /\ OneEntryEach(entries')
        /\ \A j \in 1..Len(entries') :
              \/ entries'[j] = e
              \/ \E i \in 1..Len(entries) : entries'[j] = entries[i]
                  /\ entries[i].machine # e.machine
    BY <1>0, <2>1, <2>2, TouchedKeeps
  <2>4. PendingIsCalled'
    BY <2>1, <2>2, <2>3 DEF CacheInv, PendingIsCalled
  <2>5. OneCallEach' /\ OneEntryEach(entries)' /\ IsFiniteSet(listings')
    BY <1>0, <2>2, <2>3, FS_RemoveElement DEF CacheInv, OneCallEach, OneEntryEach
  <2>6. LoadIsCalled' /\ modelsLoad' \in CatalogLoad
    BY <1>0, <2>2 DEF CacheInv, LoadIsCalled, OneCallEach, Catalog!Waits, ModelCall,
       CatalogLoad
  <2> QED BY <1>0, <1>a, <2>2, <2>3, <2>4, <2>5, <2>6 DEF CacheKept
<1>6. ASSUME NEW l \in listings, Catalog!Fails(l) PROVE CacheInv'
  BY <1>6, RejectKeeps, <1>0, <1>a DEF Catalog!Fails
<1>7. ASSUME NEW m \in Machine, Catalog!Disconnect(m) PROVE CacheInv'
  BY <1>7, RejectKeeps, <1>0, <1>a DEF Catalog!Disconnect
<1>8. ASSUME NEW m \in Machine, Catalog!Connect(m) \/ Catalog!Upgrade(m) PROVE CacheInv'
  BY <1>0, <1>8, <1>a, <1>b, <1>c DEF Catalog!Connect, Catalog!Upgrade, Catalog!bounds,
     Catalog!pageVars
<1>9. ASSUME NEW i \in 1..CacheSize, Catalog!Expire(i) PROVE CacheInv'
  <2>1. /\ i \in 1..Len(entries) /\ entries' = [entries EXCEPT ![i].fresh = FALSE]
        /\ UNCHANGED <<installed, connected, listings, links, modelsLoad, catalog, favourite,
            online>>
    BY <1>9 DEF Catalog!Expire, Catalog!pageVars, Catalog!bounds
  <2>2. /\ entries' \in Seq(CacheEntry) /\ Len(entries') = Len(entries)
        /\ \A j \in 1..Len(entries) : /\ entries'[j].machine = entries[j].machine
                                      /\ entries'[j].call = entries[j].call
    <3> DEFINE e == [entries[i] EXCEPT !.fresh = FALSE]
    <3>1. e \in CacheEntry /\ e.machine = entries[i].machine /\ e.call = entries[i].call
      <4>1. entries[i] \in CacheEntry
        BY <1>0, <2>1
      <4> QED BY <4>1 DEF CacheEntry
    <3>2. entries' = [entries EXCEPT ![i] = e]
      BY <2>1
    <3> HIDE DEF e
    <3>3. /\ [entries EXCEPT ![i] = e] \in Seq(CacheEntry)
              /\ Len([entries EXCEPT ![i] = e]) = Len(entries)
          /\ \A j \in 1..Len(entries) : [entries EXCEPT ![i] = e][j] = IF j = i THEN e
              ELSE entries[j]
      <4>1. i \in 1..Len(entries) /\ entries \in Seq(CacheEntry) /\ e \in CacheEntry
        BY <1>0, <2>1, <3>1
      <4> QED BY ONLY <4>1, ExceptSeq
    <3> QED BY <3>1, <3>2, <3>3
  <2>3. CacheKept'
    BY <1>0, <2>1, <2>2 DEF CacheKept, CacheInv, OneEntryEach, OneCallEach, PendingIsCalled
  <2> QED BY <1>0, <1>a, <1>c, <2>1, <2>3
<1>10. CASE Catalog!Loaded \/ Catalog!LoadFails
  <2>1. /\ modelsLoad' = Catalog!NoLoad
        /\ UNCHANGED <<installed, connected, entries, listings, links, favourite, online>>
    BY <1>10 DEF Catalog!Loaded, Catalog!LoadFails, Catalog!machineVars, Catalog!bounds
  <2>2. modelsLoad' \in CatalogLoad /\ LoadIsCalled'
    BY <2>1 DEF Catalog!NoLoad, CatalogLoad, Catalog!NoListing, LoadIsCalled
  <2>3. catalog' \in Offer
    <3>1. CASE Catalog!Loaded
      BY <3>1, <1>0 DEF Catalog!Loaded, Offer, CatalogLoad
    <3>2. CASE Catalog!LoadFails
      BY <1>0, <3>2 DEF Catalog!LoadFails
    <3> QED BY <1>10, <3>1, <3>2
  <2> QED BY <1>0, <1>a, <1>b, <2>1, <2>2, <2>3
<1>11. CASE Catalog!Age
  BY <1>11, <1>0, <1>a, <1>b, <1>c DEF Catalog!Age, Catalog!machineVars, Catalog!bounds, Offer
<1>12. CASE Catalog!Switch
  BY <1>12, <1>0, WatchKeeps, <1>a DEF Catalog!Switch, Catalog!machineVars
<1>13. ASSUME NEW m \in Machine, Catalog!MachineShown(m) PROVE CacheInv'
  BY <1>0, <1>13, WatchKeeps, <1>a DEF Catalog!MachineShown, Catalog!machineVars,
     Catalog!bounds
<1>14. CASE Catalog!Refresh
  BY <1>14, <1>0, LoadOfKeeps, <1>a DEF Catalog!Refresh, Catalog!machineVars, Catalog!Works,
     Catalog!Target
<1> QED BY <1>1, <1>2, <1>3, <1>4, <1>5, <1>6, <1>7, <1>8, <1>9, <1>10, <1>11, <1>12, <1>13,
      <1>14 DEF Catalog!Next

LEMMA OfferStep == CatalogInv /\ [Catalog!Next]_Catalog!vars => OfferIsOfMachine'
<1> SUFFICES ASSUME CatalogInv, [Catalog!Next]_Catalog!vars PROVE OfferIsOfMachine'
  OBVIOUS
<1>0. OfferIsOfMachine /\ LoadIsCalled /\ CacheInv
  BY DEF CatalogInv, CacheInv
<1>a. ASSUME UNCHANGED <<modelsSelected, favourite, online, catalog, modelsMissed>>,
     modelsLoad.at # "none" => modelsLoad'.at # "none"
      PROVE  OfferIsOfMachine'
  BY <1>0, <1>a DEF OfferIsOfMachine, Catalog!Target
<1>b. ASSUME NEW m, NEW force \in BOOLEAN, Catalog!LoadOf(m, force), UNCHANGED catalog,
             m = Catalog!Target(modelsSelected, favourite, online)'
      PROVE  OfferIsOfMachine'
  BY <1>0, <1>b DEF OfferIsOfMachine, Catalog!LoadOf, Catalog!NoLoad
<1>c. ASSUME Catalog!Watch, UNCHANGED catalog PROVE OfferIsOfMachine'
  BY <1>b, <1>c, <1>0 DEF Catalog!Target, OfferIsOfMachine, Catalog!Watch, Catalog!Works
<1>1. CASE UNCHANGED Catalog!vars
  BY <1>1, <1>a DEF Catalog!vars, Catalog!pageVars
<1>2. CASE Catalog!Request
  BY <1>2, <1>0, <1>a DEF Catalog!Request, CacheInv, CatalogTyped, CatalogLoad
<1>3. ASSUME NEW m \in Machine, Catalog!Visit(m) \/ Catalog!Connect(m)
        \/ Catalog!Upgrade(m) PROVE OfferIsOfMachine'
  BY <1>3, <1>a DEF Catalog!Visit, Catalog!Connect, Catalog!Upgrade, Catalog!pageVars
<1>4. ASSUME NEW l \in listings, Catalog!Read(l) \/ Catalog!Settle(l) PROVE OfferIsOfMachine'
  BY <1>4, <1>0, <1>a DEF Catalog!Read, Catalog!Settle, Catalog!pageVars, CacheInv,
     CatalogTyped, CatalogLoad
<1>5. ASSUME NEW L, Catalog!Reject(L) PROVE modelsLoad.at # "none" => modelsLoad'.at # "none"
  BY <1>0, <1>5 DEF Catalog!Reject, CacheInv, CatalogTyped, CatalogLoad
<1>6. ASSUME NEW l \in listings, Catalog!Fails(l) PROVE OfferIsOfMachine'
  BY <1>5, <1>6, <1>a DEF Catalog!Fails
<1>7. ASSUME NEW m \in Machine, Catalog!Disconnect(m) PROVE OfferIsOfMachine'
  BY <1>5, <1>7, <1>a DEF Catalog!Disconnect
<1>8. ASSUME NEW i \in 1..CacheSize, Catalog!Expire(i) PROVE OfferIsOfMachine'
  BY <1>8, <1>a DEF Catalog!Expire, Catalog!pageVars
<1>9. CASE Catalog!Loaded
  BY <1>0, <1>9 DEF Catalog!Loaded, LoadIsCalled, OfferIsOfMachine, Catalog!Target
<1>10. CASE Catalog!LoadFails
  BY <1>0, <1>10 DEF Catalog!LoadFails, OfferIsOfMachine
<1>11. CASE Catalog!Age
  BY <1>0, <1>11 DEF Catalog!Age, CacheInv, CatalogTyped, Offer, OfferIsOfMachine,
     Catalog!Target
<1>12. CASE Catalog!Switch
  BY <1>12, <1>c DEF Catalog!Switch
<1>13. ASSUME NEW m \in Machine, Catalog!MachineShown(m) PROVE OfferIsOfMachine'
  BY <1>13, <1>c DEF Catalog!MachineShown
<1>14. CASE Catalog!Refresh
  BY <1>14, <1>b DEF Catalog!Refresh, Catalog!Target
<1> QED BY <1>1, <1>2, <1>3, <1>4, <1>6, <1>7, <1>8, <1>9, <1>10, <1>11, <1>12, <1>13,
      <1>14 DEF Catalog!Next

LEMMA CatalogInvInit == Catalog!Init => CatalogInv
<1> SUFFICES ASSUME Catalog!Init PROVE CatalogInv
  OBVIOUS
<1>1. CatalogTyped
  BY FS_EmptySet DEF Catalog!Init, CatalogTyped, Catalog!NoCatalog, Catalog!NoLoad, Offer,
     CatalogLoad, Catalog!NoListing, CacheEntry, ModelCall
<1>2. OneEntryEach(entries) /\ OneCallEach /\ PendingIsCalled /\ LoadIsCalled
  BY DEF Catalog!Init, OneEntryEach, OneCallEach, PendingIsCalled, LoadIsCalled, Catalog!NoLoad
<1>3. OfferIsOfMachine
  BY DEF Catalog!Init, OfferIsOfMachine, Catalog!NoCatalog
<1> QED BY <1>1, <1>2, <1>3 DEF CatalogInv, CacheInv

LEMMA CatalogInductive == Catalog!Spec => []CatalogInv
<1>1. CatalogInv /\ [Catalog!Next]_Catalog!vars => CatalogInv'
  BY CacheInvStep, OfferStep DEF CatalogInv
<1> QED BY CatalogInvInit, <1>1, PTL DEF Catalog!Spec

LEMMA CatalogFollows == CatalogInv => Catalog!CatalogAgrees /\ Catalog!WaitsForCall
<1> SUFFICES ASSUME CatalogInv PROVE Catalog!CatalogAgrees /\ Catalog!WaitsForCall
  OBVIOUS
<1>1. Catalog!CatalogAgrees
  BY DEF CatalogInv, OfferIsOfMachine, Catalog!CatalogAgrees
<1>2. Catalog!WaitsForCall
  BY DEF CatalogInv, CacheInv, PendingIsCalled, LoadIsCalled, Catalog!WaitsForCall, Catalog!Waits
<1> QED BY <1>1, <1>2

-----------------------------------------------------------------------------
(* The options of the session.                                             *)

Change == [n : Nat, options : Options!Options]
Choice == [id : Nat, field : Options!Field,
    value : Options!Value("model") \cup Options!Value("effort"),
           at : {"asked", "answered"}, whole : Options!Options, row : Change]

OptionsTyped ==
    /\ put \in Change /\ optionsRow \in Change /\ optionsUpdates \in Seq(Change)
    /\ defaults \in Options!Options /\ optionsSelected \in BOOLEAN
    /\ puts \subseteq Choice /\ \A p \in puts : p.value \in Options!Value(p.field)
    /\ wanted \in Options!Options /\ lost \subseteq Options!Field /\ newest \in Nat
        /\ choices \in Nat

ChoicesNumbered ==
    /\ \A p \in puts : p.id <= choices
    /\ \A p, q \in puts : p.id = q.id => p = q

NotNewer(r) == r.n <= put.n /\ (r.n = put.n => r = put)
RowsInOrder ==
    /\ NotNewer(optionsRow) /\ optionsRow.n <= newest /\ newest <= put.n
    /\ \A i \in 1..Len(optionsUpdates) : NotNewer(optionsUpdates[i])
    /\ \A p \in puts : p.at = "answered" => NotNewer(p.row)
    /\ IF optionsUpdates = <<>> THEN newest = put.n ELSE optionsUpdates[Len(optionsUpdates)] = put

AskedFor(f) == {p \in puts : p.field = f /\ p.at = "asked"}
LastIsWanted ==
    \A f \in Options!Field \ lost :
        /\ AskedFor(f) = {} => put.options[f] = wanted[f]
        /\ \A p \in AskedFor(f) : (\A q \in AskedFor(f) : q.id <= p.id) => p.value = wanted[f]

OptionsInv == OptionsTyped /\ ChoicesNumbered /\ RowsInOrder /\ LastIsWanted

LEMMA OptionsPatched ==
    ASSUME NEW o \in Options!Options, NEW f \in Options!Field, NEW v \in Options!Value(f), NEW w,
             w = [o EXCEPT ![f] = v]
    PROVE  w \in Options!Options /\ w[f] = v /\ \A g \in Options!Field : g # f => w[g] = o[g]
<1>1. CASE f = "model"
  BY <1>1 DEF Options!Options, Options!Field, Options!Value
<1>2. CASE f = "effort"
  BY <1>2 DEF Options!Options, Options!Field, Options!Value
<1> QED BY <1>1, <1>2 DEF Options!Field

LEMMA OptionsInvInit == Options!Init => OptionsInv
<1> SUFFICES ASSUME Options!Init PROVE OptionsInv
  OBVIOUS
<1>1. OptionsTyped
  <2>1. Options!NoOptions \in Options!Options
    BY DEF Options!NoOptions, Options!Options, Options!Value
  <2>2. [n |-> 0, options |-> Options!NoOptions] \in Change
    BY <2>1 DEF Change
  <2>3. put \in Change /\ optionsRow \in Change /\ optionsUpdates \in Seq(Change) /\ puts = {}
    BY <2>2 DEF Options!Init
  <2>4. wanted \in Options!Options /\ defaults \in Options!Options
          /\ optionsSelected \in BOOLEAN /\ lost \subseteq Options!Field
        /\ newest \in Nat /\ choices \in Nat
    BY <2>1 DEF Options!Init
  <2> QED BY <2>3, <2>4 DEF OptionsTyped
<1>2. ChoicesNumbered /\ RowsInOrder
  BY DEF Options!Init, ChoicesNumbered, RowsInOrder, NotNewer
<1>3. LastIsWanted
  BY DEF Options!Init, LastIsWanted, Options!NoOptions, Options!Field, AskedFor
<1> QED BY <1>1, <1>2, <1>3 DEF OptionsInv

LEMMA OptionsTypedStep == OptionsInv /\ [Options!Next]_Options!vars => OptionsTyped'
<1> SUFFICES ASSUME OptionsInv, [Options!Next]_Options!vars PROVE OptionsTyped'
  OBVIOUS
<1> USE DEF OptionsInv
<1>0. \A q \in puts : q \in Choice /\ q.value \in Options!Value(q.field)
  BY DEF OptionsTyped
<1>1. CASE UNCHANGED Options!vars
  BY <1>1 DEF OptionsTyped, Options!vars
<1>2. CASE Options!Select
  BY <1>2 DEF Options!Select, OptionsTyped
<1>3. CASE Options!Upsert
  <2>1. Head(optionsUpdates) \in Change /\ Tail(optionsUpdates) \in Seq(Change)
    BY <1>3 DEF Options!Upsert, OptionsTyped
  <2>2. Options!Larger(newest, Head(optionsUpdates).n) \in Nat
    BY <2>1 DEF Options!Larger, OptionsTyped, Change
  <2> QED BY <1>3, <2>1, <2>2 DEF Options!Upsert, OptionsTyped
<1>4. ASSUME NEW f \in Options!Field, NEW v \in Options!Value(f), Options!Choose(f, v)
        PROVE OptionsTyped'
  <2>1. choices' \in Nat /\ lost' \subseteq Options!Field
    BY <1>4 DEF Options!Choose, OptionsTyped
  <2>2. wanted' \in Options!Options /\ defaults' \in Options!Options
    BY <1>4, OptionsPatched DEF Options!Choose, OptionsTyped
  <2>3. [optionsRow.options EXCEPT ![f] = v] \in Options!Options
    BY OptionsPatched DEF OptionsTyped, Change
  <2>4. v \in Options!Value("model") \cup Options!Value("effort")
    BY DEF Options!Field
  <2>5. puts' \subseteq Choice /\ \A p \in puts' : p.value \in Options!Value(p.field)
    BY <2>3, <2>4, <1>4, <1>0 DEF Choice, OptionsTyped, Options!Choose
  <2> QED BY <1>4, <2>1, <2>2, <2>5 DEF Options!Choose, OptionsTyped
<1>5. ASSUME NEW f \in Options!Field, NEW v \in Options!Value(f), Options!Elsewhere(f, v)
        PROVE OptionsTyped'
  BY OptionsPatched, <1>5 DEF OptionsTyped, Change, Options!Elsewhere
<1>6. ASSUME NEW p \in puts, Options!Put(p) PROVE OptionsTyped'
  <2>0. p \in Choice /\ p.value \in Options!Value(p.field)
    BY <1>0
  <2>1. put' \in Change
    BY <2>0, OptionsPatched, <1>6 DEF OptionsTyped, Change, Choice, Options!Put,
       Options!Patched
  <2>2. optionsUpdates' \in Seq(Change)
    BY <1>6, <2>1 DEF Options!Put, OptionsTyped
  <2>3. puts' \subseteq Choice /\ \A q \in puts' : q.value \in Options!Value(q.field)
    BY <2>0, <2>1, <1>6, <1>0 DEF Choice, Options!Put
  <2>4. lost' \subseteq Options!Field
    BY <1>6, <2>0 DEF Options!Put, OptionsTyped, Choice
  <2> QED BY <1>6, <2>1, <2>2, <2>3, <2>4 DEF Options!Put, OptionsTyped
<1>7. ASSUME NEW p \in puts, Options!PutFails(p) PROVE OptionsTyped'
  BY <1>7, <1>0 DEF Options!PutFails, OptionsTyped, Choice
<1>8. ASSUME NEW p \in puts, Options!PutAnswered(p) PROVE OptionsTyped'
  BY <1>0, <1>8 DEF Choice, Options!Larger, OptionsTyped, Change, Options!PutAnswered
<1> QED BY <1>1, <1>2, <1>3, <1>4, <1>5, <1>6, <1>7, <1>8 DEF Options!Next

LEMMA ChoicesNumberedStep == OptionsInv /\ [Options!Next]_Options!vars => ChoicesNumbered'
<1> SUFFICES ASSUME OptionsInv, [Options!Next]_Options!vars PROVE ChoicesNumbered'
  OBVIOUS
<1> USE DEF OptionsInv
<1>0. choices \in Nat /\ \A q \in puts : q \in Choice
  BY DEF OptionsTyped
<1>1. CASE UNCHANGED Options!vars
  BY <1>1 DEF ChoicesNumbered, Options!vars
<1>2. CASE Options!Select \/ Options!Upsert
  BY <1>2 DEF Options!Select, Options!Upsert, ChoicesNumbered
<1>4. ASSUME NEW f \in Options!Field, NEW v \in Options!Value(f), Options!Choose(f, v)
        PROVE ChoicesNumbered'
  BY <1>4, <1>0 DEF Options!Choose, ChoicesNumbered, Choice
<1>5. ASSUME NEW f \in Options!Field, NEW v \in Options!Value(f), Options!Elsewhere(f, v)
        PROVE ChoicesNumbered'
  BY <1>5, <1>0 DEF Options!Elsewhere, ChoicesNumbered, Choice
<1>6. ASSUME NEW p \in puts, Options!Put(p) PROVE ChoicesNumbered'
  <2> DEFINE new == [p EXCEPT !.at = "answered", !.row = put']
  <2>1. new.id = p.id
    BY <1>0 DEF Choice
  <2>2. choices' = choices /\ puts' = (puts \ {p}) \cup {new}
    BY <1>6 DEF Options!Put
  <2> HIDE DEF new
  <2> QED BY <1>0, <2>1, <2>2 DEF ChoicesNumbered
<1>7. ASSUME NEW p \in puts, Options!PutFails(p) \/ Options!PutAnswered(p) PROVE ChoicesNumbered'
  BY <1>7 DEF Options!PutFails, Options!PutAnswered, ChoicesNumbered
<1> QED BY <1>1, <1>2, <1>4, <1>5, <1>6, <1>7 DEF Options!Next

LEMMA RowsInOrderStep == OptionsInv /\ [Options!Next]_Options!vars => RowsInOrder'
<1> SUFFICES ASSUME OptionsInv, [Options!Next]_Options!vars PROVE RowsInOrder'
  OBVIOUS
<1> USE DEF OptionsInv
<1>0. /\ put \in Change /\ optionsRow \in Change /\ optionsUpdates \in Seq(Change)
          /\ newest \in Nat
      /\ \A q \in puts : q \in Choice
  BY DEF OptionsTyped
<1>1. CASE UNCHANGED Options!vars
  BY <1>1 DEF RowsInOrder, NotNewer, Options!vars
<1>2. CASE Options!Select
  BY <1>2 DEF Options!Select, RowsInOrder, NotNewer
<1>3. CASE Options!Upsert
  <2>1. /\ optionsUpdates # <<>> /\ optionsUpdates' = Tail(optionsUpdates)
            /\ optionsRow' = Head(optionsUpdates)
        /\ newest' = Options!Larger(newest, Head(optionsUpdates).n) /\ put' = put /\ puts' = puts
    BY <1>3 DEF Options!Upsert
  <2>2. Head(optionsUpdates) = optionsUpdates[1] /\ 1 \in 1..Len(optionsUpdates)
          /\ optionsUpdates[1] \in Change
    BY <1>0, <2>1
  <2>3. /\ Len(optionsUpdates') = Len(optionsUpdates) - 1
        /\ \A i \in 1..Len(optionsUpdates') : optionsUpdates'[i] = optionsUpdates[i + 1]
            /\ i + 1 \in 1..Len(optionsUpdates)
    BY <1>0, <2>1
  <2>4. NotNewer(optionsUpdates[1]) /\ optionsUpdates[Len(optionsUpdates)] = put
    BY <2>1, <2>2 DEF RowsInOrder
  <2>5. /\ NotNewer(optionsRow)' /\ optionsRow'.n <= newest' /\ newest' <= put'.n
    BY <1>0, <2>1, <2>2, <2>4 DEF RowsInOrder, NotNewer, Options!Larger, Change
  <2>6. \A i \in 1..Len(optionsUpdates') : NotNewer(optionsUpdates[i])'
    BY <2>1, <2>3 DEF RowsInOrder, NotNewer
  <2>7. CASE optionsUpdates' = <<>>
    <3>1. Len(optionsUpdates) = 1
      BY <2>7, <1>0, <2>3
    <3>2. newest' = put'.n
      BY <1>0, <2>1, <2>2, <2>4, <3>1 DEF RowsInOrder, Options!Larger, Change
    <3> QED BY <2>1, <2>5, <2>6, <2>7, <3>2 DEF RowsInOrder, NotNewer
  <2>8. CASE optionsUpdates' # <<>>
    BY <1>0, <2>1, <2>3, <2>4, <2>8, <2>5, <2>6 DEF RowsInOrder, NotNewer
  <2> QED BY <2>7, <2>8
<1>4. ASSUME NEW f \in Options!Field, NEW v \in Options!Value(f), Options!Choose(f, v)
        PROVE RowsInOrder'
  BY <1>4 DEF Options!Choose, RowsInOrder, NotNewer
<1>5. ASSUME NEW u, u = put', put'.n = put.n + 1, put' \in Change,
        optionsUpdates' = Append(optionsUpdates, put'),
             optionsRow' = optionsRow, newest' = newest,
             \A q \in puts' : q.at = "answered" => q.row = put' \/ q \in puts
      PROVE RowsInOrder'
  <2>1. \A r \in Change : NotNewer(r) => NotNewer(r)'
    BY <1>0, <1>5 DEF NotNewer, Change
  <2>2. /\ Len(optionsUpdates') = Len(optionsUpdates) + 1
            /\ optionsUpdates'[Len(optionsUpdates')] = put'
        /\ \A i \in 1..Len(optionsUpdates) : optionsUpdates'[i] = optionsUpdates[i]
            /\ optionsUpdates[i] \in Change
    BY <1>0, <1>5
  <2>3. NotNewer(put)'
    BY <1>5 DEF NotNewer, Change
  <2>4. \A i \in 1..Len(optionsUpdates') : NotNewer(optionsUpdates[i])'
    BY <2>2, <2>3, <2>1, <1>0 DEF NotNewer, RowsInOrder
  <2>5. NotNewer(optionsRow)' /\ optionsRow'.n <= newest' /\ newest' <= put'.n
    BY <1>0, <1>5, <2>1 DEF RowsInOrder, NotNewer, Change
  <2>6. \A q \in puts' : q.at = "answered" => NotNewer(q.row)'
    BY <2>3, <1>0, <2>1, <1>5 DEF NotNewer, RowsInOrder, Choice
  <2>7. optionsUpdates' # <<>>
    BY <1>0, <2>2
  <2> QED BY <2>2, <2>4, <2>5, <2>6, <2>7 DEF RowsInOrder
<1>6. ASSUME NEW f \in Options!Field, NEW v \in Options!Value(f), Options!Elsewhere(f, v)
        PROVE RowsInOrder'
  BY <1>6, OptionsTypedStep, <1>5 DEF OptionsTyped, Options!Elsewhere
<1>7. ASSUME NEW p \in puts, Options!Put(p) PROVE RowsInOrder'
  BY <1>7, OptionsTypedStep, <1>0, <1>5 DEF OptionsTyped, Options!Put, Choice
<1>8. ASSUME NEW p \in puts, Options!PutFails(p) PROVE RowsInOrder'
  BY <1>8 DEF Options!PutFails, RowsInOrder, NotNewer
<1>9. ASSUME NEW p \in puts, Options!PutAnswered(p) PROVE RowsInOrder'
  BY <1>0, <1>9 DEF RowsInOrder, Options!PutAnswered, Choice, NotNewer, Options!Larger, Change
<1> QED BY <1>1, <1>2, <1>3, <1>4, <1>6, <1>7, <1>8, <1>9 DEF Options!Next

LEMMA LastIsWantedStep == OptionsInv /\ [Options!Next]_Options!vars => LastIsWanted'
<1> SUFFICES ASSUME OptionsInv, [Options!Next]_Options!vars PROVE LastIsWanted'
  OBVIOUS
<1> USE DEF OptionsInv
<1>0. /\ put \in Change /\ optionsRow \in Change /\ wanted \in Options!Options /\ choices \in Nat
      /\ \A q \in puts : q \in Choice /\ q.value \in Options!Value(q.field) /\ q.id \in Nat
          /\ q.id <= choices
  BY DEF OptionsTyped, ChoicesNumbered, Choice
<1>1. CASE UNCHANGED Options!vars
  BY <1>1 DEF LastIsWanted, AskedFor, Options!vars
<1>2. CASE Options!Select \/ Options!Upsert
  BY <1>2 DEF Options!Select, Options!Upsert, LastIsWanted, AskedFor
<1>4. ASSUME NEW f \in Options!Field, NEW v \in Options!Value(f), Options!Choose(f, v)
        PROVE LastIsWanted'
  <2> DEFINE new == [id |-> choices + 1, field |-> f, value |-> v, at |-> "asked",
                     whole |-> [optionsRow.options EXCEPT ![f] = v], row |-> put]
  <2>0. new.at = "asked" /\ new.field = f /\ new.value = v /\ new.id = choices + 1
    OBVIOUS
  <2>1. put' = put /\ lost \subseteq lost'
    BY <1>4 DEF Options!Choose
  <2>2. optionsSelected => wanted' = [wanted EXCEPT ![f] = v]
    BY <1>4 DEF Options!Choose
  <2>3. optionsSelected => wanted'[f] = v /\ \A g \in Options!Field : g # f =>
          wanted'[g] = wanted[g]
    BY <1>0, <2>2, OptionsPatched
  <2>4. \A g \in Options!Field : g # f => AskedFor(g)' = AskedFor(g)
    BY <1>4, <2>0 DEF Options!Choose, AskedFor
  <2>5. CASE ~optionsSelected
    BY <1>4, <2>5 DEF Options!Choose, LastIsWanted, AskedFor
  <2>6. CASE optionsSelected /\ v = Options!Current[f] /\ puts' = puts /\ f \notin lost'
    BY <1>4, <2>6, <2>3, <2>1, <2>4 DEF Options!Choose, AskedFor, LastIsWanted
  <2>7. CASE f \in lost'
    BY <2>1, <2>3, <2>4, <2>5, <2>7 DEF LastIsWanted
  <2>8. CASE optionsSelected /\ v # Options!Current[f]
    <3>1. wanted'[f] = v /\ puts' = puts \cup {new}
      BY <1>4, <2>3, <2>8 DEF Options!Choose
    <3> HIDE DEF new
    <3>2. new \in AskedFor(f)'
      BY <2>0, <3>1 DEF AskedFor
    <3>3. \A p \in AskedFor(f)' : p # new => p.id < new.id
      BY <1>0, <2>0, <3>1 DEF AskedFor
    <3>4. \A p \in AskedFor(f)' : (\A q \in AskedFor(f)' : q.id <= p.id) => p.value = wanted'[f]
      BY <2>0, <3>1, <3>2, <1>0, <3>3 DEF AskedFor
    <3> QED BY <2>8, <2>1, <2>3, <2>4, <3>2, <3>4 DEF LastIsWanted
  <2> QED BY <1>4, <2>5, <2>6, <2>7, <2>8 DEF Options!Choose
<1>5. ASSUME NEW f \in Options!Field, NEW v \in Options!Value(f), Options!Elsewhere(f, v)
        PROVE LastIsWanted'
  BY <1>0, <1>5, OptionsPatched DEF Options!Elsewhere, Change, LastIsWanted, AskedFor
<1>6. ASSUME NEW p \in puts, Options!Put(p) PROVE LastIsWanted'
  <2> DEFINE new == [p EXCEPT !.at = "answered", !.row = put']
  <2>0. p.field \in Options!Field /\ p.at = "asked"
    BY <1>0, <1>6 DEF Choice, Options!Put
  <2>1. new.at = "answered"
    BY <1>0 DEF Choice
  <2>2. puts' = (puts \ {p}) \cup {new} /\ wanted' = wanted /\ lost \subseteq lost'
    BY <1>6 DEF Options!Put
  <2> HIDE DEF new
  <2>3. \A g \in Options!Field : AskedFor(g)' = AskedFor(g) \ {p}
    BY <2>1, <2>2 DEF AskedFor
  <2>4. put'.options[p.field] = p.value
        /\ \A g \in Options!Field : g # p.field => put'.options[g] = put.options[g]
            /\ AskedFor(g)' = AskedFor(g)
    BY <1>6, <1>0, <2>0, <2>3 DEF Options!Put, Options!Patched, AskedFor, Change,
       Options!Options, Options!Field
  <2>5. ASSUME p.field \notin lost'
        PROVE  /\ AskedFor(p.field)' = {} => p.value = wanted[p.field]
               /\ \A q \in AskedFor(p.field)' :
                     (\A r \in AskedFor(p.field)' : r.id <= q.id) => q.value = wanted[p.field]
    BY <1>0, <1>6, <2>5, <2>0, <2>2, <2>3 DEF Options!Put, Options!Same, AskedFor,
       ChoicesNumbered, LastIsWanted
  <2> QED BY <2>0, <2>2, <2>4, <2>5 DEF LastIsWanted
<1>7. ASSUME NEW p \in puts, Options!PutFails(p) PROVE LastIsWanted'
  BY <1>7 DEF Options!PutFails, AskedFor, LastIsWanted
<1>8. ASSUME NEW p \in puts, Options!PutAnswered(p) PROVE LastIsWanted'
  BY <1>8 DEF Options!PutAnswered, LastIsWanted, AskedFor
<1> QED BY <1>1, <1>2, <1>4, <1>5, <1>6, <1>7, <1>8 DEF Options!Next

LEMMA OptionsInductive == Options!Spec => []OptionsInv
<1>1. OptionsInv /\ [Options!Next]_Options!vars => OptionsInv'
  BY OptionsTypedStep, ChoicesNumberedStep, RowsInOrderStep, LastIsWantedStep DEF OptionsInv
<1> QED BY OptionsInvInit, <1>1, PTL DEF Options!Spec

LEMMA OptionsFollow == OptionsInv => Options!OptionsAgree
<1> SUFFICES ASSUME OptionsInv, puts = {}, optionsUpdates = <<>>
             PROVE  /\ \A f \in Options!Field \ lost : put.options[f] = wanted[f]
                    /\ optionsRow.n = newest => optionsRow = put
  BY DEF Options!OptionsAgree
<1>1. \A f \in Options!Field : AskedFor(f) = {}
  BY DEF AskedFor
<1> QED BY <1>1 DEF OptionsInv, LastIsWanted, RowsInOrder, NotNewer

-----------------------------------------------------------------------------
(* The stream.                                                             *)

\* Numbers are those of the present process of the host, if they are not older.
Numbered ==
    /\ nextSseId <= MaxIds + streamConnects /\ streamConnects <= MaxStreams
    /\ \A i \in 1..Len(streamFrames) : streamFrames[i].sseId \in 1..nextSseId
    /\ cursor.boot <= boot /\ (cursor.boot = boot => cursor.sseId <= nextSseId)
    /\ sourceId.boot <= boot /\ (sourceId.boot = boot => sourceId.sseId <= nextSseId)
    /\ behind <= nextSseId

\* The history has its envelopes in the order of their numbers and of their changes, and with
\* a change it has all later ones.
HistoryInOrder ==
    /\ \A h \in 1..Len(history) :
          history[h].sseId \in 1..nextSseId /\ history[h].change <= streamChanges
    /\ \A g, h \in 1..Len(history) : g < h => history[g].sseId < history[h].sseId
    /\ \A g, h \in 1..Len(history) :
          g < h /\ history[g].change # Stream!Other /\ history[h].change # Stream!Other =>
              history[g].change < history[h].change
    /\ \A h \in 1..Len(history) : history[h].change # Stream!Other =>
          \A m \in history[h].change..streamChanges : \E g \in 1..Len(history) :
              history[g].change = m

\* The handshake comes first, and nothing on the page or on its way is of a change that was
\* not made.
IsHandshake(i) == streamFrames[i].type \in {"snapshot", "hello"}
IsEvent(i) == streamFrames[i].type = "event"
StreamFramesAreOf ==
    /\ \A i \in 2..Len(streamFrames) : ~IsHandshake(i)
    /\ \A i \in 1..Len(streamFrames) : /\ streamFrames[i].change <= streamChanges
                                       /\ IsEvent(i) => streamFrames[i].change # Stream!Other
    /\ \A k \in Stream!Change : seen[k] >= 1 => k <= streamChanges
    /\ sourceId.sseId = 0 /\ source # "none" => url = cursor
    /\ streamFrames # <<>> /\ IsHandshake(1) /\ cursor.boot = boot =>
        cursor.sseId < streamFrames[1].sseId

\* What the page has when it has read the frames up to the i-th.
Renews == streamFrames # <<>> /\ streamFrames[1].type = "snapshot"
Base(k) == IF Renews THEN k <= streamFrames[1].change ELSE seen[k] >= 1
InFrames(k, i) == \E h \in 1..i : IsEvent(h) /\ streamFrames[h].change = k
ByThen(k, i) == Base(k) \/ InFrames(k, i)

\* A resumption behind x brings change k, or there is none behind x.
InHistory(k, x) == \E h \in 1..Len(history) : history[h].change = k /\ history[h].sseId > x
Missing(k, x) ==
    HistorySize = 0 \/ (history # <<>> /\ history[1].sseId > x + 1) \/ InHistory(k, x)

After(i, x) == \A k \in 1..streamChanges : ByThen(k, i) \/ Missing(k, x)
Rests(x) == \A k \in 1..streamChanges : seen[k] >= 1 \/ Missing(k, x)
Reaches(c) == c.boot = boot /\ (behind = 0 \/ c.sseId < behind) => Rests(c.sseId)

\* A page without a gap can resume with the numbers that it has.
Sound == hasSnapshot /\ skipped = {}
PageSound == Sound => Stream!InOrder /\ Reaches(cursor) /\ Reaches(sourceId)

\* So can it with the numbers of the frames on their way, once it has read so far; and
\* on a connection that is up the frames bring all that it has not.
FramesInOrder ==
    \A i \in 1..Len(streamFrames) : IsEvent(i) => \A j \in 1..streamFrames[i].change :
        ByThen(j, i)
FramesBringAll == client = "active" => \A k \in 1..streamChanges : ByThen(k, Len(streamFrames))
FramesReach ==
    \A i \in 1..Len(streamFrames) :
        ~(streamFrames[i].type = "hello" /\ streamFrames[i].rest > 0) =>
        After(i, streamFrames[i].sseId)
FramesSettle ==
    \A i \in 1..Len(streamFrames) : streamFrames[i].rest = 0 =>
        /\ \A h \in 1..i : After(i, streamFrames[h].sseId)
        /\ cursor.boot = boot => After(i, cursor.sseId)
FramesSound ==
    Renews \/ Sound => FramesInOrder /\ FramesBringAll /\ FramesReach /\ FramesSettle

\* The history behind the numbers of the page has nothing that the page has.
Unseen(x) == \A h \in 1..Len(history) :
    history[h].sseId > x /\ history[h].change # Stream!Other => seen[history[h].change] = 0
PageOnce ==
    ~overlaid => /\ \A k \in Stream!Change : seen[k] <= 1
                 /\ cursor.sseId > 0 => Unseen(cursor.sseId)
                 /\ sourceId.sseId > 0 => Unseen(sourceId.sseId)
Overlays == IF Renews THEN streamFrames[1].rest > 0 ELSE overlaid
FramesOnce ==
    ~Overlays => \A i \in 1..Len(streamFrames) :
        /\ IsEvent(i) => ~ByThen(streamFrames[i].change, i - 1)
        /\ \A h \in 1..Len(history) :
              history[h].sseId > streamFrames[i].sseId /\ history[h].change # Stream!Other =>
                  ~ByThen(history[h].change, i)

StreamTyped == Stream!TypeOK /\ Numbered /\ HistoryInOrder /\ StreamFramesAreOf
StreamInv == StreamTyped /\ PageSound /\ FramesSound /\ PageOnce /\ FramesOnce

LEMMA StreamFollows == StreamInv => Stream!Complete /\ Stream!InOrder /\ Stream!AppliedOnce
<1> SUFFICES ASSUME StreamInv PROVE Stream!Complete /\ Stream!InOrder /\ Stream!AppliedOnce
  OBVIOUS
<1>1. ASSUME Stream!UpToDate, skipped = {} PROVE Stream!Gapless
  <2>1. ~Renews /\ Sound /\ FramesBringAll /\ Len(streamFrames) = 0
    BY <1>1 DEF StreamInv, Stream!UpToDate, Renews, Sound, FramesSound
  <2> SUFFICES ASSUME NEW k \in 1..streamChanges PROVE seen[k] >= 1
    BY DEF Stream!Gapless
  <2>2. ByThen(k, 0)
    BY <1>1, <2>1 DEF FramesBringAll, Stream!UpToDate
  <2> QED BY <2>1, <2>2 DEF ByThen, Base, InFrames
<1>2. Stream!InOrder
  BY DEF StreamInv, PageSound, Sound, Stream!InOrder
<1>3. Stream!AppliedOnce
  BY DEF StreamInv, PageOnce, Stream!AppliedOnce
<1> QED BY <1>1, <1>2, <1>3 DEF Stream!Complete

LEMMA StreamTypes ==
    ASSUME Stream!TypeOK
    PROVE  /\ boot \in Nat \ {0} /\ nextSseId \in Nat /\ streamChanges \in Nat
           /\ streamChanges <= MaxChanges
           /\ \A h \in 1..Len(history) : history[h].sseId \in Nat /\ history[h].change \in Nat
           /\ Len(history) \in Nat /\ Len(streamFrames) \in Nat
           /\ \A i \in 1..Len(streamFrames) : /\ streamFrames[i].sseId \in Nat
                                              /\ streamFrames[i].change \in Nat
                                              /\ streamFrames[i].rest \in Nat
           /\ cursor.sseId \in Nat /\ sourceId.sseId \in Nat /\ behind \in Nat
           /\ \A k \in 1..streamChanges : k \in Stream!Change /\ seen[k] \in Nat
           /\ \A k \in Stream!Change : k \in Nat /\ seen[k] \in Nat
           /\ \A n \in Nat : n <= MaxIds + MaxStreams => n \in Stream!Id
<1>0. \A n \in Nat : n <= MaxIds + MaxStreams => n \in Stream!Id
  BY MCWebAssumption DEF Stream!Id
<1>1. (\A x \in Stream!Id : x \in Nat) /\ (\A x \in Stream!Change : x \in Nat)
  BY MCWebAssumption DEF Stream!Id, Stream!Change
<1>2. /\ \A h \in 1..Len(history) : history[h] \in Stream!Entry
      /\ \A i \in 1..Len(streamFrames) : streamFrames[i] \in Stream!Frame
  BY DEF Stream!TypeOK
<1>3. \A h \in 1..Len(history) : history[h].sseId \in Nat /\ history[h].change \in Nat
  BY ONLY <1>1, <1>2 DEF Stream!Entry, Stream!Other
<1>4. \A i \in 1..Len(streamFrames) : /\ streamFrames[i].sseId \in Nat
                                      /\ streamFrames[i].change \in Nat
                                      /\ streamFrames[i].rest \in Nat
  BY <1>1, MCWebAssumption, <1>2 DEF Stream!Frame
<1>5. cursor.sseId \in Nat /\ sourceId.sseId \in Nat /\ behind \in Nat
  BY <1>1 DEF Stream!TypeOK, Stream!Cursor
<1>6. /\ boot \in Nat \ {0} /\ nextSseId \in Nat /\ streamChanges \in Nat
      /\ streamChanges <= MaxChanges
      /\ Len(history) \in Nat /\ Len(streamFrames) \in Nat
  BY <1>1, MCWebAssumption DEF Stream!TypeOK
<1>7. \A k \in Stream!Change : k \in Nat /\ seen[k] \in Nat
  BY <1>1 DEF Stream!TypeOK
<1>8. \A k \in 1..streamChanges : k \in Stream!Change
  BY <1>6, MCWebAssumption DEF Stream!Change
<1> QED BY <1>0, <1>3, <1>4, <1>5, <1>6, <1>7, <1>8

LEMMA StreamInit == Stream!Init => StreamInv
<1> SUFFICES ASSUME Stream!Init PROVE StreamInv
  OBVIOUS
<1>1. Stream!TypeOK
  <2>1. 0 \in Stream!Id /\ 0 \in 0..MaxBoots /\ 1 \in 1..MaxBoots /\ 0 \in 0..MaxChanges
    BY MCWebAssumption DEF Stream!Id
  <2>2. Stream!NoId \in Stream!Cursor
    BY <2>1 DEF Stream!NoId, Stream!Cursor
  <2>3. <<>> \in Seq(Stream!Entry) /\ Len(<<>>) <= HistorySize /\ <<>> \in Seq(Stream!Frame)
    BY MCWebAssumption
  <2>4. [k \in Stream!Change |-> 0] \in [Stream!Change -> Nat]
    OBVIOUS
  <2> QED BY <2>1, <2>2, <2>3, <2>4 DEF Stream!Init, Stream!TypeOK
<1>2. Numbered /\ HistoryInOrder
  BY MCWebAssumption DEF Stream!Init, Numbered, HistoryInOrder, Stream!NoId
<1>3. StreamFramesAreOf
  BY MCWebAssumption DEF Stream!Init, StreamFramesAreOf, Stream!Change
<1>4. PageSound /\ FramesSound
  BY DEF Stream!Init, PageSound, FramesSound, Sound, Renews
<1>5. PageOnce /\ FramesOnce
  BY MCWebAssumption DEF Stream!Init, PageOnce, FramesOnce, Unseen, Stream!NoId, Stream!Change
<1> QED BY <1>1, <1>2, <1>3, <1>4, <1>5 DEF StreamInv, StreamTyped

\* A set that has zero and with a number the next has every number.
LEMMA EveryNumber ==
    ASSUME NEW S, 0 \in S, \A n \in Nat : n \in S => n + 1 \in S
    PROVE  Nat \subseteq S
<1> DEFINE T == Nat \ S
<1> SUFFICES ASSUME T # {} PROVE FALSE
  OBVIOUS
<1>1. PICK k \in T : \A m \in T : k <= m
  BY SmallestNumber
<1>2. k \in Nat /\ k # 0 /\ k \notin S
  OBVIOUS
<1>3. k - 1 \in Nat /\ ~(k <= k - 1) /\ (k - 1) + 1 = k
  BY <1>2
<1>4. k - 1 \in S
  BY <1>1, <1>3
<1> QED BY <1>2, <1>3, <1>4

\* The replay of the history behind x has its envelopes for this page, each once and in order.
Wanted(x, n) == x > 0 /\ history[n].sseId > x /\ history[n].change # Stream!Other
Next1(g, x, n) == IF Wanted(x, n) THEN Append(g, history[n]) ELSE g
Keeps(g, x, n) == g = [m \in 0..n |-> IF m = 0 THEN <<>> ELSE Next1(g[m - 1], x, m)]
Places(s, x, n, p) ==
    /\ \A i \in 1..Len(s) : p[i] \in 1..n /\ s[i] = history[p[i]] /\ Wanted(x, p[i])
    /\ \A i, j \in 1..Len(s) : i < j => p[i] < p[j]
    /\ \A h \in 1..n : Wanted(x, h) => \E i \in 1..Len(s) : p[i] = h
Picks(s, x, n) == s \in Seq(Stream!Entry) /\ \E p \in [1..Len(s) -> Nat] : Places(s, x, n, p)

LEMMA KeptExists ==
    ASSUME NEW x \in Nat, NEW n \in Nat
    PROVE  \E g : Keeps(g, x, n)
<1> DEFINE S == {m \in Nat : \E g : Keeps(g, x, m)}
<1>1. 0 \in S
  <2>1. Keeps([m \in 0..0 |-> <<>>], x, 0)
    BY DEF Keeps
  <2> QED BY <2>1
<1>2. ASSUME NEW m \in Nat, m \in S PROVE m + 1 \in S
  <2>1. PICK g : Keeps(g, x, m)
    BY <1>2
  <2> DEFINE w == [k \in 0..(m + 1) |-> IF k = m + 1 THEN Next1(g[m], x, m + 1) ELSE g[k]]
  <2>2. \A k \in 0..m : w[k] = g[k]
    OBVIOUS
  <2>3. \A k \in 0..(m + 1) : w[k] = IF k = 0 THEN <<>> ELSE Next1(w[k - 1], x, k)
    BY <2>2, <2>1 DEF Keeps
  <2>4. Keeps(w, x, m + 1)
    BY <2>3 DEF Keeps
  <2> QED BY <2>4
<1>3. n \in S
  <2> HIDE DEF S
  <2> QED BY <1>1, <1>2, EveryNumber
<1> QED BY <1>3

LEMMA PicksNext ==
    ASSUME history \in Seq(Stream!Entry), NEW x \in Nat, NEW n \in Nat, n + 1 <= Len(history),
           NEW s, Picks(s, x, n)
    PROVE  Picks(Next1(s, x, n + 1), x, n + 1)
<1>1. PICK p \in [1..Len(s) -> Nat] : Places(s, x, n, p)
  BY DEF Picks
<1>2. s \in Seq(Stream!Entry) /\ Len(s) \in Nat
  BY DEF Picks
<1>3. CASE ~Wanted(x, n + 1)
  <2>1. Next1(s, x, n + 1) = s
    BY <1>3 DEF Next1
  <2>2. Places(s, x, n + 1, p)
    BY <1>1, <1>2, <1>3 DEF Places
  <2> QED BY <1>2, <2>1, <2>2 DEF Picks
<1>4. CASE Wanted(x, n + 1)
  <2> DEFINE w == Append(s, history[n + 1])
             q == [i \in 1..(Len(s) + 1) |-> IF i = Len(s) + 1 THEN n + 1 ELSE p[i]]
  <2>1. Next1(s, x, n + 1) = w
    BY <1>4 DEF Next1
  <2>2. /\ w \in Seq(Stream!Entry) /\ Len(w) = Len(s) + 1
        /\ w[Len(s) + 1] = history[n + 1] /\ \A i \in 1..Len(s) : w[i] = s[i]
    BY <1>2
  <2>3. q \in [1..Len(w) -> Nat] /\ q[Len(s) + 1] = n + 1 /\ \A i \in 1..Len(s) : q[i] = p[i]
    BY <1>2, <2>2
  <2> HIDE DEF w, q
  <2>4. \A i \in 1..Len(w) : i = Len(s) + 1 \/ i \in 1..Len(s)
    BY <1>2, <2>2
  <2>5. \A i \in 1..Len(w) : q[i] \in 1..(n + 1) /\ w[i] = history[q[i]] /\ Wanted(x, q[i])
    BY <1>4, <2>2, <2>3, <1>1, <2>4 DEF Places
  <2>6. \A i, j \in 1..Len(w) : i < j => q[i] < q[j]
    BY <1>2, <2>2, <1>1, <2>3, <2>4 DEF Places
  <2>7. \A h \in 1..(n + 1) : Wanted(x, h) => \E i \in 1..Len(w) : q[i] = h
    <3> SUFFICES ASSUME NEW h \in 1..(n + 1), Wanted(x, h) PROVE \E i \in 1..Len(w) : q[i] = h
      OBVIOUS
    <3>1. CASE h = n + 1
      BY <1>2, <2>2, <2>3, <3>1
    <3>2. CASE h \in 1..n
      <4>1. PICK i \in 1..Len(s) : p[i] = h
        BY <1>1, <3>2 DEF Places
      <4> QED BY <1>2, <2>2, <2>3, <4>1
    <3> QED BY <3>1, <3>2
  <2>8. Places(w, x, n + 1, q)
    BY <2>5, <2>6, <2>7 DEF Places
  <2> QED BY <2>1, <2>2, <2>3, <2>8 DEF Picks
<1> QED BY <1>3, <1>4

LEMMA BehindIs ==
    ASSUME history \in Seq(Stream!Entry), NEW x \in Nat
    PROVE  Picks(Stream!Behind(x), x, Len(history))
<1>1. Len(history) \in Nat
  OBVIOUS
<1>2. PICK g : Keeps(g, x, Len(history))
  BY <1>1, KeptExists
<1>3. \E k : Stream!Behind(x) = k[Len(history)] /\ Keeps(k, x, Len(history))
  BY <1>2 DEF Stream!Behind, Keeps, Next1, Wanted
<1>4. PICK k : Stream!Behind(x) = k[Len(history)] /\ Keeps(k, x, Len(history))
  BY <1>3
<1> DEFINE S == {n \in Nat : n <= Len(history) => Picks(k[n], x, n)}
<1>5. 0 \in S
  <2>1. k[0] = <<>>
    BY <1>1, <1>4 DEF Keeps
  <2>2. Len(<<>>) = 0 /\ <<>> \in Seq(Stream!Entry)
    OBVIOUS
  <2>3. [i \in 1..0 |-> 0] \in [1..Len(<<>>) -> Nat]
    OBVIOUS
  <2>4. Places(<<>>, x, 0, [i \in 1..0 |-> 0])
    BY DEF Places
  <2>5. Picks(<<>>, x, 0)
    BY <2>2, <2>3, <2>4 DEF Picks
  <2> QED BY <2>1, <2>5
<1>6. ASSUME NEW n \in Nat, n \in S PROVE n + 1 \in S
  BY <1>1, <1>6, <1>4, PicksNext DEF Keeps
<1>7. Len(history) \in S
  <2> HIDE DEF S
  <2> QED BY <1>1, <1>5, <1>6, EveryNumber
<1> QED BY <1>1, <1>4, <1>7

\* What KeepLast leaves of s and the new e, which is the last.
StreamKept(t, s, e) ==
    /\ t \in Seq(Stream!Entry) /\ Len(t) <= HistorySize
    /\ HistorySize = 0 => t = <<>>
    /\ HistorySize > 0 => \E d \in {0, 1} :
          /\ Len(t) = Len(s) + 1 - d /\ Len(t) >= 1 /\ t[Len(t)] = e
          /\ \A i \in 1..(Len(t) - 1) : t[i] = s[i + d]

LEMMA KeepLastIs ==
    ASSUME NEW s \in Seq(Stream!Entry), Len(s) <= HistorySize, NEW e \in Stream!Entry
    PROVE  StreamKept(Stream!KeepLast(Append(s, e)), s, e)
<1> DEFINE t == Stream!KeepLast(Append(s, e))
<1> SUFFICES StreamKept(t, s, e)
  OBVIOUS
<1>0. t = Stream!KeepLast(Append(s, e))
  OBVIOUS
<1> HIDE DEF t
<1> DEFINE a == Append(s, e)
<1>1. /\ a \in Seq(Stream!Entry) /\ Len(a) = Len(s) + 1 /\ a[Len(s) + 1] = e
      /\ \A i \in 1..Len(s) : a[i] = s[i]
  OBVIOUS
<1>2. Len(s) \in Nat /\ HistorySize \in Nat
  BY MCWebAssumption
<1> HIDE DEF a
<1>3. CASE Len(a) <= HistorySize
  <2>1. t = a
    BY <1>0, <1>1, <1>2, <1>3 DEF Stream!KeepLast, a
  <2>2. /\ Len(t) = Len(s) + 1 - 0 /\ Len(t) >= 1 /\ t[Len(t)] = e
        /\ \A i \in 1..(Len(t) - 1) : t[i] = s[i + 0]
    BY <1>1, <1>2, <2>1
  <2>3. HistorySize > 0
    BY <1>1, <1>2, <1>3
  <2> QED BY <1>1, <1>2, <1>3, <2>1, <2>2, <2>3 DEF StreamKept
<1>4. CASE Len(a) > HistorySize
  <2>1. Len(s) = HistorySize /\ t = SubSeq(a, 2, Len(a))
    <3>1. t = SubSeq(a, Len(a) - HistorySize + 1, Len(a))
      BY <1>0, <1>4 DEF Stream!KeepLast, a
    <3>2. Len(s) = HistorySize /\ Len(a) - HistorySize + 1 = 2
      BY <1>1, <1>2, <1>4
    <3> QED BY <3>1, <3>2
  <2>2. t \in Seq(Stream!Entry) /\ Len(t) = Len(s) /\ \A i \in 1..Len(t) : t[i] = a[i + 1]
    BY <1>1, <1>2, <2>1, SubSeqProperties
  <2>3. HistorySize = 0 => t = <<>>
    BY <2>1, <2>2
  <2>4. ASSUME HistorySize > 0
        PROVE  /\ Len(t) = Len(s) + 1 - 1 /\ Len(t) >= 1 /\ t[Len(t)] = e
               /\ \A i \in 1..(Len(t) - 1) : t[i] = s[i + 1]
    BY <1>1, <1>2, <2>1, <2>2, <2>4
  <2> QED BY <1>2, <2>1, <2>2, <2>3, <2>4 DEF StreamKept
<1> QED BY <1>1, <1>2, <1>3, <1>4

LEMMA Recorded ==
    ASSUME StreamTyped, NEW c \in Nat, Stream!Record(c),
           \/ c = Stream!Other /\ streamChanges' = streamChanges
           \/ c = streamChanges + 1 /\ streamChanges' = c /\ c <= MaxChanges
    PROVE  /\ history' \in Seq(Stream!Entry) /\ Len(history') <= HistorySize
           /\ nextSseId' = nextSseId + 1 /\ nextSseId' \in Stream!Id
           /\ HistoryInOrder'
           /\ \A k \in Nat, x \in Nat : Missing(k, x) => Missing(k, x)'
           /\ c # Stream!Other => \A x \in 0..nextSseId : Missing(c, x)'
           /\ \A h \in 1..Len(history') :
                 \/ history'[h].sseId = nextSseId + 1 /\ history'[h].change = c
                 \/ \E g \in 1..Len(history) : history'[h] = history[g]
<1> DEFINE e == [sseId |-> nextSseId + 1, change |-> c]
<1>1. /\ nextSseId \in Nat /\ streamChanges \in Nat /\ streamChanges <= MaxChanges
      /\ Len(history) \in Nat
      /\ \A h \in 1..Len(history) : history[h].sseId \in Nat /\ history[h].change \in Nat
  BY StreamTypes DEF StreamTyped
<1>2. /\ nextSseId' = nextSseId + 1 /\ nextSseId + 1 <= MaxIds + MaxStreams
      /\ history' = Stream!KeepLast(Append(history, e))
  BY <1>1, MCWebAssumption DEF Stream!Record
<1>3. nextSseId' \in Stream!Id /\ c \in Stream!Change \cup {Stream!Other}
  BY <1>1, <1>2, MCWebAssumption DEF Stream!Id, Stream!Change, Stream!Other
<1>4. e \in Stream!Entry /\ e.sseId = nextSseId + 1 /\ e.change = c
  BY <1>2, <1>3 DEF Stream!Entry
<1>5. history \in Seq(Stream!Entry) /\ Len(history) <= HistorySize
  BY DEF StreamTyped, Stream!TypeOK
<1> HIDE DEF e
<1>6. StreamKept(history', history, e)
  BY <1>2, <1>4, <1>5, KeepLastIs
<1>7. CASE HistorySize = 0
  BY <1>6, <1>7, <1>2, <1>3 DEF StreamKept, HistoryInOrder, Missing
<1>8. CASE HistorySize > 0
  <2> DEFINE t == history'
  <2>0. t = history'
    OBVIOUS
  <2> HIDE DEF t
  <2>1. PICK d \in {0, 1} : /\ Len(t) = Len(history) + 1 - d /\ Len(t) >= 1 /\ t[Len(t)] = e
                            /\ \A i \in 1..(Len(t) - 1) : t[i] = history[i + d]
    BY <1>6, <1>8, <2>0 DEF StreamKept
  <2>2. Len(t) \in Nat /\ t # <<>> /\ t \in Seq(Stream!Entry)
    BY <1>1, <1>6, <2>0, <2>1 DEF StreamKept
  <2>3. \A h \in 1..Len(t) : h = Len(t) \/ h \in 1..(Len(t) - 1)
    BY <2>2
  <2>4. \A h \in 1..(Len(t) - 1) : h + d \in 1..Len(history)
    BY <1>1, <2>1, <2>2
  <2>5. HistoryInOrder
    BY DEF StreamTyped
  <2>6. \A h \in 1..Len(t) : /\ t[h].sseId \in 1..(nextSseId + 1) /\ t[h].change \in Nat
                             /\ t[h].change <= streamChanges'
    <3>1. \A h \in 1..(Len(t) - 1) : t[h].sseId \in 1..nextSseId /\ t[h].change \in Nat
                                     /\ t[h].change <= streamChanges
      BY <1>1, <2>1, <2>4, <2>5 DEF HistoryInOrder
    <3>2. t[Len(t)].sseId = nextSseId + 1 /\ t[Len(t)].change = c
      BY <1>4, <2>1
    <3>3. streamChanges' \in Nat /\ streamChanges <= streamChanges' /\ c <= streamChanges'
      BY <1>1 DEF Stream!Other
    <3>4. \A h \in 1..(Len(t) - 1) : /\ t[h].sseId \in 1..(nextSseId + 1)
                                     /\ t[h].change <= streamChanges'
      BY <1>1, <3>1, <3>3
    <3>5. /\ t[Len(t)].sseId \in 1..(nextSseId + 1) /\ t[Len(t)].change \in Nat
          /\ t[Len(t)].change <= streamChanges'
      BY <1>1, <3>2, <3>3
    <3> QED BY <2>3, <3>1, <3>4, <3>5
  <2>7. \A g, h \in 1..Len(t) : g < h => t[g].sseId < t[h].sseId
    <3> SUFFICES ASSUME NEW g \in 1..Len(t), NEW h \in 1..Len(t), g < h
                 PROVE  t[g].sseId < t[h].sseId
      OBVIOUS
    <3>1. g \in 1..(Len(t) - 1) /\ t[g] = history[g + d]
      BY <2>1, <2>2
    <3>2. CASE h = Len(t)
      <4>1. t[g].sseId \in 1..nextSseId
        BY <2>4, <2>5, <3>1 DEF HistoryInOrder
      <4>2. t[h].sseId = nextSseId + 1
        BY <1>4, <2>1, <3>2
      <4> QED BY <1>1, <4>1, <4>2
    <3>3. CASE h \in 1..(Len(t) - 1)
      <4>1. g + d < h + d /\ t[h] = history[h + d]
        BY <2>1, <3>3
      <4> QED BY <2>4, <2>5, <3>1, <3>3, <4>1 DEF HistoryInOrder
    <3> QED BY <2>3, <3>2, <3>3
  <2>8. \A g, h \in 1..Len(t) : g < h /\ t[g].change # Stream!Other
          /\ t[h].change # Stream!Other =>
                                    t[g].change < t[h].change
    <3> SUFFICES ASSUME NEW g \in 1..Len(t), NEW h \in 1..Len(t), g < h,
                        t[g].change # Stream!Other, t[h].change # Stream!Other
                 PROVE  t[g].change < t[h].change
      OBVIOUS
    <3>1. g \in 1..(Len(t) - 1) /\ t[g] = history[g + d] /\ g + d \in 1..Len(history)
      BY <2>1, <2>2, <2>4
    <3>2. CASE h = Len(t)
      <4>1. t[h].change = c
        BY <1>4, <2>1, <3>2
      <4>2. c = streamChanges + 1
        BY <4>1
      <4>3. t[g].change <= streamChanges /\ t[g].change \in Nat
        BY <1>1, <2>5, <3>1 DEF HistoryInOrder
      <4> QED BY <1>1, <4>1, <4>2, <4>3
    <3>3. CASE h \in 1..(Len(t) - 1)
      <4>1. t[h] = history[h + d] /\ h + d \in 1..Len(history)
        BY <2>1, <2>4, <3>3
      <4>2. g + d < h + d
        BY <2>2
      <4> QED BY <2>5, <3>1, <4>1, <4>2 DEF HistoryInOrder
    <3> QED BY <2>3, <3>2, <3>3
  <2>9. \A h \in 1..Len(t) : t[h].change # Stream!Other =>
            \A m \in t[h].change..streamChanges' : \E g \in 1..Len(t) : t[g].change = m
    <3> SUFFICES ASSUME NEW h \in 1..Len(t), t[h].change # Stream!Other,
                        NEW m \in t[h].change..streamChanges'
                 PROVE  \E g \in 1..Len(t) : t[g].change = m
      OBVIOUS
    <3>0. t[Len(t)].change = c /\ Len(t) \in 1..Len(t)
      BY <1>4, <2>1, <2>2
    <3>1. CASE h = Len(t)
      BY <3>0, <3>1, <1>1
    <3>2. CASE h \in 1..(Len(t) - 1)
      <4>1. t[h] = history[h + d] /\ h + d \in 1..Len(history)
        BY <2>1, <2>4, <3>2
      <4>2. CASE m <= streamChanges
        <5>1. PICK g \in 1..Len(history) : history[g].change = m
          BY <1>1, <2>6, <4>1, <4>2, <2>5 DEF HistoryInOrder
        <5>2. m # Stream!Other
          BY <2>6 DEF Stream!Other
        <5>3. h + d <= g
          BY <4>1, <5>1, <2>5, <5>2, <2>6 DEF HistoryInOrder
        <5>4. g - d \in 1..(Len(t) - 1) /\ (g - d) + d = g /\ g - d \in 1..Len(t)
          BY <1>1, <2>1, <2>2, <3>2, <5>3
        <5> QED BY <2>1, <5>1, <5>4
      <4>3. CASE ~(m <= streamChanges)
        BY <1>1, <4>3, <3>0
      <4> QED BY <4>2, <4>3
    <3> QED BY <2>3, <3>1, <3>2
  <2>10. HistoryInOrder'
    BY <1>2, <2>0, <2>6, <2>7, <2>8, <2>9 DEF HistoryInOrder, Stream!Other
  <2>11. ASSUME NEW k \in Nat, NEW x \in Nat, Missing(k, x) PROVE Missing(k, x)'
    <3>1. HistorySize # 0
      BY <1>8
    <3>2. history # <<>> => /\ Len(history) >= 1 /\ history[1].sseId \in 1..nextSseId
                           /\ t[1].sseId >= history[1].sseId
                           /\ (d = 1 => t[1].sseId > history[1].sseId)
      <4> SUFFICES ASSUME history # <<>> 
                   PROVE  /\ Len(history) >= 1 /\ history[1].sseId \in 1..nextSseId
                           /\ t[1].sseId >= history[1].sseId
                           /\ (d = 1 => t[1].sseId > history[1].sseId)
        OBVIOUS
      <4>1. Len(history) >= 1
        BY <1>1, <1>5
      <4>2. history[1].sseId \in 1..nextSseId
        BY <1>1, <2>5, <4>1 DEF HistoryInOrder
      <4>3. CASE Len(t) = 1
        <5>1. t[1].sseId = nextSseId + 1
          BY <1>4, <2>1, <4>3
        <5> QED BY <1>1, <4>1, <4>2, <5>1
      <4>4. CASE Len(t) # 1
        <5>1. 1 \in 1..(Len(t) - 1) /\ t[1] = history[1 + d] /\ 1 + d \in 1..Len(history)
          BY <2>1, <2>2, <2>4, <4>4
        <5>2. d = 1 => history[1].sseId < history[1 + d].sseId
          BY <1>1, <2>5, <4>1, <5>1 DEF HistoryInOrder
        <5>3. d = 0 => t[1] = history[1]
          BY <5>1
        <5> QED BY <1>1, <4>1, <4>2, <5>1, <5>2, <5>3
      <4> QED BY <4>3, <4>4
    <3>3. t[1].sseId \in Nat
      BY <2>1, <2>2, <2>6
    <3>4. CASE history # <<>> /\ history[1].sseId > x + 1
      BY <3>2, <3>3, <3>4, <2>0, <2>2 DEF Missing
    <3>5. CASE InHistory(k, x)
      <4>1. PICK h \in 1..Len(history) : history[h].change = k /\ history[h].sseId > x
        BY <3>5 DEF InHistory
      <4>2. CASE h - d \in 1..Len(history)
        <5>1. h - d \in 1..(Len(t) - 1) /\ (h - d) + d = h /\ h - d \in 1..Len(t)
          BY <1>1, <2>1, <4>1, <4>2
        <5>2. t[h - d] = history[h]
          BY <2>1, <5>1
        <5> QED BY <2>0, <4>1, <5>1, <5>2 DEF Missing, InHistory
      <4>3. CASE ~(h - d \in 1..Len(history))
        BY <1>1, <4>1, <4>3, <3>2, <3>3, <2>0, <2>2 DEF Missing
      <4> QED BY <4>2, <4>3
    <3> QED BY <2>11, <3>1, <3>4, <3>5 DEF Missing
  <2>12. ASSUME NEW x \in 0..nextSseId, c # Stream!Other PROVE Missing(c, x)'
    BY <1>1, <1>4, <2>1, <2>2, <2>0 DEF Missing, InHistory
  <2>13. \A h \in 1..Len(t) : \/ t[h].sseId = nextSseId + 1 /\ t[h].change = c
                              \/ \E g \in 1..Len(history) : t[h] = history[g]
    BY <1>4, <2>1, <2>3, <2>4
  <2> QED BY <1>2, <1>3, <1>6, <2>0, <2>10, <2>11, <2>12, <2>13 DEF StreamKept
<1> QED BY <1>7, <1>8, MCWebAssumption

\* The host takes the next number, for a change or for something else, and may write it to
\* the page.
Told(f) ==
    [type |-> f, sseId |-> nextSseId + 1, rest |-> 0,
     change |-> IF f = "event" THEN streamChanges' ELSE 0]
StreamHostTells ==
    /\ nextSseId' = nextSseId + 1 /\ nextSseId < MaxIds
    /\ streamChanges' \in {streamChanges, streamChanges + 1} /\ streamChanges' <= MaxChanges
    /\ history' \in Seq(Stream!Entry) /\ Len(history') <= HistorySize /\ HistoryInOrder'
    /\ \A k \in Nat, x \in Nat : Missing(k, x) => Missing(k, x)'
    /\ \A k \in (streamChanges + 1)..streamChanges', x \in 0..nextSseId : Missing(k, x)'
    /\ \A h \in 1..Len(history') :
          \/ \E g \in 1..Len(history) : history'[h] = history[g]
          \/ /\ history'[h].sseId = nextSseId + 1
             /\ history'[h].change # Stream!Other => history'[h].change > streamChanges
    /\ \/ UNCHANGED Stream!linkVars /\ (streamChanges' = streamChanges \/ client # "active")
       \/ \E f \in {"event", "heartbeat"} :
             /\ client = "active" /\ client' \in {"active", "ended"}
             /\ streamFrames' = Append(streamFrames, Told(f))
             /\ (f = "event" <=> streamChanges' # streamChanges)
    /\ UNCHANGED <<boot, Stream!sourceVars, Stream!pageVars, streamConnects, breaks>>

LEMMA HostTellsSo ==
    ASSUME StreamTyped, Stream!SendChange \/ Stream!SendOther \/ Stream!SendUnrecorded
    PROVE  StreamHostTells
<1>1. /\ nextSseId \in Nat /\ streamChanges \in Nat /\ streamChanges <= MaxChanges
      /\ history \in Seq(Stream!Entry) /\ Len(history) <= HistorySize
  BY StreamTypes DEF StreamTyped, Stream!TypeOK
<1>2. CASE Stream!SendChange
  <2>0. PICK c \in Nat : c = streamChanges + 1
    BY <1>1
  <2>1. /\ c # Stream!Other /\ c = streamChanges + 1 /\ streamChanges' = c /\ c <= MaxChanges
        /\ Stream!Record(c)
    BY <1>1, <1>2, <2>0, MCWebAssumption DEF Stream!SendChange, Stream!Other
  <2>2. /\ history' \in Seq(Stream!Entry) /\ Len(history') <= HistorySize
        /\ HistoryInOrder' /\ nextSseId' = nextSseId + 1
        /\ \A k \in Nat, x \in Nat : Missing(k, x) => Missing(k, x)'
        /\ c # Stream!Other => \A x \in 0..nextSseId : Missing(c, x)'
        /\ \A h \in 1..Len(history') :
              \/ history'[h].sseId = nextSseId + 1 /\ history'[h].change = c
              \/ \E g \in 1..Len(history) : history'[h] = history[g]
    BY <2>1, Recorded
  <2>3. \A k \in (streamChanges + 1)..streamChanges', x \in 0..nextSseId : Missing(k, x)'
    BY <1>1, <2>1, <2>2
  <2>4. \A h \in 1..Len(history') :
          \/ \E g \in 1..Len(history) : history'[h] = history[g]
          \/ /\ history'[h].sseId = nextSseId + 1
             /\ history'[h].change # Stream!Other => history'[h].change > streamChanges
    BY <1>1, <2>1, <2>2
  <2>5. \/ UNCHANGED Stream!linkVars /\ (streamChanges' = streamChanges \/ client # "active")
        \/ \E f \in {"event", "heartbeat"} :
             /\ client = "active" /\ client' \in {"active", "ended"}
             /\ streamFrames' = Append(streamFrames, Told(f))
             /\ (f = "event" <=> streamChanges' # streamChanges)
    BY <1>2, <2>1, <1>1 DEF Stream!SendChange, Stream!Write, Told
  <2>6. nextSseId < MaxIds
    BY <1>2 DEF Stream!SendChange, Stream!Record
  <2>7. UNCHANGED <<boot, Stream!sourceVars, Stream!pageVars, streamConnects, breaks>>
    BY <1>2 DEF Stream!SendChange
  <2> QED BY <2>1, <2>2, <2>3, <2>4, <2>5, <2>6, <2>7 DEF StreamHostTells
<1>3. CASE Stream!SendOther
  BY <1>3, Recorded, <1>1 DEF Stream!SendOther, Stream!Other, Stream!Record, StreamHostTells
<1>4. CASE Stream!SendUnrecorded
  <2>1. /\ streamChanges' = streamChanges /\ history' = history /\ nextSseId < MaxIds
        /\ nextSseId' = nextSseId + 1
        /\ UNCHANGED <<boot, Stream!sourceVars, Stream!pageVars, streamConnects, breaks>>
    BY <1>4 DEF Stream!SendUnrecorded
  <2>2. (streamChanges + 1)..streamChanges' = {}
    BY <1>1, <2>1
  <2>3. HistoryInOrder'
    BY <1>1, <2>1 DEF StreamTyped, HistoryInOrder, Stream!Other
  <2>4. \A k \in Nat, x \in Nat : Missing(k, x) => Missing(k, x)'
    BY <2>1 DEF Missing, InHistory
  <2>5. \/ UNCHANGED Stream!linkVars /\ (streamChanges' = streamChanges \/ client # "active")
        \/ \E f \in {"event", "heartbeat"} :
             /\ client = "active" /\ client' \in {"active", "ended"}
             /\ streamFrames' = Append(streamFrames, Told(f))
             /\ (f = "event" <=> streamChanges' # streamChanges)
    <3>1. CASE Stream!Write("heartbeat", 0)
      BY <3>1, <2>1 DEF Stream!Write, Told
    <3>2. CASE UNCHANGED Stream!linkVars
      BY <2>1, <3>2
    <3> QED BY <1>4, <3>1, <3>2 DEF Stream!SendUnrecorded
  <2>6. \A h \in 1..Len(history') : \E g \in 1..Len(history) : history'[h] = history[g]
    BY <2>1
  <2>7. \A k \in (streamChanges + 1)..streamChanges', x \in 0..nextSseId : Missing(k, x)'
    BY <2>2
  <2> QED BY <1>1, <2>1, <2>3, <2>4, <2>5, <2>6, <2>7 DEF StreamHostTells
<1> QED BY <1>2, <1>3, <1>4

\* A change that was not made is not on its way.
LEMMA NotMade ==
    ASSUME StreamTyped, NEW k \in Stream!Change, k > streamChanges, NEW i \in 0..Len(streamFrames)
    PROVE  ~ByThen(k, i)
<1>1. /\ streamChanges \in Nat /\ streamChanges <= MaxChanges /\ Len(streamFrames) \in Nat
      /\ \A m \in Stream!Change : m \in Nat /\ seen[m] \in Nat
      /\ \A h \in 1..Len(streamFrames) : streamFrames[h].change \in Nat
          /\ streamFrames[h].change <= streamChanges
  BY StreamTypes DEF StreamTyped, StreamFramesAreOf
<1>2. ~InFrames(k, i)
  BY <1>1 DEF InFrames
<1>3. ~Base(k)
  BY <1>1 DEF Renews, StreamTyped, Stream!TypeOK, Base, StreamFramesAreOf
<1> QED BY <1>2, <1>3 DEF ByThen

LEMMA ToldFrame ==
    ASSUME StreamTyped, StreamHostTells, NEW f \in {"event", "heartbeat"},
           f = "event" <=> streamChanges' # streamChanges
    PROVE  /\ Told(f) \in Stream!Frame /\ Told(f).type = f /\ Told(f).sseId = nextSseId + 1
           /\ Told(f).rest = 0 /\ Told(f).change \in Nat /\ Told(f).change <= streamChanges'
           /\ f = "event" => Told(f).change = streamChanges' /\ streamChanges' = streamChanges + 1
<1>1. /\ nextSseId \in Nat /\ streamChanges \in Nat
      /\ \A n \in Nat : n <= MaxIds + MaxStreams => n \in Stream!Id
  BY StreamTypes DEF StreamTyped
<1>2. nextSseId + 1 \in Stream!Id
  BY <1>1, MCWebAssumption DEF StreamHostTells
<1>3. /\ Told(f).type = f /\ Told(f).sseId = nextSseId + 1
      /\ Told(f).change = (IF f = "event" THEN streamChanges' ELSE 0) /\ Told(f).rest = 0
  BY DEF Told
<1>4. streamChanges' \in Nat /\ streamChanges' <= MaxChanges
  BY <1>1 DEF StreamHostTells
<1>5. Told(f) \in Stream!Frame
  BY <1>4, MCWebAssumption, <1>2 DEF Told, Stream!Frame
<1>6. f = "event" => streamChanges' = streamChanges + 1
  BY <1>1 DEF StreamHostTells
<1> QED BY <1>3, <1>4, <1>5, <1>6

\* The frames on their way stay, and a new one may come behind them.
LEMMA ToldFrames ==
    ASSUME StreamTyped, StreamHostTells
    PROVE  /\ streamFrames' \in Seq(Stream!Frame) /\ client' \in {"active", "ended", "none"}
           /\ Len(streamFrames') \in {Len(streamFrames), Len(streamFrames) + 1}
           /\ \A i \in 1..Len(streamFrames) : streamFrames'[i] = streamFrames[i]
           /\ client' = "active" => client = "active"
           /\ streamChanges' # streamChanges /\ client = "active" =>
               Len(streamFrames') = Len(streamFrames) + 1
           /\ Len(streamFrames') = Len(streamFrames) + 1 =>
                 /\ client = "active" /\ streamFrames'[Len(streamFrames')].sseId = nextSseId + 1
                 /\ streamFrames'[Len(streamFrames')].rest = 0
                 /\ streamFrames'[Len(streamFrames')].type \in {"event", "heartbeat"}
                 /\ streamFrames'[Len(streamFrames')].change \in Nat
                 /\ streamFrames'[Len(streamFrames')].change <= streamChanges'
                 /\ streamFrames'[Len(streamFrames')].type = "event" <=>
                     streamChanges' # streamChanges
                 /\ streamChanges' # streamChanges =>
                     streamFrames'[Len(streamFrames')].change = streamChanges'
                         /\ streamChanges' = streamChanges + 1
<1>1. /\ streamFrames \in Seq(Stream!Frame) /\ client \in {"active", "ended", "none"}
      /\ Len(streamFrames) \in Nat
      /\ streamChanges \in Nat
  BY StreamTypes DEF StreamTyped, Stream!TypeOK
<1>2. CASE UNCHANGED Stream!linkVars /\ (streamChanges' = streamChanges \/ client # "active")
  BY <1>1, <1>2 DEF Stream!linkVars
<1>3. ASSUME NEW f \in {"event", "heartbeat"}, client = "active", client' \in {"active", "ended"},
             streamFrames' = Append(streamFrames, Told(f)),
             f = "event" <=> streamChanges' # streamChanges
      PROVE  /\ streamFrames' \in Seq(Stream!Frame) /\ Len(streamFrames') = Len(streamFrames) + 1
             /\ \A i \in 1..Len(streamFrames) : streamFrames'[i] = streamFrames[i]
             /\ streamFrames'[Len(streamFrames) + 1] = Told(f)
  BY <1>3, ToldFrame, <1>1
<1>4. ASSUME NEW f \in {"event", "heartbeat"}, client = "active", client' \in {"active", "ended"},
             streamFrames' = Append(streamFrames, Told(f)),
             f = "event" <=> streamChanges' # streamChanges
      PROVE  /\ Told(f).type = f /\ Told(f).sseId = nextSseId + 1
             /\ Told(f).rest = 0 /\ Told(f).change \in Nat /\ Told(f).change <= streamChanges'
             /\ f = "event" => Told(f).change = streamChanges'
                 /\ streamChanges' = streamChanges + 1
  BY <1>4, ToldFrame
<1> QED BY <1>1, <1>2, <1>3, <1>4 DEF StreamHostTells

LEMMA StreamToldTyped ==
    ASSUME StreamTyped, StreamHostTells
    PROVE  StreamTyped'
<1>1. /\ nextSseId \in Nat /\ streamChanges \in Nat /\ Len(streamFrames) \in Nat
      /\ \A n \in Nat : n <= MaxIds + MaxStreams => n \in Stream!Id
      /\ \A i \in 1..Len(streamFrames) : /\ streamFrames[i].sseId \in Nat
                                         /\ streamFrames[i].change \in Nat
      /\ cursor.sseId \in Nat /\ sourceId.sseId \in Nat /\ behind \in Nat
      /\ \A k \in Stream!Change : k \in Nat /\ seen[k] \in Nat
  BY StreamTypes DEF StreamTyped
<1>2. streamChanges' \in Nat /\ streamChanges' <= MaxChanges /\ streamChanges <= streamChanges'
  BY <1>1 DEF StreamHostTells
<1>3. nextSseId' = nextSseId + 1 /\ nextSseId' \in Stream!Id /\ nextSseId + 1 <= MaxIds
  BY <1>1, MCWebAssumption DEF StreamHostTells
<1>4. /\ streamFrames' \in Seq(Stream!Frame) /\ client' \in {"active", "ended", "none"}
      /\ Len(streamFrames') \in {Len(streamFrames), Len(streamFrames) + 1}
      /\ \A i \in 1..Len(streamFrames) : streamFrames'[i] = streamFrames[i]
      /\ Len(streamFrames') = Len(streamFrames) + 1 =>
                 /\ client = "active" /\ streamFrames'[Len(streamFrames')].sseId = nextSseId + 1
                 /\ streamFrames'[Len(streamFrames')].type \in {"event", "heartbeat"}
                 /\ streamFrames'[Len(streamFrames')].change \in Nat
                 /\ streamFrames'[Len(streamFrames')].change <= streamChanges'
                 /\ streamFrames'[Len(streamFrames')].type = "event" <=>
                     streamChanges' # streamChanges
                 /\ streamChanges' # streamChanges =>
                     streamFrames'[Len(streamFrames')].change = streamChanges'
                         /\ streamChanges' = streamChanges + 1
  BY ToldFrames
<1>5. UNCHANGED <<boot, source, sourceId, url, urlResume, cursor, hasSnapshot, seen, behind,
                  skipped, overlaid, streamConnects, breaks>>
  BY DEF StreamHostTells, Stream!sourceVars, Stream!pageVars
<1>6. Stream!TypeOK'
  BY <1>2, MCWebAssumption, <1>3, <1>4, <1>5 DEF StreamHostTells, Stream!TypeOK, StreamTyped
<1>7. \A i \in 1..Len(streamFrames') : i \in 1..Len(streamFrames)
        \/ (i = Len(streamFrames') /\ Len(streamFrames') = Len(streamFrames) + 1)
  BY <1>1, <1>4
<1>8. Numbered'
  <2>1. \A i \in 1..Len(streamFrames) : streamFrames[i].sseId \in 1..nextSseId
    BY DEF StreamTyped, Numbered
  <2>2. \A i \in 1..Len(streamFrames') : streamFrames'[i].sseId \in 1..(nextSseId + 1)
    BY <1>1, <1>4, <1>7, <2>1
  <2>3. nextSseId + 1 <= MaxIds + streamConnects /\ streamConnects <= MaxStreams
    BY <1>1, <1>3, MCWebAssumption DEF StreamTyped, Stream!TypeOK, Numbered
  <2>4. /\ cursor.boot <= boot /\ (cursor.boot = boot => cursor.sseId <= nextSseId + 1)
        /\ sourceId.boot <= boot /\ (sourceId.boot = boot => sourceId.sseId <= nextSseId + 1)
        /\ behind <= nextSseId + 1
    BY <1>1 DEF StreamTyped, Numbered
  <2> QED BY <1>3, <1>5, <2>2, <2>3, <2>4 DEF Numbered
<1>9. HistoryInOrder'
  BY DEF StreamHostTells
<1>10. StreamFramesAreOf'
  <2>1. \A i \in 2..Len(streamFrames') : ~(streamFrames'[i].type \in {"snapshot", "hello"})
    BY <1>1, <1>4, <1>7 DEF StreamTyped, StreamFramesAreOf, IsHandshake
  <2>2. \A i \in 1..Len(streamFrames') : /\ streamFrames'[i].change <= streamChanges'
                                         /\ (streamFrames'[i].type = "event" =>
                                             streamFrames'[i].change # Stream!Other)
    BY <1>1, <1>2, <1>4, <1>7 DEF StreamTyped, StreamFramesAreOf, IsEvent, Stream!Other
  <2>3. \A k \in Stream!Change : seen[k] >= 1 => k <= streamChanges'
    BY <1>1, <1>2 DEF StreamTyped, StreamFramesAreOf
  <2>4. sourceId.sseId = 0 /\ source # "none" => url = cursor
    BY DEF StreamTyped, StreamFramesAreOf
  <2>5. streamFrames' # <<>> /\ streamFrames'[1].type \in {"snapshot", "hello"}
          /\ cursor.boot = boot =>
           cursor.sseId < streamFrames'[1].sseId
    BY <1>4, <1>1, <1>7 DEF StreamTyped, StreamFramesAreOf, IsHandshake
  <2> QED BY <1>5, <2>1, <2>2, <2>3, <2>4, <2>5 DEF StreamFramesAreOf, IsHandshake, IsEvent,
        Stream!Other
<1> QED BY <1>6, <1>8, <1>9, <1>10 DEF StreamTyped

\* What the page will have by an earlier frame stays, and the new frame adds its change.
LEMMA ToldByThen ==
    ASSUME StreamTyped, StreamHostTells
    PROVE  /\ Renews' <=> Renews
           /\ streamFrames # <<>> => streamFrames'[1] = streamFrames[1]
           /\ \A k \in Nat, i \in Nat : i <= Len(streamFrames) => (ByThen(k, i)' <=> ByThen(k, i))
           /\ \A k \in Nat, i \in Nat : i = Len(streamFrames) /\ Len(streamFrames') = i + 1 =>
                 (ByThen(k, i + 1)' <=>
                     ByThen(k, i) \/ (streamChanges' # streamChanges /\ k = streamChanges'))
<1>1. /\ streamFrames \in Seq(Stream!Frame) /\ streamFrames' \in Seq(Stream!Frame)
      /\ Len(streamFrames) \in Nat
      /\ Len(streamFrames') \in {Len(streamFrames), Len(streamFrames) + 1}
      /\ \A i \in 1..Len(streamFrames) : streamFrames'[i] = streamFrames[i]
      /\ Len(streamFrames') = Len(streamFrames) + 1 =>
            /\ streamFrames'[Len(streamFrames')].type \in {"event", "heartbeat"}
            /\ streamFrames'[Len(streamFrames')].type = "event" <=> streamChanges' # streamChanges
            /\ streamChanges' # streamChanges =>
                streamFrames'[Len(streamFrames')].change = streamChanges'
  BY ToldFrames DEF StreamTyped, Stream!TypeOK
<1>2. streamFrames # <<>> => 1 \in 1..Len(streamFrames) /\ streamFrames' # <<>>
        /\ streamFrames'[1] = streamFrames[1]
  BY <1>1
<1>3. Renews' <=> Renews
  <2>1. CASE streamFrames # <<>>
    BY <1>2, <2>1 DEF Renews
  <2>2. CASE streamFrames = <<>>
    BY <2>2, <1>1 DEF Renews
  <2> QED BY <2>1, <2>2
<1>4. seen' = seen
  BY DEF StreamHostTells, Stream!pageVars
<1>5. \A k \in Nat : Base(k)' <=> Base(k)
  BY <1>2, <1>3, <1>4 DEF Base, Renews
<1>6. \A k \in Nat, i \in Nat : i <= Len(streamFrames) => (InFrames(k, i)' <=> InFrames(k, i))
  BY <1>1 DEF InFrames, IsEvent
<1>7. ASSUME NEW k \in Nat, NEW i \in Nat, i = Len(streamFrames), Len(streamFrames') = i + 1
      PROVE  InFrames(k, i + 1)' <=>
               InFrames(k, i) \/ (streamChanges' # streamChanges /\ k = streamChanges')
  BY <1>1, <1>7 DEF InFrames, IsEvent
<1> QED BY <1>2, <1>3, <1>5, <1>6, <1>7 DEF ByThen

LEMMA ToldPage ==
    ASSUME StreamTyped, PageSound, PageOnce, StreamHostTells
    PROVE  PageSound' /\ PageOnce'
<1>1. /\ nextSseId \in Nat /\ streamChanges \in Nat
      /\ cursor.sseId \in Nat /\ sourceId.sseId \in Nat /\ behind \in Nat
      /\ \A k \in Stream!Change : k \in Nat /\ seen[k] \in Nat
      /\ \A k \in 1..streamChanges : k \in Stream!Change
  BY StreamTypes DEF StreamTyped
<1>2. UNCHANGED <<boot, source, sourceId, url, urlResume, cursor, hasSnapshot, seen, behind,
                  skipped, overlaid, streamConnects, breaks>>
  BY DEF StreamHostTells, Stream!sourceVars, Stream!pageVars
<1>3. streamChanges' \in Nat /\ streamChanges' <= MaxChanges /\ streamChanges <= streamChanges'
  BY <1>1 DEF StreamHostTells
<1>4. ASSUME NEW x \in 0..nextSseId, Rests(x) PROVE Rests(x)'
  BY <1>2, <1>4, <1>1, <1>3 DEF Rests, StreamHostTells
<1>5. ASSUME NEW c, c.boot = boot => c.sseId \in 0..nextSseId, Reaches(c)
      PROVE  c.boot = boot /\ (behind = 0 \/ c.sseId < behind) => Rests(c.sseId)'
  BY <1>5, <1>4 DEF Reaches
<1>6. /\ cursor.boot = boot => cursor.sseId \in 0..nextSseId
      /\ sourceId.boot = boot => sourceId.sseId \in 0..nextSseId
  BY <1>1 DEF StreamTyped, Numbered
<1>7. PageSound'
  BY <1>2, <1>5, <1>6 DEF PageSound, Sound, Stream!InOrder, Reaches
<1>8. ASSUME NEW x \in Nat, Unseen(x) PROVE Unseen(x)'
  <2> SUFFICES ASSUME NEW h \in 1..Len(history'), history'[h].sseId > x,
                      history'[h].change # Stream!Other
               PROVE  seen[history'[h].change] = 0
    BY <1>2 DEF Unseen, Stream!Other
  <2>1. CASE \E g \in 1..Len(history) : history'[h] = history[g]
    BY <1>8, <2>1 DEF Unseen
  <2>2. CASE history'[h].change > streamChanges
    <3>1. history'[h].change \in Stream!Change
      <4>1. history'[h] \in Stream!Entry
        BY DEF StreamHostTells
      <4>2. history'[h].change \in Stream!Change \cup {Stream!Other}
        BY <4>1 DEF Stream!Entry
      <4> QED BY <4>2
    <3>2. ~(seen[history'[h].change] >= 1)
      BY <1>1, <2>2, <3>1 DEF StreamTyped, StreamFramesAreOf
    <3> QED BY <1>1, <3>1, <3>2
  <2> QED BY <2>1, <2>2 DEF StreamHostTells
<1>9. PageOnce'
  BY <1>2, <1>8, <1>1 DEF PageOnce, Unseen
<1> QED BY <1>7, <1>9

LEMMA ToldSound ==
    ASSUME StreamTyped, FramesSound, StreamHostTells
    PROVE  FramesSound'
<1>1. /\ nextSseId \in Nat /\ streamChanges \in Nat /\ Len(streamFrames) \in Nat
      /\ \A i \in 1..Len(streamFrames) : /\ streamFrames[i].sseId \in Nat
                                         /\ streamFrames[i].change \in Nat
      /\ cursor.sseId \in Nat
      /\ \A k \in 1..streamChanges : k \in Stream!Change
  BY StreamTypes DEF StreamTyped
<1>2. UNCHANGED <<boot, cursor, hasSnapshot, seen, behind, skipped>>
  BY DEF StreamHostTells, Stream!pageVars
<1>3. streamChanges' \in Nat /\ streamChanges' <= MaxChanges /\ streamChanges <= streamChanges'
  BY <1>1 DEF StreamHostTells
<1>4. /\ Len(streamFrames') \in {Len(streamFrames), Len(streamFrames) + 1}
      /\ \A i \in 1..Len(streamFrames) : streamFrames'[i] = streamFrames[i]
      /\ client' = "active" => client = "active"
      /\ streamChanges' # streamChanges /\ client = "active" =>
          Len(streamFrames') = Len(streamFrames) + 1
      /\ Len(streamFrames') = Len(streamFrames) + 1 =>
            /\ client = "active" /\ streamFrames'[Len(streamFrames')].sseId = nextSseId + 1
            /\ streamFrames'[Len(streamFrames')].type \in {"event", "heartbeat"}
            /\ streamFrames'[Len(streamFrames')].type = "event" <=> streamChanges' # streamChanges
            /\ streamChanges' # streamChanges =>
                streamFrames'[Len(streamFrames')].change = streamChanges'
                    /\ streamChanges' = streamChanges + 1
  BY ToldFrames
<1>5. /\ Renews' <=> Renews
      /\ \A k \in Nat, i \in Nat : i <= Len(streamFrames) => (ByThen(k, i)' <=> ByThen(k, i))
      /\ \A k \in Nat, i \in Nat : i = Len(streamFrames) /\ Len(streamFrames') = i + 1 =>
            (ByThen(k, i + 1)' <=>
                ByThen(k, i) \/ (streamChanges' # streamChanges /\ k = streamChanges'))
  BY ToldByThen
<1> SUFFICES ASSUME Renews \/ Sound
             PROVE  FramesInOrder' /\ FramesBringAll' /\ FramesReach' /\ FramesSettle'
  BY <1>2, <1>5 DEF FramesSound, Sound
<1>6. FramesInOrder /\ FramesBringAll /\ FramesReach /\ FramesSettle
  BY DEF FramesSound
<1>7. PICK n \in Nat : n = Len(streamFrames)
  BY <1>1
<1>8. \A i \in 1..Len(streamFrames') : i \in 1..n \/ (i = n + 1 /\ Len(streamFrames') = n + 1)
  BY <1>4, <1>7
\* With the new frame everything is there.
<1>9. Len(streamFrames') = n + 1 => \A k \in 1..streamChanges' : ByThen(k, n + 1)'
  BY <1>4, <1>6, <1>7, <1>1, <1>3, <1>5 DEF FramesBringAll
<1>10. ASSUME NEW i \in 1..n, NEW x \in 0..nextSseId, After(i, x) PROVE After(i, x)'
  BY <1>10, <1>1, <1>3, <1>5, <1>7 DEF After, StreamHostTells
<1>11. Len(streamFrames') = n + 1 => \A x \in Nat : After(n + 1, x)'
  BY <1>9 DEF After
<1>12. \A i \in 1..n : streamFrames'[i] = streamFrames[i]
         /\ streamFrames[i].sseId \in 0..nextSseId
  BY <1>7, <1>1, <1>4 DEF StreamTyped, Numbered
<1>13. Len(streamFrames') = n + 1 => /\ streamFrames'[n + 1].sseId = nextSseId + 1
                                     /\ streamFrames'[n + 1].type \in {"event", "heartbeat"}
                                     /\ streamFrames'[n + 1].type = "event" =>
                                         streamFrames'[n + 1].change = streamChanges'
  BY <1>4, <1>7
<1>14. FramesInOrder'
  BY <1>6, <1>7, <1>12, <1>5, <1>9, <1>13, <1>8 DEF FramesInOrder, IsEvent
<1>15. FramesBringAll'
  <2> SUFFICES ASSUME client' = "active", NEW k \in 1..streamChanges', NEW i \in Nat,
                      i = Len(streamFrames')
               PROVE  ByThen(k, i)'
    BY <1>1, <1>4 DEF FramesBringAll, ByThen, InFrames, Base, IsEvent, Renews
  <2>1. CASE i = n + 1
    BY <1>9, <2>1
  <2>2. CASE i = n
    BY <1>4, <1>7, <2>2, <1>6, <1>3, <1>5 DEF FramesBringAll
  <2> QED BY <1>4, <1>7, <2>1, <2>2
<1>16. FramesReach'
  <2>1. ASSUME NEW i \in 1..Len(streamFrames'),
               ~(streamFrames'[i].type = "hello" /\ streamFrames'[i].rest > 0)
        PROVE  \A x \in Nat : x = streamFrames'[i].sseId => After(i, x)'
    BY <1>6, <1>7, <1>12, <2>1, <1>10, <1>11, <1>8 DEF FramesReach
  <2>2. \A i \in 1..Len(streamFrames') : streamFrames'[i].sseId \in Nat
    BY <1>1, <1>8, <1>12, <1>13
  <2>3. \A i \in 1..Len(streamFrames') :
          ~(streamFrames'[i].type = "hello" /\ streamFrames'[i].rest > 0) =>
           After(i, streamFrames[i].sseId)'
    BY <2>2, <2>1 DEF After, Missing, InHistory
  <2> QED BY <2>3 DEF FramesReach
<1>17. FramesSettle'
  <2>1. ASSUME NEW i \in 1..Len(streamFrames'), streamFrames'[i].rest = 0, NEW x \in Nat,
               \/ \E h \in 1..i : x = streamFrames'[h].sseId
               \/ x = cursor.sseId /\ cursor.boot = boot
        PROVE  After(i, x)'
    <3>1. CASE i \in 1..n
      <4>1. After(i, x)
        BY <1>7, <1>12, <2>1, <3>1, <1>6 DEF FramesSettle
      <4>2. x \in 0..nextSseId
        BY <1>12, <3>1, <1>1, <2>1 DEF StreamTyped, Numbered
      <4> QED BY <1>10, <3>1, <4>1, <4>2
    <3>2. CASE i = n + 1 /\ Len(streamFrames') = n + 1
      BY <1>11, <3>2
    <3> QED BY <1>8, <3>1, <3>2
  <2>2. \A i \in 1..Len(streamFrames') : streamFrames'[i].sseId \in Nat
    BY <1>1, <1>8, <1>12, <1>13
  <2>3. ASSUME NEW i \in 1..Len(streamFrames'), streamFrames'[i].rest = 0
        PROVE  /\ \A h \in 1..i : After(i, streamFrames[h].sseId)'
               /\ cursor'.boot = boot' => After(i, cursor.sseId)'
    <3>1. ASSUME NEW h \in 1..i PROVE After(i, streamFrames[h].sseId)'
      <4> SUFFICES ASSUME NEW x \in Nat, x = streamFrames'[h].sseId PROVE After(i, x)'
        <5>1. streamFrames'[h].sseId \in Nat
          BY <2>2
        <5> QED BY <5>1 DEF After, Missing, InHistory
      <4> QED BY <2>1, <2>3
    <3>2. ASSUME cursor'.boot = boot' PROVE After(i, cursor.sseId)'
      <4> SUFFICES ASSUME NEW x \in Nat, x = cursor.sseId PROVE After(i, x)'
        BY <1>1, <1>2 DEF After, Missing, InHistory
      <4> QED BY <1>2, <2>1, <2>3, <3>2
    <3> QED BY <3>1, <3>2
  <2> QED BY <2>3 DEF FramesSettle
<1> QED BY <1>14, <1>15, <1>16, <1>17

LEMMA ToldOnce ==
    ASSUME StreamTyped, FramesOnce, StreamHostTells
    PROVE  FramesOnce'
<1>1. /\ nextSseId \in Nat /\ streamChanges \in Nat /\ Len(streamFrames) \in Nat
      /\ \A i \in 1..Len(streamFrames) : /\ streamFrames[i].sseId \in Nat
                                         /\ streamFrames[i].change \in Nat
      /\ \A h \in 1..Len(history) : history[h].sseId \in 1..nextSseId /\ history[h].change \in Nat
  BY StreamTypes DEF StreamTyped, HistoryInOrder
<1>2. overlaid' = overlaid
  BY DEF StreamHostTells, Stream!pageVars
<1>3. streamChanges' \in Nat /\ streamChanges' <= MaxChanges /\ streamChanges <= streamChanges'
  BY <1>1 DEF StreamHostTells
<1>4. /\ Len(streamFrames') \in {Len(streamFrames), Len(streamFrames) + 1}
      /\ \A i \in 1..Len(streamFrames) : streamFrames'[i] = streamFrames[i]
      /\ Len(streamFrames') = Len(streamFrames) + 1 =>
            /\ streamFrames'[Len(streamFrames')].sseId = nextSseId + 1
            /\ streamFrames'[Len(streamFrames')].type = "event" => streamChanges' # streamChanges
            /\ streamChanges' # streamChanges =>
                streamFrames'[Len(streamFrames')].change = streamChanges'
                    /\ streamChanges' = streamChanges + 1
  BY ToldFrames
<1>5. /\ Renews' <=> Renews
      /\ streamFrames # <<>> => streamFrames'[1] = streamFrames[1]
      /\ \A k \in Nat, i \in Nat : i <= Len(streamFrames) => (ByThen(k, i)' <=> ByThen(k, i))
  BY ToldByThen
<1> SUFFICES ASSUME ~Overlays' PROVE \A i \in 1..Len(streamFrames') :
        /\ streamFrames'[i].type = "event" => ~ByThen(streamFrames[i].change, i - 1)'
        /\ \A h \in 1..Len(history') :
              history'[h].sseId > streamFrames'[i].sseId /\ history'[h].change # Stream!Other =>
                  ~ByThen(history[h].change, i)'
  BY DEF FramesOnce, IsEvent, Stream!Other
<1>6. ~Overlays
  BY <1>2, <1>5 DEF Renews, Overlays
<1>7. \A i \in 1..Len(streamFrames) :
        /\ streamFrames[i].type = "event" => ~ByThen(streamFrames[i].change, i - 1)
        /\ \A h \in 1..Len(history) :
              history[h].sseId > streamFrames[i].sseId /\ history[h].change # Stream!Other =>
                  ~ByThen(history[h].change, i)
  BY <1>6 DEF FramesOnce, IsEvent
<1>8. PICK n \in Nat : n = Len(streamFrames)
  BY <1>1
<1>9. \A i \in 1..Len(streamFrames') : i \in 1..n \/ (i = n + 1 /\ Len(streamFrames') = n + 1)
  BY <1>4, <1>8
<1>10. ASSUME NEW k \in Stream!Change, k > streamChanges, NEW i \in Nat, i <= n
       PROVE ~ByThen(k, i)'
  BY <1>8, <1>10, NotMade, StreamTypes, <1>5 DEF StreamTyped
<1>11. ASSUME NEW i \in 1..Len(streamFrames'), streamFrames'[i].type = "event", NEW k,
              k = streamFrames'[i].change
       PROVE  ~ByThen(k, i - 1)'
  BY <1>4, <1>7, <1>8, <1>11, <1>1, <1>5, <1>3, <1>10, <1>9 DEF Stream!Change
<1>12. ASSUME NEW i \in 1..Len(streamFrames'), NEW h \in 1..Len(history'),
              history'[h].sseId > streamFrames'[i].sseId, history'[h].change # Stream!Other,
              NEW k, k = history'[h].change
       PROVE  ~ByThen(k, i)'
  <2>1. CASE \E g \in 1..Len(history) : history'[h] = history[g]
    <3>1. PICK g \in 1..Len(history) : history'[h] = history[g]
      BY <2>1
    <3>2. CASE i \in 1..n
      BY <1>4, <1>7, <1>8, <1>12, <3>1, <3>2, <1>1, <1>5
    <3>3. CASE i = n + 1 /\ Len(streamFrames') = n + 1
      BY <1>1, <1>4, <1>8, <3>3, <1>12, <3>1
    <3> QED BY <1>9, <3>2, <3>3
  <2>2. CASE history'[h].sseId = nextSseId + 1 /\ history'[h].change > streamChanges
    <3>1. k \in Stream!Change /\ k > streamChanges
      <4>1. history'[h] \in Stream!Entry
        BY DEF StreamHostTells
      <4>2. history'[h].change \in Stream!Change \cup {Stream!Other}
        BY <4>1 DEF Stream!Entry
      <4> QED BY <1>12, <2>2, <4>2
    <3>2. CASE i \in 1..n
      BY <1>10, <3>1, <3>2
    <3>3. CASE i = n + 1 /\ Len(streamFrames') = n + 1
      BY <1>4, <1>8, <3>3, <1>1, <1>12, <2>2
    <3> QED BY <1>9, <3>2, <3>3
  <2> QED BY <1>12, <2>1, <2>2 DEF StreamHostTells
<1> QED BY <1>11, <1>12 DEF ByThen, Base, InFrames, Renews, IsEvent

LEMMA HostKeeps ==
    ASSUME StreamInv, Stream!SendChange \/ Stream!SendOther \/ Stream!SendUnrecorded
    PROVE  StreamInv'
<1>1. StreamTyped /\ PageSound /\ FramesSound /\ PageOnce /\ FramesOnce
  BY DEF StreamInv
<1>2. StreamHostTells
  BY <1>1, HostTellsSo
<1> QED BY <1>1, <1>2, StreamToldTyped, ToldPage, ToldSound, ToldOnce DEF StreamInv

\* The host answers number x: a handshake t and the first w envelopes of the replay s.
Replays(s, w) ==
    \A r \in 1..w : /\ streamFrames'[r + 1].type = "event"
                    /\ streamFrames'[r + 1].sseId = s[r].sseId
                    /\ streamFrames'[r + 1].change = s[r].change
                    /\ streamFrames'[r + 1].rest = Len(s) - r
Shakes(t, s) ==
    /\ streamFrames'[1].type = t /\ streamFrames'[1].sseId = nextSseId + 1
    /\ streamFrames'[1].change = (IF t = "hello" THEN 0 ELSE streamChanges)
    /\ streamFrames'[1].rest = Len(s)
Answers(t, x, s, p, w) ==
    /\ t \in {"hello", "snapshot"} /\ (t = "hello" => Stream!CanReplayFrom(x))
    /\ s \in Seq(Stream!Entry) /\ Places(s, x, Len(history), p) /\ w \in 0..Len(s)
    /\ streamFrames' \in Seq(Stream!Frame) /\ Len(streamFrames') = 1 + w /\ Shakes(t, s)
    /\ Replays(s, w)
    /\ client' \in {"ended", "active"} /\ (client' = "active" => w = Len(s))

\* What the host answers may bring the page up to date only if the number is a good one.
Resumes(t, c) ==
    skipped' = {} => skipped = {}
        /\ (t = "hello" => c.boot = boot /\ (behind = 0 \/ c.sseId < behind))

LEMMA ConnectAnswers ==
    ASSUME StreamTyped, NEW c \in Stream!Cursor, NEW resume \in BOOLEAN, Stream!Connect(c, resume)
    PROVE  \E t, s, p, w : Answers(t, c.sseId, s, p, w) /\ Resumes(t, c)
<1> DEFINE hello == resume /\ Stream!CanReplayFrom(c.sseId)
           s == Stream!Behind(c.sseId)
           t == IF hello THEN "hello" ELSE "snapshot"
           first == [type |-> t, sseId |-> nextSseId + 1,
                     change |-> IF t = "hello" THEN 0 ELSE streamChanges, rest |-> Len(s)]
           R(i) == [type |-> "event", sseId |-> s[i].sseId,
                    change |-> s[i].change, rest |-> Len(s) - i]
<1>1. /\ nextSseId \in Nat /\ streamChanges \in Nat /\ streamChanges <= MaxChanges
      /\ \A n \in Nat : n <= MaxIds + MaxStreams => n \in Stream!Id
  BY StreamTypes DEF StreamTyped
<1>2. c.sseId \in Nat
  BY MCWebAssumption DEF Stream!Cursor, Stream!Id
<1>3. s \in Seq(Stream!Entry) /\ Len(s) \in Nat /\ \E p : Places(s, c.sseId, Len(history), p)
  <2>1. history \in Seq(Stream!Entry)
    BY DEF StreamTyped, Stream!TypeOK
  <2>2. Picks(s, c.sseId, Len(history))
    BY <1>2, <2>1, BehindIs
  <2> QED BY <2>2 DEF Picks
<1>4. t \in {"hello", "snapshot"} /\ (hello <=> t = "hello")
  OBVIOUS
<1>5. PICK w \in 0..Len(s) : /\ streamFrames' = <<first>> \o [i \in 1..w |-> R(i)]
                             /\ client' \in {"ended"} \cup IF w = Len(s) THEN {"active"} ELSE {}
  BY DEF Stream!Connect
<1>6. Resumes(t, c)
  <2>1. skipped' = skipped
            \cup (IF hello /\ behind # 0 /\ c.sseId >= behind THEN {"overtaken"} ELSE {})
            \cup (IF hello /\ c.boot # boot THEN {"aliased"} ELSE {})
    BY DEF Stream!Connect
  <2>2. behind \in Nat
    BY StreamTypes DEF StreamTyped
  <2> HIDE DEF hello, s
  <2>3. ASSUME skipped' = {} PROVE skipped = {}
          /\ (t = "hello" => c.boot = boot /\ (behind = 0 \/ c.sseId < behind))
    <3>1. skipped = {} /\ ~(hello /\ behind # 0 /\ c.sseId >= behind) /\ ~(hello /\ c.boot # boot)
      BY <2>1, <2>3
    <3> QED BY <1>2, <1>4, <2>2, <3>1
  <2> QED BY <2>3 DEF Resumes
<1>7. t = "hello" => Stream!CanReplayFrom(c.sseId)
  BY <1>4
<1> HIDE DEF hello, s, t
<1>8. nextSseId + 1 \in Stream!Id
  BY <1>1, MCWebAssumption DEF Stream!Connect, StreamTyped, Numbered, Stream!TypeOK
<1>9. first \in Stream!Frame
  BY <1>1, MCWebAssumption, <1>3, <1>4, <1>8 DEF Stream!Frame
<1>10. \A i \in 1..w : R(i) \in Stream!Frame
  <2> SUFFICES ASSUME NEW i \in 1..w PROVE R(i) \in Stream!Frame
    OBVIOUS
  <2>1. s[i] \in Stream!Entry
    BY <1>3, <1>5
  <2>2. s[i].sseId \in Stream!Id /\ s[i].change \in Stream!Change \cup {Stream!Other}
    BY <2>1 DEF Stream!Entry
  <2>3. s[i].change \in 0..MaxChanges
    BY <2>2, MCWebAssumption DEF Stream!Change, Stream!Other
  <2>4. Len(s) - i \in Nat
    BY <1>3, <1>5
  <2> QED BY <2>2, <2>3, <2>4 DEF Stream!Frame
<1> DEFINE e == [i \in 1..w |-> R(i)]
<1>11. e \in Seq(Stream!Frame) /\ Len(e) = w /\ \A i \in 1..w : e[i] = R(i)
  <2>1. w \in Nat
    BY <1>3, <1>5
  <2> QED BY <1>10, <2>1
<1>12. <<first>> \in Seq(Stream!Frame) /\ Len(<<first>>) = 1 /\ <<first>>[1] = first
  BY <1>9
<1>13. /\ streamFrames' \in Seq(Stream!Frame) /\ Len(streamFrames') = 1 + w
       /\ streamFrames'[1] = first
       /\ \A i \in 1..w : streamFrames'[i + 1] = R(i)
  BY <1>5, <1>3, <1>11, <1>12
<1>14. Shakes(t, s)
  BY <1>13 DEF Shakes
<1>15. Replays(s, w)
  <2> SUFFICES ASSUME NEW r \in 1..w
               PROVE  /\ streamFrames'[r + 1].type = "event"
                      /\ streamFrames'[r + 1].sseId = s[r].sseId
                      /\ streamFrames'[r + 1].change = s[r].change
                      /\ streamFrames'[r + 1].rest = Len(s) - r
    BY DEF Replays
  <2>1. streamFrames'[r + 1] = R(r)
    BY <1>13
  <2> QED BY <2>1
<1>16. client' \in {"ended", "active"} /\ (client' = "active" => w = Len(s))
  BY <1>5
<1>17. PICK p : Places(s, c.sseId, Len(history), p)
  BY <1>3
<1>18. Answers(t, c.sseId, s, p, w)
  BY <1>3, <1>4, <1>5, <1>7, <1>13, <1>14, <1>15, <1>16, <1>17 DEF Answers
<1> QED BY <1>6, <1>18

\* The page connects with a number that it has.
Connects(t, c, s, p, w) ==
    /\ c \in {cursor, sourceId} /\ Answers(t, c.sseId, s, p, w) /\ Resumes(t, c)
    /\ nextSseId' = nextSseId + 1 /\ streamConnects' = streamConnects + 1
    /\ streamConnects < MaxStreams
    /\ source' = "open" /\ skipped' \subseteq {"overtaken", "aliased"}
    /\ UNCHANGED <<boot, history, streamChanges, cursor, hasSnapshot, seen, behind, overlaid,
        breaks>>
    /\ \/ sourceId' = Stream!NoId /\ url' = cursor /\ urlResume' \in BOOLEAN
       \/ source # "none" /\ UNCHANGED <<sourceId, url, urlResume>>

LEMMA ConnectsSo ==
    ASSUME StreamTyped, Stream!ConnectSse \/ Stream!SourceReconnects
    PROVE  \E t, c, s, p, w : Connects(t, c, s, p, w)
<1>1. cursor \in Stream!Cursor /\ sourceId \in Stream!Cursor /\ url \in Stream!Cursor
        /\ urlResume \in BOOLEAN
      /\ hasSnapshot \in BOOLEAN /\ skipped \subseteq {"overtaken", "aliased"}
  BY DEF StreamTyped, Stream!TypeOK
<1>2. ASSUME NEW c \in Stream!Cursor, NEW resume \in BOOLEAN, Stream!Connect(c, resume),
             c \in {cursor, sourceId},
             \/ sourceId' = Stream!NoId /\ url' = cursor /\ urlResume' \in BOOLEAN
             \/ source # "none" /\ UNCHANGED <<sourceId, url, urlResume>>
      PROVE  \E t, s, p, w : Connects(t, c, s, p, w)
  BY <1>2, ConnectAnswers, <1>1 DEF Stream!Connect, Connects
<1>3. CASE Stream!ConnectSse
  BY <1>1, <1>3, <1>2 DEF Stream!ConnectSse
<1>4. CASE Stream!SourceReconnects
  BY <1>4, <1>1, StreamTypes, <1>2 DEF Stream!SourceReconnects, StreamTyped, StreamFramesAreOf
<1> QED BY <1>3, <1>4

\* The envelopes of a replay are of this page, behind the number and in order.
LEMMA ReplayIs ==
    ASSUME StreamTyped, NEW x \in Nat, NEW s \in Seq(Stream!Entry), NEW p,
           Places(s, x, Len(history), p)
    PROVE  /\ Len(s) \in Nat
           /\ \A r \in 1..Len(s) : /\ s[r].sseId \in Nat /\ s[r].sseId > x
                                   /\ s[r].sseId <= nextSseId
                                   /\ s[r].change \in Stream!Change
                                   /\ s[r].change <= streamChanges
           /\ \A q, r \in 1..Len(s) : q < r => s[q].sseId < s[r].sseId
               /\ s[q].change < s[r].change
           /\ \A r \in 1..Len(s) : \E h \in 1..Len(history) : history[h] = s[r]
           /\ x > 0 => \A h \in 1..Len(history) : history[h].sseId > x
               /\ history[h].change # Stream!Other =>
                                                   \E r \in 1..Len(s) : s[r] = history[h]
<1>1. /\ nextSseId \in Nat /\ Len(history) \in Nat /\ history \in Seq(Stream!Entry)
      /\ \A h \in 1..Len(history) : history[h].sseId \in 1..nextSseId
          /\ history[h].change <= streamChanges
      /\ \A g, h \in 1..Len(history) : g < h => history[g].sseId < history[h].sseId
      /\ \A g, h \in 1..Len(history) :
            g < h /\ history[g].change # Stream!Other /\ history[h].change # Stream!Other =>
              history[g].change < history[h].change
  BY StreamTypes DEF StreamTyped, Stream!TypeOK, HistoryInOrder
<1>2. \A h \in 1..Len(history) : history[h].change # Stream!Other =>
        history[h].change \in Stream!Change
  <2>1. \A e \in Stream!Entry : e.change \in Stream!Change \cup {Stream!Other}
    BY DEF Stream!Entry
  <2> QED BY <1>1, <2>1
<1>3. /\ \A i \in 1..Len(s) : p[i] \in 1..Len(history) /\ s[i] = history[p[i]] /\ Wanted(x, p[i])
      /\ \A i, j \in 1..Len(s) : i < j => p[i] < p[j]
      /\ \A h \in 1..Len(history) : Wanted(x, h) => \E i \in 1..Len(s) : p[i] = h
  BY DEF Places
<1>4. \A r \in 1..Len(s) : /\ s[r].sseId \in Nat /\ s[r].sseId > x /\ s[r].sseId <= nextSseId
                           /\ s[r].change \in Stream!Change /\ s[r].change <= streamChanges
  BY <1>3, <1>1, <1>2 DEF Wanted
<1>5. ASSUME NEW q \in 1..Len(s), NEW r \in 1..Len(s), q < r
      PROVE  s[q].sseId < s[r].sseId /\ s[q].change < s[r].change
  <2>1. p[q] \in 1..Len(history) /\ p[r] \in 1..Len(history) /\ p[q] < p[r]
        /\ s[q] = history[p[q]] /\ s[r] = history[p[r]]
        /\ history[p[q]].change # Stream!Other /\ history[p[r]].change # Stream!Other
    BY <1>3, <1>5 DEF Wanted
  <2> QED BY <1>1, <2>1
<1>6. \A r \in 1..Len(s) : \E h \in 1..Len(history) : history[h] = s[r]
  BY <1>3
<1>7. ASSUME x > 0, NEW h \in 1..Len(history), history[h].sseId > x,
             history[h].change # Stream!Other
      PROVE  \E r \in 1..Len(s) : s[r] = history[h]
  BY <1>3, <1>7 DEF Wanted
<1> QED BY <1>4, <1>5, <1>6, <1>7

LEMMA ConnectTyped ==
    ASSUME StreamTyped, NEW t, NEW c, NEW s, NEW p, NEW w, Connects(t, c, s, p, w)
    PROVE  StreamTyped' /\ w \in Nat /\ c.sseId \in Nat
<1>1. /\ nextSseId \in Nat /\ streamChanges \in Nat /\ streamChanges <= MaxChanges
      /\ \A n \in Nat : n <= MaxIds + MaxStreams => n \in Stream!Id
      /\ cursor.sseId \in Nat /\ sourceId.sseId \in Nat /\ behind \in Nat
      /\ boot \in Nat \ {0} /\ streamConnects \in Nat
  BY StreamTypes DEF StreamTyped, Stream!TypeOK
<1>2. c.sseId \in Nat
  BY <1>1 DEF Connects
<1>3. /\ t \in {"hello", "snapshot"} /\ s \in Seq(Stream!Entry)
      /\ Places(s, c.sseId, Len(history), p)
      /\ w \in 0..Len(s) /\ streamFrames' \in Seq(Stream!Frame) /\ Len(streamFrames') = 1 + w
      /\ Shakes(t, s) /\ Replays(s, w)
      /\ client' \in {"ended", "active"}
  BY DEF Connects, Answers
<1>4. /\ Len(s) \in Nat
      /\ \A r \in 1..Len(s) : /\ s[r].sseId \in Nat /\ s[r].sseId > c.sseId
                              /\ s[r].sseId <= nextSseId
                              /\ s[r].change \in Stream!Change /\ s[r].change <= streamChanges
  BY <1>2, <1>3, ReplayIs
<1>5. w \in Nat /\ \A i \in 1..Len(streamFrames') : i = 1 \/ (i - 1 \in 1..w /\ (i - 1) + 1 = i)
  BY <1>3, <1>4
<1>6. /\ nextSseId' = nextSseId + 1 /\ streamConnects' = streamConnects + 1
      /\ streamConnects < MaxStreams
      /\ source' = "open" /\ skipped' \subseteq {"overtaken", "aliased"}
      /\ UNCHANGED <<boot, history, streamChanges, cursor, hasSnapshot, seen, behind, overlaid,
          breaks>>
      /\ \/ sourceId' = Stream!NoId /\ url' = cursor /\ urlResume' \in BOOLEAN
         \/ source # "none" /\ UNCHANGED <<sourceId, url, urlResume>>
  BY DEF Connects
<1>7. nextSseId + 1 <= MaxIds + (streamConnects + 1) /\ nextSseId + 1 \in Stream!Id
  BY <1>1, MCWebAssumption, <1>6 DEF StreamTyped, Numbered
<1>8. Stream!NoId \in Stream!Cursor
  BY MCWebAssumption DEF Stream!Id, Stream!NoId, Stream!Cursor
<1>9. Stream!TypeOK'
  BY <1>1, <1>6, <1>3, <1>8, <1>7 DEF StreamTyped, Stream!TypeOK
<1>10. \A i \in 1..Len(streamFrames') :
          /\ streamFrames'[i].sseId \in 1..(nextSseId + 1)
          /\ streamFrames'[i].change <= streamChanges
          /\ i # 1 => streamFrames'[i].type = "event" /\ streamFrames'[i].change # Stream!Other
          /\ i = 1 => streamFrames'[i].type # "event"
  <2> SUFFICES ASSUME NEW i \in 1..Len(streamFrames')
               PROVE  /\ streamFrames'[i].sseId \in 1..(nextSseId + 1)
                      /\ streamFrames'[i].change <= streamChanges
                      /\ i # 1 => streamFrames'[i].type = "event"
                          /\ streamFrames'[i].change # Stream!Other
                      /\ i = 1 => streamFrames'[i].type # "event"
    OBVIOUS
  <2>1. CASE i = 1
    BY <1>1, <1>3, <2>1 DEF Shakes
  <2>2. CASE i - 1 \in 1..w /\ (i - 1) + 1 = i
    <3>1. i - 1 \in 1..Len(s)
      BY <1>3, <1>4, <2>2
    <3>2. /\ streamFrames'[i].type = "event" /\ streamFrames'[i].sseId = s[i - 1].sseId
          /\ streamFrames'[i].change = s[i - 1].change
      BY <1>3, <2>2 DEF Replays
    <3>3. s[i - 1].change # Stream!Other
      BY <1>4, <3>1 DEF Stream!Change, Stream!Other
    <3>4. s[i - 1].sseId \in 1..(nextSseId + 1)
      BY <1>1, <1>2, <1>4, <3>1
    <3> QED BY <1>4, <2>2, <3>1, <3>2, <3>3, <3>4
  <2> QED BY <1>5, <2>1, <2>2
<1>11. Numbered'
  BY <1>1, <1>6, MCWebAssumption, <1>7, <1>10 DEF StreamTyped, Numbered, Stream!NoId
<1>12. HistoryInOrder'
  BY <1>1, <1>6 DEF StreamTyped, HistoryInOrder, Stream!Other
<1>13. StreamFramesAreOf'
  BY <1>3, <1>5, <1>10, <1>6, <1>1 DEF StreamTyped, StreamFramesAreOf, Shakes, Numbered,
     IsHandshake, IsEvent, Stream!Other
<1> QED BY <1>2, <1>5, <1>9, <1>11, <1>12, <1>13 DEF StreamTyped

LEMMA ConnectPage ==
    ASSUME StreamTyped, PageSound, PageOnce, NEW t, NEW c, NEW s, NEW p, NEW w,
           Connects(t, c, s, p, w)
    PROVE  PageSound' /\ PageOnce'
<1>1. /\ UNCHANGED <<boot, history, streamChanges, cursor, hasSnapshot, seen, behind, overlaid,
          breaks>>
      /\ sourceId' \in {sourceId, Stream!NoId} /\ (skipped' = {} => skipped = {})
      /\ boot \in Nat \ {0}
  BY StreamTypes DEF Connects, Resumes, StreamTyped
<1>2. \A x : Rests(x)' <=> Rests(x)
  BY <1>1 DEF Rests, Missing, InHistory
<1>3. \A x : Unseen(x)' <=> Unseen(x)
  BY <1>1 DEF Unseen, Stream!Other
<1>4. \A d : Reaches(d)' <=> Reaches(d)
  BY <1>1, <1>2 DEF Reaches
<1>5. PageSound'
  BY <1>1, <1>4 DEF PageSound, Sound, Stream!InOrder, Reaches, Stream!NoId
<1>6. PageOnce'
  BY <1>1, <1>3 DEF PageOnce, Stream!Change, Unseen, Stream!NoId
<1> QED BY <1>5, <1>6

LEMMA ConnectByThen ==
    ASSUME StreamTyped, NEW t, NEW c, NEW s, NEW p, NEW w, Connects(t, c, s, p, w)
    PROVE  /\ Renews' <=> t = "snapshot"
           /\ \A k \in Nat, i \in 1..(1 + w) :
                 ByThen(k, i)' <=> \/ IF t = "snapshot" THEN k <= streamChanges ELSE seen[k] >= 1
                                   \/ \E r \in 1..(i - 1) : s[r].change = k
<1>1. w \in Nat
  BY ConnectTyped
<1>2. /\ t \in {"hello", "snapshot"} /\ streamFrames' \in Seq(Stream!Frame)
      /\ Len(streamFrames') = 1 + w
      /\ Shakes(t, s) /\ Replays(s, w) /\ seen' = seen
  BY DEF Connects, Answers
<1>3. /\ streamFrames' # <<>> /\ streamFrames'[1].type = t
      /\ (t = "snapshot" => streamFrames'[1].change = streamChanges)
      /\ \A r \in 1..w : streamFrames'[r + 1].type = "event"
          /\ streamFrames'[r + 1].change = s[r].change
  BY <1>1, <1>2 DEF Shakes, Replays
<1>4. Renews' <=> t = "snapshot"
  BY <1>3 DEF Renews
<1>5. ASSUME NEW k \in Nat, NEW i \in 1..(1 + w)
      PROVE  InFrames(k, i)' <=> \E r \in 1..(i - 1) : s[r].change = k
  <2>1. \A h \in 1..i : h = 1 \/ (h - 1 \in 1..w /\ h - 1 \in 1..(i - 1) /\ (h - 1) + 1 = h)
    BY <1>1
  <2>2. \A r \in 1..(i - 1) : r + 1 \in 1..i /\ r \in 1..w
    BY <1>1
  <2>3. InFrames(k, i)' <=> \E h \in 1..i : streamFrames'[h].type = "event"
          /\ streamFrames'[h].change = k
    BY DEF InFrames, IsEvent
  <2>4. ASSUME NEW h \in 1..i, streamFrames'[h].type = "event", streamFrames'[h].change = k
        PROVE  \E r \in 1..(i - 1) : s[r].change = k
    BY <1>2, <1>3, <2>1, <2>4
  <2>5. ASSUME NEW r \in 1..(i - 1), s[r].change = k
        PROVE  \E h \in 1..i : streamFrames'[h].type = "event" /\ streamFrames'[h].change = k
    BY <1>3, <2>2, <2>5
  <2> QED BY <2>3, <2>4, <2>5
<1>6. \A k \in Nat : Base(k)' <=> IF t = "snapshot" THEN k <= streamChanges ELSE seen[k] >= 1
  BY <1>2, <1>3, <1>4 DEF Base
<1> QED BY <1>4, <1>5, <1>6 DEF ByThen

\* A page without a gap that gets a hello gets everything that it lacks.
LEMMA ConnectBrings ==
    ASSUME StreamTyped, PageSound, NEW t, NEW c, NEW s, NEW p, NEW w, Connects(t, c, s, p, w),
           t = "hello", Sound'
    PROVE  \A k \in 1..streamChanges : seen[k] >= 1 \/ \E r \in 1..Len(s) : s[r].change = k
<1>1. /\ Sound /\ c.boot = boot /\ (behind = 0 \/ c.sseId < behind) /\ c \in {cursor, sourceId}
      /\ Stream!CanReplayFrom(c.sseId) /\ s \in Seq(Stream!Entry)
      /\ Places(s, c.sseId, Len(history), p)
  BY DEF Connects, Resumes, Answers, Sound
<1>2. /\ c.sseId \in Nat /\ Len(history) \in Nat /\ Len(history) <= HistorySize
      /\ history \in Seq(Stream!Entry)
  BY ConnectTyped, StreamTypes DEF StreamTyped, Stream!TypeOK
<1>3. Rests(c.sseId)
  BY <1>1 DEF PageSound, Reaches
<1>4. /\ c.sseId > 0
      /\ \A h \in 1..Len(history) : history[h].sseId > c.sseId
          /\ history[h].change # Stream!Other =>
            \E r \in 1..Len(s) : s[r] = history[h]
  BY <1>1, <1>2, ReplayIs DEF Stream!CanReplayFrom
<1> SUFFICES ASSUME NEW k \in 1..streamChanges, Missing(k, c.sseId)
             PROVE  \E r \in 1..Len(s) : s[r].change = k
  BY <1>3 DEF Rests
<1>5. HistorySize # 0 /\ ~(history[1].sseId > c.sseId + 1)
  <2>1. history # <<>> /\ c.sseId + 1 >= history[1].sseId
    BY <1>1 DEF Stream!CanReplayFrom
  <2>2. 1 \in 1..Len(history)
    BY <1>2, <2>1
  <2>3. history[1].sseId \in Nat
    BY <2>2, StreamTypes DEF StreamTyped
  <2> QED BY <1>2, <2>1, <2>2, <2>3, MCWebAssumption
<1>6. PICK h \in 1..Len(history) : history[h].change = k /\ history[h].sseId > c.sseId
  BY <1>5 DEF Missing, InHistory
<1> QED BY <1>4, <1>6 DEF Stream!Other

LEMMA ConnectSound ==
    ASSUME StreamTyped, PageSound, NEW t, NEW c, NEW s, NEW p, NEW w, Connects(t, c, s, p, w)
    PROVE  FramesSound'
<1>1. w \in Nat /\ c.sseId \in Nat /\ StreamTyped'
  BY ConnectTyped
<1>2. /\ t \in {"hello", "snapshot"} /\ s \in Seq(Stream!Entry)
      /\ Places(s, c.sseId, Len(history), p)
      /\ w \in 0..Len(s) /\ streamFrames' \in Seq(Stream!Frame) /\ Len(streamFrames') = 1 + w
      /\ Shakes(t, s) /\ Replays(s, w)
      /\ (client' = "active" => w = Len(s)) /\ (t = "hello" => Stream!CanReplayFrom(c.sseId))
      /\ UNCHANGED <<boot, history, streamChanges, cursor, hasSnapshot, seen, behind>>
      /\ nextSseId' = nextSseId + 1
  BY DEF Connects, Answers
<1>3. /\ Len(s) \in Nat
      /\ \A r \in 1..Len(s) : /\ s[r].sseId \in Nat /\ s[r].sseId > c.sseId
                              /\ s[r].sseId <= nextSseId
                              /\ s[r].change \in Stream!Change /\ s[r].change <= streamChanges
      /\ \A q, r \in 1..Len(s) : q < r => s[q].sseId < s[r].sseId /\ s[q].change < s[r].change
      /\ \A r \in 1..Len(s) : \E h \in 1..Len(history) : history[h] = s[r]
  BY <1>1, <1>2, ReplayIs
<1>4. /\ Renews' <=> t = "snapshot"
      /\ \A k \in Nat, i \in 1..(1 + w) :
            ByThen(k, i)' <=> \/ IF t = "snapshot" THEN k <= streamChanges ELSE seen[k] >= 1
                              \/ \E r \in 1..(i - 1) : s[r].change = k
  BY ConnectByThen
<1>5. /\ streamChanges \in Nat /\ nextSseId \in Nat
      /\ \A i \in 1..Len(streamFrames') : streamFrames'[i].sseId \in Nat
          /\ streamFrames'[i].change \in Nat
                                    /\ streamFrames'[i].change <= streamChanges
      /\ cursor.sseId \in Nat
      /\ \A k \in Stream!Change : k \in Nat
  <2>1. \A i \in 1..Len(streamFrames') : streamFrames'[i].change <= streamChanges
    BY <1>1, <1>2 DEF StreamTyped, StreamFramesAreOf
  <2>2. \A i \in 1..Len(streamFrames') : streamFrames'[i] \in Stream!Frame
    BY <1>2
  <2>3. \A f \in Stream!Frame : f.sseId \in Stream!Id /\ f.change \in 0..MaxChanges
    BY DEF Stream!Frame
  <2>4. \A x \in Stream!Id : x \in Nat
    BY MCWebAssumption DEF Stream!Id
  <2> QED BY <2>1, <2>2, <2>3, <2>4, StreamTypes, MCWebAssumption DEF StreamTyped
<1>6. \A i \in 1..Len(streamFrames') : i \in 1..(1 + w)
        /\ (i = 1 \/ (i - 1 \in 1..w /\ (i - 1) + 1 = i))
  BY <1>1, <1>2
<1> SUFFICES ASSUME Renews' \/ Sound'
             PROVE  FramesInOrder' /\ FramesBringAll' /\ FramesReach' /\ FramesSettle'
  BY DEF FramesSound
<1> SUFFICES /\ \A i \in 1..(1 + w) : streamFrames'[i].type = "event" =>
                 \A j \in 1..streamFrames'[i].change : ByThen(j, i)'
             /\ w = Len(s) => \A k \in 1..streamChanges : ByThen(k, 1 + w)'
             /\ \A i \in 1..(1 + w) :
                 ~(streamFrames'[i].type = "hello" /\ streamFrames'[i].rest > 0) =>
                   \A k \in 1..streamChanges :
                       ByThen(k, i)' \/ \A x \in Nat : x = streamFrames'[i].sseId => Missing(k, x)
             /\ \A i \in 1..(1 + w) : streamFrames'[i].rest = 0 => \A k \in 1..streamChanges :
                 ByThen(k, i)'
  <2>1. FramesInOrder'
    BY <1>2 DEF FramesInOrder, IsEvent
  <2>2. FramesBringAll'
    BY <1>2, <1>1 DEF FramesBringAll, ByThen, InFrames, Base, IsEvent, Renews
  <2>3. \A k, x : Missing(k, x)' <=> Missing(k, x)
    BY <1>2 DEF Missing, InHistory
  <2>4. FramesReach'
    <3>1. ASSUME NEW i \in 1..Len(streamFrames'),
                 ~(streamFrames'[i].type = "hello" /\ streamFrames'[i].rest > 0)
          PROVE  After(i, streamFrames[i].sseId)'
      <4>1. \A k \in 1..streamChanges :
              ByThen(k, i)' \/ \A x \in Nat : x = streamFrames'[i].sseId => Missing(k, x)'
        BY <1>2, <2>3, <3>1
      <4>2. \A k \in 1..streamChanges : ByThen(k, i)' \/ Missing(k, streamFrames[i].sseId)'
        BY <1>5, <4>1 DEF Missing, InHistory
      <4> QED BY <1>2, <4>2 DEF After
    <3> QED BY <3>1 DEF FramesReach
  <2>5. FramesSettle'
    BY <1>2 DEF After, FramesSettle
  <2> QED BY <2>1, <2>2, <2>4, <2>5
<1>7. CASE t = "snapshot"
  BY <1>4, <1>7, <1>1, <1>5, <1>2
<1>8. CASE t = "hello"
  <2>1. Sound'
    BY <1>4, <1>8
  <2>2. \A k \in 1..streamChanges : seen[k] >= 1 \/ \E r \in 1..Len(s) : s[r].change = k
    BY <1>8, <2>1, ConnectBrings
  <2>3. /\ streamFrames'[1].type = "hello" /\ streamFrames'[1].rest = Len(s)
        /\ \A r \in 1..w : /\ streamFrames'[r + 1].type = "event"
                           /\ streamFrames'[r + 1].sseId = s[r].sseId
                           /\ streamFrames'[r + 1].change = s[r].change
                           /\ streamFrames'[r + 1].rest = Len(s) - r
    BY <1>2, <1>8 DEF Shakes, Replays
  <2>4. \A k \in Nat, i \in 1..(1 + w) :
            ByThen(k, i)' <=> seen[k] >= 1 \/ \E r \in 1..(i - 1) : s[r].change = k
    BY <1>4, <1>8
  <2>5. ASSUME NEW i \in 1..(1 + w), streamFrames'[i].type = "event",
               NEW j \in 1..streamFrames'[i].change
        PROVE  ByThen(j, i)'
    <3>1. i # 1 /\ i - 1 \in 1..w /\ (i - 1) + 1 = i /\ i - 1 \in 1..Len(s)
      BY <1>1, <1>2, <1>3, <2>3, <2>5
    <3>2. streamFrames'[i].change = s[i - 1].change
      BY <2>3, <3>1
    <3>3. j \in 1..streamChanges /\ j \in Nat /\ j <= s[i - 1].change
      BY <1>3, <1>5, <3>1, <3>2
    <3>4. ASSUME NEW r \in 1..Len(s), s[r].change = j PROVE r \in 1..(i - 1)
      <4>1. ~(i - 1 < r)
        <5> SUFFICES ASSUME i - 1 < r PROVE FALSE
          OBVIOUS
        <5>1. s[i - 1].change < s[r].change
          BY <1>3, <3>1
        <5>2. s[i - 1].change \in Nat
          BY <1>3, <1>5, <3>1
        <5> QED BY <3>3, <3>4, <5>1, <5>2
      <4> QED BY <1>1, <1>3, <3>1, <4>1
    <3> QED BY <2>2, <2>4, <3>3, <3>4
  <2>6. ASSUME w = Len(s), NEW k \in 1..streamChanges PROVE ByThen(k, 1 + w)'
    BY <1>1, <2>6, <2>2, <2>4
  <2>7. ASSUME NEW i \in 1..(1 + w), streamFrames'[i].rest = 0, NEW k \in 1..streamChanges
        PROVE ByThen(k, i)'
    <3>1. i - 1 = Len(s)
      <4>1. CASE i = 1
        BY <1>3, <2>3, <2>7, <4>1
      <4>2. CASE i # 1
        <5>1. i - 1 \in 1..w /\ (i - 1) + 1 = i
          BY <1>1, <4>2
        <5>2. streamFrames'[i].rest = Len(s) - (i - 1)
          BY <2>3, <5>1
        <5> QED BY <1>1, <1>3, <2>7, <5>1, <5>2
      <4> QED BY <4>1, <4>2
    <3>2. k \in Nat
      OBVIOUS
    <3> QED BY <2>2, <2>4, <3>1, <3>2
  <2>8. ASSUME NEW i \in 1..(1 + w),
               ~(streamFrames'[i].type = "hello" /\ streamFrames'[i].rest > 0),
               NEW k \in 1..streamChanges, ~ByThen(k, i)', NEW x \in Nat,
               x = streamFrames'[i].sseId
        PROVE  Missing(k, x)
    <3>1. i # 1
      BY <1>3, <2>3, <2>8, <2>7
    <3>2. i - 1 \in 1..w /\ (i - 1) + 1 = i /\ i - 1 \in 1..Len(s)
      BY <1>1, <1>2, <1>3, <3>1
    <3>3. x = s[i - 1].sseId
      BY <2>3, <2>8, <3>2
    <3>4. k \in Nat
      OBVIOUS
    <3>5. PICK r \in 1..Len(s) : s[r].change = k /\ ~(r \in 1..(i - 1))
      BY <2>2, <2>4, <2>8, <3>4
    <3>6. s[r].sseId > x
      <4>1. i - 1 < r
        BY <1>1, <1>3, <3>2, <3>5
      <4>2. s[i - 1].sseId < s[r].sseId /\ s[r].sseId \in Nat
        BY <1>3, <3>2, <4>1
      <4> QED BY <2>8, <3>3, <4>2
    <3>7. PICK h \in 1..Len(history) : history[h] = s[r]
      BY <1>3
    <3> QED BY <3>5, <3>6, <3>7 DEF Missing, InHistory
  <2> QED BY <2>5, <2>6, <2>7, <2>8
<1> QED BY <1>2, <1>7, <1>8

LEMMA ConnectOnce ==
    ASSUME StreamTyped, PageOnce, NEW t, NEW c, NEW s, NEW p, NEW w, Connects(t, c, s, p, w)
    PROVE  FramesOnce'
<1>1. w \in Nat /\ c.sseId \in Nat /\ StreamTyped'
  BY ConnectTyped
<1>2. /\ t \in {"hello", "snapshot"} /\ s \in Seq(Stream!Entry)
      /\ Places(s, c.sseId, Len(history), p)
      /\ w \in 0..Len(s) /\ streamFrames' \in Seq(Stream!Frame) /\ Len(streamFrames') = 1 + w
      /\ Shakes(t, s) /\ Replays(s, w)
      /\ (t = "hello" => Stream!CanReplayFrom(c.sseId)) /\ c \in {cursor, sourceId}
      /\ UNCHANGED <<history, seen, overlaid>>
      /\ nextSseId' = nextSseId + 1
  BY DEF Connects, Answers
<1>3. /\ Len(s) \in Nat
      /\ \A r \in 1..Len(s) : /\ s[r].sseId \in Nat /\ s[r].sseId > c.sseId
                              /\ s[r].sseId <= nextSseId
                              /\ s[r].change \in Stream!Change /\ s[r].change <= streamChanges
      /\ \A q, r \in 1..Len(s) : q < r => s[q].sseId < s[r].sseId /\ s[q].change < s[r].change
      /\ \A r \in 1..Len(s) : \E h \in 1..Len(history) : history[h] = s[r]
      /\ c.sseId > 0 => \A h \in 1..Len(history) : history[h].sseId > c.sseId
          /\ history[h].change # Stream!Other =>
                                                   \E r \in 1..Len(s) : s[r] = history[h]
  BY <1>1, <1>2, ReplayIs
<1>4. /\ Renews' <=> t = "snapshot"
      /\ \A k \in Nat, i \in 1..(1 + w) :
            ByThen(k, i)' <=> \/ IF t = "snapshot" THEN k <= streamChanges ELSE seen[k] >= 1
                              \/ \E r \in 1..(i - 1) : s[r].change = k
  BY ConnectByThen
<1>5. /\ nextSseId \in Nat
      /\ \A h \in 1..Len(history) : history[h].sseId \in 1..nextSseId /\ history[h].change \in Nat
      /\ \A k \in Stream!Change : k \in Nat /\ seen[k] \in Nat
  BY StreamTypes DEF StreamTyped, HistoryInOrder
<1>6. /\ streamFrames'[1].type = t /\ streamFrames'[1].rest = Len(s)
      /\ streamFrames'[1].sseId = nextSseId + 1
      /\ \A r \in 1..w : /\ streamFrames'[r + 1].type = "event"
                         /\ streamFrames'[r + 1].sseId = s[r].sseId
                         /\ streamFrames'[r + 1].change = s[r].change
  BY <1>2 DEF Shakes, Replays
<1>7. \A i \in 1..(1 + w) : i = 1 \/ (i - 1 \in 1..w /\ (i - 1) + 1 = i /\ i - 1 \in 1..Len(s))
  BY <1>1, <1>2, <1>3
<1> SUFFICES ASSUME ~Overlays'
             PROVE  \A i \in 1..(1 + w) :
                /\ streamFrames'[i].type = "event" => \A k : k = streamFrames'[i].change =>
                    ~ByThen(k, i - 1)'
                /\ \A h \in 1..Len(history) : history[h].sseId > streamFrames'[i].sseId
                    /\ history[h].change # Stream!Other =>
                      \A k : k = history[h].change => ~ByThen(k, i)'
  BY <1>2 DEF FramesOnce, IsEvent, Stream!Other, ByThen, Base, InFrames, Renews
\* Behind the handshake's own number nothing is in the history.
<1>8. ASSUME NEW h \in 1..Len(history), history[h].sseId > streamFrames'[1].sseId PROVE FALSE
  BY <1>5, <1>6, <1>8
<1>9. CASE t = "snapshot"
  BY <1>4, <1>9, <1>3, <1>6, <1>1, <1>2, <1>8 DEF Overlays
<1>10. CASE t = "hello"
  <2>1. Unseen(c.sseId) /\ c.sseId > 0
    BY <1>2, <1>4, <1>10 DEF Overlays, Stream!CanReplayFrom, PageOnce
  <2>2. \A r \in 1..Len(s) : seen[s[r].change] = 0
    BY <1>3, <2>1 DEF Stream!Change, Stream!Other, Unseen
  <2>3. \A k \in Nat, i \in 1..(1 + w) :
            ByThen(k, i)' <=> seen[k] >= 1 \/ \E r \in 1..(i - 1) : s[r].change = k
    BY <1>4, <1>10
  \* A replayed envelope is not there before its place.
  <2>4. ASSUME NEW r \in 1..Len(s), NEW i \in 1..(1 + w), i <= r, NEW k, k = s[r].change
        PROVE  ~ByThen(k, i)'
    <3>1. k \in Nat /\ ~(seen[k] >= 1)
      BY <1>3, <1>5, <2>2, <2>4
    <3>2. ASSUME NEW q \in 1..(i - 1), s[q].change = k PROVE FALSE
      BY <1>1, <1>3, <2>4, <3>1, <3>2
    <3> QED BY <2>3, <3>1, <3>2
  <2>5. ASSUME NEW i \in 1..(1 + w), streamFrames'[i].type = "event", NEW k,
               k = streamFrames'[i].change
        PROVE  ~ByThen(k, i - 1)'
    BY <1>1, <1>6, <1>7, <1>10, <2>5, <2>4
  <2>6. ASSUME NEW i \in 1..(1 + w), NEW h \in 1..Len(history),
               history[h].sseId > streamFrames'[i].sseId,
               history[h].change # Stream!Other, NEW k, k = history[h].change
        PROVE  ~ByThen(k, i)'
    <3>1. i # 1
      BY <1>8, <2>6
    <3>2. i - 1 \in 1..w /\ (i - 1) + 1 = i /\ i - 1 \in 1..Len(s)
      BY <1>7, <3>1
    <3>3. history[h].sseId > s[i - 1].sseId /\ s[i - 1].sseId \in Nat /\ s[i - 1].sseId > c.sseId
          /\ history[h].sseId \in Nat
      BY <1>6, <3>2, <1>3, <1>5, <2>6
    <3>4. PICK r \in 1..Len(s) : s[r] = history[h]
      <4>1. history[h].sseId > c.sseId
        BY <1>1, <3>3
      <4> QED BY <1>3, <2>1, <2>6, <4>1
    <3>5. i <= r
      <4> SUFFICES ASSUME ~(i <= r) PROVE FALSE
        OBVIOUS
      <4>1. r = i - 1 \/ r < i - 1
        BY <1>1, <1>3
      <4>2. r < i - 1 => s[r].sseId < s[i - 1].sseId
        BY <1>3, <3>2
      <4> QED BY <3>3, <3>4, <4>1, <4>2
    <3> QED BY <2>4, <2>6, <3>4, <3>5
  <2> QED BY <2>5, <2>6
<1> QED BY <1>2, <1>9, <1>10

LEMMA ConnectKeeps ==
    ASSUME StreamInv, Stream!ConnectSse \/ Stream!SourceReconnects
    PROVE  StreamInv'
<1>1. StreamTyped /\ PageSound /\ FramesSound /\ PageOnce /\ FramesOnce
  BY DEF StreamInv
<1>2. PICK t, c, s, p, w : Connects(t, c, s, p, w)
  BY <1>1, ConnectsSo
<1> QED BY <1>1, <1>2, ConnectTyped, ConnectPage, ConnectSound, ConnectOnce DEF StreamInv

\* The page reads the first frame: what it had with that frame it has now.
LEMMA ReceiveIs ==
    ASSUME StreamTyped, Stream!Receive
    PROVE  /\ Len(streamFrames) \in Nat \ {0} /\ Len(streamFrames') = Len(streamFrames) - 1
           /\ streamFrames' \in Seq(Stream!Frame)
           /\ streamFrames # <<>> /\ streamFrames[1] \in Stream!Frame
           /\ \A i \in 1..Len(streamFrames') : streamFrames'[i] = streamFrames[i + 1]
           /\ sourceId' = [sseId |-> streamFrames[1].sseId, boot |-> boot]
           /\ cursor' = IF streamFrames[1].sseId > cursor.sseId THEN sourceId' ELSE cursor
           /\ hasSnapshot' = (hasSnapshot \/ streamFrames[1].type = "snapshot")
           /\ seen' =
                 IF streamFrames[1].type = "snapshot"
                 THEN [k \in Stream!Change |-> IF k <= streamFrames[1].change THEN 1 ELSE 0]
                 ELSE IF streamFrames[1].type = "event"
                 THEN [seen EXCEPT ![streamFrames[1].change] = @ + 1]
                 ELSE seen
           /\ behind' =
                 IF streamFrames[1].type = "snapshot" \/ streamFrames[1].rest = 0 THEN 0
                 ELSE IF streamFrames[1].type = "hello" THEN streamFrames[1].sseId
                 ELSE behind
           /\ skipped' = IF streamFrames[1].type = "snapshot" THEN {} ELSE skipped
           /\ overlaid' =
                 IF streamFrames[1].type = "snapshot" THEN streamFrames[1].rest > 0
                 ELSE overlaid
           /\ UNCHANGED <<boot, nextSseId, history, streamChanges, client, source, url,
               urlResume, streamConnects, breaks>>
           /\ ~Renews'
<1>1. /\ streamFrames \in Seq(Stream!Frame) /\ streamFrames # <<>>
      /\ streamFrames' = Tail(streamFrames)
  BY DEF StreamTyped, Stream!TypeOK, Stream!Receive
<1>2. /\ Len(streamFrames) \in Nat \ {0} /\ Len(streamFrames') = Len(streamFrames) - 1
      /\ streamFrames' \in Seq(Stream!Frame)
      /\ \A i \in 1..Len(streamFrames') : streamFrames'[i] = streamFrames[i + 1]
      /\ streamFrames[1] \in Stream!Frame
  BY <1>1
<1>3. ~Renews'
  BY <1>2 DEF Renews, StreamTyped, StreamFramesAreOf, IsHandshake
<1>4. Head(streamFrames) = streamFrames[1]
  BY <1>1
<1> QED BY <1>1, <1>2, <1>3, <1>4 DEF Stream!Receive, Stream!Apply, Stream!hostVars

LEMMA ReceiveByThen ==
    ASSUME StreamTyped, Stream!Receive
    PROVE  /\ \A k \in Stream!Change : (seen'[k] >= 1 <=> ByThen(k, 1)) /\ seen'[k] \in Nat
           /\ \A k \in Stream!Change, i \in Nat : i < Len(streamFrames) =>
               (ByThen(k, i)' <=> ByThen(k, i + 1))
           /\ seen' \in [Stream!Change -> Nat]
<1>1. /\ Len(streamFrames) \in Nat \ {0} /\ Len(streamFrames') = Len(streamFrames) - 1
      /\ streamFrames # <<>> /\ streamFrames[1] \in Stream!Frame
      /\ \A i \in 1..Len(streamFrames') : streamFrames'[i] = streamFrames[i + 1]
      /\ seen' =
            IF streamFrames[1].type = "snapshot"
            THEN [k \in Stream!Change |-> IF k <= streamFrames[1].change THEN 1 ELSE 0]
            ELSE IF streamFrames[1].type = "event"
            THEN [seen EXCEPT ![streamFrames[1].change] = @ + 1]
            ELSE seen
      /\ ~Renews'
  BY ReceiveIs
<1>2. seen \in [Stream!Change -> Nat] /\ (\A k \in Stream!Change : seen[k] \in Nat)
  BY DEF StreamTyped, Stream!TypeOK
<1>3. \A k \in Nat : InFrames(k, 1) <=> streamFrames[1].type = "event"
        /\ streamFrames[1].change = k
  BY DEF InFrames, IsEvent
<1>4. ASSUME NEW k \in Stream!Change PROVE (seen'[k] >= 1 <=> ByThen(k, 1)) /\ seen'[k] \in Nat
  BY StreamTypes, <1>1, <1>3, <1>2 DEF StreamTyped, Renews, ByThen, Base
<1>5. ASSUME NEW k \in Stream!Change, NEW i \in Nat, i < Len(streamFrames)
      PROVE  ByThen(k, i)' <=> ByThen(k, i + 1)
  <2>0. k \in Nat
    BY StreamTypes DEF StreamTyped
  <2>1. ByThen(k, i)' <=> seen'[k] >= 1 \/ \E h \in 1..i : streamFrames'[h].type = "event"
          /\ streamFrames'[h].change = k
    BY <1>1 DEF ByThen, Base, InFrames, IsEvent
  <2>2. ByThen(k, i + 1) <=> Base(k) \/ \E h \in 1..(i + 1) : streamFrames[h].type = "event"
          /\ streamFrames[h].change = k
    BY DEF ByThen, InFrames, IsEvent
  <2>3. seen'[k] >= 1 <=>
          Base(k) \/ (streamFrames[1].type = "event" /\ streamFrames[1].change = k)
    BY <1>3, <1>4, <2>0 DEF ByThen
  <2>4. \A h \in 1..i : streamFrames'[h] = streamFrames[h + 1] /\ h + 1 \in 1..(i + 1)
    BY <1>1, <1>5
  <2>5. \A h \in 1..(i + 1) : h = 1 \/ (h - 1 \in 1..i /\ streamFrames'[h - 1] = streamFrames[h])
    BY <2>4
  <2>6. 1 \in 1..(i + 1)
    OBVIOUS
  <2>7. (\E h \in 1..(i + 1) : streamFrames[h].type = "event" /\ streamFrames[h].change = k) <=>
           \/ streamFrames[1].type = "event" /\ streamFrames[1].change = k
           \/ \E h \in 1..i : streamFrames'[h].type = "event" /\ streamFrames'[h].change = k
    BY <2>4, <2>5, <2>6
  <2> QED BY <2>1, <2>2, <2>3, <2>7
<1>6. seen' \in [Stream!Change -> Nat]
  BY <1>1, <1>2, <1>4
<1> QED BY <1>4, <1>5, <1>6

LEMMA ReceiveTyped ==
    ASSUME StreamTyped, Stream!Receive
    PROVE  StreamTyped'
<1>1. /\ Len(streamFrames) \in Nat \ {0} /\ Len(streamFrames') = Len(streamFrames) - 1
      /\ streamFrames' \in Seq(Stream!Frame)
      /\ streamFrames # <<>> /\ streamFrames[1] \in Stream!Frame
      /\ \A i \in 1..Len(streamFrames') : streamFrames'[i] = streamFrames[i + 1]
      /\ sourceId' = [sseId |-> streamFrames[1].sseId, boot |-> boot]
      /\ cursor' = IF streamFrames[1].sseId > cursor.sseId THEN sourceId' ELSE cursor
      /\ hasSnapshot' = (hasSnapshot \/ streamFrames[1].type = "snapshot")
      /\ behind' =
            IF streamFrames[1].type = "snapshot" \/ streamFrames[1].rest = 0 THEN 0
            ELSE IF streamFrames[1].type = "hello" THEN streamFrames[1].sseId
            ELSE behind
      /\ skipped' = IF streamFrames[1].type = "snapshot" THEN {} ELSE skipped
      /\ overlaid' =
            IF streamFrames[1].type = "snapshot" THEN streamFrames[1].rest > 0
            ELSE overlaid
      /\ UNCHANGED <<boot, nextSseId, history, streamChanges, client, source, url, urlResume,
          streamConnects, breaks>>
  BY ReceiveIs
<1>2. \A i \in 1..Len(streamFrames') : i + 1 \in 2..Len(streamFrames)
        /\ i + 1 \in 1..Len(streamFrames)
  BY <1>1
<1>3. \A i \in 1..Len(streamFrames) : streamFrames[i].sseId \in 1..nextSseId
  BY DEF StreamTyped, Numbered
<1>4. 1 \in 1..Len(streamFrames)
  BY <1>1
<1>5. /\ streamFrames[1].sseId \in 1..nextSseId /\ streamFrames[1].sseId \in Stream!Id
  BY <1>1, <1>3, <1>4 DEF Stream!Frame
<1>6. /\ nextSseId \in Nat /\ boot \in Nat \ {0} /\ behind \in Nat
  BY StreamTypes DEF StreamTyped
<1>7. Stream!TypeOK'
  <2>1. sourceId' \in Stream!Cursor
    BY MCWebAssumption, <1>1, <1>5 DEF StreamTyped, Stream!TypeOK, Stream!Cursor
  <2>2. cursor' \in Stream!Cursor
    BY <1>1, <2>1 DEF StreamTyped, Stream!TypeOK
  <2>3. /\ hasSnapshot' \in BOOLEAN /\ skipped' \subseteq {"overtaken", "aliased"}
        /\ overlaid' \in BOOLEAN
    <3>1. /\ (streamFrames[1].rest > 0) \in BOOLEAN
          /\ (streamFrames[1].type = "snapshot") \in BOOLEAN
      BY <1>1 DEF Stream!Frame
    <3> QED BY <1>1, <3>1 DEF StreamTyped, Stream!TypeOK
  <2>4. behind' \in Stream!Id
    BY MCWebAssumption, <1>1, <1>5 DEF Stream!Id, StreamTyped, Stream!TypeOK
  <2>5. seen' \in [Stream!Change -> Nat]
    BY ReceiveByThen
  <2> QED BY <1>1, <2>1, <2>2, <2>3, <2>4, <2>5 DEF StreamTyped, Stream!TypeOK
<1>8. Numbered'
  <2>1. \A i \in 1..Len(streamFrames') : streamFrames'[i].sseId \in 1..nextSseId
    BY <1>1, <1>2, <1>3
  <2>2. sourceId'.boot = boot /\ sourceId'.sseId <= nextSseId
    BY <1>1, <1>5, <1>6
  <2>3. cursor'.boot <= boot /\ (cursor'.boot = boot => cursor'.sseId <= nextSseId)
    BY <1>1, <1>6, <2>2 DEF StreamTyped, Numbered
  <2>4. behind' <= nextSseId
    BY <1>1, <1>5, <1>6 DEF StreamTyped, Numbered
  <2> QED BY <1>1, <1>6, <2>1, <2>2, <2>3, <2>4 DEF StreamTyped, Numbered
<1>9. HistoryInOrder'
  BY <1>1 DEF StreamTyped, HistoryInOrder, Stream!Other
<1>10. StreamFramesAreOf'
  <2>0. \A i \in 1..Len(streamFrames') : ~(streamFrames'[i].type \in {"snapshot", "hello"})
    BY <1>1, <1>2 DEF StreamTyped, StreamFramesAreOf, IsHandshake
  <2>1. \A i \in 2..Len(streamFrames') : ~(streamFrames'[i].type \in {"snapshot", "hello"})
    BY <1>1, <2>0
  <2>2. \A i \in 1..Len(streamFrames') : /\ streamFrames'[i].change <= streamChanges
                                         /\ (streamFrames'[i].type = "event" =>
                                             streamFrames'[i].change # Stream!Other)
    BY <1>1, <1>2 DEF StreamTyped, StreamFramesAreOf, IsEvent
  <2>3. \A k \in Stream!Change : seen'[k] >= 1 => k <= streamChanges
    <3> SUFFICES ASSUME NEW k \in Stream!Change, ~(k <= streamChanges) PROVE ~(seen'[k] >= 1)
      OBVIOUS
    <3>1. k > streamChanges /\ 1 \in 0..Len(streamFrames)
      BY <1>1, StreamTypes DEF StreamTyped
    <3>2. ~ByThen(k, 1)
      BY <3>1, NotMade
    <3> QED BY <3>2, ReceiveByThen
  <2>4. sourceId'.sseId # 0
    BY <1>1, <1>5, <1>6
  <2>5. streamFrames' # <<>> => ~(streamFrames'[1].type \in {"snapshot", "hello"})
    BY <1>1, <2>0
  <2> QED BY <1>1, <2>1, <2>2, <2>3, <2>4, <2>5 DEF StreamFramesAreOf, IsHandshake, IsEvent,
                        Stream!Other
<1> QED BY <1>7, <1>8, <1>9, <1>10 DEF StreamTyped

\* The page is without a gap then if it is now or gets a snapshot.
LEMMA ReceiveValid ==
    ASSUME StreamTyped, Stream!Receive
    PROVE  /\ Sound' <=> Renews \/ Sound
           /\ overlaid' <=> Overlays
           /\ Overlays' <=> overlaid'
           /\ Renews <=> streamFrames[1].type = "snapshot"
<1>1. /\ streamFrames # <<>> /\ hasSnapshot' = (hasSnapshot \/ streamFrames[1].type = "snapshot")
      /\ skipped' = IF streamFrames[1].type = "snapshot" THEN {} ELSE skipped
      /\ overlaid' =
            IF streamFrames[1].type = "snapshot" THEN streamFrames[1].rest > 0
            ELSE overlaid
      /\ ~Renews'
  BY ReceiveIs
<1>2. Renews <=> streamFrames[1].type = "snapshot"
  BY <1>1 DEF Renews
<1>3. Sound' <=> Renews \/ Sound
  BY <1>1, <1>2 DEF Sound
<1>4. overlaid' <=> Overlays
  BY <1>1, <1>2 DEF Overlays
<1>5. Overlays' <=> overlaid'
  BY <1>1 DEF Overlays
<1> QED BY <1>2, <1>3, <1>4, <1>5

LEMMA ReceiveSound ==
    ASSUME StreamTyped, PageSound, FramesSound, Stream!Receive
    PROVE  PageSound' /\ FramesSound'
<1>1. /\ Len(streamFrames) \in Nat \ {0} /\ Len(streamFrames') = Len(streamFrames) - 1
      /\ streamFrames # <<>>
      /\ \A i \in 1..Len(streamFrames') : streamFrames'[i] = streamFrames[i + 1]
      /\ sourceId' = [sseId |-> streamFrames[1].sseId, boot |-> boot]
      /\ cursor' = IF streamFrames[1].sseId > cursor.sseId THEN sourceId' ELSE cursor
      /\ behind' =
            IF streamFrames[1].type = "snapshot" \/ streamFrames[1].rest = 0 THEN 0
            ELSE IF streamFrames[1].type = "hello" THEN streamFrames[1].sseId
            ELSE behind
      /\ UNCHANGED <<boot, history, streamChanges, client>>
      /\ ~Renews'
  BY ReceiveIs
<1>2. /\ \A k \in Stream!Change : seen'[k] >= 1 <=> ByThen(k, 1)
      /\ \A k \in Stream!Change, i \in Nat : i < Len(streamFrames) =>
          (ByThen(k, i)' <=> ByThen(k, i + 1))
  BY ReceiveByThen
<1>3. /\ Sound' <=> Renews \/ Sound
      /\ Renews <=> streamFrames[1].type = "snapshot"
  BY ReceiveValid
<1>4. /\ streamChanges \in Nat /\ (\A k \in 1..streamChanges : k \in Stream!Change)
      /\ (\A k \in Stream!Change : k \in Nat)
      /\ boot \in Nat /\ cursor.sseId \in Nat /\ behind \in Nat /\ streamChanges <= MaxChanges
      /\ \A i \in 1..Len(streamFrames) : /\ streamFrames[i].sseId \in Nat
                                         /\ streamFrames[i].change \in Nat
                                         /\ streamFrames[i].rest \in Nat
  BY StreamTypes DEF StreamTyped
<1>5. /\ streamFrames[1].sseId \in Nat /\ streamFrames[1].change \in Nat
      /\ streamFrames[1].rest \in Nat /\ 1 \in 1..Len(streamFrames)
  BY <1>1, <1>4
<1>6. \A i \in 1..Len(streamFrames) : streamFrames[i].change <= streamChanges
  BY DEF StreamTyped, StreamFramesAreOf
<1> SUFFICES ASSUME Renews \/ Sound PROVE PageSound' /\ FramesSound'
  BY <1>1, <1>3 DEF PageSound, FramesSound
<1>7. FramesInOrder /\ FramesBringAll /\ FramesReach /\ FramesSettle
  BY DEF FramesSound
<1>8. \A k, x : Missing(k, x)' <=> Missing(k, x)
  BY <1>1 DEF Missing, InHistory
<1>9. ASSUME NEW i \in Nat, i < Len(streamFrames), NEW x, After(i + 1, x) PROVE After(i, x)'
  BY <1>1, <1>2, <1>4, <1>8, <1>9 DEF After
<1>10. ASSUME NEW x, After(1, x) PROVE Rests(x)'
  BY <1>1, <1>2, <1>4, <1>8, <1>10 DEF After, Rests
<1>11. Stream!InOrder'
  <2> SUFFICES ASSUME NEW k \in Stream!Change, seen'[k] >= 1, NEW j \in 1..k PROVE seen'[j] >= 1
    BY DEF Stream!InOrder
  <2>0. j \in Stream!Change /\ j \in Nat /\ k \in Nat
    BY MCWebAssumption DEF Stream!Change
  <2> SUFFICES ByThen(j, 1)
    BY <1>2, <2>0
  <2>1. ByThen(k, 1)
    BY <1>2
  <2>2. \A m \in Nat : InFrames(m, 1) <=> streamFrames[1].type = "event"
          /\ streamFrames[1].change = m
    BY DEF InFrames, IsEvent
  <2>3. CASE streamFrames[1].type = "event" /\ j \in 1..streamFrames[1].change
    BY <1>5, <1>7, <2>3 DEF FramesInOrder, IsEvent
  <2>4. CASE streamFrames[1].type = "event" /\ ~(j \in 1..streamFrames[1].change)
    BY <1>3, <1>5, <2>0, <2>4, <2>1, <2>2 DEF ByThen, Base, PageSound, Stream!InOrder, Sound
  <2>5. CASE streamFrames[1].type = "snapshot"
    BY <1>3, <2>0, <2>1, <2>2, <2>5, <1>5 DEF ByThen, Base
  <2>6. CASE streamFrames[1].type # "event" /\ streamFrames[1].type # "snapshot"
    BY <1>3, <2>6, <2>0, <2>1, <2>2 DEF ByThen, Base, PageSound, Stream!InOrder, Sound
  <2> QED BY <2>3, <2>4, <2>5, <2>6
<1>12. PICK a \in Nat : a = streamFrames[1].sseId
  BY <1>5
<1>13. PICK b \in Nat : b = cursor.sseId
  BY <1>4
<1>14. ~(streamFrames[1].type = "hello" /\ streamFrames[1].rest > 0) => Rests(a)'
  BY <1>10, <1>5, <1>7, <1>12 DEF FramesReach
<1>15. ASSUME ~(a > b), cursor.boot = boot, behind' = 0 \/ b < behind' PROVE Rests(b)'
  <2>1. ~(streamFrames[1].type \in {"snapshot", "hello"})
    BY <1>1, <1>12, <1>13, <1>15 DEF StreamTyped, StreamFramesAreOf, IsHandshake
  <2>2. CASE streamFrames[1].rest = 0
    BY <1>5, <1>7, <1>15, <2>2, <1>10, <1>13 DEF FramesSettle
  <2>3. CASE streamFrames[1].rest # 0
    BY <1>1, <1>3, <2>1, <2>3, <1>13, <1>15, <1>4, <1>10 DEF PageSound, Reaches, Rests, After,
       ByThen, Base
  <2> QED BY <2>2, <2>3
<1>16. Reaches(sourceId)'
  <2>1. sourceId'.sseId = a
    BY <1>1, <1>12
  <2>2. ASSUME behind' = 0 \/ a < behind' PROVE Rests(a)'
    <3>1. CASE streamFrames[1].type = "hello" /\ streamFrames[1].rest > 0
      BY <1>5, <1>1, <1>12, <3>1, <2>2 DEF StreamTyped, Numbered
    <3> QED BY <1>14, <3>1
  <2>3. ASSUME behind' = 0 \/ a < behind' PROVE Rests(sourceId.sseId)'
    BY <2>1, <2>2, <2>3 DEF Rests, Missing, InHistory
  <2> QED BY <2>1, <2>3 DEF Reaches
<1>17. Reaches(cursor)'
  <2>1. CASE a > b
    BY <1>1, <1>12, <1>13, <2>1, <1>16 DEF Reaches, Rests, Missing, InHistory
  <2>2. CASE ~(a > b)
    BY <1>1, <1>12, <1>13, <2>2, <1>15 DEF Rests, Missing, InHistory, Reaches
  <2> QED BY <2>1, <2>2
<1>18. PageSound'
  BY <1>11, <1>16, <1>17 DEF PageSound
<1>19. \A i \in 1..Len(streamFrames') : i + 1 \in 1..Len(streamFrames) /\ i \in Nat
         /\ i < Len(streamFrames)
  BY <1>1
<1>20. FramesInOrder'
  <2> SUFFICES ASSUME NEW i \in 1..Len(streamFrames'), streamFrames'[i].type = "event",
                      NEW j \in 1..streamFrames'[i].change
               PROVE  ByThen(j, i)'
    BY DEF FramesInOrder, IsEvent
  <2>1. ByThen(j, i + 1)
    BY <1>1, <1>7, <1>19 DEF FramesInOrder, IsEvent
  <2>2. j \in Stream!Change
    <3>1. streamFrames'[i].change <= streamChanges /\ streamFrames'[i].change \in Nat
      BY <1>1, <1>4, <1>6, <1>19
    <3> QED BY <1>4, <3>1
  <2> QED BY <1>2, <1>19, <2>1, <2>2
<1>21. FramesBringAll'
  <2> SUFFICES ASSUME client' = "active", NEW k \in 1..streamChanges, NEW i \in Nat,
                      i = Len(streamFrames')
               PROVE  ByThen(k, i)'
    BY <1>1 DEF FramesBringAll, ByThen, InFrames, Base, IsEvent, Renews
  <2>1. ByThen(k, Len(streamFrames))
    BY <1>1, <1>7 DEF FramesBringAll
  <2>2. i + 1 = Len(streamFrames) /\ i < Len(streamFrames)
    BY <1>1
  <2>3. ByThen(k, i + 1)
    BY <2>1, <2>2
  <2> QED BY <1>2, <1>4, <2>2, <2>3
<1>22. FramesReach'
  <2>1. ASSUME NEW i \in 1..Len(streamFrames'),
               ~(streamFrames'[i].type = "hello" /\ streamFrames'[i].rest > 0),
               NEW x, x = streamFrames'[i].sseId
        PROVE  After(i, x)'
    BY <1>1, <1>7, <1>19, <2>1, <1>9 DEF FramesReach
  <2>2. \A i \in 1..Len(streamFrames') :
          ~(streamFrames'[i].type = "hello" /\ streamFrames'[i].rest > 0) =>
           After(i, streamFrames[i].sseId)'
    BY <2>1 DEF After, Missing, InHistory
  <2> QED BY <2>2 DEF FramesReach
<1>23. FramesSettle'
  <2>1. ASSUME NEW i \in 1..Len(streamFrames'), streamFrames'[i].rest = 0, NEW x,
               \/ \E h \in 1..i : x = streamFrames'[h].sseId
               \/ x = cursor'.sseId /\ cursor'.boot = boot
        PROVE  After(i, x)'
    <3>0. streamFrames[i + 1].rest = 0
      BY <1>1, <2>1
    <3>1. /\ \A h \in 1..(i + 1) : After(i + 1, streamFrames[h].sseId)
          /\ cursor.boot = boot => After(i + 1, cursor.sseId)
      BY <1>7, <1>19, <3>0 DEF FramesSettle
    <3>2. \A h \in 1..i : h + 1 \in 1..(i + 1) /\ streamFrames'[h] = streamFrames[h + 1]
      BY <1>1
    <3>3. 1 \in 1..(i + 1)
      OBVIOUS
    <3>4. After(i + 1, x)
      <4>1. CASE \E h \in 1..i : x = streamFrames'[h].sseId
        BY <4>1, <3>2, <3>1
      <4>2. CASE x = cursor'.sseId /\ cursor'.boot = boot
        BY <3>1, <4>2, <1>1, <3>3
      <4> QED BY <2>1, <4>1, <4>2
    <3> QED BY <1>9, <1>19, <3>4
  <2>2. ASSUME NEW i \in 1..Len(streamFrames'), streamFrames'[i].rest = 0
        PROVE  /\ \A h \in 1..i : After(i, streamFrames[h].sseId)'
               /\ cursor'.boot = boot' => After(i, cursor.sseId)'
    <3>1. ASSUME NEW h \in 1..i PROVE After(i, streamFrames[h].sseId)'
      BY <2>1, <2>2 DEF After, Missing, InHistory
    <3>2. ASSUME cursor'.boot = boot' PROVE After(i, cursor.sseId)'
      <4>1. ASSUME NEW x, x = cursor'.sseId PROVE After(i, x)'
        BY <1>1, <3>2, <2>1, <2>2, <4>1
      <4> QED BY <4>1 DEF After, Missing, InHistory
    <3> QED BY <3>1, <3>2
  <2> QED BY <2>2 DEF FramesSettle
<1> QED BY <1>18, <1>20, <1>21, <1>22, <1>23 DEF FramesSound

LEMMA ReceiveOnce ==
    ASSUME StreamTyped, PageOnce, FramesOnce, Stream!Receive
    PROVE  PageOnce' /\ FramesOnce'
<1>1. /\ Len(streamFrames) \in Nat \ {0} /\ Len(streamFrames') = Len(streamFrames) - 1
      /\ streamFrames # <<>>
      /\ \A i \in 1..Len(streamFrames') : streamFrames'[i] = streamFrames[i + 1]
      /\ sourceId' = [sseId |-> streamFrames[1].sseId, boot |-> boot]
      /\ cursor' = IF streamFrames[1].sseId > cursor.sseId THEN sourceId' ELSE cursor
      /\ seen' =
            IF streamFrames[1].type = "snapshot"
            THEN [k \in Stream!Change |-> IF k <= streamFrames[1].change THEN 1 ELSE 0]
            ELSE IF streamFrames[1].type = "event"
            THEN [seen EXCEPT ![streamFrames[1].change] = @ + 1]
            ELSE seen
      /\ UNCHANGED <<history, streamChanges>>
      /\ ~Renews'
  BY ReceiveIs
<1>2. /\ \A k \in Stream!Change : (seen'[k] >= 1 <=> ByThen(k, 1)) /\ seen'[k] \in Nat
      /\ \A k \in Stream!Change, i \in Nat : i < Len(streamFrames) =>
          (ByThen(k, i)' <=> ByThen(k, i + 1))
  BY ReceiveByThen
<1>3. /\ overlaid' <=> Overlays
      /\ Overlays' <=> overlaid'
      /\ Renews <=> streamFrames[1].type = "snapshot"
  BY ReceiveValid
<1>4. /\ (\A k \in Stream!Change : k \in Nat /\ seen[k] \in Nat) /\ cursor.sseId \in Nat
      /\ streamChanges \in Nat
      /\ streamChanges <= MaxChanges
      /\ \A i \in 1..Len(streamFrames) : /\ streamFrames[i].sseId \in Nat
                                         /\ streamFrames[i].change \in Nat
      /\ \A h \in 1..Len(history) : history[h].sseId \in Nat /\ history[h].change \in Nat
  BY StreamTypes DEF StreamTyped
<1>5. streamFrames[1].sseId \in Nat /\ 1 \in 1..Len(streamFrames)
  BY <1>1, <1>4
<1>6. \A h \in 1..Len(history) : history[h].change # Stream!Other =>
        history[h].change \in Stream!Change
  <2>1. \A e \in Stream!Entry : e.change \in Stream!Change \cup {Stream!Other}
    BY DEF Stream!Entry
  <2> QED BY <2>1 DEF StreamTyped, Stream!TypeOK
<1>7. \A i \in 1..Len(streamFrames) : streamFrames[i].type = "event" =>
        streamFrames[i].change \in Stream!Change
  BY <1>4, StreamTypes DEF StreamTyped, StreamFramesAreOf, IsEvent, Stream!Other
<1> SUFFICES ASSUME ~Overlays PROVE PageOnce' /\ FramesOnce'
  BY <1>3 DEF PageOnce, FramesOnce
<1>8. \A i \in 1..Len(streamFrames) :
        /\ streamFrames[i].type = "event" => ~ByThen(streamFrames[i].change, i - 1)
        /\ \A h \in 1..Len(history) :
              history[h].sseId > streamFrames[i].sseId /\ history[h].change # Stream!Other =>
                  ~ByThen(history[h].change, i)
  BY DEF FramesOnce, IsEvent
<1>9. \A k \in Stream!Change : seen'[k] <= 1
  <2> SUFFICES ASSUME NEW k \in Stream!Change PROVE seen'[k] <= 1
    OBVIOUS
  <2>1. CASE streamFrames[1].type = "snapshot"
    BY <1>1, <2>1
  <2>2. CASE streamFrames[1].type # "snapshot"
    BY <1>3, <2>2, <1>5, <1>8, <1>4, <1>1 DEF Overlays, PageOnce, ByThen, Base, StreamTyped,
       Stream!TypeOK
  <2> QED BY <2>1, <2>2
<1>10. ASSUME NEW x \in Nat, x >= streamFrames[1].sseId PROVE Unseen(x)'
  <2> SUFFICES ASSUME NEW h \in 1..Len(history), history[h].sseId > x,
                      history[h].change # Stream!Other
               PROVE  seen'[history[h].change] = 0
    BY <1>1 DEF Unseen, Stream!Other
  <2>1. history[h].sseId > streamFrames[1].sseId
    BY <1>4, <1>5, <1>10
  <2>2. ~ByThen(history[h].change, 1)
    BY <1>5, <1>8, <2>1
  <2>3. history[h].change \in Stream!Change
    BY <1>6
  <2>4. ~(seen'[history[h].change] >= 1) /\ seen'[history[h].change] \in Nat
    BY <1>2, <2>2, <2>3
  <2> QED BY <2>4
<1>11. PageOnce'
  <2>1. sourceId'.sseId \in Nat /\ sourceId'.sseId >= streamFrames[1].sseId
    BY <1>1, <1>5
  <2>2. cursor'.sseId \in Nat /\ cursor'.sseId >= streamFrames[1].sseId
    BY <1>1, <1>4, <1>5, <2>1
  <2>3. Unseen(sourceId.sseId)'
    BY <1>10, <2>1 DEF Unseen
  <2>4. Unseen(cursor.sseId)'
    BY <1>10, <2>2 DEF Unseen
  <2> QED BY <1>9, <2>3, <2>4 DEF PageOnce, Stream!Change
<1>12. FramesOnce'
  <2>1. ASSUME NEW i \in 1..Len(streamFrames'), streamFrames'[i].type = "event", NEW k,
               k = streamFrames'[i].change
        PROVE  ~ByThen(k, i - 1)'
    BY <1>1, <2>1, <1>7, <1>8, <1>2
  <2>2. ASSUME NEW i \in 1..Len(streamFrames'), NEW h \in 1..Len(history),
               history[h].sseId > streamFrames'[i].sseId, history[h].change # Stream!Other,
               NEW k, k = history[h].change
        PROVE  ~ByThen(k, i)'
    <3>1. i + 1 \in 1..Len(streamFrames) /\ i \in Nat /\ i < Len(streamFrames)
      BY <1>1
    <3>2. history[h].sseId > streamFrames[i + 1].sseId
      BY <1>1, <2>2
    <3>3. ~ByThen(k, i + 1) /\ k \in Stream!Change
      BY <1>6, <1>8, <2>2, <3>1, <3>2
    <3> QED BY <1>2, <3>1, <3>3
  <2>3. \A i \in 1..Len(streamFrames') :
        /\ streamFrames'[i].type = "event" => ~ByThen(streamFrames[i].change, i - 1)'
        /\ \A h \in 1..Len(history') :
              history'[h].sseId > streamFrames'[i].sseId /\ history'[h].change # Stream!Other =>
                  ~ByThen(history[h].change, i)'
    BY <1>1, <2>1, <2>2 DEF ByThen, Base, InFrames, Renews, IsEvent
  <2> QED BY <2>3 DEF FramesOnce, IsEvent, Stream!Other
<1> QED BY <1>11, <1>12

LEMMA ReceiveKeeps ==
    ASSUME StreamInv, Stream!Receive
    PROVE  StreamInv'
<1>1. StreamTyped /\ PageSound /\ FramesSound /\ PageOnce /\ FramesOnce
  BY DEF StreamInv
<1> QED BY <1>1, ReceiveTyped, ReceiveSound, ReceiveOnce DEF StreamInv

\* The page has no connection.
StreamQuiet == streamFrames = <<>> /\ client = "none"

LEMMA NoFrames ==
    ASSUME StreamQuiet'
    PROVE  /\ FramesSound' /\ FramesOnce' /\ Len(streamFrames') = 0
           /\ streamFrames' \in Seq(Stream!Frame)
           /\ client' \in {"active", "ended", "none"}
<1>1. /\ streamFrames' = <<>> /\ Len(streamFrames') = 0 /\ client' = "none"
      /\ streamFrames' \in Seq(Stream!Frame)
  BY DEF StreamQuiet
<1>2. FramesSound'
  BY <1>1 DEF FramesSound, FramesInOrder, FramesBringAll, FramesReach, FramesSettle
<1>3. FramesOnce'
  BY <1>1 DEF FramesOnce
<1> QED BY <1>1, <1>2, <1>3

LEMMA ReloadKeeps ==
    ASSUME StreamInv, Stream!Reload
    PROVE  StreamInv'
<1>1. StreamTyped /\ PageSound /\ FramesSound /\ PageOnce /\ FramesOnce
  BY DEF StreamInv
<1>2. /\ streamFrames' = <<>> /\ client' = "none" /\ source' = "none" /\ sourceId' = Stream!NoId
      /\ url' = Stream!NoId
      /\ urlResume' = FALSE /\ hasSnapshot' = FALSE /\ seen' = [k \in Stream!Change |-> 0]
      /\ breaks' = breaks + 1
      /\ UNCHANGED <<boot, nextSseId, history, streamChanges, cursor, behind, skipped, overlaid,
          streamConnects>>
  BY DEF Stream!Reload, Stream!hostVars
<1>3. /\ FramesSound' /\ FramesOnce' /\ Len(streamFrames') = 0
      /\ streamFrames' \in Seq(Stream!Frame)
      /\ client' \in {"active", "ended", "none"}
  BY <1>2, NoFrames DEF StreamQuiet
<1>4. /\ Stream!NoId \in Stream!Cursor /\ Stream!NoId.boot = 0 /\ Stream!NoId.sseId = 0
      /\ boot \in Nat \ {0}
  BY MCWebAssumption, <1>1, StreamTypes DEF Stream!Id, Stream!NoId, Stream!Cursor, StreamTyped
<1>5. Stream!TypeOK'
  <2>1. seen' \in [Stream!Change -> Nat] /\ breaks' \in Nat
    BY <1>1, <1>2 DEF StreamTyped, Stream!TypeOK
  <2> QED BY <1>1, <1>2, <1>3, <1>4, <2>1 DEF StreamTyped, Stream!TypeOK
<1>6. Numbered' /\ HistoryInOrder'
  BY <1>1, <1>2, <1>3, <1>4 DEF StreamTyped, Numbered, HistoryInOrder, Stream!Other
<1>7. StreamFramesAreOf'
  BY <1>2, <1>3 DEF StreamFramesAreOf, IsHandshake, IsEvent
<1>8. PageSound'
  BY <1>2 DEF PageSound, Sound
<1>9. PageOnce'
  <2>1. \A k \in Stream!Change : seen'[k] = 0
    BY <1>2
  <2>2. \A h \in 1..Len(history) : history[h].change # Stream!Other =>
          seen'[history[h].change] = 0
    <3>1. \A e \in Stream!Entry : e.change \in Stream!Change \cup {Stream!Other}
      BY DEF Stream!Entry
    <3> QED BY <1>1, <2>1, <3>1 DEF StreamTyped, Stream!TypeOK
  <2>3. Unseen(cursor.sseId)' /\ Unseen(sourceId.sseId)'
    BY <1>2, <2>2 DEF Unseen, Stream!Other
  <2> QED BY <2>1, <2>3 DEF PageOnce, Stream!Change
<1> QED BY <1>3, <1>5, <1>6, <1>7, <1>8, <1>9 DEF StreamInv, StreamTyped

LEMMA BreakKeeps ==
    ASSUME StreamInv, Stream!ConnectionBreaks \/ Stream!StreamEnds
    PROVE  StreamInv'
<1>1. StreamTyped /\ PageSound /\ FramesSound /\ PageOnce /\ FramesOnce
  BY DEF StreamInv
<1>2. /\ streamFrames' = <<>> /\ client' = "none" /\ source = "open" /\ source' = "failed"
      /\ breaks' \in {breaks, breaks + 1}
      /\ UNCHANGED <<boot, nextSseId, history, streamChanges, sourceId, url, urlResume, cursor,
          hasSnapshot,
                     seen, behind, skipped, overlaid, streamConnects>>
  BY DEF Stream!ConnectionBreaks, Stream!StreamEnds, Stream!Lost, Stream!hostVars
<1>3. /\ FramesSound' /\ FramesOnce' /\ Len(streamFrames') = 0
      /\ streamFrames' \in Seq(Stream!Frame)
      /\ client' \in {"active", "ended", "none"}
  BY <1>2, NoFrames DEF StreamQuiet
<1>5. Stream!TypeOK'
  BY <1>1, <1>2, <1>3 DEF StreamTyped, Stream!TypeOK
<1>6. Numbered' /\ HistoryInOrder'
  BY <1>1, <1>2, <1>3 DEF StreamTyped, Numbered, HistoryInOrder, Stream!Other
<1>7. StreamFramesAreOf'
  BY <1>1, <1>2, <1>3 DEF StreamTyped, StreamFramesAreOf, IsHandshake, IsEvent
<1>8. PageSound'
  BY <1>1, <1>2 DEF PageSound, Sound, Stream!InOrder, Reaches, Rests, Missing, InHistory
<1>9. PageOnce'
  BY <1>1, <1>2 DEF PageOnce, Unseen, Stream!Change, Stream!Other
<1> QED BY <1>3, <1>5, <1>6, <1>7, <1>8, <1>9 DEF StreamInv, StreamTyped

LEMMA RestartKeeps ==
    ASSUME StreamInv, Stream!HostRestart
    PROVE  StreamInv'
<1>1. StreamTyped /\ PageSound /\ FramesSound /\ PageOnce /\ FramesOnce
  BY DEF StreamInv
<1>2. /\ streamFrames' = <<>> /\ client' = "none" /\ source' = IF source = "open"
          THEN "failed" ELSE source
      /\ boot < MaxBoots /\ boot' = boot + 1 /\ nextSseId' = 0 /\ history' = <<>> /\ behind' = 0
      /\ UNCHANGED <<streamChanges, sourceId, url, urlResume, cursor, hasSnapshot, seen, skipped,
          overlaid,
                     streamConnects, breaks>>
  BY DEF Stream!HostRestart, Stream!Lost
<1>3. /\ FramesSound' /\ FramesOnce' /\ Len(streamFrames') = 0
      /\ streamFrames' \in Seq(Stream!Frame)
      /\ client' \in {"active", "ended", "none"}
  BY <1>2, NoFrames DEF StreamQuiet
<1>4. /\ boot \in Nat \ {0} /\ streamConnects \in Nat /\ streamConnects <= MaxStreams
      /\ cursor.boot \in Nat /\ cursor.boot <= boot /\ sourceId.boot \in Nat
      /\ sourceId.boot <= boot
  BY MCWebAssumption, <1>1, StreamTypes DEF Stream!Cursor, StreamTyped, Stream!TypeOK, Numbered
<1>5. Stream!TypeOK'
  BY <1>1, <1>2, <1>4, MCWebAssumption, <1>3 DEF StreamTyped, Stream!TypeOK, Stream!Id
<1>6. Numbered' /\ HistoryInOrder'
  BY <1>2, <1>3, <1>4, MCWebAssumption DEF Numbered, HistoryInOrder
<1>7. StreamFramesAreOf'
  BY <1>1, <1>2, <1>3 DEF StreamTyped, StreamFramesAreOf, IsHandshake, IsEvent
<1>8. PageSound'
  BY <1>2, <1>4, <1>1 DEF Stream!InOrder, PageSound, Sound, Reaches
<1>9. PageOnce'
  BY <1>2, <1>1 DEF Unseen, PageOnce, Stream!Change
<1> QED BY <1>3, <1>5, <1>6, <1>7, <1>8, <1>9 DEF StreamInv, StreamTyped

LEMMA StreamStutters ==
    ASSUME StreamInv, UNCHANGED Stream!vars
    PROVE  StreamInv'
<1>1. StreamTyped /\ PageSound /\ FramesSound /\ PageOnce /\ FramesOnce
  BY DEF StreamInv
<1>2. UNCHANGED <<boot, nextSseId, history, streamChanges, client, streamFrames, source,
        sourceId, url, urlResume,
                  cursor, hasSnapshot, seen, behind, skipped, overlaid, streamConnects, breaks>>
  BY DEF Stream!vars, Stream!hostVars, Stream!linkVars, Stream!sourceVars, Stream!pageVars
<1>3. Stream!TypeOK'
  BY <1>1, <1>2 DEF StreamTyped, Stream!TypeOK
<1>4. Numbered' /\ HistoryInOrder'
  BY <1>1, <1>2 DEF StreamTyped, Numbered, HistoryInOrder, Stream!Other
<1>5. StreamFramesAreOf'
  BY <1>1, <1>2 DEF StreamTyped, StreamFramesAreOf, IsHandshake, IsEvent
<1>6. PageSound'
  BY <1>1, <1>2 DEF PageSound, Sound, Stream!InOrder, Reaches, Rests, Missing, InHistory
<1>9. FramesSound'
  BY <1>1, <1>2 DEF FramesSound, FramesInOrder, FramesBringAll, FramesReach, FramesSettle,
     Sound, Renews,
     After, Missing, InHistory, ByThen, Base, InFrames, IsEvent
<1>10. PageOnce'
  BY <1>1, <1>2 DEF PageOnce, Unseen, Stream!Change, Stream!Other
<1>11. FramesOnce'
  BY <1>1, <1>2 DEF FramesOnce, Overlays, Renews, ByThen, Base, InFrames, IsEvent, Stream!Other
<1> QED BY <1>3, <1>4, <1>5, <1>6, <1>9, <1>10, <1>11 DEF StreamInv, StreamTyped

LEMMA StreamInductive == Stream!Spec => []StreamInv
<1>1. StreamInv /\ [Stream!Next]_Stream!vars => StreamInv'
  BY HostKeeps, ConnectKeeps, ReceiveKeeps, ReloadKeeps, BreakKeeps, RestartKeeps,
     StreamStutters DEF Stream!Next
<1> QED BY <1>1, StreamInit, PTL DEF Stream!Spec

-----------------------------------------------------------------------------
(* A behaviour of the whole is one of each part.                           *)

LEMMA DraftsRun == Spec => Drafts!Spec
<1>1. Init => Drafts!Init
  BY DEF Init
<1>2. [Next]_vars => [Drafts!Next]_Drafts!vars
  BY DEF Next, vars, composerVars, Drafts!vars
<1> QED
  BY <1>1, <1>2, PTL DEF Spec, Drafts!Spec

LEMMA ListsRun == Spec => Lists!Spec
<1>1. Init => Lists!Init
  BY DEF Init
<1>2. [Next]_vars => [Lists!Next]_Lists!vars
  BY DEF Next, vars, listVars, Lists!vars, Lists!hostVars, Lists!gateVars, Lists!historyVars,
      Lists!bounds
<1> QED
  BY <1>1, <1>2, PTL DEF Spec, Lists!Spec

LEMMA CatalogRuns == Spec => Catalog!Spec
<1>1. Init => Catalog!Init
  BY DEF Init
<1>2. [Next]_vars => [Catalog!Next]_Catalog!vars
  BY DEF Next, vars, modelsVars, Catalog!vars, Catalog!machineVars, Catalog!pageVars,
      Catalog!bounds
<1> QED
  BY <1>1, <1>2, PTL DEF Spec, Catalog!Spec

LEMMA StreamRuns == Spec => Stream!Spec
<1>1. Init => Stream!Init
  BY DEF Init
<1>2. [Next]_vars => [Stream!Next]_Stream!vars
  BY DEF Next, vars, streamVars, Stream!vars, Stream!hostVars, Stream!linkVars,
      Stream!sourceVars, Stream!pageVars
<1> QED
  BY <1>1, <1>2, PTL DEF Spec, Stream!Spec

LEMMA OptionsRun == Spec => Options!Spec
<1>1. Init => Options!Init
  BY DEF Init
<1>2. [Next]_vars => [Options!Next]_Options!vars
  BY DEF Next, vars, optionsVars, Options!vars
<1> QED
  BY <1>1, <1>2, PTL DEF Spec, Options!Spec

-----------------------------------------------------------------------------
(* What the run checks, for every value of the bounds.                     *)

\* A text has one draft or call that it belongs to, and a call that ended well leaves
\* no copy of its text in a draft (composerSessionActions, composerState).
THEOREM WebDraftsInductive == Spec => []ComposerInv
BY DraftsRun, ComposerInductive, PTL

\* A draft is in the composer until it is sent, and is sent once
\* (composerSessionActions).
THEOREM WebDraftsAgree == Spec => []DraftsAgree
<1>1. ComposerInv => DraftsAgree
  BY ComposerFollows DEF DraftsAgree
<1> QED
  BY <1>1, WebDraftsInductive, PTL

\* The frames under way lead from the row that is shown to the entry of the host, a page
\* that is waited for has every session that was made and is not known to be gone, and a
\* session is read once it was on the screen (sessionListLoader, appSessionState,
\* sessionReadGate).
THEOREM WebListsInductive == Spec => []ListsInv
BY ListsRun, ListsInductive, PTL

\* The list of sessions and the marks of what was read agree with the host, but
\* for what an older answer brought (sessionListLoader, appSessionState,
\* sessionReadGate).
THEOREM WebListsAgree == Spec => []ListsAgree
<1>1. ListsInv => ListsAgree
  BY ListsFollow DEF ListsAgree
<1> QED
  BY <1>1, WebListsInductive, PTL

\* The cache has one entry of each machine, a call is under way for every entry that
\* waits, and the offer is of the machine it is shown for (modelCatalogCache,
\* composerModels).
THEOREM WebCatalogInductive == Spec => []CatalogInv
BY CatalogRuns, CatalogInductive, PTL

\* Rows come in the order of the changes, and the last of the choices under way is the
\* one that is wanted (sessionOptions).
THEOREM WebOptionsInductive == Spec => []OptionsInv
BY OptionsRun, OptionsInductive, PTL

\* The models on offer are those of the machine of the page, and the options of
\* the session are those that were chosen last (composerModels,
\* modelCatalogCache).
THEOREM WebChoicesAgree == Spec => []ChoicesAgree
<1>1. CatalogInv /\ OptionsInv => ChoicesAgree
  BY CatalogFollows, OptionsFollow DEF ChoicesAgree
<1> QED
  BY <1>1, WebCatalogInductive, WebOptionsInductive, PTL

\* With every number that a page can resume with, from the page or from a frame on its
\* way, a reconnection brings each change that is lacking by then, or the host knows that
\* its history no longer reaches back; and the frames of a connection that is up bring
\* every change, in order and none twice (sessionSse, sseManager).
THEOREM WebStreamInductive == Spec => []StreamInv
BY StreamRuns, StreamInductive, PTL

\* A connected page has every change, in order and once, unless it knows that it
\* has not (sseManager, sessionSse).
THEOREM WebStreamIsWhole == Spec => []StreamIsWhole
<1>1. StreamInv => StreamIsWhole
  BY StreamFollows DEF StreamIsWhole
<1> QED
  BY <1>1, WebStreamInductive, PTL
=============================================================================
