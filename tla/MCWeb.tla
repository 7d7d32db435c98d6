------------------------------- MODULE MCWeb --------------------------------
(***************************************************************************)
(* Small instances of what a page keeps: the stream of changes and how it is *)
(* resumed, the composer, the history of the selected session, the output  *)
(* of its tools, the list of sessions, the models of a machine and the     *)
(* options of a session.  The parts do not touch each other: one is        *)
(* chosen, and the others stand still.                                     *)
(***************************************************************************)
EXTENDS Naturals

CONSTANTS
    HistorySize, MaxChanges, MaxIds, MaxStreams, MaxBreaks, MaxBoots, MaxSent,
    MaxSubmits, MaxTurns, Local, None, PageSize, MaxPages, MaxEvents, MaxSelects,
    MaxFails, MaxConnects, MaxWork, OutputPage, MaxTexts, MaxLeaves, MaxReloads,
    MaxPieces, Session, NoSession, ListPage, MaxListChanges, MaxCalls, MaxSnapshots,
    Machine, Home, CacheSize, MaxListings, MaxLinks, MaxSwitches, Model, Effort,
    MaxChoices

ASSUME MCWebAssumption ==
    /\ MaxSent \in Nat /\ MaxSubmits \in Nat /\ MaxTurns \in Nat
    /\ MaxListings \in Nat /\ CacheSize \in Nat
    /\ ListPage \in Nat \ {0}
    /\ HistorySize \in Nat /\ MaxChanges \in Nat /\ MaxIds \in Nat
    /\ MaxStreams \in Nat /\ MaxBoots \in Nat \ {0}
    /\ PageSize \in Nat \ {0} /\ MaxPages \in Nat \ {0} /\ OutputPage \in Nat \ {0}
    /\ MaxEvents \in Nat /\ MaxSelects \in Nat /\ MaxFails \in Nat /\ MaxConnects \in Nat
    /\ MaxTexts \in Nat /\ MaxLeaves \in Nat /\ MaxReloads \in Nat /\ MaxPieces \in Nat
    /\ MaxListChanges \in Nat /\ MaxCalls \in Nat /\ MaxSnapshots \in Nat
    /\ MaxLinks \in Nat /\ MaxSwitches \in Nat /\ MaxChoices \in Nat

VARIABLES
    part,       \* the part of the system that is checked
    boot, nextSseId, history, streamChanges, client, streamFrames, source, sourceId,
    url, urlResume, cursor, hasSnapshot, seen, behind, skipped, overlaid,
    streamConnects, breaks,
    composerSelected, drafts, edits, typed, running, turns, composerCalls,
    composerRows, accepted, canceled, replaced, late,
    log, subscribed, historyFrames, historySelected, historyRow, store, historyLoad,
    older, newer, historyMissed, merged, raced, selects, fails, historyConnects,
    stored, outputFrames, outputSelected, output, call, again, outputMissed, pieces,
    turn, early, reasoning, meta, body, leaves, reloads,
    table, made, listUpdates, listRows, list, paging, answers, current, needs, timer,
    unmoved, hasty, passed, ghosts, stale, listChanges, listCalls, snapshots,
    installed, connected, entries, listings, modelsSelected, favourite, online,
    catalog, modelsLoad, modelsMissed, links, switches,
    put, optionsUpdates, optionsRow, defaults, puts, optionsSelected, wanted, lost,
    newest, choices

Stream == INSTANCE SseResume WITH
    changes <- streamChanges, frames <- streamFrames, connects <- streamConnects,
    MaxConnects <- MaxStreams
Drafts == INSTANCE Composer WITH
    selected <- composerSelected, calls <- composerCalls, rows <- composerRows,
    MaxTexts <- MaxSent
History == INSTANCE SessionHistory WITH
    frames <- historyFrames, selected <- historySelected, row <- historyRow,
    load <- historyLoad, missed <- historyMissed, connects <- historyConnects
Outputs == INSTANCE ToolOutput WITH
    frames <- outputFrames, selected <- outputSelected, missed <- outputMissed
Lists == INSTANCE SessionLists WITH
    updates <- listUpdates, rows <- listRows, changes <- listChanges,
    calls <- listCalls
Catalog == INSTANCE ModelCatalog WITH
    selected <- modelsSelected, load <- modelsLoad, missed <- modelsMissed
Options == INSTANCE SessionOptions WITH
    updates <- optionsUpdates, row <- optionsRow, selected <- optionsSelected

streamVars == <<boot, nextSseId, history, streamChanges, client, streamFrames, source,
    sourceId, url, urlResume, cursor, hasSnapshot, seen, behind, skipped, overlaid,
    streamConnects, breaks>>
composerVars == <<composerSelected, drafts, edits, typed, running, turns,
    composerCalls, composerRows, accepted, canceled, replaced, late>>
historyVars == <<log, subscribed, historyFrames, historySelected, historyRow, store,
    historyLoad, older, newer, historyMissed, merged, raced, selects, fails,
    historyConnects>>
outputVars == <<stored, outputFrames, outputSelected, output, call, again,
    outputMissed, pieces, turn, early, reasoning, meta, body, leaves, reloads>>
listVars == <<table, made, listUpdates, listRows, list, paging, answers, current,
    needs, timer, unmoved, hasty, passed, ghosts, stale, listChanges, listCalls,
    snapshots>>
modelsVars == <<installed, connected, entries, listings, modelsSelected, favourite,
    online, catalog, modelsLoad, modelsMissed, links, switches>>
optionsVars == <<put, optionsUpdates, optionsRow, defaults, puts, optionsSelected,
    wanted, lost, newest, choices>>
vars == <<part, streamVars, composerVars, historyVars, outputVars, listVars,
    modelsVars, optionsVars>>

Init ==
    /\ part \in {"stream", "composer", "history", "output", "list", "models", "options"}
    /\ Stream!Init
    /\ Drafts!Init
    /\ History!Init
    /\ Outputs!Init
    /\ Lists!Init
    /\ Catalog!Init
    /\ Options!Init

Next ==
    \/ /\ part = "stream" /\ Stream!Next
       /\ UNCHANGED <<part, composerVars, historyVars, outputVars, listVars,
                       modelsVars, optionsVars>>
    \/ /\ part = "composer" /\ Drafts!Next
       /\ UNCHANGED <<part, streamVars, historyVars, outputVars, listVars, modelsVars,
                       optionsVars>>
    \/ /\ part = "history" /\ History!Next
       /\ UNCHANGED <<part, streamVars, composerVars, outputVars, listVars, modelsVars,
                       optionsVars>>
    \/ /\ part = "output" /\ Outputs!Next
       /\ UNCHANGED <<part, streamVars, composerVars, historyVars, listVars,
                       modelsVars, optionsVars>>
    \/ /\ part = "list" /\ Lists!Next
       /\ UNCHANGED <<part, streamVars, composerVars, historyVars, outputVars,
                       modelsVars, optionsVars>>
    \/ /\ part = "models" /\ Catalog!Next
       /\ UNCHANGED <<part, streamVars, composerVars, historyVars, outputVars,
                       listVars, optionsVars>>
    \/ /\ part = "options" /\ Options!Next
       /\ UNCHANGED <<part, streamVars, composerVars, historyVars, outputVars,
                       listVars, modelsVars>>

Spec == Init /\ [][Next]_vars

-----------------------------------------------------------------------------
(* The properties of the parts, named for the runs.                        *)

TypeOK ==
    /\ Stream!TypeOK /\ Drafts!TypeOK /\ History!TypeOK /\ Outputs!TypeOK
    /\ Lists!TypeOK /\ Catalog!TypeOK /\ Options!TypeOK

\* A connected page has every change, in order and once, unless it knows that it
\* has not (sseManager, sessionSse).
StreamIsWhole == Stream!Complete /\ Stream!InOrder /\ Stream!AppliedOnce

\* A draft is in the composer until it is sent, and is sent once
\* (composerSessionActions).
DraftsAgree == Drafts!DraftKept /\ Drafts!SentOnce

\* What the page shows of a session is what the host has stored: its events once,
\* in order and without a gap, the turn it is in, the output of its tools and
\* its reasoning (sessionHistory, sessionEnvelopeHandler).
HistoryIsWhole ==
    /\ History!Once /\ History!NoGap /\ History!InOrder /\ History!TurnShown
    /\ Outputs!OutputAgrees /\ Outputs!ReasoningAgrees

\* The list of sessions and the marks of what was read agree with the host, but
\* for what an older answer brought (sessionListLoader, appSessionState,
\* sessionReadGate).
ListsAgree == Lists!ListWhole /\ Lists!RowsAgree /\ Lists!ReadIsSeen

\* The models on offer are those of the machine of the page, and the options of
\* the session are those that were chosen last (composerModels,
\* modelCatalogCache).
ChoicesAgree == Catalog!CatalogAgrees /\ Catalog!WaitsForCall /\ Options!OptionsAgree
=============================================================================
