------------------------------ MODULE HostUpdate ------------------------------
(***************************************************************************)
(* The host replaces itself: POST /api/host/self-update checks the release  *)
(* channel, downloads the bundle, unpacks it beside the installed releases, *)
(* switches ~/.rootgrid/current to it, removes old releases and restarts.   *)
(*                                                                         *)
(* The releases of one machine, under ~/.rootgrid/releases, with requests   *)
(* that overlap and a process that may be killed at any step.              *)
(***************************************************************************)
EXTENDS Naturals, FiniteSets

CONSTANTS
    MaxUpdates,     \* bound: requests
    MaxKills,       \* bound: times the process is killed
    Keep            \* host.selfUpdate.keepReleases

Update == 1..MaxUpdates
Release == {1, 2, 3}        \* named by their age: 3 is the newest

\* The directories under releases: <release-id> and .pending-<uuid>.
Directory == ({"release"} \X Release) \cup ({"pending"} \X Update)

VARIABLES
    request,    \* where the handler of a request is
    target,     \* the release that the channel offers to a request
    working,    \* state.working
    awaiting,   \* state.awaitingRestart
    exitSet,    \* state.exitScheduled
    timer,      \* the 250 ms timer of scheduleExit runs
    turn,       \* a session of this host is working
    pending,    \* requests that have a .pending directory
    disk,       \* the releases that are whole
    current,    \* where ~/.rootgrid/current points
    seen,       \* pruneOldManagedReleases: where current pointed when it began
    doomed,     \* and the directories that it has chosen to remove
    kills,      \* bounded
    lost        \* history: releases that an installation has lost while it was cut off,
                \* failed, or overlapped with another

vars == <<request, target, working, awaiting, exitSet, timer, turn, pending, disk, current, seen,
          doomed, kills, lost>>
stateVars == <<working, awaiting, exitSet, timer>>
pruneVars == <<seen, doomed>>
diskVars == <<pending, disk, current, lost, pruneVars>>

Stage == {"none", "checking", "allowed", "fetching", "unpacking", "placing", "renaming", "switching",
          "pruning", "choosing", "removing", "answering", "done", "refused", "failed", "killed"}

TypeOK ==
    /\ request \in [Update -> Stage] /\ target \in [Update -> Release]
    /\ working \in BOOLEAN /\ awaiting \in BOOLEAN /\ exitSet \in BOOLEAN /\ timer \in BOOLEAN
    /\ turn \in BOOLEAN /\ pending \subseteq Update /\ disk \subseteq Release /\ current \in Release
    /\ seen \in [Update -> Release] /\ doomed \in [Update -> SUBSET Directory]
    /\ kills \in 0..MaxKills /\ lost \subseteq Release

Init ==
    /\ request = [u \in Update |-> "none"] /\ target = [u \in Update |-> 2]
    /\ working = FALSE /\ awaiting = FALSE /\ exitSet = FALSE /\ timer = FALSE /\ turn = FALSE
    /\ pending = {} /\ disk = {1, 2} /\ current = 2 /\ kills = 0 /\ lost = {}
    /\ seen = [u \in Update |-> 2] /\ doomed = [u \in Update |-> {}]

Goes(u, from, to) == request[u] = from /\ request' = [request EXCEPT ![u] = to]

-----------------------------------------------------------------------------
(* The request.                                                            *)

\* start: first the release channel is asked, whatever was cached.
Ask(u) ==
    /\ \A v \in 1..(u - 1) : request[v] # "none"
    /\ Goes(u, "none", "checking")
    /\ UNCHANGED <<target, stateVars, turn, diskVars, kills>>

\* The conditions, when the channel has answered or failed.
Checked(u) ==
    /\ IF working \/ awaiting \/ turn THEN Goes(u, "checking", "refused")
       ELSE Goes(u, "checking", "allowed")
    /\ UNCHANGED <<target, stateVars, turn, diskVars, kills>>

\* isManagedRuntime is awaited before the state is set.  When no directory can be
\* made for the bundle, nothing takes the state back.
Begin(u) ==
    /\ \E to \in {"fetching", "failed"} : Goes(u, "allowed", to)
    /\ working' = TRUE /\ awaiting' = FALSE /\ exitSet' = FALSE
    /\ UNCHANGED <<target, timer, turn, diskVars, kills>>
NotManaged(u) ==
    /\ Goes(u, "allowed", "refused") /\ UNCHANGED <<target, stateVars, turn, diskVars, kills>>

\* The catch of start.
Failed(u, from) ==
    /\ Goes(u, from, "failed") /\ working' = FALSE /\ awaiting' = FALSE
    /\ UNCHANGED <<target, exitSet, timer, turn, kills>>

\* The asset that the channel offers by now is downloaded, and its checksum
\* compared.
Fetched(u) ==
    /\ Goes(u, "fetching", "unpacking")
    /\ target' \in {[target EXCEPT ![u] = r] : r \in Release} /\ pending' = pending \cup {u}
    /\ UNCHANGED <<stateVars, turn, disk, current, pruneVars, kills, lost>>
FetchFails(u) == Failed(u, "fetching") /\ UNCHANGED diskVars

\* installManagedReleaseFromBundle: the bundle is unpacked into a directory of
\* its own, an earlier copy of the release is removed, the directory renamed.
Unpacked(u) ==
    /\ u \in pending /\ Goes(u, "unpacking", "placing")
    /\ UNCHANGED <<target, stateVars, turn, diskVars, kills>>
UnpackFails(u) ==
    Failed(u, "unpacking") /\ pending' = pending \ {u} /\ UNCHANGED <<disk, current, pruneVars, lost>>
Place(u) ==
    /\ Goes(u, "placing", "renaming") /\ disk' = disk \ {target[u]}
    /\ UNCHANGED <<target, stateVars, turn, pending, current, pruneVars, kills, lost>>

\* Its catch: the release that was placed, or that another request has placed
\* meanwhile, is removed unless current was switched to it here.
Cleanup(u) ==
    /\ pending' = pending \ {u} /\ disk' = disk \ {target[u]} /\ lost' = lost \cup {target[u]}
    /\ UNCHANGED <<current, pruneVars>>

Rename(u) ==
    /\ u \in pending /\ target[u] \notin disk
    /\ Goes(u, "renaming", "switching")
    /\ disk' = disk \cup {target[u]} /\ pending' = pending \ {u} /\ lost' = lost \ {target[u]}
    /\ UNCHANGED <<target, stateVars, turn, current, pruneVars, kills>>
RenameFails(u) == Failed(u, "renaming") /\ Cleanup(u)

\* switchCurrentRelease: a new link is renamed over the old one.
Switch(u) ==
    /\ Goes(u, "switching", "pruning") /\ current' = target[u]
    /\ UNCHANGED <<target, stateVars, turn, pending, disk, pruneVars, kills, lost>>
SwitchFails(u) == Failed(u, "switching") /\ Cleanup(u)

\* pruneOldManagedReleases: first it looks where current points.
Look(u) ==
    /\ Goes(u, "pruning", "choosing") /\ seen' = [seen EXCEPT ![u] = current]
    /\ UNCHANGED <<target, stateVars, turn, pending, disk, current, doomed, kills, lost>>

\* Wrong: only the newest are kept.
SparedNone(u) == {}

Spared(u) == {<<"release", seen[u]>>, <<"release", target[u]>>}

\* A directory without a release.json is left alone: a bundle that is being unpacked
\* may have it already, one whose process was killed may have got to it.
Age(d) == IF d[1] = "release" THEN d[2] ELSE target[d[2]]
Readable(dirs) ==
    /\ {<<"release", r>> : r \in disk} \subseteq dirs
    /\ {<<"pending", v>> : v \in {w \in pending : request[w] \in {"placing", "renaming"}}} \subseteq dirs
    /\ dirs \subseteq {<<"release", r>> : r \in disk} \cup {<<"pending", v>> : v \in pending}

\* All but the newest are chosen, those that are still being installed too.
Older(gone, others) ==
    /\ Cardinality(others \ gone) <= Keep
    /\ gone # {} => Cardinality(others \ gone) = Keep
    /\ \A d \in gone, e \in others \ gone : Age(d) <= Age(e)

Choose(u) ==
    /\ Goes(u, "choosing", "removing")
    /\ \E dirs \in SUBSET Directory : Readable(dirs) /\
         \E gone \in SUBSET (dirs \ Spared(u)) :
            Older(gone, dirs \ Spared(u)) /\ doomed' = [doomed EXCEPT ![u] = gone]
    /\ UNCHANGED <<target, stateVars, turn, pending, disk, current, seen, kills, lost>>

\* Another request has switched to a release since it was chosen, or is about to.
Overtaken(u, r) ==
    r # seen[u] /\ (r = current \/ \E v \in Update : request[v] = "switching" /\ target[v] = r)

Remove(u) ==
    /\ request[u] = "removing"
    /\ \E d \in doomed[u] :
         /\ doomed' = [doomed EXCEPT ![u] = @ \ {d}]
         /\ IF d[1] = "pending"
            THEN pending' = pending \ {d[2]} /\ UNCHANGED <<disk, lost>>
            ELSE /\ disk' = disk \ {d[2]} /\ UNCHANGED pending
                 /\ lost' = IF Overtaken(u, d[2]) THEN lost \cup {d[2]} ELSE lost
    /\ UNCHANGED <<request, target, stateVars, turn, current, seen, kills>>

Pruned(u) ==
    /\ doomed[u] = {} /\ Goes(u, "removing", "answering") /\ awaiting' = TRUE
    /\ UNCHANGED <<target, working, exitSet, timer, turn, diskVars, kills>>

\* The answer, then scheduleExit.
Answer(u) ==
    /\ Goes(u, "answering", "done")
    /\ exitSet' = (exitSet \/ awaiting) /\ timer' = (timer \/ (awaiting /\ ~exitSet))
    /\ UNCHANGED <<target, working, awaiting, turn, diskVars, kills>>

-----------------------------------------------------------------------------
(* The process, and what else it does.                                     *)

\* The process ends with whatever it was doing; the next one starts from
\* current.  pruneStaleManagedReleaseArtifacts removes what is left in a day.
Ends ==
    /\ request' = [u \in Update |->
            IF request[u] \in {"none", "done", "refused", "failed"} THEN request[u] ELSE "killed"]
    /\ working' = FALSE /\ awaiting' = FALSE /\ exitSet' = FALSE /\ timer' = FALSE
    /\ lost' = lost \cup {target[u] : u \in {v \in Update : request[v] = "renaming"}}
    /\ doomed' = [u \in Update |-> {}] /\ UNCHANGED <<target, turn, pending, disk, current, seen>>

Exit == timer /\ Ends /\ UNCHANGED kills
Kill == kills < MaxKills /\ kills' = kills + 1 /\ Ends

RemoveStale ==
    /\ \E u \in pending : request[u] = "killed" /\ pending' = pending \ {u}
    /\ UNCHANGED <<request, target, stateVars, turn, disk, current, pruneVars, kills, lost>>

\* Sessions begin and end their turns whatever the host is doing.
Turn == turn' = ~turn /\ UNCHANGED <<request, target, stateVars, diskVars, kills>>

Next ==
    \/ \E u \in Update :
        \/ Ask(u) \/ Checked(u) \/ Begin(u) \/ NotManaged(u) \/ Fetched(u) \/ FetchFails(u)
        \/ Unpacked(u) \/ UnpackFails(u) \/ Place(u) \/ Rename(u) \/ RenameFails(u)
        \/ Switch(u) \/ SwitchFails(u) \/ Look(u) \/ Choose(u) \/ Remove(u) \/ Pruned(u)
        \/ Answer(u)
    \/ Exit \/ Kill \/ RemoveStale \/ Turn

Spec == Init /\ [][Next]_vars

-----------------------------------------------------------------------------

\* Requests that are placing a release.
Placing(r) == \E u \in Update : request[u] = "renaming" /\ target[u] = r

\* The release that the next process starts from is there, whatever failed,
\* overlapped or was cut off, unless the installation of that very release was cut
\* off between its removal and its renaming or has failed there, or an overlapping
\* request had chosen to remove it before it was current (hostSelfUpdateManager
\* start, installManagedReleaseFromBundle, pruneOldManagedReleases).
CurrentIsThere == current \in disk \/ Placing(current) \/ current \in lost

\* ~/.rootgrid/current -> ~/.rootgrid/releases/<release-id>/ (docs/setup.md).
CurrentStands == current \in disk \/ Placing(current)
=============================================================================
