---------------------------- MODULE ModelCatalog ----------------------------
(***************************************************************************)
(* The models of Codex that the composer offers.                           *)
(*                                                                         *)
(* The page loads the list of models of the machine it works with.  The    *)
(* host asks the runner, and keeps the answers for a while; pages that ask *)
(* meanwhile wait for the same call.  The machine of the page may change,  *)
(* and machines come and go, while a list is on its way.                   *)
(***************************************************************************)
EXTENDS Naturals, Sequences, FiniteSets, SequencesExt

CONSTANTS
    Machine,
    Home,           \* the machine of the session
    None,
    CacheSize,      \* entries of modelCatalogCache, 32 in the code
    MaxListings,    \* bound: calls to a runner for its models
    MaxLinks,       \* bound: changes of connections and installations
    MaxSwitches     \* bound: changes of the machine of the page, and forced loads

VARIABLES
    installed,      \* what Codex on each machine offers
    connected,      \* machines whose runner is connected
    entries,        \* modelCatalogCache, the oldest first
    listings,       \* calls for the models of a machine that the runner has not settled
    selected,       \* the session is selected
    favourite,      \* defaults.machineId
    online,         \* the machines the page shows online
    catalog,        \* modelCatalog, modelCatalogMachineId, modelCatalogUpdatedMs
    load,           \* modelCatalogLoading and its request
    missed,         \* history: a load failed, or gave way to another
    links, switches

machineVars == <<installed, connected, entries, listings>>
pageVars == <<selected, favourite, online, catalog, load, missed>>
bounds == <<links, switches>>
vars == <<machineVars, pageVars, bounds>>

Listing == 0..(MaxLinks + 1)     \* what Codex offers; 0 for no models
NoListing == 0

TypeOK ==
    /\ installed \in [Machine -> Listing] /\ connected \subseteq Machine
    /\ Len(entries) <= CacheSize
    /\ \A i \in 1..Len(entries) : /\ entries[i].machine \in Machine /\ entries[i].call \in 0..MaxListings
                                  /\ entries[i].list \in Listing /\ entries[i].fresh \in BOOLEAN
    /\ \A l \in listings : l.machine \in Machine /\ l.list \in Listing /\ l.read \in BOOLEAN
    /\ selected \in BOOLEAN /\ favourite \in Machine \cup {None} /\ online \subseteq Machine
    /\ catalog.machine \in Machine \cup {None} /\ catalog.list \in Listing /\ catalog.young \in BOOLEAN
    /\ load.at \in {"none", "asked", "waiting", "answered", "failed"}
    /\ missed \in BOOLEAN /\ links \in 0..MaxLinks /\ switches \in 0..MaxSwitches

NoCatalog == [machine |-> None, of |-> None, list |-> NoListing, young |-> FALSE]
NoLoad == [at |-> "none", machine |-> None, call |-> 0, of |-> None, list |-> NoListing]

Init ==
    /\ installed = [m \in Machine |-> 1]
    /\ connected = Machine /\ entries = <<>> /\ listings = {}
    /\ selected = FALSE /\ favourite = None /\ online = {} /\ catalog = NoCatalog /\ load = NoLoad
    /\ missed = FALSE
    /\ links = 0 /\ switches = 0

-----------------------------------------------------------------------------
(* The host: modelCatalogCache and codexModelListOnRunner.                 *)

Fresh(list, m) == [machine |-> m, call |-> 0, list |-> list, fresh |-> TRUE]
Pending(m, c) == [machine |-> m, call |-> c, list |-> NoListing, fresh |-> FALSE]
\* A machine has one entry, as a call has; I: where it is, if it is there.
Without(es, I) == IF I = {} THEN es ELSE RemoveAt(es, CHOOSE i \in I : TRUE)
Others(es, m) == Without(es, {i \in 1..Len(es) : es[i].machine = m})
EntryOf(m) == {entries[i] : i \in {j \in 1..Len(entries) : entries[j].machine = m}}

\* touch: the entry is the youngest; the oldest one makes room.
Touched(es, e) ==
    LET all == Append(Others(es, e.machine), e) IN
    IF Len(all) > CacheSize THEN Tail(all) ELSE all

\* The id of the next call: a call is known by it until it settles.
Called == {l.id : l \in listings} \cup {entries[i].call : i \in 1..Len(entries)}
NextCall == CHOOSE c \in 1..(MaxListings + CacheSize) : c \notin Called /\ \A d \in 1..(c - 1) : d \in Called

\* list: what a request for the models of machine m meets.
Known(m) == \E e \in EntryOf(m) : e.call = 0 /\ e.fresh
Underway(m) == {e \in EntryOf(m) : e.call # 0}

Ask(m) ==
    IF Known(m)
    THEN entries' = Touched(entries, CHOOSE e \in EntryOf(m) : TRUE) /\ UNCHANGED listings
    ELSE IF Underway(m) # {} THEN UNCHANGED <<entries, listings>>
    ELSE /\ Cardinality(listings) < MaxListings
         /\ entries' = Touched(entries, Pending(m, NextCall))
         /\ listings' = listings \cup {[id |-> NextCall, machine |-> m, read |-> FALSE, list |-> NoListing]}

\* GET /api/models of the page: the machine has to be connected; its answer is
\* there at once, or when the call for it settles.
Request ==
    LET m == load.machine IN
    /\ load.at = "asked"
    /\ \/ /\ m \notin connected /\ load' = [load EXCEPT !.at = "failed"] /\ UNCHANGED <<entries, listings>>
       \/ /\ m \in connected /\ Ask(m)
          /\ load' = IF Known(m)
                     THEN [load EXCEPT !.at = "answered", !.of = m, !.list = (CHOOSE e \in EntryOf(m) : TRUE).list]
                     ELSE [load EXCEPT !.at = "waiting",
                                       !.call = IF Underway(m) = {} THEN NextCall ELSE (CHOOSE e \in Underway(m) : TRUE).call]
    /\ UNCHANGED <<installed, connected, selected, favourite, online, catalog, missed, bounds>>

\* Another page asks.
Visit(m) ==
    /\ m \in connected /\ ~Known(m) /\ Underway(m) = {} /\ Ask(m)
    /\ UNCHANGED <<installed, connected, pageVars, bounds>>

Waits(l) == load.at = "waiting" /\ load.call = l.id

\* The runner reads the list; its frame goes out.
Read(l) ==
    /\ l \in listings /\ ~l.read /\ l.machine \in connected
    /\ listings' = (listings \ {l}) \cup {[l EXCEPT !.read = TRUE, !.list = installed[l.machine]]}
    /\ UNCHANGED <<installed, connected, entries, pageVars, bounds>>

\* The answer is kept, whatever has taken its place in the cache meanwhile.
Settle(l) ==
    /\ l \in listings /\ l.read /\ listings' = listings \ {l}
    /\ entries' = Touched(entries, Fresh(l.list, l.machine))
    /\ load' = IF Waits(l) THEN [load EXCEPT !.at = "answered", !.of = l.machine, !.list = l.list] ELSE load
    /\ UNCHANGED <<installed, connected, selected, favourite, online, catalog, missed, bounds>>

\* Wrong: a call that failed stays in the cache.
RejectKept(L) ==
    /\ listings' = listings \ L /\ UNCHANGED entries
    /\ load' = IF \E l \in L : Waits(l) THEN [load EXCEPT !.at = "failed"] ELSE load

\* The host gives up the calls in L: they time out, or the runner is gone.  The
\* entry goes if it is still that of the call.
Reject(L) ==
    /\ listings' = listings \ L
    /\ entries' = Without(entries, {i \in 1..Len(entries) : entries[i].call \in {l.id : l \in L}})
    /\ load' = IF \E l \in L : Waits(l) THEN [load EXCEPT !.at = "failed"] ELSE load

\* The call takes 20 s, or the runner answers with an error.
Fails(l) ==
    /\ l \in listings /\ links < MaxLinks /\ links' = links + 1 /\ Reject({l})
    /\ UNCHANGED <<installed, connected, selected, favourite, online, catalog, missed, switches>>

\* onRunnerDisconnect rejects what the machine was asked.
Disconnect(m) ==
    /\ m \in connected /\ links < MaxLinks /\ links' = links + 1
    /\ connected' = connected \ {m} /\ Reject({l \in listings : l.machine = m})
    /\ UNCHANGED <<installed, selected, favourite, online, catalog, missed, switches>>

Connect(m) ==
    /\ m \notin connected /\ connected' = connected \cup {m}
    /\ UNCHANGED <<installed, entries, listings, pageVars, bounds>>

\* Codex is upgraded, or signed in to another account.  Nothing tells the cache.
Upgrade(m) ==
    /\ links < MaxLinks /\ links' = links + 1
    /\ installed' = [installed EXCEPT ![m] = links + 2]
    /\ UNCHANGED <<connected, entries, listings, pageVars, switches>>

\* 30 s pass.
Expire(i) ==
    /\ i \in 1..Len(entries) /\ entries[i].call = 0 /\ entries[i].fresh
    /\ entries' = [entries EXCEPT ![i].fresh = FALSE]
    /\ UNCHANGED <<installed, connected, listings, pageVars, bounds>>

-----------------------------------------------------------------------------
(* The page: loadModelCatalog and the watcher that calls it.               *)

\* resolveComposerModelsMachineId; machines are in the order of their names.
Target(sel, fav, on) ==
    IF sel THEN Home ELSE IF fav # None THEN fav
    ELSE IF on = {} THEN None ELSE CHOOSE m \in on : TRUE
Works(sel, fav, on) == Target(sel, fav, on) \in on

\* loadModelCatalog, once its machine is known and online.
LoadOf(m, force) ==
    IF ~force /\ catalog.machine = m /\ catalog.list # NoListing /\ catalog.young
    THEN UNCHANGED <<load, missed>>
    ELSE IF load.at # "none" THEN UNCHANGED load /\ missed' = TRUE
    ELSE load' = [NoLoad EXCEPT !.at = "asked", !.machine = m] /\ UNCHANGED missed

\* Wrong: a machine that comes online is not noticed.
WatchTarget ==
    LET now == Target(selected', favourite', online') IN
    IF Works(selected', favourite', online') /\ now # Target(selected, favourite, online)
    THEN LoadOf(now, FALSE) ELSE UNCHANGED <<load, missed>>

\* The watcher runs after a change of the machine or of its status.
Watch ==
    LET now == Target(selected', favourite', online') IN
    IF /\ Works(selected', favourite', online')
       /\ (now # Target(selected, favourite, online) \/ ~Works(selected, favourite, online))
    THEN LoadOf(now, FALSE) ELSE UNCHANGED <<load, missed>>

Switch ==
    /\ switches < MaxSwitches /\ switches' = switches + 1
    /\ \/ selected' = ~selected /\ UNCHANGED favourite
       \/ favourite' \in (Machine \cup {None}) \ {favourite} /\ UNCHANGED selected
    /\ UNCHANGED online /\ Watch
    /\ UNCHANGED <<machineVars, catalog, links>>

\* The page hears that a machine came or went.
MachineShown(m) ==
    /\ (m \in online) # (m \in connected)
    /\ online' = IF m \in connected THEN online \cup {m} ELSE online \ {m}
    /\ UNCHANGED <<selected, favourite>> /\ Watch
    /\ UNCHANGED <<machineVars, catalog, bounds>>

\* installSelectedSessionCodex loads the models anew.
Refresh ==
    /\ Works(selected, favourite, online) /\ selected /\ switches < MaxSwitches /\ switches' = switches + 1
    /\ LoadOf(Home, TRUE)
    /\ UNCHANGED <<machineVars, selected, favourite, online, catalog, links>>

\* Wrong: the list is taken for that of the machine the page works with by now.
LoadedForTarget ==
    /\ load.at = "answered" /\ load' = NoLoad
    /\ catalog' = [machine |-> Target(selected, favourite, online), of |-> load.of, list |-> load.list, young |-> TRUE]
    /\ missed' = (load.machine # Target(selected, favourite, online))
    /\ UNCHANGED <<machineVars, selected, favourite, online, bounds>>

Loaded ==
    /\ load.at = "answered" /\ load' = NoLoad
    /\ catalog' = [machine |-> load.machine, of |-> load.of, list |-> load.list, young |-> TRUE]
    /\ missed' = (load.machine # Target(selected, favourite, online))
    /\ UNCHANGED <<machineVars, selected, favourite, online, bounds>>

LoadFails ==
    /\ load.at = "failed" /\ load' = NoLoad /\ missed' = TRUE
    /\ UNCHANGED <<machineVars, selected, favourite, online, catalog, bounds>>

\* A minute passes.
Age ==
    /\ catalog.young /\ catalog' = [catalog EXCEPT !.young = FALSE]
    /\ UNCHANGED <<machineVars, selected, favourite, online, load, missed, bounds>>

-----------------------------------------------------------------------------
Next ==
    \/ Request \/ Loaded \/ LoadFails \/ Age \/ Switch \/ Refresh
    \/ \E m \in Machine : Visit(m) \/ Disconnect(m) \/ Connect(m) \/ MachineShown(m) \/ Upgrade(m)
    \/ \E l \in listings : Read(l) \/ Settle(l) \/ Fails(l)
    \/ \E i \in 1..CacheSize : Expire(i)

Spec == Init /\ [][Next]_vars

-----------------------------------------------------------------------------
\* A page that is not loading, and whose last load neither failed nor gave way,
\* offers the models of the machine it works with, and never those of another
\* under its name (composerModels.js, loadModelCatalog, watch).
CatalogAgrees ==
    /\ catalog.machine = catalog.of
    /\ LET m == Target(selected, favourite, online) IN
       load.at = "none" /\ m \in online /\ ~missed => catalog.machine = m

\* Nobody waits in the cache for a call that has settled: a request joins a call
\* that is underway, and one that failed is made anew (modelCatalogCache.js, list).
WaitsForCall ==
    /\ \A i \in 1..Len(entries) : entries[i].call # 0 =>
           \E l \in listings : l.id = entries[i].call /\ l.machine = entries[i].machine
    /\ load.at = "waiting" => \E l \in listings : Waits(l)
=============================================================================
