# Verification of rootgrid

rootgrid runs Codex coding sessions on several machines and shows them in a browser. A **host**
keeps machines, sessions, events and approvals in SQLite, and serves browsers over REST and
server-sent events. A **runner** on every machine starts one `codex app-server` process per
session, reports what happens over a WebSocket, and does file, terminal, git and IDE work for the
host. This directory holds TLA+ models of the parts in which order, loss, restart and overlap
decide whether a user sees the right thing, the TLC runs that check them on small instances, and
TLAPS proofs for every instance.

Paths below are relative to the repository (`src/src/...` is the server and runner, `src/web/src/...`
the web UI). `PROJECT.json` lists components, runs, theorems, known hazards, and the source lines of
every definition.

To check: `tlc -config queue.cfg MCPromptQueue.tla`, `tlapm PromptQueueProofs.tla`, and likewise
for the other runs and proof modules in the tables below.

## 1. The system

### Components, state and operations

| component | state | operations |
| --- | --- | --- |
| Runner client (`runner/startRunnerClient.js`) | `sendSeq`, `pending`, `lastAckSeq`, the socket | emit, flush after hello, acknowledge, reconnect |
| Outbox spool (`runner/outboxSpool.js`) | a JSONL log, a state file with the cursor, a queue of disk writes | load, append, ack, compact, switch itself off |
| Runner endpoint of the host (`server/wsRunner.js`) | `connections` by machine, per connection the output batch, authentication and `bootId` | hello, event, batched output, flush, close, disconnect, command to the runner |
| Event store (`db/store.js`, `db/storeSessionWrites.js`) | events, `sessions.last_seq`, derived `turn_state`, `pending_approvals`, `status` | append one or a batch, idempotent by event id; derived updates |
| Recovery (`server/recovery.js`) | `machines.capabilities.bootId` | after a hello with a new bootId: close approvals, set turns idle |
| Approvals (`server/hostApprovalApi.js`, `sessions/codexSessionRequests.js`, `sessionManager.js`) | the map and the table of open approvals; on the runner the promises Codex waits for | request, decide over HTTP, resolve, clear |
| Commands and queued prompts (`server/startHost.js`, `server/pendingRequestBook.js`, `server/sessionLifecycleWriteApi.js`) | `pendingRunnerCommands`, `queued_prompts`, `queuedPromptSendLocks` | queue, edit, delete, send, drain after a turn; command with timeout |
| SSE (`server/sseManager.js`, `server/hostSystemApi.js`, web `lib/sessionSse.js`) | clients, numbering and history of envelopes; in the page the cursor and the EventSource | subscribe, broadcast, replay, drop a slow client, snapshot or hello, reconnect |
| Codex session (`runner/sessions/*`) | active turn, dedupe ids, notification mode, held notifications, output buffers, JSON-RPC requests | start, send, cancel, stop, notifications, exit |
| Runner session manager (`runner/sessionManager.js`) | the map of sessions | create or reuse, start, send, stop, cleanup, dispatch of host commands |
| Tunnel and IDE (`server/tunnelHub.js`, `server/wsTunnel.js`, `runner/startTunnelClient.js`, `runner/ideManager.js`) | tunnel sockets, streams, code-server processes | attach, detach, open, data, close |
| Uploads (`server/uploads.js`, `runner/runnerUploadManager.js`) | transfers, files on both sides | begin, chunk, end, abort, delete, clean up |
| Terminal (`server/terminalSessionState.js`, `runner/runnerTerminalManager.js`) | terminals, their output tail | open, write, resize, close, output, exit |
| Self-update, releases, tools, install (`server/hostSelfUpdateManager.js`, `runner/runnerReleaseManager.js`, `runner/runnerToolsManager.js`, `server/runnerInstallManager.js`) | jobs, release directories, manifests | check, download, activate, roll back, install |
| Session administration, machine, system and workspace APIs | the store | list with cursors, rename, archive, delete, file and git requests to the runner |
| Web client (`web/src/lib/*`, `App.vue`) | sessions, history, chat messages, composer | apply envelopes, back-fill history, send, decide |
| Setup, configuration, authentication, push, static files | files, tokens, subscriptions | sequential, mostly I/O |

### How they interact

Each process is one JavaScript thread: a handler runs to its next `await` without interruption, and
overlap comes from awaits, timers, sockets and the two other processes (runner, browser).

* runner -> host: JSON messages on one WebSocket per machine. Tracked ones have a seq, are spooled,
  and are sent again until acknowledged; answers to commands and keep-alives are not tracked.
* host -> runner: commands and acknowledgements on the same socket. None is repeated.
* A new connection of a machine replaces the old one while messages of the old one are still unread.
* host -> browser: numbered envelopes over SSE with a bounded history; browser -> host: REST.
* Codex -> runner: lines on standard output; the end of the process is a separate event.
* Inside the host, an event travels store -> `onRunnerEvent` -> SSE, push, and the drain of queued prompts.

### What is hard, and what correct means

| part | hard behaviour | correct means |
| --- | --- | --- |
| delivery of events | broken and replaced connections, batches overtaken by single events, crashes of the runner between memory and disk, cumulative acknowledgements | nothing acknowledged is missing, nothing twice, order kept, the outbox drains |
| approvals | redelivery after a decision, HTTP requests that overlap an await, restarts of both sides | what is closed stays closed, what Codex waits for stays open, the counter is right |
| queued prompts | a send settled by an answer, a timeout or a disconnect; a drain meeting a user's send; late edits; restarts | one at a time, sent once, none vanishes, the lock is released, a completed turn drains |
| SSE | clients dropped in a replay, a host that numbers from 1 again, resumption across reload | a connected page has every change, in order |
| Codex session | two forms of every notification, held ones and a timer, a cancel timer against late completions, exit before the last lines | a turn starts and ends once, with its output in between, and does not hang |
| session manager | two creations, failed starts, dead processes in the map, requests to a process that has ended | a process that runs can be reached, a session shown running runs, commands end |
| tunnel, IDE, terminal, uploads | late closes of replaced sockets, timeouts during a transfer, losses that one side does not see | both ends agree on what is open, nothing is left behind |
| updates, installation, sign-in | check-then-await, kills between two steps, a file written in place, a sign-in that outlives its action | what the service starts is there, what is shown has a cause |
| web client | answers that come late, out of order or for another session, while live events arrive | what a page shows is what the host has; what was typed is not lost |

`PROJECT.json` lists the forty hazards that matter most, at their lines, with the properties that
watch them. Two of them have no property there: a torn spool line and an insert that fails, for
which the code loses an event; see "Disagreements". Others that we know of:

* *Runner.* An `approval.respond` is lost with its connection after `sendToMachine` returned true
  (`server/hostApprovalApi.js:76`). An exited process stays in the map of sessions, and its late exit
  overwrites the status of its successor. The exit is handled before the last lines are read
  (`sessions/JsonRpcStdioClient.js:69`). Equal deltas are dropped as duplicates
  (`sessions/CodexAppServerSession.js:760`). A command is accepted before `turn/start` is tried, and a
  failure for a session in the map reaches nobody (`runner/sessionManager.js:330`).
* *Host.* Frames of one chunk are handled before the continuation of an accepted command
  (`server/hostRunnerEvents.js:138`). A prompt that comes just after `turn.completed` waits for the
  next turn (`server/sessionLifecycleWriteApi.js:271`). An emptied prompt uses up a drain
  (`server/startHost.js:314`). Recovery sets a session idle before the spooled `turn.started` of
  its dead process is replayed (`server/recovery.js:66`). Deletion of a session races its late events
  (`server/sessionMetadataWriteApi.js:102`). Terminal frames and queue lists have no history
  (`server/hostRunnerEvents.js:252`). Rejected promises of an upgrade that nobody awaits yet end the
  process (`server/startHost.js:601`).
* *Updates.* Two self-updates pass one check before an await (`server/hostSelfUpdateManager.js:485`); two
  release transfers begin at once (`runner/runnerReleaseManager.js:153`) and one whose connection
  broke is never aborted; a failed `install-service` leaves a configuration that makes the next install
  refuse (`server/runnerInstallManager.js:236`).
* *Page.* A choice that is taken back before its answer comes is not sent
  (`lib/composerModels.js`). Nothing clears the catalog of a machine after an installation of Codex,
  and the old one is on offer for up to 30 s. A session that moves across the page cursor is never
  listed; retention removes sessions and tells no page. Live text marks a tool's output as loaded, so that
  what came before it never is. Reasoning opened during a turn is not loaded again after it.

## 2. Modules

Every component has a module with its state, one action per handler, and its properties at the end.
Components that do not touch each other share an MC module (`MCRunner`, `MCMachine`, `MCWeb`): it
instantiates their modules with their variables renamed, picks one part in the initial state, and
lets the others stand still. Its properties are conjunctions of properties of the parts.
Definitions under a comment that begins with "Wrong:" are not part of the model: each is what the
definition after it would be with a plausible bug, and shows that the property named in `PROJECT.json`
notices that bug.

### RunnerDelivery, EventStream

`RunnerDelivery` is the way of an event from the runner's memory to the event table: numbering,
`pending`, the spool with its queue of disk writes, its compaction and its size limit, the
connection in both directions, the hello and the resending behind it, the host's batch, the table,
acknowledgements, a replaced connection that is still being read, crashes and restarts of both
processes. `Faults` switches on a torn spool line, a failing write of the store, and a host that
dies between the two statements of `appendEvent`. An event is `<<process, n>>`.

| code | model |
| --- | --- |
| `sendToHost`, `makeTrackedEnvelope` | `RunnerEmit`, `Transmit` |
| `OutboxSpool.load/append/ack/#compact` | `RunnerStart`, `SpoolAppend`, `SpoolSaveAck`, `MaybeCompact` |
| `connect`, `on('open')`, `flushPending`, `onAck`, `on('close')` | `RunnerConnect`, `RunnerHello`, `InSeqOrder`, `RunnerAck`, `RunnerConnClosed` |
| `wsRunner` `on('message')`, `queueRunnerOutput`, `flushPendingOutputBatch`, `close` | `HostHello`, `HostEvent`, `HostOutput`, `HostFlush`, `HostConnClosed`, `HostDisconnect` |
| `appendEvent`, `appendEventsBatch` | `Persist`, `Fresh`, `NewRows`, `HostDiesMidAppend` |

`EventStream` is the abstract specification: an append-only log that gets each emitted event at most
once, the events of one process in order and without a gap, each above the mark that readers have
been given. `StreamSpec` says that `RunnerDelivery` implements it, with `emitted` and
`sessions.last_seq` as the mapping.

Left out: keep-alives, the token check and invalid messages; a hello continuation that outlives its
connection (the next connection opens 500 ms later at the earliest); rows of other sessions, and
deletion of the session (its events are then acknowledged without a row, by design); loss of
committed rows when the machine loses power (SQLite WAL, synchronous=NORMAL). A seq may be used
again by a runner after a crash; this is modelled, and harmless.

### Approvals

The requests of one session, from `RunnerAsk` (Codex asks) over `HostRecord` (`approval.request`
stored, counted, opened) to a decision: `PostArrives` looks the request up, `PostDecides` or
`PostRefused` runs when the body has been read, with whatever happened between. `HostHello` and
`Recover` handle a reconnect and a new process; `RunnerReceive` is `approval.respond`;
`SessionDelete` removes everything. The runner runs in the host's process or apart (`Deployments`).
Delivery is abstracted to an outbox of which a prefix is handled on each connection, as
`RunnerDelivery` justifies. Left out: store writes that fail, and a host that dies between storing the
event and writing the approvals row.

### PromptQueue

Queued prompts and direct messages of one session. A command is in one of the phases of `Phase`: from
`BeginSend` (`sendRunnerCommandAndAwait`) to what settles it (`HostAccepted`, `Timeout`,
`RejectWaiting`), and the continuation `SendContinues`, which deletes the prompt, records its input,
or gives it back. `SendQueued` takes the lock, `Drain` is the microtask after `turn.completed`, `EditArrives`
and `EditApplies` are the two halves of PATCH. Microtasks precede requests and timers (`HostIdle` in
the guards), but not frames of the chunk that is being parsed. Events come once and in order
(`RunnerDelivery`); answers are untracked. Left out: attachments, starting and closing sessions,
creation of two Codex processes on the runner. A prompt whose command failed is offered to the
browsers that watch; if none does it is gone, which `returned` stands for. A prompt that an edit has
emptied is dropped when its turn comes and uses up that drain.

### CodexTurns

The turns of one Codex process as `CodexAppServerSession` reports them. Codex itself is external; it
writes each notification in one of the ways of `BuildKinds`. `ReadWrapped`, `ReadDirect`,
`HoldTimer` and `Replay` are `#onNotification` with the choice of the notification mode;
`TurnStarted` and `TurnCompleted` have the dedupe guards; `FlushOutput` and `EmitAfterFlush` the output
buffers; `Cancel`, `ReadAnswer` and `ForceComplete` are the three parts of `cancel` around its await and
its 1.5 s timer, and of `stop`; `CodexExits` is `onExit`, after which unread lines are still read. Left
out: start and resume of a thread and the retries (`CodexRequests`), other event kinds, the dropping of
repeated texts (pieces of output differ), several output streams at once. Notifications name their
turn. A cancel of a process that has exited is part of `RunnerSessions`.

### RunnerSessions, CodexRequests

`RunnerSessions` is `RunnerSessionManager`: the map of sessions (`sessions`), the objects with their
processes, and the asynchronous handlers of host commands, each cut at its awaits: `SessionStart`,
`SessionSend`, `SessionCancel` and `SessionClose`, then `Checked`, `Begin`, `Opened` or `Refused`, `Send`, `TurnStarted` or `TurnRefused`,
`Interrupted`. `ProcessEnds` is the exit with what it rejects; a request to a process that has ended
already is never answered (`hung`). `contested` is a history variable: sessions for which commands that
open or close them overlapped.

`CodexRequests` is the retry of `thread/resume`, `thread/start` and `turn/start`: the nested
loops of `codexProtocolVariants.js` over spellings of five parameters, tried in order against a build
(`accepted`) that knows at most one spelling of each, from the form with all options to those without
one. `Accepts` is fixed for a build: an answer depends on the form alone, not on the session. The texts of
errors, and builds that accept a parameter only with another, are left out.

### Tunnel, IdeSessions, Terminals, MachineRequests, Uploads

`Tunnel` is `tunnelHub`, `wsTunnel` and `startTunnelClient`: streams at both ends, `Attach` of a new
socket over an old one whose `close` comes later, limits on both sides, and frames OPEN, END and ERROR
on each connection. Either side may notice a loss first.

`IdeSessions` follows an editor from `openVSCode` on the page over `ide.start` to the program and its stop,
with calls that time out. `panes` holds the calls of `openWorkspace` (`ReplaceEditor`, `Replaced`) and of
`closeWorkspacePane` (`ClosePane`, `PaneClosed`), each cut at its await with the editor it has read; nothing
keeps them from overlapping. `log` is what the runner has reported. The host handles an event again when
it comes again with the next connection (`handled` falls back to `acked`), since it does not recognise
one that belongs to no session; a restart of the runner keeps the prefix of `log` that was written.

`Terminals` has the runner's shells, the host's records (`markMachineDisconnected`, output and exit
frames) and the one terminal of a page. `MachineRequests` is the request books of the host with their ten
seconds, and the files and git panes that make most of the requests: five flags of the page, two
requests at work in one repository, results that come for a workspace no longer shown. A change of the
branch answers without a status, and `ShownAgain` asks for it with the context of that moment; a status is
`empty` when `rev-parse` fails or is killed, and counts as good; `CommandActs` is a shell command
that changes any repository. Changes by terminals, by a session or by hand are left out, as are branches,
remotes and differences, which `getGitStatus` reads after the status and whose failure it drops.

`Uploads` is an attachment from the request body over chunks, timer, abort and end to its row, and the
queue of operations of the runner. Files that come inside a message (`processAttachments`) take another
way and are left out, with a row that fails to be written unnoticed (`server/uploads.js:269`).

### RunnerUpgrade, HostUpdate, CodexSignIn, Installation

`HostUpdate` is `hostSelfUpdateManager` with `managedRelease`: check, download, `remove` and `rename` of
the release directory, the switch of `current`, pruning and the timed exit, with requests that
overlap and a kill at any step. Pruning is `Look` (where `current` points), `Choose` (all but the newest
directories with a manifest, `.pending` ones among them) and one `Remove` for each, with whatever other
requests do in between; the manifests are read in one step, and a removal succeeds. When
no directory can be made for the download, `working` stays set (`Begin`). `RunnerUpgrade` is the same for a runner: the bundle is packed once,
streamed in pieces, written, checked, unpacked and switched to. When the service cannot be restarted the
directory is removed although success was reported (`RestartFails`). `CodexSignIn` is the part of
`runnerToolsManager` around the device flow of Codex: one action at a time, a sign-in process that
outlives it or cannot be spawned (`StartFails`), answers of `login status` at any time. `Installation` is one machine under `rootgrid
setup`, the install script, `install-service`, `update-local` and `remove-service`: the order of
release, configuration and unit, a configuration that is torn while it is written, tokens that are
taken twice. `Release` always installs a managed release, as the packaged program does; a service that
runs from a checkout is left out. The systemd service is external.

### SseResume

One browser and the host's SSE manager: `Record` and `KeepLast` number and keep envelopes,
`Write` may be refused at any time, which drops the client; `Connect` is `GET /api/events` with its
choice between `registry.hello` and `registry.snapshot` and the replay that follows; `ConnectSse`,
`Receive`, `Apply`, `Lost`, `Reload` are the page. The EventSource's own retry is external: its
Last-Event-ID overrides the URL. Left out: several browsers (each has its own cursor), visibility and
toasts, subscriptions that change on an open connection, history back-fill. A snapshot is taken to
cover every change before it, though the code sends the first page of 150 sessions only.

### SessionHistory, ToolOutput, SessionLists

`SessionHistory` is what the page shows of one session: the first load, older pages, backfills after a
reconnect, and live events that meet them in `sessionHistory.js` and `sessionEnvelopeHandler.js`. Each
call answers later and alone; the host sends text only to a page that it knows to have selected the
session. A backfill reads at most `MaxPages` pages (ten in the code); what is beyond them (`LeftBehind`) is
missed, and nothing asks for it. `missed`, `merged` and `raced` name the cases in which the code gives something up.
`ToolOutput` is the output of one command (live, in pages, in a backfill) and the reasoning of one turn.
`SessionLists` is the list of sessions, paged by the time of the last event while sessions move to its
front, and `sessionReadGate.js`. `paging.former` and `stale` name the rows that an answer from before a
change has brought.

### Composer, ModelCatalog, SessionOptions

`Composer` is `composerSessionActions.js` with the drafts: send, queue, create, edit of a queued prompt and
restore, each with the text it was called with while the user goes on. `ModelCatalog` is
`modelCatalogCache.js` on the host and `loadModelCatalog` on the page. `SessionOptions` is
`patchSelectedSessionOptions`: one call per choice, answered in any order, beside the upserts of the
stream.

## 3. Runs

| run | asks | bounds |
| --- | --- | --- |
| `delivery_restart` | nothing acknowledged is missing (`NoLossWhileUp`), nothing spooled is hidden by a cursor or a compaction (`SpoolSurvives`), no seq twice (`UniqueSeq`), the event log is implemented (`StreamSpec`) | two runner processes of two events each, every spool size, two connection slots |
| `delivery_reconnect` | rows keep the order of emission without gaps (`BootFIFO`) and the invariant of the proofs holds (`DeliveryInv`), with a host that dies in the middle of `appendEvent` | three events, two of them batched, one broken connection |
| `delivery_live` | a spooled event is recorded in the end (`EventuallyRecorded`), the outbox drains (`EventuallyDrained`) | two processes, one broken connection |
| `approvals` | closed stays closed, waiting is open, the counter is exact or too low, recovery closes | three approvals, two processes, two overlapping HTTP requests, two breaks |
| `approvals_stale` (violation) | `StaleCleared` | two approvals |
| `queue` | lock, sent once, kept, a running turn shows | two prompts, three commands, a late edit, one break |
| `queue_live` | the lock is released, a completed turn drains when toasts are on | one prompt, one direct message |
| `queue_no_toasts` (violation) | `AutoDrain` | the same, toasts off |
| `sse_resume` (violation) | `ResumeComplete` | three changes, a history of two, four connections, one host process |
| `runner` | turns agree, end for a cause, with their boundaries once (`TurnIsWhole`); output inside its turn and complete (`OutputKept`); processes can be reached (`SessionsAgree`); streams agree (`EndsAgree`); ended turns do not stay active (`TurnEnds`); commands, streams and the service go on (`GoesOn`) | two turns of two pieces in every build, one cancel; one session, two commands; two tunnel connections and two streams, of which the runner takes one; one setup with one trouble |
| `machine` | terminals (`RecordsAgree`), git (`GitIsFresh`), editors, attachments (`UploadsAreWhole`), sign-in and options of Codex (`CodexReady`), releases, service and configuration (`ReleasesAgree`) | two workspaces, two terminals, two requests, two editors with two calls of the pane and one fault, one upload of two chunks with two faults, three sign-in actions with two flows, two spellings, two upgrades and two updates with a kill, two service commands |
| `web` | the stream (`StreamIsWhole`), drafts, history with tool output and reasoning (`HistoryIsWhole`), lists, models and options (`ChoicesAgree`) | three streams and two host processes over a history of one; two calls of the composer; four events in pages of one, two pages in a backfill, two selections, six steps of these in all (a lost connection or a failure counts as two); three texts; two sessions in pages of one, four changes; two machines, a cache of one; three choices |

Each passing run has a type invariant, or checks a spec whose type invariant another run has, or for which
it is proved. The largest, `web`, has 2.1 million states.

*Why the bounds are enough.* Two connection slots are the most that can be in use: the host reads
one old connection while one is open, and slots are used again. Two runner processes are the least
in which a cursor, a log and new numbers can disagree. Two batched events and a third
give an event that overtakes a batch, and a batch with an old and a new event. Two HTTP requests are
what it takes to close a request twice; more are more of the same. Two prompts give a drain that
meets the send of another; three commands let a prompt be sent again. A history that is shorter than the
changes runs over, and three or four connections give a resumption after a cut resumption. Two turns are
what a timer, a late completion and the wrong turn need. Two commands on one session are the least that
overlap, and the first of two may leave its process dead in the map for the second. Two tunnel
connections give a socket whose close comes after the next was attached; two
streams reach the limit of one. Two calls of the pane are what overlaps; two requests
are a change that meets another, or a change of the branch with its second status. Pages of one event put a
page border between any two events, and
the third arrives while the second is loaded; with two pages in a backfill, a gap of three is not closed;
pages of one session do the same for the list. With a
cache of one, an entry is pushed out while its call is underway. Two updates of three releases with
`keepReleases` 1 let one remove what the other has placed, or has switched to since it was chosen. Where TLC's answer matters for larger
instances too, there is a proof.

*Exceptions.* Many properties of the page hold only up to cases in which the code knowingly gives
something up (an answer dropped for another session, a text merged while two were held back) or does
without noticing (an editor that the page forgets, a release that is removed after it became current). Each
such case is a history variable, declared as such and set by the action that causes it, so that a
property says exactly which losses are possible; everything outside of them is checked.

*Deadlock* is not checked: with bounded events every model comes to a state in which nothing is left
to do. That work ends is what the liveness properties say.

*Fairness.* Delivery: disk writes, timers that reconnect, sockets and message handlers go on, and the
service manager starts the runner again; nothing makes the network break or the runner emit. A
close that the runner must see in the end is fair only when the host has closed its side or is gone, and
the host's view of a close only for connections the runner has left. Queue: microtasks and the
timers of pending commands run; neither a runner that answers nor a user who acts is assumed. Turns:
lines are read and timers fire; Codex need do nothing, so a turn that it never ends is no
violation. Session manager: Codex answers the requests it was sent or its process ends, and the handlers
continue. Tunnel: frames arrive and a side learns at last that its connection is lost; neither the
program nor a timer need end a stream. Installation: commands proceed, systemd starts again what ends.

### Disagreements that were found

* **Stale approvals come back** (`approvals_stale`, `server/wsRunner.js:204`). Recovery runs before
  the spooled events of the dead process are replayed, and an `approval.request` among them is opened
  for a process that is gone.
* **`sseToasts: "never"` stops the queue** (`queue_no_toasts`, `server/hostRunnerEvents.js:360`). The
  early return skips web push and the drain of queued prompts too.
* **A cut replay is not resumed** (`sse_resume`, `server/hostSystemApi.js:164`). `registry.hello` has a
  number above the envelopes replayed behind it; a page that loses the connection in between
  resumes above what it missed and gets no snapshot.

Stated in the modules and false, but not runs of their own:

* A torn spool line loses a later event (`DurableNotLost` of `RunnerDelivery` under the fault
  `tornAppend`; `runner/outboxSpool.js:120`). A partial last line is not repaired, the next append is
  glued to it, and neither can be read after a second crash.
* `session.cleanup` does not reach the uploads of a session that is not in the map or whose process has
  ended (`CleanupDeletesUploads`; `docs/protocol.md:337`), and options that change while the session is in the map are
  not those of the next turn (`OptionsApplied`; `docs/protocol.md:214`).
* The page keeps the id of an attachment that the host has deleted (`AttachmentsUsable`;
  `test/composer_attachments.test.js:94`), and submit may cancel a turn although a draft was typed meanwhile
  (`CancelsWithoutDraft`; `test/composer_session_actions.test.js:316`).
* `~/.rootgrid/current` may point at a release that is gone, on the host and on a runner, when
  installations of one release overlap or are cut off, when a release that was chosen for removal becomes
  current before it is removed (`lib/managedRelease.js:423`), or when the service of a runner cannot be
  restarted (`runner/runnerReleaseManager.js:254`; `CurrentStands` of `HostUpdate` and of `RunnerUpgrade`;
  `docs/setup.md:45`).
* A rejected promise of an upgrade that is awaited later ends the host (`HostStays`), the end of an
  older sign-in is taken for that of a newer (`FailsWithItsProcess`), and the late close of a
  replaced tunnel socket tears streams of its successor (`OthersSurvive`; `server/tunnelHub.js:103`).

Also seen, as hazards: an event whose insert fails is acknowledged all the same (`server/wsRunner.js:105`,
with the fault `storeError` in the model); the events table gives a seq twice when the host dies in
`appendEvent`; an editor that answers while `closeWorkspacePane` waits runs on and is shown nowhere
(`left` in `IdeSessions`); a gap of more than ten pages stays in the history of the page; a status that
is empty because `git rev-parse` was killed shows a repository without changes; an interrupt that Codex obeys in silence before `turn/started` was read leaves the
turn running (`unnamed` in `CodexTurns`).

## 4. Proofs

Proved by TLAPS, for every value of the constants:

| module | theorem | says |
| --- | --- | --- |
| `RunnerDeliveryProofs` | `TypeCorrect` | `TypeOK`, under every fault |
| `RunnerDeliveryProofs` | `DeliveryInductive`, `NothingLostWhileUp`, `SpoolKeepsUnrecorded` | `DeliveryInv`, `NoLossWhileUp`, `SpoolSurvives` |
| `RunnerDeliveryProofs` | `OrderInductive`, `EventsInOrder` | `OrderInv` and from it `BootFIFO` |
| `RunnerDeliveryProofs` | `DeliveryIsAStream` | `StreamSpec`, the refinement of `EventStream`, if no host dies inside `appendEvent` |
| `RunnerDeliveryProofs` | `NumbersUnique` | `UniqueSeq`, if no host dies between the two statements of `appendEvent` |
| `ApprovalsProofs` | `ApprovalsTypeCorrect`, `ApprovalsInductive`, `ApprovalsClosedStaysClosed`, `ApprovalsWaitingIsOpen`, `ApprovalsBadgeExact`, `ApprovalsRecoveryCloses` | the safety properties of `approvals` |
| `PromptQueueProofs` | `QueueInductive`, `QueueLockExact`, `QueueSentOnce`, `QueuePromptKept` | lock, sent once, kept |
| `PromptQueueProofs` | `QueueShowsRunning` | `ActiveShowsRunning` |
| `CodexTurnsProofs` | `TurnsInductive`, `TurnsAgree`, `TurnsEndForCause`, `BoundariesOnce` | the turns of a Codex process, the parts of `TurnIsWhole` |
| `CodexTurnsProofs` | `OutputIsInTurn`, `OutputIsComplete` | its output, the parts of `OutputKept` |
| `MCRunnerProofs` | `RunnerTurnIsWhole`, `RunnerOutputKept` | `TurnIsWhole`, `OutputKept` of the runner as composed |
| `MCRunnerProofs` | `RunnerSessionsInductive`, `RunnerSessionsAgree` | the session manager, `SessionsAgree` |
| `MCRunnerProofs` | `RunnerTunnelInductive`, `RunnerEndsAgree` | the tunnel, `EndsAgree` |
| `MCRunnerProofs` | `RunnerTypeCorrect` | `TypeOK` of the four parts of the runner |
| `MCMachineProofs` | `MachineTerminalsInductive`, `MachineRecordsAgree` | terminals, `RecordsAgree` |
| `MCMachineProofs` | `MachineRequestsInductive`, `MachineGitIsFresh` | files and Git, `GitIsFresh` |
| `MCMachineProofs` | `MachineEditorsInductive`, `MachineEditorsAgree` | editors, `EditorsAgree` |
| `MCMachineProofs` | `MachineUploadsInductive`, `MachineUploadsAreWhole` | attachments, `UploadsAreWhole` |
| `MCMachineProofs` | `MachineSignInInductive`, `MachineCodexInductive`, `MachineCodexReady` | sign-in and options of Codex, `CodexReady` |
| `MCMachineProofs` | `MachineUpgradeInductive`, `MachineUpdateInductive`, `MachineServiceInductive`, `MachineReleasesAgree` | releases and the service, `ReleasesAgree` |
| `MCMachineProofs` | `MachineTypeCorrect` | `TypeOK` of the nine parts of a machine |
| `MCWebProofs` | `WebStreamInductive`, `WebStreamIsWhole` | the stream and its resumption, `StreamIsWhole` |
| `MCWebProofs` | `WebDraftsInductive`, `WebDraftsAgree` | the composer, `DraftsAgree` |
| `MCWebProofs` | `WebListsInductive`, `WebListsAgree` | the list of sessions, `ListsAgree` |
| `MCWebProofs` | `WebCatalogInductive`, `WebOptionsInductive`, `WebChoicesAgree` | models and options, `ChoicesAgree` |
| `MCWebHistoryProofs` | `WebHistoryInductive`, `WebHistoryIsWhole` | the history of a session, the output of its tools and its reasoning, `HistoryIsWhole` |
| `MCWebHistoryProofs` | `WebTypeCorrect` | `TypeOK` of the seven parts of the page |

*Assumptions.* The named assumptions of the constants (`ConnAssumption`, `BoundsAssumption`,
`MCRunnerAssumption`, `MCMachineAssumption`, `MCWebAssumption`, ...), which TLC evaluates in the runs: bounds are naturals, the
sets are not empty, `None` is none of the values. `CodexTurnsProofs` says in its
statements that the bounds are naturals. The
delivery theorems other than `TypeCorrect` also assume `NoDiskFault`: no store write fails and no spool
line is torn. Both are needed, as the two faults falsify the statements; a host that dies inside
`appendEvent` is allowed, except in `NumbersUnique` and `DeliveryIsAStream`, which it falsifies.

*Delivery.* `NoLossWhileUp` is not inductive: an acknowledgement in flight may cover an event that is
not recorded unless one knows that everything lower was ahead of it. `DeliveryInv` (module
`RunnerDeliveryInv`) therefore reads batch and queue of the current connection as one stream:
whatever is pending and has a lower number than a message of the stream is recorded or further
ahead (`QueueInv`, `BatchInv`), an acknowledgement on the way covers recorded events only (`AckInv`),
and once the hello is in the stream everything pending is recorded or in it (`FlowInv`). `SpoolInv` orders
the three cursors and says that what is spooled is recorded below the cursor and pending above it,
which makes `SpoolSurvives` survive a crash. Connections other than the current one need nothing: what
they bring is recorded, and acknowledgements on them are never read. There is one lemma per action.

*Order.* `BootFIFO` speaks of the table alone, so the same must hold of every place an event can be in:
`SpoolOrder` of `pending`, the spool and its queue of writes, `ArrivalOrder` of each connection with its
batch, those being replaced included. Each says that what the process emitted before an event is recorded
or ahead of it. A single event that overtakes a batch keeps this, because `HostEvent` stores the batch
with it. `OriginInv` says that only emitted events are anywhere, and `RowsNumbered` that a host that died
inside `appendEvent` left one seq too many at most. With these, each step maps to a step of
`EventStream`: to the emission of the next event, to the recording of new rows in order and above
`last_seq`, or to a stutter.

*Approvals.* A request is in the table exactly from the moment its event is stored to its first
`approval.resolved` (`OpenInv`); what is stored while a process waits was stored under its bootId
(`BootInv`), so recovery after a reconnect of the same process closes nothing it waits for; numbers
above `asked` appear nowhere (`AskedInv`). The counter needs that a request closes once before it
can be counted exactly, and saturation at zero makes it too low otherwise.

*Queue.* `QueueInv` is types, fresh numbers (`Numbered`), the lock, `PromptKept`, and `Budget`: the
sends of a prompt, plus one while it is in the table, are at most one plus its revivals plus its dropped
sends. `SentOnce` alone is not inductive, since it does not say that a prompt still in the table has
a send left.

`ActiveShowsRunning` follows from `ShownInv`: while Codex works, the last event on the way is a start, or
only answers are on the way and the host shows the session running; a process that has not said hello
works on nothing.

*Turns.* What a process has reported and what it has buffered is one sequence (`Emitted`), the held lines and
the unread ones another (`Pending`). Lines of one form are in order (`Sorted`); those that will count come
after everything that was reported (`Behind`), which is why a second form of a notification is dropped and
a late one cannot reopen a turn; and unless a stop or an exit dropped held lines, each start and each
piece is reported or awaited in every form that counts (`Covered`). The mode of the notifications decides
which form counts, so these have to hold for each mode the session may still choose. `Bounds` ties the
boundaries to `lastStarted` and `lastCompleted`, `Caused` each forced end to a cancel.

*Sessions.* A process is reachable because of who may touch the map: a command that opens a session puts
its own object there, of which it is the only owner until it waits for a turn (`MapOwned`,
`OneAtATime`), a waiting command that is not contested finds the object it left (`Holds`), and an object
that runs and was not killed is in the map (`RunsInMap`) and conversely (`MapRuns`). `Fresh` says that
objects of commands yet to come do not exist. `RunningRuns` needs no exception for overlapping
commands, since the status of a session changes with its process.

*Tunnel.* `EndsAgree` is about frames underway, so it needs the order of frames: a connection is attached
once, when its hello is read, and hello is the first frame on it (`AttachedOnce`); the runner has one
open connection (`OneAtATime`); a stream that the host has not opened is unknown to the runner
(`Unopened`); and a runner that does not know a stream has its OPEN still to read, with nothing but an END
behind it (`OpenFirst`). `EndsTold` and `EndsSent` are the two directions of `EndsAgree`.

*Composition.* `MCRunner` gives each module its own variables. A step of one part leaves the variables of
the others unchanged, so each invariant is proved for its part with `MCRunner`'s variables substituted
(`TurnsRun`, `ManagerRuns`, `TunnelsRun`, `ServiceRuns` say which part may move), and the properties of the
runs are their conjunctions. The invariant of `CodexTurns` is that of its own proof module, instantiated.

`MCMachine` is composed in the same way (`TermsRun`, `PagesRun`, `EditorsRun`, `FilesRun`, `SignInRuns`,
`CodexRuns`, `UpgradeRuns`, `UpdateRuns`, `ServiceRuns`), and its theorems are about the whole only. What
follows is the invariant of each part of it, from `MCMachineInv`; none of the properties is inductive.

*Terminals.* Host and runner agree once nothing is on its way, so `TermsInv` says what is: for a shell
that no broken connection has cut off, a frame `start` was sent at most once and finds no shell
(`StartedOnce`); a running shell is in the book of the host, or `started` is on its way, or a `close` is;
an ended one that the host still lists has its `exit` on the way, and nothing about it follows that exit
(`RunsAsKnown`).

*Files and Git.* A request is sent once, and its result is reported only when it is done (`DoneOnce`); one
change is underway, the second status of a branch included (`OneChange`). Unless requests crossed, a Git
request is the only one of the page, a
change that the page has given up on has left an error or no status, and the status in an answer is as
new as the repository, or as it was before the shell command that is remembered (`AloneOnPage`). `RepoBounded` counts: a repository has changed at most as often as
there are mutations that reached it.

*Editors.* `IdeOnce` follows one editor through its start. Since events come again, `IdeKnownRuns` speaks of
`log`: each `started` in it is of a program that runs, or a `stopped` follows it, so that the books are right
once the log has been handled to its end, wherever the host began. `IdeListed` is the converse. `IdeStops`
says that a program that runs is called for, shown, read by a call that will stop it, or has a `stop` on
the way; what the page has forgotten is in `left`. `IdeRead` says that an editor that a call has read was
shown, and that one which it has stopped is gone or about to be. That the page has one call at a time
(`IdeOneStarts`) is what keeps an editor from being replaced unseen.

*Attachments.* The file on the runner is whole because of where the chunks are: as many as the host has
sent are in the file, waiting for the runner or on the way (`FileWhole`, `ChunksCounted`), the operations of
one upload are done in the order begin, chunks, end, delete (`Ordered`), and they are those that its request
has sent (`OpsSent`). A report is true since nothing of the upload is left to do then (`ReportTrue`). `Removed`
says that a failed upload, or one of a deleted session, is removed or its removal is on the way. All of
this is for uploads that no fault has torn; the host's own rows and files (`HostSide`) for all.

*Codex.* An active sign-in is the present one (`ActiveWaits`). `IssueStays` exempts the time of `login status`
after a sign-in that could not be spawned, which the code answers with "not-authenticated" until then. `TriedRefused` says of each form before the
current one that the build has refused it, so that a form without an option is reached only past all
spellings of it; `Opening` ties the stage to the form of the thread.

*Releases.* A runner unpacks what it has received whole (`WholeWhenUsed`), which needs that a transfer begins
once (`BegunOnce`) and that the pieces written and on the way are no more than those sent
(`ChunksFit`), so that a full count is a full bundle; `crashes` is at most the number of failed upgrades.
On the host, `SwitchIsThere` says that the release a request is about to point to is on disk, is being
placed, or is one of the `lost`. A request that removes what it has chosen spares what was current when it
looked (`SeenSpared`); anything else that became current since, or is about to, goes to `lost` when it is
removed (`Overtaken`); other removals by pruning are not exempt. With these, `CurrentIsThere` is kept.

*The service.* Commands that do not overlap run one after another (`Alone`). What each has made true when it
reaches a stage is what the next stage builds on: who has the machineId (`MachineKept`), and whether unit
and configuration agree (`StepAgrees`). `Fits` says which command reaches which stage.

`MCWeb` is composed in the same way again (`StreamRuns`, `DraftsRun`, `ListsRun`, `CatalogRuns`, `OptionsRun`,
`HistoryRuns`, `OutputsRun`),
and its invariants are in `MCWebProofs` and, for the last two, in `MCWebHistoryProofs`.

*The stream.* `Complete` speaks of a page whose connection is up, but what can go wrong happens when it
resumes, perhaps two connections later. `StreamInv` therefore says of each number that a page can resume
with, now (`PageSound`: the cursor and the Last-Event-ID of the EventSource) or after it has read some of the
frames underway (`FramesReach`, `FramesSettle`): what the page lacks by then is behind that number in the
history, or the history no longer reaches back to it and the host will send a snapshot. That the number of a
`registry.hello` is above the envelopes replayed behind it is why this holds only once the replay has been
read to its end (`rest` counts down to it, `behind` remembers a cut one); without that clause the claim is
`ResumeComplete`, which `sse_resume` refutes. `FramesInOrder` and `FramesOnce` say that the frames underway
continue the page without a gap and repeat nothing. The replay is defined by a recursive function over the
history; what it brings is proved by way of the smallest number at which it could fail (`SmallestNumber`).

*The composer.* Every text that was typed has one key, and is in a draft, in a call or in one of the lists of
what became of it (`TextHasKey`, `DraftOfCall`). A call that ended well leaves no copy in a draft
(`DoneIsGone`), so a text is in two calls only if the first has failed or its queued prompt was restored
(`AgainAfterFailure`), which is `SentOnce`.

*The list.* `ListsInv` applies the frames underway to the row that is shown, one after the other, and says that
the result is the entry of the host; sessions that are not shown are on a page that is still to come, and
what the cursor has skipped is a session that moved. Rows of an answer that a change has overtaken are
in `stale` until a later frame mends them. A session that counts as read was on the screen with that event.

*Models and options.* The cache has one entry of a machine, and for each entry that waits there is one call
on its way. The options of a session need that rows come in the order of the changes, and that of the
choices underway for a field the last is the one the user wants.

*The history.* `NoGap` speaks of a page that has read everything; what it says must be known of a page that
has not. `HistoryInv` says where each event is that the page ought to show and does not (`AllReached`): held
back while an older page loads, given up, asked for by a backfill from a number below it, on the stream
behind all that the page knows (`Beyond`), or told of by the row of the session before the load that
will bring it. A backfill that reads its last page with more to come gives up the rest, so a page that still
asks has read fewer than `MaxPages`. That a number the page asks from is never above such an event needs that the stream is in
order with a snapshot first (`HistoryFramesInOrder`), that an answer is no shorter than what it follows
(`CallsInOrder`), and that nothing is held back without the call that lets it go (`Waits`). `Known` and
`Distinct` make each event shown once, `Sorted` in order, and `TurnIs` says that after the start of the turn
that is shown there is text only. The pages and what was held back are put together by recursive functions
over a page or the list of what is held. What they build is proved like a loop, with an invariant of the
first `k` steps (`FlushingTo`, `SiftingTo`) that the smallest `k` without it refutes.

`NoGap` was false as first stated. With five events and three reconnects a snapshot takes the row of the
session back, a load replaces events that a backfill had brought, and neither the row nor `missed` told of
them; the run, with three events, could not reach this. `missed` now has what a load takes off the page, and
the statement holds for every number of events. The code does this knowingly: the load is the page it starts
over from.

*Tool output and reasoning.* The stream ends with the newest text of the command (`StreamEnds`); a text
after the answer of a load is on the stream or on the page (`CallFits`); of what the page has loaded nothing
is left out (`NoneLeftOut`), and it rises unless texts were loaded again (`TextsRise`). Reasoning that was
opened after its turn had ended is complete as soon as it is loaded, and stays so (`ReasoningInv`).

*Types of the page.* The invariants of the list, the models and the options do not bound them. `ListsWithin`
says that no time, in the table, on the stream or in an answer, is beyond the changes made; `CatalogFits` that
no list of models is newer than the last upgrade; `ChoicesFit` that each choice is a change that was made or
a call that has yet to make one, so that the changes never outnumber the choices.

*Model-checked only.* Liveness, which with `ENABLED` is beyond the prover: `EventuallyRecorded`,
`EventuallyDrained`, the lock that is released and the queue that drains, `TurnEnds` and `GoesOn`. And what
the violation runs refute. Each invariant of a passing run is a theorem. (`TypeOK` of `PromptQueue` is not
checked by a run; the proofs use `Typed`, which covers what the lock is about.)

## 5. Plan

Done, in order of importance: `RunnerDelivery`, on which the rest relies; `Approvals`;
`PromptQueue`; `SseResume`; `CodexTurns`; `RunnerSessions` and `CodexRequests`; `Tunnel`, `Uploads`,
`Terminals`, `IdeSessions`, `MachineRequests`; `HostUpdate`, `RunnerUpgrade`, `CodexSignIn`,
`Installation`; the page with `SessionHistory`, `ToolOutput`, `SessionLists`, `Composer`, `ModelCatalog`,
`SessionOptions`.

All safety that the runs check is proved. To be modelled: the merging of events into chat messages (`lib/chatMessages.js`) against a
reference definition; the index of reasoning.

## 6. Not modelled

Authentication, static files and push are request handlers without state whose interleavings matter.
Left out everywhere: rendering, layout and dialogs; wording, titles, previews and token counts; the
schema of the configuration; what git, the file system and search answer; versions of tools and the
choice of a release from its channel; migrations, vacuum and the index of reasoning (single SQL
statements); the messages that `chatMessages.js` makes of events for display, which are a pure function
of the history that `SessionHistory` follows. Bytes of streams, terminals and files are abstracted to their
presence and order. The time of an event is the runner's clock in the code, and the order of events in the
model of the session list.
