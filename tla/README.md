# oma-platform in TLA+

A verification project for this repository: TLA+ models of the Go platform
(`src/internal`, `src/cmd`) and of its web console (`src/console/src`), TLC runs
over small instances, and TLAPS proofs of what matters most for every value of the
parameters. Paths below are relative to `src/`.

1. The system - 2. The modules - 3. `Outbox` - 4. The runs and their bounds -
5. Where the code and its words disagree - 6. What else the models show -
7. The proofs - 8. What is not modelled

## 1. The system

The platform runs agent *sessions*. A client creates a session, posts events to
it (`user.message`, `user.interrupt`, `user.custom_tool_result`, ...) and
listens to the session's event log. The platform queues the inputs, runs *turns*
of a harness (a Python process reached over HTTP, or a daemon over a websocket)
and appends the events the harness streams to the log. MySQL keeps everything
that survives the process; everything else is goroutines and maps of one process.
The console is one React application whose pages talk to the HTTP API and, for a
session, to its event stream.

### Components

| Component | State | Operations | Hard behaviour | What makes it correct |
|---|---|---|---|---|
| **Session lane and turn machine** `internal/session` | per session: `turnCh` (32 jobs), `activeTurn` and its cancel function, `appendMu` | enqueue, interrupt, worker, `RunTurn`, idle publication | one worker and any number of request goroutines share the queue, the log and the row; cancellation in a turn; crash in a turn | an input is kept, stored once and in order, and reaches a turn; a running row has a turn; turns are bracketed |
| **Session registry** `session/registry.go` | `lanes`: session -> lane; each lane's channel and worker | register, look up, remove, worker exit | registering, looking up, sending and removing are separate critical sections; the channel is closed under its senders | a running worker has an owner; a removal that answered left nothing running, and it answers |
| **Outcome supervisor** `session/outcome_supervisor.go`, `outcome_state.go` | `metadata.outcome`, `outcome_iteration`, `outcome_evaluations` | define, judge, revise, give the verdict | every write merges into a metadata read earlier and writes all of it back; an evaluation takes long; cancellation and crash between the event and the row | bounded evaluations, closed spans, a final verdict is the last, the row records what the log says |
| **Pending queue** `session/pending.go`, `store/pending.go` | rows of `pending_events` | enqueue, peek, delete, cancel, promote | peek, append and delete are three statements; sequence numbers are reused; cancelling ignores `appendMu` | FIFO per thread, no loss, no duplicate |
| **Event log** `store/events.go` | `session_events` by `seq` | append, list, page | the sequence number is read and written in one transaction | total order, nothing half stored |
| **Sessions row** `store/sessions*.go` | `status`, `turn_id`, `metadata`, archive mark | `BeginTurn`, `EndTurn`, `RecoverRunning`, `Update`, `Archive` | written by turns, interrupts, the boot and the API with no common lock | agrees with the turn in memory and with the last idle event |
| **Custom tools and stop reasons** `harness/pending_custom_tools.go`, `session/pending_tool_metadata.go` | derived from the log, copied to the row | compute, write | results arrive between the read and the publication | `end_turn` is never claimed with a call open |
| **Event hub and SSE** `stream/hub.go`, `api/sessions.go` | subscribers, each with 32 slots | subscribe, publish, replay | replay and live events overlap; a full channel drops | a reader sees the log in order, or can recover |
| **Scheduled wakeups** `api/wakeup*.go`, `store/wakeups.go` | `wakeups` rows | schedule under a cap, cancel, tick | cap checked before the insert; fire before the delete; one failing row ends the tick | nothing vanishes unserved; the cap holds up to the concurrent requests |
| **Evaluation runs** `eval/worker.go`, `api/eval_*.go` | run row with its trials | start, poll, next message, time out, delete | polls a row that is idle before a turn begins; repeats from the stored trials after a crash | every run ends |
| **Dream worker** `dream/worker.go` | `dreams` row, output store | create, process, cancel | the request and the ticker process one dream at once; a crash between two statements | a completed dream is a copy |
| **Runtime rooms** `runtime/room.go` | daemon connection, online flag | attach, ping, detach | the clean-up of an old connection runs after the new one was attached | the room writes to the newest connection; a daemon that stays is online |
| **Memory stores** `store/memory_stores.go` | memories and their versions | create, update with an expected hash, delete, redact | check and write are two statements | a guarded write replaces what its author saw |
| **Teams** `store/teams.go`, **environments, lists** `store/environments_list_page.go`, **publications** `store/integrations*.go`, `installbridge`, **accounts** `api/me.go`, `auth/middleware.go` | rows | the handlers behind the console's pages | read, decide, write in several statements; pages by cursor; redirects that come back late | see the pages below |
| **Console pages** `console/src` | React state, refs, query caches, the URL | user actions, answers, effects, timers | answers overtake each other and outlive what asked for them; timers and loops outlive dialogs | each page: one or two promises to its user (section 4) |

`PROJECT.json` lists every component, also those left out, and every hazard of this
code worth a property, at its line.

### How they interact

* API -> lane: `EnqueueEvents` on the request's goroutine and context. It inserts
  the row, may promote by itself when no turn is active, and sends a job to
  `turnCh`.
* worker -> store: promotion, `BeginTurn`, events, `EndTurn`, metadata, idle event.
* interrupt -> worker: cancels the context of the active turn and takes the queued
  jobs out of `turnCh`; it shares no lock with the promotion except `appendMu`
  for its own event.
* archive and delete -> registry: the row is written or found, then the lane is taken
  out of the map, its turn cancelled, its channel closed and its worker waited for;
  requests that looked the lane up before still hold it.
* worker -> outcome supervisor: after a turn, inside the job; it runs further turns.
  It, the idle publication, interrupts, `define_outcome` and the update handler write
  the same metadata column.
* boot -> sessions row: `RecoverRunning` turns `running` into `interrupted`, which
  the evaluation worker never sees as idle: its trial ends by its timeout.
* store -> hub -> SSE -> console: after each append; the handler subscribes, then
  replays the log, then forwards. The page adds history pages, replayed and live
  events to one list.
* wakeups and evaluation -> lane: they post inputs as a client would, and the
  evaluation worker polls the row.
* dreams -> memory stores <- console pages, and the files of a turn.
* console -> API: each page by its own requests; nothing but the server and the
  URL survives a page.

## 2. The modules

| Module | What it is |
|---|---|
| `SessionLane` | one session: lane, queue, log, row, all requests, the worker, faults |
| `Outbox` | the abstract promise about queued inputs that `SessionLane` implements |
| `SessionView` | log, queue, hub, SSE handler, reconnecting client and `SessionDetail` |
| `LaneRegistry` | the lanes of one session in the registry: registration, look-up, removal, archive, delete, each lane's worker |
| `OutcomeLoop` | the outcome supervisor of one session and all writers of its metadata |
| `Background` | composes `Wakeups`, `EvalWorker`, `DreamWorker` and `RuntimeRoom` |
| `Console` | composes the sixteen page modules listed below |
| `MCSessionLane`, `MCSessionView`, `MCLaneRegistry`, `MCOutcomeLoop`, `MCBackground`, `MCConsole` | the instances TLC checks |
| `SessionLane_proofs` | theorems: types, the row and the running turn, stop reasons, closed turns, the queue, the order of the inputs, `Outbox` implemented |
| `LaneRegistry_proofs`, `OutcomeLoop_proofs`, `SessionView_proofs` | theorems of the module they are named after |
| `Background_proofs` | theorems about the wakeups, the dream worker, the rooms, and the whole server |
| `ConsoleForms_proofs` | theorems about the pages in which one fills in a form: sign-in, vault, wizards, environment, account |
| `ConsoleLists_proofs` | theorems about the pages that show what others change: skills, evaluations, publications, team, memories |
| `ConsolePages_proofs` | theorems about the pages in which one writes a message, starts a session, edits an agent, or reads a list or the events |

Next to some actions stands a definition marked *Slip*: the action with a
plausible mistake in it. Slips are not part of `Next`. Each property is known to
fail when one of them takes the place of its action, which shows that the
property depends on that detail of the code.

### `SessionLane` and the code

A **step** is what one goroutine does between two points where another goroutine
can see the difference: one SQL statement or transaction, one channel operation,
one critical section. Code between two such points on private data is folded
into the neighbouring step. `pc[a]` says where goroutine `a` is.

| Variables | In the code |
|---|---|
| `pending` | table `pending_events` (`store/pending.go`) |
| `log` | table `session_events` by `seq` (`store/events.go`) |
| `status`, `dbTurn` | `sessions.status`, `sessions.turn_id` |
| `hitl` | `sessions.metadata.pending_tool_calls` |
| `turnCh`, `lock` | `lane.turnCh`; holder of `Machine.appendMu` across a promotion |
| `held`, `job`, `stop` | locals: the peeked row, the received job, the stop reason |
| `active`, `ctxDone` | `Machine.activeTurn`; the turn's context is cancelled |
| `runTurn`, `answers`, `effect`, `readTurn` | locals of the request goroutines |
| `turns`, `accepted`, `heard`, `faults` | history, for identities, properties and bounds |

| Actions | In the code |
|---|---|
| `Handle`, `Insert`, `Choose`, `Send` | the POST handler's `runTurn` decision; `PendingRepo.Enqueue`; the `HasActiveTurn` test; `scheduleTurn`/`schedulePromote` |
| `Peek`, `PeekEmpty`, `PromoteAppend`, `PromoteFails`, `PromoteDelete` | `promoteAllPending`/`promoteNextPending`, by the worker or by a request; `PromoteFails` is the error of `appendEventsForPendingPromote` for a result whose content is not an array |
| `IntHandle` ... `IntIdle` | `handleInterrupt`: list and stamp the queue, store the event, cancel the turn, drain `turnCh` job by job, recover a stuck row, clear the metadata, publish idle |
| `Receive`, `StartTurn`, `BeginTurn`, `ReadHistory`, `Announce`, `Emit`, `StreamEnds`, `FailTurn`, `FinishTurn`, `LeaveTurn`, `Supervise`, `IdleRead`, `IdleMeta`, `IdleLog`, `Release` | `runTurnWorker` and `RunTurn` with their error returns, their deferred calls and `publishStatusIdle` |
| `CrashAndRestart`, `SetupFails`, `Disconnect` | process death and `RecoverRunning`; a statement before the harness fails; the client's context ends |
| `Rest` | nothing left to do (so that TLC's deadlock check means something) |

Four details decide what is true:

* *A cancelled context loses events.* `publishEvents` runs on the turn's context;
  after a cancellation `AppendEvents` fails in `BeginTx`. `Publish` therefore
  stores nothing and goes to `abort`. `publishStatusIdle` runs on the worker's
  own context and is not affected.
* *`Update` may report a row as missing.* The driver counts changed rows; writing
  the same metadata within the millisecond of the previous update counts none.
  `WriteHitl` allows that outcome, and the callers then skip the idle event.
* *`EndTurn` falls back.* If no row has the turn id, it ends any running or
  interrupted turn of the session.
* *A result that cannot be read blocks its thread.* `appendEventsForPendingPromote`
  (`custom_tool_promote.go:24-33`) fails for it, each time; its row stays the head of the
  thread's queue, the worker drops the job without a turn (`registry.go:177-184`), and
  nothing behind it is promoted until an interrupt cancels the queue. `Handle` lets a
  result be of this kind (`Malformed`), and `InputIsHeard` says that this, and the length of
  the log, are the only ways a message of the thread is not heard (`Blocked`).

What `SessionLane` abstracts:

* A request posts one event. The code treats the events of a batch one by one.
* Events that neither steer the control flow nor appear in a property are left
  out, as are broadcasts. `turn_id` and the run id of `runSingleHarnessTurn` are
  one number.
* Statements of the worker do not fail for reasons of their own, except in
  `SetupFails`; request statements fail through `Disconnect`.
* The two statements of `EndTurn` are one step: the second only runs when the
  first changed nothing, and turn ids do not come back.
* `AppendEvents` is one step, because it is one transaction that locks the
  session row. `lock` is kept only over a promotion; single appends need
  `lock = None` and finish at once.
* What a turn and the idle publication read of the log is its first `HistoryLimit`
  events (`ListEvents(..., 0, 10000, true)`, `machine.go:242`, `457`), and a stop reason
  names `MaxOpen` tool uses at most (five, `pending_custom_tools.go:94`, `107`), the oldest
  ones. Both are constants. `IdleRead` takes a set `Named` that has this shape; the
  properties that the limits break say so (`Covers`, `InputIsHeard`).
* The session is neither archived nor deleted (`LaneRegistry` has that) and no outcome
  is defined (`OutcomeLoop`).

### `LaneRegistry` and the code

Here a job is one turn and the inside of the lane is left out; instead there may be
several lanes. A step is one critical section of the registry, one channel operation
or one statement on the row.

| Variables | In the code |
|---|---|
| `lane` | `Registry.lanes[sessionID]` |
| `phase`, `open`, `jobs`, `active`, `ctxDone` | per lane: its worker, whether `turnCh` is open, the jobs in it, `activeTurn`, the cancelled context |
| `row` | `sessions.status`, `turn_id`, `archived_at`, and whether the row is there |
| `pc`, `mine`, `effect` | where each caller is, the lane it holds, what an interrupt did |
| `late`, `sealed`, `turns` | history |

| Actions | In the code |
|---|---|
| `ReadRow`, `Register`, `Lookup`, `Send`, `SendPanics`, `WorkerPanics` | the POST handler and the wakeup worker; a send on a closed channel panics, which the HTTP server recovers from and the wakeup goroutine does not |
| `StopTurn`, `Drain`, `Spin`, `Drained`, `Recover` | `handleInterrupt` and `drainPendingTurns` |
| `ArchiveRow`, `FindRow`, `Unmap`, `CancelTurn`, `CloseChannel`, `WaitForWorker`, `DeleteRow` | the two handlers, `Registry.Remove` and `shutdown` |
| `Receive`, `Exit`, `StartTurn`, `BeginTurn`, `TurnEnds`, `EndTurn`, `Release` | `runTurnWorker` over a channel that may be closed |

### `OutcomeLoop` and the code

`SessionLane` goes through the supervisor without an outcome; `OutcomeLoop` is the
rest. `phase` is where the worker is; a write is the phases `load` (read the metadata)
and `store` (write the merge back), with `patch` the keys it is about and `after` where
it returns to. `snap[w]` is what writer `w` last read, `run` the supervisor's locals.

| Actions | In the code |
|---|---|
| `StartTurn`, `TurnEnds`, `TurnErrs`, `Enter`, `Waits`, `GivesUp`, `Supervise`, `Reread`, `Resolve`, `ResolveModel` | the turn and the ways into and out of the supervisor: no outcome, an open tool use, no evaluator, no rubric, no model |
| `Iterate`, `Evaluate`, `EmitVerdict`, `Reload`, `NextIteration`, `Feedback`, `Revise`, `RevisionErrs` | the loop of `RunOutcomeSupervisor` |
| `Load`, `Store`, `PublishIdle`, `StartUpdate`, `Define`, `Edit`, `StartIdle` | `SessionRepo.Update` by the worker, by `define_outcome`, by the update handler and by an interrupt |
| `Interrupt`, `Cancelled`, `Crash` | the context of the turn is cancelled, and where the turn notices; the process dies |

A revision turn that fails in the stream goes through `failTurn`, which returns nil, so
it counts as a turn (`Revise`); only an error before the harness runs is the verdict
"harness crashed" (`RevisionErrs`).

### `SessionView` and the code

The server half is a shorter lane: a post queues a row and then announces it
(`PostQueue`, `PostAnnounce`), promotion stores and then publishes (`PromoteStore`,
`PromotePublish`), a turn runs, thinks, uses tools, starts a thread and ends. Other
clients answer tools. Each append is published before `appendMu` is released, so `Store`
is one step; promotion publishes after the row is deleted, so it is two. The stream is
`Connect` (subscribe), `Replay` (read the log), `ReplayFails` (`ListEvents` fails, the
handler says nothing and goes live, `api/sessions.go:490-498`), `Deliver`, `Break`,
`Reconnect`, `Refused`. A log may have been left in the middle of a turn by a restart,
which stores no idle event: such a turn is at rest and stays `Unended`. The client half
is the effect of `SessionDetail.tsx` on the session id (`OpenSession`) with its four
requests, the history loop page by page, `addEvent` with its key, the optimistic bubble,
the outbox, the tool panel, `sendMessage` and stop.

| Variables | In the code |
|---|---|
| `log`, `queue`, `turn`, `moving` | the tables and the turn, per session |
| `conn`, `replay`, `buffer` | the SSE request, the rows it replays, the subscriber's channel |
| `current`, `view` | the id in the URL; the component's state and refs |
| `calls`, `post`, `stopping` | requests in flight |
| `gap` | history: an event may be missing from this view or out of its place (the channel overflowed, the replay was cut at its limit or failed while something was missing, a page of history failed, or a later page asked for by an earlier visit to the session is still out) |

`gap` is what the code gives up knowingly: the hub never waits. The properties that
need every event say so. Only the events that move the page's state are kinds of
their own; a message is a model value; the frames about queued rows have no id in
the code, so their key is their type, and so it is in the model.

### The background services

Each module is one table's worth of work, every statement or call a step, and
crashes and failed calls between any two (`MaxFaults`, `MaxCrashes`). They share
nothing but the process, so `Background` looks at one part at a time.

| Module | Actions and the code |
|---|---|
| `Wakeups` | `ScheduleCheck`, `ScheduleCreate` (count and insert), `CancelWakeup`, `ArchiveSession`; the worker's `Tick` (list due rows), `Fire`, `FireFails` (ends the tick), `Settle` (delete a one-shot, reschedule a cron), `SettleFails`, `Crash`, `Clock` |
| `EvalWorker` | `Tick` takes the stored trials, `AdvanceTrial` moves one (start, time out, wait, next message, score), `Save`; `DeleteRun` in its two statements, `Turn`, `TimePasses`, `Crash` |
| `DreamWorker` | `Process` for two activations (the create handler's goroutine and the ticker): `Get`, `CreateStore`, `MarkRunning`, `GetAgain`, `WriteMemory`, `MarkCompleted`, `StepFails`; `Tick`, `CancelRead`/`Cancel`, `EditInput`, `Crash` |
| `RuntimeRoom` | `AttachDaemon` (check and ping the old one), `UpgradeFails`, `Attached` (the assignment), `MarkRuntimeOnline`, `OnDaemonMessage`, `ReadFails` and `MarkRuntimeOffline` (the reader's clean-up), `PeerLeaves` |

### The console

A behaviour of `Console` is a behaviour of one page, mounted with fresh state; the
variable `route` names the page and never changes, and a property of a page is stated of
the behaviours on its route. All page modules are over three variables: `ui` (the
component's state, refs and query cache), `srv` (the rows of the server the page works
on, the requests in flight, other users) and `left` (how many more user actions and
failures are looked at). An action is a handler, an answer arriving, an effect or a
timer; where the correctness of the page depends on the server's handler, its statements
are actions too (memory stores, environments, lists, publications, accounts, teams).

| Module | Pages and code |
|---|---|
| `AgentForm` | `agents/AgentFormDialog.tsx`: templates, five tabs, form to text and back key by key, creation |
| `PromptInput` | `ai-elements/prompt-input.tsx`: attachments, object URLs, submit, stop |
| `SessionForm` | `SessionsList.tsx`: the dialog that starts a session, its two effects, secrets |
| `VaultPage` | `VaultDetail.tsx`: bearer, OAuth pop-up, CLI token, device flow |
| `SkillsPage` | `SkillsList.tsx`: list, upload, detail, versions |
| `PublishWizard` | Slack and Linear publish wizards, reload included |
| `BindWizard` | the GitHub bind wizard with its poll |
| `LoginPage` | `Login.tsx`, `Turnstile.tsx`: seven modes, single-use tokens |
| `MemoryPage` | `MemoryStoreDetail.tsx` over `store/memory_stores.go` and the write-back after a turn |
| `EnvironmentPage` | `EnvironmentDetail.tsx` over `api/environments.go` and the check of `sandbox/resolver.go` |
| `ResourceList` | `DataTable.tsx`, `useApiQuery.ts` and five lists over the stores' pages |
| `EventViews` | transcript and debug tabs, `tool-pairing.ts` |
| `WorkspacePage` | three workspace pages, the list, PAT form, over `integrations*.go` and `installbridge` |
| `AccountPages` | `CliLogin.tsx`, `ConnectRuntime.tsx`, `ApiKeysList.tsx`, `TenantSwitcher.tsx` over `lib/api.ts` and `auth/middleware.go` |
| `EvalPages` | `EvalRunsList.tsx`, `EvalRunDetail.tsx` |
| `TeamPanel` | `TeamPanel.tsx` and the team events of `SessionDetail.tsx` |

Layout, wording and fields that nothing reads are left out. A page of a list is a set of
rows and a tab's list of events a set of ids, since the order of either is that of the
rows' creation or of the log; only the pages follow one another in a sequence. A text
field is one of a few values; a list has a few rows; the providers' consent pages, the
auth library and the challenge widget are external, modelled from how the pages use
them.

Three page modules are about more than the order of events. In `AgentForm` an optional key
of a configuration is a set of at most one value; `Payload` is what `create` posts and
`formToConfig` what the editor shows, two pieces of code in the source and two here;
`buildToolsField` writes the four states of a tool as entries that `parseConfig` reads back,
and likewise the metadata and the binding; the text a user types (`Typed`) has what the form
never writes: no tools, an entry that says nothing or says two things, an unknown level, the
binding of old rows. In `EnvironmentPage` a configuration has a part the page shows, a part
it copies unseen (`type`, `dockerfile`, gem packages) and a part it has no name for (`rest`),
which a save does not send. In `VaultPage` a call may take effect and lose its answer
(`Untold`), and a pop-up that failed reports like one that stored a credential (`PopupFails`,
`writeOAuthCloseHTML`); the routes of the device flow and of CLI tokens are external, since
this server has none of them, and `srv.capCli` says whether the server at hand has.

## 3. The specification `Outbox`

Every input is `unsent`, `queued`, `claimed`, `delivered` or `withdrawn`. The
oldest queued input of a thread is claimed, one at a time over the whole session;
a claimed input is delivered whatever happens; an interrupt withdraws what its
thread still has in the queue. `KeepsOutbox` substitutes `OutboxState` for the
state and `accepted` for the order: a row held by the holder of `appendMu` is
claimed, a live row is queued, a stamped row is withdrawn, an input in the log is
delivered. A step of the lane is then a step of the outbox or a stutter. This
settles the race between `CancelAllForThread` and a promotion in progress:
the peeked row is stamped under the promoter's hands and still delivered, so for
the client it was claimed, never withdrawn. A result that cannot be read is never claimed,
though it is peeked: it stays queued, and so does what is behind it.

The refinement is checked without faults: a crash between the append and the
delete promotes a row twice, which `Outbox` does not promise against.

## 4. The runs and their bounds

| Run | Checks |
|---|---|
| `lane_turns` (309 000 states) | two messages on two threads, one tool result, which may be one that cannot be read, one tool. `TypeOK`; `LogClosesTurns`: a turn that is over and was announced has its `turn_end`, and at rest the row repeats the last idle event; `IdleCoversOpenTools`: no `end_turn` with a call open; `InputIsHeard`: a queued message is in the history of a turn of its thread, unless its thread is blocked |
| `lane_interrupt` (595 000) | two messages, one interrupt. `NoDuplicatePromotion`, `NoZombieRunning`, `KeepsOutbox` |
| `lane_faults` (202 000) | a message, a confirmation, an interrupt, one fault anywhere. `PromotedInOrder`, `NoInputLost`, `ComesToRest` |
| `lane_recover_live`, `lane_answer` | **violated**, section 5 |
| `session_view` (1 063 000) | one session watched. `ShownIsPrefix`: what is shown is the log from its beginning, nothing twice; `QuietShowsAll`: once nothing is on its way, everything is shown; `StatusMatchesLog`: the pill says what the log says, replays do not turn it back |
| `server_background` (439 000) | `WakeupsDelivered`, `CapOverrun`, `CompletedCopies`, `EveryRunEnds`, `ComesOnline` |
| `console_pages` (477 000) | sixteen properties, below |
| `registry_removal` (95 000) | an archive and a delete with a message and a wakeup; an archive with two messages and an interrupt. `NoOrphanLane`: a running worker belongs to the lane in the map or to a remover that waits for it; `RemovalQuiesces`: a removal that has answered leaves no worker, job or turn in its lane; `RemoveReturns` |
| `archive_ingests` | **violated**, section 5 |
| `outcome_loop` (811 000) | two outcomes, one interrupt, one crash. `EvaluationsAreSound`: no more evaluations than the maximum, every span closed, nothing after a final verdict, every verdict recorded; `RecordsAreLogged`: no record without its event; `OutcomeIsJudged`: an outcome that the supervisor finds gets a final verdict |
| `outcome_dropped` | **violated**, section 5 |

`console_pages` checks one promise per page:

| Property | What it says |
|---|---|
| `FormRoundTrips` | form to text and back loses nothing that would be posted: tools with their policies, metadata and harness included |
| `UrlsMatchItems` | the object URLs in use are those of the listed files |
| `FormFollowsUser` | the warning is computed from the agent in the form; a secret is in clear only in the row it was asked for, though rows shift |
| `FlowsAreFollowed` | a dialog that says it waits has a loop that asks; a credential a late loop or pop-up stored is shown, unless an answer was lost |
| `FilesOfVersion` | the files under a version are that version's |
| `PinnedIsShown`, `PollsPinned` | the publication in the URL is the one shown and the one polled, so that a reload resumes it |
| `TokensOnce` | no attempt and no resend starts with a single-use token that a call was sent with, but for the second call after `EMAIL_NOT_VERIFIED` |
| `GuardHolds` | a guarded save replaces what its author saw, unless a write lands between check and write |
| `HiddenSurvives` | type, dockerfile and gem packages survive a save; an environment of type `sandbox` keeps `config.sandbox` |
| `NoRowSkipped` | rows that come and go between two pages make a list skip, repeat or reorder none |
| `DebugShowsEvent` | View in Debug shows the event that was selected; a tool's use and result come together |
| `UnpublishedStays` | a discarded publication is not brought back by a credential form or a redirect |
| `TokensAllOrNone` | the client gets an entry for every approved workspace, or none, and no entry has a token |
| `ShownIsFinal` | a page that stopped asking shows a final state and its reward |
| `MessagesOnce` | a message that is fetched and streamed is shown once |

**Exclusions, all stated in the formulas.** `gap` in `SessionView` (above);
`NoRowSkipped` not for files, whose cursor compares random ids while the rows are
ordered by time; `doubled` in `CompletedCopies` (both activations at work at once: the
one that completes may have filled a store of its own); `crossed` in `GuardHolds` (a
write between another's check and its write) and in `HiddenSurvives` (another client
changed the hidden part after the form was seeded); `crossed` in `FilesOfVersion` (a
second skill was opened while the first was read: the page does not tell its answers
from those of the first); the stage `again` in `TokensOnce` (the second call of an
attempt); `rest` in `HiddenSurvives` (only an environment whose saves are refused keeps
it); `raced` in `PollsPinned` (a form was sent while another publication was resumed);
`gap` in `FlowsAreFollowed` (a call took effect and its answer was lost, the list could
not be read, a pop-up reported to a closed dialog, or went before it reported) and
`Unreported` (neither of its two reports has arrived yet); in the parts of
`EvaluationsAreSound` and in `OutcomeIsJudged`: `cuts` (turns that a cancellation or a
crash cut off, each of which may cost one more evaluation), `later` (an outcome accepted
after this one may lend it its iterations, section 6), `lost` (a write of the metadata
overwrote one it had not read), `openUse` (a tool use waits for its result) and another
outcome defined meanwhile. `RecordsAreLogged` has no exclusion. What they leave out is
listed in section 6.

**Bounds of the lane.** `ChanCap = 1`, so that a full channel, a blocked sender and a
drained job all happen with two requests. `HistoryLimit = 9` lies above the logs of two turns
and below the longest ones, `MaxOpen = 1` is the one tool; an instance with two
tools, in which the list is cut, has 1.7 million states and was run once without an error,
and the theorem is for any. Two inputs are enough for order, for a
duplicate and for two promoters; one interrupt with them reaches every interleaving of
the recovery and the drain; one fault falls into every gap between two statements. One
tool separates "open" from "answered". A request runs once, so the space is finite.

**Bounds of the view.** Two sessions; the first has one of three pasts (`Opened`: only a
message, a turn that waits for a tool, a turn in the middle of a thought, a turn that a
restart cut off) and may grow by the events its `limit` allows. `PageLimit = 2` makes
the history take several pages, `HubBuffer = 2` lets the channel overflow, `ReplayLimit
= 4` cuts a replay when the log is full. `MaxFaults = 1`: a failed page, a failed
replay, a broken or refused stream, or another session opened. `Prompt = OneByOne`: in a
behaviour the server answers one of the four kinds of requests, the others stay in
flight; the state they write is disjoint, and each kind is explored against everything
the stream and the turn do.

**Bounds of the registry.** `ChanCap = 1`, so that a sender blocks and a removal finds a
job in the channel. `Lanes` has one lane for each registration that can make one.
`Gone` names sets of callers that never come, one set for each behaviour: the run is two
instances in one, `{p1, w1, a1, d1}` without an interrupt is left when `p2` and `s1`
stay away and `{p1, p2, s1, a1}` when `w1` and `d1` do. Two closers race each other,
two senders fill the channel, and one interrupt drains it.

**Bounds of the outcomes.** `MaxOfTwo`: the first outcome may be revised once, the second
not at all, so the verdict at the end of the loop, at the maximum and in between all
occur. Two outcomes are needed for one to be defined into the other, one crash and one
interrupt fall between any two statements. The instance with an editor of other keys
is `outcome_dropped`. A session may come to rest for good, hence no deadlock check.

**Bounds of the background.** One session for wakeups with two concurrent requests, three
schedules, `Cap = 1` (so the cap is overrun), `Batch = 2` (so a tick has a row behind
a failing one), `MaxTime = 1` (one cron step) and one fault. Two trials of two
messages (`LastMessage = 1`), one crash. Two paths and two contents, two output stores
(the second is the orphan), one edit, one crash. Three connections: the one replaced, the
one replacing, and one that raced with it.

**Bounds of the console.** `PageSteps` gives each page its budget of user actions and
failures (2 to 7), enough to open, do, undo and redo what its property is about; answers,
timers and polls are not counted. `MaxRows`, `MaxPubs`, `MaxCreds`, `MaxVersions`,
`MaxMemories`, `MaxRequests`, `MaxTicks`, `MaxSlots`, `MaxRules`, `MaxMessages` are 2 or 1,
since each property is about two of a thing (two answers, two rows, two publications);
`MaxEvents`, `MaxKeys`, `MaxTime`, and three `Ids` with `PageSize = 1` give a list three pages.
`Plain` names the kinds of events that no tool is part of. Paths and contents are
symmetric: they are only compared. Pages may stop (the user goes away), so deadlock is
not looked for in the console, the view and the background; in the lane it is.

**Fairness.** *Lane*: `WF(Work)`: the worker goroutine is never descheduled for good,
and the harness stream ends. The second half is an assumption about the harness: the
platform's streaming client deliberately sets no timeout (`harness/client.go:174`), so
only the harness or an interrupt ends a turn. `WF` for each request that has arrived.
Nothing makes a client send, and no fault is obliged to happen. *Registry*: goroutines
run on and a turn ends, the same assumption; nobody is obliged to come. *Outcomes*: the
worker runs on; an evaluator call has a limit of two minutes, the harness is as above.
*Evaluation*: the worker goes on (`cmd` starts it on a ticker for the life of the
process, and its HTTP calls time out) and the clock advances; a session's turn need not
end, which is why the timeout is what `EveryRunEnds` rests on. *Rooms*: the goroutines
of a connection go on, and a daemon that is there sends its pings. No strong fairness is
assumed.

## 5. Where the code and its words disagree

Each is a run that finds the counterexample.

1. `lane_recover_live`: the recovery of a stuck row is documented for "running
   and no active turn" (`docs/design/loop-task-termination.md:408`), but
   `handleInterrupt` samples the turn first and reads the row later. A worker
   between receiving its job and installing the turn is invisible to the sample;
   its turn then begins, the recovery ends the row of that live turn and publishes
   idle, and the harness goes on.
2. `lane_answer`: a tool result is said to trigger a turn if the session has an
   open call (`docs/design/session/session-events.md:119`). The decision reads
   `pending_tool_calls`, which is written after the turn: a client that answers
   at once is stored and not heard.
3. `archive_ingests`: "Archive marks a session archived and stops further event
   ingestion" (`store/sessions_lifecycle.go:9`). A request reads the row while the session
   is idle and passes the guard (`api/sessions.go:225`); the session is archived, and as no
   lane is registered there is none to remove; the request then registers one and sends its
   job, and `BeginTurn` (`store/sessions.go:354`) overwrites `archived` with `running`
   without looking at it. The next request passes the guard. No turn runs at the moment of
   the archive. A second way, which the model has too: a job that was sent before the
   archive; `Remove` lets the worker run it, and `BeginTurn` and `EndTurn` leave an idle row
   with no lane.
4. `outcome_dropped`: `user.define_outcome` "registers an outcome, which the supervisor
   evaluates later" (`docs/design/session/session-events.md:122`). The verdict on the
   outcome that is being judged sets `patch["outcome"] = nil`
   (`outcome_supervisor.go:274`) without comparing it with the one in the row, so an
   outcome that was accepted during the evaluation is deleted unjudged.

## 6. What else the models show

Behaviours the models contain because the code has them; most contradict no text, some
a text that is weaker than those of section 5, and none is the subject of a run. They are kept here
for whoever changes this code.

* *Interrupts.* The `turn_end` of an interrupted turn is published on the context that
  was just cancelled and is lost (`machine.go:518`). The interrupt has no thread: it
  cancels the active turn and drains the jobs of every thread (`registry.go:143-153`),
  though `docs/design/session/session-threads.md:79` says it spares siblings.
* *Lanes.* A request that read the row before the archive registers a second lane beside
  the one that finishes its turn, and the session runs two turns at once. An interrupt
  that still holds a removed lane drains a closed channel, which always yields a zero
  job, for ever (`Spin`). The wakeup worker's send on a closed channel ends the process
  (`WorkerPanics`). `Remove` waits for the turns of all jobs in the channel. Deleting a
  session leaves its `pending_events` rows; after an archive `publishStatusIdle` fails
  with `ErrArchived`. One tool result whose content is not an array stops its thread until
  the next interrupt.
* *Outcomes.* Every metadata write is read, merge and write without a transaction
  (`store/sessions.go:157-184`): the idle publication at the end of a turn can put back a
  metadata without an outcome that was accepted in between. A cancelled supervisor writes
  no verdict and leaves the outcome active, where
  `docs/design/loop-task-termination.md:144-146` lists `interrupted` among the final
  results. Open tool uses are not looked at again after a revision. The outcome
  is read twice on the way in and the iteration once, so a new outcome may start at the
  iteration of the old one. Saving the resolved rubric (`outcome_state.go:272`) writes the
  outcome that was read, so one defined since then is replaced by the old one, which takes
  its iteration 0 and may be evaluated `max_iterations` times again. `later` counts the
  outcomes accepted after each, and the limit that holds is
  `max_iterations * (1 + later) + cuts`; a limit without `later` was refuted when the proof
  of it failed, and then by TLC with three outcomes. The turn of a thread other than the
  primary one does not reach the supervisor (`outcome_supervisor.go:317-319`): its outcome
  waits for a turn of the primary thread.
* *Wakeups.* A row cancelled after it was listed still fires; a row whose firing
  fails ends the tick; a crash between firing and deleting fires twice.
* *Evaluation.* A trial may be judged before its turn has started, since the row is idle
  in between; a crash repeats a session; `SendUserMessage` uses the default tenant.
* *Dreams.* The create handler and the ticker make two output stores; a cancel that read
  an active dream overwrites a completed one; a crash before `MarkRunning` leaves a store
  nobody owns. `ListMemories` does not read the blobs in which memories over 4 KB are kept, so
  these are copied empty (`store/memory_stores.go:347-377`, `dream/worker.go:126-139`).
* *Rooms.* The clean-up of a replaced connection marks a runtime offline that is
  online; the next ping repairs it.
* *Session page.* The requests of the session that was open before are not cancelled and add
  its events to the page of the next one (`SessionDetail.tsx:732-756`). If the user comes back
  while a second or later page of the first visit is out, that page may be added before the
  first one of this visit, and what is shown has a hole until the others arrive; the model
  first left this out, as the run opens another session only once, and the proof of
  `PagesOK` failed there. Frames of queued messages share one key; a full channel loses events
  until the stream reconnects, and so does a replay whose `ListEvents` fails
  (`api/sessions.go:491-497`): the page shows a list with a hole and is not told. After a
  restart in the middle of a turn the pill says running until the next turn ends, since
  `RecoverRunning` stores no idle event. The panel that answers tool calls is behind a tab no
  button selects.
* *Memory.* `UpdateMemory` compares the expected hash with a row it has read and updates by id in
  a later statement (`memory_stores.go:407-466`), so two guarded saves can both pass;
  `not_exists` is ignored; the version list omits the content, so Roll back never
  shows; an archived store still takes writes.
* *Account pages.* `CliLogin` reads `token`, `tenant_id` and `key_id`
  (`CliLogin.tsx:181-187`) where `cli-tokens` answers `id`, `key`, `prefix`, `name` and
  `created_at` (`api/me.go:58-64`), so the client is sent entries without a token; a
  failed batch leaves the keys it minted; a refetch overwrites the selection; a revoked
  workspace in one call drops a valid pin.
* *Agent form.* An old row that names its gateway under `managed` keeps it in the form only
  if the gateway is one of those of that time; a newer one is read as the cloud. The round
  trip of the form rests on the gateway being one of those offered, which the proof of
  `FormRoundTrips` needed as `HasForm`; the model had lost the difference. Text that is read
  into the form loses custom tools, toolsets of servers that are not in `mcp_servers` and
  keys the form has no field for; the agent and the blocklist of a binding are taken for any
  harness, the runtime for `acp-proxy` only (`AgentFormDialog.tsx:546-550`).
* *Sign-in.* An attempt that is told `EMAIL_NOT_VERIFIED` sends the token of the failed call
  a second time (`Login.tsx:213`), though the file says that a fresh one is needed (212) and
  that tokens are single-use (287-288).
* *Lists.* The files cursor follows the id, not the order (`store/files.go:126-145`); a
  failing next page is asked for without end.
* *Environment.* Clearing the description is never saved; a refetch in the background
  overwrites unsaved edits. A save sends `type`, `dockerfile`, `packages` and `networking`
  (`EnvironmentDetail.tsx:142-149`): `config.sandbox` and whatever else the configuration held
  is dropped; when the type is `sandbox` the server answers 400 instead, so such an
  environment cannot be edited here at all.
* *Integrations.* Slack's credentials are checked and then written (`bridge.go:385-414`);
  every OAuth completion adds an installation; persona and capability updates have no
  guard on unpublished rows; going back in the Slack wizard makes a second publication.
* *Vault.* A pop-up that is closed, or taken over by a second Connect (both open the window
  named `oauth`), between the callback's store and its report leaves the list without the
  credential until something else reads it again, and so does any write whose answer is lost:
  a failed call reads nothing again. A pop-up that was refused, or whose code could not be
  exchanged, reports `oauth_complete` like one that stored a credential
  (`oauth_v1.go:192-263`, `462-515`), and the dialog closes with the warning
  "Connected to , but the server rejected our token.". The
  Go server has no `/v1/cap-cli` route, so the CLI tab gets 404s from it; `README.md:338` and
  `docs/api-migrate/MVP-MIGRATION-PLAN.md:231`, `288` place them elsewhere or later. An effect
  that comes later than the failure of its call is not modelled.
* *Others.* A second submit of the prompt sends the files twice; a double click creates two
  agents; late answers of the skill dialog are not tied to the skill; a late mailbox
  answer replaces newer messages; the first failing load of an evaluation stops its poll;
  a terminal answer of an old device flow sets the status of the new one.

## 7. The proofs

The theorems hold for every value of the constants that satisfies the assumption of the
module; TLC evaluates these in the runs.

**`SessionLane`.** `LaneAssumption`: the kinds of requests are disjoint, `Worker` and
`None` are nobody else, `ThreadOf` is a function into `Threads`, the channel has
capacity. It bounds no set of requests, threads or tools and no number of faults.
`RowAssumption`: `None` is no row of the queue, so "nothing peeked" differs from every row.

* **`TypeCorrect`**: `Spec => []TypeOK`. `TypeOK` alone is not inductive:
  `PromoteAppend` uses `held.msg`, which is a row only because a goroutine at
  `append` or `delete` holds the lock. `Locked` states that and is carried along.
  One lemma per group of actions.
* **`RunningBelongsToTurn`**: `Spec => []NoZombieRunning`, through
  `RowFollowsTurn`, which adds what the steps need: while the worker is between
  `StartTurn` and `Release` a turn is installed in memory.
* **`IdleNamesOpenTools`**: `Spec => IdleCoversOpenTools`, an action property. The worker
  reads the log for its stop reason, writes the metadata and only then publishes, so what
  is needed is `StopCovers`: between these steps every call without a result is among those
  the stop reason names, or it names `MaxOpen`, if the log is within `HistoryLimit`
  (`ReadFacts`). It lasts because others only append results, never uses
  (`OpenToolsShrink`).
* **`TurnsAreClosed`**: `Spec /\ []Undisturbed => []LogClosesTurns`. `Undisturbed` says
  that no fault has happened and no interrupt was sent; under either the closing event of a
  turn really is lost (section 6), and the run has neither. `TurnsClose` follows a turn from
  its start to its `turn_end`, `RowSaid` ties the row at rest to the last idle event.
* **`InputsAreKept`** and **`PromotedAtMostOnce`**: `Spec => []NoInputLost` and
  `Spec => []NoDuplicatePromotion`, both from `QueueInv`:
  `Keyed` (sequence number and input identify a row, although numbers are
  reused), `HeldRow` (what the holder of `appendMu` has peeked is still in the
  table, even if it was cancelled, and is in the log once only the delete is
  left), `Fresh` (a request that has not inserted left no trace),
  `LoggedRowLeaves` (without faults, a row whose input is in the log is the one
  about to be deleted). Without `LoggedRowLeaves` a second peek of a stored row
  could not be excluded; without `HeldRow` the delete could miss; without `Keyed`
  it could take a neighbour along. `Quiet` names the steps that touch none of
  this and handles them in one lemma.
* **`InputsKeepOrder`**: `Spec => []PromotedInOrder`, with faults. `OrderInv` compares three
  orders: of acceptance, of the rows and of the log. `RowsInOrder` says that rows that are
  in the table together are numbered in the order of acceptance, although a number is used
  again once the highest row is deleted; `OldestHeld` that everything accepted before the
  peeked row on its thread is in the log or was cancelled; `HeldNotOvertaken` that nothing
  of its thread was stored ahead of the peeked row, also when an interrupt stamps it under
  the promoter's hands, since it is stored all the same; `StoredInOrder` that whatever is
  stored follows all that was accepted before it, but for what was cancelled; `AcceptedOnce`
  and `RowsAccepted` that acceptance is an order and names every row.
* **`LaneKeepsOutbox`**: `Spec /\ [](faults = 0) => KeepsOutbox`, the refinement. The initial
  states are mapped, and one lemma for each kind of step shows what it does to `OutboxState`:
  an insert sends, a peek claims, an append delivers, the stamp of an interrupt withdraws,
  everything else is a stutter. It rests on both invariants: that the peeked row is the
  oldest of its thread is `OldestHeld`, that a delete changes nothing is `HeldRow`. The
  hypothesis is that of the run: a crash between append and delete leaves a claim without
  its claimant.

**`LaneRegistry`.** `RegistryAssumption`: the kinds of callers are disjoint, lanes are
numbers, the channel has capacity. **`NoLaneIsOrphaned`** (`NoOrphanLane`),
**`RemovalsQuiesce`** (`RemovalQuiesces`) and **`SealedSessionsStayQuiet`** (a session
archived with nothing in flight stays archived and gets no lane, which no run checks),
from one invariant: `LaneRuns` (the lane in the map has a worker and an open channel),
`OverIsEmpty` (a lane whose worker has gone has no job and cannot get one, so nothing is
left behind after the wait), `WaitsIdle` (no turn between turns), `HeldIsUnmapped` (a
remover's lane is no longer in the map, so two removers never hold it and nobody
registers it again), `FreshHoldsNone` and `SealedIsStill`. Without `OverIsEmpty` a late
sender could refill a lane after its worker has left: that a send on a closed channel
panics is what keeps it empty.

**`OutcomeLoop`.** `OutcomeAssumption`: positive maxima, disjoint callers; any number of
outcomes, editors, interrupts and crashes. **`VerdictsAreLogged`**:
`Spec => []RecordsAreLogged`. The row alone is not inductive, since a write stores what
some writer read long before: `CopiesLogged` says the same of every copy of the records,
in the row, in the supervisor's locals, in each writer's snapshot and in the patch on its
way. `HasOutcome` (past its entry the supervisor has an outcome) and `PatchTyped` carry
the types.

**`EvaluationsStaySound`**: `Spec => []EvaluationsAreSound`, four statements about a log that
grows at both ends of an evaluator call, from `SoundInv`:

* `BudgetInv` for the limit. A started evaluation is not yet counted anywhere: the count is
  in the worker's locals, then in its patch, then in the row, and the row may be overwritten.
  `Cost(o)` is the number of evaluations started, `Allowed(o)` what the maximum, the later
  outcomes and the cut turns allow, and the invariant bounds the cost by what the counter of
  the row says *and* by what the counter of the worker says, less the evaluation that is
  running (`Uncounted`) or not saved (`Unsaved`). `PatchFollows` says that the patch on its
  way is the one the worker's phase computed.
* `SpansInv` for the closed spans: starts and ends of an outcome differ by the cut turns and
  the evaluation that is running.
* `FinalInv` for the last verdict: after a final verdict the outcome is in no row and no
  local from which it could be evaluated, unless a write was lost.
* `RecordsInv` for the records: the record of the n-th verdict is the n-th record, in the row
  or in the patch, unless a write was lost.

`StoreEffect`, `DefineEffect` and their like say what an action does to what these name, so
that the proof of each part has one case per action and opens no definition twice. For
`Definers` of any size: TLC's instance has two, and only the proof attempt showed that the
limit depends on how many come later.

**`SessionView`.** `ViewAssumption`: no session, message or tool is `None`, the three
limits are positive. `PastAssumption`: the log of a past session is one of events, and
if it is in a turn its log has begun one that nothing ended; the converse is not
assumed, because a restart leaves such a log behind. Logs, sessions, queues and the
number of posts, visits and failures are otherwise arbitrary. **`ShownKeepsOrder`**
(`ShownIsPrefix`), **`QuietPageShowsAll`** (`QuietShowsAll`), **`PillMatchesLog`**
(`StatusMatchesLog`) and **`ViewTypeCorrect`** (`TypeOK`) from one invariant. What has
to be shown is that two readers, which know nothing of each other, add events to one
list in any order of their answers and leave no hole:

* `PageOK`: the list repeats nothing and its keys are those of what it shows, so a second
  copy of an event is recognised.
* `PagesOK`: whatever precedes the page of history that is being asked for is shown, so a
  page extends what is shown without a hole, however far the stream has come.
* `NoHole`: in front of an event on its way (in the replay or the channel) there is no event
  that is neither shown nor on its way ahead of it. With `PagesOK` this gives `InOrder`, the
  order of the list itself: an event is added only when all before it are there.
* `Covered`: what was published and is not shown is on its way while the stream is live; so
  when nothing is on its way everything is shown. A promotion that has stored its event and
  not yet published it is what `Announced` leaves out.
* `StatusOK`: the pill is that of the last event shown that sets it, which with `Covered`
  gives the third property; `ServerOK`: a session in a turn has a log that says so.

`AddAll` folds `addEvent` over a page or a replay. It is a recursive function, `AddAllSteps`
proves its equation, and `AddPage` carries the invariant through the fold by induction over
the events added. The induction theorems of the library take an operator as parameter; here
it is stated with a set instead (`LeastOf`, from the theorem about minimal elements of
well-founded relations, and `Induct`).

**`Wakeups`** (in `Background_proofs`). `WakeupAssumption`: positive cap and batch,
finitely many concurrent callers.

* **`WakeupsTypeCorrect`**: `Spec => []WakeupsTypeOK`.
* **`WakeupsAreDelivered`**: `Spec => []WakeupsDelivered`. The first half (a row leaves the
  table queued, cancelled or excused) needs `HeadAccounted`: what was fired and is not
  settled may already leave. The second half (a one-shot is queued twice only after a
  fault) needs `QueuedOnce`: while nothing failed, a listed one-shot was not queued, and a
  queued one that is still in the table is the head, which the next step deletes.
* **`CapIsOverrunBoundedly`**: `Spec => []CapOverrun`. The cap itself does not hold. The
  invariant `RoomPromised` counts the rows together with the requests that have passed the
  check: that sum is less than the cap plus the number of callers. A check raises it by
  one, but only below the cap; an insert moves one from the second set to the first.

**`RuntimeRoom`** (there too). `RoomAssumption`. **`RoomWritesToNewest`**:
`Spec => []R!NewestIsDaemon` for the whole server, the test `room.daemon == conn` in the
clean-up. Inductive together with `NewestStarted`: a connection that was attached once is
never accepted again.

**`DreamWorker`** (there too). `DreamAssumption`: there are contents, and `None` is none
of them; the sets of paths and contents are arbitrary, and so is the set of contents
kept in a blob. **`CompletedDreamsAreCopies`**: `Spec => []CompletedCopies`. The
invariant is `~doubled => Undisturbed`: one activation at work, writing to the dream's
own store (`WritesToOutput`), what it listed and has not still to do is in that store
(`WrittenSoFar`), and at completion nobody is at work (`CompletedRests`), so nothing
changes the store afterwards. Two lemmas separate the typing of a step of one activation
from its effect on the invariant; `NextProcess` has one case for each statement.

**`Background`.** `BackgroundAssumption` is the conjunction of the four. The theorems above are
about one service; **`ServerDeliversWakeups`**, **`ServerBoundsCap`** and
**`ServerCopiesDreams`** carry them to the server the runs check: every step of
`Background` is a step of the service or leaves its variables alone (`ServerRunsWakeups`,
`ServerRunsDreams`), so what the service keeps the server keeps.

**`Console`.** A behaviour stays on its page, so each theorem needs an invariant of its
page and one lemma on that page's steps. The budgets, the numbers of rows, users and requests and
the sets of ids, paths and contents are arbitrary. The assumptions: `ConsoleAssumption` types
them; `CallAssumption`, `RewardAssumption`, `MemoryAssumption` and `EnvironmentAssumption`
say that `None`, which stands for null, is no call, reward, memory or environment, that
nobody writes the content the agent writes, and that the package managers are the finite,
non-empty list the form offers. `EventAssumption`: the plain kinds of events are neither
tool uses nor results. `HarnessAssumption`: the daemon's harness `acp-proxy` is none of the
gateways' names, and neither it nor `managed` is the empty name.

| Theorem | Property | What makes it inductive |
|---|---|---|
| `TokensAreSentOnce` | `TokensOnce` | `SpentIsOut`: a spent token is that of the call that is out, and only such a call waits for one; with the last answer of an attempt the token is dropped. `TakesToken` records at which stage a handler took a spent one: never at `start`, and at `again` after `EMAIL_NOT_VERIFIED` |
| `DeviceFlowsAreFollowed` | `FlowsAreFollowed` | `WaitsForLoop`: the loop of the flow that is shown is the one of this dialog and session, whatever older loops are still about; `ListIsRead`: the list is what is stored, or will be read again, or the page was not told, or a pop-up has yet to report |
| `ShownPublicationIsPinned` | `PinnedIsShown` | `PublishShown`: a wizard resumes a publication only from its first step, so a late answer never meets a later step with another publication |
| `PollIsPinned` | `PollsPinned` | `ResumeIsAlone`: while a publication is resumed nothing is polled and the URL names it, until the user has bound another |
| `HiddenPartsSurvive` | `HiddenSurvives` | `HiddenIsTheirs`: what a seeded form would send of the type, the dockerfile and gem packages, and what a save under way sends, is what the others left last; the lemmas `RowsOfPackages` and `PackagesOfRows` show that packages survive the way into rows and back |
| `TokensAreAllOrNone` | `TokensAllOrNone` | `BatchIsWhole`: what was approved has its entry or is asked for by a call of the running batch; calls of an older batch are still out and change nothing |
| `FilesAreOfTheirVersion` | `FilesOfVersion` | `OneDialog`: every read that is out is of the version that is open, unless a second one was opened meanwhile |
| `QuietPagesAreFinal` | `ShownIsFinal` | `PageIsQuiet` and `RowsAgree`: nothing unfinished is shown when neither a timer nor a call is there to ask again, and a finished row is finished at the server |
| `TakenDownStaysDown` | `UnpublishedStays` | `IsRow`: a row taken down says so, through the credential forms, the OAuth completion and the card's patches |
| `MessagesAreShownOnce` | `MessagesOnce` | `Boxes`: the numbers in a mailbox are different, at the server, in the answers under way and on the panel; `Numbered`: the server numbers the messages of all teams in one row, so a sent one is new |
| `GuardsHold` | `GuardHolds` | `ReadIsCurrent`: what a checked request read is what the store holds, unless it was marked as overtaken; a landing write marks exactly those that read what it changes (`LandingMarks`) |
| `UrlsAreThoseOfFiles` | `UrlsMatchItems` | `FilesNamed`: the files listed have different URLs, those in use, in all the ways files are added, removed, submitted and dropped |
| `DialogFollowsItsUser` | `FormFollowsUser` | `McpOK`: the warning is of the agent in the form or its request is out; `RowsOK`: rows are numbered once and for all, and what is in clear at a place is a row that was asked for by number, also when the rows above it go |
| `FormSurvivesText` | `FormRoundTrips` | `HasForm`: the form names one of the gateways offered, or none; `BindingReadBack`, `ToolsReadBack` (with `OverridesReadBack`) and `MetadataReadBack` show for each conversion that what the editor's serialiser writes is read back as what `create` posts, and `PayloadReadBack` puts them together |
| `DebugShowsWhatIsSelected` | `DebugShowsEvent` | `LogOK`: a result answers a use of its own thread that is in the log before anything can point to it; `JumpOK`: what was jumped to is of the thread shown and no filter hides it |
| `ListsSkipNoRow` | `NoRowSkipped` | `Sorted` and `Dense`, of the pages listed and of those a fetch has read: they are in the server's order, and a row older than the first page that sorts before a listed row is listed. `Evolves` is what the server promises: new rows are no older than the reads before them, and archived ones stay so. `PageAdded` continues a list after its last row (`LastRowOf`), `RankGrows` shows that a page cut at its size is cut at its end |

The second row is a model that was wrong: it kept one pop-up and one report, and a second
Connect overwrote a report that was still to come, within more steps than the run allows.
The proof of `ListIsRead` failed there; the model now keeps every report that is on
its way, and what a replaced window loses is `gap`.

**Only model-checked.** Every invariant and every action property that a passing run checks
is a theorem, and so is the refinement of `Outbox`. What is left to TLC is liveness
(`InputIsHeard`, `ComesToRest`, `EveryRunEnds`, `ComesOnline`, `RemoveReturns`,
`OutcomeIsJudged`): the prover has no backend for fairness. The violated properties of
section 5 are counterexamples TLC found. No module declares a `RECURSIVE` operator:
recursion is written as recursive functions, which the prover can reason about.

## 8. What is not modelled, and why

* *Parts of the registry and the supervisor.* `Registry.Shutdown` has no caller but tests.
  The text of the rubric and of the feedback, the judge's model, database errors other
  than by cancellation, and clients that write the outcome keys themselves are left out.
  `LaneRegistry`, `OutcomeLoop` and `SessionLane` are three views of one session at
  different grain, not a composition: their product is out of TLC's reach.
* *The harness.* The wire protocol, the Python adapter and the daemon's side are seen as
  a stream that emits, ends, fails or is cancelled.
* *Sandbox registry, rate limiter.* One map, or one window, under one mutex; the
  sandboxes behind the registry have several implementations.
* *Workdirs, backups, outputs, proxies, OAuth translation, webhooks.* File system and
  network input and output without state of their own.
* *Retention.* Archived events, memory versions beyond their number, expired sessions.
* *The rest of the console.* Pages that show what one request answers (dashboard, runtimes,
  model cards, agent detail), the timeline, trajectories of a session, resource panels.
