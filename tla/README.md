# Renart in TLA+

Renart is a data platform in Go: one long-lived server per workspace edits,
plans, schedules and executes pipelines of SQL and Python assets. This
directory holds the specification of its concurrent and crash-prone core: TLA+
modules translated from the source, TLC models of them, and proofs checked by
TLAPS.

Source paths below are relative to the repository; `scheduler/` stands for
`src/internal/web/scheduler/` and so on.

## 1. The system

One server process owns a workspace (an exclusive file lock, and a second one
for its scheduler). It keeps its state in a SQLite database (`.renart/state.db`,
WAL), which also holds the tables of River, the job queue. Work reaches it from
HTTP requests, from cron periodic jobs and from file-system events.

### 1.1 Components

| component | state | operations | what makes it correct |
|---|---|---|---|
| **Run ledger** (`scheduler/store.go`, `service.go`, `cancellation.go`) | `pipeline_runs`, slots, claim sets, resource claims, units and steps; River's `river_job`; in memory: cancel functions of running executions | admit (queued, inline), prepare, start, execute, finalize, cancel, stop, recover at startup | conflicting runs are never active together; what a run owns is released exactly when it closes; the executor is entered at most once; every run closes |
| **Schedule occurrences** (`scheduler/schedule_occurrence.go`) | `schedule_occurrences`, attempts, watermarks, signal jobs | ensure, wait for prerequisites, wake, attempt, terminate, catch up | one run per interval at a time; a retried interval does not run twice; the watermark follows completed intervals |
| **Execution graph** (`executiongraph/`) | node status, reservations; the workspace-wide task budget | launch, wait for budget, finish, skip, cancel | dependencies before dependents; limits respected; every unit reaches a terminal state; FIFO fairness between runs |
| **DuckDB coordination** (`duckcoord/`, `duckdbsession/`, `duckdbworkspace/`) | per-path tokens and file locks; reference-counted sessions | acquire sets of paths, release, join, open and close sessions | one open handle per database file, no deadlock between sets, no use after close, nothing kept by a call that failed |
| **Materialization log and completion outbox** (`matlog/`, `completion/`, `service/execution.go`, `cmd/`) | write claims, facts, the latest writer and coverage of each target; the outbox | claim, write, complete, enqueue, dispatch, record, acknowledge, replay at startup | readers are told of a writer only while the table holds its output; a completion leaves the outbox only when it is settled; the outbox drains |
| **Run-state registry and Python broker** (`runstate/`, `pybroker/`) | planned and in-flight tasks, waits of queries | begin and end runs and tasks, look up, wait | a query reads only what was awaited; no wait outlives its timeout |
| **Staleness** (`staleness/`) | freshness facts per asset | replay completions, compute closures | replay is idempotent; facts only move forward |
| **Snapshots** (`snapshot/`) | deployed versions of pipelines | deploy, promote, list, prune | versions immutable, a referenced version is never pruned |
| **Secret store** (`secretstore/`) | vault file, keyring references | transactional put, rotate, delete | a transaction is all or nothing also across a crash |
| **Watcher, workspace state, event hub and browser** (`watch/`, `service/workspace*.go`, `events/`, `web/`) | poller snapshot, suppressions, parsed and served state, revision, pending event, subscribers; in the browser connection, revision and assets | notice, poll, push, debounce, broadcast, subscribe, load, merge | the server serves what is on disk, the browser what is served, and neither goes back for good |
| **Notebook documents** (`notebookdoc/`, `notebook/`) | document journal, cell results | edit, persist, execute, recover | a crash leaves the old or the new document; results belong to the revision that was run |
| **Planner** (`execution/`) | none (pure) | select, plan, admit, compare | plans are deterministic and complete |
| **Telemetry client** (`telemetry/`) | bounded queue | enqueue, flush | bounded memory |
| **Everything else**: HTTP API, service facade, SQL language server, presentation, data browser, front end, CLI, docs | mostly none, or derived | | not concurrent state machines |

### 1.2 How they interact

A *demand* to run a pipeline comes from an HTTP request (queued as a River job,
or inline with the request as the executor), from the scheduler (a signal job
whose worker admits the run) or from a re-execution. Admission is one SQLite
transaction: the run row, its slots or claims, its spec, plan, units, and its
River job. One of four River workers fetches the job, re-validates the run
(`prepareRun`), marks it running and calls the runner, which walks the
execution graph; every node takes a lease of the workspace-wide budget, DuckDB
nodes take path locks, Python nodes query through a broker that waits for assets
in flight, every write claims its target first, and a completed unit goes through
the outbox to the recorder of the materialization log and on to the staleness service. When the runner returns, `FinalizeExecution` closes
steps, units, the row and the watermark in one transaction under a context
detached from the cancelled one; database triggers release slots and claims and
terminate the schedule occurrence. Cancellation is a call beside all of it:
through River for a queued job, through an in-memory cancel function for a
running one. After a crash, startup reconciles rows and jobs before the new
River client starts and before HTTP is served (`cmd/server.go`), and replays
interrupted runs into the derived stores.

Apart from runs, the files of the workspace reach the browser: two watchers and
the handlers that write files make the coordinator parse the workspace, give the
result a revision and publish it; the hub debounces the watchers' events, sends
the handlers' at once and drops subscribers that are slow; the browser reloads the
workspace whenever its stream opens and merges the events that follow, which leave
out the contents of most files and whatever is empty.

### 1.3 What is hard

* two admissions for one pipeline under its old and its new path, one by slot
  and one by resource claims;
* updates without a status guard (`MarkRunRunning`, `FinishRun`) after an
  unbounded preparation;
* a cancellation in every window of the worker (fetched, preparing, registered,
  started, returned) and of River (available, running, snoozed, finalized);
* a write whose context ends while it commits, so that its effect is not known;
* a crash at every point, with rows and jobs that disagree;
* waiting on the budget, on path locks, on sessions and on other assets at the same time;
* completions of several processes that are recorded late, twice, at one instant, or never;
* a write that died, one that failed and one that succeeded on one table;
* notifications that are suppressed, coalesced or sent to a stream that is just closing,
  beside responses that belong to an earlier connection or server.

## 2. Modules and the code they model

| module | role |
|---|---|
| `RunAdmission` | operators: which demands may be active together |
| `RunExclusion` | abstract: runs are admitted only beside compatible ones and close once |
| `RunLedger` | the ledger, River's queue, worker, inline executor, cancellation, restart; implements `RunExclusion` |
| `RunLedgerInvariant`, `RunLedger_proofs` | inductive invariant; theorems |
| `FairBudget` | abstract: a budget whose slots go to whoever waits longest |
| `TaskBudget` | `executiongraph/budget.go`: counter, FIFO of waiters, grants |
| `ExecutionGraph` | runners and unit goroutines over `TaskBudget`, and the rows of the units; implements `FairBudget` |
| `ExecutionGraphInvariant`, `ExecutionGraph_proofs` | inductive invariant; theorems |
| `ScheduleOccurrence` | signals, occurrences, waits, attempts, catch-up, watermark |
| `ScheduleOccurrenceInvariant`, `ScheduleOccurrence_proofs` | inductive invariant; theorems |
| `DuckLease` | abstract: all-or-nothing exclusive leases on files |
| `DuckCoordinator` | `duckcoord`: registry, tokens, lock files of several processes; implements `DuckLease` |
| `DuckCoordinatorInvariant`, `DuckCoordinator_proofs` | inductive invariant; theorems |
| `DuckSession` | `duckdbsession`: shared sessions, composed with `DuckLease` |
| `DuckSessionInvariant`, `DuckSession_proofs` | inductive invariant; theorems |
| `TargetFreshness` | abstract: a writer is named only while the table holds its whole output |
| `MaterializationLog` | claims, writes, completions, outbox, recorder, restart; implements `TargetFreshness` |
| `MaterializationLogInvariant`, `MaterializationLog_proofs` | inductive invariant; theorems |
| `AssetWaits` | `runstate` and `pybroker`: the table of assets in flight and the waits on it |
| `AssetWaitsInvariant`, `AssetWaits_proofs` | inductive invariant; theorems |
| `WorkspaceSync` | watchers, coordinator, hub, event stream and browser |
| `WorkspaceSyncInvariant`, `WorkspaceSync_proofs` | inductive invariant; theorems |
| `MC*` | constants of the TLC instances |

Definitions introduced by "Mutant:" are not part of a specification. They are
the plausible mistakes that the properties were tried against: each property of
each passing run is violated when the definition that follows the mutant is
replaced by it.

### 2.1 Run ledger

A step is one SQLite transaction (or one autocommitted statement) or one access
to the maps under `Service.mu`.

* `status`, `open`, `pending` are columns of `pipeline_runs` and its units and
  steps; `slot`, `claimSet`, `claim` the ownership tables. `UpdateStatus` includes the
  triggers that release them. `AdmitQueuedRun` and `AdmitInlineRun` are
  the admission transactions, whole or rolled back at the first conflict.
* `job`, `cancelAsked` are River's row: its state and `cancel_attempted_at`.
  `FetchJob`, `SnoozeEnds` and `JobDone` are River, modelled from how
  `service.go` uses it: a snooze of a job with a recorded cancellation becomes
  a cancellation.
* `phase`, `result`, `ctxDone`, `canceller` are the goroutines: `prepareRun`, the
  registration in `activeRunCancels`, `MarkRunRunning`, the executor,
  `FinalizeExecution`, and `CancelRun` with its two halves.
* `Stop`, `Exit`, `Crash` end the process. `ReconcileInterruptedState`,
  `ReplayRun` and `StartWorkers` are the startup order of `cmd/server.go`.
* A write may fail, applied or not (`Fault`): its context may end while it
  commits.

### 2.2 Execution graph and budget

One runner goroutine per run. What it does between two looks at its context, at
the budget or at the result channel is one step: `Schedule` is a turn of the
loop of `Runner.Run` with its passes over blocked units, `AcquireAtOnce`,
`WaitForSlot`, `SlotGranted`, `AbandonWait` the budget, `Receive` one result. The
counters of active units, connections, resources and exclusives are
functions of the node statuses. `granted` is the window between the closing of
a waiter's `ready` channel and its waking up, in which its context may
end. Unit goroutines and their durable events are `BeginUnit`, `RefuseUnit`,
`FinishUnit`, `LoseCompletion`, `FailUnit`. `Finalize` closes what is
left open.

### 2.3 Schedule occurrences

Time is the cron tick; `<<a, b>>` is the interval due at `b`. `signal` is the state of
the River job of an interval together with where its worker is; a combined job of
an older release (`legacy`) may demand the same interval. `seen` and `plan` are
what the worker has read and decided before its write. `Reconcile` inserts what the
catch-up policy owes, `ReconcileFails` stops half way; `EnsureScheduleOccurrence`,
`MarkScheduleOccurrenceWaiting`, `FailScheduleOccurrencePrerequisites` and
`CreateScheduleOccurrenceAttempt` are the transactions of those names,
`FinalizeExecution` the end of a run with the trigger on its occurrence and
the watermark. A deadline passes at some moment after it was set.

### 2.4 DuckDB coordinator

Callers are goroutines of several processes. `Reference` is the critical section
of the registry, `TakeToken` the send on the entry's channel, `LockFile` a
successful try of the lock file; `AbandonToken` and `AbandonFile` the error
paths, which join the loop of `Release` (`Unlock`, `GiveToken`,
`DropReference`) to give back what was taken. Entries are objects with an
identity, so that one deleted while somebody still refers to it would be told
from its successor. `Crash` kills a process: its memory is gone and the system
drops its file locks. Spellings of one file, and databases that are no local
file, are a constant function (`CanonicalPath`).

### 2.5 Shared DuckDB sessions

A task is one call of `Manager.Execute`; a session object is named by the
task that made it. `Join` and `Start` are the critical section of `acquire`, `Leave`
that of `release`; `InitFails`, `Opened`, `Joined`, `JoinFails` what follows
either. `ensureSchema` holds `schemaMu` from `CreateSchema` to `SchemaCreated` or
`SchemaFails`. The coordinator is `DuckLease`, which `DuckCoordinator`
implements: its callers are here the sessions and the lessees, that is every
other writer of the files (fallback operators, loads, Python loads,
queries), which may drop schemas while they have a file. Native tasks do
not: assets with hooks or DDL are never run in a session
(`isConcurrentNativeDuckDBTarget`).

### 2.6 Materialization log and completion outbox

A write is one attempted unit of a run: an asset, a window and a physical target.
Its `phase` is where its execution is: `Start` (the running step is durable),
`ClaimTargetWrite`, `BeginWrite`, `EndWrite`, `PersistUnit`, `Enqueue`, with
`RunFails`, `WriteFails`, `PersistFails` and `MarkDirty` beside them. A loader whose
evidence is required (`Reported`) claims when it has data, or succeeds without
(`NothingToWrite`). `Dispatch` is the transaction of `Store.Record` for the oldest
completion: `Unproven`, `Replayed`, `Superseded`, `Ambiguous` and `Accepted` are its
outcomes, `Rejected` the replay conflict; `Acknowledge` and `DispatchStops` follow.
Several processes share the database: `StartProcess` marks the claims of the dead
dirty, if it gets the execution lease, `Recover` replays the units of
interrupted runs beside the outbox.

`held`, `content` and `torn` are history: what a warehouse would show. The properties
compare it with `Named` and `Covered`, which are the two queries readers use.
Simplifications: the clock never goes back (two writes may end at one instant); the
execution lease, one per run in the code, is held per unit; a unit with a marker
instead of an interval is one that `Replaces` the table; nothing is pruned; startup
recovers before it serves, so `Recover` waits until no unit of the server is at work.

### 2.7 Asset waits

One step is one critical section under `Registry.mu`. `BeginRun`, `BeginTask`, `Finish`
and `End` are the methods of those names (`Finish` is the function `BeginTask` returns),
`Leave` and `Orphans` their conditions. A planned run starts its units in parallel,
another one takes a task at a time (`InTurn`). `Query`, `Lookup`, `WaitSucceeds`,
`WaitFails`, `WaitTimesOut` and `Read` are `handleQuery`. Planned runs register under
their run id, but their brokers ask under the id of the unit
(`service/direct_run.go:887`), so that `PendingInRun` never holds for them.
`seen` is history: which tasks were at work on a reference when it was looked
up. A task has one query at a time; checks run after the task has left the table.

### 2.8 Workspace synchronization

Every path is the file of one asset. An even version states an owner and a description and has
contents, an odd one none of the three. They stand for the three things the browser does with what an event leaves out
(`web/lib/workspace-reconciliation.ts:32`): `owner` for the six fields that are cleared of an asset the event names
(`Cleared`: `meta`, `columns`, `tags`, `owner`, `incremental_key`, `parse_error`), `description` for the
others that are omitted when empty, which the spread keeps (`Kept`), and `content` for the text, which only the
event of a handler carries, for the assets it names (`EventOf`), and which is kept wherever it is empty (`Contents`).
The rest of `shown`, `files`, is what every event carries. A push goes through
`Parse`, `Store`, `GetState`, `Stamp`, `Serve` and `CurrentState` as separate steps,
for nothing serializes the pushes of two watchers and a handler. `Fire` may fire or
drop a path of a running window, whose length is left open. `Publish` replaces the pending event,
`PublishImmediate` goes past it, `TakePending` and `Flush` are the timer. `Subscribe`, `Greet`,
`Open` and `EndOfStream` are the stream: the server reads the greeting when the stream is subscribed, and the browser begins
its connection when the stream has opened; what happens in between, also a response to the connection before, makes the greeting old.
`Admits` and `Merged` are the browser's admission by connection and revision and its merge, `Loaded` a full load. `Restart` begins the revisions anew.

History variables say what the code knowingly or unknowingly gives up: `missed` (the only
notification of a change was dropped), `silent` (no event named the asset) and `overtaken` (an
older push was served or published after a newer one). `written` is history too: the files that a handler, not an editor, changed last.
The properties are conditional on them, so that they say: nothing else is lost.

## 3. What is checked

Each run of `PROJECT.json` is one `.cfg` file. TLC explores every state of these instances.

| run | instance | shows |
|---|---|---|
| `run_ledger` | 2 runs, 6 demands, 1 crash, 1 fault | exclusion, ownership of slots and claims, at-most-once execution and attendance of every run; the ledger implements `RunExclusion` |
| `run_ledger_live` | 2 runs, 1 restart | runs nobody cancels close; runs cancelled while queued close |
| `execution_graph` | 1 run, 5 graphs of 3 units, 2 slots | limits, dependencies, skips, closure; every run closes although it waits for a slot while its own units hold the others |
| `execution_budget` | 3 runs, 1 slot | the budget with a queue of two that may be cancelled refines `FairBudget` |
| `schedule_occurrences` | 3 ticks up to the start, 2 runs, 3 policies, limit 1 | one run per interval, binding, signals of missed ticks, terms of waits |
| `schedule_waits` | 2 ticks, 2 runs, 2 deployments | waits end, with the producer they froze |
| `duck_coordinator` | 3 callers in 2 processes, 2 files | no token, lock or reference is leaked or shared; waits ascend; refinement of `DuckLease` |
| `duck_sessions` | 2 tasks, 1 lessee, 1 file | one handle per file, remembered schemas exist, nothing left behind; requests return, lessees are served when sessions drain |
| `completion_log` | 3 writes of 2 processes, 2 windows of a table, 1 crash, 1 fault | the named writer wrote last, covered windows are in the table, acknowledged completions are settled, the outbox drains; refinement of `TargetFreshness` |
| `asset_waits` | a planned run and another, 4 tasks, 1 panic, 1 cancellation | queries read only what was awaited and nothing their run makes later; every run ends, although waits form circles |
| `workspace_sync` | 2 files, 2 changes, channel of 1, 1 trouble | the server serves the disk; the browser shows the revision that is served, every field it states, no owner that was removed, and the contents handlers wrote; it goes back by a greeting only, with the load that repairs it under way |

The bounds, and why they are enough:

* *Two runs* in the ledger: conflicts are between pairs (`Compatible` is a
  relation of two demands) and the six demands are all kinds of them: an alias of
  a renamed pipeline, slot and claims, readers. `MaxCrashes` is 1: a crash leaves
  a state that a second one cannot worsen but by the same step; `MaxFaults` is 1
  for the same reason. The theorems lift both bounds.
* *Three units*: a diamond's halves, a chain (skips reach it in two steps), a
  shared resource, a limited connection, an exclusive unit beside others; two slots, so
  that a run holds one while it waits for another; three *runs* on one slot, so that a
  queue of two forms. `MaxActive` is above the slots in these instances, and its limit
  is covered by the theorem `LimitsCorrect` alone.
* *Ticks*: the two missed at the start exceed the backfill limit of the instance (1 for
  100), and the policies differ. Two runs are an attempt and its retry.
* *Writes*: two windows of one table and one write between them by another process are every
  order of claim, write, failure and completion that two writers and a bystander can have; one crash leaves a
  dirty claim, and one fault a dispatch that is repeated. Three instants allow older, equal and newer.
* *Assets*: the circle of waits needs two Python tasks of two runs; the asset of the same name in
  both is overwritten in the table. One query per task is enough to wait in the circle.
* *Files*: two paths make the poller choose one and the debounce replace the other. Two changes, one trouble (a
  failed parse or request, a broken connection, a page loaded anew or a restart) and a
  channel of one event put a reconnection between any two steps of a push: 6.6 million states. An even version after an odd one is
  a field that comes back, an odd one after an even one a field that goes. `MaxPushes` bounds the revisions of a server
  life. The exploration stops where a push is overtaken (`NotOvertaken`): the properties hold there by their premise until a
  restart, and what a restart makes of those states is covered by the theorems.
* *Callers*: three make a waiter beside a holder in one process and a
  competitor in another; two files make an order. Four entries are more than three
  callers use at once.
* *Tasks*: two are one that initializes and one that joins, arrives as the first leaves, or
  starts the next session. One retry is both sides of the limit.

A further instance is kept beside the list, for changes to the module: `DuckCoordinatorLive.cfg` (`AcquireEnds`: in one
process every `Acquire` ends although callers ask for overlapping sets).

`CHECK_DEADLOCK FALSE` is set where the system may stop: the run ledger, the asset waits and the
workspace come to rest when their bounds are used up.

### Fairness

* Ledger: weak fairness of worker, accepted cancellation, startup and exit, which
  are goroutines that run to their end. Nobody has to admit, cancel or stop.
* Execution: weak fairness of runners and unit goroutines; operators return.
* Schedules: signals are worked on, runs end, deadlines pass and a stopped
  server is started again.
* Coordinator: weak fairness of a caller's own steps and of the release of a
  lease; strong fairness of `TakeToken`, as Go serves the senders of a channel
  first come, first served. Only `DuckCoordinatorLive.cfg` uses it, with a single process: locks of
  other processes are polled, which promises nothing.
* Sessions: strong fairness of the lease, which rests on `AcquireEnds` of the coordinator, and
  of `schemaMu`, which a Go mutex in starvation mode hands to the waiter that came
  first. Lessees give back what they were granted; one that is not served may
  give up.

* Completion log: a dispatch runs to its end, housekeeping comes back every so often, executions
  return and a server that died is started again. Nothing starts a CLI, and
  completions are finitely many: with endlessly many the outbox might never be empty.
* Asset waits: goroutines run on, Python scripts end, and a wait has a deadline (30 minutes).
* Workspace: none; what it promises is stated of the states in which nothing is under way.

### Disagreements found

One run is expected to be violated; it states what the documentation and a comment say.

| run | what the code does |
|---|---|
| `second_window_blocks_outbox` | a planned run with two windows of one asset completes twice under one run id; the second completion conflicts with the fact of the first (one per asset, environment and run), and `DispatchPending` stops at it now and on every replay, so that no later completion of the workspace is recorded in order and acknowledged |

Further configurations reproduce disagreements that are not on the list of runs. Each is violated:

| configuration | what the code does |
|---|---|
| `RunLedgerCancelStuck.cfg` | a cancellation between the registration and `MarkRunRunning` becomes a snooze that River cancels; the run stays queued until the next start (`architecture/backend.md:1214` promises the ordinary finalizer) |
| `ExecutionCancelUnreported.cfg` | a run cancelled in its wait for the budget, with nothing active, returns without reporting its pending units, which are closed as skipped (`executiongraph/runner_test.go:282` expects a report) |
| `ScheduleRetryWaits.cfg` | a retried occurrence keeps `current_run_id`, so its wait is refused again and again and never reaches the deadline of `architecture/staleness.md:612` |
| `MaterializationLogTorn.cfg` | a success in one window deletes the dirty claims of failed writes in other windows and the generation goes on, so that a window torn by one is covered again, although `architecture/staleness.md:136` says freshness fails closed |
| `WorkspaceSyncKept.cfg` | a description that an edit removes is left out of the event that names the asset, and the browser's merge keeps the old one, as it keeps every field but the six it clears (`web/lib/workspace-reconciliation.ts:32`); it is shown until the next full load, although the stream "reconciles the final asset state" (`architecture/http-api-assets.md:129`) |
| `RunLedgerCancelLost.cfg` | a cancellation accepted during `prepareRun` finds no cancel function and the executor runs on |
| `ScheduleSignalInvalid.cfg` | variables that fail to resolve cancel the signal and leave the occurrence shown as deferred |

Met while modelling, and visible as conditions or history of the modules:

* `PlannedIsNotRead` of `AssetWaits` fails: a Python unit of a planned run that reads an asset its run
  builds later is not refused, as `pybroker/broker.go:160` says, because the broker asks under the id of the unit.
* A task that panicked after another run's task of the same asset replaced it in the table is closed by nobody; its
  waiters stay until their timeout (`runstate/registry.go:148` says that they do not hang). That is why `WaitedRunIsOpen` is about
  assets that overlapping runs do not share.
* `missed`: a second change within the windows of the suppressions is dropped as if it were a
  duplicate (`watch/watcher.go:72`), and the server serves the old file until something else is parsed.
* `silent`: a coalesced event takes the names of its assets with it, and the browser keeps the owner or the tags
  that were removed. A full load that arrives after an event of a newer revision is rejected and not repeated.
* The browser goes back: a revision that a late response to the connection before has shown gives way to the older greeting of
  the new one, which is admitted without a look at revisions (`web/lib/atoms/workspace.ts:74`), until the full load of the new connection
  arrives; if that request fails, until the next event. `BrowserKeepsUp` says that there is no other case.
* Contents that an editor or a script changed are in no event: the browser shows the old text until its next full load, and a text that
  became empty until then too, whoever emptied it. `ContentsFollow`, a part of `BrowserFollows`, is about the others.
* `OwnCancellation` of `DuckSession` fails: a task that joined a session fails with the cancellation of the request that initializes it.
* `ActiveScheduleIsApplied` of `ScheduleOccurrence` fails with one fault: a failing catch-up is logged and the reconciliation succeeds.
* `overtaken`: refreshes are not serialized; an older read of the disk may be served under a newer revision.
* A response that was asked of a server before it restarted may arrive after the restart, before the page connects anew: its
  revision counts the earlier life. `WorkspaceSyncInvariant` has to say until when such a copy may be admitted.
* `SuccessIsBehindWatermark` fails: a late success of an earlier interval moves the watermark back. The catch-up does not
  depend on it (`CatchUpInv`).
* `AdmissionKeepsProducer` fails where a combined job of an older release is queued beside the due signal: the claim
  looks at the status of the occurrence and at the prerequisites the worker has read (`scheduler/schedule_occurrence.go:570`), so
  that a worker that planned before the other one froze a producer is admitted with its own. The theorems are stated accordingly.

## 4. What is proved

TLAPS checks every proof to its last leaf, for every value of the constants
under the named assumptions of the modules. Each component has an inductive
invariant `IInv` in a module of its own; a lemma per action shows that the
action preserves it, and the properties follow from it.

**Run ledger** (`DemandAssumption`, `LedgerAssumption`). `OwnershipFollowsActivity`
is not inductive: `MarkRunRunning` and `FinishRun` update the row without a guard, so the
invariant has to say what the row can be while the worker is in each phase (`PhaseInv`),
who may work on a run at all (`ExecutorInv`), and that startup reconciles before
workers exist. Proved: types, exclusion and ownership, exclusion of executors,
at most one execution, closure, attendance, finality, and the refinement of
`RunExclusion`.

**Execution graph** (`BudgetAssumption`, `GraphAssumption`; any number of runs and units).
`BudgetAccounts` needs to know that a waiter is queued once and exactly while its runner waits
(`QueueInv`). The refinement of `FairBudget` rests on both: at most one slot is free beside a waiter, so a release hands its
slot to exactly one of them; the order of the queue, who queues before whom (`Precedes`), changes only by a run that joins
behind all or leaves. `BranchesIndependent` needs the reason of every skip to end in an error
(`SkipInv`) and that a runner collects only while something is active (`ProgressInv`).
Proved: types, budget, limits, dependencies, drained returns, independence of
branches, completeness of closed runs, finality of outcomes, and the refinement of `FairBudget`.

**Schedule occurrences** (`ScheduleAssumption`). A claim looks at the occurrence only and the
trigger finds the occurrence by its run; `IInv` says that both point at each
other. Three more invariants stand on it. `CatchUpInv` frees `MissedTicksAreSignalled` from the watermark, which may go back: from
a catch-up that went through on every tick has a signal or a record, because a signal ends only over a
recorded occurrence and no record is undone. `ProducerInv` says of an interval outside `Legacy` that it has one worker,
that a wait has a producer, and that what the worker has read of the wait is still true when it claims.
`Attended` and `AttemptsCounted` do the same for signals and for attempts. Proved: types, one run per interval, the binding of
active runs, the terms of waits, the signals of missed ticks, the numbering of attempts; that a run admitted out of a wait keeps
its producer, for every interval outside `Legacy`, and so for all of them once no combined jobs are left
(`Legacy = {}`, the instance of `schedule_waits`); that a deferred occurrence has a signal, where variables resolve
(`Unresolvable = FALSE`; else it is the disagreement above).

**DuckDB coordinator** (`CoordinatorAssumption`: spellings map to paths, paths are totally
ordered by rank, callers are finite). `OneEntryPerFile` is inductive only with the exact
count of the callers that refer to an entry (`Counted`) and with entries of
different places being different. Proved: types, shared entries, nothing
kept by failures, ascending waits, and the refinement of `DuckLease`: the step that locks
the last file is the one that grants them all.

**DuckDB sessions** (`SessionAssumption`; any number of tasks, files and sessions).
`ConnectedToOpenDatabase` and `NothingLeftBehind` say nothing of who else may still use a session.
`IInv` adds that the reference count is the number of its users (`Counted`), that only one task
closes a session and only when nobody uses it (`Closing`), that the owner is alone until the
session is ready (`Initializing`), and what is held in each state (`SessionStates`). With it, the
exclusive lease makes `RememberedSchemasExist` inductive: no other session can have
dropped the schema. Proved: types, one handle per file, connected to an open
database, remembered schemas exist, a schema before each write, nothing left behind.

**Materialization log** (`LogAssumption`; any number of writes, targets, windows and processes).
`NamedWroteLast` compares the tables with what readers are told, and says nothing of the writes that are
under way. `IInv` adds that a write that touches a table, or has touched it and is not
settled, still has its claim; that claims are numbered in the order they were made, so that a success resolves
only what came before it; that the writer is the last of the finished writes that were recorded; and that a durable success is in the
outbox, in the set that startup replays, or settled. Proved: types, named writers, exclusion of active claims,
settled acknowledgements, and the refinement of `TargetFreshness`: the step that records a
completion is the one in which trust is gained. `UntornCoverageIsPhysical` compares coverage with every window of the
table, not only with the writer's, and needs an invariant of its own, `ContentInv`: claims that stand are ordered as their
writes ended, so only the success that becomes the writer resolves others; the output of a write stays until a write with a newer claim
touches its window (`Disturbs`); and so each covered window has rows of the writer's variant, is torn, or is under a claim that
readers see.

**Asset waits** (`WaitsAssumption`, `WindowsInTurn`; any number of runs and tasks). `LatestIsVisible` is not inductive without what
a task at work has in its run's state, and `ReadsAreAwaited` needs that every task a query has seen and not
awaited is still in front of it. Proved: types, visibility of the latest task, reads, waits, refusals.

**Workspace synchronization** (`SyncAssumption`, `NothingAssumption`; any number of files, any buffer). The properties
speak of states in which nothing is under way. `IInv` says where everything is until then: a change is parsed, will be parsed by somebody,
or is `missed`; the last revision is served or carried by a push; a revision belongs to one push, and every copy
(in the channel, the pending event, a request, a response, the page) is as old as its revision says; what the page has not got is on its way to
it, or the stream is about to break. These are the conjuncts of `Core`. A greeting may be older than what is shown: `ShownIsServed` says that it is then
still in the channel and that a full load no older than what is shown is to come or has failed. `FieldsAreStated`: a field that the shown files state
is shown as they state it, whatever the merge keeps of the others. `WrittenAreAnnounced` and `ContentsAreTold`: what a handler
wrote last is served or will be parsed by the handler's own push, and its contents are in that push, in the channel, in a
load that is to come, or shown, unless the asset is `silent`. Proved: types, the server serves the disk, the browser shows what is served and clears what it
compares, the contents of handlers arrive, and the browser goes back by a greeting only. No theorem says that removed descriptions are cleared: they are not.

Only model-checked: every liveness property (`RunsClose`, `QueuedCancelCloses`, `FirstAttemptsSettle`, `RequestsEnd`,
`LesseesAreServed`, `CompletionsAreAcknowledged`, `RunsEnd`, `AcquireEnds`) and every formula with `ENABLED`, which the
prover does not handle; `RegistryIsTidy` and `TokenBeforeFile` as theorems of their own (they are parts or
consequences of a proved invariant). The other way round, `IInv` and `TypeOK` of every component and
`ExecutorsExclude`, `TerminalRunsAreClosed`, `TerminalIsFinal`, `ReturnsDrained`, `UnitOutcomeIsFinal`,
`DeferredIsSignalled`, `AttemptsAreNumbered`, `ConnectedToOpenDatabase`, `SchemaBeforeWrite`, `OneActiveClaim`, `LatestIsVisible` and `WaitedRunIsOpen` are in no run: the theorems hold for every
instance. TLC found no violation of any of them on the instances of the runs (`DeferredIsSignalled` with variables that resolve); they can be added to a `.cfg` at any time.

## 5. What is not modelled

* Inside modelled components: rendering, wording, logging and metrics; pruning of
  old rows; paused, archived or edited schedules; the order in which a planner lists
  units; the encoding of plans and specs; timeouts of units beyond "the operator fails".
* The endless stream of overlapping requests that keeps a session open, and other processes
  that take a lock file again and again: nothing in the code bounds these waits.
* A child process that survives a killed server, and the drop of an
  opposite-kind target before its lease.
* The fingerprints and staleness that are computed from the log; content-only events and the run and
  notebook events of the hub; workspace files that appear or vanish.
* The components marked `not_modelled` in `PROJECT.json`, each with its reason. Those
  with state of their own are next in the plan.

## 6. Plan

Done: run ledger, execution graph with the budget, schedule occurrences, DuckDB coordinator and
sessions, materialization log with the outbox, asset waits, workspace synchronization; the theorems above.

1. `Staleness`: closures over the facts of `MaterializationLog`, and what they say while completions are under way.
2. `NotebookDocument`: the journal of a document across crashes, the revisions of results.
3. `SecretVault`, `SnapshotStore`: transactions over files across crashes, pruning beside readers.
4. Composition: the crashes of `RunLedger` with the replay of `MaterializationLog`, whose `recover` is its interrupted runs.
5. Proofs about these, as they come: every safety property, action property and refinement of the runs above is proved.
