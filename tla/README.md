# codex-wakeup: TLA+ models, checks and proofs

The plugin runs inside a host process. It wakes Codex accounts (it sends one
small request per account) on schedules: daily, weekly, at an interval, once per
start, or one minute after a usage window of the account was reset. The last one
is what the plugin is for, and what most of its state is about: it watches the
usage service per account, remembers the boundaries that passed, and must wake
each account once for each boundary, through failures, edits and restarts.

## 1. Inventory

| Part | State | Operations | Talks to |
|---|---|---|---|
| Scheduler core (`runtime.go`) | `p.state` under `mu`, a worker goroutine, startup timers, one lock per task and per account, `persistMu` | `worker`, `runDue`, `runStartupTask`, `executeTask`, `executeAccount`, `finishRun`, `appendAdHocRun`, `persistSnapshot` | host bridge, state file |
| Quota rules (`quota.go`) | reset and elapsed boundary per window and account; handled boundary and retry per task and account | `quotaDueReset`, `quotaAccountBaseline`, `markQuotaResetsHandledLocked`, `quotaNextRunAtLocked`, `quotaRetryDelay`, `rememberElapsedReset`, `refreshQuotaForTasks`, `refreshAccountQuota` | usage service through the host |
| Schedules (`internal/state/schedule.go`) | none | `NextRunAt`, `Due`, `NormalizeSchedule`, `ValidateSchedule` | |
| State file (`internal/state/state.go`) | one JSON file, its history cut to a limit | `Load`, `Save`, `quarantine`, `Normalize`, `Clone`, `AppendHistory` | file system |
| Management API (`management.go`) | a task list built by one request and saved later | `saveSingleTask`, `toggleTask`, `deleteTask`, `saveTasks`, `wake`, read-only responses | scheduler core |
| Lifecycle (`runtime.go`) | generation, contexts, WaitGroups, operation gate, `lifecycleMu` | `configure`, `quiesce`, `shutdown`, `installHost`, `startWorkerLocked`, `stopWorker`, `startOperations`, `stopOperations` | host, worker, operations |
| Host bridge (`host_bridge.go`) | host pointers under a read-write lock | `call`, `callRaw`, `close`, decoders | host over cgo |
| Codex requests (`codex.go`) | none | request, JSON and SSE response parsers | host HTTP |
| Credentials (`auth.go`) | none | eligibility, credential parsing, scrubbing | |
| Configuration (`internal/config`) | none | `Parse` and range checks | |
| ABI (`main.go`), diagnostics, management page, scripts | heartbeat only | entry points, logs, static page, build | |

What is hard in it:

- *Concurrency.* The worker, the startup timers, every manual wake and every edit
  run at once. Task and account locks are taken with `TryLock`, so the loser
  skips and somebody must come back. Decisions are made on snapshots: the scan
  evaluates a copy of the tasks while earlier tasks of the scan run, a quota run
  is called with accounts that were due some time ago, an edit saves a list it
  built from an older snapshot.
- *Ordering.* A boundary passes while the usage request is in flight, and the
  response overwrites it. A refresh fails between a wake and the record of it.
- *Failure.* Refreshes, listings, probes and saves fail; failed probes are
  retried with backoff, without repeating or losing a boundary.
- *Restart.* Reconfiguration cancels and drains two groups of goroutines in
  order and loads the file again; a crash loses everything but the file. The
  file cannot tell a nil map from an empty one. A save is seven system calls.
- *Shutdown.* A lifecycle call waits for goroutines that wait for the host, for
  `persistMu` or for the close lock of the bridge, and one kind of host call (the
  account listing of the page) is behind no gate at all.

What makes each part correct: a boundary that passed is not forgotten until it
is answered; an answered one is not answered again; progress never moves back;
a failed probe waits for its backoff, and no longer; an edit stays in force; a probe uses current data; one user per
account and one run per task; no scheduled run before its occurrence; the file
is never ahead of the process, never torn, and keeps what was saved; nothing
works in a generation that has ended or in a host that was closed; an answer is
a success only when it says so in time; pending work and lifecycle calls end.
`PROJECT.json` lists the hazards line by line with the properties that cover them.

## 2. Modules

| Module | What it holds |
|---|---|
| `QuotaRules` | the pure rules of `quota.go`, one operator per function |
| `Wakeup` | clock, tasks, accounts, state file, scan loop, runs, startup timers, manual wakes, edits, reconfiguration, crashes; their properties and fairness |
| `MCWakeup` | instances of `Wakeup`: tasks at the start, forms, listings, selections |
| `Lifecycle` | the lifecycle calls step by step against everything that runs |
| `Generations` | the abstract specification `Lifecycle` implements: epochs that turn when everybody has left |
| `Stream` | one wake request: `executeCodex`, the event-stream reader, the check of plain JSON |
| `MCStream` | what events and answers may say in the instance of `Stream` |
| `StateFile` | `Load`, `quarantine` and `Save` system call by system call, history limits, faults |
| `QuotaLemmas` | what the quota rules return, proved for every input |
| `WakeupTypes`, `WakeupLocks`, `WakeupProgress`, `WakeupResets` | theorems of `Wakeup`, each module on top of the one before: types; locks and what quota runs rely on; progress of tasks and file; boundaries, their consumption and repetition |
| `LifecycleProofs`, `StreamProofs`, `StateFileProofs` | the theorems of the other three |

The four systems are checked apart because each abstracts the others to what it
needs of them. `Wakeup` sees a reconfiguration as three steps and a request as its
class of result; `Lifecycle` sees a run as a series of host calls with one save;
`Stream` says which answers get the class *success*; `StateFile` says what `Load`
finds after a `Save`, which `Wakeup` takes as one atomic write.

### `Wakeup`

- `tasks` and `accounts` are `p.state`, `disk` is what the file holds, `scan` the
  locals of `worker`, `runDue` and `refreshQuotaForTasks`, `run[x]` the locals of
  the call of `executeTask` by actor `x`, `startup[t]` an armed timer,
  `requests[e]` a list an edit has built, `phase` the progress of a
  reconfiguration. `passed`, `attempted`, `woken`, `failed` are history variables:
  no action reads them, only properties do.
- An actor is the worker, a startup timer (named by its task) or a manual wake.
- One action is one critical section of `mu`, or one step between two host
  calls. A mutation and its save are one step because `persistMu` covers both:
  `FinishRefresh`, `FinishRun` and `saveTasks` write `disk` with the state.
- `StartScan`, `ListForRefresh`, `RefreshNext`, `FinishRefresh`,
  `StartEvaluation`, `EvaluateTask`, `EndScan` are `runDue`; `LockTask`,
  `ListCandidates`, `StartAccount`, `FinishAccount`, `EndAccounts`, `FinishRun` are
  `executeTask`, whoever called it; `FireStartup`, `WakeTask`, `WakeAdHoc` are the
  other callers; `toggleTask`, `deleteTask`, `saveSingleTask`, `bulkTasks` build a
  list and `saveTasks` applies it; `Stop`, `StopOperations`, `Configure` are
  `configure`, and `Crash` is the end of the process and its next start.
- Instants are natural numbers and `NoTime` is Go's zero time; events within one
  tick have equal instants. A refresh reads the clock again when its answer
  arrives, as the code does.
- Accounts of a listing and tasks of a scan are visited in any order; the code's
  order (by `auth_index`, by list) is one of them.
- Daily and weekly schedules are one *calendar* kind with period `Day`; all
  interval tasks share `TaskInterval`. A startup delay is the time a timer may
  stay armed.
- A host listing shows an account as eligible, unavailable, or gone (deleted or
  disabled); `NoListing` is a listing that failed. A request ends as success,
  transient (status 0, 408, 429, 5xx), credential (401, 403) or rejected.
- The usage service reports a boundary unchanged until it passes, then none or
  a later one. Jitter of `reset_after_seconds` is below the model's clock.
- A nil handled map is `legacy`; an empty one is written like a nil one
  (`Encoded`), which is what `omitempty` does.

### `Lifecycle` and `Generations`

- `call` is the lifecycle call that holds `lifecycleMu` and where it is; there is
  never a second one. Its steps are the waits and critical sections of `stopWorker`,
  `stopOperations`, `installHost`, `configure`, `quiesce` and `shutdown`, in their order.
- `workerCtx` is the context `p.cancel` cancels, `operationCtx` the one of the gate,
  both by number and 0 for nil; a job is cancelled when its context is neither.
  A WaitGroup is `Drained`: every job of the group is idle.
- `host` and `alive` are `p.host` and the bridges whose `ptr` is not nil. `RequestClose`
  is `close` asking for its write lock, from which on no new reader enters
  (`ReadLockable`), and `Close` is the lock granted and released.
- A job is the worker, a startup timer, a gated request (a wake or an edit) or a
  listing of the account page, which is behind no gate. `Ask` is `call` up to the
  host, with its look at the context, the read lock and the pointer, and
  `HostReturns` is what comes back. A run ends with one save under `persistMu` and
  a log call through the host of that moment; log lines in the middle of a run go
  through the same bridge as the run's own calls, and are calls like them.
- The gate is read and entered in one step, as under `operationMu`; what a request
  did before it (building a list) changes nothing here.
- A configuration that does not parse returns before the first step and is left
  out; `enabled`, `auto_wake` and the tasks decide whether a configuration starts a
  worker and which timers, and are a free choice in `Replace`.
- `Generations` knows an epoch, two gates and the members behind them. `Epochs`
  maps the gates to the contexts and the members to the jobs that are not idle.

### `Stream`

- A body is a sequence of lines, each blank, a comment or unknown field, an event
  name, or data. Data are empty, `[DONE]`, no JSON, an object, or one half of an
  object over two lines; what an object says is its `type`, `status` and nested
  status. `ReadLine` is one turn of the scanner loop, `process` the closure.
- The reference definition (`Block` to `SomeFails`) reads the body as a whole,
  with no reader: an event is a stretch of lines without a blank one.
- `Cancel` may come at any time up to the acceptance; `late` remembers that it came
  before the host returned.
- The 8 MiB limit of a body is one of the answers that are neither (`junk`).

### `StateFile`

- Of the state only the history is kept, as the numbers of the runs in it.
- `Create`, `Encode`, `Sync`, `Rename` and `Remove` are the system calls of `Save`, each
  of which may fail; `Remove` is the deferred removal, with an error ignored.
- `disk` is what programs see and `durable` what a power failure leaves. A rename
  reaches the device at once or with a later `Flush`; content that was not synced
  may come back torn.
- `Load` reads an absent file, a state, a damaged file (quarantined) or one it
  cannot use (newer, or unreadable: `LoadFails`). Names of backups are an instant
  and a counter; the clock may stand still or go back.
- `acked`, `safe`, `kept` and `cuts` are history variables: runs that must be in the
  file, runs a power failure must leave, damaged files that were moved away, and the
  limits that have cut the history. `litter` says that a dead process has left a
  temporary file; the next one takes a name of its own and never looks at it.

## 3. Runs

| Run | Instance | Shows |
|---|---|---|
| `quota` | 2 accounts (symmetric), 1 quota task, new or legacy; refreshes, listings, probes may fail; `MaxTime` 4 | the quota rules in the scan loop: nothing lost, nothing repeated, backoff, fresh data, monotone progress |
| `manual` | 1 account, 1 quota task, a manual wake (of the task or ad hoc), every host view; `MaxTime` 4 | locks exclude; no second answer while refreshes succeed |
| `restart` | 1 account, failing refreshes and probes, 2 restarts of either kind, `MaximumBackoff` 3, `MaxTime` 7 | boundaries and progress survive the file; each probe waits as long as its failures in a row call for, and no longer |
| `save_failure` | a quota, interval or calendar task on 1 account, run-on-start, saves may fail, 1 restart, `MaxTime` 5 | the file never claims more than was done; no scheduled run before its occurrence |
| `edits` | 2 windows, 1 editor with every edit but one of the kind, 1 restart, `MaxTime` 3 | edits at any step keep the runtime's fields, and nothing undoes an edit |
| `served` | a quota and a startup task on one account, refreshes may fail, `MaxTime` 4, fair | a passed boundary is answered in the end, unless refreshes fail for ever |
| `lifecycle` | worker, 1 timer, 1 request, 1 listing, 4 lifecycle calls, fair | nothing outlives its generation or its host, every call returns, `Generations` is implemented |
| `stream` | 3 event names, 4 objects, every JSON answer, bodies of up to 4 lines | what is a success, and what is not |
| `state_file` | limits 2 and 3, limit of `Load` 2, 4 runs, 2 deaths, 2 damaged files, 2 names per instant | no torn file, no lost save, no lost backup, history in order |
| `repeated_wake`, `lost_on_restart`, `disabled_task_runs` | smallest instances of `MCWakeup` | what the code does against its documents, see section 5 |

The bounds. In `Wakeup` one tick stands for the reset delay and for the shortest
backoff, two or three for the longest, so every comparison of the rules has inputs on both
sides and at equality. One task and one account are enough for what happens
between a scan, a run, a manual wake and an edit, because the rules relate a task
only to its own accounts; the second account of `quota` shows that results, locks
and retries of one account do not leak into the other's, the second window of
`edits` that a boundary in a window the task does not watch is not settled by one
it does. A boundary can be announced at 1, pass at 2, be due at 3, fail, and be
retried at 4: so `MaxTime` 4 holds a whole life of a boundary. In `restart` the delay
is 1 tick, then 2, then the maximum 3, which no doubling gives; `MaxTime` 7 holds two
failures in a row, the second 2 ticks after the first, and a later boundary that replaces
the one that failed. The maximum comes with a 401 or 403 there, and after three failures
only in `RetriesKeepTheirDistance` and `RetriesEnd`. `manual` has no editor, which
would multiply its states beyond what a run can hold: that a task that is deleted and
created again still shares the lock of its id is the part of `OneRunPerTask` that only
`TasksRunOnce` covers.

Four lifecycle calls hold an installation, a configuration, any third call
(exchange, reconfiguration, quiesce, shutdown) and a fourth after it, so every
pair of calls follows a running plugin. Jobs do not interact except through
`persistMu` and the close lock, so one of each kind meets every other. Four lines
hold two events with a name or data each, an event of four lines, or a blank
line and an unfinished event after a finished one; the proofs cover bodies of
any length. One limit of the history is that of `Load` and one lies above it, as 300
and 1000 do; with a limit of 1 a single later run could stand for all before it, and
a cut that goes too deep would go unnoticed. Four runs exceed both.

Fairness. `Wakeup`: the clock runs, the worker, the timers and the runs that
started are scheduled, and host calls return, as they do under the timeouts of
the requests; a reconfiguration that began goes on. Clients owe nothing: no manual
wake, edit, stop or crash is fair. In `served` requests succeed, refreshes may fail,
and only boundaries that still have time to be answered within `MaxTime` are counted.
Nothing makes the refreshes of an account succeed, so `PendingIsServed` excuses an
account whose data stay in error from some time on, and nothing else.
`Lifecycle`: a call that began and a job that began are scheduled and host calls
return. The last is an assumption about the host: `README.md:182` of the plugin says
that a host call cannot be interrupted and that a shutdown may wait for it. The
save of a job is strongly fair, since a Go mutex hands over to a goroutine that
has waited long. No call, request or listing is owed.

Deadlock is checked in every run of `Wakeup`: the clock stops at `MaxTime` but the
scan loop starts again for ever. It is off in `lifecycle` (after the last of the
four calls a plugin without a worker is at rest; `CallsEnd` shows that no call is
stuck), in `stream` (a request ends) and in `state_file` (runs and deaths are bounded).

## 4. Proofs

TLAPS checks, for every value of the constants that satisfies the named
assumptions of the modules (positive intervals, distinct ids, inputs of their
type):

- `TypeCorrect` (`WakeupTypes`): `Spec => []TypeOK`. `TypeOK` is inductive by
  itself; one lemma per action. It needs that `Latest` and `Earliest` pick from
  sets that have such elements, which `QuotaLemmas` proves by a least-number
  argument (`LeastNat`) on finite or bounded sets of naturals.
- `LatestElapsedMeaning`, `DueResetMeaning` (`QuotaLemmas`): what the choice of the
  due boundary means, independent of how the code loops over windows. The code tests
  only the latest boundary against the retry; the second lemma says that this offers
  one exactly when some boundary is held back by nothing, and then the latest of all.
- `AccountsAreExclusive`, `TasksRunOnce` (`WakeupLocks`): `ExclusiveAccount` is not
  inductive, because it does not say who owns a lock. The invariant `LockInv` adds
  that whoever talks to the services for an account owns its lock, that a run
  past its `TryLock` owns its task's, that the worker's run is under way only
  while the scan evaluates (it cannot refresh beside itself), and that the worker
  has ended once the operations are stopped (so loading meets no run).
- `ProbesFindFreshData` (`WakeupLocks`): `FreshInv` adds that quota runs are the
  worker's and that no account they have yet to wake is in error; refreshes cannot
  change that meanwhile by `LockInv`.
- `ResetsAreKept` (`WakeupResets`): `NoResetForgotten` under the assumption that
  saves do not fail, without which a crash may fall back to an older file. The
  invariant adds that the file holds the accounts as they are, that what a window
  remembers is over, and that a boundary that is over has been noticed. The
  central lemma is `AnswerRemembers`, one window through one response.
- `NothingLiesAhead` (`WakeupProgress`), with every fault, edit and restart: no record
  of a task, in memory or in the file, lies in the future, and the end of a run is
  never written over a later one. `PastInv` is inductive on top of `LockInv`, since
  a second run of a task cannot start before the first is recorded.
- `CursorMovesForward`: `CursorIsMonotone`, if saves succeed. A step of the system
  does one of four things to a task (`TaskStep`: preview, edit, end of a run, loading), and
  each moves the baseline of an account forward or not at all; for the end of a run
  because a boundary it answers lies ahead of the baseline, for loading because the
  file `Mirrors` memory.
- `EditsStayInForce`: `EditsStay`, if saves succeed, from the same two facts: every step of a
  task but an edit keeps what an edit decides, and loading finds it in the file.
- `FileStaysBehind`: `FileIsNeverAhead`, if tasks name their accounts
  (`AccountsAreNamed`) and either nobody edits or saves succeed. Without names a
  handled map may be empty and load as nil (`lost_on_restart`); with them a map that is
  there has an entry (`Explicit`), so that the file tells the two apart and holds an
  earlier state of every task (`BehindInv`). Edits and failing saves together are
  excluded because a run that ends while an account is not selected writes a map
  without it, while a file that has no map yet counts the last run for all.
- `ScheduledRunsKeepTheirDistance`: `ScheduledRunsAreSpaced`, if nobody edits or wakes by
  hand and a file that holds a next occurrence holds one that waits for the last run
  (`TasksWait`; every file the plugin writes does, which is part of the invariant).
  `ScheduleInv` adds that the copies the scan evaluates are still the saved tasks, that
  only the worker runs scheduled tasks, and that it has forgotten the copy of the task it
  runs. Failing saves, reconfigurations and crashes are allowed.
- `OnlyAttemptsConsume` (`WakeupResets`): `ResetsAreConsumedByAttempts` under the same
  hypotheses, and with edits only for quota tasks, because a task that had another
  kind takes the end of its last run for its baseline. `ConsumedInv` says that the baseline of
  an account is the creation of the task or was over its delay when an attempt on the
  account started; `HistoryInv` relates the history variables to the runs under way.
- `PickedAccountsStayDue`: what the next two rest on. While nobody edits and saves
  succeed, an account picked by a quota run keeps a boundary that was due when the
  run started (`DueInv`): refreshes of it are impossible while its run holds it and
  keep the boundary before, no other run of the task can consume it, and the restart
  that could reload it waits for the run. `TriggerInv` says who runs a quota task,
  `QueryInv` that no record of an account is later than the refresh under way.
- `RetriesKeepTheirDistance`, `RetriesEnd`: `RetriesAreSpaced` and `RetriesComeDue` under these two
  hypotheses. `SpacedInv`: either the task's retry is for the failure the history knows, with
  the same count and exactly the backoff it calls for (`Follows`), or every boundary the task
  has yet to answer is later than the one that failed; and no retry is for a later boundary
  than the last failure. `RetryFollows` compares the count that `markQuotaResetsHandledLocked`
  keeps with the failures in a row, and `quotaRetryDelay` with the documented delays.
- `SuccessIsFinal`: `NoRepeatedWake` under the same hypotheses and `CalmAssumption`: no manual
  wakes, or no refreshes that fail or are cancelled, since a manual wake that succeeds next to
  a failed refresh is not recorded (`repeated_wake`). `WokenInv`: what the task has yet to
  answer was not yet due when the run that woke the account last started.
- `LifecycleTypes`, `GenerationsAreIsolated`, `RunsKeepTheirHost`, `ClosedHostsAreLeft`,
  `StoppedIsQuiet` (`LifecycleProofs`), from one invariant: a gate that is shut and
  not draining has nobody behind it (`GatesDrain`), a call that replaces anything
  has shut both (`Stages`), calls pass only the steps of their kind (`Shape`), the
  bridges alive are the host and the one being closed (`Bridges`), and a gated job
  holds the current one (`JobBridges`). None of the five properties is inductive
  without the first two: what isolates generations is that a replacement finds
  every gated job idle.
- `LifecycleRefinesGenerations`: `Spec => Epochs!Safety`, from the same invariant.
  The fairness half of `ImplementsEpochs` stays with TLC.
- `StreamTypes`, `NoFalseSuccess`, `NoFalseFailure`, `LateIsNoSuccess` (`StreamProofs`):
  the reader agrees with the reference definition on every body. `Gathered` says
  that its name and data lines are those of the block it is in and that
  `completed` and `failed` are what the ended events say; the lemmas show that
  appending a line changes no event before it.
- `StateFileTypes`, `SavesAreAtomic`, `QuarantineKeepsFiles`, `SavesLast`,
  `HistoryIsInOrder` (`StateFileProofs`). `Forms` says that what was synced is what
  a power failure leaves, `Numbers` that damaged files differ and lie where they
  were put, `Remembered` that memory holds every saved run that later ones have not
  replaced. The lemmas about `Cut` (what a suffix of an increasing history keeps)
  carry the last two.

The hypotheses of these theorems are met by the runs that check the property, and
they are not for convenience: TLC refutes `CursorIsMonotone`, `RetriesAreSpaced`,
`RetriesComeDue` and `NoRepeatedWake` once saves may fail in `restart`, `EditsStay` once
they may fail in `edits`, and `RetriesAreSpaced` and `NoRepeatedWake` with the edits of
`edits`. A save that fails followed by a crash brings back an older cursor, an older
retry and an older form of the task, and the account is woken again, as it must be when
the record of the wake is lost; an edit that widens the windows of a task makes older
boundaries due, which no success or failure before it answered, and one that deletes the
task under a probe leaves the two properties nothing to compare the probe with. Only
`RetriesEnd` excludes edits for the sake of the invariant it shares with
`RetriesKeepTheirDistance`.

Only model-checked: the liveness properties `PendingIsServed` and `CallsEnd` and the
fairness half of `ImplementsEpochs`, which are out of the prover's reach. Every other
property that a run finds to hold is the statement of a theorem.

## 5. Findings

- `repeated_wake`: a wake that succeeds while the account's last refresh is in
  error is not recorded, and the account is woken again for the same boundary.
- `lost_on_restart`: an empty handled map becomes nil in the file, and a pending
  boundary is taken for handled after a restart.
- `disabled_task_runs`: an interval or calendar task that is disabled or deleted
  during a scan still runs in it.

Behaviour worth knowing, which no document contradicts:

- `finishRun` finds its task by id only. If a task is deleted and created again while
  a run of it goes on, the new task gets a last run from before its creation; made a
  quota task without a handled map, it would start from that baseline. `HasOwnRun` is
  what excludes this in `CursorIsMonotone`.
- A manual run of an interval or calendar task that ends between the snapshot of a scan
  and the evaluation of its copy does not delay the scheduled run, which follows at once.
- A manual wake of a quota task that fails for a passing reason settles the
  boundary and drops a pending retry; only runs of the scan are retried.
- A quota task that has no handled map yet, is edited to another kind while a run
  of it ends, and back, takes the end of that run for its baseline; a boundary
  that no run attempted is then consumed. The `edits` run therefore leaves the kind
  of a task alone and changes everything else.
- A plain JSON answer with `"error": null` counts as an error (`codex.go:144`).
- A state file that is newer or cannot be read stays in place, the plugin starts
  empty, and the next save replaces it; so does one that could not be quarantined.
- `Save` does not sync the directory: after a power failure the older, complete
  file may be back. A death during a save leaves its temporary file for good (`litter`);
  nothing reads or removes it.
- An error in a stream wins over a completion before or after it.

## 6. Not modelled

- Parsing and formatting without state: usage responses, credentials, the
  configuration, callback envelopes, account lists, scrubbing, the C interface.
- Normalisation and validation of tasks and schedules; local time and daylight
  saving (calendar tasks have a fixed period).
- Token counts, error texts, headers of requests; the heartbeat and log texts.
- Read-only management responses; the response of an edit whose save failed,
  which reports an error though the edit is in force.
- The page and the build, release and smoke-test scripts.
- Jitter of relative reset times below the model's clock.

## 7. What is left

1. `Calendar`: `NextRunAt` and `Due` for daily, weekly and interval schedules on a
   small week with a clock change, against a reference definition.
2. `PickedAccountsStayDue`, and the theorems that rest on it, with edits that leave the
   windows of a task alone.
3. The responses of edits, to relate what a client is told to what is in force.
