------------------------------- MODULE Wakeup -------------------------------
(***************************************************************************)
(* The scheduler core of the plugin: the worker's scan loop with its usage *)
(* refresh, runs of tasks by the worker, by startup timers and by manual   *)
(* wakes, edits through the management API, reconfiguration and crashes.   *)
(*                                                                         *)
(* One action is one critical section, or one step between two host calls. *)
(* A finished mutation and the save that follows it are one step, because  *)
(* persistMu covers both.  The accounts of a listing and the tasks of a    *)
(* scan are visited in any order (the code sorts the first by auth_index   *)
(* and takes the second in list order), so every order of the code is one  *)
(* of the model's.                                                         *)
(***************************************************************************)
EXTENDS QuotaRules, FiniteSets

CONSTANTS
    TaskID,         \* ids a task can have; each also names its startup timer
    NoTask,         \* the id of an ad-hoc run
    NoAccount,
    Worker,         \* the scan goroutine
    Manual,         \* concurrent POST /wake requests
    Editor,         \* concurrent task edits
    NoRequest,      \* the request of an editor that has none
    Free,           \* the owner of an unlocked mutex
    TaskInterval,   \* the period of the interval tasks
    Day,            \* the period of the calendar (daily, weekly) tasks
    RunOnStart,     \* config run_on_start
    InitTasks,      \* the tasks the state file can hold at the start
    Forms,          \* the task forms a management client sends
    BulkForms,      \* the whole task lists it sends to save-tasks
    Selections,     \* the account selections of a manual wake
    Listings,       \* the answers of host.auth.list, NoListing included
    WindowSpan,     \* how far ahead a usage response places a new reset
    RefreshCanFail, \* whether a usage refresh can fail
    RequestResults, \* the results a wake request can have
    SaveCanFail,    \* whether writing the state file can fail
    MaxTime,        \* bound on now
    MaxRestarts     \* bound on restarts

HostView == {"eligible", "unavailable", "gone", "error"}
NoListing == [a \in Account |-> "error"]

ASSUME WakeupAssumption ==
    /\ TaskInterval \in Nat \ {0}
    /\ Day \in Nat \ {0}
    /\ RunOnStart \in BOOLEAN
    /\ RequestResults \subseteq Result \ {"none"}
    /\ RefreshCanFail \in BOOLEAN
    /\ SaveCanFail \in BOOLEAN
    /\ WindowSpan \subseteq Nat \ {0}
    /\ MaxTime \in Nat
    /\ MaxRestarts \in Nat
    /\ Listings \subseteq [Account -> HostView]
    /\ Selections \subseteq SUBSET Account
    /\ NoTask \notin TaskID
    /\ NoAccount \notin Account

ASSUME ActorAssumption ==
    /\ Worker \notin Manual \cup TaskID
    /\ Manual \cap TaskID = {}
    /\ Free \notin {Worker} \cup Manual \cup TaskID

Actor == {Worker} \cup Manual \cup TaskID

Form == [enabled : BOOLEAN, kind : Kind, accounts : SUBSET Account,
         windows : SUBSET Window]

TaskForms == UNION {[S -> Form] : S \in SUBSET TaskID}

Run == [pc : {"none", "lock", "listing", "accounts", "request", "finish"},
        id : TaskID \cup {NoTask},
        trigger : {"none", "schedule", "quota_reset", "startup", "manual"},
        created : Nat, accounts : SUBSET Account, selected : SUBSET Account,
        started : Nat, completed : Nat, todo : SUBSET Account,
        at : Account \cup {NoAccount}, results : [Account -> Result]]

(* The clock starts at 1, so every instant before that is 1 too. A task of  *)
(* the file has been created (Normalize sees to it), and nothing in it lies  *)
(* in the future.                                                            *)
FromThePast(task) ==
    /\ task.present => task.created = 1
    /\ task.lastRun <= 1
    /\ \A a \in Account : task.handled[a] <= 1 /\ task.retries[a].resetAt <= 1

ASSUME InputAssumption ==
    /\ InitTasks \subseteq [TaskID -> Task]
    /\ \A ts \in InitTasks : \A t \in TaskID : FromThePast(ts[t])
    /\ Forms \subseteq Form
    /\ BulkForms \subseteq TaskForms

AbsentTask ==
    [present |-> FALSE, enabled |-> FALSE, kind |-> "interval", accounts |-> {},
     windows |-> {}, created |-> NoTime, lastRun |-> NoTime, nextRun |-> NoTime,
     legacy |-> TRUE, handled |-> [a \in Account |-> NoTime],
     retries |-> [a \in Account |-> NoRetry]]

UnknownAccount ==
    [known |-> FALSE, reset |-> [w \in Window |-> NoTime],
     elapsed |-> [w \in Window |-> NoTime], error |-> FALSE,
     failures |-> 0, nextRefresh |-> NoTime]

NoRun ==
    [pc |-> "none", id |-> NoTask, trigger |-> "none", created |-> NoTime,
     accounts |-> {}, selected |-> {}, started |-> NoTime, completed |-> NoTime,
     todo |-> {}, at |-> NoAccount, results |-> [a \in Account |-> "none"]]

Scan == [pc : {"idle", "listing", "refresh", "query", "evaluate", "off"},
         first : BOOLEAN, wanted : SUBSET Account, listedAt : Nat,
         todo : SUBSET Account, live : SUBSET Account,
         at : Account \cup {NoAccount}, attempt : Nat,
         snapshot : [TaskID -> Task]]

IdleScan ==
    [pc |-> "idle", first |-> FALSE, wanted |-> {}, listedAt |-> NoTime,
     todo |-> {}, live |-> {}, at |-> NoAccount, attempt |-> NoTime,
     snapshot |-> [t \in TaskID |-> AbsentTask]]

VARIABLES
    now,
    tasks,        \* p.state.Tasks, by id
    accounts,     \* p.state.Accounts, by auth_index
    disk,         \* what the state file holds of both
    scan,         \* the local state of worker and runDue
    run,          \* the local state of executeTask, by actor
    startup,      \* created_at of the task an armed startup timer is for
    taskLocks,    \* the owner of each task lock
    accountLocks, \* the owner of each account lock
    requests,     \* a task list an edit has built and not yet saved
    phase,        \* progress of a reconfiguration
    restarts,     \* reconfigurations and crashes so far
    passed,       \* history: the last boundary that passed while it was stored
    attempted,    \* history: start of the last run that attempted the account
    woken,        \* history: start of the last run that woke the account
    failed        \* history: the last quota probe that failed

vars == <<now, tasks, accounts, disk, scan, run, startup, taskLocks,
          accountLocks, requests, phase, restarts, passed, attempted, woken, failed>>

state == <<tasks, accounts, disk>>
locks == <<taskLocks, accountLocks>>
lifecycle == <<phase, restarts>>
history == <<attempted, woken, failed>>

(* A quota probe that failed: the boundary it was for, when its run ended, how *)
(* often in a row the boundary had failed before, and whether with 401 or 403. *)
Failure == [resetAt : Nat, completed : Nat, repeats : Nat, credential : BOOLEAN]
NoFailure ==
    [resetAt |-> NoTime, completed |-> NoTime, repeats |-> 0, credential |-> FALSE]

-----------------------------------------------------------------------------
(* Schedules *)

(* The base of an interval task and the next boundary of a calendar one.   *)
IntervalBase(task) == IF task.lastRun # NoTime THEN task.lastRun ELSE task.created

NextRunAt(task, accts, at) ==
    CASE task.kind = "interval" -> IntervalBase(task) + TaskInterval
      [] task.kind = "calendar" -> ((at \div Day) + 1) * Day
      [] task.kind = "quota_reset" -> quotaNextRunAt(task, accts, at)
      [] task.kind = "startup" -> NoTime

Due(task, at, onStart) ==
    /\ task.enabled
    /\ \/ onStart /\ task.lastRun = NoTime
       \/ at >= IF task.nextRun # NoTime THEN task.nextRun
                                         ELSE NextRunAt(task, accounts, at)

(* A usage refresh rebuilds the preview of every quota task.               *)
WithPreview(ts, accts, at) ==
    [t \in TaskID |->
        IF ts[t].present /\ ts[t].kind = "quota_reset"
        THEN [ts[t] EXCEPT !.nextRun = quotaNextRunAt(ts[t], accts, at)]
        ELSE ts[t]]

(* Loading rebuilds every preview it can, and keeps the occurrence an       *)
(* interval or calendar task is waiting for.                                *)
recomputeTaskNextRuns(ts, accts, at) ==
    [t \in TaskID |->
        IF ~ts[t].present \/ (ts[t].kind \in {"interval", "calendar"} /\ ts[t].nextRun # NoTime)
        THEN ts[t]
        ELSE [ts[t] EXCEPT !.nextRun = NextRunAt(ts[t], accts, at)]]

-----------------------------------------------------------------------------
(* Mutant: the file lacks the handled resets.                               *)
EncodedWithoutHandled(task) ==
    [task EXCEPT !.legacy = TRUE, !.handled = [a \in Account |-> NoTime]]

(* The state file.  json omits an empty map, which then loads as nil.      *)
Encoded(task) ==
    [task EXCEPT !.legacy = \A a \in Account : task.handled[a] = NoTime]

(* Mutant: the file lacks the elapsed boundaries.                           *)
SavedWithoutElapsed(ts, accts) ==
    [tasks |-> [t \in TaskID |-> Encoded(ts[t])],
     accounts |-> [a \in Account |->
                      [accts[a] EXCEPT !.elapsed = [w \in Window |-> NoTime]]]]

Saved(ts, accts) ==
    [tasks |-> [t \in TaskID |-> Encoded(ts[t])], accounts |-> accts]

(* Mutant: the snapshot is taken before the change.                         *)
persistBefore(ts, accts) == disk' = Saved(tasks, accts)

persistSnapshot(ts, accts) ==
    \/ disk' = Saved(ts, accts)
    \/ SaveCanFail /\ disk' = disk

(* What configure makes of the loaded file.                                *)
Loaded == recomputeTaskNextRuns(disk.tasks, disk.accounts, now)

Arm(ts) ==
    [t \in TaskID |-> IF ts[t].present /\ ts[t].enabled /\ ts[t].kind = "startup"
                      THEN ts[t].created ELSE NoTime]

NoHistory(value) == [t \in TaskID |-> [a \in Account |-> value]]

Init ==
    /\ now = 1
    /\ accounts = [a \in Account |-> UnknownAccount]
    /\ \E ts \in InitTasks : disk = Saved(ts, accounts)
    /\ tasks = Loaded
    /\ scan = [IdleScan EXCEPT !.first = TRUE]
    /\ run = [actor \in Actor |-> NoRun]
    /\ startup = Arm(tasks)
    /\ taskLocks = [t \in TaskID |-> Free]
    /\ accountLocks = [a \in Account |-> Free]
    /\ requests = [e \in Editor |-> NoRequest]
    /\ phase = "up"
    /\ restarts = 0
    /\ passed = [a \in Account |-> [w \in Window |-> NoTime]]
    /\ attempted = NoHistory(NoTime)
    /\ woken = NoHistory(NoTime)
    /\ failed = NoHistory(NoFailure)

-----------------------------------------------------------------------------
(* Time *)

(* The boundaries that are over once the clock shows at.                   *)
Observe(accts, at) ==
    passed' = [a \in Account |-> [w \in Window |->
        IF accts[a].reset[w] <= at /\ accts[a].reset[w] > passed[a][w]
        THEN accts[a].reset[w] ELSE passed[a][w]]]

Tick ==
    /\ now < MaxTime
    /\ now' = now + 1
    /\ Observe(accounts, now + 1)
    /\ UNCHANGED <<state, scan, run, startup, locks, requests, lifecycle, history>>

-----------------------------------------------------------------------------
(* Reconfiguration first cancels the worker and its startup timers, then    *)
(* the manual operations.                                                   *)
Cancelled(actor) ==
    IF actor \in Manual THEN phase = "stopOperations" ELSE phase # "up"

-----------------------------------------------------------------------------
(* The scan loop *)

IsQuotaTask(task) == task.present /\ task.enabled /\ task.kind = "quota_reset"

(* runDue up to the listing: nothing to list without a quota task.         *)
StartScan ==
    /\ scan.pc = "idle"
    /\ phase = "up"
    /\ LET quotaTasks == {t \in TaskID : IsQuotaTask(tasks[t])}
           wanted == {a \in Account : \E t \in quotaTasks :
                          quotaTaskSelectsAccount(tasks[t], a)}
       IN  scan' = IF quotaTasks = {}
                   THEN [scan EXCEPT !.pc = "evaluate", !.snapshot = tasks]
                   ELSE [scan EXCEPT !.pc = "listing", !.wanted = wanted]
    /\ UNCHANGED <<now, state, run, startup, locks, requests, lifecycle, passed, history>>

(* host.auth.list fails once its caller is cancelled.                       *)
HostListings(actor) == IF Cancelled(actor) THEN {NoListing} ELSE Listings

(* The listing fails or names the accounts that can be monitored.           *)
ListForRefresh ==
    /\ scan.pc = "listing"
    /\ \E listing \in HostListings(Worker) :
        scan' = IF listing = NoListing
                   THEN [scan EXCEPT !.pc = "evaluate", !.wanted = {}, !.snapshot = tasks]
                   ELSE [scan EXCEPT !.pc = "refresh", !.wanted = {}, !.listedAt = now,
                             !.todo = {a \in scan.wanted :
                                          listing[a] \in {"eligible", "unavailable"}}]
    /\ UNCHANGED <<now, state, run, startup, locks, requests, lifecycle, passed, history>>

(* TryLock on an account lock and, for a run of a task, on its task lock.   *)
(* Mutants: Lock without looking.                                           *)
AnyAccount(a) == TRUE
AccountIsFree(a) == accountLocks[a] = Free
AnyTask(t) == TRUE
TaskIsFree(t) == t # NoTask => taskLocks[t] = Free

(* A listed account is live; it is queried when its refresh is due and no   *)
(* run holds it.                                                            *)
RefreshNext(a) ==
    /\ scan.pc = "refresh"
    /\ a \in scan.todo
    /\ LET listed == [scan EXCEPT !.todo = @ \ {a}, !.live = @ \cup {a}]
       IN  IF scan.listedAt >= accounts[a].nextRefresh /\ AccountIsFree(a)
           THEN /\ scan' = [listed EXCEPT !.pc = "query", !.at = a, !.attempt = now]
                /\ accountLocks' = [accountLocks EXCEPT ![a] = Worker]
           ELSE /\ scan' = listed
                /\ UNCHANGED accountLocks
    /\ UNCHANGED <<now, state, run, startup, taskLocks, requests, lifecycle, passed, history>>

(* The usage service, for one window: it reports the boundary it reported   *)
(* before until that passes, then none or a later one.                      *)
Answers(previous, attempt) ==
    (IF previous # NoTime THEN {previous} ELSE {})
    \cup (IF previous <= now
          THEN {NoTime} \cup {r \in {attempt + span : span \in WindowSpan} : r > previous}
          ELSE {})

(* Mutant: the backoff is taken off the time of the attempt.                *)
RefreshFailedEarlier(account, attempt) ==
    [account EXCEPT !.known = TRUE, !.error = TRUE, !.failures = @ + 1,
                    !.nextRefresh = attempt - quotaRetryDelay(account.failures + 1)]

RefreshFailed(account, attempt) ==
    [account EXCEPT !.known = TRUE, !.error = TRUE, !.failures = @ + 1,
                    !.nextRefresh = attempt + quotaRetryDelay(account.failures + 1)]

Refreshed(account, attempt, answer) ==
    [account EXCEPT
        !.known = TRUE, !.error = FALSE, !.failures = 0,
        !.nextRefresh = attempt + RefreshInterval,
        !.reset = answer,
        !.elapsed = [w \in Window |->
            rememberElapsedReset(account.elapsed[w], account.reset[w], answer[w], now)]]

UsageAnswers(a) ==
    LET values(w) == Answers(accounts[a].reset[w], scan.attempt)
    IN  {answer \in [Window -> UNION {values(w) : w \in Window}] :
            \A w \in Window : answer[w] \in values(w)}

(* A usage response arrives, or the refresh fails, as it always does once   *)
(* the worker is cancelled.                                                 *)
RefreshOutcomes(a) ==
    (IF RefreshCanFail \/ Cancelled(Worker)
     THEN {RefreshFailed(accounts[a], scan.attempt)} ELSE {})
    \cup (IF Cancelled(Worker) THEN {}
          ELSE {Refreshed(accounts[a], scan.attempt, answer) : answer \in UsageAnswers(a)})

FinishRefresh ==
    /\ scan.pc = "query"
    /\ \E account \in RefreshOutcomes(scan.at) :
        /\ accounts' = [accounts EXCEPT ![scan.at] = account]
        /\ tasks' = WithPreview(tasks, accounts', scan.attempt)
        /\ persistSnapshot(tasks', accounts')
        /\ Observe(accounts', now)
    /\ accountLocks' = [accountLocks EXCEPT ![scan.at] = Free]
    /\ scan' = IF Cancelled(Worker)
               THEN [IdleScan EXCEPT !.pc = "evaluate"]
               ELSE [scan EXCEPT !.pc = "refresh", !.at = NoAccount, !.attempt = NoTime]
    /\ UNCHANGED <<now, run, startup, taskLocks, requests, lifecycle, history>>

(* All accounts are refreshed: the tasks to evaluate are read again.        *)
StartEvaluation ==
    /\ scan.pc = "refresh"
    /\ scan.todo = {}
    /\ scan' = [scan EXCEPT !.pc = "evaluate", !.listedAt = NoTime, !.snapshot = tasks]
    /\ UNCHANGED <<now, state, run, startup, locks, requests, lifecycle, passed, history>>

(* executeTask is called with a copy of the task.                           *)
Called(task, t, trigger, selected) ==
    [NoRun EXCEPT !.pc = "lock", !.id = t, !.trigger = trigger,
                  !.created = task.created, !.accounts = task.accounts,
                  !.selected = selected]

DueLiveAccounts(task) ==
    {a \in scan.live : quotaDueReset(task, a, accounts[a], now) # NoTime}

EvaluateTask(t) ==
    /\ scan.pc = "evaluate"
    /\ run[Worker].pc = "none"
    /\ ~Cancelled(Worker)
    /\ scan.snapshot[t].present
    /\ scan' = [scan EXCEPT !.snapshot[t] = AbsentTask]
    /\ LET task == scan.snapshot[t]
           due == DueLiveAccounts(task)
       IN  run' = CASE task.kind = "quota_reset" /\ due # {} ->
                           [run EXCEPT ![Worker] = Called(task, t, "quota_reset", due)]
                    [] /\ task.kind \in {"interval", "calendar"}
                       /\ Due(task, now, scan.first /\ RunOnStart) ->
                           [run EXCEPT ![Worker] = Called(task, t, "schedule", {})]
                    [] OTHER -> run
    /\ UNCHANGED <<now, state, startup, locks, requests, lifecycle, passed, history>>

(* The scan ends after its last task, or early once the worker is cancelled, *)
(* which also ends a worker that waits for the next scan.                    *)
EndScan ==
    /\ run[Worker].pc = "none"
    /\ \/ /\ scan.pc = "evaluate"
          /\ Cancelled(Worker) \/ \A t \in TaskID : ~scan.snapshot[t].present
       \/ /\ scan.pc = "idle"
          /\ Cancelled(Worker)
    /\ scan' = IF Cancelled(Worker) THEN [IdleScan EXCEPT !.pc = "off"] ELSE IdleScan
    /\ UNCHANGED <<now, state, run, startup, locks, requests, lifecycle, passed, history>>

-----------------------------------------------------------------------------
(* Who calls executeTask besides the scan loop *)

(* A startup timer fires: the task it was armed for must still be there,    *)
(* enabled and of its kind, and the current version of it runs.             *)
FireStartup(t) ==
    /\ startup[t] # NoTime
    /\ startup' = [startup EXCEPT ![t] = NoTime]
    /\ run' = IF /\ ~Cancelled(t)
                 /\ tasks[t].present
                 /\ tasks[t].created = startup[t]
                 /\ tasks[t].enabled
                 /\ tasks[t].kind = "startup"
              THEN [run EXCEPT ![t] = Called(tasks[t], t, "startup", {})]
              ELSE run
    /\ UNCHANGED <<now, state, scan, locks, requests, lifecycle, passed, history>>

(* POST /wake with a task id, or ad hoc.                                    *)
WakeTask(m, t, selection) ==
    /\ run[m].pc = "none"
    /\ ~Cancelled(m)
    /\ tasks[t].present
    /\ run' = [run EXCEPT ![m] = Called(tasks[t], t, "manual", selection)]
    /\ UNCHANGED <<now, state, scan, startup, locks, requests, lifecycle, passed, history>>

WakeAdHoc(m, selection) ==
    /\ run[m].pc = "none"
    /\ ~Cancelled(m)
    /\ run' = [run EXCEPT ![m] = [NoRun EXCEPT !.pc = "lock", !.trigger = "manual",
                                               !.selected = selection]]
    /\ UNCHANGED <<now, state, scan, startup, locks, requests, lifecycle, passed, history>>

-----------------------------------------------------------------------------
(* executeTask *)

(* Mutant: the lock is kept.                                                *)
KeptLocked(actor) == taskLocks

Unlocked(actor) ==
    [t \in TaskID |-> IF taskLocks[t] = actor THEN Free ELSE taskLocks[t]]

(* A task that is already running is skipped; a cancelled run ends here.    *)
LockTask(actor) ==
    /\ run[actor].pc = "lock"
    /\ LET t == run[actor].id
       IN  IF Cancelled(actor) \/ ~TaskIsFree(t)
           THEN /\ run' = [run EXCEPT ![actor] = NoRun]
                /\ UNCHANGED taskLocks
           ELSE /\ run' = [run EXCEPT ![actor].pc = "listing", ![actor].started = now]
                /\ taskLocks' = [u \in TaskID |-> IF u = t THEN actor ELSE taskLocks[u]]
    /\ UNCHANGED <<now, state, scan, startup, accountLocks, requests, lifecycle, passed, history>>

(* The saved task a quota run goes on with after the listing.               *)
CurrentTask(r) == tasks[r.id]

StillQuotaTask(r) ==
    IsQuotaTask(CurrentTask(r)) /\ CurrentTask(r).created = r.created

(* Mutant: wakes whatever was due when the scan looked.                     *)
CandidatesOfScan(r, listing) ==
    LET selectors == IF r.selected # {} THEN r.selected ELSE r.accounts
    IN  {a \in Account : /\ selectors = {} \/ a \in selectors
                         /\ listing[a] = "eligible"}

(* selectCandidates, and for a quota run the accounts still due.            *)
Candidates(r, listing) ==
    LET selectors == IF r.selected # {} THEN r.selected ELSE r.accounts
        named == {a \in Account : selectors = {} \/ a \in selectors}
    IN  IF r.trigger = "quota_reset"
        THEN {a \in named : /\ listing[a] \in {"eligible", "unavailable"}
                            /\ quotaDueReset(CurrentTask(r), a, accounts[a], r.started) # NoTime}
        ELSE {a \in named : listing[a] = "eligible"}

(* A failed listing and an empty selection still finish a run of a task; an *)
(* ad-hoc run and a quota run whose task is no longer one end silently.     *)
ListCandidates(actor) ==
    /\ run[actor].pc = "listing"
    /\ LET r == run[actor]
           finish == IF r.id = NoTask THEN NoRun
                     ELSE [r EXCEPT !.pc = "finish", !.completed = now]
       IN  \E listing \in HostListings(actor) :
            /\ LET next == CASE listing = NoListing -> finish
                             [] listing # NoListing /\ r.trigger = "quota_reset"
                                  /\ ~StillQuotaTask(r) -> NoRun
                             [] OTHER ->
                                  IF Candidates(r, listing) = {} THEN finish
                                  ELSE [r EXCEPT !.pc = "accounts", !.todo = Candidates(r, listing)]
               IN  /\ run' = [run EXCEPT ![actor] = next]
                   /\ taskLocks' = IF next = NoRun THEN Unlocked(actor) ELSE taskLocks
    /\ UNCHANGED <<now, state, scan, startup, accountLocks, requests, lifecycle, passed, history>>

(* The next candidate: skipped when its account lock is held.               *)
StartAccount(actor, a) ==
    /\ run[actor].pc = "accounts"
    /\ a \in run[actor].todo
    /\ ~Cancelled(actor)
    /\ IF AccountIsFree(a)
       THEN /\ run' = [run EXCEPT ![actor].pc = "request", ![actor].at = a,
                                  ![actor].todo = @ \ {a}]
            /\ accountLocks' = [accountLocks EXCEPT ![a] = actor]
       ELSE /\ run' = [run EXCEPT ![actor].todo = @ \ {a}, ![actor].results[a] = "skipped"]
            /\ UNCHANGED accountLocks
    /\ UNCHANGED <<now, state, scan, startup, taskLocks, requests, lifecycle, passed, history>>

(* executeAccount returns; a cancelled request fails with no status.        *)
FinishAccount(actor) ==
    /\ run[actor].pc = "request"
    /\ \E result \in IF Cancelled(actor) THEN {"transient"} ELSE RequestResults :
        run' = [run EXCEPT ![actor].pc = "accounts", ![actor].at = NoAccount,
                           ![actor].results[run[actor].at] = result]
    /\ accountLocks' = [accountLocks EXCEPT ![run[actor].at] = Free]
    /\ UNCHANGED <<now, state, scan, startup, taskLocks, requests, lifecycle, passed, history>>

EndAccounts(actor) ==
    /\ run[actor].pc = "accounts"
    /\ run[actor].todo = {} \/ Cancelled(actor)
    /\ run' = [run EXCEPT ![actor].pc = "finish", ![actor].todo = {},
                              ![actor].completed = now]
    /\ UNCHANGED <<now, state, scan, startup, locks, requests, lifecycle, passed, history>>

(* Mutants: the run writes back the task it was called with, or the next     *)
(* occurrence is not moved.                                                 *)
FinishedAsCalled(task, accts, r) ==
    [task EXCEPT !.enabled = TRUE, !.accounts = r.accounts, !.lastRun = r.completed]
FinishedInPlace(task, accts, r) ==
    [(IF task.kind = "quota_reset"
      THEN markQuotaResetsHandled(task, accts, r.trigger, r.results, r.started, r.completed)
      ELSE task) EXCEPT !.lastRun = r.completed]

(* What finishRun writes into the task that has the run's id now.           *)
Finished(task, accts, r) ==
    LET marked == IF task.kind = "quota_reset"
                  THEN markQuotaResetsHandled(task, accts, r.trigger, r.results, r.started,
                                              r.completed)
                  ELSE task
        ran == [marked EXCEPT !.lastRun = r.completed]
    IN  [ran EXCEPT !.nextRun = NextRunAt(ran, accts, r.completed)]

WithResults(accts, r) ==
    [a \in Account |-> IF r.results[a] = "none" THEN accts[a]
                                                ELSE [accts[a] EXCEPT !.known = TRUE]]

(* The history of what a finished run attempted, woke and failed to wake.   *)
FailedAgain(last, reset, result, completed) ==
    [resetAt |-> reset, completed |-> completed,
     repeats |-> CASE reset # last.resetAt -> 0
                   [] reset = last.resetAt /\ last.repeats + 1 < FailureCap -> last.repeats + 1
                   [] OTHER -> last.repeats,
     credential |-> result = "credential"]

Record(r) ==
    LET had(t, results) == {a \in Account : t = r.id /\ r.results[a] \in results}
        due(t, a) == LatestElapsed(tasks[t], a, accounts[a], r.started)
    IN  /\ attempted' = [t \in TaskID |-> [a \in Account |->
                IF a \in had(t, Attempted) THEN r.started ELSE attempted[t][a]]]
        /\ woken' = [t \in TaskID |-> [a \in Account |->
                IF a \in had(t, {"success"}) THEN r.started ELSE woken[t][a]]]
        /\ failed' = [t \in TaskID |-> [a \in Account |->
                IF r.trigger = "quota_reset" /\ a \in had(t, Retryable)
                THEN FailedAgain(failed[t][a], due(t, a), r.results[a], r.completed)
                ELSE failed[t][a]]]

(* finishRun, or appendAdHocRun for a run without a task.                   *)
FinishRun(actor) ==
    /\ run[actor].pc = "finish"
    /\ LET r == run[actor]
       IN  /\ accounts' = WithResults(accounts, r)
           /\ tasks' = [t \in TaskID |-> IF t = r.id /\ tasks[t].present
                                         THEN Finished(tasks[t], accounts', r)
                                         ELSE tasks[t]]
           /\ Record(r)
    /\ persistSnapshot(tasks', accounts')
    /\ run' = [run EXCEPT ![actor] = NoRun]
    /\ taskLocks' = Unlocked(actor)
    /\ UNCHANGED <<now, scan, startup, accountLocks, requests, lifecycle, passed>>

-----------------------------------------------------------------------------
(* Task edits.  Every handler but the bulk save builds its list from a      *)
(* snapshot, and saveTasks applies the list later.                          *)

FormOf(task) ==
    [enabled |-> task.enabled, kind |-> task.kind, accounts |-> task.accounts,
     windows |-> task.windows]

CurrentForms == [t \in {u \in TaskID : tasks[u].present} |-> FormOf(tasks[t])]

Submit(e, forms) ==
    /\ requests[e] = NoRequest
    /\ requests' = [requests EXCEPT ![e] = forms]
    /\ UNCHANGED <<now, state, scan, run, startup, locks, lifecycle, passed, history>>

toggleTask(e, t, enabled) ==
    /\ tasks[t].present
    /\ Submit(e, [CurrentForms EXCEPT ![t].enabled = enabled])

deleteTask(e, t) ==
    /\ tasks[t].present
    /\ Submit(e, [u \in DOMAIN CurrentForms \ {t} |-> CurrentForms[u]])

(* PUT replaces the form of an existing task; POST adds one, and an id that *)
(* is taken makes saveTasks refuse the list, which changes nothing.         *)
saveSingleTask(e, t, form) ==
    /\ form.accounts # {}
    /\ Submit(e, [u \in DOMAIN CurrentForms \cup {t} |->
                     IF u = t THEN form ELSE CurrentForms[u]])

bulkTasks(e, forms) == Submit(e, forms)

(* Mutants: an edit loses the handled resets, or every runtime field.       *)
WithoutHandled(task) ==
    IF task.present
    THEN [task EXCEPT !.legacy = TRUE, !.handled = [a \in Account |-> NoTime]]
    ELSE [AbsentTask EXCEPT !.present = TRUE, !.created = now]
WithoutProgress(task) ==
    [AbsentTask EXCEPT !.present = TRUE,
                       !.created = IF task.present THEN task.created ELSE now]

(* Fields the runtime owns survive an edit, a new task starts without them. *)
RuntimeFields(task) ==
    IF task.present THEN task ELSE [AbsentTask EXCEPT !.present = TRUE, !.created = now]

Edited(task, form) ==
    LET edited == [RuntimeFields(task) EXCEPT
                      !.enabled = form.enabled, !.kind = form.kind,
                      !.accounts = form.accounts, !.windows = form.windows]
        unchanged == task.present /\ task.kind = form.kind /\ task.windows = form.windows
    IN  IF unchanged /\ task.nextRun # NoTime THEN edited
        ELSE [edited EXCEPT !.nextRun = NextRunAt(edited, accounts, now)]

saveTasks(e) ==
    /\ requests[e] # NoRequest
    /\ requests' = [requests EXCEPT ![e] = NoRequest]
    /\ IF phase = "stopOperations"
       THEN UNCHANGED <<state, history>>
       ELSE /\ tasks' = [t \in TaskID |-> IF t \in DOMAIN requests[e]
                                          THEN Edited(tasks[t], requests[e][t])
                                          ELSE AbsentTask]
            /\ persistSnapshot(tasks', accounts)
            /\ LET kept(h, none) == [t \in TaskID |->
                       IF tasks[t].present THEN h[t] ELSE [a \in Account |-> none]]
               IN  /\ attempted' = kept(attempted, NoTime)
                   /\ woken' = kept(woken, NoTime)
                   /\ failed' = kept(failed, NoFailure)
            /\ UNCHANGED accounts
    /\ UNCHANGED <<now, scan, run, startup, locks, lifecycle, passed>>

-----------------------------------------------------------------------------
(* Reconfiguration and crashes *)

Stop ==
    /\ phase = "up"
    /\ restarts < MaxRestarts
    /\ phase' = "stopWorker"
    /\ restarts' = restarts + 1
    /\ UNCHANGED <<now, state, scan, run, startup, locks, requests, passed, history>>

WorkerStopped ==
    /\ scan.pc = "off"
    /\ \A t \in TaskID : startup[t] = NoTime /\ run[t].pc = "none"

StopOperations ==
    /\ phase = "stopWorker"
    /\ WorkerStopped
    /\ phase' = "stopOperations"
    /\ UNCHANGED <<now, state, scan, run, startup, locks, requests, restarts, passed, history>>

(* The state is loaded from the file and a new worker starts.               *)
Load ==
    /\ accounts' = disk.accounts
    /\ tasks' = Loaded
    /\ scan' = [IdleScan EXCEPT !.first = TRUE]
    /\ startup' = Arm(Loaded)
    /\ phase' = "up"
    /\ UNCHANGED <<now, disk, passed, history>>

Configure ==
    /\ phase = "stopOperations"
    /\ \A m \in Manual : run[m].pc = "none"
    /\ Load
    /\ UNCHANGED <<run, locks, requests, restarts>>

(* The process dies and is started again; only the state file survives.     *)
Crash ==
    /\ restarts < MaxRestarts
    /\ restarts' = restarts + 1
    /\ Load
    /\ run' = [actor \in Actor |-> NoRun]
    /\ taskLocks' = [t \in TaskID |-> Free]
    /\ accountLocks' = [a \in Account |-> Free]
    /\ requests' = [e \in Editor |-> NoRequest]

-----------------------------------------------------------------------------
Scanning ==
    \/ StartScan
    \/ ListForRefresh
    \/ \E a \in Account : RefreshNext(a)
    \/ FinishRefresh
    \/ StartEvaluation
    \/ \E t \in TaskID : EvaluateTask(t)
    \/ EndScan

Running(actor) ==
    \/ LockTask(actor)
    \/ ListCandidates(actor)
    \/ \E a \in Account : StartAccount(actor, a)
    \/ FinishAccount(actor)
    \/ EndAccounts(actor)
    \/ FinishRun(actor)

Waking(m) ==
    \/ \E t \in TaskID, selection \in Selections : WakeTask(m, t, selection)
    \/ \E selection \in Selections : WakeAdHoc(m, selection)

Editing(e) ==
    \/ \E t \in TaskID, enabled \in BOOLEAN : toggleTask(e, t, enabled)
    \/ \E t \in TaskID : deleteTask(e, t)
    \/ \E t \in TaskID, form \in Forms : saveSingleTask(e, t, form)
    \/ \E forms \in BulkForms : bulkTasks(e, forms)
    \/ saveTasks(e)

Next ==
    \/ Tick
    \/ Scanning
    \/ \E t \in TaskID : FireStartup(t)
    \/ \E actor \in Actor : Running(actor)
    \/ \E m \in Manual : Waking(m)
    \/ \E e \in Editor : Editing(e)
    \/ Stop
    \/ StopOperations
    \/ Configure
    \/ Crash

Spec == Init /\ [][Next]_vars

-----------------------------------------------------------------------------
(* Properties *)

\* Every variable has its type.
TypeOK ==
    /\ now \in Nat
    /\ tasks \in [TaskID -> Task]
    /\ accounts \in [Account -> AccountState]
    /\ disk \in [tasks : [TaskID -> Task], accounts : [Account -> AccountState]]
    /\ scan \in Scan
    /\ run \in [Actor -> Run]
    /\ startup \in [TaskID -> Nat]
    /\ taskLocks \in [TaskID -> Actor \cup {Free}]
    /\ accountLocks \in [Account -> Actor \cup {Free}]
    /\ requests \in [Editor -> TaskForms \cup {NoRequest}]
    /\ phase \in {"up", "stopWorker", "stopOperations"}
    /\ restarts \in Nat
    /\ passed \in [Account -> [Window -> Nat]]
    /\ attempted \in [TaskID -> [Account -> Nat]]
    /\ woken \in [TaskID -> [Account -> Nat]]
    /\ failed \in [TaskID -> [Account -> Failure]]

UsesAccount(actor, a) ==
    \/ run[actor].pc = "request" /\ run[actor].at = a
    \/ actor = Worker /\ scan.pc = "query" /\ scan.at = a

\* No two actors talk to the services for the same account at once: usage
\* refreshes, scheduled, startup and manual wakes exclude each other, across
\* edits and reconfigurations (accountLock, TryLock in executeTask and in
\* refreshQuotaForTasks).
ExclusiveAccount ==
    \A a \in Account : \A x, y \in Actor :
        UsesAccount(x, a) /\ UsesAccount(y, a) => x = y

Holding == {"listing", "accounts", "request", "finish"}

\* Two runs of one task never overlap, whoever started them and even when the
\* task is deleted and created again meanwhile (taskLock in executeTask).
OneRunPerTask ==
    \A x, y \in Actor :
        /\ run[x].pc \in Holding /\ run[y].pc \in Holding
        /\ run[x].id = run[y].id /\ run[x].id # NoTask
        => x = y

\* A reset boundary that passed while it was stored stays visible to the tasks,
\* or is followed by a later boundary that has passed too: a refresh that rolls
\* the window forward or clears it does not lose it, nor does a restart
\* (rememberElapsedReset and the order of refreshAccountQuota's assignments).
NoResetForgotten ==
    \A a \in Account, w \in Window :
        passed[a][w] # NoTime =>
            \E r \in {accounts[a].reset[w], accounts[a].elapsed[w]} :
                passed[a][w] <= r /\ r <= now

\* A task consumes a boundary of an account it selects only by an attempt on
\* that account that started after the boundary's delay was over; a run that
\* skipped the account, failed to list or belongs to another task, a legacy
\* file or a restart consume nothing (markQuotaResetsHandledLocked).
ResetsAreConsumedByAttempts ==
    \A t \in TaskID, a \in Account : \A w \in tasks[t].windows :
        /\ tasks[t].present /\ tasks[t].kind = "quota_reset"
        /\ quotaTaskSelectsAccount(tasks[t], a)
        /\ passed[a][w] > tasks[t].created
        /\ passed[a][w] <= quotaAccountBaseline(tasks[t], a)
        => passed[a][w] + ResetDelay <= attempted[t][a]

Probing(actor) == run[actor].pc = "request" /\ run[actor].trigger = "quota_reset"

ProbedReset(actor) ==
    LET r == run[actor] IN LatestElapsed(tasks[r.id], r.at, accounts[r.at], r.started)

\* An account is not woken again for a boundary that an earlier run of the task
\* already answered with success, nor for no boundary at all once it was woken
\* (quotaDueAccounts, the recheck in executeTask and the handled map that
\* finishRun writes).
NoRepeatedWake ==
    \A actor \in Actor : Probing(actor) =>
        ProbedReset(actor) + ResetDelay > woken[run[actor].id][run[actor].at]

(* What README.md:121 promises of a boundary whose probe failed: 2, 4, 8, 16,  *)
(* then 30 minutes, and 30 minutes at once after a 401 or 403.                 *)
Backoff(failure) ==
    LET doubled == RefreshInterval * 2 ^ failure.repeats
    IN  IF ~failure.credential /\ doubled \in RefreshInterval .. MaximumBackoff
        THEN doubled ELSE MaximumBackoff

\* A probe that failed is repeated for the same boundary only after the backoff its
\* failures in a row call for, also across refreshes, scans, manual wakes and
\* reconfigurations (quotaDueReset, QuotaRetries and quotaRetryDelay).
RetriesAreSpaced ==
    \A actor \in Actor : Probing(actor) =>
        LET failure == failed[run[actor].id][run[actor].at]
        IN  \/ ProbedReset(actor) > failure.resetAt
            \/ run[actor].started >= failure.completed + Backoff(failure)

\* And no longer: a boundary the task has yet to answer is due again once the
\* backoff of its last failure is over, and at once when a later boundary has
\* passed since, whatever failed before it (the retry that
\* markQuotaResetsHandledLocked keeps, replaces and deletes).
RetriesComeDue ==
    \A t \in TaskID, a \in Account :
        LET due == LatestElapsed(tasks[t], a, accounts[a], now)
            failure == failed[t][a]
        IN  /\ IsQuotaTask(tasks[t])
            /\ quotaTaskSelectsAccount(tasks[t], a)
            /\ ~accounts[a].error
            /\ due > failure.resetAt \/ now >= failure.completed + Backoff(failure)
            => quotaDueReset(tasks[t], a, accounts[a], now) = due

\* No quota probe runs on stale quota data: the account's last refresh
\* succeeded (refreshAccountQuota never runs beside the worker's own runs).
ProbesAreFresh ==
    \A actor \in Actor : Probing(actor) => ~accounts[run[actor].at].error

(* finishRun writes the end of a run into the task that has its id then. A  *)
(* task created while a run of its deleted predecessor goes on gets an end   *)
(* from before its creation, unless this holds.                              *)
HasOwnRun(task) == task.lastRun # NoTime => task.created <= task.lastRun

\* What a task has consumed of an account it selects never moves back, through
\* runs, edits, reconfigurations and crashes, as long as it is the same task and
\* its last run is its own and the account has been seen.
CursorIsMonotone ==
    [][\A t \in TaskID, a \in Account :
          /\ tasks[t].present /\ tasks'[t].present
          /\ tasks[t].created = tasks'[t].created
          /\ HasOwnRun(tasks'[t])
          /\ quotaTaskSelectsAccount(tasks[t], a) /\ accounts[a].known
          => quotaAccountBaseline(tasks'[t], a) >= quotaAccountBaseline(tasks[t], a)]_vars

\* The state file never claims more progress than the process has made: after a
\* failed save and a crash a reset may be attempted again, never dropped
\* (Save, and the encoding of a nil and an empty handled map).
FileIsNeverAhead ==
    \A t \in TaskID, a \in Account :
        /\ tasks[t].present /\ disk.tasks[t].present
        /\ tasks[t].created = disk.tasks[t].created
        /\ quotaTaskSelectsAccount(tasks[t], a)
        /\ quotaTaskSelectsAccount(disk.tasks[t], a)
        => quotaAccountBaseline(disk.tasks[t], a) <= quotaAccountBaseline(tasks[t], a)

SavesList(e) ==
    /\ requests[e] # NoRequest
    /\ requests'[e] = NoRequest
    /\ restarts' = restarts

\* An edit stays in force until the next one: no run that was called with an older
\* copy of the task, no refresh, reconfiguration or crash brings back what it
\* changed or deleted, or takes away what it added (finishRun and
\* refreshAccountQuota write single fields of the saved task, and every edit in
\* force is in the file).
EditsStay ==
    [][\/ \E e \in Editor : SavesList(e)
       \/ \A t \in TaskID :
             /\ tasks'[t].present = tasks[t].present
             /\ tasks'[t].created = tasks[t].created
             /\ FormOf(tasks'[t]) = FormOf(tasks[t])]_vars

\* The worker decides to run an interval or calendar task only while the saved
\* task is there and enabled.
ScheduledCallsAreEnabled ==
    [][/\ run[Worker].pc = "none" /\ run'[Worker].pc = "lock"
       /\ run'[Worker].trigger = "schedule"
       => tasks[run'[Worker].id].present /\ tasks[run'[Worker].id].enabled]_vars

\* The worker runs an interval task again only a full interval after its last
\* run ended, and a calendar task only after a boundary of the calendar since
\* then, over scans, restarts and the extra run on start (Due, finishRun and
\* the snapshot runDue evaluates).
ScheduledRunsAreSpaced ==
    [][/\ run[Worker].pc = "lock" /\ run'[Worker].pc = "listing"
       /\ run[Worker].trigger = "schedule"
       => LET task == tasks[run[Worker].id]
          IN  CASE task.lastRun = NoTime -> TRUE
                [] task.lastRun # NoTime /\ task.kind = "interval" ->
                     now >= task.lastRun + TaskInterval
                [] task.lastRun # NoTime /\ task.kind = "calendar" ->
                     now \div Day > task.lastRun \div Day
                [] OTHER -> FALSE]_vars

-----------------------------------------------------------------------------
(* Fairness: the clock runs, goroutines are scheduled, and host calls return *)
(* (they time out). Requests of clients, crashes and stops are never owed.   *)
Fairness ==
    /\ WF_vars(Tick)
    /\ WF_vars(Scanning)
    /\ \A t \in TaskID : WF_vars(FireStartup(t))
    /\ \A actor \in Actor : WF_vars(Running(actor))
    /\ WF_vars(StopOperations)
    /\ WF_vars(Configure)

FairSpec == Spec /\ Fairness

PendingReset(t, a, w) ==
    /\ IsQuotaTask(tasks[t])
    /\ quotaTaskSelectsAccount(tasks[t], a)
    /\ w \in tasks[t].windows
    /\ passed[a][w] > quotaAccountBaseline(tasks[t], a)
    /\ passed[a][w] + ResetDelay <= MaxTime

\* Every boundary that passes while a quota task watches the account is answered
\* in the end, unless the account's refreshes fail from some time on: failing
\* refreshes, refreshes that replace the boundary and a startup run that holds the
\* account only delay it (runDue comes back to what an error or TryLock made it skip).
PendingIsServed ==
    \A t \in TaskID, a \in Account, w \in Window :
        PendingReset(t, a, w) ~> ~PendingReset(t, a, w) \/ []accounts[a].error
=============================================================================
