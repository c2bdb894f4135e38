--------------------------- MODULE WakeupProgress ---------------------------
(***************************************************************************)
(* The progress of the tasks of Wakeup, in memory and in the file, for     *)
(* every value of the constants: what each step may do to a task and to a  *)
(* run, that no record lies in the future, that the cursor of an account   *)
(* never moves back, that the file is never ahead of the process, and that *)
(* scheduled runs keep their distance.                                     *)
(***************************************************************************)
EXTENDS WakeupLocks

-----------------------------------------------------------------------------
(* What one step does to a task and to its copy in the file *)

(* Only the next occurrence differs.                                       *)
SameTask(new, old) == \E n \in Nat : new = [old EXCEPT !.nextRun = n]

(* An edit keeps the progress of a task that is there and starts a new one  *)
(* without any; the form decides the rest.                                  *)
EditOf(new, old) ==
    /\ new.present
    /\ IF old.present
       THEN /\ new.created = old.created /\ new.lastRun = old.lastRun
            /\ new.legacy = old.legacy /\ new.handled = old.handled
       ELSE /\ new.created = now /\ new.lastRun = NoTime
            /\ new.legacy /\ new.handled = [a \in Account |-> NoTime]

LEMMA SameTaskMeaning ==
    ASSUME NEW old \in Task, NEW new, SameTask(new, old)
    PROVE  /\ new.present = old.present /\ new.enabled = old.enabled
           /\ new.kind = old.kind /\ new.accounts = old.accounts
           /\ new.windows = old.windows /\ new.created = old.created
           /\ new.lastRun = old.lastRun /\ new.legacy = old.legacy
           /\ new.handled = old.handled /\ new.retries = old.retries
           /\ new \in Task
BY DEF SameTask, Task

LEMMA SameTaskItself == ASSUME NEW task \in Task PROVE SameTask(task, task)
<1>1. task = [task EXCEPT !.nextRun = task.nextRun] /\ task.nextRun \in Nat
    BY DEF Task
<1> QED
    BY <1>1 DEF SameTask

LEMMA EditedMeaning ==
    ASSUME TypeOK, NEW task \in Task, NEW form \in Form
    PROVE  /\ EditOf(Edited(task, form), task)
           /\ Edited(task, form).kind = form.kind
           /\ Edited(task, form).accounts = form.accounts
<1> DEFINE runtime == RuntimeFields(task)
           edited == [runtime EXCEPT !.enabled = form.enabled, !.kind = form.kind,
                                     !.accounts = form.accounts, !.windows = form.windows]
           moved == [edited EXCEPT !.nextRun = NextRunAt(edited, accounts, now)]
<1>1. /\ runtime \in Task /\ runtime.present
      /\ IF task.present
         THEN runtime = task
         ELSE /\ runtime.created = now /\ runtime.lastRun = NoTime
              /\ runtime.legacy /\ runtime.handled = [a \in Account |-> NoTime]
    <2>1. AbsentTask \in Task /\ now \in Nat
        BY ConstantTypes DEF TypeOK
    <2> QED
        BY <2>1 DEF RuntimeFields, Task, AbsentTask
<1> HIDE DEF runtime
<1>2. /\ edited \in Task
      /\ edited.present = runtime.present /\ edited.created = runtime.created
      /\ edited.lastRun = runtime.lastRun /\ edited.legacy = runtime.legacy
      /\ edited.handled = runtime.handled
      /\ edited.kind = form.kind /\ edited.accounts = form.accounts
    BY <1>1 DEF Task, Form
<1> HIDE DEF edited
<1>3. /\ moved.present = edited.present /\ moved.created = edited.created
      /\ moved.lastRun = edited.lastRun /\ moved.legacy = edited.legacy
      /\ moved.handled = edited.handled
      /\ moved.kind = edited.kind /\ moved.accounts = edited.accounts
    BY <1>2 DEF Task
<1>4. Edited(task, form) \in {edited, moved}
    BY DEF Edited, edited, runtime
<1> HIDE DEF moved
<1> QED
    BY <1>1, <1>2, <1>3, <1>4 DEF EditOf

(* The preview of a refresh, and loading.                                  *)
LEMMA RecomputedMeaning ==
    ASSUME NEW ts \in [TaskID -> Task], NEW accts \in [Account -> AccountState],
           NEW at \in Nat, NEW t \in TaskID
    PROVE  /\ SameTask(WithPreview(ts, accts, at)[t], ts[t])
           /\ SameTask(recomputeTaskNextRuns(ts, accts, at)[t], ts[t])
<1>1. quotaNextRunAt(ts[t], accts, at) \in Nat /\ NextRunAt(ts[t], accts, at) \in Nat
    BY NextRunAtType, NextRunType
<1>2. SameTask(ts[t], ts[t])
    BY SameTaskItself
<1> QED
    BY <1>1, <1>2 DEF SameTask, WithPreview, recomputeTaskNextRuns

(* What finishRun makes of its task, whatever its kind.                    *)
LEMMA FinishedKeeps ==
    ASSUME NEW task \in Task, NEW accts \in [Account -> AccountState], NEW r \in Run
    PROVE  LET new == Finished(task, accts, r)
           IN  /\ new.present = task.present /\ new.enabled = task.enabled
               /\ new.kind = task.kind /\ new.accounts = task.accounts
               /\ new.windows = task.windows /\ new.created = task.created
               /\ new.lastRun = r.completed
<1> DEFINE marked == IF task.kind = "quota_reset"
                     THEN markQuotaResetsHandled(task, accts, r.trigger, r.results, r.started,
                                                 r.completed)
                     ELSE task
           ran == [marked EXCEPT !.lastRun = r.completed]
           new == [ran EXCEPT !.nextRun = NextRunAt(ran, accts, r.completed)]
<1>1. r.started \in Nat /\ r.completed \in Nat
    BY DEF Run
<1>2. /\ marked \in Task
      /\ marked.present = task.present /\ marked.enabled = task.enabled
      /\ marked.kind = task.kind /\ marked.accounts = task.accounts
      /\ marked.windows = task.windows /\ marked.created = task.created
    <2>1. CASE task.kind = "quota_reset"
        <3> DEFINE m == markQuotaResetsHandled(task, accts, r.trigger, r.results, r.started,
                                               r.completed)
        <3>1. marked = m
            BY <2>1
        <3>2. m \in Task
            BY <1>1, MarkType
        <3>3. /\ m.present = task.present /\ m.enabled = task.enabled
              /\ m.kind = task.kind /\ m.accounts = task.accounts
              /\ m.windows = task.windows /\ m.created = task.created
            BY <1>1, MarkKeeps
        <3> HIDE DEF m, marked
        <3> QED
            BY <3>1, <3>2, <3>3
    <2>2. CASE task.kind # "quota_reset"
        BY <2>2
    <2> QED
        BY <2>1, <2>2
<1> HIDE DEF marked
<1>3. /\ new.present = marked.present /\ new.enabled = marked.enabled
      /\ new.kind = marked.kind /\ new.accounts = marked.accounts
      /\ new.windows = marked.windows /\ new.created = marked.created
      /\ new.lastRun = r.completed
    BY <1>2 DEF Task
<1>4. Finished(task, accts, r) = new
    BY DEF Finished, marked
<1> HIDE DEF new
<1> QED
    BY <1>2, <1>3, <1>4

LEMMA FinishedQuota ==
    ASSUME NEW task \in Task, NEW accts \in [Account -> AccountState], NEW r \in Run,
           task.kind = "quota_reset"
    PROVE  LET new == Finished(task, accts, r)
               marked == markQuotaResetsHandled(task, accts, r.trigger, r.results, r.started,
                                                r.completed)
           IN  ~new.legacy /\ new.handled = marked.handled /\ new.retries = marked.retries
<1> DEFINE marked == markQuotaResetsHandled(task, accts, r.trigger, r.results, r.started,
                                            r.completed)
           ran == [marked EXCEPT !.lastRun = r.completed]
           new == [ran EXCEPT !.nextRun = NextRunAt(ran, accts, r.completed)]
<1>1. r.started \in Nat /\ r.completed \in Nat
    BY DEF Run
<1>2. marked \in Task /\ ~marked.legacy
    BY <1>1, MarkType, MarkKeeps
<1>3. Finished(task, accts, r) = new
    BY DEF Finished
<1> HIDE DEF marked
<1>4. ~new.legacy /\ new.handled = marked.handled /\ new.retries = marked.retries
    BY <1>2 DEF Task
<1> QED
    BY <1>3, <1>4 DEF marked

LEMMA FinishedOther ==
    ASSUME NEW task \in Task, NEW accts \in [Account -> AccountState], NEW r \in Run,
           task.kind # "quota_reset"
    PROVE  LET new == Finished(task, accts, r)
           IN  /\ new.legacy = task.legacy /\ new.handled = task.handled
               /\ new.retries = task.retries
BY DEF Finished, Task

(* Whether the step has written the task to the file.                      *)
Stored(t) == SaveCanFail \/ disk'.tasks[t] = Encoded(tasks'[t])

(* A task changes by the end of a run of its id, by an edit or by loading;  *)
(* every other step at most moves its next occurrence.                      *)
TaskStep(t) ==
    \/ SameTask(tasks'[t], tasks[t])
    \/ /\ Stored(t)
       /\ \E actor \in Actor :
              /\ FinishRun(actor) /\ run[actor].id = t /\ tasks[t].present
              /\ tasks'[t] = Finished(tasks[t], accounts', run[actor])
    \/ /\ Stored(t)
       /\ \E e \in Editor :
              /\ saveTasks(e) /\ requests[e] \in TaskForms
              /\ tasks'[t] = IF t \in DOMAIN requests[e]
                             THEN Edited(tasks[t], requests[e][t]) ELSE AbsentTask
    \/ (Configure \/ Crash) /\ SameTask(tasks'[t], disk.tasks[t])

DiskStep(t) ==
    \/ disk'.tasks[t] = disk.tasks[t]
    \/ disk'.tasks[t] = Encoded(tasks'[t])

(* Only these steps write tasks or the file.                               *)
LEMMA OnlyThese ==
    ASSUME [Next]_vars
    PROVE  \/ UNCHANGED <<tasks, disk>>
           \/ FinishRefresh
           \/ \E actor \in Actor : FinishRun(actor)
           \/ \E e \in Editor : saveTasks(e)
           \/ Configure \/ Crash
<1>1. Scanning => FinishRefresh \/ UNCHANGED <<tasks, disk>>
    BY DEF Scanning, StartScan, ListForRefresh, RefreshNext, StartEvaluation, EvaluateTask,
           EndScan, state
<1>2. ASSUME NEW actor \in Actor, Running(actor)
      PROVE  FinishRun(actor) \/ UNCHANGED <<tasks, disk>>
    BY <1>2 DEF Running, LockTask, ListCandidates, StartAccount, FinishAccount, EndAccounts, state
<1>3. ASSUME NEW e \in Editor, Editing(e)
      PROVE  saveTasks(e) \/ UNCHANGED <<tasks, disk>>
    BY <1>3 DEF Editing, toggleTask, deleteTask, saveSingleTask, bulkTasks, Submit, state
<1>4. Tick \/ (\E t \in TaskID : FireStartup(t)) \/ (\E m \in Manual : Waking(m))
      \/ Stop \/ StopOperations \/ UNCHANGED vars
      => UNCHANGED <<tasks, disk>>
    BY DEF Tick, FireStartup, Waking, WakeTask, WakeAdHoc, Stop, StopOperations, state, vars
<1> QED
    BY <1>1, <1>2, <1>3, <1>4 DEF Next

LEMMA PersistSteps ==
    ASSUME NEW ts, NEW accts, persistSnapshot(ts, accts), NEW t \in TaskID
    PROVE  /\ SaveCanFail \/ disk'.tasks[t] = Encoded(ts[t])
           /\ disk'.tasks[t] = disk.tasks[t] \/ disk'.tasks[t] = Encoded(ts[t])
BY DEF persistSnapshot, Saved

LEMMA TaskSteps ==
    ASSUME TypeOK, [Next]_vars, NEW t \in TaskID
    PROVE  TaskStep(t) /\ DiskStep(t)
<1>1. /\ tasks \in [TaskID -> Task] /\ disk \in DiskType /\ now \in Nat
      /\ accounts \in [Account -> AccountState]
      /\ SameTask(tasks[t], tasks[t])
    BY SameTaskItself DEF TypeOK, DiskType
<1>2. ASSUME UNCHANGED <<tasks, disk>> PROVE TaskStep(t) /\ DiskStep(t)
    BY <1>1, <1>2 DEF TaskStep, DiskStep
<1>3. ASSUME FinishRefresh PROVE TaskStep(t) /\ DiskStep(t)
    <2>1. accounts' \in [Account -> AccountState] /\ scan.attempt \in Nat
        BY <1>3, FinishRefreshType DEF TypeOK, Scan
    <2>2. tasks' = WithPreview(tasks, accounts', scan.attempt) /\ persistSnapshot(tasks', accounts')
        BY <1>3 DEF FinishRefresh
    <2>3. SameTask(tasks'[t], tasks[t])
        BY <1>1, <2>1, <2>2, RecomputedMeaning
    <2> QED
        BY <2>2, <2>3, PersistSteps DEF TaskStep, DiskStep
<1>4. ASSUME NEW actor \in Actor, FinishRun(actor) PROVE TaskStep(t) /\ DiskStep(t)
    <2>1. /\ tasks'[t] = IF t = run[actor].id /\ tasks[t].present
                         THEN Finished(tasks[t], accounts', run[actor]) ELSE tasks[t]
          /\ persistSnapshot(tasks', accounts')
        BY <1>4 DEF FinishRun
    <2>2. Stored(t) /\ DiskStep(t)
        BY <2>1, PersistSteps DEF Stored, DiskStep
    <2> QED
        BY <1>1, <1>4, <2>1, <2>2 DEF TaskStep
<1>5. ASSUME NEW e \in Editor, saveTasks(e) PROVE TaskStep(t) /\ DiskStep(t)
    <2>1. CASE phase = "stopOperations"
        BY <1>2, <1>5, <2>1 DEF saveTasks, state
    <2>2. CASE phase # "stopOperations"
        <3>1. requests[e] \in TaskForms
            BY <1>5 DEF TypeOK, saveTasks
        <3>2. /\ tasks'[t] = IF t \in DOMAIN requests[e]
                             THEN Edited(tasks[t], requests[e][t]) ELSE AbsentTask
              /\ persistSnapshot(tasks', accounts)
            BY <1>5, <2>2 DEF saveTasks
        <3>3. Stored(t) /\ DiskStep(t)
            BY <3>2, PersistSteps DEF Stored, DiskStep
        <3> QED
            BY <1>5, <3>1, <3>2, <3>3 DEF TaskStep
    <2> QED
        BY <2>1, <2>2
<1>6. ASSUME Configure \/ Crash PROVE TaskStep(t) /\ DiskStep(t)
    <2>1. tasks' = Loaded /\ disk' = disk
        BY <1>6 DEF Configure, Crash, Load
    <2>2. SameTask(tasks'[t], disk.tasks[t])
        BY <1>1, <2>1, RecomputedMeaning DEF Loaded, DiskType
    <2> QED
        BY <1>6, <2>1, <2>2 DEF TaskStep, DiskStep
<1> QED
    BY <1>2, <1>3, <1>4, <1>5, <1>6, OnlyThese

-----------------------------------------------------------------------------
(* What one step does to a run *)

SameRun(new, old) ==
    new.id = old.id /\ new.trigger = old.trigger /\ new.started = old.started

(* A run starts when it has its lock, ends before it is recorded, and keeps *)
(* its task and its start in between.                                       *)
RunStep(x) ==
    \/ run'[x] = run[x]
    \/ run'[x].pc \in {"none", "lock"}
    \/ /\ LockTask(x)
       /\ run'[x].pc = "listing" /\ run'[x].started = now
       /\ run'[x].id = run[x].id /\ run'[x].trigger = run[x].trigger
    \/ /\ run[x].pc \in {"listing", "accounts", "request"} /\ run'[x].pc \in Holding
       /\ SameRun(run'[x], run[x])
       /\ run'[x].pc = "finish" => run'[x].completed = now

LEMMA LockTaskStep ==
    ASSUME TypeOK, NEW x \in Actor, LockTask(x)
    PROVE  RunStep(x)
<1> DEFINE next == [run[x] EXCEPT !.pc = "listing", !.started = now]
<1>1. run \in [Actor -> Run] /\ run[x] \in Run
    BY DEF TypeOK
<1>2. /\ next.pc = "listing" /\ next.started = now
      /\ next.id = run[x].id /\ next.trigger = run[x].trigger
    BY <1>1 DEF Run
<1>3. run'[x] = NoRun \/ run'[x] = next
    BY <1>1 DEF LockTask
<1>4. NoRun.pc = "none"
    BY DEF NoRun
<1> HIDE DEF next
<1> QED
    BY <1>2, <1>3, <1>4 DEF RunStep

LEMMA ListCandidatesStep ==
    ASSUME TypeOK, NEW x \in Actor, ListCandidates(x)
    PROVE  RunStep(x)
<1> DEFINE r == run[x]
           accountsOf(listing) == [r EXCEPT !.pc = "accounts", !.todo = Candidates(r, listing)]
           ended == [r EXCEPT !.pc = "finish", !.completed = now]
           finish == IF r.id = NoTask THEN NoRun ELSE ended
<1>1. run \in [Actor -> Run] /\ r \in Run /\ r.pc = "listing"
    BY DEF TypeOK, ListCandidates
<1>2. ended.pc = "finish" /\ SameRun(ended, r) /\ ended.completed = now
    BY <1>1 DEF Run, SameRun
<1>3. \A listing : accountsOf(listing).pc = "accounts" /\ SameRun(accountsOf(listing), r)
    BY <1>1 DEF Run, SameRun
<1>4. \E listing \in HostListings(x) :
          \E next \in {finish, NoRun, accountsOf(listing)} : run' = [run EXCEPT ![x] = next]
    <2> HIDE DEF NoRun
    <2> QED
        BY DEF ListCandidates
<1>5. NoRun.pc = "none"
    BY DEF NoRun
<1> HIDE DEF ended, accountsOf
<1>6. run'[x] \in {ended, NoRun} \/ \E listing : run'[x] = accountsOf(listing)
    BY <1>1, <1>4
<1> QED
    BY <1>1, <1>2, <1>3, <1>5, <1>6 DEF RunStep, Holding

LEMMA AccountsSteps ==
    ASSUME TypeOK, NEW x \in Actor,
           (\E a \in Account : StartAccount(x, a)) \/ FinishAccount(x) \/ EndAccounts(x)
    PROVE  RunStep(x)
<1>1. run \in [Actor -> Run] /\ run[x] \in Run
    BY DEF TypeOK
<1>2. ASSUME NEW a \in Account, StartAccount(x, a) PROVE RunStep(x)
    <2> DEFINE taken == [run[x] EXCEPT !.pc = "request", !.at = a, !.todo = @ \ {a}]
               skipped == [run[x] EXCEPT !.todo = @ \ {a}, !.results[a] = "skipped"]
    <2>1. taken.pc = "request" /\ SameRun(taken, run[x])
        BY <1>1 DEF Run, SameRun
    <2>2. skipped.pc = run[x].pc /\ SameRun(skipped, run[x])
        BY <1>1 DEF Run, SameRun
    <2>3. run'[x] = taken \/ run'[x] = skipped
        BY <1>1, <1>2 DEF StartAccount
    <2> HIDE DEF taken, skipped
    <2> QED
        BY <1>2, <2>1, <2>2, <2>3 DEF StartAccount, RunStep, Holding
<1>3. CASE FinishAccount(x)
    <2>1. PICK result : run' = [run EXCEPT ![x].pc = "accounts", ![x].at = NoAccount,
                                           ![x].results[run[x].at] = result]
        BY <1>3 DEF FinishAccount
    <2> DEFINE next == [run[x] EXCEPT !.pc = "accounts", !.at = NoAccount,
                                      !.results[run[x].at] = result]
    <2>2. next.pc = "accounts" /\ SameRun(next, run[x])
        BY <1>1 DEF Run, SameRun
    <2>3. run'[x] = next
        BY <1>1, <2>1
    <2> HIDE DEF next
    <2> QED
        BY <1>3, <2>2, <2>3 DEF FinishAccount, RunStep, Holding
<1>4. CASE EndAccounts(x)
    <2> DEFINE next == [run[x] EXCEPT !.pc = "finish", !.todo = {}, !.completed = now]
    <2>1. next.pc = "finish" /\ next.completed = now /\ SameRun(next, run[x])
        BY <1>1 DEF Run, SameRun
    <2>2. run'[x] = next
        BY <1>1, <1>4 DEF EndAccounts
    <2> HIDE DEF next
    <2> QED
        BY <1>4, <2>1, <2>2 DEF EndAccounts, RunStep, Holding
<1> QED
    BY <1>2, <1>3, <1>4

LEMMA RunSteps ==
    ASSUME TypeOK, [Next]_vars, NEW x \in Actor
    PROVE  RunStep(x)
<1>1. run \in [Actor -> Run]
    BY DEF TypeOK
<1>2. ASSUME NEW y, NEW next, run' = [run EXCEPT ![y] = next], next.pc = "lock"
      PROVE  RunStep(x)
    BY <1>1, <1>2 DEF RunStep
<1>3. \A task, t, trigger, selected : Called(task, t, trigger, selected).pc = "lock"
    BY DEF Called, NoRun
<1>4. ASSUME run' = run PROVE RunStep(x)
    BY <1>4 DEF RunStep
<1>5. ASSUME Scanning PROVE RunStep(x)
    <2>1. ASSUME NEW t \in TaskID, EvaluateTask(t) PROVE RunStep(x)
        <3> DEFINE task == scan.snapshot[t]
                   quota == Called(task, t, "quota_reset", DueLiveAccounts(task))
                   schedule == Called(task, t, "schedule", {})
        <3>1. run' \in {run, [run EXCEPT ![Worker] = quota], [run EXCEPT ![Worker] = schedule]}
            BY <2>1 DEF EvaluateTask
        <3>2. quota.pc = "lock" /\ schedule.pc = "lock"
            BY <1>3
        <3> HIDE DEF quota, schedule
        <3> QED
            BY <1>2, <1>4, <3>1, <3>2
    <2>2. ASSUME StartScan \/ ListForRefresh \/ (\E a \in Account : RefreshNext(a))
                 \/ FinishRefresh \/ StartEvaluation \/ EndScan
          PROVE  RunStep(x)
        BY <1>4, <2>2 DEF StartScan, ListForRefresh, RefreshNext, FinishRefresh,
                          StartEvaluation, EndScan
    <2> QED
        BY <1>5, <2>1, <2>2 DEF Scanning
<1>6. ASSUME NEW t \in TaskID, FireStartup(t) PROVE RunStep(x)
    BY <1>2, <1>3, <1>4, <1>6 DEF FireStartup
<1>7. ASSUME NEW m \in Manual, Waking(m) PROVE RunStep(x)
    <2>1. ASSUME NEW t \in TaskID, NEW selection \in Selections, WakeTask(m, t, selection)
          PROVE  RunStep(x)
        <3> DEFINE next == Called(tasks[t], t, "manual", selection)
        <3>1. run' = [run EXCEPT ![m] = next] /\ next.pc = "lock"
            BY <1>3, <2>1 DEF WakeTask
        <3> HIDE DEF next
        <3> QED
            BY <1>2, <3>1
    <2>2. ASSUME NEW selection \in Selections, WakeAdHoc(m, selection)
          PROVE  RunStep(x)
        <3> DEFINE next == [NoRun EXCEPT !.pc = "lock", !.trigger = "manual",
                                         !.selected = selection]
        <3>1. run' = [run EXCEPT ![m] = next] /\ next.pc = "lock"
            BY <2>2 DEF WakeAdHoc, NoRun
        <3> HIDE DEF next
        <3> QED
            BY <1>2, <3>1
    <2> QED
        BY <1>7, <2>1, <2>2 DEF Waking
<1>8. ASSUME NEW y \in Actor, Running(y) PROVE RunStep(x)
    <2>1. CASE y = x /\ ~FinishRun(y)
        BY <1>8, <2>1, LockTaskStep, ListCandidatesStep, AccountsSteps DEF Running
    <2>2. CASE FinishRun(y)
        <3>1. run' = [run EXCEPT ![y] = NoRun] /\ NoRun.pc = "none"
            BY <2>2 DEF FinishRun, NoRun
        <3> HIDE DEF NoRun
        <3> QED
            BY <1>1, <3>1 DEF RunStep
    <2>3. CASE y # x /\ ~FinishRun(y)
        <3>1. \E next : run' = [run EXCEPT ![y] = next]
            <4>1. CASE ListCandidates(y)
                BY <4>1, Listed
            <4>2. CASE ~ListCandidates(y)
                BY <1>8, <4>2, Moved DEF Running
            <4> QED
                BY <4>1, <4>2
        <3>2. run'[x] = run[x]
            BY <1>1, <2>3, <3>1
        <3> QED
            BY <3>2 DEF RunStep
    <2> QED
        BY <2>1, <2>2, <2>3
<1>9. ASSUME Tick \/ (\E e \in Editor : Editing(e)) \/ Stop \/ StopOperations \/ Configure
             \/ UNCHANGED vars
      PROVE  RunStep(x)
    BY <1>4, <1>9 DEF Tick, Editing, toggleTask, deleteTask, saveSingleTask, bulkTasks,
                      Submit, saveTasks, Stop, StopOperations, Configure, vars
<1>10. ASSUME Crash PROVE RunStep(x)
    BY <1>10 DEF Crash, NoRun, RunStep
<1> QED
    BY <1>5, <1>6, <1>7, <1>8, <1>9, <1>10 DEF Next

-----------------------------------------------------------------------------
(* Nothing lies in the future, and a run ends after the run before it.      *)
PastTask(task, at) ==
    /\ task.present => task.created \in 1 .. at
    /\ task.lastRun <= at
    /\ task.legacy => \A a \in Account : task.handled[a] = NoTime

EndsAfter(r, ts) == r.id \in TaskID => ts[r.id].lastRun <= r.completed

PastInv ==
    /\ LockInv
    /\ now >= 1
    /\ \A t \in TaskID : PastTask(tasks[t], now) /\ PastTask(disk.tasks[t], now)
    /\ \A x \in Actor : run[x].pc = "finish" =>
           /\ run[x].completed <= now
           /\ EndsAfter(run[x], tasks) /\ EndsAfter(run[x], disk.tasks)

LEMMA ClockSteps == ASSUME [Next]_vars PROVE now' = now \/ Tick
BY DEF Next, vars, Scanning, StartScan, ListForRefresh, RefreshNext, FinishRefresh, StartEvaluation,
       EvaluateTask, EndScan, FireStartup, Running, LockTask, ListCandidates, StartAccount,
       FinishAccount, EndAccounts, FinishRun, Waking, WakeTask, WakeAdHoc, Editing, toggleTask,
       deleteTask, saveSingleTask, bulkTasks, Submit, saveTasks, Stop, StopOperations, Configure,
       Crash, Load

(* The file keeps every field; an empty map loads as a missing one.         *)
LEMMA EncodedMeaning ==
    ASSUME NEW task \in Task
    PROVE  LET new == Encoded(task)
           IN  /\ new \in Task
               /\ new.present = task.present /\ new.enabled = task.enabled
               /\ new.kind = task.kind /\ new.accounts = task.accounts
               /\ new.windows = task.windows /\ new.created = task.created
               /\ new.lastRun = task.lastRun /\ new.nextRun = task.nextRun
               /\ new.handled = task.handled /\ new.retries = task.retries
               /\ new.legacy <=> \A a \in Account : task.handled[a] = NoTime
BY DEF Encoded, Task

LEMMA PastSame ==
    ASSUME NEW old \in Task, NEW new, NEW at, PastTask(old, at),
           SameTask(new, old) \/ new = Encoded(old)
    PROVE  PastTask(new, at)
<1>1. CASE SameTask(new, old)
    BY <1>1, SameTaskMeaning DEF PastTask
<1>2. CASE new = Encoded(old)
    BY <1>2, EncodedMeaning DEF PastTask
<1> QED
    BY <1>1, <1>2

LEMMA PastLater ==
    ASSUME NEW task \in Task, NEW at \in Nat, NEW later \in Nat, at <= later, PastTask(task, at)
    PROVE  PastTask(task, later)
BY DEF PastTask, Task

LEMMA PastFinished ==
    ASSUME NEW task \in Task, NEW accts \in [Account -> AccountState], NEW r \in Run,
           NEW at, PastTask(task, at), r.completed <= at
    PROVE  PastTask(Finished(task, accts, r), at)
<1> DEFINE new == Finished(task, accts, r)
<1>1. new.present = task.present /\ new.created = task.created /\ new.lastRun = r.completed
    BY FinishedKeeps
<1>2. CASE task.kind = "quota_reset"
    <2>1. ~new.legacy
        BY <1>2, FinishedQuota
    <2> HIDE DEF new
    <2>2. PastTask(new, at)
        BY <1>1, <2>1 DEF PastTask
    <2> QED
        BY <2>2 DEF new
<1>3. CASE task.kind # "quota_reset"
    <2>1. new.legacy = task.legacy /\ new.handled = task.handled
        BY <1>3, FinishedOther
    <2> HIDE DEF new
    <2>2. PastTask(new, at)
        BY <1>1, <2>1 DEF PastTask
    <2> QED
        BY <2>2 DEF new
<1> QED
    BY <1>2, <1>3

LEMMA PastEdited ==
    ASSUME TypeOK, now >= 1, NEW old \in Task, NEW new, PastTask(old, now),
           EditOf(new, old) \/ new = AbsentTask
    PROVE  PastTask(new, now)
<1>1. now \in Nat
    BY DEF TypeOK
<1>2. CASE EditOf(new, old)
    BY <1>1, <1>2 DEF EditOf, PastTask, NoTime
<1>3. CASE new = AbsentTask
    BY <1>1, <1>3 DEF AbsentTask, PastTask, NoTime
<1> QED
    BY <1>2, <1>3

LEMMA PastTaskStep ==
    ASSUME PastInv, [Next]_vars, NEW t \in TaskID
    PROVE  PastTask(tasks'[t], now) /\ PastTask(disk'.tasks[t], now)
<1>1. /\ TypeOK /\ now >= 1 /\ tasks[t] \in Task /\ disk.tasks[t] \in Task
      /\ PastTask(tasks[t], now) /\ PastTask(disk.tasks[t], now)
      /\ run \in [Actor -> Run]
    BY DEF PastInv, LockInv, TypeOK
<1>2. TypeOK' /\ tasks'[t] \in Task /\ accounts' \in [Account -> AccountState]
    <2>1. TypeOK'
        BY LocksKept DEF PastInv, LockInv
    <2> QED
        BY <2>1 DEF TypeOK
<1>3. TaskStep(t) /\ DiskStep(t)
    BY <1>1, TaskSteps
<1>4. PastTask(tasks'[t], now)
    <2>1. CASE SameTask(tasks'[t], tasks[t]) \/ SameTask(tasks'[t], disk.tasks[t])
        BY <1>1, <2>1, PastSame
    <2>2. ASSUME NEW actor \in Actor, FinishRun(actor),
                 tasks'[t] = Finished(tasks[t], accounts', run[actor])
          PROVE  PastTask(tasks'[t], now)
        <3>1. run[actor] \in Run /\ run[actor].completed <= now
            BY <1>1, <2>2 DEF PastInv, FinishRun
        <3> QED
            BY <1>1, <1>2, <2>2, <3>1, PastFinished
    <2>3. ASSUME NEW e \in Editor, requests[e] \in TaskForms,
                 tasks'[t] = IF t \in DOMAIN requests[e]
                             THEN Edited(tasks[t], requests[e][t]) ELSE AbsentTask
          PROVE  PastTask(tasks'[t], now)
        <3>1. t \in DOMAIN requests[e] => requests[e][t] \in Form
            BY <2>3 DEF TaskForms
        <3>2. EditOf(tasks'[t], tasks[t]) \/ tasks'[t] = AbsentTask
            BY <1>1, <2>3, <3>1, EditedMeaning
        <3> QED
            BY <1>1, <3>2, PastEdited
    <2> QED
        BY <1>3, <2>1, <2>2, <2>3 DEF TaskStep
<1> QED
    BY <1>1, <1>2, <1>3, <1>4, PastSame DEF DiskStep

(* While a run is about to be recorded no other run of its task is.         *)
LEMMA EndsStep ==
    ASSUME PastInv, [Next]_vars, NEW x \in Actor, run'[x].pc = "finish"
    PROVE  /\ run'[x].completed <= now
           /\ EndsAfter(run'[x], tasks') /\ EndsAfter(run'[x], disk'.tasks)
<1>1. TypeOK /\ run \in [Actor -> Run] /\ run[x] \in Run /\ now \in Nat
      /\ \A t \in TaskID : tasks[t] \in Task /\ disk.tasks[t] \in Task
    BY DEF PastInv, LockInv, TypeOK
<1>2. /\ run'[x] \in Run
      /\ \A t \in TaskID : tasks'[t] \in Task /\ disk'.tasks[t] \in Task
    <2>1. TypeOK'
        BY LocksKept DEF PastInv, LockInv
    <2> QED
        BY <2>1 DEF TypeOK
<1>3. RunStep(x)
    BY <1>1, RunSteps
<1>4. CASE run'[x] = run[x]
    <2>1. /\ run[x].completed <= now
          /\ EndsAfter(run[x], tasks) /\ EndsAfter(run[x], disk.tasks)
        BY <1>4 DEF PastInv
    <2>2. ASSUME run[x].id \in TaskID
          PROVE  /\ tasks'[run[x].id].lastRun <= run[x].completed
                 /\ disk'.tasks[run[x].id].lastRun <= run[x].completed
        <3> DEFINE t == run[x].id
        <3>1. /\ tasks[t].lastRun <= run[x].completed /\ disk.tasks[t].lastRun <= run[x].completed
              /\ tasks[t] \in Task /\ disk.tasks[t] \in Task /\ tasks'[t] \in Task
            BY <1>1, <1>2, <2>1, <2>2 DEF EndsAfter
        <3>2. TaskStep(t) /\ DiskStep(t)
            BY <1>1, <2>2, TaskSteps
        <3>3. ASSUME NEW actor \in Actor, FinishRun(actor), run[actor].id = t PROVE FALSE
            <4>1. actor = x
                BY <1>4, <2>2, <3>3, WakeupAssumption DEF PastInv, LockInv, TasksHeld, Holding, FinishRun
            <4>2. run'[x].pc = "none"
                BY <1>1, <3>3, <4>1 DEF FinishRun, NoRun
            <4> QED
                BY <4>2
        <3>4. ASSUME NEW e \in Editor, requests[e] \in TaskForms,
                     tasks'[t] = IF t \in DOMAIN requests[e]
                                 THEN Edited(tasks[t], requests[e][t]) ELSE AbsentTask
              PROVE  tasks'[t].lastRun \in {tasks[t].lastRun, NoTime}
            <4>1. t \in DOMAIN requests[e] => requests[e][t] \in Form
                BY <3>4 DEF TaskForms
            <4>2. EditOf(tasks'[t], tasks[t]) \/ tasks'[t] = AbsentTask
                BY <1>1, <2>2, <3>4, <4>1, EditedMeaning
            <4> QED
                BY <4>2 DEF EditOf, AbsentTask
        <3>5. tasks'[t].lastRun \in {tasks[t].lastRun, disk.tasks[t].lastRun, NoTime}
            BY <3>1, <3>2, <3>3, <3>4, SameTaskMeaning DEF TaskStep
        <3>6. disk'.tasks[t].lastRun \in {disk.tasks[t].lastRun, tasks'[t].lastRun}
            BY <3>1, <3>2, EncodedMeaning DEF DiskStep
        <3>7. run[x].completed \in Nat
            BY <1>1 DEF Run
        <3> HIDE DEF t
        <3>8. tasks'[t].lastRun <= run[x].completed /\ disk'.tasks[t].lastRun <= run[x].completed
            BY <3>1, <3>5, <3>6, <3>7 DEF NoTime
        <3> QED
            BY <3>8 DEF t
    <2> QED
        BY <1>4, <2>1, <2>2 DEF EndsAfter
<1>5. CASE run'[x].completed = now
    <2>1. \A t \in TaskID : tasks'[t].lastRun <= now /\ disk'.tasks[t].lastRun <= now
        BY PastTaskStep DEF PastTask
    <2> QED
        BY <1>1, <1>5, <2>1 DEF EndsAfter
<1> QED
    BY <1>3, <1>4, <1>5 DEF RunStep

LEMMA PastKept == ASSUME PastInv, [Next]_vars PROVE PastInv'
<1>1. LockInv' /\ now \in Nat /\ now' \in Nat /\ run' \in [Actor -> Run]
      /\ \A t \in TaskID : tasks'[t] \in Task /\ disk'.tasks[t] \in Task
    <2>1. LockInv'
        BY LocksKept DEF PastInv
    <2> QED
        BY <2>1 DEF PastInv, LockInv, TypeOK
<1>2. now <= now'
    BY <1>1, ClockSteps DEF Tick
<1>3. \A t \in TaskID : PastTask(tasks'[t], now') /\ PastTask(disk'.tasks[t], now')
    BY <1>1, <1>2, PastTaskStep, PastLater
<1>4. ASSUME NEW x \in Actor, run'[x].pc = "finish"
      PROVE  /\ run'[x].completed <= now'
             /\ EndsAfter(run'[x], tasks') /\ EndsAfter(run'[x], disk'.tasks)
    <2>1. run'[x].completed \in Nat
        BY <1>1 DEF Run
    <2> QED
        BY <1>1, <1>2, <1>4, <2>1, EndsStep
<1> QED
    BY <1>1, <1>2, <1>3, <1>4 DEF PastInv

LEMMA InitPast == ASSUME Init PROVE PastInv
<1>1. LockInv /\ now = 1 /\ tasks = Loaded
      /\ \A x \in Actor : run[x].pc = "none"
    BY InitLocks DEF Init, NoRun
<1>2. accounts \in [Account -> AccountState] /\ disk.accounts \in [Account -> AccountState]
      /\ disk.tasks \in [TaskID -> Task]
    BY <1>1 DEF LockInv, TypeOK
<1>3. PICK ts \in InitTasks : disk = Saved(ts, accounts)
    BY DEF Init
<1>4. ASSUME NEW t \in TaskID PROVE PastTask(tasks[t], now) /\ PastTask(disk.tasks[t], now)
    <2>1. ts[t] \in Task /\ FromThePast(ts[t])
        BY <1>3, InputAssumption
    <2>2. disk.tasks[t] = Encoded(ts[t])
        BY <1>3 DEF Saved
    <2>3. PastTask(disk.tasks[t], now)
        BY <1>1, <2>1, <2>2, EncodedMeaning DEF FromThePast, PastTask
    <2>4. SameTask(tasks[t], disk.tasks[t])
        BY <1>1, <1>2, RecomputedMeaning DEF Loaded
    <2> QED
        BY <1>2, <2>3, <2>4, PastSame
<1> QED
    BY <1>1, <1>4 DEF PastInv

\* Nothing a task or the file records lies in the future, a missing map of
\* handled resets stands for an empty one, and the end of a run is never
\* written over a later one, through edits, failed saves, reconfigurations and
\* crashes (taskLock covers executeTask from the listing to finishRun).
THEOREM NothingLiesAhead == Spec => []PastInv
BY InitPast, PastKept, PTL DEF Spec

-----------------------------------------------------------------------------
(* The cursor of a task: how far it has consumed the resets of an account   *)

(* The end of a quota run moves the baseline to the boundary it answers, or *)
(* keeps both for a retry.                                                  *)
LEMMA FinishedBaseline ==
    ASSUME NEW task \in Task, NEW accts \in [Account -> AccountState], NEW r \in Run,
           NEW a \in Account, Covers(task, accts, a), task.kind = "quota_reset"
    PROVE  LET new == Finished(task, accts, r)
               due == Answer(task, accts, r.results, r.started, a)
           IN  /\ quotaAccountBaseline(new, a) =
                      IF due # NoTime /\ ~KeepForRetry(r.trigger, r.results[a])
                      THEN due ELSE quotaAccountBaseline(task, a)
               /\ new.retries[a] =
                      IF due = NoTime THEN task.retries[a]
                      ELSE IF KeepForRetry(r.trigger, r.results[a])
                           THEN NextRetry(task.retries[a], due, r.results[a], r.completed)
                           ELSE NoRetry
<1> DEFINE marked == markQuotaResetsHandled(task, accts, r.trigger, r.results, r.started,
                                            r.completed)
           new == Finished(task, accts, r)
<1>1. r.started \in Nat /\ r.completed \in Nat
    BY DEF Run
<1>2. ~marked.legacy /\ marked.created = task.created
    BY <1>1, MarkKeeps
<1>3. ~new.legacy /\ new.created = task.created
      /\ new.handled = marked.handled /\ new.retries = marked.retries
    BY FinishedKeeps, FinishedQuota
<1>4. quotaAccountBaseline(new, a) = quotaAccountBaseline(marked, a)
    <2> HIDE DEF marked, new
    <2> QED
        BY <1>2, <1>3 DEF quotaAccountBaseline
<1> QED
    BY <1>1, <1>3, <1>4, MarkBaseline

LEMMA FinishedMonotone ==
    ASSUME NEW task \in Task, NEW accts \in [Account -> AccountState], NEW r \in Run,
           NEW a \in Account, task.lastRun <= r.completed,
           task.kind = "quota_reset" => Covers(task, accts, a),
           task.kind # "quota_reset" => HasOwnRun(Finished(task, accts, r))
    PROVE  quotaAccountBaseline(Finished(task, accts, r), a) >= quotaAccountBaseline(task, a)
<1> DEFINE new == Finished(task, accts, r)
           due == Answer(task, accts, r.results, r.started, a)
<1>1. quotaAccountBaseline(task, a) \in Nat /\ r.started \in Nat /\ accts[a] \in AccountState
    BY BaselineType DEF Run
<1>2. CASE task.kind = "quota_reset"
    <2>1. \/ quotaAccountBaseline(new, a) = quotaAccountBaseline(task, a)
          \/ due # NoTime /\ quotaAccountBaseline(new, a) = due
        BY <1>2, FinishedBaseline
    <2>2. due # NoTime => due \in Nat /\ due > quotaAccountBaseline(task, a)
        BY <1>1, LatestElapsedMeaning DEF Answer
    <2> HIDE DEF new, due
    <2>3. quotaAccountBaseline(new, a) >= quotaAccountBaseline(task, a)
        BY <1>1, <2>1, <2>2
    <2> QED
        BY <2>3 DEF new
<1>3. CASE task.kind # "quota_reset"
    <2>1. /\ new.created = task.created /\ new.lastRun = r.completed
          /\ new.legacy = task.legacy /\ new.handled = task.handled
          /\ HasOwnRun(new)
        BY <1>3, FinishedKeeps, FinishedOther
    <2>2. task.lastRun \in Nat /\ task.created \in Nat /\ r.completed \in Nat
        BY DEF Task, Run
    <2> HIDE DEF new
    <2>3. quotaAccountBaseline(new, a) >= quotaAccountBaseline(task, a)
        BY <1>1, <2>1, <2>2 DEF quotaAccountBaseline, HasOwnRun, NoTime
    <2> QED
        BY <2>3 DEF new
<1> QED
    BY <1>2, <1>3

(* A copy differs from its task only in the next occurrence and in how it   *)
(* says that nothing was handled.                                           *)
Mirrors(copy, task) ==
    /\ copy.present = task.present /\ copy.enabled = task.enabled
    /\ copy.kind = task.kind /\ copy.accounts = task.accounts
    /\ copy.windows = task.windows /\ copy.created = task.created
    /\ copy.lastRun = task.lastRun
    /\ copy.handled = task.handled /\ copy.retries = task.retries
    /\ copy.legacy <=> \A a \in Account : task.handled[a] = NoTime

MirrorInv == PastInv /\ \A t \in TaskID : Mirrors(disk.tasks[t], tasks[t])

LEMMA MirrorSame ==
    ASSUME NEW copy \in Task, NEW old \in Task, NEW new, Mirrors(copy, old),
           SameTask(new, old) \/ SameTask(new, copy)
    PROVE  Mirrors(copy, new)
<1>1. CASE SameTask(new, old)
    BY <1>1, SameTaskMeaning DEF Mirrors
<1>2. CASE SameTask(new, copy)
    BY <1>2, SameTaskMeaning DEF Mirrors
<1> QED
    BY <1>1, <1>2

LEMMA MirrorKept ==
    ASSUME SaveCanFail = FALSE, MirrorInv, [Next]_vars
    PROVE  MirrorInv'
<1>1. PastInv'
    BY PastKept DEF MirrorInv
<1>2. ASSUME NEW t \in TaskID PROVE Mirrors(disk'.tasks[t], tasks'[t])
    <2>1. /\ TypeOK /\ tasks[t] \in Task /\ disk.tasks[t] \in Task /\ tasks'[t] \in Task
          /\ Mirrors(disk.tasks[t], tasks[t])
        BY <1>1 DEF MirrorInv, PastInv, LockInv, TypeOK
    <2>2. TaskStep(t) /\ DiskStep(t)
        BY <2>1, TaskSteps
    <2>3. CASE disk'.tasks[t] = Encoded(tasks'[t])
        BY <2>1, <2>3, EncodedMeaning DEF Mirrors
    <2>4. CASE disk'.tasks[t] = disk.tasks[t] /\ disk'.tasks[t] # Encoded(tasks'[t])
        <3>1. SameTask(tasks'[t], tasks[t]) \/ SameTask(tasks'[t], disk.tasks[t])
            BY <2>2, <2>4 DEF TaskStep, Stored
        <3> QED
            BY <2>1, <2>4, <3>1, MirrorSame
    <2> QED
        BY <2>2, <2>3, <2>4 DEF DiskStep
<1> QED
    BY <1>1, <1>2 DEF MirrorInv

LEMMA InitMirror == ASSUME Init PROVE MirrorInv
<1>1. PastInv /\ tasks = Loaded
    BY InitPast DEF Init
<1>2. /\ disk.accounts \in [Account -> AccountState] /\ disk.tasks \in [TaskID -> Task]
      /\ now \in Nat
    BY <1>1 DEF PastInv, LockInv, TypeOK
<1>3. PICK ts \in InitTasks : disk = Saved(ts, accounts)
    BY DEF Init
<1>4. ASSUME NEW t \in TaskID PROVE Mirrors(disk.tasks[t], tasks[t])
    <2>1. ts[t] \in Task /\ disk.tasks[t] = Encoded(ts[t])
        BY <1>3, InputAssumption DEF Saved
    <2>2. Mirrors(disk.tasks[t], disk.tasks[t])
        BY <2>1, EncodedMeaning DEF Mirrors
    <2>3. SameTask(tasks[t], disk.tasks[t])
        BY <1>1, <1>2, RecomputedMeaning DEF Loaded
    <2> QED
        BY <1>2, <2>2, <2>3, MirrorSame
<1> QED
    BY <1>1, <1>4 DEF MirrorInv

\* An edit stays in force until the next one, while saves succeed: runs,
\* refreshes, reconfigurations and crashes bring back no older copy of a task
\* (finishRun, refreshAccountQuota and persistSnapshot).
THEOREM EditsStayInForce == ASSUME SaveCanFail = FALSE PROVE Spec => EditsStay
<1> DEFINE Same(t) == /\ tasks'[t].present = tasks[t].present
                      /\ tasks'[t].created = tasks[t].created
                      /\ FormOf(tasks'[t]) = FormOf(tasks[t])
           Step == (\E e \in Editor : SavesList(e)) \/ \A t \in TaskID : Same(t)
<1>1. ASSUME MirrorInv, [Next]_vars, ~(\E e \in Editor : SavesList(e)), NEW t \in TaskID
      PROVE  Same(t)
    <2>1. /\ TypeOK /\ tasks[t] \in Task /\ disk.tasks[t] \in Task
          /\ Mirrors(disk.tasks[t], tasks[t])
        BY <1>1 DEF MirrorInv, PastInv, LockInv, TypeOK
    <2>2. TaskStep(t)
        BY <1>1, <2>1, TaskSteps
    <2>3. CASE SameTask(tasks'[t], tasks[t])
        BY <2>1, <2>3, SameTaskMeaning DEF FormOf
    <2>4. ASSUME NEW actor \in Actor, FinishRun(actor),
                 tasks'[t] = Finished(tasks[t], accounts', run[actor])
          PROVE  Same(t)
        <3>1. accounts' \in [Account -> AccountState] /\ run[actor] \in Run
            BY <1>1, <2>1, MirrorKept DEF MirrorInv, PastInv, LockInv, TypeOK
        <3> QED
            BY <2>1, <2>4, <3>1, FinishedKeeps DEF FormOf
    <2>5. ASSUME NEW e \in Editor, saveTasks(e) PROVE FALSE
        <3>1. SavesList(e)
            BY <2>1, <2>5 DEF saveTasks, SavesList, lifecycle, TypeOK
        <3> QED
            BY <1>1, <3>1
    <2>6. CASE SameTask(tasks'[t], disk.tasks[t])
        BY <2>1, <2>6, SameTaskMeaning DEF Mirrors, FormOf
    <2> QED
        BY <2>2, <2>3, <2>4, <2>5, <2>6 DEF TaskStep
<1>2. MirrorInv /\ [Next]_vars => [Step]_vars
    BY <1>1
<1>3. MirrorInv /\ [Next]_vars => MirrorInv'
    BY MirrorKept
<1> QED
    BY <1>2, <1>3, InitMirror, PTL DEF Spec, EditsStay

(* Accounts stay known.                                                    *)
LEMMA AccountsStayKnown ==
    ASSUME NEW r
    PROVE  \A a \in Account : accounts \in [Account -> AccountState] /\ accounts[a].known
                                  => WithResults(accounts, r)[a].known
BY DEF WithResults, AccountState

LEMMA FinishKeepsCursor ==
    ASSUME PastInv, NEW actor \in Actor, FinishRun(actor),
           NEW t \in TaskID, run[actor].id = t, TypeOK',
           tasks'[t] = Finished(tasks[t], accounts', run[actor]),
           NEW a \in Account,
           tasks[t].kind = "quota_reset" => Covers(tasks[t], accounts, a),
           tasks[t].kind # "quota_reset" => HasOwnRun(tasks'[t])
    PROVE  quotaAccountBaseline(tasks'[t], a) >= quotaAccountBaseline(tasks[t], a)
<1>1. /\ tasks[t] \in Task /\ accounts \in [Account -> AccountState]
      /\ accounts' \in [Account -> AccountState]
      /\ run[actor] \in Run
    BY DEF PastInv, LockInv, TypeOK
<1>2. tasks[t].lastRun <= run[actor].completed
    BY DEF PastInv, EndsAfter, FinishRun
<1>3. accounts[a].known => accounts'[a].known
    <2>1. accounts' = WithResults(accounts, run[actor])
        BY DEF FinishRun
    <2> QED
        BY <1>1, <2>1, AccountsStayKnown
<1>4. tasks[t].kind = "quota_reset" => Covers(tasks[t], accounts', a)
    BY <1>3 DEF Covers
<1> QED
    BY <1>1, <1>2, <1>4, FinishedMonotone

(* One step, for a task that stays the one it was: it still has the id it   *)
(* was created with and its last run is its own.                           *)
LEMMA CursorStep ==
    ASSUME MirrorInv, [Next]_vars, NEW t \in TaskID, NEW a \in Account,
           tasks[t].present, tasks'[t].present,
           tasks[t].created = tasks'[t].created, HasOwnRun(tasks'[t]),
           quotaTaskSelectsAccount(tasks[t], a), accounts[a].known
    PROVE  quotaAccountBaseline(tasks'[t], a) >= quotaAccountBaseline(tasks[t], a)
<1>1. /\ TypeOK /\ PastInv /\ TypeOK'
    BY PastKept DEF MirrorInv, PastInv, LockInv
<1>2. tasks[t] \in Task /\ tasks'[t] \in Task /\ disk.tasks[t] \in Task
      /\ quotaAccountBaseline(tasks[t], a) \in Nat
    <2>1. tasks[t] \in Task /\ tasks'[t] \in Task /\ disk.tasks[t] \in Task
        BY <1>1 DEF TypeOK
    <2> QED
        BY <2>1, BaselineType
<1>3. CASE SameTask(tasks'[t], tasks[t])
    BY <1>2, <1>3, SameTaskMeaning, SameProgress
<1>4. ASSUME NEW actor \in Actor, FinishRun(actor), run[actor].id = t,
             tasks'[t] = Finished(tasks[t], accounts', run[actor])
      PROVE  quotaAccountBaseline(tasks'[t], a) >= quotaAccountBaseline(tasks[t], a)
    BY <1>1, <1>4, FinishKeepsCursor DEF Covers, quotaTaskSelectsAccount
<1>5. ASSUME NEW e \in Editor, requests[e] \in TaskForms,
             tasks'[t] = IF t \in DOMAIN requests[e]
                         THEN Edited(tasks[t], requests[e][t]) ELSE AbsentTask
      PROVE  quotaAccountBaseline(tasks'[t], a) >= quotaAccountBaseline(tasks[t], a)
    <2>1. t \in DOMAIN requests[e]
        BY <1>5 DEF AbsentTask
    <2>2. requests[e][t] \in Form
        BY <1>5, <2>1 DEF TaskForms
    <2>3. EditOf(tasks'[t], tasks[t])
        BY <1>1, <1>2, <1>5, <2>1, <2>2, EditedMeaning
    <2> QED
        BY <1>2, <2>3, SameProgress DEF EditOf
<1>6. CASE SameTask(tasks'[t], disk.tasks[t])
    <2>1. Mirrors(disk.tasks[t], tasks[t]) /\ PastTask(tasks[t], now)
        BY DEF MirrorInv, PastInv
    <2>2. /\ tasks'[t].created = tasks[t].created /\ tasks'[t].lastRun = tasks[t].lastRun
          /\ tasks'[t].handled = tasks[t].handled
          /\ tasks'[t].legacy <=> \A b \in Account : tasks[t].handled[b] = NoTime
        BY <1>2, <1>6, <2>1, SameTaskMeaning DEF Mirrors
    <2>3. CASE tasks'[t].legacy /\ ~tasks[t].legacy
        <3>1. tasks[t].handled[a] = NoTime
            BY <2>2, <2>3
        <3> QED
            BY <1>2, <2>2, <2>3, <3>1 DEF quotaAccountBaseline, HasOwnRun, Task
    <2>4. CASE tasks'[t].legacy <=> tasks[t].legacy
        BY <1>2, <2>2, <2>4 DEF quotaAccountBaseline, Task
    <2>5. CASE ~tasks'[t].legacy /\ tasks[t].legacy
        BY <2>1, <2>2, <2>5 DEF PastTask
    <2> QED
        BY <2>3, <2>4, <2>5
<1>7. TaskStep(t)
    BY <1>1, TaskSteps
<1> QED
    BY <1>3, <1>4, <1>5, <1>6, <1>7 DEF TaskStep

\* What a task has consumed of an account never moves back, through runs of any
\* kind, edits, refreshes, reconfigurations and crashes: a run moves it to a
\* boundary ahead of it (markQuotaResetsHandledLocked), and what loads from the
\* file is what was in memory. It takes a file that can be written: after a
\* failed save and a crash an older cursor is all there is.
THEOREM CursorMovesForward ==
    ASSUME SaveCanFail = FALSE
    PROVE  Spec => CursorIsMonotone
<1> DEFINE Forward ==
        \A t \in TaskID, a \in Account :
            /\ tasks[t].present /\ tasks'[t].present
            /\ tasks[t].created = tasks'[t].created
            /\ HasOwnRun(tasks'[t])
            /\ quotaTaskSelectsAccount(tasks[t], a) /\ accounts[a].known
            => quotaAccountBaseline(tasks'[t], a) >= quotaAccountBaseline(tasks[t], a)
<1>1. MirrorInv /\ [Next]_vars => [Forward]_vars
    BY CursorStep
<1>2. ASSUME MirrorInv, [Next]_vars PROVE MirrorInv'
    BY <1>2, MirrorKept
<1> HIDE DEF Forward
<1>3. Spec => [][Forward]_vars
    BY <1>1, <1>2, InitMirror, PTL DEF Spec
<1> QED
    BY <1>3 DEF Forward, CursorIsMonotone

-----------------------------------------------------------------------------
(* The forms that wait to be saved *)

FormsIn(forms, Good) == \A t \in DOMAIN forms : forms[t] \in Good

(* Requests are built from the tasks that are there and from what clients   *)
(* send, so what holds of all those forms holds of the requests.            *)
LEMMA RequestsStay ==
    ASSUME TypeOK, [Next]_vars, NEW e \in Editor, NEW Good \in SUBSET Form,
           \A form \in Good, enabled \in BOOLEAN : [form EXCEPT !.enabled = enabled] \in Good,
           \A form \in Forms : form.accounts # {} => form \in Good,
           \A forms \in BulkForms : FormsIn(forms, Good),
           \A t \in TaskID : tasks[t].present => FormOf(tasks[t]) \in Good,
           requests[e] # NoRequest => FormsIn(requests[e], Good)
    PROVE  requests'[e] # NoRequest => FormsIn(requests'[e], Good)
<1> DEFINE Fine == requests'[e] # NoRequest => FormsIn(requests'[e], Good)
<1> SUFFICES Fine
    OBVIOUS
<1>1. requests \in [Editor -> TaskForms \cup {NoRequest}]
    BY DEF TypeOK
<1>2. ASSUME requests' = requests PROVE Fine
    BY <1>2
<1>3. ASSUME NEW x, NEW forms, requests' = [requests EXCEPT ![x] = forms],
             forms = NoRequest \/ FormsIn(forms, Good)
      PROVE  Fine
    BY <1>1, <1>3
<1>4. /\ \A t \in DOMAIN CurrentForms : CurrentForms[t] \in Good
      /\ DOMAIN CurrentForms = {u \in TaskID : tasks[u].present}
    BY DEF CurrentForms
<1>5. ASSUME NEW x \in Editor, Editing(x) PROVE Fine
    <2>1. ASSUME NEW t \in TaskID, NEW enabled \in BOOLEAN, toggleTask(x, t, enabled) PROVE Fine
        <3> DEFINE forms == [CurrentForms EXCEPT ![t].enabled = enabled]
        <3>1. DOMAIN forms = DOMAIN CurrentForms
              /\ \A u \in DOMAIN forms :
                    forms[u] = IF u = t THEN [CurrentForms[u] EXCEPT !.enabled = enabled]
                                        ELSE CurrentForms[u]
            BY DEF CurrentForms
        <3>2. FormsIn(forms, Good)
            <4> HIDE DEF forms
            <4> QED
                BY <1>4, <3>1 DEF FormsIn
        <3>3. requests' = [requests EXCEPT ![x] = forms]
            BY <2>1 DEF toggleTask, Submit
        <3> HIDE DEF forms
        <3> QED
            BY <1>3, <3>2, <3>3
    <2>2. ASSUME NEW t \in TaskID, deleteTask(x, t) PROVE Fine
        <3> DEFINE forms == [u \in DOMAIN CurrentForms \ {t} |-> CurrentForms[u]]
        <3>1. FormsIn(forms, Good)
            BY <1>4 DEF FormsIn
        <3>2. requests' = [requests EXCEPT ![x] = forms]
            BY <2>2 DEF deleteTask, Submit
        <3> HIDE DEF forms
        <3> QED
            BY <1>3, <3>1, <3>2
    <2>3. ASSUME NEW t \in TaskID, NEW form \in Forms, saveSingleTask(x, t, form) PROVE Fine
        <3> DEFINE forms == [u \in DOMAIN CurrentForms \cup {t} |->
                                IF u = t THEN form ELSE CurrentForms[u]]
        <3>1. form \in Good
            BY <2>3 DEF saveSingleTask
        <3>2. FormsIn(forms, Good)
            BY <1>4, <3>1 DEF FormsIn
        <3>3. requests' = [requests EXCEPT ![x] = forms]
            BY <2>3 DEF saveSingleTask, Submit
        <3> HIDE DEF forms
        <3> QED
            BY <1>3, <3>2, <3>3
    <2>4. ASSUME NEW forms \in BulkForms, bulkTasks(x, forms) PROVE Fine
        BY <1>3, <2>4 DEF bulkTasks, Submit
    <2>5. ASSUME saveTasks(x) PROVE Fine
        BY <1>3, <2>5 DEF saveTasks
    <2> QED
        BY <1>5, <2>1, <2>2, <2>3, <2>4, <2>5 DEF Editing
<1>6. ASSUME Crash PROVE Fine
    BY <1>6 DEF Crash
<1>7. ASSUME Tick \/ Scanning \/ (\E t \in TaskID : FireStartup(t)) \/ Stop \/ StopOperations
             \/ Configure \/ UNCHANGED vars
      PROVE  Fine
    BY <1>2, <1>7 DEF Tick, Scanning, StartScan, ListForRefresh, RefreshNext, FinishRefresh,
                      StartEvaluation, EvaluateTask, EndScan, FireStartup, Stop,
                      StopOperations, Configure, vars
<1>8. ASSUME (\E x \in Actor : Running(x)) \/ (\E m \in Manual : Waking(m)) PROVE Fine
    BY <1>2, <1>8 DEF Running, LockTask, ListCandidates, StartAccount, FinishAccount,
                      EndAccounts, FinishRun, Waking, WakeTask, WakeAdHoc
<1> QED
    BY <1>5, <1>6, <1>7, <1>8 DEF Next

-----------------------------------------------------------------------------
(* Tasks that name their accounts, as saving a single task requires         *)

NamedForm == {form \in Form : form.accounts # {}}

AccountsAreNamed ==
    /\ \A ts \in InitTasks : \A t \in TaskID : ts[t].present => ts[t].accounts # {}
    /\ \A forms \in BulkForms : FormsIn(forms, NamedForm)

(* A map of handled resets that is there has an entry, so the file tells it *)
(* from a missing one.                                                      *)
Explicit(task) == task.legacy <=> \A a \in Account : task.handled[a] = NoTime

NamedTask(task) == Explicit(task) /\ (task.present => task.accounts # {})

NamedInv ==
    /\ PastInv
    /\ \A t \in TaskID : NamedTask(tasks[t]) /\ NamedTask(disk.tasks[t])
    /\ \A e \in Editor : requests[e] # NoRequest => FormsIn(requests[e], NamedForm)

LEMMA NamedSame ==
    ASSUME NEW old \in Task, NEW new, NamedTask(old), SameTask(new, old) \/ new = Encoded(old)
    PROVE  NamedTask(new)
<1>1. CASE SameTask(new, old)
    BY <1>1, SameTaskMeaning DEF NamedTask, Explicit
<1>2. CASE new = Encoded(old)
    BY <1>2, EncodedMeaning DEF NamedTask, Explicit
<1> QED
    BY <1>1, <1>2

(* The end of a run keeps an entry, or writes the first ones.              *)
LEMMA NamedFinished ==
    ASSUME NEW task \in Task, NEW accts \in [Account -> AccountState], NEW r \in Run,
           task.present, task.created # NoTime, NamedTask(task)
    PROVE  NamedTask(Finished(task, accts, r))
<1> DEFINE new == Finished(task, accts, r)
           base == InitHandled(task, accts)
<1>1. new.present /\ new.accounts = task.accounts
    BY FinishedKeeps
<1>2. CASE task.kind # "quota_reset"
    <2>1. new.legacy = task.legacy /\ new.handled = task.handled
        BY <1>2, FinishedOther
    <2> HIDE DEF new
    <2>2. NamedTask(new)
        BY <1>1, <2>1 DEF NamedTask, Explicit
    <2> QED
        BY <2>2 DEF new
<1>3. CASE task.kind = "quota_reset"
    <2>1. PICK a \in Account : base.handled[a] # NoTime
        <3>1. CASE ~task.legacy
            BY <3>1 DEF NamedTask, Explicit, InitHandled
        <3>2. CASE task.legacy
            <4>1. PICK a \in task.accounts : TRUE
                BY DEF NamedTask
            <4>2. a \in Account
                BY DEF Task
            <4>3. quotaAccountBaseline(task, a) # NoTime
                BY <3>2 DEF quotaAccountBaseline
            <4>4. base = [task EXCEPT
                             !.legacy = FALSE,
                             !.handled = [b \in Account |->
                                 IF b \in task.accounts
                                    \/ (accts[b].known /\ task.accounts = {})
                                 THEN quotaAccountBaseline(task, b) ELSE NoTime]]
                BY <3>2 DEF InitHandled
            <4>5. base.handled[a] = quotaAccountBaseline(task, a)
                BY <4>2, <4>4 DEF Task
            <4> QED
                BY <4>2, <4>3, <4>5
        <3> QED
            BY <3>1, <3>2
    <2> DEFINE marked == markQuotaResetsHandled(task, accts, r.trigger, r.results, r.started,
                                                r.completed)
    <2>2. r.started \in Nat /\ r.completed \in Nat
        BY DEF Run
    <2>3. marked.handled[a] # NoTime
        <3> HIDE DEF base
        <3>1. \E due : marked.handled[a] =
                  IF due # NoTime /\ ~KeepForRetry(r.trigger, r.results[a])
                  THEN due ELSE base.handled[a]
            BY <2>2, MarkMeaning DEF base
        <3> HIDE DEF marked
        <3> QED
            BY <2>1, <3>1
    <2>4. ~new.legacy /\ new.handled = marked.handled
        BY <1>3, FinishedQuota
    <2> HIDE DEF new, marked
    <2>5. NamedTask(new)
        BY <1>1, <2>1, <2>3, <2>4 DEF NamedTask, Explicit
    <2> QED
        BY <2>5 DEF new
<1> QED
    BY <1>2, <1>3

LEMMA NamedEdited ==
    ASSUME TypeOK, NEW task \in Task, NEW form \in NamedForm, NamedTask(task)
    PROVE  NamedTask(Edited(task, form))
<1> DEFINE new == Edited(task, form)
<1>1. EditOf(new, task) /\ new.accounts # {}
    BY EditedMeaning DEF NamedForm
<1> HIDE DEF new
<1>2. NamedTask(new)
    BY <1>1 DEF EditOf, NamedTask, Explicit
<1> QED
    BY <1>2 DEF new

LEMMA NamedTaskStep ==
    ASSUME NamedInv, [Next]_vars, NEW t \in TaskID
    PROVE  NamedTask(tasks'[t]) /\ NamedTask(disk'.tasks[t])
<1>1. /\ TypeOK /\ PastInv /\ tasks[t] \in Task /\ disk.tasks[t] \in Task
      /\ NamedTask(tasks[t]) /\ NamedTask(disk.tasks[t]) /\ PastTask(tasks[t], now)
      /\ run \in [Actor -> Run]
    BY DEF NamedInv, PastInv, LockInv, TypeOK
<1>2. tasks'[t] \in Task /\ accounts' \in [Account -> AccountState]
    <2>1. TypeOK'
        BY <1>1, PastKept DEF PastInv, LockInv
    <2> QED
        BY <2>1 DEF TypeOK
<1>3. TaskStep(t) /\ DiskStep(t)
    BY <1>1, TaskSteps
<1>4. NamedTask(tasks'[t])
    <2>1. CASE SameTask(tasks'[t], tasks[t]) \/ SameTask(tasks'[t], disk.tasks[t])
        BY <1>1, <2>1, NamedSame
    <2>2. ASSUME NEW actor \in Actor, tasks[t].present,
                 tasks'[t] = Finished(tasks[t], accounts', run[actor])
          PROVE  NamedTask(tasks'[t])
        <3>1. tasks[t].created # NoTime /\ run[actor] \in Run
            BY <1>1, <2>2 DEF PastTask, NoTime
        <3> QED
            BY <1>1, <1>2, <2>2, <3>1, NamedFinished
    <2>3. ASSUME NEW e \in Editor, requests[e] \in TaskForms, saveTasks(e),
                 tasks'[t] = IF t \in DOMAIN requests[e]
                             THEN Edited(tasks[t], requests[e][t]) ELSE AbsentTask
          PROVE  NamedTask(tasks'[t])
        <3>1. FormsIn(requests[e], NamedForm)
            BY <2>3 DEF NamedInv, saveTasks
        <3>2. CASE t \in DOMAIN requests[e]
            BY <1>1, <2>3, <3>1, <3>2, NamedEdited DEF FormsIn
        <3>3. CASE t \notin DOMAIN requests[e]
            BY <2>3, <3>3 DEF NamedTask, Explicit, AbsentTask
        <3> QED
            BY <3>2, <3>3
    <2> QED
        BY <1>3, <2>1, <2>2, <2>3 DEF TaskStep
<1> QED
    BY <1>1, <1>2, <1>3, <1>4, NamedSame DEF DiskStep

LEMMA NamedKept ==
    ASSUME AccountsAreNamed, NamedInv, [Next]_vars
    PROVE  NamedInv'
<1>1. TypeOK /\ PastInv'
    BY PastKept DEF NamedInv, PastInv, LockInv
<1>2. \A form \in NamedForm, enabled \in BOOLEAN : [form EXCEPT !.enabled = enabled] \in NamedForm
    BY DEF NamedForm, Form
<1>3. \A form \in Forms : form.accounts # {} => form \in NamedForm
    BY InputAssumption DEF NamedForm
<1>4. \A t \in TaskID : tasks[t].present => FormOf(tasks[t]) \in NamedForm
    BY <1>1 DEF NamedInv, NamedTask, TypeOK, Task, FormOf, NamedForm, Form
<1>5. ASSUME NEW e \in Editor
      PROVE  requests'[e] # NoRequest => FormsIn(requests'[e], NamedForm)
    <2>1. NamedForm \in SUBSET Form
        BY DEF NamedForm
    <2>2. requests[e] # NoRequest => FormsIn(requests[e], NamedForm)
        BY DEF NamedInv
    <2> QED
        BY <1>1, <1>2, <1>3, <1>4, <2>1, <2>2, RequestsStay DEF AccountsAreNamed
<1> QED
    BY <1>1, <1>5, NamedTaskStep DEF NamedInv

LEMMA InitNamed ==
    ASSUME AccountsAreNamed, Init
    PROVE  NamedInv
<1>1. PastInv /\ tasks = Loaded /\ \A e \in Editor : requests[e] = NoRequest
    BY InitPast DEF Init
<1>2. /\ disk.accounts \in [Account -> AccountState] /\ disk.tasks \in [TaskID -> Task]
      /\ now \in Nat
    BY <1>1 DEF PastInv, LockInv, TypeOK
<1>3. PICK ts \in InitTasks : disk = Saved(ts, accounts)
    BY DEF Init
<1>4. ASSUME NEW t \in TaskID PROVE NamedTask(tasks[t]) /\ NamedTask(disk.tasks[t])
    <2>1. ts[t] \in Task /\ disk.tasks[t] = Encoded(ts[t]) /\ (ts[t].present => ts[t].accounts # {})
        BY <1>3, InputAssumption DEF Saved, AccountsAreNamed
    <2>2. NamedTask(disk.tasks[t])
        BY <2>1, EncodedMeaning DEF NamedTask, Explicit
    <2>3. SameTask(tasks[t], disk.tasks[t])
        BY <1>1, <1>2, RecomputedMeaning DEF Loaded
    <2> QED
        BY <1>2, <2>2, <2>3, NamedSame
<1> QED
    BY <1>1, <1>4 DEF NamedInv

(* Without edits the file holds an earlier state of every task.            *)
Behind(copy, task) ==
    /\ copy.present = task.present /\ copy.kind = task.kind
    /\ copy.accounts = task.accounts /\ copy.created = task.created
    /\ task.present => task.created = 1
    /\ copy.lastRun <= task.lastRun
    /\ \A a \in task.accounts : quotaAccountBaseline(copy, a) <= quotaAccountBaseline(task, a)

BehindInv == NamedInv /\ \A t \in TaskID : Behind(disk.tasks[t], tasks[t])

LEMMA EncodedBaseline ==
    ASSUME NEW task \in Task, NEW a \in Account, Explicit(task)
    PROVE  quotaAccountBaseline(Encoded(task), a) = quotaAccountBaseline(task, a)
<1>1. /\ Encoded(task) \in Task /\ Encoded(task).legacy = task.legacy
      /\ Encoded(task).lastRun = task.lastRun /\ Encoded(task).created = task.created
      /\ Encoded(task).handled = task.handled
    BY EncodedMeaning DEF Explicit, Task
<1> QED
    BY <1>1, SameProgress

LEMMA BehindItself ==
    ASSUME NEW task \in Task, NEW copy \in Task, Explicit(task),
           SameTask(copy, task) \/ SameTask(task, copy) \/ copy = Encoded(task),
           task.present => task.created = 1
    PROVE  Behind(copy, task)
<1>1. \A a \in task.accounts : a \in Account /\ quotaAccountBaseline(task, a) \in Nat
    BY BaselineType DEF Task
<1>2. task.lastRun \in Nat
    BY DEF Task
<1>3. CASE SameTask(copy, task) \/ SameTask(task, copy)
    BY <1>1, <1>2, <1>3, SameTaskMeaning, SameProgress DEF Behind
<1>4. CASE copy = Encoded(task)
    BY <1>1, <1>2, <1>4, EncodedMeaning, EncodedBaseline DEF Behind
<1> QED
    BY <1>3, <1>4

LEMMA BehindFinished ==
    ASSUME NEW copy \in Task, NEW task \in Task, NEW r \in Run,
           NEW accts \in [Account -> AccountState],
           Behind(copy, task), task.present, task.lastRun <= r.completed
    PROVE  Behind(copy, Finished(task, accts, r))
<1> DEFINE new == Finished(task, accts, r)
<1>1. /\ new.present = task.present /\ new.kind = task.kind /\ new.accounts = task.accounts
      /\ new.created = task.created /\ new.lastRun = r.completed
    BY FinishedKeeps
<1>2. task.lastRun \in Nat /\ copy.lastRun \in Nat /\ r.completed \in Nat
    BY DEF Task, Run
<1>3. HasOwnRun(new)
    <2> HIDE DEF new
    <2> QED
        BY <1>1, <1>2 DEF Behind, HasOwnRun, NoTime
<1>4. ASSUME NEW a \in task.accounts
      PROVE  quotaAccountBaseline(copy, a) <= quotaAccountBaseline(new, a)
    <2>1. a \in Account /\ Covers(task, accts, a) /\ new \in Task
        BY FinishedType DEF Task, Covers
    <2>2. quotaAccountBaseline(new, a) >= quotaAccountBaseline(task, a)
        BY <1>2, <1>3, <2>1, FinishedMonotone
    <2>3. /\ quotaAccountBaseline(copy, a) \in Nat /\ quotaAccountBaseline(task, a) \in Nat
          /\ quotaAccountBaseline(new, a) \in Nat
        BY <2>1, BaselineType
    <2> HIDE DEF new
    <2> QED
        BY <2>2, <2>3 DEF Behind
<1> HIDE DEF new
<1>5. Behind(copy, new)
    BY <1>1, <1>2, <1>4 DEF Behind
<1> QED
    BY <1>5 DEF new

LEMMA BehindKept ==
    ASSUME AccountsAreNamed, Editor = {}, BehindInv, [Next]_vars
    PROVE  BehindInv'
<1>1. NamedInv /\ NamedInv' /\ TypeOK /\ TypeOK' /\ PastInv
    BY NamedKept DEF BehindInv, NamedInv, PastInv, LockInv
<1>2. ASSUME NEW t \in TaskID PROVE Behind(disk'.tasks[t], tasks'[t])
    <2>1. /\ tasks[t] \in Task /\ tasks'[t] \in Task
          /\ disk.tasks[t] \in Task /\ disk'.tasks[t] \in Task
          /\ accounts' \in [Account -> AccountState] /\ run \in [Actor -> Run]
        BY <1>1 DEF TypeOK
    <2>2. Explicit(tasks[t]) /\ Explicit(tasks'[t]) /\ Explicit(disk.tasks[t])
          /\ Behind(disk.tasks[t], tasks[t])
        BY <1>1 DEF BehindInv, NamedInv, NamedTask
    <2>3. TaskStep(t) /\ DiskStep(t)
        BY <1>1, TaskSteps
    <2>4. Behind(disk.tasks[t], tasks'[t])
        <3>1. CASE SameTask(tasks'[t], tasks[t])
            <4>1. tasks'[t].present = tasks[t].present /\ tasks'[t].kind = tasks[t].kind
                  /\ tasks'[t].accounts = tasks[t].accounts
                  /\ tasks'[t].created = tasks[t].created /\ tasks'[t].lastRun = tasks[t].lastRun
                  /\ \A a \in Account : quotaAccountBaseline(tasks'[t], a)
                                            = quotaAccountBaseline(tasks[t], a)
                BY <2>1, <3>1, SameTaskMeaning, SameProgress
            <4>2. tasks[t].accounts \subseteq Account
                BY <2>1 DEF Task
            <4> QED
                BY <2>2, <4>1, <4>2 DEF Behind
        <3>2. ASSUME NEW actor \in Actor, FinishRun(actor), run[actor].id = t, tasks[t].present,
                     tasks'[t] = Finished(tasks[t], accounts', run[actor])
              PROVE  Behind(disk.tasks[t], tasks'[t])
            <4>1. tasks[t].lastRun <= run[actor].completed
                BY <1>1, <3>2 DEF PastInv, EndsAfter, FinishRun
            <4> QED
                BY <2>1, <2>2, <3>2, <4>1, BehindFinished
        <3>3. CASE SameTask(tasks'[t], disk.tasks[t])
            <4>1. tasks'[t].present => tasks'[t].created = 1
                BY <2>1, <2>2, <3>3, SameTaskMeaning DEF Behind
            <4> QED
                BY <2>1, <2>2, <3>3, <4>1, BehindItself
        <3> QED
            BY <2>3, <3>1, <3>2, <3>3 DEF TaskStep
    <2>5. CASE disk'.tasks[t] = Encoded(tasks'[t])
        BY <2>1, <2>2, <2>4, <2>5, BehindItself DEF Behind
    <2> QED
        BY <2>3, <2>4, <2>5 DEF DiskStep
<1> QED
    BY <1>1, <1>2 DEF BehindInv

LEMMA InitBehind ==
    ASSUME AccountsAreNamed, Init
    PROVE  BehindInv
<1>1. NamedInv /\ TypeOK /\ tasks = Loaded
    BY InitNamed DEF Init, NamedInv, PastInv, LockInv
<1>2. /\ disk.accounts \in [Account -> AccountState] /\ disk.tasks \in [TaskID -> Task]
      /\ now \in Nat /\ tasks \in [TaskID -> Task]
    BY <1>1 DEF TypeOK
<1>3. PICK ts \in InitTasks : disk = Saved(ts, accounts)
    BY DEF Init
<1>4. ASSUME NEW t \in TaskID PROVE Behind(disk.tasks[t], tasks[t])
    <2>1. ts[t] \in Task /\ FromThePast(ts[t]) /\ disk.tasks[t] = Encoded(ts[t])
        BY <1>3, InputAssumption DEF Saved
    <2>2. SameTask(tasks[t], disk.tasks[t])
        BY <1>1, <1>2, RecomputedMeaning DEF Loaded
    <2>3. tasks[t].present => tasks[t].created = 1
        BY <1>2, <2>1, <2>2, EncodedMeaning, SameTaskMeaning DEF FromThePast
    <2>4. Explicit(tasks[t])
        BY <1>1 DEF NamedInv, NamedTask
    <2> QED
        BY <1>2, <2>2, <2>3, <2>4, BehindItself
<1> QED
    BY <1>1, <1>4 DEF BehindInv

\* The state file never claims more progress than the process has made, as long
\* as its tasks name their accounts: after failed saves and crashes an older
\* cursor loads, never a newer one (persist, and the encoding of a nil and an
\* empty handled map).  With edits the file must be writable: a run that ends
\* while an account is not selected writes a map without it, and a file that
\* still has no map takes the last run for the baseline of all accounts.
THEOREM FileStaysBehind ==
    ASSUME AccountsAreNamed, Editor = {} \/ SaveCanFail = FALSE
    PROVE  Spec => []FileIsNeverAhead
<1>1. CASE Editor = {}
    <2>1. BehindInv => FileIsNeverAhead
        <3> SUFFICES ASSUME BehindInv, NEW t \in TaskID, NEW a \in Account,
                            tasks[t].present, quotaTaskSelectsAccount(tasks[t], a)
                     PROVE  quotaAccountBaseline(disk.tasks[t], a)
                                <= quotaAccountBaseline(tasks[t], a)
            BY DEF FileIsNeverAhead
        <3>1. a \in tasks[t].accounts
            BY DEF BehindInv, NamedInv, NamedTask, quotaTaskSelectsAccount
        <3> QED
            BY <3>1 DEF BehindInv, Behind
    <2> QED
        BY <1>1, <2>1, InitBehind, BehindKept, PTL DEF Spec
<1>2. CASE SaveCanFail = FALSE
    <2>1. NamedInv /\ MirrorInv => FileIsNeverAhead
        <3> SUFFICES ASSUME NamedInv, MirrorInv, NEW t \in TaskID, NEW a \in Account
                     PROVE  quotaAccountBaseline(disk.tasks[t], a)
                                <= quotaAccountBaseline(tasks[t], a)
            BY DEF FileIsNeverAhead
        <3>1. /\ tasks[t] \in Task /\ disk.tasks[t] \in Task /\ Mirrors(disk.tasks[t], tasks[t])
              /\ Explicit(tasks[t])
            BY DEF MirrorInv, PastInv, LockInv, TypeOK, NamedInv, NamedTask
        <3>2. disk.tasks[t].legacy = tasks[t].legacy
            BY <3>1 DEF Mirrors, Explicit, Task
        <3>3. quotaAccountBaseline(disk.tasks[t], a) = quotaAccountBaseline(tasks[t], a)
            BY <3>1, <3>2, SameProgress DEF Mirrors
        <3> QED
            BY <3>1, <3>3, BaselineType
    <2> QED
        BY <1>2, <2>1, InitNamed, NamedKept, InitMirror, MirrorKept, PTL DEF Spec
<1> QED
    BY <1>1, <1>2
-----------------------------------------------------------------------------
(* Who calls executeTask, and with which copy of a task *)

AdHoc(selection) == [NoRun EXCEPT !.pc = "lock", !.trigger = "manual", !.selected = selection]

CallOf(x, r) ==
    \/ x \in Manual /\ r.trigger = "manual"
    \/ x = Worker /\ r.trigger = "quota_reset" /\ r.id \in TaskID /\ EvaluateTask(r.id)
    \/ /\ x = Worker /\ r.trigger = "schedule" /\ r.id \in TaskID /\ EvaluateTask(r.id)
       /\ LET task == scan.snapshot[r.id]
          IN  /\ task.present /\ task.kind \in {"interval", "calendar"}
              /\ Due(task, now, scan.first /\ RunOnStart)
    \/ /\ x = r.id /\ r.trigger = "startup" /\ r.id \in TaskID /\ FireStartup(r.id)
       /\ tasks[r.id].kind = "startup"

LEMMA CallSteps ==
    ASSUME TypeOK, [Next]_vars, NEW x \in Actor
    PROVE  run'[x] = run[x] \/ run'[x].pc # "lock" \/ CallOf(x, run'[x])
<1> DEFINE Goal == run'[x] = run[x] \/ run'[x].pc # "lock" \/ CallOf(x, run'[x])
<1>1. run \in [Actor -> Run]
    BY DEF TypeOK
<1>2. ASSUME NEW y, NEW next, run' = [run EXCEPT ![y] = next],
             next.pc # "lock" \/ CallOf(y, next)
      PROVE  Goal
    BY <1>1, <1>2
<1>3. ASSUME run' = run PROVE Goal
    BY <1>3
<1>4. \A task, t, trigger, selected :
          LET r == Called(task, t, trigger, selected) IN r.id = t /\ r.trigger = trigger
    BY DEF Called, NoRun
<1> HIDE DEF Goal
<1>5. ASSUME Scanning PROVE Goal
    <2>1. ASSUME NEW t \in TaskID, EvaluateTask(t) PROVE Goal
        <3> DEFINE task == scan.snapshot[t]
                   quota == Called(task, t, "quota_reset", DueLiveAccounts(task))
                   schedule == Called(task, t, "schedule", {})
                   due == /\ task.present /\ task.kind \in {"interval", "calendar"}
                          /\ Due(task, now, scan.first /\ RunOnStart)
        <3>1. \/ run' = run
              \/ run' = [run EXCEPT ![Worker] = quota]
              \/ run' = [run EXCEPT ![Worker] = schedule] /\ due
            BY <2>1 DEF EvaluateTask
        <3>2. /\ quota.id = t /\ quota.trigger = "quota_reset"
              /\ schedule.id = t /\ schedule.trigger = "schedule"
            BY <1>4
        <3> HIDE DEF quota, schedule
        <3>3. CallOf(Worker, quota)
            BY <2>1, <3>2 DEF CallOf
        <3>4. due => CallOf(Worker, schedule)
            BY <2>1, <3>2 DEF CallOf
        <3> QED
            BY <1>2, <1>3, <3>1, <3>3, <3>4
    <2>2. StartScan => run' = run
        BY DEF StartScan
    <2>3. ListForRefresh => run' = run
        BY DEF ListForRefresh
    <2>4. (\E a \in Account : RefreshNext(a)) => run' = run
        BY DEF RefreshNext
    <2>5. FinishRefresh => run' = run
        BY DEF FinishRefresh
    <2>6. StartEvaluation \/ EndScan => run' = run
        BY DEF StartEvaluation, EndScan
    <2> QED
        BY <1>3, <1>5, <2>1, <2>2, <2>3, <2>4, <2>5, <2>6 DEF Scanning
<1>6. ASSUME NEW t \in TaskID, FireStartup(t) PROVE Goal
    <2> DEFINE next == Called(tasks[t], t, "startup", {})
    <2>1. run' = run \/ (run' = [run EXCEPT ![t] = next] /\ tasks[t].kind = "startup")
        BY <1>6 DEF FireStartup
    <2>2. next.id = t /\ next.trigger = "startup"
        BY <1>4
    <2> HIDE DEF next
    <2>3. tasks[t].kind = "startup" => CallOf(t, next)
        BY <1>6, <2>2 DEF CallOf
    <2> QED
        BY <1>2, <1>3, <2>1, <2>3
<1>7. ASSUME NEW m \in Manual, Waking(m) PROVE Goal
    <2>1. ASSUME NEW t \in TaskID, NEW selection \in Selections, WakeTask(m, t, selection)
          PROVE  Goal
        <3> DEFINE next == Called(tasks[t], t, "manual", selection)
        <3>1. run' = [run EXCEPT ![m] = next] /\ next.trigger = "manual"
            BY <1>4, <2>1 DEF WakeTask
        <3> HIDE DEF next
        <3>2. CallOf(m, next)
            BY <3>1 DEF CallOf
        <3> QED
            BY <1>2, <3>1, <3>2
    <2>2. ASSUME NEW selection \in Selections, WakeAdHoc(m, selection) PROVE Goal
        <3>1. run' = [run EXCEPT ![m] = AdHoc(selection)]
            BY <2>2 DEF WakeAdHoc, AdHoc
        <3>2. AdHoc(selection).trigger = "manual"
            BY DEF AdHoc, NoRun
        <3>3. CallOf(m, AdHoc(selection))
            BY <3>2 DEF CallOf
        <3> QED
            BY <1>2, <3>1, <3>3
    <2> QED
        BY <1>7, <2>1, <2>2 DEF Waking
<1>8. ASSUME NEW y \in Actor, Running(y) PROVE Goal
    <2>1. \E next : run' = [run EXCEPT ![y] = next] /\ next.pc # "lock"
        <3>1. CASE ListCandidates(y)
            <4>1. PICK next \in Run : /\ run' = [run EXCEPT ![y] = next]
                                      /\ next = NoRun \/ next.pc \in {"finish", "accounts"}
                BY <3>1, Listed
            <4>2. NoRun.pc = "none"
                BY DEF NoRun
            <4> HIDE DEF NoRun
            <4> QED
                BY <4>1, <4>2
        <3>2. CASE ~ListCandidates(y)
            BY <1>8, <3>2, Moved DEF Running
        <3> QED
            BY <3>1, <3>2
    <2> QED
        BY <1>2, <2>1
<1>9. ASSUME Tick \/ (\E e \in Editor : Editing(e)) \/ Stop \/ StopOperations \/ Configure
             \/ UNCHANGED vars
      PROVE  Goal
    BY <1>3, <1>9 DEF Tick, Editing, toggleTask, deleteTask, saveSingleTask, bulkTasks,
                      Submit, saveTasks, Stop, StopOperations, Configure, vars
<1>10. ASSUME Crash PROVE Goal
    <2>1. run'[x] = NoRun /\ NoRun.pc = "none"
        BY <1>10 DEF Crash, NoRun
    <2> HIDE DEF NoRun
    <2> QED
        BY <2>1 DEF Goal
<1>11. Goal
    BY <1>5, <1>6, <1>7, <1>8, <1>9, <1>10 DEF Next
<1> QED
    BY <1>11 DEF Goal

(* A scan copies the tasks when it starts or ends its refreshes, and forgets *)
(* each copy when it has looked at it.                                       *)
LEMMA SnapshotSteps ==
    ASSUME TypeOK, [Next]_vars, NEW t \in TaskID
    PROVE  \/ ~scan'.snapshot[t].present
           \/ scan'.snapshot[t] = scan.snapshot[t]
           \/ scan'.snapshot[t] = tasks[t] /\ scan.pc # "evaluate" /\ UNCHANGED tasks
<1>1. scan \in Scan /\ scan.snapshot \in [TaskID -> Task]
    BY DEF TypeOK, Scan
<1>2. ~IdleScan.snapshot[t].present
    BY DEF IdleScan, AbsentTask
<1>3. ASSUME StartScan \/ ListForRefresh \/ StartEvaluation
      PROVE  /\ scan'.snapshot = scan.snapshot \/ scan'.snapshot = tasks
             /\ scan.pc # "evaluate" /\ UNCHANGED tasks
    <2>1. CASE StartScan
        BY <1>1, <2>1 DEF StartScan, Scan, state
    <2>2. CASE ListForRefresh
        BY <1>1, <2>2 DEF ListForRefresh, Scan, state
    <2>3. CASE StartEvaluation
        BY <1>1, <2>3 DEF StartEvaluation, Scan, state
    <2> QED
        BY <1>3, <2>1, <2>2, <2>3
<1>4. ASSUME NEW a \in Account, RefreshNext(a) PROVE scan'.snapshot = scan.snapshot
    BY <1>1, <1>4 DEF RefreshNext, Scan
<1>5. ASSUME FinishRefresh
      PROVE  scan'.snapshot = scan.snapshot \/ ~scan'.snapshot[t].present
    <2>1. ~[IdleScan EXCEPT !.pc = "evaluate"].snapshot[t].present
        BY DEF IdleScan, AbsentTask
    <2>2. [scan EXCEPT !.pc = "refresh", !.at = NoAccount, !.attempt = NoTime].snapshot
              = scan.snapshot
        BY <1>1 DEF Scan
    <2> QED
        BY <1>5, <2>1, <2>2 DEF FinishRefresh
<1>6. ASSUME NEW u \in TaskID, EvaluateTask(u)
      PROVE  scan'.snapshot[t] = scan.snapshot[t] \/ ~scan'.snapshot[t].present
    <2>1. scan'.snapshot = [scan.snapshot EXCEPT ![u] = AbsentTask]
        BY <1>1, <1>6 DEF EvaluateTask, Scan
    <2> QED
        BY <1>1, <2>1 DEF AbsentTask
<1>7. ASSUME EndScan PROVE ~scan'.snapshot[t].present
    BY <1>7 DEF EndScan, IdleScan, AbsentTask
<1>8. ASSUME Configure \/ Crash PROVE ~scan'.snapshot[t].present
    BY <1>8 DEF Configure, Crash, Load, IdleScan, AbsentTask
<1>9. ASSUME NEW y \in Actor, Running(y) PROVE scan' = scan
    <2>1. LockTask(y) \/ FinishAccount(y) \/ EndAccounts(y) \/ FinishRun(y) => scan' = scan
        BY DEF LockTask, FinishAccount, EndAccounts, FinishRun
    <2>2. ListCandidates(y) => scan' = scan
        BY DEF ListCandidates
    <2>3. (\E a \in Account : StartAccount(y, a)) => scan' = scan
        BY DEF StartAccount
    <2> QED
        BY <1>9, <2>1, <2>2, <2>3 DEF Running
<1>10. ASSUME NEW e \in Editor, Editing(e) PROVE scan' = scan
    BY <1>10 DEF Editing, toggleTask, deleteTask, saveSingleTask, bulkTasks, Submit, saveTasks
<1>11. Tick \/ Stop \/ StopOperations => scan' = scan
    BY DEF Tick, Stop, StopOperations
<1>12. (\E u \in TaskID : FireStartup(u)) => scan' = scan
    BY DEF FireStartup
<1>13. ASSUME NEW m \in Manual, Waking(m) PROVE scan' = scan
    <2>1. ASSUME NEW u \in TaskID, NEW selection \in Selections, WakeTask(m, u, selection)
          PROVE  scan' = scan
        BY <2>1 DEF WakeTask
    <2>2. ASSUME NEW selection \in Selections, WakeAdHoc(m, selection) PROVE scan' = scan
        BY <2>2 DEF WakeAdHoc
    <2> QED
        BY <1>13, <2>1, <2>2 DEF Waking
<1>14. UNCHANGED vars => scan' = scan
    BY DEF vars
<1> QED
    BY <1>3, <1>4, <1>5, <1>6, <1>7, <1>8, <1>9, <1>10, <1>11, <1>12, <1>13, <1>14
    DEF Next, Scanning

-----------------------------------------------------------------------------
(* The worker runs a scheduled task only after the occurrence it waits for *)

OnSchedule(task) == task.kind \in {"interval", "calendar"}

(* The period since the last run of a task is over.                        *)
WaitedOut(task, at) ==
    task.lastRun # NoTime =>
        /\ task.kind = "interval" => at >= task.lastRun + TaskInterval
        /\ task.kind = "calendar" => at >= ((task.lastRun \div Day) + 1) * Day

(* The next occurrence of a task is not before that.                       *)
Waits(task) == task.nextRun # NoTime => WaitedOut(task, task.nextRun)

TasksWait == \A ts \in InitTasks : \A t \in TaskID : Waits(ts[t])

SameSchedule(copy, task) ==
    /\ copy.kind = task.kind
    /\ OnSchedule(task) => copy.lastRun = task.lastRun /\ copy.nextRun = task.nextRun

(* Tasks in memory and in the file wait, the worker looks at copies that are *)
(* still the saved tasks, and runs a scheduled task it has not looked at     *)
(* since.                                                                    *)
ScheduleInv ==
    /\ PastInv
    /\ \A t \in TaskID :
           /\ Waits(tasks[t]) /\ Waits(disk.tasks[t]) /\ disk.tasks[t].kind = tasks[t].kind
           /\ scan.snapshot[t].present => SameSchedule(scan.snapshot[t], tasks[t])
    /\ \A x \in Actor : run[x].pc # "none" =>
           /\ run[x].id \in TaskID
           /\ x # Worker => tasks[run[x].id].kind = "startup"
    /\ run[Worker].pc # "none" =>
           LET r == run[Worker]
           IN  /\ ~scan.snapshot[r.id].present
               /\ r.trigger = "schedule" =>
                      /\ OnSchedule(tasks[r.id])
                      /\ r.pc = "lock" => WaitedOut(tasks[r.id], now)

(* The calendar: days of positive length.                                  *)
LEMMA DayOf ==
    ASSUME NEW at \in Nat
    PROVE  /\ at \div Day \in Nat /\ ((at \div Day) + 1) * Day \in Nat
           /\ (at \div Day) * Day <= at /\ at < ((at \div Day) + 1) * Day
<1>1. Day \in Nat /\ Day > 0
    BY WakeupAssumption
<1>2. /\ at \div Day \in Nat
      /\ (at \div Day) * Day <= at /\ at < ((at \div Day) + 1) * Day
    BY <1>1
<1>3. ((at \div Day) + 1) * Day \in Int
    <2> DEFINE days == (at \div Day) + 1
    <2>1. days \in Int
        BY <1>2
    <2> HIDE DEF days
    <2>2. days * Day \in Int
        BY <1>1, <2>1
    <2> QED
        BY <2>2 DEF days
<1> QED
    BY <1>1, <1>2, <1>3

LEMMA DaysAreOrdered ==
    ASSUME NEW early \in Nat, NEW late \in Nat, early <= late
    PROVE  ((early \div Day) + 1) * Day <= ((late \div Day) + 1) * Day
<1>1. Day \in Nat /\ Day > 0
    BY WakeupAssumption
<1> DEFINE p == early \div Day
           q == late \div Day
<1>2. p \in Nat /\ q \in Nat /\ p * Day <= early /\ late < (q + 1) * Day
    BY DayOf
<1> HIDE DEF p, q
<1>3. p <= q
    <2> SUFFICES ASSUME p >= q + 1 PROVE FALSE
        BY <1>2
    <2>1. p * Day >= (q + 1) * Day
        BY <1>1, <1>2
    <2> QED
        BY <1>1, <1>2, <2>1
<1> QED
    BY <1>1, <1>2, <1>3 DEF p, q

LEMMA NextDay ==
    ASSUME NEW early \in Nat, NEW late \in Nat, late >= ((early \div Day) + 1) * Day
    PROVE  late \div Day > early \div Day
<1>1. Day \in Nat /\ Day > 0
    BY WakeupAssumption
<1> DEFINE p == early \div Day
           q == late \div Day
<1>2. p \in Nat /\ q \in Nat /\ late < (q + 1) * Day /\ late >= (p + 1) * Day
    BY DayOf
<1> HIDE DEF p, q
<1>3. q > p
    <2> SUFFICES ASSUME p >= q PROVE FALSE
        BY <1>2
    <2>1. (p + 1) * Day >= (q + 1) * Day
        BY <1>1, <1>2
    <2> QED
        BY <1>1, <1>2, <2>1
<1> QED
    BY <1>3 DEF p, q

(* Another kind of task waits for nothing.                                 *)
LEMMA OthersWait == ASSUME NEW task, ~OnSchedule(task) PROVE Waits(task)
BY DEF Waits, WaitedOut, OnSchedule

(* A wait that is over stays over.                                         *)
LEMMA WaitingEnds ==
    ASSUME NEW task \in Task, NEW copy, copy.kind = task.kind, copy.lastRun = task.lastRun,
           NEW early \in Nat, NEW late \in Nat, early <= late, WaitedOut(task, early)
    PROVE  WaitedOut(copy, late)
<1>1. task.lastRun \in Nat /\ TaskInterval \in Nat /\ Day \in Nat
    BY WakeupAssumption DEF Task
<1>2. ((task.lastRun \div Day) + 1) * Day \in Nat
    BY <1>1, DayOf
<1> QED
    BY <1>1, <1>2 DEF WaitedOut

(* The occurrence computed for a task whose last run is not in the future.  *)
LEMMA NextOccurrence ==
    ASSUME NEW task \in Task, NEW accts \in [Account -> AccountState], NEW at \in Nat,
           task.lastRun <= at
    PROVE  WaitedOut(task, NextRunAt(task, accts, at))
<1>1. task.lastRun \in Nat /\ TaskInterval \in Nat /\ task.kind \in Kind
    BY WakeupAssumption DEF Task
<1>2. CASE task.kind = "interval"
    BY <1>1, <1>2 DEF WaitedOut, NextRunAt, IntervalBase
<1>3. CASE task.kind = "calendar"
    <2>1. NextRunAt(task, accts, at) = ((at \div Day) + 1) * Day
        BY <1>3 DEF NextRunAt
    <2> QED
        BY <1>1, <1>3, <2>1, DaysAreOrdered DEF WaitedOut
<1> QED
    BY <1>1, <1>2, <1>3 DEF WaitedOut, Kind

LEMMA FinishedWaits ==
    ASSUME NEW task \in Task, NEW accts \in [Account -> AccountState], NEW r \in Run
    PROVE  Waits(Finished(task, accts, r))
<1>1. CASE ~OnSchedule(task)
    <2>1. Finished(task, accts, r).kind = task.kind
        BY FinishedKeeps
    <2> QED
        BY <1>1, <2>1, OthersWait DEF OnSchedule
<1>2. CASE OnSchedule(task)
    <2> DEFINE ran == [task EXCEPT !.lastRun = r.completed]
    <2>1. r.completed \in Nat
        BY DEF Run
    <2>2. /\ ran \in Task /\ ran.kind = task.kind /\ ran.lastRun = r.completed
        BY <2>1 DEF Task
    <2>3. Finished(task, accts, r) = [ran EXCEPT !.nextRun = NextRunAt(ran, accts, r.completed)]
        BY <1>2 DEF Finished, OnSchedule
    <2> HIDE DEF ran
    <2>4. WaitedOut(ran, NextRunAt(ran, accts, r.completed))
        BY <2>1, <2>2, NextOccurrence
    <2>5. LET new == Finished(task, accts, r)
          IN  /\ new.kind = ran.kind /\ new.lastRun = ran.lastRun
              /\ new.nextRun = NextRunAt(ran, accts, r.completed)
        BY <2>2, <2>3 DEF Task
    <2> QED
        BY <2>4, <2>5 DEF Waits, WaitedOut
<1> QED
    BY <1>1, <1>2

LEMMA LoadedWaits ==
    ASSUME NEW ts \in [TaskID -> Task], NEW accts \in [Account -> AccountState], NEW at \in Nat,
           NEW t \in TaskID, ts[t].lastRun <= at, Waits(ts[t])
    PROVE  Waits(recomputeTaskNextRuns(ts, accts, at)[t])
<1> DEFINE next == NextRunAt(ts[t], accts, at)
<1>1. CASE recomputeTaskNextRuns(ts, accts, at)[t] = ts[t]
    BY <1>1
<1>2. CASE recomputeTaskNextRuns(ts, accts, at)[t] = [ts[t] EXCEPT !.nextRun = next]
    <2>1. WaitedOut(ts[t], next)
        BY NextOccurrence
    <2> HIDE DEF next
    <2>2. LET new == [ts[t] EXCEPT !.nextRun = next]
          IN  new.kind = ts[t].kind /\ new.lastRun = ts[t].lastRun /\ new.nextRun = next
        BY DEF Task
    <2> QED
        BY <1>2, <2>1, <2>2 DEF Waits, WaitedOut
<1> QED
    BY <1>1, <1>2 DEF recomputeTaskNextRuns

(* A scheduled task that is due has waited.                                *)
LEMMA DueHasWaited ==
    ASSUME NEW task \in Task, accounts \in [Account -> AccountState], NEW at \in Nat, NEW onStart,
           OnSchedule(task), Waits(task), task.lastRun <= at, Due(task, at, onStart)
    PROVE  WaitedOut(task, at)
<1>1. task.lastRun \in Nat /\ task.nextRun \in Nat
    BY DEF Task
<1>2. CASE task.lastRun = NoTime
    BY <1>2 DEF WaitedOut
<1>3. CASE task.lastRun # NoTime /\ task.nextRun # NoTime
    <2>1. at >= task.nextRun /\ WaitedOut(task, task.nextRun)
        BY <1>3 DEF Due, Waits
    <2> QED
        BY <1>1, <2>1, WaitingEnds
<1>4. CASE task.lastRun # NoTime /\ task.nextRun = NoTime
    <2> DEFINE next == NextRunAt(task, accounts, at)
    <2>1. at >= next
        BY <1>4 DEF Due
    <2>2. WaitedOut(task, next) /\ next \in Nat
        BY NextOccurrence, NextRunType
    <2> HIDE DEF next
    <2> QED
        BY <2>1, <2>2, WaitingEnds
<1> QED
    BY <1>2, <1>3, <1>4

(* A scheduled task moves only by the end of its run and by loading.        *)
LEMMA ScheduleSteps ==
    ASSUME TypeOK, Editor = {}, [Next]_vars, NEW t \in TaskID, OnSchedule(tasks[t])
    PROVE  \/ tasks'[t] = tasks[t]
           \/ \E actor \in Actor :
                  /\ FinishRun(actor) /\ run[actor].id = t
                  /\ tasks'[t] = Finished(tasks[t], accounts', run[actor])
           \/ (Configure \/ Crash) /\ tasks'[t] = Loaded[t]
<1>1. CASE UNCHANGED <<tasks, disk>>
    BY <1>1
<1>2. CASE FinishRefresh
    <2>1. tasks' = WithPreview(tasks, accounts', scan.attempt)
        BY <1>2 DEF FinishRefresh
    <2> QED
        BY <2>1 DEF WithPreview, OnSchedule
<1>3. ASSUME NEW actor \in Actor, FinishRun(actor)
      PROVE  \/ tasks'[t] = tasks[t]
             \/ /\ run[actor].id = t
                /\ tasks'[t] = Finished(tasks[t], accounts', run[actor])
    BY <1>3 DEF FinishRun
<1>4. CASE Configure \/ Crash
    BY <1>4 DEF Configure, Crash, Load
<1> QED
    BY <1>1, <1>2, <1>3, <1>4, OnlyThese

LEMMA InitSchedule ==
    ASSUME TasksWait, Init
    PROVE  ScheduleInv
<1>1. PastInv /\ TypeOK /\ tasks = Loaded /\ now \in Nat
      /\ \A x \in Actor : run[x].pc = "none"
      /\ \A t \in TaskID : ~scan.snapshot[t].present
    BY InitPast DEF Init, NoRun, IdleScan, AbsentTask, PastInv, LockInv, TypeOK
<1>2. ASSUME NEW t \in TaskID
      PROVE  Waits(tasks[t]) /\ Waits(disk.tasks[t]) /\ disk.tasks[t].kind = tasks[t].kind
    <2>1. PICK ts \in InitTasks : disk = Saved(ts, accounts)
        BY DEF Init
    <2>2. ts[t] \in Task /\ Waits(ts[t]) /\ disk.tasks[t] = Encoded(ts[t])
        BY <2>1, InputAssumption DEF TasksWait, Saved
    <2>3. Waits(disk.tasks[t])
        BY <2>2, EncodedMeaning DEF Waits, WaitedOut
    <2>4. /\ disk.tasks \in [TaskID -> Task] /\ disk.accounts \in [Account -> AccountState]
          /\ disk.tasks[t].lastRun <= now
        BY <1>1 DEF TypeOK, PastInv, PastTask
    <2>5. Waits(tasks[t])
        BY <1>1, <2>3, <2>4, LoadedWaits DEF Loaded
    <2>6. SameTask(tasks[t], disk.tasks[t]) /\ disk.tasks[t] \in Task
        BY <1>1, <2>4, RecomputedMeaning DEF Loaded
    <2> QED
        BY <2>3, <2>5, <2>6, SameTaskMeaning
<1>3. Worker \in Actor
    BY DEF Actor
<1> QED
    BY <1>1, <1>2, <1>3 DEF ScheduleInv

LEMMA KindsStay ==
    ASSUME Editor = {}, ScheduleInv, [Next]_vars, NEW t \in TaskID
    PROVE  tasks'[t].kind = tasks[t].kind /\ disk'.tasks[t].kind = tasks[t].kind
<1>1. /\ TypeOK /\ TypeOK' /\ disk.tasks[t].kind = tasks[t].kind
      /\ tasks[t] \in Task /\ tasks'[t] \in Task /\ disk.tasks[t] \in Task
      /\ run \in [Actor -> Run] /\ accounts' \in [Account -> AccountState]
    BY LocksKept DEF ScheduleInv, PastInv, LockInv, TypeOK
<1>2. TaskStep(t) /\ DiskStep(t)
    BY <1>1, TaskSteps
<1>3. ASSUME NEW actor \in Actor, tasks'[t] = Finished(tasks[t], accounts', run[actor])
      PROVE  tasks'[t].kind = tasks[t].kind
    BY <1>1, <1>3, FinishedKeeps
<1>4. SameTask(tasks'[t], tasks[t]) \/ SameTask(tasks'[t], disk.tasks[t])
      => tasks'[t].kind = tasks[t].kind
    BY <1>1, SameTaskMeaning
<1>5. tasks'[t].kind = tasks[t].kind
    BY <1>2, <1>3, <1>4 DEF TaskStep
<1> QED
    BY <1>1, <1>2, <1>5, EncodedMeaning DEF DiskStep

LEMMA WaitsStep ==
    ASSUME Editor = {}, ScheduleInv, [Next]_vars, NEW t \in TaskID
    PROVE  Waits(tasks'[t]) /\ Waits(disk'.tasks[t])
<1>1. /\ TypeOK /\ TypeOK' /\ Waits(tasks[t]) /\ Waits(disk.tasks[t])
      /\ tasks[t] \in Task /\ tasks'[t] \in Task /\ disk.tasks \in [TaskID -> Task]
      /\ disk.accounts \in [Account -> AccountState] /\ now \in Nat
      /\ disk.tasks[t].lastRun <= now
      /\ run \in [Actor -> Run] /\ accounts' \in [Account -> AccountState]
    BY LocksKept DEF ScheduleInv, PastInv, PastTask, LockInv, TypeOK
<1>2. Waits(tasks'[t])
    <2>1. CASE ~OnSchedule(tasks[t])
        BY <2>1, KindsStay, OthersWait DEF OnSchedule
    <2>2. CASE OnSchedule(tasks[t])
        <3>1. ASSUME NEW actor \in Actor, tasks'[t] = Finished(tasks[t], accounts', run[actor])
              PROVE  Waits(tasks'[t])
            BY <1>1, <3>1, FinishedWaits
        <3>2. Waits(Loaded[t])
            BY <1>1, LoadedWaits DEF Loaded
        <3> QED
            BY <1>1, <2>2, <3>1, <3>2, ScheduleSteps
    <2> QED
        BY <2>1, <2>2
<1>3. DiskStep(t)
    BY <1>1, TaskSteps
<1>4. Waits(Encoded(tasks'[t]))
    BY <1>1, <1>2, EncodedMeaning DEF Waits, WaitedOut
<1> QED
    BY <1>1, <1>2, <1>3, <1>4 DEF DiskStep

(* Nobody but the worker runs a scheduled task, which it has looked at then.*)
LEMMA ScheduledEnd ==
    ASSUME ScheduleInv, NEW actor \in Actor, FinishRun(actor),
           run[actor].id \in TaskID, OnSchedule(tasks[run[actor].id])
    PROVE  actor = Worker /\ ~scan.snapshot[run[actor].id].present
<1>1. run[actor].pc # "none"
    BY DEF FinishRun
<1> QED
    BY <1>1 DEF ScheduleInv, OnSchedule

LEMMA SnapshotStays ==
    ASSUME Editor = {}, ScheduleInv, [Next]_vars, NEW t \in TaskID, scan'.snapshot[t].present
    PROVE  SameSchedule(scan'.snapshot[t], tasks'[t])
<1>1. TypeOK /\ tasks'[t].kind = tasks[t].kind
    BY KindsStay DEF ScheduleInv, PastInv, LockInv
<1>2. CASE scan'.snapshot[t] = tasks[t] /\ UNCHANGED tasks
    BY <1>2 DEF SameSchedule
<1>3. CASE scan'.snapshot[t] = scan.snapshot[t]
    <2>1. SameSchedule(scan.snapshot[t], tasks[t])
        BY <1>3 DEF ScheduleInv
    <2>2. ASSUME OnSchedule(tasks[t]) PROVE tasks'[t] = tasks[t]
        <3>1. ASSUME NEW actor \in Actor, FinishRun(actor), run[actor].id = t PROVE FALSE
            BY <1>3, <2>2, <3>1, ScheduledEnd
        <3>2. ASSUME Configure \/ Crash PROVE FALSE
            <4>1. ~scan'.snapshot[t].present
                BY <3>2 DEF Configure, Crash, Load, IdleScan, AbsentTask
            <4> QED
                BY <4>1
        <3> QED
            BY <1>1, <2>2, <3>1, <3>2, ScheduleSteps
    <2> QED
        BY <1>1, <1>3, <2>1, <2>2 DEF SameSchedule, OnSchedule
<1> QED
    BY <1>1, <1>2, <1>3, SnapshotSteps

(* A call of the worker, or of a startup timer.                            *)
LEMMA CalledOnSchedule ==
    ASSUME Editor = {}, Manual = {}, ScheduleInv, [Next]_vars, NEW x \in Actor,
           run'[x].pc = "lock", CallOf(x, run'[x])
    PROVE  LET r == run'[x]
           IN  /\ r.id \in TaskID
               /\ x # Worker => tasks'[r.id].kind = "startup"
               /\ x = Worker => ~scan'.snapshot[r.id].present
               /\ x = Worker /\ r.trigger = "schedule" =>
                      OnSchedule(tasks'[r.id]) /\ WaitedOut(tasks'[r.id], now')
<1> DEFINE r == run'[x]
<1>1. TypeOK /\ r.id \in TaskID
    BY DEF ScheduleInv, PastInv, LockInv, CallOf
<1>2. CASE x = Worker /\ EvaluateTask(r.id)
    <2>1. tasks' = tasks /\ now' = now
        BY <1>2 DEF EvaluateTask, state
    <2>2. ~scan'.snapshot[r.id].present
        <3>1. scan \in Scan /\ scan.snapshot \in [TaskID -> Task]
            BY <1>1 DEF TypeOK, Scan
        <3>2. scan' = [scan EXCEPT !.snapshot[r.id] = AbsentTask]
            BY <1>2 DEF EvaluateTask
        <3>3. scan'.snapshot[r.id] = AbsentTask
            BY <1>1, <3>1, <3>2 DEF Scan
        <3> QED
            BY <3>3 DEF AbsentTask
    <2>3. ASSUME r.trigger = "schedule"
          PROVE  OnSchedule(tasks[r.id]) /\ WaitedOut(tasks[r.id], now)
        <3> DEFINE task == scan.snapshot[r.id]
        <3>1. /\ task.present /\ OnSchedule(task)
              /\ Due(task, now, scan.first /\ RunOnStart)
            BY <1>2, <2>3, ActorsDiffer DEF CallOf, OnSchedule
        <3>2. /\ OnSchedule(tasks[r.id]) /\ task.kind = tasks[r.id].kind
              /\ task.lastRun = tasks[r.id].lastRun /\ task.nextRun = tasks[r.id].nextRun
            BY <1>1, <3>1 DEF ScheduleInv, SameSchedule, OnSchedule
        <3>3. task \in Task /\ accounts \in [Account -> AccountState] /\ now \in Nat
            BY <1>1 DEF TypeOK, Scan
        <3>4. Waits(task) /\ task.lastRun <= now
            BY <1>1, <3>2 DEF ScheduleInv, PastInv, PastTask, Waits, WaitedOut
        <3> HIDE DEF task
        <3>5. WaitedOut(task, now)
            BY <3>1, <3>3, <3>4, DueHasWaited
        <3> QED
            BY <3>2, <3>5 DEF WaitedOut
    <2> QED
        BY <1>1, <1>2, <2>1, <2>2, <2>3
<1>3. CASE x = r.id /\ FireStartup(r.id) /\ tasks[r.id].kind = "startup"
    <2>1. x # Worker /\ tasks' = tasks
        BY <1>1, <1>3, ActorsDiffer DEF FireStartup, state
    <2> QED
        BY <1>1, <1>3, <2>1
<1> QED
    BY <1>2, <1>3 DEF CallOf

(* What stays of a run while it goes on.                                   *)
LEMMA RunsStay ==
    ASSUME Editor = {}, ScheduleInv, [Next]_vars, NEW x \in Actor,
           run[x].pc # "none", run'[x].pc # "none",
           run'[x].id = run[x].id, run'[x].trigger = run[x].trigger,
           run'[x].pc = "lock" => run'[x] = run[x]
    PROVE  LET r == run'[x]
           IN  /\ r.id \in TaskID
               /\ x # Worker => tasks'[r.id].kind = "startup"
               /\ x = Worker => ~scan'.snapshot[r.id].present
               /\ x = Worker /\ r.trigger = "schedule" =>
                      /\ OnSchedule(tasks'[r.id])
                      /\ r.pc = "lock" => WaitedOut(tasks'[r.id], now')
<1> DEFINE t == run[x].id
<1>1. /\ TypeOK /\ t \in TaskID /\ tasks'[t].kind = tasks[t].kind
      /\ x # Worker => tasks[t].kind = "startup"
    BY KindsStay DEF ScheduleInv, PastInv, LockInv
<1>2. ASSUME x = Worker PROVE ~scan'.snapshot[t].present
    <2>1. scan.pc = "evaluate" /\ ~scan.snapshot[t].present
        BY <1>2 DEF ScheduleInv, PastInv, LockInv, WorkerIsSequential
    <2> QED
        BY <1>1, <2>1, SnapshotSteps
<1>3. ASSUME x = Worker, run[x].trigger = "schedule"
      PROVE  OnSchedule(tasks[t]) /\ OnSchedule(tasks'[t])
    BY <1>1, <1>3 DEF ScheduleInv, OnSchedule
<1>4. ASSUME x = Worker, run[x].trigger = "schedule", run'[x].pc = "lock"
      PROVE  WaitedOut(tasks'[t], now')
    <2>1. run[x].pc = "lock" /\ WaitedOut(tasks[t], now) /\ OnSchedule(tasks[t])
        BY <1>3, <1>4 DEF ScheduleInv
    <2>2. ASSUME NEW actor \in Actor, FinishRun(actor), run[actor].id = t PROVE FALSE
        <3>1. actor = x /\ run[actor].pc = "finish"
            BY <1>1, <1>4, <2>1, <2>2, ScheduledEnd DEF FinishRun
        <3> QED
            BY <2>1, <3>1
    <2>3. ~Configure
        BY <1>4, <2>1 DEF Configure, ScheduleInv, PastInv, LockInv, WorkerIsSequential
    <2>4. ASSUME Crash PROVE FALSE
        BY <2>4 DEF Crash, NoRun
    <2>5. tasks'[t] = tasks[t]
        BY <1>1, <2>1, <2>2, <2>3, <2>4, ScheduleSteps
    <2>6. tasks[t] \in Task /\ now \in Nat /\ now' \in Nat /\ now <= now'
        BY <1>1, ClockSteps DEF TypeOK, Tick
    <2> QED
        BY <2>1, <2>5, <2>6, WaitingEnds
<1> QED
    BY <1>1, <1>2, <1>3, <1>4

LEMMA ScheduleKept ==
    ASSUME Editor = {}, Manual = {}, ScheduleInv, [Next]_vars
    PROVE  ScheduleInv'
<1>1. TypeOK /\ PastInv'
    BY PastKept DEF ScheduleInv, PastInv, LockInv
<1>2. ASSUME NEW t \in TaskID
      PROVE  /\ Waits(tasks'[t]) /\ Waits(disk'.tasks[t]) /\ disk'.tasks[t].kind = tasks'[t].kind
             /\ scan'.snapshot[t].present => SameSchedule(scan'.snapshot[t], tasks'[t])
    BY KindsStay, WaitsStep, SnapshotStays
<1>3. ASSUME NEW x \in Actor, run'[x].pc # "none"
      PROVE  LET r == run'[x]
             IN  /\ r.id \in TaskID
                 /\ x # Worker => tasks'[r.id].kind = "startup"
                 /\ x = Worker => ~scan'.snapshot[r.id].present
                 /\ x = Worker /\ r.trigger = "schedule" =>
                        /\ OnSchedule(tasks'[r.id])
                        /\ r.pc = "lock" => WaitedOut(tasks'[r.id], now')
    <2>1. CASE run'[x] = run[x]
        BY <1>3, <2>1, RunsStay
    <2>2. CASE run'[x].pc # "lock" /\ run'[x] # run[x]
        <3>1. run[x].pc # "none" /\ run'[x].id = run[x].id /\ run'[x].trigger = run[x].trigger
            BY <1>1, <1>3, <2>2, RunSteps DEF RunStep, SameRun, LockTask
        <3> QED
            BY <1>3, <2>2, <3>1, RunsStay
    <2>3. CASE run'[x].pc = "lock" /\ CallOf(x, run'[x])
        BY <2>3, CalledOnSchedule
    <2> QED
        BY <1>1, <2>1, <2>2, <2>3, CallSteps
<1>4. Worker \in Actor
    BY DEF Actor
<1> QED
    BY <1>1, <1>2, <1>3, <1>4 DEF ScheduleInv

\* While nobody edits or wakes a scheduled task by hand, the worker runs an
\* interval task again only a full interval after its last run ended, and a
\* calendar task only after a boundary of the calendar since then, over scans,
\* saves that fail, reconfigurations, crashes and the extra run on start: the
\* next occurrence is computed from the end of the run and kept by loading
\* (finishRun, recomputeTaskNextRuns), and the copy runDue evaluates is still
\* the saved task. A file that has a next occurrence has one that waits.
THEOREM ScheduledRunsKeepTheirDistance ==
    ASSUME Editor = {}, Manual = {}, TasksWait
    PROVE  Spec => ScheduledRunsAreSpaced
<1> DEFINE Spaced ==
        /\ run[Worker].pc = "lock" /\ run'[Worker].pc = "listing"
        /\ run[Worker].trigger = "schedule"
        => LET task == tasks[run[Worker].id]
           IN  CASE task.lastRun = NoTime -> TRUE
                 [] task.lastRun # NoTime /\ task.kind = "interval" ->
                      now >= task.lastRun + TaskInterval
                 [] task.lastRun # NoTime /\ task.kind = "calendar" ->
                      now \div Day > task.lastRun \div Day
                 [] OTHER -> FALSE
<1>1. ScheduleInv => Spaced
    <2> SUFFICES ASSUME ScheduleInv, run[Worker].pc = "lock", run[Worker].trigger = "schedule"
                 PROVE  Spaced
        OBVIOUS
    <2> DEFINE task == tasks[run[Worker].id]
    <2>1. run[Worker].id \in TaskID /\ OnSchedule(task) /\ WaitedOut(task, now)
        BY DEF ScheduleInv, Actor
    <2>2. task \in Task /\ now \in Nat /\ task.lastRun \in Nat
        BY <2>1 DEF ScheduleInv, PastInv, LockInv, TypeOK, Task
    <2>3. task.lastRun # NoTime /\ task.kind = "calendar" => now \div Day > task.lastRun \div Day
        BY <2>1, <2>2, NextDay DEF WaitedOut
    <2>4. task.lastRun # NoTime /\ task.kind = "interval" => now >= task.lastRun + TaskInterval
        BY <2>1 DEF WaitedOut
    <2>5. task.kind \in {"interval", "calendar"}
        BY <2>1 DEF OnSchedule
    <2> HIDE DEF task
    <2>6. CASE task.lastRun = NoTime
        BY <2>6 DEF task
    <2>7. CASE task.lastRun # NoTime /\ task.kind = "interval"
        BY <2>4, <2>7 DEF task
    <2>8. CASE task.lastRun # NoTime /\ task.kind = "calendar"
        BY <2>3, <2>8 DEF task
    <2> QED
        BY <2>5, <2>6, <2>7, <2>8
<1>2. Init => ScheduleInv
    BY InitSchedule
<1>3. ScheduleInv /\ [Next]_vars => ScheduleInv'
    BY ScheduleKept
<1>4. ScheduleInv /\ [Next]_vars => [Spaced]_vars
    BY <1>1
<1> QED
    BY <1>2, <1>3, <1>4, PTL DEF Spec, ScheduledRunsAreSpaced
=============================================================================
