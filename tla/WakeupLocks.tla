---------------------------- MODULE WakeupLocks ----------------------------
(***************************************************************************)
(* What the task and account locks of Wakeup guarantee, for every value of *)
(* its constants: at most one actor talks to the services for an account,  *)
(* and at most one run of a task is under way. And what a quota run may    *)
(* rely on because of them: the task it runs is saved and enabled when it  *)
(* picks its accounts, and their usage data is current when it wakes them. *)
(***************************************************************************)
EXTENDS WakeupTypes

(* An actor that talks to the services for an account owns its lock.       *)
AccountsHeld ==
    \A x \in Actor, a \in Account : UsesAccount(x, a) => accountLocks[a] = x

(* A run past its TryLock owns the lock of its task.                        *)
TasksHeld ==
    \A x \in Actor :
        run[x].pc \in Holding /\ run[x].id # NoTask => taskLocks[run[x].id] = x

(* The worker is one goroutine: it runs a task only while it evaluates the  *)
(* tasks of a scan, and it has ended when the manual operations are stopped.*)
WorkerIsSequential ==
    /\ run[Worker].pc # "none" => scan.pc = "evaluate"
    /\ phase = "stopOperations" => scan.pc = "off"

LockInv == TypeOK /\ AccountsHeld /\ TasksHeld /\ WorkerIsSequential

LEMMA FreeIsNoActor == Free \notin Actor
BY ActorAssumption DEF Actor

LEMMA ActorsDiffer ==
    /\ \A t \in TaskID : t # Worker
    /\ \A m \in Manual : m # Worker
BY ActorAssumption

LEMMA InitLocks == ASSUME Init PROVE LockInv
<1>1. \A x \in Actor : run[x].pc = "none"
    BY DEF Init, NoRun
<1>2. scan.pc = "idle" /\ phase = "up"
    BY DEF Init, IdleScan
<1> QED
    BY <1>1, <1>2, InitType, ConstantTypes
    DEF LockInv, AccountsHeld, TasksHeld, WorkerIsSequential, UsesAccount, Holding

(* A step that leaves runs, locks, phase and scan.pc and scan.at alone.    *)
LEMMA LocksUntouched ==
    ASSUME LockInv, TypeOK', run' = run, taskLocks' = taskLocks,
           accountLocks' = accountLocks, phase' = phase, scan' = scan
    PROVE  LockInv'
BY DEF LockInv, AccountsHeld, TasksHeld, WorkerIsSequential, UsesAccount

(* A step of the scan that uses no account.                                *)
LEMMA ScanMoved ==
    ASSUME LockInv, TypeOK', UNCHANGED <<run, locks, phase>>,
           scan'.pc # "query",
           run[Worker].pc # "none" => scan'.pc = "evaluate",
           phase = "stopOperations" => scan'.pc = "off"
    PROVE  LockInv'
BY DEF LockInv, AccountsHeld, TasksHeld, WorkerIsSequential, UsesAccount, locks

LEMMA ScanLocks == ASSUME LockInv, Scanning PROVE LockInv'
<1>1. TypeOK /\ TypeOK' /\ scan \in Scan
    BY ScanningType DEF LockInv, TypeOK
<1>2. ASSUME StartScan PROVE LockInv'
    <2>1. scan'.pc \in {"evaluate", "listing"} /\ scan.pc = "idle" /\ phase = "up"
        BY <1>1, <1>2 DEF StartScan, Scan
    <2>2. run[Worker].pc = "none"
        BY <2>1 DEF LockInv, WorkerIsSequential
    <2> QED
        BY <1>1, <1>2, <2>1, <2>2, ScanMoved DEF StartScan, lifecycle
<1>3. ASSUME ListForRefresh PROVE LockInv'
    <2>1. scan'.pc \in {"evaluate", "refresh"} /\ scan.pc = "listing"
        BY <1>1, <1>3 DEF ListForRefresh, Scan
    <2>2. run[Worker].pc = "none" /\ phase # "stopOperations"
        BY <2>1 DEF LockInv, WorkerIsSequential
    <2> QED
        BY <1>1, <1>3, <2>1, <2>2, ScanMoved DEF ListForRefresh, lifecycle
<1>4. ASSUME NEW a \in Account, RefreshNext(a) PROVE LockInv'
    <2>1. scan.pc = "refresh"
        BY <1>4 DEF RefreshNext
    <2>2. run[Worker].pc = "none" /\ phase # "stopOperations"
        BY <2>1 DEF LockInv, WorkerIsSequential
    <2>3. CASE scan.listedAt >= accounts[a].nextRefresh /\ AccountIsFree(a)
        <3>1. scan'.pc = "query" /\ scan'.at = a
            BY <1>1, <1>4, <2>3 DEF RefreshNext, Scan
        <3>2. accountLocks[a] = Free /\ accountLocks' = [accountLocks EXCEPT ![a] = Worker]
            BY <1>4, <2>3 DEF RefreshNext, AccountIsFree
        <3>3. AccountsHeld'
            <4> SUFFICES ASSUME NEW x \in Actor, NEW b \in Account, UsesAccount(x, b)'
                         PROVE  accountLocks'[b] = x
                BY DEF AccountsHeld
            <4>1. accountLocks \in [Account -> Actor \cup {Free}] /\ run' = run
                BY <1>1, <1>4 DEF TypeOK, RefreshNext
            <4>2. CASE run[x].pc = "request" /\ run[x].at = b
                <5>1. accountLocks[b] = x
                    BY <4>2 DEF LockInv, AccountsHeld, UsesAccount
                <5>2. b # a
                    BY <3>2, <5>1, FreeIsNoActor
                <5> QED
                    BY <3>2, <4>1, <5>1, <5>2
            <4>3. CASE x = Worker /\ b = a
                BY <3>2, <4>1, <4>3
            <4> QED
                BY <3>1, <4>1, <4>2, <4>3 DEF UsesAccount
        <3> QED
            BY <1>1, <1>4, <2>2, <3>3 DEF LockInv, TasksHeld, WorkerIsSequential, RefreshNext, lifecycle
    <2>4. CASE ~(scan.listedAt >= accounts[a].nextRefresh /\ AccountIsFree(a))
        <3>1. scan'.pc = "refresh" /\ accountLocks' = accountLocks
            BY <1>1, <1>4, <2>1, <2>4 DEF RefreshNext, Scan
        <3> QED
            BY <1>1, <1>4, <2>2, <3>1, ScanMoved DEF RefreshNext, lifecycle, locks
    <2> QED
        BY <2>3, <2>4
<1>5. ASSUME FinishRefresh PROVE LockInv'
    <2>1. scan.pc = "query" /\ scan'.pc \in {"evaluate", "refresh"}
        BY <1>1, <1>5 DEF FinishRefresh, Scan, IdleScan
    <2>2. run[Worker].pc = "none" /\ phase # "stopOperations"
        BY <2>1 DEF LockInv, WorkerIsSequential
    <2>3. AccountsHeld'
        <3> SUFFICES ASSUME NEW x \in Actor, NEW b \in Account, UsesAccount(x, b)'
                     PROVE  accountLocks'[b] = x
            BY DEF AccountsHeld
        <3>1. run[x].pc = "request" /\ run[x].at = b
            BY <1>5, <2>1 DEF UsesAccount, FinishRefresh
        <3>2. accountLocks[b] = x
            BY <3>1 DEF LockInv, AccountsHeld, UsesAccount
        <3>3. x # Worker
            BY <2>2, <3>1
        <3>4. scan.at = b => accountLocks[b] = Worker
            BY <2>1, ConstantTypes DEF LockInv, AccountsHeld, UsesAccount
        <3> QED
            BY <1>1, <1>5, <3>2, <3>3, <3>4 DEF TypeOK, FinishRefresh
    <2> QED
        BY <1>1, <1>5, <2>1, <2>2, <2>3
        DEF LockInv, TasksHeld, WorkerIsSequential, FinishRefresh, lifecycle
<1>6. ASSUME StartEvaluation PROVE LockInv'
    <2>1. scan'.pc = "evaluate" /\ scan.pc = "refresh"
        BY <1>1, <1>6 DEF StartEvaluation, Scan
    <2> QED
        BY <1>1, <1>6, <2>1, ScanMoved DEF StartEvaluation, lifecycle, LockInv, WorkerIsSequential
<1>7. ASSUME NEW t \in TaskID, EvaluateTask(t) PROVE LockInv'
    <2>1. scan'.pc = "evaluate" /\ scan.pc = "evaluate"
        BY <1>1, <1>7 DEF EvaluateTask, Scan
    <2>2. \A x \in Actor : run'[x] = run[x] \/ (x = Worker /\ run'[x].pc = "lock")
        BY <1>1, <1>7 DEF TypeOK, EvaluateTask, Called, NoRun
    <2>3. phase # "stopOperations"
        BY <2>1 DEF LockInv, WorkerIsSequential
    <2> QED
        BY <1>1, <1>7, <2>1, <2>2, <2>3
        DEF LockInv, AccountsHeld, TasksHeld, WorkerIsSequential, UsesAccount, Holding,
            EvaluateTask, locks, lifecycle
<1>8. ASSUME EndScan PROVE LockInv'
    <2>1. /\ scan'.pc \in {"off", "idle"}
          /\ scan.pc \in {"evaluate", "idle"}
          /\ run[Worker].pc = "none"
        BY <1>8 DEF EndScan, IdleScan
    <2>2. phase # "stopOperations"
        BY <2>1 DEF LockInv, WorkerIsSequential
    <2> QED
        BY <1>1, <1>8, <2>1, <2>2, ScanMoved DEF EndScan, lifecycle
<1> QED
    BY <1>2, <1>3, <1>4, <1>5, <1>6, <1>7, <1>8 DEF Scanning

(* A step of a run that neither takes nor gives back a lock.               *)
LEMMA RunMoved ==
    ASSUME LockInv, TypeOK', NEW actor \in Actor, NEW next,
           run' = [run EXCEPT ![actor] = next],
           UNCHANGED <<scan, phase, locks>>,
           next.pc # "request",
           next.pc \in Holding => run[actor].pc \in Holding /\ next.id = run[actor].id,
           actor = Worker /\ next.pc # "none" => run[Worker].pc # "none"
    PROVE  LockInv'
<1>1. run \in [Actor -> Run]
    BY DEF LockInv, TypeOK
<1>2. \A x \in Actor : run'[x] = IF x = actor THEN next ELSE run[x]
    BY <1>1
<1>3. AccountsHeld'
    BY <1>2 DEF LockInv, AccountsHeld, UsesAccount, locks
<1>4. TasksHeld'
    BY <1>2 DEF LockInv, TasksHeld, locks
<1>5. WorkerIsSequential'
    BY <1>2, ConstantTypes DEF LockInv, WorkerIsSequential, Actor
<1> QED
    BY <1>3, <1>4, <1>5 DEF LockInv

(* The end of a run, which holds no account by then.                       *)
LEMMA RunEnded ==
    ASSUME LockInv, TypeOK', NEW actor \in Actor,
           run' = [run EXCEPT ![actor] = NoRun],
           taskLocks' = Unlocked(actor),
           UNCHANGED <<scan, phase, accountLocks>>
    PROVE  LockInv'
<1>1. run \in [Actor -> Run] /\ taskLocks \in [TaskID -> Actor \cup {Free}]
    BY DEF LockInv, TypeOK
<1>2. \A x \in Actor : run'[x] = IF x = actor THEN NoRun ELSE run[x]
    BY <1>1
<1>3. AccountsHeld'
    BY <1>2 DEF LockInv, AccountsHeld, UsesAccount, NoRun
<1>4. TasksHeld'
    <2> SUFFICES ASSUME NEW x \in Actor, run'[x].pc \in Holding, run'[x].id # NoTask
                 PROVE  taskLocks'[run'[x].id] = x
        BY DEF TasksHeld
    <2>1. x # actor /\ run'[x] = run[x]
        BY <1>2 DEF NoRun, Holding
    <2>2. taskLocks[run[x].id] = x /\ run[x].id \in TaskID
        BY <1>1, <2>1 DEF LockInv, TasksHeld, Run
    <2> QED
        BY <2>1, <2>2 DEF Unlocked
<1>5. WorkerIsSequential'
    BY <1>2, ConstantTypes DEF LockInv, WorkerIsSequential, NoRun
<1> QED
    BY <1>3, <1>4, <1>5 DEF LockInv

(* A call to executeTask from outside the scan loop.                       *)
LEMMA CallsLocks ==
    ASSUME LockInv,
           \/ \E t \in TaskID : FireStartup(t)
           \/ \E m \in Manual : Waking(m)
    PROVE  LockInv'
<1>1. TypeOK /\ TypeOK'
    BY CallsType DEF LockInv
<1>2. ASSUME NEW t \in TaskID, FireStartup(t) PROVE LockInv'
    <2> DEFINE next == Called(tasks[t], t, "startup", {})
    <2>1. t \in Actor /\ t # Worker /\ next.pc = "lock"
        BY ActorsDiffer DEF Actor, Called, NoRun
    <2>2. CASE run' = [run EXCEPT ![t] = next]
        BY <1>1, <1>2, <2>1, <2>2, RunMoved DEF FireStartup, lifecycle, Holding
    <2>3. CASE run' = run
        BY <1>1, <1>2, <2>3, LocksUntouched DEF FireStartup, lifecycle, locks
    <2> QED
        BY <1>2, <2>2, <2>3 DEF FireStartup
<1>3. ASSUME NEW m \in Manual, NEW t \in TaskID, NEW selection \in Selections,
             WakeTask(m, t, selection)
      PROVE  LockInv'
    <2> DEFINE next == Called(tasks[t], t, "manual", selection)
    <2>1. m \in Actor /\ m # Worker /\ next.pc = "lock"
        BY ActorsDiffer DEF Actor, Called, NoRun
    <2> QED
        BY <1>1, <1>3, <2>1, RunMoved DEF WakeTask, lifecycle, Holding
<1>4. ASSUME NEW m \in Manual, NEW selection \in Selections, WakeAdHoc(m, selection)
      PROVE  LockInv'
    <2> DEFINE next == [NoRun EXCEPT !.pc = "lock", !.trigger = "manual",
                                     !.selected = selection]
    <2>1. m \in Actor /\ m # Worker /\ next.pc = "lock"
        BY ActorsDiffer DEF Actor, NoRun
    <2> QED
        BY <1>1, <1>4, <2>1, RunMoved DEF WakeAdHoc, lifecycle, Holding
<1> QED
    BY <1>2, <1>3, <1>4 DEF Waking

LEMMA LockTaskLocks ==
    ASSUME LockInv, NEW actor \in Actor, LockTask(actor)
    PROVE  LockInv'
<1>1. TypeOK /\ TypeOK' /\ run \in [Actor -> Run] /\ taskLocks \in [TaskID -> Actor \cup {Free}]
    BY LockTaskType DEF LockInv, TypeOK
<1> DEFINE t == run[actor].id
<1>2. CASE Cancelled(actor) \/ ~TaskIsFree(t)
    <2>1. run' = [run EXCEPT ![actor] = NoRun] /\ UNCHANGED <<scan, phase, locks>>
        BY <1>2 DEF LockTask, lifecycle, locks
    <2>2. NoRun.pc = "none" /\ NoRun.pc \notin Holding
        BY DEF NoRun, Holding
    <2> QED
        BY <1>1, <2>1, <2>2, RunMoved
<1>3. CASE ~(Cancelled(actor) \/ ~TaskIsFree(t))
    <2>1. /\ run' = [run EXCEPT ![actor].pc = "listing", ![actor].started = now]
          /\ taskLocks' = [u \in TaskID |-> IF u = t THEN actor ELSE taskLocks[u]]
          /\ UNCHANGED <<scan, phase, accountLocks>>
          /\ TaskIsFree(t) /\ run[actor].pc = "lock"
        BY <1>3 DEF LockTask, lifecycle
    <2>2. /\ run'[actor].pc = "listing" /\ run'[actor].id = t
          /\ \A x \in Actor : x # actor => run'[x] = run[x]
        BY <1>1, <2>1 DEF Run
    <2>3. AccountsHeld'
        BY <2>1, <2>2 DEF LockInv, AccountsHeld, UsesAccount
    <2>4. TasksHeld'
        <3> SUFFICES ASSUME NEW x \in Actor, run'[x].pc \in Holding, run'[x].id # NoTask
                     PROVE  taskLocks'[run'[x].id] = x
            BY DEF TasksHeld
        <3>1. CASE x = actor
            BY <1>1, <2>1, <2>2, <3>1 DEF Run
        <3>2. CASE x # actor
            <4>1. run'[x] = run[x] /\ run[x].id \in TaskID /\ taskLocks[run[x].id] = x
                BY <1>1, <2>2, <3>2 DEF LockInv, TasksHeld, Run
            <4>2. run[x].id # t
                BY <2>1, <4>1, FreeIsNoActor, WakeupAssumption DEF TaskIsFree
            <4> QED
                BY <2>1, <4>1, <4>2
        <3> QED
            BY <3>1, <3>2
    <2>5. WorkerIsSequential'
        BY <2>1, <2>2, ConstantTypes DEF LockInv, WorkerIsSequential, Actor
    <2> QED
        BY <1>1, <2>3, <2>4, <2>5 DEF LockInv
<1> QED
    BY <1>2, <1>3

LEMMA ListCandidatesLocks ==
    ASSUME LockInv, NEW actor \in Actor, ListCandidates(actor)
    PROVE  LockInv'
<1>1. TypeOK /\ TypeOK' /\ run[actor] \in Run /\ run[actor].pc = "listing"
    BY ListCandidatesType DEF LockInv, TypeOK, ListCandidates
<1>2. PICK next :
          /\ run' = [run EXCEPT ![actor] = next]
          /\ taskLocks' = IF next = NoRun THEN Unlocked(actor) ELSE taskLocks
          /\ next = NoRun \/ (next.pc \in {"accounts", "finish"} /\ next.id = run[actor].id)
    <2> DEFINE r == run[actor]
               accountsOf(listing) == [r EXCEPT !.pc = "accounts",
                                               !.todo = Candidates(r, listing)]
               finish == IF r.id = NoTask THEN NoRun
                     ELSE [r EXCEPT !.pc = "finish", !.completed = now]
    <2>1. finish = NoRun \/ (finish.pc = "finish" /\ finish.id = r.id)
        BY <1>1 DEF Run
    <2>2. \A listing : accountsOf(listing).pc = "accounts" /\ accountsOf(listing).id = r.id
        BY <1>1 DEF Run
    <2>3. \E listing \in HostListings(actor) :
              \E next \in {finish, NoRun, accountsOf(listing)} :
                  /\ run' = [run EXCEPT ![actor] = next]
                  /\ taskLocks' = IF next = NoRun THEN Unlocked(actor) ELSE taskLocks
        <3> HIDE DEF NoRun
        <3> QED
            BY DEF ListCandidates
    <2> HIDE DEF finish, accountsOf
    <2> QED
        BY <2>1, <2>2, <2>3
<1>3. UNCHANGED <<scan, phase, accountLocks>>
    BY DEF ListCandidates, lifecycle
<1>4. CASE next = NoRun
    BY <1>1, <1>2, <1>3, <1>4, RunEnded
<1>5. CASE next # NoRun
    <2>1. UNCHANGED <<scan, phase, locks>>
        BY <1>2, <1>3, <1>5 DEF locks
    <2> QED
        BY <1>1, <1>2, <1>5, <2>1, RunMoved DEF Holding
<1> QED
    BY <1>4, <1>5

LEMMA StartAccountLocks ==
    ASSUME LockInv, NEW actor \in Actor, NEW a \in Account, StartAccount(actor, a)
    PROVE  LockInv'
<1>1. /\ TypeOK /\ TypeOK' /\ run \in [Actor -> Run] /\ run[actor].pc = "accounts"
      /\ accountLocks \in [Account -> Actor \cup {Free}]
      /\ UNCHANGED <<scan, phase, taskLocks>>
    BY AccountStepsType DEF LockInv, TypeOK, StartAccount, lifecycle
<1>2. CASE AccountIsFree(a)
    <2>1. /\ run' = [run EXCEPT ![actor].pc = "request", ![actor].at = a,
                                ![actor].todo = @ \ {a}]
          /\ accountLocks' = [accountLocks EXCEPT ![a] = actor]
          /\ accountLocks[a] = Free
        BY <1>2 DEF StartAccount, AccountIsFree
    <2>2. /\ run'[actor].pc = "request" /\ run'[actor].at = a /\ run'[actor].id = run[actor].id
          /\ \A x \in Actor : x # actor => run'[x] = run[x]
        BY <1>1, <2>1 DEF Run
    <2>3. AccountsHeld'
        <3> SUFFICES ASSUME NEW x \in Actor, NEW b \in Account, UsesAccount(x, b)'
                     PROVE  accountLocks'[b] = x
            BY DEF AccountsHeld
        <3>1. CASE UsesAccount(x, b)
            <4>1. accountLocks[b] = x /\ b # a
                BY <2>1, <3>1, FreeIsNoActor DEF LockInv, AccountsHeld
            <4> QED
                BY <1>1, <2>1, <4>1
        <3>2. CASE x = actor /\ b = a
            BY <1>1, <2>1, <3>2
        <3> QED
            BY <1>1, <2>2, <3>1, <3>2 DEF UsesAccount
    <2>4. TasksHeld'
        BY <1>1, <2>2 DEF LockInv, TasksHeld, Holding
    <2>5. WorkerIsSequential'
        BY <1>1, <2>2, ConstantTypes DEF LockInv, WorkerIsSequential, Actor
    <2> QED
        BY <1>1, <2>3, <2>4, <2>5 DEF LockInv
<1>3. CASE ~AccountIsFree(a)
    <2> DEFINE next == [run[actor] EXCEPT !.todo = @ \ {a}, !.results[a] = "skipped"]
    <2>1. run' = [run EXCEPT ![actor] = next] /\ UNCHANGED <<scan, phase, locks>>
        BY <1>1, <1>3 DEF StartAccount, locks
    <2>2. next.pc = "accounts" /\ next.id = run[actor].id
        BY <1>1 DEF Run
    <2> HIDE DEF next
    <2> QED
        BY <1>1, <2>1, <2>2, RunMoved DEF Holding
<1> QED
    BY <1>2, <1>3

LEMMA FinishAccountLocks ==
    ASSUME LockInv, NEW actor \in Actor, FinishAccount(actor)
    PROVE  LockInv'
<1>1. /\ TypeOK /\ TypeOK' /\ run \in [Actor -> Run] /\ run[actor].pc = "request"
      /\ accountLocks \in [Account -> Actor \cup {Free}]
      /\ UNCHANGED <<scan, phase, taskLocks>>
      /\ accountLocks' = [accountLocks EXCEPT ![run[actor].at] = Free]
    BY AccountStepsType DEF LockInv, TypeOK, FinishAccount, lifecycle
<1>2. PICK result :
          run' = [run EXCEPT ![actor].pc = "accounts", ![actor].at = NoAccount,
                             ![actor].results[run[actor].at] = result]
    BY DEF FinishAccount
<1>3. /\ run'[actor].pc = "accounts" /\ run'[actor].id = run[actor].id
      /\ \A x \in Actor : x # actor => run'[x] = run[x]
    BY <1>1, <1>2 DEF Run
<1>4. AccountsHeld'
    <2> SUFFICES ASSUME NEW x \in Actor, NEW b \in Account, UsesAccount(x, b)'
                 PROVE  accountLocks'[b] = x
        BY DEF AccountsHeld
    <2>1. x # actor
        BY <1>1, <1>3, ConstantTypes DEF LockInv, WorkerIsSequential, UsesAccount
    <2>2. UsesAccount(x, b)
        BY <1>1, <1>3, <2>1 DEF UsesAccount
    <2>3. accountLocks[b] = x
        BY <2>2 DEF LockInv, AccountsHeld
    <2>4. b = run[actor].at => accountLocks[b] = actor
        BY <1>1 DEF LockInv, AccountsHeld, UsesAccount
    <2> QED
        BY <1>1, <2>1, <2>3, <2>4
<1>5. TasksHeld'
    BY <1>1, <1>3 DEF LockInv, TasksHeld, Holding
<1>6. WorkerIsSequential'
    BY <1>1, <1>3, ConstantTypes DEF LockInv, WorkerIsSequential, Actor
<1> QED
    BY <1>1, <1>4, <1>5, <1>6 DEF LockInv

LEMMA RunningLocks ==
    ASSUME LockInv, NEW actor \in Actor, Running(actor)
    PROVE  LockInv'
<1>1. ASSUME EndAccounts(actor) PROVE LockInv'
    <2> DEFINE next == [run[actor] EXCEPT !.pc = "finish", !.todo = {}, !.completed = now]
    <2>1. /\ TypeOK /\ TypeOK' /\ run[actor] \in Run /\ run[actor].pc = "accounts"
          /\ run' = [run EXCEPT ![actor] = next] /\ UNCHANGED <<scan, phase, locks>>
        BY <1>1, AccountStepsType DEF LockInv, TypeOK, EndAccounts, lifecycle
    <2>2. next.pc = "finish" /\ next.id = run[actor].id
        BY <2>1 DEF Run
    <2> HIDE DEF next
    <2> QED
        BY <2>1, <2>2, RunMoved DEF Holding
<1>2. ASSUME FinishRun(actor) PROVE LockInv'
    BY <1>2, FinishRunType, RunEnded DEF LockInv, FinishRun, lifecycle
<1> QED
    BY <1>1, <1>2, LockTaskLocks, ListCandidatesLocks, StartAccountLocks, FinishAccountLocks
    DEF Running

LEMMA EditingLocks ==
    ASSUME LockInv, NEW e \in Editor, Editing(e)
    PROVE  LockInv'
<1>1. TypeOK'
    BY EditingType DEF LockInv
<1>2. UNCHANGED <<run, scan, phase, locks>>
    BY DEF Editing, toggleTask, deleteTask, saveSingleTask, bulkTasks, Submit, saveTasks, lifecycle, locks
<1> QED
    BY <1>1, <1>2, LocksUntouched DEF locks

LEMMA RestartLocks ==
    ASSUME LockInv, Stop \/ StopOperations \/ Configure \/ Crash
    PROVE  LockInv'
<1>1. TypeOK /\ TypeOK' /\ run \in [Actor -> Run]
    BY RestartType DEF LockInv, TypeOK
<1>2. ASSUME Stop \/ StopOperations PROVE LockInv'
    <2>1. UNCHANGED <<run, scan, locks>>
        BY <1>2 DEF Stop, StopOperations
    <2>2. phase' = "stopOperations" => scan.pc = "off"
        BY <1>2 DEF Stop, StopOperations, WorkerStopped
    <2> QED
        BY <1>1, <2>1, <2>2
        DEF LockInv, AccountsHeld, TasksHeld, WorkerIsSequential, UsesAccount, locks
<1>3. ASSUME Configure PROVE LockInv'
    <2>1. UNCHANGED <<run, locks>> /\ scan'.pc = "idle" /\ phase' = "up"
        BY <1>3 DEF Configure, Load, IdleScan
    <2>2. run[Worker].pc = "none"
        BY <1>3 DEF Configure, LockInv, WorkerIsSequential
    <2> QED
        BY <1>1, <2>1, <2>2
        DEF LockInv, AccountsHeld, TasksHeld, WorkerIsSequential, UsesAccount, locks
<1>4. ASSUME Crash PROVE LockInv'
    <2>1. scan'.pc = "idle" /\ phase' = "up" /\ \A x \in Actor : run'[x].pc = "none"
        BY <1>4 DEF Crash, Load, IdleScan, NoRun
    <2> QED
        BY <1>1, <2>1, ConstantTypes
        DEF LockInv, AccountsHeld, TasksHeld, WorkerIsSequential, UsesAccount, Holding
<1> QED
    BY <1>2, <1>3, <1>4

-----------------------------------------------------------------------------
LEMMA LocksKept == ASSUME LockInv, [Next]_vars PROVE LockInv'
<1>1. ASSUME Tick PROVE LockInv'
    BY <1>1, TickType, LocksUntouched DEF LockInv, Tick, locks, lifecycle
<1>2. ASSUME UNCHANGED vars PROVE LockInv'
    <2>1. TypeOK'
        BY <1>2 DEF LockInv, TypeOK, vars
    <2> QED
        BY <1>2, <2>1, LocksUntouched DEF vars
<1> QED
    BY <1>1, <1>2, ScanLocks, CallsLocks, RunningLocks, EditingLocks, RestartLocks DEF Next

\* The lock discipline of the runtime is an invariant.
THEOREM LocksHeld == Spec => []LockInv
BY InitLocks, LocksKept, PTL DEF Spec

\* No two actors ever talk to the services for one account at once: each of
\* them owns the account's lock (accountLock in executeTask and
\* refreshQuotaForTasks), and the worker does not run a task and refresh an
\* account at the same time.
THEOREM AccountsAreExclusive == Spec => []ExclusiveAccount
<1>1. LockInv => ExclusiveAccount
    BY DEF LockInv, AccountsHeld, ExclusiveAccount
<1> QED
    BY <1>1, LocksHeld, PTL

\* Two runs of one task never overlap: a run past its TryLock owns the lock of
\* its task until it ends (taskLock in executeTask).
THEOREM TasksRunOnce == Spec => []OneRunPerTask
<1>1. LockInv => OneRunPerTask
    BY DEF LockInv, TasksHeld, OneRunPerTask
<1> QED
    BY <1>1, LocksHeld, PTL

-----------------------------------------------------------------------------
(* Quota runs *)

(* Only the scan loop starts quota runs.                                   *)
QuotaRunsByWorker ==
    \A x \in Actor : run[x].pc # "none" /\ run[x].trigger = "quota_reset" => x = Worker

(* No refresh has failed for the accounts a quota run has yet to wake, nor  *)
(* for the one it is waking.                                                *)
WorkerIsFresh ==
    run[Worker].trigger = "quota_reset" =>
        /\ run[Worker].pc \in {"accounts", "request"} =>
               \A a \in run[Worker].todo : ~accounts[a].error
        /\ run[Worker].pc = "request" =>
               run[Worker].at \in Account /\ ~accounts[run[Worker].at].error

FreshInv == LockInv /\ QuotaRunsByWorker /\ WorkerIsFresh

(* A step that leaves the worker's run and the refresh errors alone.       *)
LEMMA FreshKept ==
    ASSUME FreshInv, LockInv', QuotaRunsByWorker', run'[Worker] = run[Worker],
           \A a \in Account : accounts'[a].error = accounts[a].error
    PROVE  FreshInv'
<1>1. run[Worker] \in Run
    BY ConstantTypes DEF FreshInv, LockInv, TypeOK
<1> QED
    BY <1>1 DEF FreshInv, WorkerIsFresh, Run

(* A step of one run.                                                      *)
LEMMA OneRunMoved ==
    ASSUME FreshInv, NEW actor \in Actor, NEW next, run' = [run EXCEPT ![actor] = next],
           next.pc # "none" =>
               \/ next.trigger = run[actor].trigger /\ run[actor].pc # "none"
               \/ next.trigger # "quota_reset"
               \/ actor = Worker
    PROVE  /\ QuotaRunsByWorker'
           /\ run'[actor] = next
           /\ actor # Worker => run'[Worker] = run[Worker]
<1>1. run \in [Actor -> Run]
    BY DEF FreshInv, LockInv, TypeOK
<1>2. \A x \in Actor : run'[x] = IF x = actor THEN next ELSE run[x]
    BY <1>1
<1> QED
    BY <1>2, ConstantTypes DEF FreshInv, QuotaRunsByWorker

LEMMA ScanFresh == ASSUME FreshInv, Scanning PROVE FreshInv'
<1>1. LockInv /\ LockInv'
    BY ScanLocks DEF FreshInv
<1>2. ASSUME StartScan \/ ListForRefresh \/ (\E a \in Account : RefreshNext(a))
             \/ StartEvaluation \/ EndScan
      PROVE  FreshInv'
    <2>1. UNCHANGED <<run, accounts>>
        BY <1>2 DEF StartScan, ListForRefresh, RefreshNext, StartEvaluation, EndScan, state
    <2>2. QuotaRunsByWorker'
        BY <2>1 DEF FreshInv, QuotaRunsByWorker
    <2> QED
        BY <1>1, <2>1, <2>2, FreshKept
<1>3. ASSUME FinishRefresh PROVE FreshInv'
    <2>1. run' = run /\ run[Worker].pc = "none"
        BY <1>1, <1>3 DEF FinishRefresh, LockInv, WorkerIsSequential
    <2> QED
        BY <1>1, <2>1 DEF FreshInv, QuotaRunsByWorker, WorkerIsFresh
<1>4. ASSUME NEW t \in TaskID, EvaluateTask(t) PROVE FreshInv'
    <2>1. accounts' = accounts /\ run \in [Actor -> Run]
        BY <1>1, <1>4 DEF EvaluateTask, state, LockInv, TypeOK
    <2>2. CASE run' = run
        BY <1>1, <2>1, <2>2, FreshKept DEF FreshInv, QuotaRunsByWorker
    <2>3. CASE run' # run
        <3>1. \A task, trigger, selected : Called(task, t, trigger, selected).pc = "lock"
            BY DEF Called, NoRun
        <3>2. PICK trigger, selected :
                  run' = [run EXCEPT ![Worker] =
                             Called(scan.snapshot[t], t, trigger, selected)]
            BY <1>4, <2>3 DEF EvaluateTask
        <3> DEFINE next == Called(scan.snapshot[t], t, trigger, selected)
        <3>3. run' = [run EXCEPT ![Worker] = next] /\ next.pc = "lock"
            BY <3>1, <3>2
        <3> HIDE DEF next
        <3>4. QuotaRunsByWorker' /\ run'[Worker].pc = "lock"
            BY <3>3, OneRunMoved, ConstantTypes
        <3> QED
            BY <1>1, <3>4 DEF FreshInv, WorkerIsFresh
    <2> QED
        BY <2>2, <2>3
<1> QED
    BY <1>2, <1>3, <1>4 DEF Scanning

LEMMA CallsFresh ==
    ASSUME FreshInv,
           \/ \E t \in TaskID : FireStartup(t)
           \/ \E m \in Manual : Waking(m)
    PROVE  FreshInv'
<1>1. LockInv' /\ accounts' = accounts
    BY CallsLocks DEF FreshInv, FireStartup, Waking, WakeTask, WakeAdHoc, state
<1>2. ASSUME NEW t \in TaskID, FireStartup(t) PROVE FreshInv'
    <2> DEFINE next == Called(tasks[t], t, "startup", {})
    <2>1. t \in Actor /\ t # Worker /\ next.trigger = "startup"
        BY ActorsDiffer DEF Actor, Called, NoRun
    <2>2. CASE run' = [run EXCEPT ![t] = next]
        BY <1>1, <2>1, <2>2, OneRunMoved, FreshKept
    <2>3. CASE run' = run
        BY <1>1, <2>3, FreshKept DEF FreshInv, QuotaRunsByWorker
    <2> QED
        BY <1>2, <2>2, <2>3 DEF FireStartup
<1>3. ASSUME NEW m \in Manual, NEW t \in TaskID, NEW selection \in Selections,
             WakeTask(m, t, selection)
      PROVE  FreshInv'
    <2> DEFINE next == Called(tasks[t], t, "manual", selection)
    <2>1. m \in Actor /\ m # Worker /\ next.trigger = "manual"
        BY ActorsDiffer DEF Actor, Called, NoRun
    <2>2. run' = [run EXCEPT ![m] = next]
        BY <1>3 DEF WakeTask
    <2> QED
        BY <1>1, <2>1, <2>2, OneRunMoved, FreshKept
<1>4. ASSUME NEW m \in Manual, NEW selection \in Selections, WakeAdHoc(m, selection)
      PROVE  FreshInv'
    <2> DEFINE next == [NoRun EXCEPT !.pc = "lock", !.trigger = "manual",
                                     !.selected = selection]
    <2>1. m \in Actor /\ m # Worker /\ next.trigger = "manual"
        BY ActorsDiffer DEF Actor, NoRun
    <2>2. run' = [run EXCEPT ![m] = next]
        BY <1>4 DEF WakeAdHoc
    <2> HIDE DEF next
    <2> QED
        BY <1>1, <2>1, <2>2, OneRunMoved, FreshKept
<1> QED
    BY <1>2, <1>3, <1>4 DEF Waking

(* The accounts a quota run picks after its listing are due.               *)
LEMMA CandidatesAreFresh ==
    ASSUME NEW r, NEW listing, r.trigger = "quota_reset"
    PROVE  \A a \in Candidates(r, listing) : a \in Account /\ ~accounts[a].error
BY DEF Candidates, quotaDueReset

(* Listing leaves the next step of a run to the outcome of the listing.    *)
LEMMA Listed ==
    ASSUME TypeOK, NEW actor \in Actor, ListCandidates(actor)
    PROVE  \E listing \in HostListings(actor), next \in Run :
               /\ run' = [run EXCEPT ![actor] = next]
               /\ \/ next = NoRun
                  \/ next.pc = "finish" /\ next.trigger = run[actor].trigger
                  \/ /\ next.pc = "accounts" /\ next.trigger = run[actor].trigger
                     /\ next.todo = Candidates(run[actor], listing)
                     /\ next.trigger = "quota_reset" => StillQuotaTask(run[actor])
<1> DEFINE r == run[actor]
           accountsOf(listing) == [r EXCEPT !.pc = "accounts", !.todo = Candidates(r, listing)]
           finish == IF r.id = NoTask THEN NoRun
                     ELSE [r EXCEPT !.pc = "finish", !.completed = now]
<1>1. r \in Run /\ now \in Nat
    BY DEF TypeOK
<1>2. finish \in Run
      /\ (finish = NoRun \/ (finish.pc = "finish" /\ finish.trigger = r.trigger))
    BY <1>1, ConstantTypes DEF Run
<1>3. \A listing : /\ accountsOf(listing) \in Run
                   /\ accountsOf(listing).pc = "accounts"
                   /\ accountsOf(listing).trigger = r.trigger
                   /\ accountsOf(listing).todo = Candidates(r, listing)
    BY <1>1, CandidatesType DEF Run
<1>4. \E listing \in HostListings(actor) :
          \E next \in {finish, NoRun, accountsOf(listing)} :
              /\ run' = [run EXCEPT ![actor] = next]
              /\ \/ next \in {finish, NoRun}
                 \/ r.trigger = "quota_reset" => StillQuotaTask(r)
    <2> HIDE DEF NoRun
    <2> QED
        BY DEF ListCandidates, NoListing
<1> HIDE DEF finish, accountsOf
<1> QED
    BY <1>2, <1>3, <1>4, ConstantTypes

(* The other steps of a run keep its trigger; the worker's own run loses    *)
(* accounts one by one, and turns to an account it had yet to wake.         *)
LEMMA Moved ==
    ASSUME TypeOK, NEW actor \in Actor,
           \/ LockTask(actor)
           \/ \E a \in Account : StartAccount(actor, a)
           \/ FinishAccount(actor)
           \/ EndAccounts(actor)
           \/ FinishRun(actor)
    PROVE  \E next :
               /\ run' = [run EXCEPT ![actor] = next]
               /\ run[actor].pc # "none"
               /\ \/ next.pc = "none"
                  \/ /\ next.trigger = run[actor].trigger
                     /\ next.pc \in {"listing", "finish"}
                  \/ /\ next.trigger = run[actor].trigger
                     /\ run[actor].pc \in {"accounts", "request"}
                     /\ next.todo \subseteq run[actor].todo
                     /\ \/ next.pc = "accounts"
                        \/ next.pc = "request" /\ next.at \in run[actor].todo \cap Account
<1>1. run \in [Actor -> Run] /\ run[actor] \in Run
    BY DEF TypeOK
<1>2. CASE LockTask(actor)
    <2> DEFINE next == [run[actor] EXCEPT !.pc = "listing", !.started = now]
    <2>1. NoRun.pc = "none"
        BY DEF NoRun
    <2>2. next.trigger = run[actor].trigger /\ next.pc = "listing"
        BY <1>1 DEF Run
    <2>3. run' = [run EXCEPT ![actor] = NoRun] \/ run' = [run EXCEPT ![actor] = next]
        BY <1>1, <1>2 DEF LockTask
    <2> HIDE DEF next
    <2> QED
        BY <1>2, <2>1, <2>2, <2>3 DEF LockTask
<1>3. ASSUME NEW a \in Account, StartAccount(actor, a)
      PROVE  \E next : /\ run' = [run EXCEPT ![actor] = next]
                       /\ next.trigger = run[actor].trigger
                       /\ next.todo \subseteq run[actor].todo
                       /\ \/ next.pc = "accounts"
                          \/ next.pc = "request" /\ next.at \in run[actor].todo \cap Account
    <2> DEFINE taken == [run[actor] EXCEPT !.pc = "request", !.at = a, !.todo = @ \ {a}]
               skipped == [run[actor] EXCEPT !.todo = @ \ {a}, !.results[a] = "skipped"]
    <2>1. /\ taken.trigger = run[actor].trigger /\ taken.todo \subseteq run[actor].todo
          /\ taken.pc = "request" /\ taken.at = a
        BY <1>1 DEF Run
    <2>2. /\ skipped.trigger = run[actor].trigger /\ skipped.todo \subseteq run[actor].todo
          /\ skipped.pc = run[actor].pc
        BY <1>1 DEF Run
    <2>3. run' = [run EXCEPT ![actor] = taken] \/ run' = [run EXCEPT ![actor] = skipped]
        BY <1>1, <1>3 DEF StartAccount
    <2> HIDE DEF taken, skipped
    <2> QED
        BY <1>3, <2>1, <2>2, <2>3 DEF StartAccount
<1>4. CASE FinishAccount(actor)
    <2>1. PICK result : run' = [run EXCEPT ![actor].pc = "accounts", ![actor].at = NoAccount,
                                           ![actor].results[run[actor].at] = result]
        BY <1>4 DEF FinishAccount
    <2> DEFINE next == [run[actor] EXCEPT !.pc = "accounts", !.at = NoAccount,
                                          !.results[run[actor].at] = result]
    <2>2. /\ next.trigger = run[actor].trigger /\ next.todo = run[actor].todo
          /\ next.pc = "accounts"
        BY <1>1 DEF Run
    <2>3. run' = [run EXCEPT ![actor] = next]
        BY <1>1, <2>1
    <2> HIDE DEF next
    <2> QED
        BY <1>4, <2>2, <2>3 DEF FinishAccount
<1>5. CASE EndAccounts(actor)
    <2> DEFINE next == [run[actor] EXCEPT !.pc = "finish", !.todo = {}, !.completed = now]
    <2>1. next.trigger = run[actor].trigger /\ next.pc = "finish"
        BY <1>1 DEF Run
    <2>2. run' = [run EXCEPT ![actor] = next]
        BY <1>1, <1>5 DEF EndAccounts
    <2> HIDE DEF next
    <2> QED
        BY <1>5, <2>1, <2>2 DEF EndAccounts
<1>6. CASE FinishRun(actor)
    <2>1. run' = [run EXCEPT ![actor] = NoRun] /\ run[actor].pc = "finish"
        BY <1>6 DEF FinishRun
    <2>2. NoRun.pc = "none"
        BY DEF NoRun
    <2> QED
        BY <2>1, <2>2
<1>7. \A a \in Account : StartAccount(actor, a) => run[actor].pc = "accounts"
    BY DEF StartAccount
<1> QED
    BY <1>2, <1>3, <1>4, <1>5, <1>6, <1>7

(* No step of a run changes what the refreshes of an account failed.       *)
LEMMA RunningKeepsErrors ==
    ASSUME TypeOK, NEW actor \in Actor, Running(actor)
    PROVE  \A a \in Account : accounts'[a].error = accounts[a].error
<1>1. accounts \in [Account -> AccountState]
    BY DEF TypeOK
<1>2. \A r : \A a \in Account : WithResults(accounts, r)[a].error = accounts[a].error
    BY <1>1 DEF WithResults, AccountState
<1>3. CASE FinishRun(actor)
    BY <1>2, <1>3 DEF FinishRun
<1>4. CASE ~FinishRun(actor)
    BY <1>4 DEF Running, LockTask, ListCandidates, StartAccount, FinishAccount, EndAccounts, state
<1> QED
    BY <1>3, <1>4

LEMMA RunningFresh ==
    ASSUME FreshInv, NEW actor \in Actor, Running(actor)
    PROVE  FreshInv'
<1>1. TypeOK /\ LockInv' /\ run[actor] \in Run
    BY RunningLocks, ConstantTypes DEF FreshInv, LockInv, TypeOK
<1>2. \A a \in Account : accounts'[a].error = accounts[a].error
    BY <1>1, RunningKeepsErrors
<1>3. CASE ListCandidates(actor)
    <2>1. PICK listing \in HostListings(actor), next \in Run :
              /\ run' = [run EXCEPT ![actor] = next]
              /\ \/ next = NoRun
                 \/ next.pc = "finish" /\ next.trigger = run[actor].trigger
                 \/ /\ next.pc = "accounts" /\ next.trigger = run[actor].trigger
                    /\ next.todo = Candidates(run[actor], listing)
        BY <1>1, <1>3, Listed
    <2>2. run[actor].pc = "listing" /\ accounts' = accounts /\ NoRun.pc = "none"
        BY <1>3 DEF ListCandidates, state, NoRun
    <2>3. QuotaRunsByWorker' /\ run'[actor] = next
          /\ (actor # Worker => run'[Worker] = run[Worker])
        BY <2>1, <2>2, OneRunMoved
    <2>4. CASE actor # Worker
        BY <1>1, <1>2, <2>3, <2>4, FreshKept
    <2>5. CASE actor = Worker
        <3>1. next.trigger = "quota_reset" /\ next.pc = "accounts" =>
                  \A a \in next.todo : ~accounts'[a].error
            BY <2>1, <2>2, CandidatesAreFresh
        <3>2. next.pc # "request"
            BY <2>1, <2>2
        <3> QED
            BY <1>1, <2>3, <2>5, <3>1, <3>2 DEF FreshInv, WorkerIsFresh
    <2> QED
        BY <2>4, <2>5
<1>4. CASE ~ListCandidates(actor)
    <2>1. PICK next :
              /\ run' = [run EXCEPT ![actor] = next]
              /\ run[actor].pc # "none"
              /\ \/ next.pc = "none"
                 \/ /\ next.trigger = run[actor].trigger
                    /\ next.pc \in {"listing", "finish"}
                 \/ /\ next.trigger = run[actor].trigger
                    /\ run[actor].pc \in {"accounts", "request"}
                    /\ next.todo \subseteq run[actor].todo
                    /\ \/ next.pc = "accounts"
                       \/ next.pc = "request" /\ next.at \in run[actor].todo \cap Account
        BY <1>1, <1>4, Moved DEF Running
    <2>2. QuotaRunsByWorker' /\ run'[actor] = next
          /\ (actor # Worker => run'[Worker] = run[Worker])
        BY <2>1, OneRunMoved
    <2>3. CASE actor # Worker
        BY <1>1, <1>2, <2>2, <2>3, FreshKept
    <2>4. CASE actor = Worker
        <3>1. ASSUME next.trigger = "quota_reset", next.pc \in {"accounts", "request"}
              PROVE  /\ \A a \in next.todo : ~accounts'[a].error
                     /\ next.pc = "request" =>
                            next.at \in Account /\ ~accounts'[next.at].error
            <4>1. \A a \in run[Worker].todo : a \in Account /\ ~accounts[a].error
                BY <1>1, <2>1, <2>4, <3>1 DEF FreshInv, WorkerIsFresh, Run
            <4> QED
                BY <1>2, <2>1, <2>4, <3>1, <4>1
        <3> QED
            BY <1>1, <2>2, <2>4, <3>1 DEF FreshInv, WorkerIsFresh
    <2> QED
        BY <2>3, <2>4
<1> QED
    BY <1>3, <1>4

LEMMA RestartFresh ==
    ASSUME FreshInv, Stop \/ StopOperations \/ Configure \/ Crash
    PROVE  FreshInv'
<1>1. LockInv /\ LockInv'
    BY RestartLocks DEF FreshInv
<1>2. ASSUME Stop \/ StopOperations PROVE FreshInv'
    <2>1. UNCHANGED <<run, accounts>>
        BY <1>2 DEF Stop, StopOperations, state
    <2>2. QuotaRunsByWorker'
        BY <2>1 DEF FreshInv, QuotaRunsByWorker
    <2> QED
        BY <1>1, <2>1, <2>2, FreshKept
<1>3. ASSUME Configure PROVE FreshInv'
    <2>1. run' = run /\ run[Worker].pc = "none"
        BY <1>1, <1>3 DEF Configure, LockInv, WorkerIsSequential
    <2> QED
        BY <1>1, <2>1 DEF FreshInv, QuotaRunsByWorker, WorkerIsFresh
<1>4. ASSUME Crash PROVE FreshInv'
    <2>1. \A x \in Actor : run'[x].pc = "none"
        BY <1>4 DEF Crash, NoRun
    <2> QED
        BY <1>1, <2>1, ConstantTypes DEF FreshInv, QuotaRunsByWorker, WorkerIsFresh
<1> QED
    BY <1>2, <1>3, <1>4

-----------------------------------------------------------------------------
\* The strengthening of ProbesAreFresh: quota runs are the worker's, and its
\* refreshes wait until they end.
THEOREM FreshnessHeld == Spec => []FreshInv
<1>1. Init => FreshInv
    BY InitLocks, ConstantTypes
    DEF FreshInv, QuotaRunsByWorker, WorkerIsFresh, Init, NoRun
<1>2. ASSUME FreshInv, [Next]_vars PROVE FreshInv'
    <2>1. LockInv'
        <3>1. LockInv /\ [Next]_vars => LockInv'
            BY LocksKept
        <3> QED
            BY <1>2, <3>1 DEF FreshInv
    <2>2. CASE UNCHANGED <<run, accounts>>
        <3>1. QuotaRunsByWorker'
            BY <1>2, <2>2 DEF FreshInv, QuotaRunsByWorker
        <3> QED
            BY <1>2, <2>1, <2>2, <3>1, FreshKept
    <2>3. ASSUME Tick \/ (\E e \in Editor : Editing(e)) \/ UNCHANGED vars
          PROVE  UNCHANGED <<run, accounts>>
        BY <2>3 DEF Tick, Editing, toggleTask, deleteTask, saveSingleTask, bulkTasks, Submit,
                    saveTasks, state, vars
    <2> QED
        BY <1>2, <2>2, <2>3, ScanFresh, CallsFresh, RunningFresh, RestartFresh DEF Next
<1> QED
    BY <1>1, <1>2, PTL DEF Spec

\* A quota probe never runs on the data of a failed refresh: the accounts were
\* due, hence without an error, when the run picked them, and no refresh runs
\* beside the worker's own runs (executeTask's recheck, runDue).
THEOREM ProbesFindFreshData == Spec => []ProbesAreFresh
<1>1. FreshInv => ProbesAreFresh
    BY DEF FreshInv, QuotaRunsByWorker, WorkerIsFresh, ProbesAreFresh, Probing
<1> QED
    BY <1>1, FreshnessHeld, PTL
=============================================================================
