----------------------------- MODULE WakeupTypes -----------------------------
(***************************************************************************)
(* Type correctness of Wakeup, for every value of its constants: one lemma  *)
(* per helper, then one per action or group of actions, then one temporal   *)
(* step.                                                                    *)
(***************************************************************************)
EXTENDS Wakeup, QuotaLemmas

-----------------------------------------------------------------------------
(* Types of the initial values and of the helpers *)

LEMMA ConstantTypes ==
    /\ AbsentTask \in Task
    /\ UnknownAccount \in AccountState
    /\ NoRun \in Run
    /\ IdleScan \in Scan
    /\ NoRetry \in Retry
    /\ NoFailure \in Failure
    /\ Worker \in Actor /\ Manual \subseteq Actor /\ TaskID \subseteq Actor
    /\ NoTime \in Nat
<1>1. NoTime \in Nat /\ NoRetry \in Retry /\ NoFailure \in Failure
    BY DEF NoTime, NoRetry, Retry, NoFailure, Failure
<1>2. AbsentTask \in Task
    BY <1>1 DEF AbsentTask, Task, Kind
<1>3. UnknownAccount \in AccountState
    BY <1>1 DEF UnknownAccount, AccountState
<1>4. NoRun \in Run
    BY <1>1 DEF NoRun, Run, Result
<1>5. IdleScan \in Scan
    BY <1>1, <1>2 DEF IdleScan, Scan
<1>6. Worker \in Actor /\ Manual \subseteq Actor /\ TaskID \subseteq Actor
    BY DEF Actor
<1> QED
    BY <1>1, <1>2, <1>3, <1>4, <1>5, <1>6

LEMMA NextRunType ==
    ASSUME NEW task \in Task, NEW accts \in [Account -> AccountState], NEW at \in Nat
    PROVE  NextRunAt(task, accts, at) \in Nat
<1>1. task.kind \in Kind /\ task.lastRun \in Nat /\ task.created \in Nat
    BY DEF Task
<1>2. IntervalBase(task) + TaskInterval \in Nat
    BY <1>1, WakeupAssumption DEF IntervalBase
<1>3. ((at \div Day) + 1) * Day \in Nat
    BY WakeupAssumption
<1>4. quotaNextRunAt(task, accts, at) \in Nat
    BY NextRunAtType
<1> QED
    BY <1>1, <1>2, <1>3, <1>4 DEF NextRunAt, Kind, NoTime

LEMMA PreviewType ==
    ASSUME NEW ts \in [TaskID -> Task], NEW accts \in [Account -> AccountState],
           NEW at \in Nat
    PROVE  /\ WithPreview(ts, accts, at) \in [TaskID -> Task]
           /\ recomputeTaskNextRuns(ts, accts, at) \in [TaskID -> Task]
<1>1. ASSUME NEW t \in TaskID
      PROVE  /\ [ts[t] EXCEPT !.nextRun = quotaNextRunAt(ts[t], accts, at)] \in Task
             /\ [ts[t] EXCEPT !.nextRun = NextRunAt(ts[t], accts, at)] \in Task
    <2>1. quotaNextRunAt(ts[t], accts, at) \in Nat /\ NextRunAt(ts[t], accts, at) \in Nat
        BY NextRunAtType, NextRunType
    <2> QED
        BY <2>1 DEF Task
<1> QED
    BY <1>1 DEF WithPreview, recomputeTaskNextRuns

DiskType == [tasks : [TaskID -> Task], accounts : [Account -> AccountState]]

LEMMA SavedType ==
    ASSUME NEW ts \in [TaskID -> Task], NEW accts \in [Account -> AccountState]
    PROVE  Saved(ts, accts) \in DiskType
<1>1. \A t \in TaskID : Encoded(ts[t]) \in Task
    BY DEF Encoded, Task
<1> QED
    BY <1>1 DEF Saved, DiskType

LEMMA LoadedType ==
    ASSUME disk \in DiskType, now \in Nat
    PROVE  Loaded \in [TaskID -> Task] /\ Arm(Loaded) \in [TaskID -> Nat]
<1>1. Loaded \in [TaskID -> Task]
    BY PreviewType DEF Loaded, DiskType
<1> HIDE DEF Loaded
<1>2. ASSUME NEW ts \in [TaskID -> Task] PROVE Arm(ts) \in [TaskID -> Nat]
    BY DEF Arm, Task, NoTime
<1> QED
    BY <1>1, <1>2

LEMMA PersistType ==
    ASSUME disk \in DiskType, NEW ts \in [TaskID -> Task],
           NEW accts \in [Account -> AccountState], persistSnapshot(ts, accts)
    PROVE  disk' \in DiskType
BY SavedType DEF persistSnapshot

LEMMA ObserveType ==
    ASSUME passed \in [Account -> [Window -> Nat]],
           NEW accts \in [Account -> AccountState], NEW at, Observe(accts, at)
    PROVE  passed' \in [Account -> [Window -> Nat]]
BY DEF Observe, AccountState

-----------------------------------------------------------------------------
(* TypeOK *)

LEMMA InitType == ASSUME Init PROVE TypeOK
<1>1. accounts \in [Account -> AccountState] /\ now \in Nat
    BY ConstantTypes DEF Init
<1>2. disk \in DiskType
    BY <1>1, InputAssumption, SavedType DEF Init
<1>3. tasks \in [TaskID -> Task] /\ startup \in [TaskID -> Nat]
    BY <1>1, <1>2, LoadedType DEF Init
<1>4. scan \in Scan
    BY ConstantTypes DEF Init, Scan
<1>5. run \in [Actor -> Run]
    BY ConstantTypes DEF Init
<1>6. /\ taskLocks \in [TaskID -> Actor \cup {Free}]
      /\ accountLocks \in [Account -> Actor \cup {Free}]
      /\ requests \in [Editor -> TaskForms \cup {NoRequest}]
    BY DEF Init
<1>7. /\ attempted \in [TaskID -> [Account -> Nat]]
      /\ woken \in [TaskID -> [Account -> Nat]]
      /\ failed \in [TaskID -> [Account -> Failure]]
      /\ passed \in [Account -> [Window -> Nat]]
    BY ConstantTypes DEF Init, NoHistory
<1>8. phase \in {"up", "stopWorker", "stopOperations"} /\ restarts \in Nat
    BY DEF Init
<1> QED
    BY <1>1, <1>2, <1>3, <1>4, <1>5, <1>6, <1>7, <1>8 DEF TypeOK, DiskType

LEMMA TickType == ASSUME TypeOK, Tick PROVE TypeOK'
<1>1. passed' \in [Account -> [Window -> Nat]]
    BY ObserveType DEF TypeOK, Tick
<1> QED
    BY <1>1 DEF TypeOK, Tick, state, locks, lifecycle, history

USE DEF DiskType

LEMMA StartScanType == ASSUME TypeOK, StartScan PROVE TypeOK'
<1> DEFINE quotaTasks == {t \in TaskID : IsQuotaTask(tasks[t])}
           wanted == {a \in Account : \E t \in quotaTasks :
                          quotaTaskSelectsAccount(tasks[t], a)}
<1>1. scan \in Scan /\ tasks \in [TaskID -> Task]
    BY DEF TypeOK
<1>2. /\ [scan EXCEPT !.pc = "evaluate", !.snapshot = tasks] \in Scan
      /\ [scan EXCEPT !.pc = "listing", !.wanted = wanted] \in Scan
    BY <1>1 DEF Scan
<1>3. scan' \in Scan
    BY <1>2 DEF StartScan
<1> QED
    BY <1>3 DEF TypeOK, StartScan, state, locks, lifecycle, history

LEMMA ListForRefreshType == ASSUME TypeOK, ListForRefresh PROVE TypeOK'
<1>1. scan \in Scan /\ tasks \in [TaskID -> Task] /\ now \in Nat
    BY DEF TypeOK
<1>2. [scan EXCEPT !.pc = "evaluate", !.wanted = {}, !.snapshot = tasks] \in Scan
    BY <1>1 DEF Scan
<1>3. ASSUME NEW todo \in SUBSET Account
      PROVE  [scan EXCEPT !.pc = "refresh", !.wanted = {}, !.listedAt = now,
                          !.todo = todo] \in Scan
    BY <1>1 DEF Scan
<1>4. \A S : {a \in scan.wanted : S[a] \in {"eligible", "unavailable"}} \in SUBSET Account
    BY <1>1 DEF Scan
<1>5. scan' \in Scan
    BY <1>2, <1>3, <1>4 DEF ListForRefresh
<1> QED
    BY <1>5 DEF TypeOK, ListForRefresh, state, locks, lifecycle, history

LEMMA RefreshNextType ==
    ASSUME TypeOK, NEW a \in Account, RefreshNext(a)
    PROVE  TypeOK'
<1>1. scan \in Scan /\ now \in Nat /\ accountLocks \in [Account -> Actor \cup {Free}]
    BY DEF TypeOK
<1> DEFINE listed == [scan EXCEPT !.todo = @ \ {a}, !.live = @ \cup {a}]
<1>2. listed \in Scan
    BY <1>1 DEF Scan
<1>3. [listed EXCEPT !.pc = "query", !.at = a, !.attempt = now] \in Scan
    BY <1>1, <1>2 DEF Scan
<1>4. scan' \in Scan
    BY <1>2, <1>3 DEF RefreshNext
<1>5. accountLocks' \in [Account -> Actor \cup {Free}]
    BY <1>1, ConstantTypes DEF RefreshNext
<1> QED
    BY <1>4, <1>5 DEF TypeOK, RefreshNext, state, lifecycle, history

LEMMA OutcomeType ==
    ASSUME TypeOK, NEW a \in Account, NEW account \in RefreshOutcomes(a)
    PROVE  account \in AccountState
<1>1. accounts[a] \in AccountState /\ scan.attempt \in Nat
    BY DEF TypeOK, Scan
<1>2. RefreshFailed(accounts[a], scan.attempt) \in AccountState
    <2> DEFINE delay == quotaRetryDelay(accounts[a].failures + 1)
    <2>1. delay \in Nat
        BY RetryDelayType
    <2>2. RefreshFailed(accounts[a], scan.attempt) =
              [accounts[a] EXCEPT !.known = TRUE, !.error = TRUE, !.failures = @ + 1,
                                  !.nextRefresh = scan.attempt + delay]
        BY DEF RefreshFailed
    <2> HIDE DEF delay
    <2>3. accounts[a].failures + 1 \in Nat /\ scan.attempt + delay \in Nat
        BY <1>1, <2>1 DEF AccountState
    <2> QED
        BY <1>1, <2>2, <2>3 DEF AccountState
<1>3. ASSUME NEW answer \in UsageAnswers(a)
      PROVE  Refreshed(accounts[a], scan.attempt, answer) \in AccountState
    <2>1. answer \in [Window -> Nat]
        <3>1. \A w \in Window : Answers(accounts[a].reset[w], scan.attempt) \subseteq Nat
            BY <1>1, WakeupAssumption DEF Answers, AccountState, NoTime
        <3>2. /\ answer = [w \in Window |-> answer[w]]
              /\ \A w \in Window :
                    answer[w] \in Answers(accounts[a].reset[w], scan.attempt)
            BY DEF UsageAnswers
        <3> QED
            BY <3>1, <3>2
    <2>2. [w \in Window |-> rememberElapsedReset(accounts[a].elapsed[w],
                accounts[a].reset[w], answer[w], now)] \in [Window -> Nat]
        BY <1>1, RememberType DEF AccountState
    <2>3. scan.attempt + RefreshInterval \in Nat
        BY <1>1, QuotaRulesAssumption
    <2> QED
        BY <1>1, <2>1, <2>2, <2>3 DEF Refreshed, AccountState
<1> QED
    BY <1>2, <1>3 DEF RefreshOutcomes

LEMMA FinishRefreshType == ASSUME TypeOK, FinishRefresh PROVE TypeOK'
<1>1. scan \in Scan /\ accountLocks \in [Account -> Actor \cup {Free}]
    BY DEF TypeOK
<1>2. PICK account \in RefreshOutcomes(scan.at) :
          /\ accounts' = [accounts EXCEPT ![scan.at] = account]
          /\ tasks' = WithPreview(tasks, accounts', scan.attempt)
          /\ persistSnapshot(tasks', accounts')
          /\ Observe(accounts', now)
    BY DEF FinishRefresh
<1>3. accounts' \in [Account -> AccountState]
    <2>1. scan.at \in Account => account \in AccountState
        BY OutcomeType
    <2> QED
        BY <1>2, <2>1 DEF TypeOK
<1>4. tasks' \in [TaskID -> Task]
    <2>1. scan.attempt \in Nat
        BY <1>1 DEF Scan
    <2> QED
        BY <1>2, <1>3, <2>1, PreviewType DEF TypeOK
<1>5. disk' \in DiskType
    BY <1>2, <1>3, <1>4, PersistType DEF TypeOK
<1>6. passed' \in [Account -> [Window -> Nat]]
    BY <1>2, <1>3, ObserveType DEF TypeOK
<1>7. scan' \in Scan
    BY <1>1, ConstantTypes DEF FinishRefresh, Scan
<1>8. accountLocks' \in [Account -> Actor \cup {Free}]
    BY <1>1 DEF FinishRefresh
<1> QED
    BY <1>3, <1>4, <1>5, <1>6, <1>7, <1>8 DEF TypeOK, FinishRefresh, lifecycle, history

LEMMA StartEvaluationType == ASSUME TypeOK, StartEvaluation PROVE TypeOK'
<1>1. scan' \in Scan
    BY ConstantTypes DEF TypeOK, StartEvaluation, Scan
<1> QED
    BY <1>1 DEF TypeOK, StartEvaluation, state, locks, lifecycle, history

LEMMA CalledType ==
    ASSUME NEW task \in Task, NEW t \in TaskID,
           NEW trigger \in {"none", "schedule", "quota_reset", "startup", "manual"},
           NEW selected \in SUBSET Account
    PROVE  Called(task, t, trigger, selected) \in Run
<1>1. task.created \in Nat /\ task.accounts \in SUBSET Account
    BY DEF Task
<1> QED
    BY <1>1, ConstantTypes DEF Called, Run

LEMMA EvaluateTaskType ==
    ASSUME TypeOK, NEW t \in TaskID, EvaluateTask(t)
    PROVE  TypeOK'
<1>1. scan \in Scan /\ run \in [Actor -> Run] /\ scan.snapshot[t] \in Task
    BY DEF TypeOK, Scan
<1>2. scan' \in Scan
    BY <1>1, ConstantTypes DEF EvaluateTask, Scan
<1>3. DueLiveAccounts(scan.snapshot[t]) \in SUBSET Account
    BY <1>1 DEF DueLiveAccounts, Scan
<1>4. /\ Called(scan.snapshot[t], t, "quota_reset", DueLiveAccounts(scan.snapshot[t])) \in Run
      /\ Called(scan.snapshot[t], t, "schedule", {}) \in Run
    BY <1>1, <1>3, CalledType
<1>5. run' \in [Actor -> Run]
    BY <1>1, <1>4 DEF EvaluateTask
<1> QED
    BY <1>2, <1>5 DEF TypeOK, EvaluateTask, state, locks, lifecycle, history

LEMMA EndScanType == ASSUME TypeOK, EndScan PROVE TypeOK'
<1>1. scan' \in Scan
    BY ConstantTypes DEF EndScan, Scan
<1> QED
    BY <1>1 DEF TypeOK, EndScan, state, locks, lifecycle, history

LEMMA CallsType ==
    ASSUME TypeOK,
           \/ \E t \in TaskID : FireStartup(t)
           \/ \E m \in Manual : Waking(m)
    PROVE  TypeOK'
<1>1. ASSUME NEW t \in TaskID, FireStartup(t) PROVE TypeOK'
    <2>1. Called(tasks[t], t, "startup", {}) \in Run
        BY CalledType DEF TypeOK
    <2>2. run' \in [Actor -> Run]
        BY <1>1, <2>1 DEF TypeOK, FireStartup
    <2>3. startup' \in [TaskID -> Nat]
        BY <1>1, ConstantTypes DEF TypeOK, FireStartup
    <2> QED
        BY <1>1, <2>2, <2>3 DEF TypeOK, FireStartup, state, locks, lifecycle, history
<1>2. ASSUME NEW m \in Manual, NEW t \in TaskID, NEW selection \in Selections,
             WakeTask(m, t, selection)
      PROVE  TypeOK'
    <2>1. Called(tasks[t], t, "manual", selection) \in Run
        BY CalledType, WakeupAssumption DEF TypeOK
    <2>2. run' \in [Actor -> Run]
        BY <1>2, <2>1 DEF TypeOK, WakeTask
    <2> QED
        BY <1>2, <2>2 DEF TypeOK, WakeTask, state, locks, lifecycle, history
<1>3. ASSUME NEW m \in Manual, NEW selection \in Selections, WakeAdHoc(m, selection)
      PROVE  TypeOK'
    <2>1. selection \in SUBSET Account
        BY WakeupAssumption
    <2>2. [NoRun EXCEPT !.pc = "lock", !.trigger = "manual", !.selected = selection] \in Run
        BY <2>1, ConstantTypes DEF Run
    <2>3. run' \in [Actor -> Run]
        BY <1>3, <2>2 DEF TypeOK, WakeAdHoc
    <2> QED
        BY <1>3, <2>3 DEF TypeOK, WakeAdHoc, state, locks, lifecycle, history
<1> QED
    BY <1>1, <1>2, <1>3 DEF Waking

LEMMA UnlockedType ==
    ASSUME TypeOK, NEW actor
    PROVE  Unlocked(actor) \in [TaskID -> Actor \cup {Free}]
BY DEF TypeOK, Unlocked

LEMMA LockTaskType ==
    ASSUME TypeOK, NEW actor \in Actor, LockTask(actor)
    PROVE  TypeOK'
<1>1. run[actor] \in Run /\ now \in Nat
    BY DEF TypeOK
<1>2. [run[actor] EXCEPT !.pc = "listing", !.started = now] \in Run
    BY <1>1 DEF Run
<1>3. \/ run' = [run EXCEPT ![actor] = NoRun]
      \/ run' = [run EXCEPT ![actor] = [run[actor] EXCEPT !.pc = "listing", !.started = now]]
    BY <1>1 DEF TypeOK, LockTask, Run
<1>4. run' \in [Actor -> Run]
    BY <1>2, <1>3, ConstantTypes DEF TypeOK
<1>5. taskLocks' \in [TaskID -> Actor \cup {Free}]
    BY DEF TypeOK, LockTask
<1> QED
    BY <1>4, <1>5 DEF TypeOK, LockTask, state, lifecycle, history

LEMMA CandidatesType ==
    ASSUME NEW r, NEW listing
    PROVE  Candidates(r, listing) \in SUBSET Account
BY DEF Candidates

LEMMA ListCandidatesType ==
    ASSUME TypeOK, NEW actor \in Actor, ListCandidates(actor)
    PROVE  TypeOK'
<1> DEFINE r == run[actor]
           finish == IF r.id = NoTask THEN NoRun
                     ELSE [r EXCEPT !.pc = "finish", !.completed = now]
           accts(listing) == [r EXCEPT !.pc = "accounts", !.todo = Candidates(r, listing)]
<1>1. r \in Run /\ now \in Nat
    BY DEF TypeOK
<1>2. finish \in Run
    BY <1>1, ConstantTypes DEF Run
<1>3. \A listing : accts(listing) \in Run
    BY <1>1, CandidatesType DEF Run
<1> HIDE DEF finish, accts
<1>4. \E next \in Run : /\ run' = [run EXCEPT ![actor] = next]
                        /\ taskLocks' = IF next = NoRun THEN Unlocked(actor) ELSE taskLocks
    BY <1>2, <1>3, ConstantTypes DEF ListCandidates, finish, accts
<1>5. /\ run' \in [Actor -> Run]
      /\ taskLocks' \in [TaskID -> Actor \cup {Free}]
    BY <1>4, UnlockedType DEF TypeOK
<1> QED
    BY <1>5 DEF TypeOK, ListCandidates, state, lifecycle, history

LEMMA AccountStepsType ==
    ASSUME TypeOK, NEW actor \in Actor,
           \/ \E a \in Account : StartAccount(actor, a)
           \/ FinishAccount(actor)
           \/ EndAccounts(actor)
    PROVE  TypeOK'
<1>1. run[actor] \in Run /\ run \in [Actor -> Run]
    BY DEF TypeOK
<1>2. ASSUME NEW a \in Account, StartAccount(actor, a) PROVE TypeOK'
    <2>1. /\ [run[actor] EXCEPT !.pc = "request", !.at = a, !.todo = @ \ {a}] \in Run
          /\ [run[actor] EXCEPT !.todo = @ \ {a}, !.results[a] = "skipped"] \in Run
        BY <1>1 DEF Run, Result
    <2>2. \/ run' = [run EXCEPT ![actor] =
                        [run[actor] EXCEPT !.pc = "request", !.at = a, !.todo = @ \ {a}]]
          \/ run' = [run EXCEPT ![actor] =
                        [run[actor] EXCEPT !.todo = @ \ {a}, !.results[a] = "skipped"]]
        BY <1>1, <1>2 DEF StartAccount, Run
    <2>3. run' \in [Actor -> Run]
        BY <1>1, <2>1, <2>2
    <2>4. accountLocks' \in [Account -> Actor \cup {Free}]
        BY <1>2 DEF TypeOK, StartAccount
    <2> QED
        BY <1>2, <2>3, <2>4 DEF TypeOK, StartAccount, state, lifecycle, history
<1>3. ASSUME FinishAccount(actor) PROVE TypeOK'
    <2>1. PICK result \in IF Cancelled(actor) THEN {"transient"} ELSE RequestResults :
              run' = [run EXCEPT ![actor].pc = "accounts", ![actor].at = NoAccount,
                                 ![actor].results[run[actor].at] = result]
        BY <1>3 DEF FinishAccount
    <2>2. result \in Result
        BY WakeupAssumption DEF Result
    <2>3. [run[actor] EXCEPT !.pc = "accounts", !.at = NoAccount,
                             !.results[run[actor].at] = result] \in Run
        BY <1>1, <2>2 DEF Run
    <2>4. run' = [run EXCEPT ![actor] =
                     [run[actor] EXCEPT !.pc = "accounts", !.at = NoAccount,
                                        !.results[run[actor].at] = result]]
        BY <1>1, <2>1 DEF Run
    <2>5. run' \in [Actor -> Run]
        BY <1>1, <2>3, <2>4
    <2>6. accountLocks' \in [Account -> Actor \cup {Free}]
        BY <1>3 DEF TypeOK, FinishAccount
    <2> QED
        BY <1>3, <2>5, <2>6 DEF TypeOK, FinishAccount, state, lifecycle, history
<1>4. ASSUME EndAccounts(actor) PROVE TypeOK'
    <2>1. [run[actor] EXCEPT !.pc = "finish", !.todo = {}, !.completed = now] \in Run
        BY <1>1 DEF Run, TypeOK
    <2>2. run' = [run EXCEPT ![actor] =
                     [run[actor] EXCEPT !.pc = "finish", !.todo = {}, !.completed = now]]
        BY <1>1, <1>4 DEF EndAccounts, Run
    <2>3. run' \in [Actor -> Run]
        BY <1>1, <2>1, <2>2
    <2> QED
        BY <1>4, <2>3 DEF TypeOK, EndAccounts, state, locks, lifecycle, history
<1> QED
    BY <1>2, <1>3, <1>4

LEMMA FinishedType ==
    ASSUME NEW task \in Task, NEW accts \in [Account -> AccountState], NEW r \in Run
    PROVE  Finished(task, accts, r) \in Task
<1> DEFINE marked == IF task.kind = "quota_reset"
                     THEN markQuotaResetsHandled(task, accts, r.trigger, r.results, r.started,
                                                 r.completed)
                     ELSE task
           ran == [marked EXCEPT !.lastRun = r.completed]
<1>0. r.completed \in Nat
    BY DEF Run
<1>1. marked \in Task
    BY MarkType DEF Run
<1> HIDE DEF marked
<1>2. ran \in Task
    BY <1>0, <1>1 DEF Task
<1>3. Finished(task, accts, r) = [ran EXCEPT !.nextRun = NextRunAt(ran, accts, r.completed)]
    BY DEF Finished, marked
<1> HIDE DEF ran
<1>4. NextRunAt(ran, accts, r.completed) \in Nat
    BY <1>0, <1>2, NextRunType
<1> QED
    BY <1>2, <1>3, <1>4 DEF Task

LEMMA FailedAgainType ==
    ASSUME NEW last \in Failure, NEW reset \in Nat, NEW result, NEW completed \in Nat
    PROVE  /\ FailedAgain(last, reset, result, completed) \in Failure
           /\ FailedAgain(last, reset, result, completed).resetAt = reset
           /\ FailedAgain(last, reset, result, completed).completed = completed
<1> DEFINE again == FailedAgain(last, reset, result, completed)
<1>1. last.repeats \in Nat /\ last.repeats + 1 \in Nat
    BY DEF Failure
<1>2. again.repeats \in Nat
    BY <1>1 DEF FailedAgain
<1>3. again = [resetAt |-> reset, completed |-> completed, repeats |-> again.repeats,
               credential |-> result = "credential"]
    BY DEF FailedAgain
<1> HIDE DEF again
<1>4. again \in Failure /\ again.resetAt = reset /\ again.completed = completed
    <2> DEFINE repeats == again.repeats
    <2>1. again = [resetAt |-> reset, completed |-> completed, repeats |-> repeats,
                   credential |-> result = "credential"] /\ repeats \in Nat
        BY <1>2, <1>3
    <2> HIDE DEF repeats
    <2> QED
        BY <2>1 DEF Failure
<1> QED
    BY <1>4 DEF again

LEMMA RecordType ==
    ASSUME TypeOK, NEW r \in Run, Record(r)
    PROVE  /\ attempted' \in [TaskID -> [Account -> Nat]]
           /\ woken' \in [TaskID -> [Account -> Nat]]
           /\ failed' \in [TaskID -> [Account -> Failure]]
<1>1. r.started \in Nat /\ r.completed \in Nat
    BY DEF Run
<1>2. attempted' \in [TaskID -> [Account -> Nat]] /\ woken' \in [TaskID -> [Account -> Nat]]
    BY <1>1 DEF TypeOK, Record
<1>3. ASSUME NEW t \in TaskID, NEW a \in Account
      PROVE  FailedAgain(failed[t][a], LatestElapsed(tasks[t], a, accounts[a], r.started),
                         r.results[a], r.completed) \in Failure
    <2>1. failed[t][a] \in Failure
        BY DEF TypeOK
    <2>2. LatestElapsed(tasks[t], a, accounts[a], r.started) \in Nat
        BY <1>1, LatestElapsedMeaning DEF TypeOK
    <2> QED
        BY <1>1, <2>1, <2>2, FailedAgainType
<1>4. failed' \in [TaskID -> [Account -> Failure]]
    BY <1>3 DEF TypeOK, Record
<1> QED
    BY <1>2, <1>4

LEMMA FinishRunType ==
    ASSUME TypeOK, NEW actor \in Actor, FinishRun(actor)
    PROVE  TypeOK'
<1> DEFINE r == run[actor]
<1>1. r \in Run
    BY DEF TypeOK
<1>2. accounts' \in [Account -> AccountState]
    <2>1. ASSUME NEW account \in AccountState
          PROVE  [account EXCEPT !.known = TRUE] \in AccountState
        BY DEF AccountState
    <2>2. accounts' = WithResults(accounts, r)
        BY DEF FinishRun
    <2>3. \A a \in Account : accounts[a] \in AccountState
        BY DEF TypeOK
    <2> QED
        BY <2>1, <2>2, <2>3 DEF WithResults
<1>3. tasks' \in [TaskID -> Task]
    <2>1. \A t \in TaskID : Finished(tasks[t], accounts', r) \in Task
        BY <1>1, <1>2, FinishedType DEF TypeOK
    <2> QED
        BY <2>1 DEF TypeOK, FinishRun
<1>4. disk' \in DiskType
    BY <1>2, <1>3, PersistType DEF TypeOK, FinishRun
<1>5. /\ attempted' \in [TaskID -> [Account -> Nat]]
      /\ woken' \in [TaskID -> [Account -> Nat]]
      /\ failed' \in [TaskID -> [Account -> Failure]]
    BY <1>1, RecordType DEF FinishRun
<1>6. run' \in [Actor -> Run] /\ taskLocks' \in [TaskID -> Actor \cup {Free}]
    BY ConstantTypes, UnlockedType DEF TypeOK, FinishRun
<1> QED
    BY <1>2, <1>3, <1>4, <1>5, <1>6 DEF TypeOK, FinishRun, lifecycle

LEMMA RunningType ==
    ASSUME TypeOK, NEW actor \in Actor, Running(actor)
    PROVE  TypeOK'
BY LockTaskType, ListCandidatesType, AccountStepsType, FinishRunType DEF Running

LEMMA ScanningType == ASSUME TypeOK, Scanning PROVE TypeOK'
BY StartScanType, ListForRefreshType, RefreshNextType, FinishRefreshType,
   StartEvaluationType, EvaluateTaskType, EndScanType DEF Scanning

LEMMA FormsType ==
    ASSUME TypeOK
    PROVE  /\ CurrentForms \in TaskForms
           /\ \A t \in TaskID, enabled \in BOOLEAN : tasks[t].present =>
                 [CurrentForms EXCEPT ![t].enabled = enabled] \in TaskForms
           /\ \A t \in TaskID :
                 [u \in DOMAIN CurrentForms \ {t} |-> CurrentForms[u]] \in TaskForms
           /\ \A t \in TaskID, form \in Form :
                 [u \in DOMAIN CurrentForms \cup {t} |->
                     IF u = t THEN form ELSE CurrentForms[u]] \in TaskForms
<1> DEFINE S == {u \in TaskID : tasks[u].present}
<1>1. CurrentForms \in [S -> Form]
    BY DEF TypeOK, CurrentForms, FormOf, Form, Task
<1>2. DOMAIN CurrentForms = S /\ S \in SUBSET TaskID
    BY <1>1
<1> HIDE DEF S
<1>3. \A f : (\E T \in SUBSET TaskID : f \in [T -> Form]) => f \in TaskForms
    BY DEF TaskForms
<1>4. ASSUME NEW t \in TaskID, NEW enabled \in BOOLEAN, tasks[t].present
      PROVE  [CurrentForms EXCEPT ![t].enabled = enabled] \in [S -> Form]
    BY <1>1 DEF Form
<1>5. ASSUME NEW t \in TaskID
      PROVE  [u \in DOMAIN CurrentForms \ {t} |-> CurrentForms[u]] \in [S \ {t} -> Form]
    BY <1>1
<1>6. ASSUME NEW t \in TaskID, NEW form \in Form
      PROVE  [u \in DOMAIN CurrentForms \cup {t} |->
                 IF u = t THEN form ELSE CurrentForms[u]] \in [S \cup {t} -> Form]
    BY <1>1
<1>7. \A t \in TaskID : S \ {t} \in SUBSET TaskID /\ S \cup {t} \in SUBSET TaskID
    BY <1>2
<1> QED
    BY <1>1, <1>2, <1>3, <1>4, <1>5, <1>6, <1>7

LEMMA SubmitType ==
    ASSUME TypeOK, NEW e \in Editor, NEW forms \in TaskForms, Submit(e, forms)
    PROVE  TypeOK'
<1>1. requests' \in [Editor -> TaskForms \cup {NoRequest}]
    BY DEF TypeOK, Submit
<1> QED
    BY <1>1 DEF TypeOK, Submit, state, locks, lifecycle, history

LEMMA EditedType ==
    ASSUME TypeOK, NEW task \in Task, NEW form \in Form
    PROVE  Edited(task, form) \in Task
<1> DEFINE runtime == RuntimeFields(task)
           edited == [runtime EXCEPT !.enabled = form.enabled, !.kind = form.kind,
                                     !.accounts = form.accounts, !.windows = form.windows]
<1>1. runtime \in Task
    BY ConstantTypes DEF TypeOK, RuntimeFields, Task
<1> HIDE DEF runtime
<1>2. edited \in Task
    BY <1>1 DEF Task, Form
<1> HIDE DEF edited
<1>3. NextRunAt(edited, accounts, now) \in Nat
    BY <1>2, NextRunType DEF TypeOK
<1>4. [edited EXCEPT !.nextRun = NextRunAt(edited, accounts, now)] \in Task
    BY <1>2, <1>3 DEF Task
<1>5. Edited(task, form) \in
          {edited, [edited EXCEPT !.nextRun = NextRunAt(edited, accounts, now)]}
    BY DEF Edited, edited, runtime
<1> QED
    BY <1>2, <1>4, <1>5

LEMMA SaveTasksType ==
    ASSUME TypeOK, NEW e \in Editor, saveTasks(e)
    PROVE  TypeOK'
<1>1. requests' \in [Editor -> TaskForms \cup {NoRequest}]
    BY DEF TypeOK, saveTasks
<1>2. requests[e] \in TaskForms
    BY DEF TypeOK, saveTasks
<1>3. CASE phase = "stopOperations"
    BY <1>1, <1>3 DEF TypeOK, saveTasks, state, history, locks, lifecycle
<1>4. CASE phase # "stopOperations"
    <2>1. tasks' \in [TaskID -> Task]
        <3>1. \A t \in DOMAIN requests[e] : requests[e][t] \in Form
            BY <1>2 DEF TaskForms
        <3>2. \A t \in TaskID : t \in DOMAIN requests[e] =>
                                   Edited(tasks[t], requests[e][t]) \in Task
            BY <3>1, EditedType DEF TypeOK
        <3> QED
            BY <1>4, <3>2, ConstantTypes DEF saveTasks
    <2>2. disk' \in DiskType
        BY <1>4, <2>1, PersistType DEF TypeOK, saveTasks
    <2>3. /\ attempted' \in [TaskID -> [Account -> Nat]]
          /\ woken' \in [TaskID -> [Account -> Nat]]
          /\ failed' \in [TaskID -> [Account -> Failure]]
        <3>1. attempted' = [t \in TaskID |-> IF tasks[t].present THEN attempted[t]
                                             ELSE [a \in Account |-> NoTime]]
            BY <1>4 DEF saveTasks
        <3>2. woken' = [t \in TaskID |-> IF tasks[t].present THEN woken[t]
                                         ELSE [a \in Account |-> NoTime]]
            BY <1>4 DEF saveTasks
        <3>3. failed' = [t \in TaskID |-> IF tasks[t].present THEN failed[t]
                                          ELSE [a \in Account |-> NoFailure]]
            BY <1>4 DEF saveTasks
        <3> QED
            BY <3>1, <3>2, <3>3, ConstantTypes DEF TypeOK
    <2> QED
        BY <1>1, <1>4, <2>1, <2>2, <2>3 DEF TypeOK, saveTasks, locks, lifecycle
<1> QED
    BY <1>3, <1>4

LEMMA EditingType ==
    ASSUME TypeOK, NEW e \in Editor, Editing(e)
    PROVE  TypeOK'
<1>1. ASSUME NEW t \in TaskID, NEW enabled \in BOOLEAN, toggleTask(e, t, enabled)
      PROVE  TypeOK'
    BY <1>1, FormsType, SubmitType DEF toggleTask
<1>2. ASSUME NEW t \in TaskID, deleteTask(e, t) PROVE TypeOK'
    BY <1>2, FormsType, SubmitType DEF deleteTask
<1>3. ASSUME NEW t \in TaskID, NEW form \in Forms, saveSingleTask(e, t, form)
      PROVE  TypeOK'
    BY <1>3, FormsType, SubmitType, InputAssumption DEF saveSingleTask
<1>4. ASSUME NEW forms \in BulkForms, bulkTasks(e, forms) PROVE TypeOK'
    BY <1>4, SubmitType, InputAssumption DEF bulkTasks
<1> QED
    BY <1>1, <1>2, <1>3, <1>4, SaveTasksType DEF Editing

LEMMA RestartType ==
    ASSUME TypeOK, Stop \/ StopOperations \/ Configure \/ Crash
    PROVE  TypeOK'
<1>1. ASSUME Stop PROVE TypeOK'
    BY <1>1 DEF TypeOK, Stop, state, locks, history
<1>2. ASSUME StopOperations PROVE TypeOK'
    BY <1>2 DEF TypeOK, StopOperations, state, locks, history
<1>3. ASSUME Load
      PROVE  /\ accounts' \in [Account -> AccountState]
             /\ tasks' \in [TaskID -> Task]
             /\ startup' \in [TaskID -> Nat]
             /\ scan' \in Scan
             /\ phase' = "up"
    <2>1. disk \in DiskType /\ now \in Nat
        BY DEF TypeOK
    <2>2. scan' \in Scan
        BY <1>3, ConstantTypes DEF Load, Scan
    <2> QED
        BY <1>3, <2>1, <2>2, LoadedType DEF Load
<1>4. ASSUME Configure PROVE TypeOK'
    BY <1>3, <1>4 DEF TypeOK, Configure, Load, locks, history
<1>5. ASSUME Crash PROVE TypeOK'
    <2>1. /\ run' \in [Actor -> Run]
          /\ taskLocks' \in [TaskID -> Actor \cup {Free}]
          /\ accountLocks' \in [Account -> Actor \cup {Free}]
          /\ requests' \in [Editor -> TaskForms \cup {NoRequest}]
        BY <1>5, ConstantTypes DEF Crash
    <2> QED
        BY <1>3, <1>5, <2>1 DEF TypeOK, Crash, Load, history
<1> QED
    BY <1>1, <1>2, <1>4, <1>5

\* Every variable keeps its type, whatever the constants: in particular what is
\* read back from the state file is always a legal state of the runtime.
THEOREM TypeCorrect == Spec => []TypeOK
<1>1. Init => TypeOK
    BY InitType
<1>2. ASSUME TypeOK, [Next]_vars PROVE TypeOK'
    <2>1. CASE UNCHANGED vars
        BY <1>2, <2>1 DEF TypeOK, vars
    <2>2. CASE Next
        BY <1>2, <2>2, TickType, ScanningType, RunningType, CallsType, EditingType,
           RestartType DEF Next
    <2> QED
        BY <1>2, <2>1, <2>2
<1> QED
    BY <1>1, <1>2, PTL DEF Spec
=============================================================================
