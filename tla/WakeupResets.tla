---------------------------- MODULE WakeupResets ----------------------------
(***************************************************************************)
(* The reset boundaries of Wakeup, for every value of the constants: none  *)
(* that passed while it was stored is forgotten, a task consumes one only  *)
(* by an attempt, what a quota run has picked stays due until it ends, a   *)
(* failed probe waits for its backoff, and an answered boundary is not     *)
(* answered again.  Each theorem names the failures it excludes.           *)
(***************************************************************************)
EXTENDS WakeupProgress

(* The file holds the accounts as they are in memory.                      *)
AccountsSaved == disk.accounts = accounts

(* What is over at a stored boundary has been noticed, and what a window   *)
(* remembers is over.                                                      *)
BoundariesNoticed(reset, elapsed, seen) ==
    /\ elapsed <= now
    /\ reset <= now => reset <= seen

Remembered(reset, elapsed, seen) ==
    seen # NoTime => \E r \in {reset, elapsed} : seen <= r /\ r <= now

ResetInv ==
    /\ TypeOK
    /\ AccountsSaved
    /\ \A a \in Account, w \in Window :
           /\ BoundariesNoticed(accounts[a].reset[w], accounts[a].elapsed[w], passed[a][w])
           /\ Remembered(accounts[a].reset[w], accounts[a].elapsed[w], passed[a][w])

(* The instant Observe records for one window.                             *)
Seen(reset, seen) == IF reset <= now /\ reset > seen THEN reset ELSE seen

(* One window through one usage response, rememberElapsedReset included.   *)
LEMMA AnswerRemembers ==
    ASSUME NEW reset \in Nat, NEW elapsed \in Nat, NEW seen \in Nat,
           NEW attempt \in Nat, now \in Nat,
           BoundariesNoticed(reset, elapsed, seen), Remembered(reset, elapsed, seen),
           NEW answer \in Answers(reset, attempt), answer \in Nat
    PROVE  LET kept == rememberElapsedReset(elapsed, reset, answer, now)
           IN  /\ BoundariesNoticed(answer, kept, Seen(answer, seen))
               /\ Remembered(answer, kept, Seen(answer, seen))
<1>1. CASE answer = reset /\ reset # NoTime
    BY <1>1 DEF BoundariesNoticed, Remembered, Seen, rememberElapsedReset, NoTime
<1>2. CASE reset <= now /\ (answer = NoTime \/ answer > reset)
    BY <1>2 DEF BoundariesNoticed, Remembered, Seen, rememberElapsedReset, NoTime
<1> QED
    BY <1>1, <1>2 DEF Answers

(* Nothing new is seen while reset and elapsed stay as they are.           *)
LEMMA NothingSeen ==
    ASSUME NEW reset \in Nat, NEW elapsed \in Nat, NEW seen \in Nat, now \in Nat,
           BoundariesNoticed(reset, elapsed, seen)
    PROVE  Seen(reset, seen) = seen
BY DEF BoundariesNoticed, Seen

LEMMA TickRemembers ==
    ASSUME NEW reset \in Nat, NEW elapsed \in Nat, NEW seen \in Nat, now \in Nat,
           BoundariesNoticed(reset, elapsed, seen), Remembered(reset, elapsed, seen),
           now' = now + 1
    PROVE  LET later == IF reset <= now' /\ reset > seen THEN reset ELSE seen
           IN  /\ elapsed <= now'
               /\ reset <= now' => reset <= later
               /\ later # NoTime => \E r \in {reset, elapsed} : later <= r /\ r <= now'
BY DEF BoundariesNoticed, Remembered

-----------------------------------------------------------------------------
LEMMA SavedAccounts ==
    ASSUME SaveCanFail = FALSE, NEW ts, NEW accts, persistSnapshot(ts, accts)
    PROVE  disk'.accounts = accts
BY DEF persistSnapshot, Saved

LEMMA InitResets == ASSUME Init PROVE ResetInv
<1>1. TypeOK /\ AccountsSaved
    <2>1. \A ts : Saved(ts, accounts).accounts = accounts
        BY DEF Saved
    <2> QED
        BY <2>1, InitType DEF Init, AccountsSaved
<1>2. /\ now = 1
      /\ \A a \in Account, w \in Window :
             accounts[a].reset[w] = 0 /\ accounts[a].elapsed[w] = 0 /\ passed[a][w] = 0
    BY DEF Init, UnknownAccount, NoTime
<1> QED
    BY <1>1, <1>2 DEF ResetInv, BoundariesNoticed, Remembered, NoTime

(* A step that leaves the clock and every boundary alone.                  *)
LEMMA ResetsUntouched ==
    ASSUME ResetInv, TypeOK', AccountsSaved', now' = now, passed' = passed,
           \A a \in Account : /\ accounts'[a].reset = accounts[a].reset
                              /\ accounts'[a].elapsed = accounts[a].elapsed
    PROVE  ResetInv'
BY DEF ResetInv, BoundariesNoticed, Remembered

LEMMA TickResets == ASSUME ResetInv, Tick PROVE ResetInv'
<1>1. TypeOK /\ TypeOK' /\ accounts \in [Account -> AccountState] /\ now \in Nat
      /\ passed \in [Account -> [Window -> Nat]]
    BY TickType DEF ResetInv, TypeOK
<1>2. now' = now + 1 /\ UNCHANGED <<accounts, disk>>
    BY DEF Tick, state
<1>3. ASSUME NEW a \in Account, NEW w \in Window
      PROVE  passed'[a][w] = IF accounts[a].reset[w] <= now' /\ accounts[a].reset[w] > passed[a][w]
                             THEN accounts[a].reset[w] ELSE passed[a][w]
    BY <1>2 DEF Tick, Observe
<1>4. ASSUME NEW a \in Account, NEW w \in Window
      PROVE  accounts[a].reset[w] \in Nat /\ accounts[a].elapsed[w] \in Nat /\ passed[a][w] \in Nat
    BY <1>1 DEF AccountState
<1> QED
    BY <1>1, <1>2, <1>3, <1>4, TickRemembers
    DEF ResetInv, AccountsSaved, BoundariesNoticed, Remembered

(* A refresh that fails leaves the boundaries of its account alone, one     *)
(* that succeeds remembers each window by rememberElapsedReset.             *)
LEMMA OutcomeMeaning ==
    ASSUME TypeOK, NEW a \in Account, NEW account \in RefreshOutcomes(a)
    PROVE  \A w \in Window :
               \/ /\ account.reset[w] = accounts[a].reset[w]
                  /\ account.elapsed[w] = accounts[a].elapsed[w]
               \/ /\ account.reset[w] \in Answers(accounts[a].reset[w], scan.attempt)
                  /\ account.elapsed[w] =
                         rememberElapsedReset(accounts[a].elapsed[w], accounts[a].reset[w],
                                              account.reset[w], now)
<1>1. accounts[a] \in AccountState
    BY DEF TypeOK
<1>2. CASE account = RefreshFailed(accounts[a], scan.attempt)
    BY <1>1, <1>2 DEF RefreshFailed, AccountState
<1>3. ASSUME NEW answer \in UsageAnswers(a),
             account = Refreshed(accounts[a], scan.attempt, answer)
      PROVE  \A w \in Window :
                 /\ account.reset[w] \in Answers(accounts[a].reset[w], scan.attempt)
                 /\ account.elapsed[w] =
                        rememberElapsedReset(accounts[a].elapsed[w], accounts[a].reset[w],
                                             account.reset[w], now)
    <2>1. account.reset = answer
        BY <1>1, <1>3 DEF Refreshed, AccountState
    <2>2. account.elapsed = [w \in Window |->
              rememberElapsedReset(accounts[a].elapsed[w], accounts[a].reset[w], answer[w], now)]
        BY <1>1, <1>3 DEF Refreshed, AccountState
    <2> QED
        BY <2>1, <2>2 DEF UsageAnswers
<1> QED
    BY <1>2, <1>3 DEF RefreshOutcomes

LEMMA FinishRefreshResets ==
    ASSUME SaveCanFail = FALSE, ResetInv, FinishRefresh
    PROVE  ResetInv'
<1>1. TypeOK /\ TypeOK' /\ accounts \in [Account -> AccountState] /\ now \in Nat
      /\ passed \in [Account -> [Window -> Nat]] /\ accounts' \in [Account -> AccountState]
      /\ scan.attempt \in Nat /\ now' = now
    BY FinishRefreshType DEF ResetInv, TypeOK, Scan, FinishRefresh
<1>2. PICK account \in RefreshOutcomes(scan.at) :
          /\ accounts' = [accounts EXCEPT ![scan.at] = account]
          /\ persistSnapshot(tasks', accounts')
          /\ Observe(accounts', now)
    BY DEF FinishRefresh
<1>3. AccountsSaved'
    BY <1>2, SavedAccounts DEF AccountsSaved
<1>4. ASSUME NEW a \in Account, NEW w \in Window
      PROVE  /\ BoundariesNoticed(accounts[a].reset[w], accounts[a].elapsed[w], passed[a][w])'
             /\ Remembered(accounts[a].reset[w], accounts[a].elapsed[w], passed[a][w])'
    <2> DEFINE reset == accounts[a].reset[w]
               elapsed == accounts[a].elapsed[w]
               seen == passed[a][w]
    <2>1. reset \in Nat /\ elapsed \in Nat /\ seen \in Nat /\ reset' \in Nat /\ elapsed' \in Nat
        BY <1>1 DEF AccountState
    <2>2. BoundariesNoticed(reset, elapsed, seen) /\ Remembered(reset, elapsed, seen)
        BY DEF ResetInv
    <2>3. seen' = Seen(reset', seen)
        BY <1>2 DEF Observe, Seen
    <2>4. \/ reset' = reset /\ elapsed' = elapsed
          \/ /\ reset' \in Answers(reset, scan.attempt)
             /\ elapsed' = rememberElapsedReset(elapsed, reset, reset', now)
        <3>1. CASE a = scan.at
            BY <1>1, <1>2, <3>1, OutcomeMeaning
        <3>2. CASE a # scan.at
            BY <1>1, <1>2, <3>2
        <3> QED
            BY <3>1, <3>2
    <2>5. CASE reset' = reset /\ elapsed' = elapsed
        <3>1. seen' = seen
            BY <1>1, <2>1, <2>2, <2>3, <2>5, NothingSeen
        <3> QED
            BY <1>1, <2>2, <2>5, <3>1 DEF BoundariesNoticed, Remembered
    <2>6. CASE /\ reset' \in Answers(reset, scan.attempt)
               /\ elapsed' = rememberElapsedReset(elapsed, reset, reset', now)
        <3> DEFINE answer == reset'
                   kept == elapsed'
                   later == seen'
        <3>1. BoundariesNoticed(answer, kept, later) /\ Remembered(answer, kept, later)
            BY <1>1, <2>1, <2>2, <2>3, <2>6, AnswerRemembers
        <3> QED
            BY <1>1, <3>1 DEF BoundariesNoticed, Remembered
    <2> QED
        BY <2>4, <2>5, <2>6
<1> QED
    BY <1>1, <1>3, <1>4 DEF ResetInv

LEMMA RunningResets ==
    ASSUME SaveCanFail = FALSE, ResetInv, NEW actor \in Actor, Running(actor)
    PROVE  ResetInv'
<1>1. TypeOK /\ TypeOK' /\ accounts \in [Account -> AccountState]
    BY RunningType DEF ResetInv, TypeOK
<1>2. now' = now /\ passed' = passed
    BY DEF Running, LockTask, ListCandidates, StartAccount, FinishAccount, EndAccounts, FinishRun
<1>3. CASE FinishRun(actor)
    <2>1. AccountsSaved'
        BY <1>3, SavedAccounts DEF FinishRun, AccountsSaved
    <2>2. accounts' = WithResults(accounts, run[actor])
        BY <1>3 DEF FinishRun
    <2>3. \A a \in Account : /\ accounts'[a].reset = accounts[a].reset
                             /\ accounts'[a].elapsed = accounts[a].elapsed
        BY <1>1, <2>2 DEF WithResults, AccountState
    <2> QED
        BY <1>1, <1>2, <2>1, <2>3, ResetsUntouched
<1>4. CASE ~FinishRun(actor)
    <2>1. UNCHANGED <<accounts, disk>>
        BY <1>4 DEF Running, LockTask, ListCandidates, StartAccount, FinishAccount, EndAccounts, state
    <2>2. AccountsSaved'
        BY <2>1 DEF ResetInv, AccountsSaved
    <2> QED
        BY <1>1, <1>2, <2>1, <2>2, ResetsUntouched
<1> QED
    BY <1>3, <1>4

LEMMA SaveTasksResets ==
    ASSUME SaveCanFail = FALSE, ResetInv, NEW e \in Editor, saveTasks(e)
    PROVE  ResetInv'
<1>1. TypeOK /\ TypeOK' /\ now' = now /\ passed' = passed
    BY SaveTasksType DEF ResetInv, saveTasks
<1>2. CASE phase = "stopOperations"
    <2>1. UNCHANGED <<accounts, disk>>
        BY <1>2 DEF saveTasks, state
    <2>2. AccountsSaved'
        BY <2>1 DEF ResetInv, AccountsSaved
    <2> QED
        BY <1>1, <2>1, <2>2, ResetsUntouched
<1>3. CASE phase # "stopOperations"
    <2>1. accounts' = accounts /\ persistSnapshot(tasks', accounts)
        BY <1>3 DEF saveTasks
    <2>2. AccountsSaved'
        BY <2>1, SavedAccounts DEF AccountsSaved
    <2> QED
        BY <1>1, <2>1, <2>2, ResetsUntouched
<1> QED
    BY <1>2, <1>3

LEMMA RestartResets ==
    ASSUME ResetInv, Configure \/ Crash
    PROVE  ResetInv'
<1>1. TypeOK /\ TypeOK' /\ now' = now /\ passed' = passed /\ disk' = disk
      /\ accounts' = disk.accounts
    BY RestartType DEF ResetInv, Configure, Crash, Load
<1>2. accounts' = accounts
    BY <1>1 DEF ResetInv, AccountsSaved
<1>3. AccountsSaved'
    BY <1>1, <1>2 DEF ResetInv, AccountsSaved
<1> QED
    BY <1>1, <1>2, <1>3, ResetsUntouched

(* The other steps touch neither the clock nor the accounts, in memory or  *)
(* in the file.                                                            *)
LEMMA OthersReset ==
    ASSUME ResetInv, TypeOK', UNCHANGED <<now, accounts, disk, passed>>
    PROVE  ResetInv'
<1>1. AccountsSaved'
    BY DEF ResetInv, AccountsSaved
<1> QED
    BY <1>1, ResetsUntouched

-----------------------------------------------------------------------------
\* The strengthening of NoResetForgotten: while the file can be written it
\* holds the accounts as they are, and what a window remembers is over.
THEOREM ResetsHeld == ASSUME SaveCanFail = FALSE PROVE Spec => []ResetInv
<1>1. Init => ResetInv
    BY InitResets
<1>2. ASSUME ResetInv, [Next]_vars PROVE ResetInv'
    <2>1. ASSUME Scanning, ~FinishRefresh PROVE ResetInv'
        <3>1. UNCHANGED <<now, accounts, disk, passed>>
            BY <2>1 DEF Scanning, StartScan, ListForRefresh, RefreshNext, StartEvaluation,
                        EvaluateTask, EndScan, state
        <3> QED
            BY <1>2, <2>1, <3>1, ScanningType, OthersReset DEF ResetInv
    <2>2. ASSUME (\E t \in TaskID : FireStartup(t)) \/ (\E m \in Manual : Waking(m))
          PROVE  ResetInv'
        <3>1. UNCHANGED <<now, accounts, disk, passed>>
            BY <2>2 DEF FireStartup, Waking, WakeTask, WakeAdHoc, state
        <3> QED
            BY <1>2, <2>2, <3>1, CallsType, OthersReset DEF ResetInv
    <2>3. ASSUME NEW e \in Editor, Editing(e) PROVE ResetInv'
        <3>1. CASE saveTasks(e)
            BY <1>2, <3>1, SaveTasksResets
        <3>2. CASE ~saveTasks(e)
            <4>1. UNCHANGED <<now, accounts, disk, passed>>
                BY <2>3, <3>2 DEF Editing, toggleTask, deleteTask, saveSingleTask, bulkTasks,
                                  Submit, state
            <4> QED
                BY <1>2, <2>3, <4>1, EditingType, OthersReset DEF ResetInv
        <3> QED
            BY <3>1, <3>2
    <2>4. ASSUME Stop \/ StopOperations PROVE ResetInv'
        <3>1. UNCHANGED <<now, accounts, disk, passed>>
            BY <2>4 DEF Stop, StopOperations, state
        <3> QED
            BY <1>2, <2>4, <3>1, RestartType, OthersReset DEF ResetInv
    <2>5. ASSUME UNCHANGED vars PROVE ResetInv'
        <3>1. TypeOK' /\ UNCHANGED <<now, accounts, disk, passed>>
            BY <1>2, <2>5 DEF ResetInv, TypeOK, vars
        <3> QED
            BY <1>2, <3>1, OthersReset
    <2> QED
        BY <1>2, <2>1, <2>2, <2>3, <2>4, <2>5, TickResets, FinishRefreshResets, RunningResets,
           RestartResets DEF Next
<1> QED
    BY <1>1, <1>2, PTL DEF Spec

\* As long as the state file can be written, a boundary that passed while it was
\* stored stays visible to the tasks or is followed by a later one that passed,
\* through refreshes that roll the window forward or clear it, runs, edits,
\* reconfigurations and crashes (rememberElapsedReset, Save and Load).
THEOREM ResetsAreKept == ASSUME SaveCanFail = FALSE PROVE Spec => []NoResetForgotten
<1>1. ResetInv => NoResetForgotten
    BY DEF ResetInv, Remembered, NoResetForgotten
<1> QED
    BY <1>1, ResetsHeld, PTL

-----------------------------------------------------------------------------
(* What the history of a task records is over, and was over when the run    *)
(* that now holds the task's lock started.                                  *)
Before(t, instant, at, runs) ==
    /\ instant <= at
    /\ \A x \in Actor : runs[x].pc \in Holding /\ runs[x].id = t => instant <= runs[x].started

HistoryInv ==
    /\ PastInv
    /\ \A x \in Actor : run[x].pc \in Holding => run[x].started <= now
    /\ \A t \in TaskID, a \in Account :
           /\ Before(t, attempted[t][a], now, run)
           /\ Before(t, woken[t][a], now, run)
           /\ failed[t][a].completed <= now
           /\ failed[t][a].resetAt # NoTime =>
                  Before(t, failed[t][a].resetAt + ResetDelay, now, run)

LEMMA StartedStep ==
    ASSUME HistoryInv, [Next]_vars, NEW x \in Actor, run'[x].pc \in Holding
    PROVE  run'[x].started <= now
<1>1. TypeOK /\ run[x] \in Run /\ now \in Nat
    BY DEF HistoryInv, PastInv, LockInv, TypeOK
<1>2. RunStep(x) /\ (run[x].pc \in Holding => run[x].started <= now)
    BY <1>1, RunSteps DEF HistoryInv
<1> QED
    BY <1>1, <1>2 DEF RunStep, SameRun, Holding

LEMMA BeforeStep ==
    ASSUME HistoryInv, [Next]_vars, NEW t \in TaskID, NEW instant \in Nat,
           Before(t, instant, now, run)
    PROVE  Before(t, instant, now', run')
<1>1. TypeOK /\ now \in Nat /\ \A x \in Actor : run[x] \in Run
    BY DEF HistoryInv, PastInv, LockInv, TypeOK
<1>2. instant <= now'
    BY <1>1, ClockSteps DEF Before, Tick
<1>3. ASSUME NEW x \in Actor, run'[x].pc \in Holding, run'[x].id = t
      PROVE  instant <= run'[x].started
    BY <1>1, <1>3, RunSteps DEF RunStep, SameRun, Holding, Before
<1> QED
    BY <1>2, <1>3 DEF Before

(* Once a run is recorded nobody holds its task any more.                  *)
LEMMA BeforeFinish ==
    ASSUME HistoryInv, NEW actor \in Actor, FinishRun(actor), run[actor].id \in TaskID,
           NEW instant \in Nat, instant <= run[actor].started
    PROVE  Before(run[actor].id, instant, now', run')
<1>1. /\ run \in [Actor -> Run] /\ now \in Nat /\ run[actor].started \in Nat
      /\ run[actor].started <= now /\ now' = now
    BY DEF HistoryInv, PastInv, LockInv, TypeOK, Run, FinishRun, Holding
<1>2. ASSUME NEW x \in Actor, run'[x].pc \in Holding, run'[x].id = run[actor].id PROVE FALSE
    <2>1. run' = [run EXCEPT ![actor] = NoRun] /\ NoRun.pc = "none"
        BY DEF FinishRun, NoRun
    <2> HIDE DEF NoRun
    <2>2. x # actor /\ run'[x] = run[x]
        BY <1>1, <1>2, <2>1 DEF Holding
    <2> QED
        BY <1>2, <2>2, WakeupAssumption
        DEF HistoryInv, PastInv, LockInv, TasksHeld, Holding, FinishRun
<1> QED
    BY <1>1, <1>2 DEF Before

(* Who writes the history.                                                 *)
LEMMA HistorySteps ==
    ASSUME [Next]_vars
    PROVE  \/ UNCHANGED history
           \/ \E actor \in Actor : FinishRun(actor)
           \/ \E e \in Editor : saveTasks(e)
<1>1. ASSUME NEW actor \in Actor, Running(actor) PROVE FinishRun(actor) \/ UNCHANGED history
    BY <1>1 DEF Running, LockTask, ListCandidates, StartAccount, FinishAccount, EndAccounts
<1>2. ASSUME NEW e \in Editor, Editing(e) PROVE saveTasks(e) \/ UNCHANGED history
    BY <1>2 DEF Editing, toggleTask, deleteTask, saveSingleTask, bulkTasks, Submit
<1>3. Scanning \/ Tick \/ (\E t \in TaskID : FireStartup(t)) \/ (\E m \in Manual : Waking(m))
      \/ Stop \/ StopOperations \/ Configure \/ Crash \/ UNCHANGED vars
      => UNCHANGED history
    BY DEF Scanning, StartScan, ListForRefresh, RefreshNext, FinishRefresh, StartEvaluation,
           EvaluateTask, EndScan, Tick, FireStartup, Waking, WakeTask, WakeAdHoc, Stop,
           StopOperations, Configure, Crash, Load, vars, history
<1> QED
    BY <1>1, <1>2, <1>3 DEF Next

(* What the history says of one account of a task after the step.          *)
LEMMA RecordMeaning ==
    ASSUME TypeOK, NEW actor \in Actor, FinishRun(actor), NEW t \in TaskID, NEW a \in Account
    PROVE  LET r == run[actor]
           IN  /\ attempted'[t][a] = IF t = r.id /\ r.results[a] \in Attempted
                                     THEN r.started ELSE attempted[t][a]
               /\ woken'[t][a] = IF t = r.id /\ r.results[a] = "success"
                                 THEN r.started ELSE woken[t][a]
               /\ failed'[t][a] =
                      IF t = r.id /\ r.trigger = "quota_reset" /\ r.results[a] \in Retryable
                      THEN FailedAgain(failed[t][a],
                                       LatestElapsed(tasks[t], a, accounts[a], r.started),
                                       r.results[a], r.completed)
                      ELSE failed[t][a]
BY DEF FinishRun, Record

LEMMA HistoryEdited ==
    ASSUME TypeOK, NEW e \in Editor, saveTasks(e), NEW t \in TaskID, NEW a \in Account
    PROVE  \/ /\ attempted'[t][a] = attempted[t][a] /\ woken'[t][a] = woken[t][a]
              /\ failed'[t][a] = failed[t][a]
           \/ /\ attempted'[t][a] = NoTime /\ woken'[t][a] = NoTime
              /\ failed'[t][a] = NoFailure
              /\ ~tasks[t].present
BY DEF saveTasks, history

LEMMA HistoryKept == ASSUME HistoryInv, [Next]_vars PROVE HistoryInv'
<1>1. PastInv' /\ TypeOK /\ TypeOK' /\ now \in Nat /\ now' \in Nat
    <2>1. PastInv'
        BY PastKept DEF HistoryInv
    <2> QED
        BY <2>1 DEF HistoryInv, PastInv, LockInv, TypeOK
<1>2. now <= now'
    BY <1>1, ClockSteps DEF Tick
<1>3. ASSUME NEW x \in Actor, run'[x].pc \in Holding PROVE run'[x].started <= now'
    <2>1. run'[x].started \in Nat /\ run'[x].started <= now
        BY <1>1, <1>3, StartedStep DEF TypeOK, Run
    <2> QED
        BY <1>1, <1>2, <2>1
<1> DEFINE Sound(t, a) ==
        /\ Before(t, attempted'[t][a], now', run')
        /\ Before(t, woken'[t][a], now', run')
        /\ failed'[t][a].completed <= now'
        /\ failed'[t][a].resetAt # NoTime =>
               Before(t, failed'[t][a].resetAt + ResetDelay, now', run')
<1>4. ASSUME NEW t \in TaskID, NEW a \in Account PROVE Sound(t, a)
    <2>1. /\ attempted[t][a] \in Nat /\ woken[t][a] \in Nat /\ failed[t][a] \in Failure
          /\ failed[t][a].resetAt + ResetDelay \in Nat /\ failed[t][a].completed \in Nat
        BY <1>1, QuotaRulesAssumption DEF TypeOK, Failure
    <2>2. /\ Before(t, attempted[t][a], now', run')
          /\ Before(t, woken[t][a], now', run')
          /\ failed[t][a].resetAt # NoTime =>
                 Before(t, failed[t][a].resetAt + ResetDelay, now', run')
        BY <2>1, BeforeStep DEF HistoryInv
    <2>3. failed[t][a].completed <= now'
        BY <1>1, <1>2, <2>1 DEF HistoryInv
    <2>4. CASE UNCHANGED history
        BY <2>2, <2>3, <2>4 DEF history
    <2>5. ASSUME NEW e \in Editor, saveTasks(e) PROVE Sound(t, a)
        <3>1. Before(t, NoTime, now, run)
            BY <1>1 DEF Before, NoTime, TypeOK, Run
        <3>2. Before(t, NoTime, now', run') /\ NoFailure.resetAt = NoTime
              /\ NoFailure.completed <= now'
            BY <1>1, <3>1, BeforeStep DEF NoTime, NoFailure
        <3> QED
            BY <1>1, <2>2, <2>3, <2>5, <3>2, HistoryEdited
    <2>6. ASSUME NEW actor \in Actor, FinishRun(actor) PROVE Sound(t, a)
        <3> DEFINE r == run[actor]
                   due == LatestElapsed(tasks[t], a, accounts[a], r.started)
        <3>1. r \in Run /\ r.started \in Nat /\ r.completed \in Nat /\ r.completed <= now
              /\ tasks[t] \in Task /\ accounts[a] \in AccountState
            BY <1>1, <2>6 DEF TypeOK, Run, FinishRun, HistoryInv, PastInv
        <3>2. /\ attempted'[t][a] = IF t = r.id /\ r.results[a] \in Attempted
                                    THEN r.started ELSE attempted[t][a]
              /\ woken'[t][a] = IF t = r.id /\ r.results[a] = "success"
                                THEN r.started ELSE woken[t][a]
              /\ failed'[t][a] =
                     IF t = r.id /\ r.trigger = "quota_reset" /\ r.results[a] \in Retryable
                     THEN FailedAgain(failed[t][a], due, r.results[a], r.completed)
                     ELSE failed[t][a]
            BY <1>1, <2>6, RecordMeaning
        <3>3. t = r.id => Before(t, r.started, now', run')
            BY <2>6, <3>1, BeforeFinish
        <3>4. due # NoTime => due + ResetDelay \in Nat /\ due + ResetDelay <= r.started
            BY <3>1, LatestElapsedMeaning, QuotaRulesAssumption
        <3>5. t = r.id /\ due # NoTime => Before(t, due + ResetDelay, now', run')
            BY <2>6, <3>1, <3>4, BeforeFinish
        <3>6. r.completed <= now'
            BY <1>1, <1>2, <3>1
        <3>7. LET again == FailedAgain(failed[t][a], due, r.results[a], r.completed)
              IN  again.resetAt = due /\ again.completed = r.completed
            BY <2>1, <3>1, LatestElapsedMeaning, FailedAgainType
        <3> HIDE DEF due, r
        <3> QED
            BY <2>2, <2>3, <3>2, <3>3, <3>5, <3>6, <3>7
    <2> QED
        BY <2>4, <2>5, <2>6, HistorySteps
<1> QED
    BY <1>1, <1>3, <1>4 DEF HistoryInv

LEMMA InitHistory == ASSUME Init PROVE HistoryInv
<1>1. PastInv /\ now = 1 /\ \A x \in Actor : run[x].pc = "none"
    BY InitPast DEF Init, NoRun
<1>2. \A t \in TaskID, a \in Account :
          attempted[t][a] = NoTime /\ woken[t][a] = NoTime /\ failed[t][a] = NoFailure
    BY DEF Init, NoHistory
<1> QED
    BY <1>1, <1>2 DEF HistoryInv, Before, Holding, NoTime, NoFailure

-----------------------------------------------------------------------------
(* Resets are consumed by attempts *)

QuotaKindForm == {form \in Form : form.kind = "quota_reset"}

OnlyQuotaTasks ==
    /\ \A ts \in InitTasks : \A t \in TaskID : ts[t].present => ts[t].kind = "quota_reset"
    /\ \A form \in Forms : form.kind = "quota_reset"
    /\ \A forms \in BulkForms : FormsIn(forms, QuotaKindForm)

(* No edit changes what a task is.                                          *)
QuotaOnlyInv ==
    /\ MirrorInv
    /\ \A t \in TaskID : tasks[t].present => tasks[t].kind = "quota_reset"
    /\ \A e \in Editor : requests[e] # NoRequest => FormsIn(requests[e], QuotaKindForm)

LEMMA QuotaOnlyKept ==
    ASSUME SaveCanFail = FALSE, OnlyQuotaTasks, QuotaOnlyInv, [Next]_vars
    PROVE  QuotaOnlyInv'
<1>1. MirrorInv' /\ TypeOK /\ TypeOK'
    BY MirrorKept DEF QuotaOnlyInv, MirrorInv, PastInv, LockInv
<1>2. ASSUME NEW e \in Editor
      PROVE  requests'[e] # NoRequest => FormsIn(requests'[e], QuotaKindForm)
    <2>1. \A form \in QuotaKindForm, enabled \in BOOLEAN :
              [form EXCEPT !.enabled = enabled] \in QuotaKindForm
        BY DEF QuotaKindForm, Form
    <2>2. \A form \in Forms : form \in QuotaKindForm
        BY InputAssumption DEF OnlyQuotaTasks, QuotaKindForm
    <2>3. \A t \in TaskID : tasks[t].present => FormOf(tasks[t]) \in QuotaKindForm
        BY <1>1 DEF QuotaOnlyInv, TypeOK, Task, FormOf, QuotaKindForm, Form
    <2>4. QuotaKindForm \in SUBSET Form
        BY DEF QuotaKindForm
    <2>5. requests[e] # NoRequest => FormsIn(requests[e], QuotaKindForm)
        BY DEF QuotaOnlyInv
    <2> QED
        BY <1>1, <2>1, <2>2, <2>3, <2>4, <2>5, RequestsStay DEF OnlyQuotaTasks
<1>3. ASSUME NEW t \in TaskID, tasks'[t].present PROVE tasks'[t].kind = "quota_reset"
    <2>1. /\ tasks[t] \in Task /\ disk.tasks[t] \in Task /\ TaskStep(t)
          /\ accounts' \in [Account -> AccountState] /\ run \in [Actor -> Run]
        BY <1>1, TaskSteps DEF TypeOK
    <2>2. CASE SameTask(tasks'[t], tasks[t])
        BY <1>3, <2>1, <2>2, SameTaskMeaning DEF QuotaOnlyInv
    <2>3. CASE SameTask(tasks'[t], disk.tasks[t])
        <3>1. Mirrors(disk.tasks[t], tasks[t])
            BY DEF QuotaOnlyInv, MirrorInv
        <3> QED
            BY <1>3, <2>1, <2>3, <3>1, SameTaskMeaning DEF QuotaOnlyInv, Mirrors
    <2>4. ASSUME NEW actor \in Actor, tasks[t].present,
                 tasks'[t] = Finished(tasks[t], accounts', run[actor])
          PROVE  tasks'[t].kind = "quota_reset"
        BY <2>1, <2>4, FinishedKeeps DEF QuotaOnlyInv
    <2>5. ASSUME NEW e \in Editor, saveTasks(e), requests[e] \in TaskForms,
                 tasks'[t] = IF t \in DOMAIN requests[e]
                             THEN Edited(tasks[t], requests[e][t]) ELSE AbsentTask
          PROVE  tasks'[t].kind = "quota_reset"
        <3>1. t \in DOMAIN requests[e]
            BY <1>3, <2>5 DEF AbsentTask
        <3>2. requests[e][t] \in QuotaKindForm
            BY <2>5, <3>1 DEF QuotaOnlyInv, FormsIn, saveTasks
        <3> QED
            BY <1>1, <2>1, <2>5, <3>1, <3>2, EditedMeaning DEF QuotaKindForm
    <2> QED
        BY <2>1, <2>2, <2>3, <2>4, <2>5 DEF TaskStep
<1> QED
    BY <1>1, <1>2, <1>3 DEF QuotaOnlyInv

LEMMA InitQuotaOnly ==
    ASSUME OnlyQuotaTasks, Init
    PROVE  QuotaOnlyInv
<1>1. MirrorInv /\ \A e \in Editor : requests[e] = NoRequest
    BY InitMirror DEF Init
<1>2. PICK ts \in InitTasks : disk = Saved(ts, accounts)
    BY DEF Init
<1>3. ASSUME NEW t \in TaskID, tasks[t].present PROVE tasks[t].kind = "quota_reset"
    <2>1. ts[t] \in Task /\ disk.tasks[t] = Encoded(ts[t])
        BY <1>2, InputAssumption DEF Saved
    <2>2. Mirrors(disk.tasks[t], tasks[t])
        BY <1>1 DEF MirrorInv
    <2> QED
        BY <1>2, <1>3, <2>1, <2>2, EncodedMeaning DEF OnlyQuotaTasks, Mirrors
<1> QED
    BY <1>1, <1>3 DEF QuotaOnlyInv

(* Every account of the task, and with edits every account there is, for an *)
(* edit can add it.                                                         *)
Consumed(task, seen) ==
    task.present /\ task.kind = "quota_reset" =>
        \A a \in Account : (Editor # {} \/ a \in task.accounts) =>
            \/ quotaAccountBaseline(task, a) <= task.created
            \/ quotaAccountBaseline(task, a) + ResetDelay <= seen[a]

ConsumedInv ==
    /\ HistoryInv /\ NamedInv
    /\ Editor = {} => BehindInv
    /\ Editor # {} => QuotaOnlyInv
    /\ \A t \in TaskID : Consumed(tasks[t], attempted[t])

LEMMA AttemptedGrows ==
    ASSUME HistoryInv, [Next]_vars, NEW t \in TaskID, NEW a \in Account, tasks[t].present
    PROVE  attempted'[t][a] >= attempted[t][a]
<1>1. TypeOK /\ attempted[t][a] \in Nat
    BY DEF HistoryInv, PastInv, LockInv, TypeOK
<1>2. ASSUME NEW actor \in Actor, FinishRun(actor) PROVE attempted'[t][a] >= attempted[t][a]
    <2>1. t = run[actor].id => attempted[t][a] <= run[actor].started
        BY <1>2 DEF HistoryInv, Before, FinishRun, Holding
    <2>2. run[actor].started \in Nat
        BY <1>1 DEF TypeOK, Run
    <2>3. attempted'[t][a] = IF t = run[actor].id /\ run[actor].results[a] \in Attempted
                             THEN run[actor].started ELSE attempted[t][a]
        BY <1>1, <1>2, RecordMeaning
    <2> QED
        BY <1>1, <2>1, <2>2, <2>3
<1>3. ASSUME NEW e \in Editor, saveTasks(e) PROVE attempted'[t][a] >= attempted[t][a]
    BY <1>1, <1>3, HistoryEdited
<1> QED
    BY <1>1, <1>2, <1>3, HistorySteps DEF history

(* A run moves nothing for an account its task does not select.             *)
LEMMA FinishedUnselected ==
    ASSUME NEW task \in Task, NEW accts \in [Account -> AccountState], NEW r \in Run,
           NEW a \in Account, task.accounts # {}, a \notin task.accounts,
           task.kind = "quota_reset"
    PROVE  quotaAccountBaseline(Finished(task, accts, r), a)
               \in {task.created, quotaAccountBaseline(task, a)}
<1> DEFINE base == InitHandled(task, accts)
           marked == markQuotaResetsHandled(task, accts, r.trigger, r.results, r.started,
                                            r.completed)
           due == Answered(base, accts, r.results, r.started, a)
           new == Finished(task, accts, r)
<1>1. r.started \in Nat /\ r.completed \in Nat /\ accts[a] \in AccountState
    BY DEF Run
<1>2. base \in Task /\ base.accounts = task.accounts
    BY InitHandledType, InitHandledKeeps
<1>3. due = NoTime
    <2> HIDE DEF base
    <2>1. AnsweredReset(base, a, accts[a], r.started) = NoTime
        BY <1>1, <1>2, AnsweredMeaning DEF quotaTaskSelectsAccount
    <2> QED
        BY <2>1 DEF Answered
<1>4. marked.handled[a] = base.handled[a]
    BY <1>1, <1>3, MarkMeaning
<1>5. ~new.legacy /\ new.created = task.created /\ new.handled = marked.handled
    BY FinishedKeeps, FinishedQuota
<1>6. CASE ~task.legacy
    <2>1. base = task
        BY <1>6 DEF InitHandled
    <2> HIDE DEF new, marked, base
    <2>2. quotaAccountBaseline(new, a) = quotaAccountBaseline(task, a)
        BY <1>4, <1>5, <1>6, <2>1 DEF quotaAccountBaseline
    <2> QED
        BY <2>2 DEF new
<1>7. CASE task.legacy
    <2>1. base = [task EXCEPT
                     !.legacy = FALSE,
                     !.handled = [b \in Account |->
                         IF b \in task.accounts \/ (accts[b].known /\ task.accounts = {})
                         THEN quotaAccountBaseline(task, b) ELSE NoTime]]
        BY <1>7 DEF InitHandled
    <2>2. base.handled[a] = NoTime
        BY <2>1 DEF Task
    <2> HIDE DEF new, marked, base
    <2>3. quotaAccountBaseline(new, a) = task.created
        BY <1>4, <1>5, <2>2 DEF quotaAccountBaseline
    <2> QED
        BY <2>3 DEF new
<1> QED
    BY <1>6, <1>7

(* What loads from the file has consumed no more than what it replaces.     *)
LEMMA ReloadedBehind ==
    ASSUME ConsumedInv, Editor = {} \/ SaveCanFail = FALSE, NEW t \in TaskID,
           NEW new, SameTask(new, disk.tasks[t])
    PROVE  /\ new.present = tasks[t].present /\ new.kind = tasks[t].kind
           /\ new.accounts = tasks[t].accounts /\ new.created = tasks[t].created
           /\ \A a \in Account : (Editor # {} \/ a \in new.accounts) =>
                  quotaAccountBaseline(new, a) <= quotaAccountBaseline(tasks[t], a)
<1>1. tasks[t] \in Task /\ disk.tasks[t] \in Task
    BY DEF ConsumedInv, HistoryInv, PastInv, LockInv, TypeOK
<1>2. /\ new.present = disk.tasks[t].present /\ new.kind = disk.tasks[t].kind
      /\ new.accounts = disk.tasks[t].accounts /\ new.created = disk.tasks[t].created
      /\ \A a \in Account :
            quotaAccountBaseline(new, a) = quotaAccountBaseline(disk.tasks[t], a)
    BY <1>1, SameTaskMeaning, SameProgress
<1>3. CASE Editor = {}
    <2>1. Behind(disk.tasks[t], tasks[t])
        BY <1>3 DEF ConsumedInv, BehindInv
    <2> QED
        BY <1>2, <1>3, <2>1 DEF Behind
<1>4. CASE Editor # {}
    <2>1. Mirrors(disk.tasks[t], tasks[t]) /\ Explicit(tasks[t])
        BY <1>4 DEF ConsumedInv, QuotaOnlyInv, MirrorInv, NamedInv, NamedTask
    <2>2. disk.tasks[t].legacy = tasks[t].legacy
        BY <1>1, <2>1 DEF Mirrors, Explicit, Task
    <2>3. \A a \in Account : /\ quotaAccountBaseline(disk.tasks[t], a)
                                    = quotaAccountBaseline(tasks[t], a)
                             /\ quotaAccountBaseline(tasks[t], a) \in Nat
        BY <1>1, <2>1, <2>2, SameProgress, BaselineType DEF Mirrors
    <2> QED
        BY <1>2, <2>1, <2>3 DEF Mirrors
<1> QED
    BY <1>3, <1>4

(* The same task with the same or less progress, and no fewer attempts.     *)
LEMMA ConsumedBehind ==
    ASSUME NEW old \in Task, NEW new \in Task, NEW before \in [Account -> Nat],
           NEW after \in [Account -> Nat], Consumed(old, before),
           new.present = old.present, new.kind = old.kind,
           new.accounts = old.accounts, new.created = old.created,
           \A a \in Account : (Editor # {} \/ a \in new.accounts) =>
               quotaAccountBaseline(new, a) <= quotaAccountBaseline(old, a),
           old.present => \A a \in Account : after[a] >= before[a]
    PROVE  Consumed(new, after)
<1>1. \A a \in Account : /\ quotaAccountBaseline(new, a) \in Nat
                         /\ quotaAccountBaseline(old, a) \in Nat
                         /\ before[a] \in Nat /\ after[a] \in Nat
    BY BaselineType
<1>2. old.created \in Nat /\ ResetDelay \in Nat
    BY QuotaRulesAssumption DEF Task
<1> QED
    BY <1>1, <1>2 DEF Consumed

(* A run consumes the boundary it answers for an account it attempted.      *)
LEMMA ConsumedFinished ==
    ASSUME NEW task \in Task, NEW accts \in [Account -> AccountState], NEW r \in Run,
           NEW before \in [Account -> Nat], NEW after \in [Account -> Nat],
           Consumed(task, before), NamedTask(task), task.present,
           \A a \in Account : /\ after[a] >= before[a]
                              /\ r.results[a] \in Attempted => after[a] = r.started
    PROVE  Consumed(Finished(task, accts, r), after)
<1> DEFINE new == Finished(task, accts, r)
<1>1. /\ new.present /\ new.kind = task.kind /\ new.accounts = task.accounts
      /\ new.created = task.created /\ new \in Task
    BY FinishedKeeps, FinishedType
<1>2. ASSUME task.kind = "quota_reset", NEW a \in Account, Editor # {} \/ a \in task.accounts
      PROVE  \/ quotaAccountBaseline(new, a) <= task.created
             \/ quotaAccountBaseline(new, a) + ResetDelay <= after[a]
    <2>1. /\ quotaAccountBaseline(new, a) \in Nat /\ quotaAccountBaseline(task, a) \in Nat
          /\ task.created \in Nat /\ before[a] \in Nat /\ after[a] \in Nat
          /\ ResetDelay \in Nat /\ r.started \in Nat /\ accts[a] \in AccountState
          /\ after[a] >= before[a]
        BY <1>1, BaselineType, QuotaRulesAssumption DEF Task, Run
    <2>2. \/ quotaAccountBaseline(task, a) <= task.created
          \/ quotaAccountBaseline(task, a) + ResetDelay <= before[a]
        BY <1>2 DEF Consumed, NamedTask
    <2>3. CASE a \in task.accounts
        <3> DEFINE due == Answer(task, accts, r.results, r.started, a)
        <3>1. \/ quotaAccountBaseline(new, a) = quotaAccountBaseline(task, a)
              \/ due # NoTime /\ quotaAccountBaseline(new, a) = due
            BY <1>2, <2>3, FinishedBaseline DEF Covers
        <3>2. due # NoTime => due + ResetDelay <= r.started /\ r.results[a] \in Attempted
            BY <2>1, LatestElapsedMeaning DEF Answer
        <3> HIDE DEF due, new
        <3> QED
            BY <2>1, <2>2, <3>1, <3>2
    <2>4. CASE a \notin task.accounts
        <3>1. quotaAccountBaseline(new, a) \in {task.created, quotaAccountBaseline(task, a)}
            BY <1>2, <2>4, FinishedUnselected DEF NamedTask
        <3> HIDE DEF new
        <3> QED
            BY <2>1, <2>2, <3>1
    <2> QED
        BY <2>3, <2>4
<1> HIDE DEF new
<1>3. Consumed(new, after)
    BY <1>1, <1>2 DEF Consumed
<1> QED
    BY <1>3 DEF new

LEMMA ConsumedStep ==
    ASSUME ConsumedInv, Editor = {} \/ (SaveCanFail = FALSE /\ OnlyQuotaTasks), [Next]_vars,
           TypeOK', NEW t \in TaskID
    PROVE  Consumed(tasks'[t], attempted'[t])
<1>1. /\ TypeOK /\ tasks[t] \in Task /\ disk.tasks[t] \in Task /\ tasks'[t] \in Task
      /\ attempted[t] \in [Account -> Nat] /\ attempted'[t] \in [Account -> Nat]
      /\ accounts' \in [Account -> AccountState] /\ run \in [Actor -> Run]
      /\ Consumed(tasks[t], attempted[t])
    BY DEF ConsumedInv, HistoryInv, PastInv, LockInv, TypeOK
<1>2. TaskStep(t) /\ HistoryInv
    BY <1>1, TaskSteps DEF ConsumedInv
<1>3. tasks[t].present => \A a \in Account : attempted'[t][a] >= attempted[t][a]
    BY <1>2, AttemptedGrows
<1>4. CASE SameTask(tasks'[t], tasks[t])
    <2>1. /\ tasks'[t].present = tasks[t].present /\ tasks'[t].kind = tasks[t].kind
          /\ tasks'[t].accounts = tasks[t].accounts /\ tasks'[t].created = tasks[t].created
          /\ \A a \in Account :
                /\ quotaAccountBaseline(tasks'[t], a) = quotaAccountBaseline(tasks[t], a)
                /\ quotaAccountBaseline(tasks[t], a) \in Nat
        BY <1>1, <1>4, SameTaskMeaning, SameProgress, BaselineType
    <2>2. \A a \in Account : quotaAccountBaseline(tasks'[t], a)
                                 <= quotaAccountBaseline(tasks[t], a)
        BY <2>1
    <2> QED
        BY <1>1, <1>3, <2>1, <2>2, ConsumedBehind
<1>5. CASE SameTask(tasks'[t], disk.tasks[t])
    BY <1>1, <1>3, <1>5, ReloadedBehind, ConsumedBehind
<1>6. ASSUME NEW actor \in Actor, FinishRun(actor), run[actor].id = t, tasks[t].present,
             tasks'[t] = Finished(tasks[t], accounts', run[actor])
      PROVE  Consumed(tasks'[t], attempted'[t])
    <2>1. \A a \in Account : run[actor].results[a] \in Attempted
                                 => attempted'[t][a] = run[actor].started
        BY <1>1, <1>6, RecordMeaning
    <2>2. NamedTask(tasks[t]) /\ run[actor] \in Run
        BY <1>1 DEF ConsumedInv, NamedInv
    <2> QED
        BY <1>1, <1>3, <1>6, <2>1, <2>2, ConsumedFinished
<1>7. ASSUME NEW e \in Editor, requests[e] \in TaskForms,
             tasks'[t] = IF t \in DOMAIN requests[e]
                         THEN Edited(tasks[t], requests[e][t]) ELSE AbsentTask
      PROVE  Consumed(tasks'[t], attempted'[t])
    <2>1. CASE t \notin DOMAIN requests[e]
        BY <1>7, <2>1 DEF Consumed, AbsentTask
    <2>2. CASE t \in DOMAIN requests[e]
        <3>1. EditOf(tasks'[t], tasks[t])
            BY <1>1, <1>7, <2>2, EditedMeaning DEF TaskForms
        <3>2. CASE ~tasks[t].present
            <4>1. \A a \in Account : /\ quotaAccountBaseline(tasks'[t], a) = tasks'[t].created
                                     /\ tasks'[t].created \in Nat
                BY <1>1, <3>1, <3>2 DEF EditOf, quotaAccountBaseline, Task
            <4> QED
                BY <4>1 DEF Consumed
        <3>3. CASE tasks[t].present
            <4>1. tasks[t].kind = "quota_reset" /\ Editor # {}
                BY <1>7, <3>3 DEF ConsumedInv, QuotaOnlyInv
            <4>2. tasks'[t].created = tasks[t].created
                  /\ \A a \in Account : /\ quotaAccountBaseline(tasks'[t], a)
                                               = quotaAccountBaseline(tasks[t], a)
                                        /\ quotaAccountBaseline(tasks[t], a) \in Nat
                                        /\ attempted[t][a] \in Nat /\ attempted'[t][a] \in Nat
                                        /\ attempted'[t][a] >= attempted[t][a]
                BY <1>1, <1>3, <3>1, <3>3, SameProgress, BaselineType DEF EditOf
            <4> QED
                BY <1>1, <3>3, <4>1, <4>2, QuotaRulesAssumption DEF Consumed
        <3> QED
            BY <3>2, <3>3
    <2> QED
        BY <2>1, <2>2
<1> QED
    BY <1>2, <1>4, <1>5, <1>6, <1>7 DEF TaskStep

\* A task consumes a boundary of an account only by an attempt on it that
\* started after the boundary's delay was over; skipped accounts, failed
\* listings, runs of other tasks, legacy files, failed saves and crashes consume
\* nothing (markQuotaResetsHandledLocked, initializeQuotaHandledResets). The
\* tasks name their accounts, and an edit must not turn another kind of task
\* into a quota task, which takes the end of its last run for a baseline.
THEOREM OnlyAttemptsConsume ==
    ASSUME AccountsAreNamed, Editor = {} \/ (SaveCanFail = FALSE /\ OnlyQuotaTasks)
    PROVE  Spec => []ResetsAreConsumedByAttempts
<1>1. Init => ConsumedInv
    <2> SUFFICES ASSUME Init PROVE ConsumedInv
        OBVIOUS
    <2>1. HistoryInv /\ NamedInv /\ BehindInv /\ (Editor # {} => QuotaOnlyInv)
        BY InitHistory, InitNamed, InitBehind, InitQuotaOnly
    <2>2. ASSUME NEW t \in TaskID PROVE Consumed(tasks[t], attempted[t])
        <3>1. tasks[t] \in Task /\ PastTask(tasks[t], now) /\ now = 1
            BY <2>1 DEF HistoryInv, PastInv, LockInv, TypeOK, Init
        <3>2. PICK ts \in InitTasks : disk = Saved(ts, accounts)
            BY DEF Init
        <3>3. ts[t] \in Task /\ FromThePast(ts[t]) /\ disk.tasks[t] = Encoded(ts[t])
            BY <3>2, InputAssumption DEF Saved
        <3>4. \A a \in Account : tasks[t].handled[a] \in Nat /\ tasks[t].handled[a] <= 1
            <4>1. Mirrors(disk.tasks[t], tasks[t])
                BY InitMirror DEF MirrorInv
            <4>2. tasks[t].handled = ts[t].handled
                BY <3>3, <4>1, EncodedMeaning DEF Mirrors
            <4> QED
                BY <3>3, <4>2 DEF FromThePast, Task
        <3>5. tasks[t].present => tasks[t].created = 1
            BY <2>1 DEF BehindInv, Behind
        <3> QED
            BY <3>1, <3>4, <3>5 DEF Consumed, PastTask, quotaAccountBaseline, Task
    <2> QED
        BY <2>1, <2>2 DEF ConsumedInv
<1>2. ConsumedInv /\ [Next]_vars => ConsumedInv'
    <2> SUFFICES ASSUME ConsumedInv, [Next]_vars PROVE ConsumedInv'
        OBVIOUS
    <2>1. HistoryInv' /\ NamedInv' /\ TypeOK'
        BY HistoryKept, NamedKept DEF ConsumedInv, HistoryInv, PastInv, LockInv
    <2>2. (Editor = {} => BehindInv') /\ (Editor # {} => QuotaOnlyInv')
        BY BehindKept, QuotaOnlyKept DEF ConsumedInv
    <2>3. \A t \in TaskID : Consumed(tasks'[t], attempted'[t])
        BY <2>1, ConsumedStep
    <2> QED
        BY <2>1, <2>2, <2>3 DEF ConsumedInv
<1>3. ConsumedInv => ResetsAreConsumedByAttempts
    <2> SUFFICES ASSUME ConsumedInv, NEW t \in TaskID, NEW a \in Account,
                        NEW w \in tasks[t].windows,
                        tasks[t].present, tasks[t].kind = "quota_reset",
                        quotaTaskSelectsAccount(tasks[t], a),
                        passed[a][w] > tasks[t].created,
                        passed[a][w] <= quotaAccountBaseline(tasks[t], a)
                 PROVE  passed[a][w] + ResetDelay <= attempted[t][a]
        BY DEF ResetsAreConsumedByAttempts
    <2>1. /\ tasks[t] \in Task /\ w \in Window /\ passed[a][w] \in Nat
          /\ attempted[t][a] \in Nat /\ tasks[t].created \in Nat
          /\ quotaAccountBaseline(tasks[t], a) \in Nat /\ ResetDelay \in Nat
        <3>1. TypeOK /\ tasks[t] \in Task
            BY DEF ConsumedInv, HistoryInv, PastInv, LockInv, TypeOK
        <3>2. w \in Window /\ tasks[t].created \in Nat
            BY <3>1 DEF Task
        <3>3. passed[a][w] \in Nat /\ attempted[t][a] \in Nat
            BY <3>1, <3>2 DEF TypeOK
        <3> QED
            BY <3>1, <3>2, <3>3, BaselineType, QuotaRulesAssumption
    <2>2. a \in tasks[t].accounts
        BY DEF ConsumedInv, NamedInv, NamedTask, quotaTaskSelectsAccount
    <2>3. quotaAccountBaseline(tasks[t], a) + ResetDelay <= attempted[t][a]
        BY <2>1, <2>2 DEF ConsumedInv, Consumed
    <2> QED
        BY <2>1, <2>3
<1> QED
    BY <1>1, <1>2, <1>3, PTL DEF Spec

-----------------------------------------------------------------------------
(* What the steps leave alone while nobody edits                           *)

LEMMA StaticTask ==
    ASSUME Editor = {}, MirrorInv, [Next]_vars, NEW t \in TaskID
    PROVE  /\ tasks'[t].present = tasks[t].present /\ tasks'[t].kind = tasks[t].kind
           /\ tasks'[t].accounts = tasks[t].accounts /\ tasks'[t].windows = tasks[t].windows
           /\ tasks'[t].created = tasks[t].created
<1>1. /\ TypeOK /\ TypeOK' /\ Mirrors(disk.tasks[t], tasks[t])
      /\ tasks[t] \in Task /\ disk.tasks[t] \in Task /\ run \in [Actor -> Run]
    BY LocksKept DEF MirrorInv, PastInv, LockInv, TypeOK
<1>2. TaskStep(t) /\ accounts' \in [Account -> AccountState]
    BY <1>1, TaskSteps DEF TypeOK
<1>3. CASE SameTask(tasks'[t], tasks[t])
    BY <1>1, <1>3, SameTaskMeaning
<1>4. CASE SameTask(tasks'[t], disk.tasks[t])
    BY <1>1, <1>4, SameTaskMeaning DEF Mirrors
<1>5. ASSUME NEW actor \in Actor, tasks'[t] = Finished(tasks[t], accounts', run[actor])
      PROVE  /\ tasks'[t].present = tasks[t].present /\ tasks'[t].kind = tasks[t].kind
             /\ tasks'[t].accounts = tasks[t].accounts /\ tasks'[t].windows = tasks[t].windows
             /\ tasks'[t].created = tasks[t].created
    BY <1>1, <1>2, <1>5, FinishedKeeps
<1> QED
    BY <1>2, <1>3, <1>4, <1>5 DEF TaskStep

(* Only a refresh changes the quota data of an account.                    *)
SameAccount(new, old) ==
    /\ new.reset = old.reset /\ new.elapsed = old.elapsed /\ new.error = old.error
    /\ old.known => new.known

LEMMA AccountStep ==
    ASSUME TypeOK, AccountsSaved, [Next]_vars, NEW a \in Account
    PROVE  \/ SameAccount(accounts'[a], accounts[a])
           \/ FinishRefresh /\ scan.at = a /\ accounts'[a] \in RefreshOutcomes(a)
<1>1. accounts \in [Account -> AccountState] /\ disk.accounts = accounts
    BY DEF TypeOK, AccountsSaved
<1>2. ASSUME accounts' = accounts PROVE SameAccount(accounts'[a], accounts[a])
    BY <1>2 DEF SameAccount
<1>3. CASE FinishRefresh
    <2>1. PICK account \in RefreshOutcomes(scan.at) :
              accounts' = [accounts EXCEPT ![scan.at] = account]
        BY <1>3 DEF FinishRefresh
    <2>2. CASE scan.at = a
        BY <1>1, <1>3, <2>1, <2>2
    <2>3. CASE scan.at # a
        BY <1>1, <2>1, <2>3 DEF SameAccount
    <2> QED
        BY <2>2, <2>3
<1>4. ASSUME NEW actor \in Actor, FinishRun(actor) PROVE SameAccount(accounts'[a], accounts[a])
    <2>1. accounts' = WithResults(accounts, run[actor])
        BY <1>4 DEF FinishRun
    <2> QED
        BY <1>1, <2>1 DEF WithResults, SameAccount, AccountState
<1>5. ASSUME NEW actor \in Actor, Running(actor), ~FinishRun(actor) PROVE accounts' = accounts
    BY <1>5 DEF Running, LockTask, ListCandidates, StartAccount, FinishAccount, EndAccounts, state
<1>6. ASSUME Scanning, ~FinishRefresh PROVE accounts' = accounts
    BY <1>6 DEF Scanning, StartScan, ListForRefresh, RefreshNext, StartEvaluation, EvaluateTask,
                EndScan, state
<1>7. ASSUME NEW e \in Editor, Editing(e) PROVE accounts' = accounts
    BY <1>7 DEF Editing, toggleTask, deleteTask, saveSingleTask, bulkTasks, Submit, saveTasks, state
<1>8. Tick \/ (\E t \in TaskID : FireStartup(t)) \/ (\E m \in Manual : Waking(m))
      \/ Stop \/ StopOperations \/ UNCHANGED vars
      => accounts' = accounts
    BY DEF Tick, FireStartup, Waking, WakeTask, WakeAdHoc, Stop, StopOperations, state, vars
<1>9. Configure \/ Crash => accounts' = accounts
    BY <1>1 DEF Configure, Crash, Load
<1> QED
    BY <1>2, <1>3, <1>4, <1>5, <1>6, <1>7, <1>8, <1>9 DEF Next

(* What a run does between its lock and its end, one account at a time.     *)
LEMMA ListingMeaning ==
    ASSUME TypeOK, NEW x \in Actor, ListCandidates(x)
    PROVE  \/ run' = [run EXCEPT ![x] = NoRun]
           \/ run' = [run EXCEPT ![x] = [run[x] EXCEPT !.pc = "finish", !.completed = now]]
           \/ /\ run[x].trigger = "quota_reset" => StillQuotaTask(run[x])
              /\ \E listing : run' = [run EXCEPT ![x] =
                     [run[x] EXCEPT !.pc = "accounts", !.todo = Candidates(run[x], listing)]]
<1> DEFINE r == run[x]
           ended == [r EXCEPT !.pc = "finish", !.completed = now]
           accountsOf(listing) == [r EXCEPT !.pc = "accounts", !.todo = Candidates(r, listing)]
           finish == IF r.id = NoTask THEN NoRun ELSE ended
<1>1. PICK listing \in HostListings(x) :
          \E next \in {finish, NoRun, accountsOf(listing)} :
              /\ run' = [run EXCEPT ![x] = next]
              /\ next = accountsOf(listing) =>
                     \/ next \in {finish, NoRun}
                     \/ r.trigger = "quota_reset" => StillQuotaTask(r)
    <2> HIDE DEF NoRun, ended, StillQuotaTask, Candidates
    <2>1. ASSUME NEW listing \in HostListings(x), NEW next,
                 next = CASE listing = NoListing -> finish
                          [] listing # NoListing /\ r.trigger = "quota_reset"
                               /\ ~StillQuotaTask(r) -> NoRun
                          [] OTHER ->
                               IF Candidates(r, listing) = {} THEN finish
                               ELSE accountsOf(listing)
          PROVE  /\ next \in {finish, NoRun, accountsOf(listing)}
                 /\ next = accountsOf(listing) =>
                        \/ next \in {finish, NoRun}
                        \/ r.trigger = "quota_reset" => StillQuotaTask(r)
        BY <2>1
    <2>2. PICK listing \in HostListings(x) :
              \E next : /\ next = CASE listing = NoListing -> finish
                                    [] listing # NoListing /\ r.trigger = "quota_reset"
                                         /\ ~StillQuotaTask(r) -> NoRun
                                    [] OTHER ->
                                         IF Candidates(r, listing) = {} THEN finish
                                         ELSE accountsOf(listing)
                        /\ run' = [run EXCEPT ![x] = next]
        BY DEF ListCandidates, ended
    <2> QED
        BY <2>1, <2>2
<1> HIDE DEF ended, accountsOf, NoRun, StillQuotaTask
<1>2. \/ run' = [run EXCEPT ![x] = NoRun]
      \/ run' = [run EXCEPT ![x] = ended]
      \/ /\ r.trigger = "quota_reset" => StillQuotaTask(r)
         /\ run' = [run EXCEPT ![x] = accountsOf(listing)]
    BY <1>1
<1> QED
    BY <1>2 DEF ended, accountsOf

-----------------------------------------------------------------------------
(* The accounts a run has picked                                           *)

Woke(r) == {a \in Account : r.results[a] \in Attempted}

(* The accounts it has yet to wake, is waking or has woken.                *)
Chosen(r) == r.todo \cup Woke(r) \cup (IF r.pc = "request" THEN {r.at} ELSE {})

NoneChosenYet ==
    \A x \in Actor : run[x].pc \in {"none", "lock", "listing"} => Chosen(run[x]) = {}

(* A run picks its accounts when it lists them, and from then on only loses *)
(* some; it has woken one of them after the request for it.                 *)
Picks(x, a) ==
    /\ ListCandidates(x)
    /\ run[x].trigger = "quota_reset" => StillQuotaTask(run[x])
    /\ \E listing : a \in Candidates(run[x], listing)

ChosenStep(x) ==
    \/ run'[x] = run[x]
    \/ run'[x].pc \in {"none", "lock", "listing"} /\ Chosen(run'[x]) = {}
    \/ /\ run[x].pc \in {"listing", "accounts", "request"}
       /\ run'[x].pc \in Holding \ {"listing"}
       /\ \A a \in Chosen(run'[x]) : a \in Chosen(run[x]) \/ Picks(x, a)
       /\ \A a \in Woke(run'[x]) :
              a \in Woke(run[x]) \/ (run[x].pc = "request" /\ run[x].at = a)

LEMMA NothingChosen == NoRun.pc = "none" /\ Chosen(NoRun) = {}
BY DEF NoRun, Chosen, Woke, Attempted

LEMMA NothingCalled ==
    ASSUME NEW task, NEW t, NEW trigger, NEW selected
    PROVE  LET r == Called(task, t, trigger, selected)
           IN  r.pc = "lock" /\ Chosen(r) = {}
BY DEF Called, NoRun, Chosen, Woke, Attempted

LEMMA NothingCalledAdHoc ==
    ASSUME NEW selection
    PROVE  AdHoc(selection).pc = "lock" /\ Chosen(AdHoc(selection)) = {}
BY DEF AdHoc, NoRun, Chosen, Woke, Attempted

LEMMA ListingChooses ==
    ASSUME TypeOK, NoneChosenYet, NEW x \in Actor, ListCandidates(x)
    PROVE  ChosenStep(x)
<1> DEFINE r == run[x]
           ended == [r EXCEPT !.pc = "finish", !.completed = now]
           picked(listing) == [r EXCEPT !.pc = "accounts", !.todo = Candidates(r, listing)]
<1>1. run \in [Actor -> Run] /\ r \in Run /\ r.pc = "listing"
    BY DEF TypeOK, ListCandidates
<1>2. \/ run' = [run EXCEPT ![x] = NoRun]
      \/ run' = [run EXCEPT ![x] = ended]
      \/ /\ r.trigger = "quota_reset" => StillQuotaTask(r)
         /\ \E listing : run' = [run EXCEPT ![x] = picked(listing)]
    <2> HIDE DEF NoRun, StillQuotaTask, Candidates
    <2> QED
        BY ListingMeaning, Zenon
<1>3. ended.pc = "finish" /\ ended.todo = r.todo /\ ended.results = r.results
    BY <1>1 DEF Run
<1>4. ASSUME NEW listing
      PROVE  /\ picked(listing).pc = "accounts" /\ picked(listing).results = r.results
             /\ picked(listing).todo = Candidates(r, listing)
    BY <1>1 DEF Run
<1> HIDE DEF NoRun, ended, picked
<1>5. ASSUME run'[x] = NoRun PROVE ChosenStep(x)
    BY <1>5, NothingChosen DEF ChosenStep
<1>6. ASSUME run'[x] = ended PROVE ChosenStep(x)
    <2>1. Chosen(ended) = Chosen(r) /\ Woke(ended) = Woke(r)
        BY <1>1, <1>3 DEF Chosen, Woke
    <2> QED
        BY <1>1, <1>3, <1>6, <2>1 DEF ChosenStep, Holding
<1>7. ASSUME NEW listing, run'[x] = picked(listing),
             r.trigger = "quota_reset" => StillQuotaTask(r)
      PROVE  ChosenStep(x)
    <2>1. Woke(picked(listing)) = Woke(r)
        BY <1>4 DEF Woke
    <2>2. \A a \in Chosen(picked(listing)) : a \in Chosen(r) \/ a \in Candidates(r, listing)
        BY <1>4, <2>1 DEF Chosen
    <2>3. \A a \in Candidates(r, listing) : Picks(x, a)
        BY <1>7 DEF Picks
    <2> QED
        BY <1>1, <1>4, <1>7, <2>1, <2>2, <2>3 DEF ChosenStep, Holding
<1> QED
    BY <1>1, <1>2, <1>5, <1>6, <1>7

LEMMA StartChooses ==
    ASSUME TypeOK, NEW x \in Actor, NEW a \in Account, StartAccount(x, a)
    PROVE  ChosenStep(x)
<1> DEFINE taken == [run[x] EXCEPT !.pc = "request", !.at = a, !.todo = @ \ {a}]
           skipped == [run[x] EXCEPT !.todo = @ \ {a}, !.results[a] = "skipped"]
<1>1. run \in [Actor -> Run] /\ run[x] \in Run
    BY DEF TypeOK
<1>2. /\ taken.pc = "request" /\ taken.at = a /\ taken.todo = run[x].todo \ {a}
      /\ taken.results = run[x].results
    BY <1>1 DEF Run
<1>3. /\ skipped.pc = run[x].pc /\ skipped.todo = run[x].todo \ {a}
      /\ skipped.results = [run[x].results EXCEPT ![a] = "skipped"]
    BY <1>1 DEF Run
<1>4. run'[x] = taken \/ run'[x] = skipped
    BY <1>1 DEF StartAccount
<1>5. run[x].pc = "accounts" /\ a \in run[x].todo
    BY DEF StartAccount
<1>6. run[x].results \in [Account -> Result]
    BY <1>1 DEF Run
<1> HIDE DEF taken, skipped
<1>7. Woke(taken) = Woke(run[x]) /\ Woke(skipped) \subseteq Woke(run[x])
    BY <1>2, <1>3, <1>6 DEF Woke, Attempted
<1>8. Chosen(taken) \subseteq Chosen(run[x]) /\ Chosen(skipped) \subseteq Chosen(run[x])
    BY <1>2, <1>3, <1>5, <1>7 DEF Chosen
<1> QED
    BY <1>2, <1>3, <1>4, <1>5, <1>7, <1>8 DEF ChosenStep, Holding

LEMMA FinishChooses ==
    ASSUME TypeOK, NEW x \in Actor, FinishAccount(x)
    PROVE  ChosenStep(x)
<1>1. run \in [Actor -> Run] /\ run[x] \in Run
    BY DEF TypeOK
<1>2. PICK result : run' = [run EXCEPT ![x].pc = "accounts", ![x].at = NoAccount,
                                       ![x].results[run[x].at] = result]
    BY DEF FinishAccount
<1> DEFINE next == [run[x] EXCEPT !.pc = "accounts", !.at = NoAccount,
                                  !.results[run[x].at] = result]
<1>3. /\ next.pc = "accounts" /\ next.todo = run[x].todo
      /\ next.results = [run[x].results EXCEPT ![run[x].at] = result]
    BY <1>1 DEF Run
<1>4. run'[x] = next
    BY <1>1, <1>2
<1>5. run[x].pc = "request" /\ run[x].results \in [Account -> Result]
    BY <1>1 DEF FinishAccount, Run
<1> HIDE DEF next
<1>6. \A a \in Woke(next) : a \in Woke(run[x]) \/ run[x].at = a
    BY <1>3, <1>5 DEF Woke
<1>7. Chosen(next) \subseteq Chosen(run[x])
    BY <1>3, <1>5, <1>6 DEF Chosen
<1> QED
    BY <1>3, <1>4, <1>5, <1>6, <1>7 DEF ChosenStep, Holding

LEMMA EndChooses ==
    ASSUME TypeOK, NEW x \in Actor, EndAccounts(x)
    PROVE  ChosenStep(x)
<1> DEFINE next == [run[x] EXCEPT !.pc = "finish", !.todo = {}, !.completed = now]
<1>1. run \in [Actor -> Run] /\ run[x] \in Run
    BY DEF TypeOK
<1>2. next.pc = "finish" /\ next.todo = {} /\ next.results = run[x].results
    BY <1>1 DEF Run
<1>3. run'[x] = next /\ run[x].pc = "accounts"
    BY <1>1 DEF EndAccounts
<1> HIDE DEF next
<1>4. Woke(next) = Woke(run[x])
    BY <1>2 DEF Woke
<1>5. Chosen(next) \subseteq Chosen(run[x])
    BY <1>2, <1>4 DEF Chosen
<1> QED
    BY <1>2, <1>3, <1>4, <1>5 DEF ChosenStep, Holding

LEMMA LockingChooses ==
    ASSUME TypeOK, NoneChosenYet, NEW x \in Actor, LockTask(x)
    PROVE  ChosenStep(x)
<1> DEFINE next == [run[x] EXCEPT !.pc = "listing", !.started = now]
<1>1. run \in [Actor -> Run] /\ run[x] \in Run /\ run[x].pc = "lock"
    BY DEF TypeOK, LockTask
<1>2. /\ next.pc = "listing" /\ next.todo = run[x].todo /\ next.results = run[x].results
    BY <1>1 DEF Run
<1>3. run'[x] = NoRun \/ run'[x] = next
    BY <1>1 DEF LockTask
<1>4. Chosen(run[x]) = {}
    BY <1>1 DEF NoneChosenYet
<1> HIDE DEF next, NoRun
<1>5. Chosen(next) = {}
    BY <1>2, <1>4 DEF Chosen, Woke
<1> QED
    BY <1>2, <1>3, <1>5, NothingChosen DEF ChosenStep

LEMMA ChosenSteps ==
    ASSUME TypeOK, NoneChosenYet, [Next]_vars, NEW x \in Actor
    PROVE  ChosenStep(x)
<1>1. run \in [Actor -> Run]
    BY DEF TypeOK
<1>2. ASSUME NEW y, NEW next, run' = [run EXCEPT ![y] = next],
             next.pc \in {"none", "lock"}, Chosen(next) = {}
      PROVE  ChosenStep(x)
    BY <1>1, <1>2 DEF ChosenStep
<1>3. ASSUME run' = run PROVE ChosenStep(x)
    BY <1>3 DEF ChosenStep
<1>4. ASSUME Scanning PROVE ChosenStep(x)
    <2>1. ASSUME NEW t \in TaskID, EvaluateTask(t) PROVE ChosenStep(x)
        <3> DEFINE task == scan.snapshot[t]
                   quota == Called(task, t, "quota_reset", DueLiveAccounts(task))
                   schedule == Called(task, t, "schedule", {})
        <3>1. run' \in {run, [run EXCEPT ![Worker] = quota], [run EXCEPT ![Worker] = schedule]}
            BY <2>1 DEF EvaluateTask
        <3>2. /\ quota.pc = "lock" /\ Chosen(quota) = {}
              /\ schedule.pc = "lock" /\ Chosen(schedule) = {}
            BY NothingCalled
        <3> HIDE DEF quota, schedule
        <3> QED
            BY <1>2, <1>3, <3>1, <3>2
    <2>2. ASSUME StartScan \/ ListForRefresh \/ StartEvaluation \/ EndScan PROVE run' = run
        <3>1. StartScan => run' = run
            BY DEF StartScan
        <3>2. ListForRefresh => run' = run
            BY DEF ListForRefresh
        <3>3. StartEvaluation => run' = run
            BY DEF StartEvaluation
        <3>4. EndScan => run' = run
            BY DEF EndScan
        <3> QED
            BY <2>2, <3>1, <3>2, <3>3, <3>4
    <2>3. (\E a \in Account : RefreshNext(a)) => run' = run
        BY DEF RefreshNext
    <2>4. FinishRefresh => run' = run
        BY DEF FinishRefresh
    <2> QED
        BY <1>3, <1>4, <2>1, <2>2, <2>3, <2>4 DEF Scanning
<1>5. ASSUME NEW t \in TaskID, FireStartup(t) PROVE ChosenStep(x)
    <2> DEFINE next == Called(tasks[t], t, "startup", {})
    <2>1. run' = run \/ run' = [run EXCEPT ![t] = next]
        BY <1>5 DEF FireStartup
    <2>2. next.pc = "lock" /\ Chosen(next) = {}
        BY NothingCalled
    <2> HIDE DEF next
    <2> QED
        BY <1>2, <1>3, <2>1, <2>2
<1>6. ASSUME NEW m \in Manual, Waking(m) PROVE ChosenStep(x)
    <2>1. ASSUME NEW t \in TaskID, NEW selection \in Selections, WakeTask(m, t, selection)
          PROVE  ChosenStep(x)
        <3> DEFINE next == Called(tasks[t], t, "manual", selection)
        <3>1. run' = [run EXCEPT ![m] = next]
            BY <2>1 DEF WakeTask
        <3>2. next.pc = "lock" /\ Chosen(next) = {}
            BY NothingCalled
        <3> HIDE DEF next
        <3> QED
            BY <1>2, <3>1, <3>2
    <2>2. ASSUME NEW selection \in Selections, WakeAdHoc(m, selection)
          PROVE  ChosenStep(x)
        <3>1. run' = [run EXCEPT ![m] = AdHoc(selection)]
            BY <2>2 DEF WakeAdHoc, AdHoc
        <3> QED
            BY <1>2, <3>1, NothingCalledAdHoc
    <2> QED
        BY <1>6, <2>1, <2>2 DEF Waking
<1>7. ASSUME NEW y \in Actor, Running(y) PROVE ChosenStep(x)
    <2>1. CASE y = x /\ ~FinishRun(y)
        BY <1>7, <2>1, LockingChooses, ListingChooses, StartChooses, FinishChooses, EndChooses
        DEF Running
    <2>2. CASE FinishRun(y)
        <3>1. run' = [run EXCEPT ![y] = NoRun]
            BY <2>2 DEF FinishRun
        <3> HIDE DEF NoRun
        <3> QED
            BY <1>2, <3>1, NothingChosen
    <2>3. CASE y # x /\ ~FinishRun(y)
        <3>1. \E next : run' = [run EXCEPT ![y] = next]
            <4>1. CASE ListCandidates(y)
                BY <4>1, Listed
            <4>2. CASE ~ListCandidates(y)
                BY <1>7, <4>2, Moved DEF Running
            <4> QED
                BY <4>1, <4>2
        <3>2. run'[x] = run[x]
            BY <1>1, <2>3, <3>1
        <3> QED
            BY <3>2 DEF ChosenStep
    <2> QED
        BY <2>1, <2>2, <2>3
<1>8. ASSUME Tick \/ (\E e \in Editor : Editing(e)) \/ Stop \/ StopOperations \/ Configure
             \/ UNCHANGED vars
      PROVE  ChosenStep(x)
    BY <1>3, <1>8 DEF Tick, Editing, toggleTask, deleteTask, saveSingleTask, bulkTasks,
                      Submit, saveTasks, Stop, StopOperations, Configure, vars
<1>9. ASSUME Crash PROVE ChosenStep(x)
    <2>1. run'[x] = NoRun
        BY <1>9 DEF Crash
    <2> HIDE DEF NoRun
    <2> QED
        BY <2>1, NothingChosen DEF ChosenStep
<1> QED
    BY <1>4, <1>5, <1>6, <1>7, <1>8, <1>9 DEF Next

LEMMA NoneChosenKept ==
    ASSUME TypeOK, NoneChosenYet, [Next]_vars
    PROVE  NoneChosenYet'
BY ChosenSteps DEF NoneChosenYet, ChosenStep, Holding

-----------------------------------------------------------------------------
(* Who runs what: only the worker and manual wakes run a quota task        *)

TriggerInv ==
    /\ \A t \in TaskID : scan.snapshot[t].present => scan.snapshot[t].kind = tasks[t].kind
    /\ \A x \in Actor : run[x].pc # "none" =>
           LET r == run[x]
           IN  /\ r.trigger = "quota_reset" => r.id \in TaskID
               /\ r.id \in TaskID => \/ tasks[r.id].kind # "quota_reset"
                                     \/ r.trigger = "quota_reset"
                                     \/ r.trigger = "manual" /\ Manual # {}

LEMMA TriggerKept ==
    ASSUME Editor = {}, MirrorInv, TriggerInv, [Next]_vars
    PROVE  TriggerInv'
<1>1. TypeOK /\ \A t \in TaskID : tasks'[t].kind = tasks[t].kind
    BY StaticTask DEF MirrorInv, PastInv, LockInv
<1>2. ASSUME NEW t \in TaskID, scan'.snapshot[t].present
      PROVE  scan'.snapshot[t].kind = tasks'[t].kind
    BY <1>1, <1>2, SnapshotSteps DEF TriggerInv
<1>3. ASSUME NEW x \in Actor, run'[x].pc # "none"
      PROVE  LET r == run'[x]
             IN  /\ r.trigger = "quota_reset" => r.id \in TaskID
                 /\ r.id \in TaskID => \/ tasks'[r.id].kind # "quota_reset"
                                       \/ r.trigger = "quota_reset"
                                       \/ r.trigger = "manual" /\ Manual # {}
    <2>1. CASE run'[x] = run[x]
        BY <1>1, <1>3, <2>1 DEF TriggerInv
    <2>2. CASE run'[x].pc # "lock" /\ run'[x] # run[x]
        <3>1. run[x].pc # "none" /\ run'[x].id = run[x].id /\ run'[x].trigger = run[x].trigger
            BY <1>1, <1>3, <2>2, RunSteps DEF RunStep, SameRun, LockTask
        <3> QED
            BY <1>1, <3>1 DEF TriggerInv
    <2>3. CASE CallOf(x, run'[x])
        BY <1>1, <2>3 DEF CallOf, TriggerInv
    <2> QED
        BY <1>1, <2>1, <2>2, <2>3, CallSteps
<1> QED
    BY <1>2, <1>3 DEF TriggerInv

-----------------------------------------------------------------------------
(* What a quota run picked stays due until the run ends                    *)

ProbeBase == HistoryInv /\ MirrorInv /\ FreshInv /\ AccountsSaved

(* An account without a record has no boundaries, and a task of the file    *)
(* was created when the clock started.                                      *)
RecordsInv ==
    /\ \A t \in TaskID : tasks[t].present => tasks[t].created = 1
    /\ \A a \in Account, w \in Window : ~accounts[a].known =>
           accounts[a].reset[w] = NoTime /\ accounts[a].elapsed[w] = NoTime

DueInv ==
    run[Worker].trigger = "quota_reset" =>
        \A a \in Chosen(run[Worker]) :
            LET r == run[Worker]
            IN  /\ a \in Account /\ IsQuotaTask(tasks[r.id])
                /\ quotaDueReset(tasks[r.id], a, accounts[a], r.started) # NoTime

(* What the history says of an account was over when its refresh began.    *)
QueryInv ==
    \A a \in Account : scan.pc = "query" /\ scan.at = a =>
        /\ \A t \in TaskID : woken[t][a] <= scan.attempt /\ failed[t][a].resetAt <= scan.attempt
        /\ \A x \in Actor : a \in Woke(run[x]) => run[x].started <= scan.attempt

ProbeInv == ProbeBase /\ RecordsInv /\ NoneChosenYet /\ TriggerInv /\ DueInv /\ QueryInv

LEMMA SameDue ==
    ASSUME NEW old \in Task, NEW new, SameTask(new, old), NEW a \in Account,
           NEW before, NEW after, SameAccount(after, before), NEW at
    PROVE  quotaDueReset(new, a, after, at) = quotaDueReset(old, a, before, at)
<1>1. /\ new \in Task /\ new.enabled = old.enabled /\ new.windows = old.windows
      /\ new.accounts = old.accounts /\ new.retries = old.retries
      /\ quotaAccountBaseline(new, a) = quotaAccountBaseline(old, a)
    BY SameTaskMeaning, SameProgress
<1>2. quotaResetTimes(after, new.windows) = quotaResetTimes(before, old.windows)
    BY <1>1 DEF quotaResetTimes, SameAccount
<1>3. LatestElapsed(new, a, after, at) = LatestElapsed(old, a, before, at)
    BY <1>1, <1>2 DEF LatestElapsed
<1>4. quotaTaskSelectsAccount(new, a) = quotaTaskSelectsAccount(old, a)
    BY <1>1 DEF quotaTaskSelectsAccount
<1> QED
    BY <1>1, <1>3, <1>4 DEF quotaDueReset, SameAccount

(* While the worker's run goes on nothing else ends a run of its task, and  *)
(* no refresh ends.                                                         *)
LEMMA WorkerHoldsStill ==
    ASSUME Editor = {}, ProbeBase, [Next]_vars, run[Worker].id \in TaskID,
           run[Worker].pc \in Holding, run'[Worker].pc \in Holding
    PROVE  /\ SameTask(tasks'[run[Worker].id], tasks[run[Worker].id])
           /\ \A a \in Account : SameAccount(accounts'[a], accounts[a])
<1> DEFINE t == run[Worker].id
<1>1. TypeOK /\ LockInv /\ Worker \in Actor /\ scan.pc = "evaluate"
    BY ConstantTypes DEF ProbeBase, FreshInv, LockInv, WorkerIsSequential, Holding
<1>2. run \in [Actor -> Run] /\ NoRun.pc = "none" /\ t # NoTask
    BY <1>1, NothingChosen, WakeupAssumption DEF TypeOK
<1> HIDE DEF NoRun
<1>3. ASSUME NEW actor \in Actor, FinishRun(actor), run[actor].id = t PROVE FALSE
    <2>1. run[actor].pc = "finish" /\ run' = [run EXCEPT ![actor] = NoRun]
        BY <1>3 DEF FinishRun
    <2>2. actor = Worker
        BY <1>1, <1>2, <1>3, <2>1 DEF LockInv, TasksHeld, Holding
    <2> QED
        BY <1>1, <1>2, <2>1, <2>2 DEF Holding
<1>4. ~Configure /\ ~Crash
    <2>1. CASE Configure
        BY <1>1, <2>1 DEF Configure, LockInv, WorkerIsSequential
    <2>2. CASE Crash
        BY <1>1, <1>2, <2>2 DEF Crash, Holding
    <2> QED
        BY <2>1, <2>2
<1>5. SameTask(tasks'[t], tasks[t])
    BY <1>1, <1>3, <1>4, TaskSteps DEF TaskStep
<1>6. \A a \in Account : SameAccount(accounts'[a], accounts[a])
    BY <1>1, AccountStep DEF ProbeBase, FinishRefresh
<1> QED
    BY <1>5, <1>6

LEMMA DueKept ==
    ASSUME Editor = {}, ProbeInv, [Next]_vars
    PROVE  DueInv'
<1> SUFFICES ASSUME run'[Worker].trigger = "quota_reset", NEW a \in Chosen(run'[Worker])
             PROVE  LET r == run'[Worker]
                    IN  /\ a \in Account /\ IsQuotaTask(tasks'[r.id])
                        /\ quotaDueReset(tasks'[r.id], a, accounts'[a], r.started) # NoTime
    BY DEF DueInv
<1> DEFINE r == run[Worker]
<1>1. TypeOK /\ Worker \in Actor /\ r \in Run /\ tasks \in [TaskID -> Task]
    BY ConstantTypes DEF ProbeInv, ProbeBase, FreshInv, LockInv, TypeOK
<1>2. /\ ChosenStep(Worker) /\ RunStep(Worker)
    BY <1>1, ChosenSteps, RunSteps DEF ProbeInv
<1>3. /\ r.pc \in Holding /\ run'[Worker].pc \in Holding
      /\ SameRun(run'[Worker], r)
      /\ a \in Chosen(r) \/ Picks(Worker, a)
    <2>1. CASE run'[Worker] = r
        BY <1>1, <2>1 DEF ProbeInv, NoneChosenYet, Holding, SameRun, Run
    <2>2. CASE run'[Worker] # r
        BY <1>2, <2>2 DEF ChosenStep, RunStep, Holding
    <2> QED
        BY <2>1, <2>2
<1>4. r.id \in TaskID /\ r.trigger = "quota_reset"
    BY <1>1, <1>3 DEF ProbeInv, TriggerInv, SameRun, Holding
<1>5. /\ a \in Account /\ IsQuotaTask(tasks[r.id])
      /\ quotaDueReset(tasks[r.id], a, accounts[a], r.started) # NoTime
    <2>1. CASE a \in Chosen(r)
        BY <1>4, <2>1 DEF ProbeInv, DueInv
    <2>2. CASE Picks(Worker, a)
        BY <1>4, <2>2 DEF Picks, StillQuotaTask, CurrentTask, Candidates
    <2> QED
        BY <1>3, <2>1, <2>2
<1>6. /\ SameTask(tasks'[r.id], tasks[r.id])
      /\ SameAccount(accounts'[a], accounts[a])
    BY <1>3, <1>4, <1>5, WorkerHoldsStill DEF ProbeInv
<1>7. IsQuotaTask(tasks'[r.id])
    BY <1>1, <1>4, <1>5, <1>6, SameTaskMeaning DEF IsQuotaTask
<1>8. quotaDueReset(tasks'[r.id], a, accounts'[a], r.started) # NoTime
    BY <1>1, <1>4, <1>5, <1>6, SameDue
<1> QED
    BY <1>3, <1>5, <1>7, <1>8 DEF SameRun

LEMMA RecordsKept ==
    ASSUME Editor = {}, ProbeBase, RecordsInv, [Next]_vars
    PROVE  RecordsInv'
<1>1. TypeOK
    BY DEF ProbeBase, FreshInv, LockInv
<1>2. \A t \in TaskID : tasks'[t].present => tasks'[t].created = 1
    BY StaticTask DEF ProbeBase, RecordsInv
<1>3. ASSUME NEW a \in Account, ~accounts'[a].known
      PROVE  SameAccount(accounts'[a], accounts[a]) /\ ~accounts[a].known
    <2>1. ASSUME accounts'[a] \in RefreshOutcomes(a) PROVE FALSE
        <3>1. accounts[a] \in AccountState
            BY <1>1 DEF TypeOK
        <3>2. RefreshFailed(accounts[a], scan.attempt).known
            BY <3>1 DEF RefreshFailed, AccountState
        <3>3. \A answer : Refreshed(accounts[a], scan.attempt, answer).known
            BY <3>1 DEF Refreshed, AccountState
        <3>4. accounts'[a] = RefreshFailed(accounts[a], scan.attempt)
              \/ \E answer : accounts'[a] = Refreshed(accounts[a], scan.attempt, answer)
            BY <2>1 DEF RefreshOutcomes
        <3> QED
            BY <1>3, <3>2, <3>3, <3>4
    <2> QED
        BY <1>1, <1>3, <2>1, AccountStep DEF ProbeBase, SameAccount
<1> QED
    BY <1>2, <1>3 DEF RecordsInv, SameAccount

(* A scan that talks to the usage service goes on, or has just begun to.   *)
QueryStep ==
    \/ scan.pc = "query" /\ scan'.at = scan.at /\ scan'.attempt = scan.attempt
    \/ scan'.attempt = now /\ UNCHANGED <<now, run, history>>

LEMMA QuerySteps ==
    ASSUME TypeOK, [Next]_vars, scan'.pc = "query"
    PROVE  QueryStep
<1>1. scan \in Scan
    BY DEF TypeOK
<1>2. CASE scan' = scan
    BY <1>2 DEF QueryStep
<1>3. CASE StartScan
    BY <1>1, <1>3 DEF StartScan, Scan
<1>4. CASE ListForRefresh
    BY <1>1, <1>4 DEF ListForRefresh, Scan
<1>5. ASSUME NEW a \in Account, RefreshNext(a) PROVE QueryStep
    <2> DEFINE listed == [scan EXCEPT !.todo = @ \ {a}, !.live = @ \cup {a}]
               next == [listed EXCEPT !.pc = "query", !.at = a, !.attempt = now]
    <2>1. listed.pc = scan.pc /\ next.attempt = now
        BY <1>1 DEF Scan
    <2>2. (scan' = listed \/ scan' = next) /\ scan.pc = "refresh" /\ UNCHANGED <<now, run, history>>
        BY <1>5 DEF RefreshNext
    <2> HIDE DEF listed, next
    <2> QED
        BY <2>1, <2>2 DEF QueryStep
<1>6. CASE FinishRefresh
    <2> DEFINE next == [scan EXCEPT !.pc = "refresh", !.at = NoAccount, !.attempt = NoTime]
               none == [IdleScan EXCEPT !.pc = "evaluate"]
    <2>1. next.pc = "refresh" /\ none.pc = "evaluate"
        BY <1>1 DEF Scan, IdleScan
    <2>2. scan' = none \/ scan' = next
        BY <1>6 DEF FinishRefresh
    <2> HIDE DEF next, none
    <2> QED
        BY <2>1, <2>2
<1>7. CASE StartEvaluation
    BY <1>1, <1>7 DEF StartEvaluation, Scan
<1>8. ASSUME NEW t \in TaskID, EvaluateTask(t) PROVE QueryStep
    <2>1. scan'.pc = scan.pc /\ scan.pc = "evaluate"
        BY <1>1, <1>8 DEF EvaluateTask, Scan
    <2> QED
        BY <2>1
<1>9. CASE EndScan
    BY <1>9 DEF EndScan, IdleScan
<1>10. CASE Configure \/ Crash
    BY <1>10 DEF Configure, Crash, Load, IdleScan
<1>11. ASSUME NEW y \in Actor, Running(y) PROVE scan' = scan
    <2>1. LockTask(y) \/ FinishAccount(y) \/ EndAccounts(y) \/ FinishRun(y) => scan' = scan
        BY DEF LockTask, FinishAccount, EndAccounts, FinishRun
    <2>2. ListCandidates(y) => scan' = scan
        BY DEF ListCandidates
    <2>3. (\E a \in Account : StartAccount(y, a)) => scan' = scan
        BY DEF StartAccount
    <2> QED
        BY <1>11, <2>1, <2>2, <2>3 DEF Running
<1>12. ASSUME NEW e \in Editor, Editing(e) PROVE scan' = scan
    BY <1>12 DEF Editing, toggleTask, deleteTask, saveSingleTask, bulkTasks, Submit, saveTasks
<1>13. Tick \/ Stop \/ StopOperations \/ UNCHANGED vars => scan' = scan
    BY DEF Tick, Stop, StopOperations, vars
<1>14. (\E u \in TaskID : FireStartup(u)) => scan' = scan
    BY DEF FireStartup
<1>15. ASSUME NEW m \in Manual, Waking(m) PROVE scan' = scan
    BY <1>15 DEF Waking, WakeTask, WakeAdHoc
<1> QED
    BY <1>2, <1>3, <1>4, <1>5, <1>6, <1>7, <1>8, <1>9, <1>10, <1>11, <1>12, <1>13, <1>14, <1>15
    DEF Next, Scanning

(* Who holds an account that a refresh asks about cannot be woken meanwhile. *)
LEMMA QueryExcludes ==
    ASSUME LockInv, scan.pc = "query", scan.at \in Account,
           NEW x \in Actor, run[x].pc = "request"
    PROVE  run[x].at # scan.at
<1>1. Worker \in Actor
    BY ConstantTypes
<1>2. UsesAccount(Worker, scan.at)
    BY DEF UsesAccount
<1>3. SUFFICES ASSUME run[x].at = scan.at PROVE FALSE
    OBVIOUS
<1>4. UsesAccount(x, scan.at)
    BY <1>3 DEF UsesAccount
<1>5. x = Worker
    BY <1>1, <1>2, <1>4 DEF LockInv, AccountsHeld
<1> QED
    BY <1>5 DEF LockInv, WorkerIsSequential

LEMMA QueryKept ==
    ASSUME Editor = {}, ProbeInv, [Next]_vars
    PROVE  QueryInv'
<1> SUFFICES ASSUME NEW a \in Account, scan'.pc = "query", scan'.at = a
             PROVE  /\ \A t \in TaskID : woken'[t][a] <= scan'.attempt
                                         /\ failed'[t][a].resetAt <= scan'.attempt
                    /\ \A x \in Actor : a \in Woke(run'[x]) => run'[x].started <= scan'.attempt
    BY DEF QueryInv
<1>1. TypeOK /\ LockInv /\ HistoryInv /\ now \in Nat /\ run \in [Actor -> Run] /\ scan \in Scan
    BY DEF ProbeInv, ProbeBase, FreshInv, LockInv, TypeOK
<1>2. \A t \in TaskID : woken[t][a] \in Nat /\ failed[t][a].resetAt \in Nat
    BY <1>1 DEF TypeOK, Failure
<1>3. QueryStep
    BY <1>1, QuerySteps
<1>4. CASE scan'.attempt = now /\ UNCHANGED <<now, run, history>>
    <2>1. \A t \in TaskID : woken[t][a] <= now
        BY <1>1 DEF HistoryInv, Before
    <2>2. ASSUME NEW t \in TaskID PROVE failed[t][a].resetAt <= now
        <3>1. failed[t][a].resetAt # NoTime => failed[t][a].resetAt + ResetDelay <= now
            BY <1>1 DEF HistoryInv, Before
        <3> QED
            BY <1>1, <1>2, <3>1, QuotaRulesAssumption DEF NoTime
    <2>3. ASSUME NEW x \in Actor, a \in Woke(run[x]) PROVE run[x].started <= now
        <3>1. run[x].pc \in Holding
            BY <1>1, <2>3 DEF ProbeInv, NoneChosenYet, Chosen, Holding, Run
        <3> QED
            BY <1>1, <3>1 DEF HistoryInv
    <2> QED
        BY <1>4, <2>1, <2>2, <2>3 DEF history
<1>5. CASE scan.pc = "query" /\ scan'.at = scan.at /\ scan'.attempt = scan.attempt
    <2> DEFINE attempt == scan.attempt
    <2>1. attempt \in Nat
        BY <1>1 DEF Scan
    <2>2. /\ \A t \in TaskID : woken[t][a] <= attempt /\ failed[t][a].resetAt <= attempt
          /\ \A x \in Actor : a \in Woke(run[x]) => run[x].started <= attempt
        BY <1>5 DEF ProbeInv, QueryInv
    <2> HIDE DEF attempt
    <2>3. ASSUME NEW actor \in Actor, FinishRun(actor), NEW t \in TaskID
          PROVE  woken'[t][a] <= attempt /\ failed'[t][a].resetAt <= attempt
        <3> DEFINE r == run[actor]
                   due == LatestElapsed(tasks[t], a, accounts[a], r.started)
                   failure == FailedAgain(failed[t][a], due, r.results[a], r.completed)
        <3>1. r \in Run /\ r.started \in Nat /\ tasks[t] \in Task /\ accounts[a] \in AccountState
            BY <1>1 DEF TypeOK, Run
        <3>2. /\ woken'[t][a] = IF t = r.id /\ r.results[a] = "success"
                                THEN r.started ELSE woken[t][a]
              /\ failed'[t][a] =
                     IF t = r.id /\ r.trigger = "quota_reset" /\ r.results[a] \in Retryable
                     THEN failure ELSE failed[t][a]
            BY <1>1, <2>3, RecordMeaning
        <3>3. r.results[a] = "success" \/ r.results[a] \in Retryable => r.started <= attempt
            BY <2>2 DEF Woke, Attempted, Retryable, Result
        <3>4. due \in Nat /\ (due # NoTime => due + ResetDelay <= r.started)
            BY <3>1, LatestElapsedMeaning
        <3>5. due <= r.started /\ failure.resetAt = due
            <4>1. failed[t][a] \in Failure /\ r.completed \in Nat
                BY <1>1, <3>1 DEF TypeOK, Run
            <4> QED
                BY <3>1, <3>4, <4>1, FailedAgainType, QuotaRulesAssumption DEF NoTime
        <3> HIDE DEF due, failure
        <3>6. failed'[t][a].resetAt <= attempt
            BY <2>1, <2>2, <3>1, <3>2, <3>3, <3>4, <3>5
        <3> QED
            BY <2>2, <3>2, <3>3, <3>6
    <2>4. \A t \in TaskID : woken'[t][a] <= attempt /\ failed'[t][a].resetAt <= attempt
        BY <2>2, <2>3, HistorySteps DEF history
    <2>5. ASSUME NEW x \in Actor, a \in Woke(run'[x]) PROVE run'[x].started <= attempt
        <3>1. CASE run'[x] = run[x]
            BY <2>2, <2>5, <3>1
        <3>2. CASE run'[x] # run[x]
            <4>1. ChosenStep(x) /\ RunStep(x)
                BY <1>1, ChosenSteps, RunSteps DEF ProbeInv
            <4>2. a \in Chosen(run'[x])
                BY <2>5 DEF Chosen
            <4>3. /\ SameRun(run'[x], run[x])
                  /\ a \in Woke(run[x]) \/ (run[x].pc = "request" /\ run[x].at = a)
                BY <2>5, <3>2, <4>1, <4>2 DEF ChosenStep, RunStep, Holding
            <4>4. ~(run[x].pc = "request" /\ run[x].at = a)
                BY <1>1, <1>5, QueryExcludes
            <4> QED
                BY <2>2, <4>3, <4>4 DEF SameRun
        <3> QED
            BY <3>1, <3>2
    <2> QED
        BY <1>5, <2>4, <2>5 DEF attempt
<1> QED
    BY <1>3, <1>4, <1>5 DEF QueryStep

LEMMA ProbeKept ==
    ASSUME Editor = {}, ProbeInv, ProbeBase', [Next]_vars
    PROVE  ProbeInv'
<1>1. TypeOK /\ MirrorInv
    BY DEF ProbeInv, ProbeBase, FreshInv, LockInv
<1>2. RecordsInv' /\ DueInv' /\ QueryInv'
    BY RecordsKept, DueKept, QueryKept DEF ProbeInv
<1>3. NoneChosenYet' /\ TriggerInv'
    BY <1>1, NoneChosenKept, TriggerKept DEF ProbeInv
<1> QED
    BY <1>2, <1>3 DEF ProbeInv

LEMMA InitProbe ==
    ASSUME Init, ProbeBase
    PROVE  ProbeInv
<1>1. /\ \A a \in Account : accounts[a] = UnknownAccount
      /\ \A x \in Actor : run[x] = NoRun
      /\ scan = [IdleScan EXCEPT !.first = TRUE]
    BY DEF Init
<1>2. Worker \in Actor
    BY ConstantTypes
<1>3. RecordsInv
    <2>1. \A t \in TaskID : tasks[t].present => tasks[t].created = 1
        <3>1. PICK ts \in InitTasks : disk = Saved(ts, accounts)
            BY DEF Init
        <3> SUFFICES ASSUME NEW t \in TaskID, tasks[t].present PROVE tasks[t].created = 1
            OBVIOUS
        <3>2. ts[t] \in Task /\ disk.tasks[t] = Encoded(ts[t]) /\ FromThePast(ts[t])
            BY <3>1, InputAssumption DEF Saved
        <3>3. disk.tasks[t].present = ts[t].present /\ disk.tasks[t].created = ts[t].created
            BY <3>2, EncodedMeaning
        <3>4. tasks[t].present = disk.tasks[t].present /\ tasks[t].created = disk.tasks[t].created
            BY DEF ProbeBase, MirrorInv, Mirrors
        <3> QED
            BY <3>2, <3>3, <3>4 DEF FromThePast
    <2>2. \A a \in Account, w \in Window :
              accounts[a].reset[w] = NoTime /\ accounts[a].elapsed[w] = NoTime
        BY <1>1 DEF UnknownAccount
    <2> QED
        BY <2>1, <2>2 DEF RecordsInv
<1>4. NoneChosenYet
    BY <1>1, NothingChosen DEF NoneChosenYet
<1>5. TriggerInv
    BY <1>1 DEF TriggerInv, IdleScan, AbsentTask, NoRun
<1>6. DueInv
    <2>1. run[Worker].trigger = "none"
        BY <1>1, <1>2 DEF NoRun
    <2> QED
        BY <2>1 DEF DueInv
<1>7. QueryInv
    BY <1>1 DEF QueryInv, IdleScan
<1> QED
    BY <1>3, <1>4, <1>5, <1>6, <1>7 DEF ProbeInv

LEMMA ProbeBaseHeld == ASSUME SaveCanFail = FALSE PROVE Spec => []ProbeBase
<1>1. Spec => []HistoryInv
    BY InitHistory, HistoryKept, PTL DEF Spec
<1>2. ASSUME MirrorInv, [Next]_vars PROVE MirrorInv'
    BY <1>2, MirrorKept
<1>3. Spec => []MirrorInv
    BY <1>2, InitMirror, PTL DEF Spec
<1>4. ResetInv => AccountsSaved
    BY DEF ResetInv
<1> QED
    BY <1>1, <1>3, <1>4, FreshnessHeld, ResetsHeld, PTL DEF ProbeBase

\* While nobody edits the tasks and the file can be written, an account that a
\* quota run has picked has a boundary due for it, as of the start of the run,
\* until the run ends (quotaDueAccounts and the recheck in executeTask); and no
\* run that is recorded for an account lies after the refresh that asks about it.
THEOREM PickedAccountsStayDue ==
    ASSUME SaveCanFail = FALSE, Editor = {}
    PROVE  Spec => []ProbeInv
<1>1. ASSUME ProbeInv, ProbeBase', [Next]_vars PROVE ProbeInv'
    BY <1>1, ProbeKept
<1>2. Init /\ ProbeBase => ProbeInv
    BY InitProbe
<1> QED
    BY <1>1, <1>2, ProbeBaseHeld, PTL DEF Spec

-----------------------------------------------------------------------------
(* The boundaries a task has yet to answer                                 *)

Unconsumed(task, a, account) ==
    {s \in quotaResetTimes(account, task.windows) : s > quotaAccountBaseline(task, a)}

Watches(t, a) ==
    /\ tasks[t].present /\ tasks[t].kind = "quota_reset"
    /\ quotaTaskSelectsAccount(tasks[t], a)

LEMMA UnconsumedType ==
    ASSUME NEW task \in Task, NEW a \in Account, NEW account \in AccountState
    PROVE  Unconsumed(task, a, account) \subseteq Nat
BY ResetTimesType DEF Unconsumed, Task

(* A new boundary of an account comes with a usage response and lies after  *)
(* the request for it.                                                      *)
LEMMA TimesStep ==
    ASSUME TypeOK, AccountsSaved, [Next]_vars, NEW a \in Account,
           NEW windows \in SUBSET Window, NEW s \in quotaResetTimes(accounts'[a], windows)
    PROVE  \/ s \in quotaResetTimes(accounts[a], windows)
           \/ scan.pc = "query" /\ scan.at = a /\ s > scan.attempt
<1>1. CASE SameAccount(accounts'[a], accounts[a])
    BY <1>1 DEF SameAccount, quotaResetTimes
<1>2. CASE FinishRefresh /\ scan.at = a /\ accounts'[a] \in RefreshOutcomes(a)
    <2>1. scan.pc = "query" /\ scan.attempt \in Nat /\ accounts[a] \in AccountState
        BY <1>2 DEF FinishRefresh, TypeOK, Scan
    <2>2. PICK w \in windows : /\ s \in {accounts'[a].reset[w], accounts'[a].elapsed[w]}
                               /\ s # NoTime
        BY DEF quotaResetTimes
    <2> DEFINE old == {accounts[a].reset[w], accounts[a].elapsed[w]}
    <2>3. \/ accounts'[a].reset[w] \in old /\ accounts'[a].elapsed[w] \in old
          \/ /\ accounts'[a].reset[w] \in Answers(accounts[a].reset[w], scan.attempt)
             /\ accounts'[a].elapsed[w] =
                    rememberElapsedReset(accounts[a].elapsed[w], accounts[a].reset[w],
                                         accounts'[a].reset[w], now)
        BY <1>2, OutcomeMeaning
    <2>4. ASSUME NEW answer \in Answers(accounts[a].reset[w], scan.attempt), answer # NoTime
          PROVE  answer \in old \/ answer > scan.attempt
        <3>1. \/ answer = accounts[a].reset[w]
              \/ \E span \in WindowSpan : answer = scan.attempt + span
            BY <2>4 DEF Answers
        <3>2. \A span \in WindowSpan : span \in Nat /\ span > 0
            BY WakeupAssumption
        <3>3. scan.attempt \in Nat
            BY <2>1
        <3> QED
            BY <3>1, <3>2, <3>3
    <2>5. s \in old \/ s > scan.attempt
        BY <2>2, <2>3, <2>4 DEF rememberElapsedReset
    <2>6. s \in old => s \in quotaResetTimes(accounts[a], windows)
        BY <2>2 DEF quotaResetTimes
    <2> QED
        BY <1>2, <2>1, <2>5, <2>6
<1> QED
    BY <1>1, <1>2, AccountStep

LEMMA UnconsumedStep ==
    ASSUME Editor = {}, ProbeInv, [Next]_vars, NEW t \in TaskID, NEW a \in Account, Watches(t, a),
           NEW s \in Unconsumed(tasks'[t], a, accounts'[a])
    PROVE  \/ s \in Unconsumed(tasks[t], a, accounts[a])
           \/ scan.pc = "query" /\ scan.at = a /\ s > scan.attempt
<1> DEFINE times == quotaResetTimes(accounts[a], tasks[t].windows)
<1>1. TypeOK /\ TypeOK' /\ MirrorInv /\ AccountsSaved
    BY LocksKept DEF ProbeInv, ProbeBase, MirrorInv, PastInv, LockInv
<1>2. tasks[t] \in Task /\ tasks'[t] \in Task /\ accounts[a] \in AccountState
    BY <1>1 DEF TypeOK
<1>3. /\ tasks'[t].present = tasks[t].present /\ tasks'[t].windows = tasks[t].windows
      /\ tasks'[t].created = tasks[t].created
    BY <1>1, StaticTask
<1>4. s \in quotaResetTimes(accounts'[a], tasks[t].windows)
      /\ s > quotaAccountBaseline(tasks'[t], a)
    BY <1>3 DEF Unconsumed
<1>5. CASE s \in times
    <2>1. accounts[a].known
        BY <1>2, <1>5 DEF ProbeInv, RecordsInv, quotaResetTimes, Task
    <2>2. tasks[t].created = 1
        BY DEF ProbeInv, RecordsInv, Watches
    <2>3. HasOwnRun(tasks'[t])
        BY <1>2, <1>3, <2>2 DEF HasOwnRun, Task, NoTime
    <2>4. quotaAccountBaseline(tasks'[t], a) >= quotaAccountBaseline(tasks[t], a)
        BY <1>1, <1>3, <2>1, <2>3, CursorStep DEF Watches
    <2>5. s \in Nat /\ quotaAccountBaseline(tasks'[t], a) \in Nat
          /\ quotaAccountBaseline(tasks[t], a) \in Nat
        BY <1>2, <1>5, ResetTimesType, BaselineType DEF Task
    <2> HIDE DEF times
    <2>6. s > quotaAccountBaseline(tasks[t], a)
        BY <1>4, <2>4, <2>5
    <2> QED
        BY <1>5, <2>6 DEF Unconsumed, times
<1>6. CASE s \notin times
    <2>1. tasks[t].windows \in SUBSET Window
        BY <1>2 DEF Task
    <2> QED
        BY <1>1, <1>4, <1>6, <2>1, TimesStep
<1> QED
    BY <1>5, <1>6

(* What an account that a quota run has picked has waiting.                *)
LEMMA PickedIsDue ==
    ASSUME ProbeInv, NEW x \in Actor, run[x].pc # "none", run[x].trigger = "quota_reset",
           NEW a \in Chosen(run[x])
    PROVE  LET r == run[x]
               due == LatestElapsed(tasks[r.id], a, accounts[a], r.started)
           IN  /\ r.id \in TaskID /\ a \in Account /\ Watches(r.id, a)
               /\ ~accounts[a].error
               /\ due # NoTime /\ due \in Unconsumed(tasks[r.id], a, accounts[a])
               /\ ~RetryIsPending(tasks[r.id].retries[a], due, r.started)
<1> DEFINE r == run[x]
           task == tasks[r.id]
           due == LatestElapsed(task, a, accounts[a], r.started)
<1>1. x = Worker /\ r.id \in TaskID
    BY DEF ProbeInv, ProbeBase, FreshInv, QuotaRunsByWorker, TriggerInv
<1>2. a \in Account /\ IsQuotaTask(task) /\ quotaDueReset(task, a, accounts[a], r.started) # NoTime
    BY <1>1 DEF ProbeInv, DueInv
<1>3. /\ ~accounts[a].error /\ quotaTaskSelectsAccount(task, a)
      /\ due # NoTime /\ ~RetryIsPending(task.retries[a], due, r.started)
    BY <1>2 DEF quotaDueReset
<1>4. task \in Task /\ accounts[a] \in AccountState /\ r.started \in Nat
    BY <1>1, <1>2 DEF ProbeInv, ProbeBase, FreshInv, LockInv, TypeOK, Run
<1>5. due \in Unconsumed(task, a, accounts[a])
    BY <1>2, <1>3, <1>4, LatestElapsedMeaning DEF Unconsumed
<1> QED
    BY <1>1, <1>2, <1>3, <1>5 DEF Watches, IsQuotaTask

(* What the end of a run makes of a quota task, for an account it watches.  *)
RunAnswer(r, a, account) ==
    IF r.results[a] \in Attempted /\ ~account.error
    THEN LatestElapsed(tasks[r.id], a, account, r.started) ELSE NoTime

LEMMA QuotaRunAnswers ==
    ASSUME ProbeInv, [Next]_vars, NEW actor \in Actor, FinishRun(actor),
           run[actor].id \in TaskID, NEW a \in Account, Watches(run[actor].id, a),
           accounts[a].known
    PROVE  LET r == run[actor]
               old == tasks[r.id]
               new == tasks'[r.id]
               answer == RunAnswer(r, a, accounts[a])
               kept == KeepForRetry(r.trigger, r.results[a])
           IN  /\ quotaAccountBaseline(new, a) =
                      IF answer # NoTime /\ ~kept THEN answer ELSE quotaAccountBaseline(old, a)
               /\ new.retries[a] =
                      IF answer = NoTime THEN old.retries[a]
                      ELSE IF kept THEN NextRetry(old.retries[a], answer, r.results[a], r.completed)
                      ELSE NoRetry
               /\ new.windows = old.windows
               /\ SameAccount(accounts'[a], accounts[a])
<1> DEFINE r == run[actor]
           old == tasks[r.id]
           new == tasks'[r.id]
           answer == Answer(old, accounts', r.results, r.started, a)
<1>1. TypeOK /\ TypeOK' /\ AccountsSaved
    BY LocksKept DEF ProbeInv, ProbeBase, MirrorInv, PastInv, LockInv
<1>2. old \in Task /\ new \in Task /\ accounts[a] \in AccountState /\ r \in Run
      /\ accounts' \in [Account -> AccountState]
    BY <1>1 DEF TypeOK
<1>3. SameAccount(accounts'[a], accounts[a])
    <2>1. accounts' = WithResults(accounts, r)
        BY DEF FinishRun
    <2> QED
        BY <1>2, <2>1 DEF WithResults, SameAccount, AccountState
<1>4. new = Finished(old, accounts', r)
    BY DEF FinishRun, Watches
<1>5. Covers(old, accounts', a) /\ old.kind = "quota_reset"
    BY <1>3 DEF Covers, SameAccount, Watches, quotaTaskSelectsAccount
<1>6. /\ quotaAccountBaseline(new, a) =
             IF answer # NoTime /\ ~KeepForRetry(r.trigger, r.results[a])
             THEN answer ELSE quotaAccountBaseline(old, a)
      /\ new.retries[a] =
             IF answer = NoTime THEN old.retries[a]
             ELSE IF KeepForRetry(r.trigger, r.results[a])
             THEN NextRetry(old.retries[a], answer, r.results[a], r.completed)
             ELSE NoRetry
    BY <1>2, <1>4, <1>5, FinishedBaseline
<1>7. quotaResetTimes(accounts'[a], old.windows) = quotaResetTimes(accounts[a], old.windows)
    BY <1>3 DEF quotaResetTimes, SameAccount
<1>8. answer = RunAnswer(r, a, accounts[a])
    <2>1. LatestElapsed(old, a, accounts'[a], r.started) = LatestElapsed(old, a, accounts[a], r.started)
        BY <1>7 DEF LatestElapsed
    <2> QED
        BY <1>3, <2>1 DEF Answer, RunAnswer, SameAccount, Watches
<1>9. new.windows = old.windows
    BY <1>2, <1>4, FinishedKeeps
<1> QED
    BY <1>3, <1>6, <1>8, <1>9

(* A run that answers an account leaves no boundary behind whose delay was  *)
(* over when it started.                                                    *)
LEMMA NothingLeftBehind ==
    ASSUME ProbeInv, [Next]_vars, NEW actor \in Actor, FinishRun(actor),
           run[actor].id \in TaskID, NEW a \in Account, Watches(run[actor].id, a),
           accounts[a].known, ~accounts[a].error, run[actor].results[a] \in Attempted,
           ~KeepForRetry(run[actor].trigger, run[actor].results[a]),
           NEW s \in Unconsumed(tasks'[run[actor].id], a, accounts'[a])
    PROVE  s + ResetDelay > run[actor].started
<1> DEFINE r == run[actor]
           old == tasks[r.id]
           new == tasks'[r.id]
           due == LatestElapsed(old, a, accounts[a], r.started)
<1>1. old \in Task /\ accounts[a] \in AccountState /\ r.started \in Nat
    BY DEF ProbeInv, ProbeBase, FreshInv, LockInv, TypeOK, Run
<1>2. /\ quotaAccountBaseline(new, a) = IF due # NoTime THEN due ELSE quotaAccountBaseline(old, a)
      /\ new.windows = old.windows /\ SameAccount(accounts'[a], accounts[a])
    BY QuotaRunAnswers DEF RunAnswer
<1>3. s \in quotaResetTimes(accounts[a], old.windows) /\ s > quotaAccountBaseline(new, a)
    BY <1>2 DEF Unconsumed, SameAccount, quotaResetTimes
<1>4. s \in Nat /\ s # NoTime /\ quotaAccountBaseline(old, a) \in Nat
    <2>1. quotaResetTimes(accounts[a], old.windows) \subseteq Nat
        BY <1>1, ResetTimesType DEF Task
    <2> QED
        BY <1>1, <1>3, <2>1, BaselineType DEF quotaResetTimes
<1>5. /\ due \in Nat
      /\ due # NoTime => due > quotaAccountBaseline(old, a)
      /\ s > quotaAccountBaseline(old, a) /\ s + ResetDelay <= r.started => s <= due
    BY <1>1, <1>3, LatestElapsedMeaning
<1> HIDE DEF due
<1> QED
    BY <1>1, <1>2, <1>3, <1>4, <1>5, QuotaRulesAssumption DEF NoTime

(* Only the end of a run of its id changes what a task keeps for a retry and *)
(* what the history says of it.                                              *)
LEMMA NothingRecorded ==
    ASSUME Editor = {}, ProbeInv, [Next]_vars, NEW t \in TaskID, NEW a \in Account,
           ~\E actor \in Actor : FinishRun(actor) /\ run[actor].id = t
    PROVE  /\ tasks'[t].retries[a] = tasks[t].retries[a]
           /\ woken'[t][a] = woken[t][a] /\ failed'[t][a] = failed[t][a]
<1>1. TypeOK /\ Mirrors(disk.tasks[t], tasks[t]) /\ tasks[t] \in Task /\ disk.tasks[t] \in Task
    BY DEF ProbeInv, ProbeBase, MirrorInv, PastInv, LockInv, TypeOK
<1>2. tasks'[t].retries[a] = tasks[t].retries[a]
    BY <1>1, TaskSteps, SameTaskMeaning DEF TaskStep, Mirrors
<1>3. woken'[t][a] = woken[t][a] /\ failed'[t][a] = failed[t][a]
    BY <1>1, HistorySteps, RecordMeaning DEF history
<1> QED
    BY <1>2, <1>3

-----------------------------------------------------------------------------
(* A failed probe is repeated for the same boundary only later             *)

(* The failure is what the task keeps for a retry, or it is behind; and a   *)
(* retry of before the clock started is behind as well.                     *)
Follows(retry, failure) ==
    /\ retry.resetAt = failure.resetAt
    /\ retry.failures = failure.repeats + 1
    /\ retry.nextRetryAt = failure.completed + Backoff(failure)

Spaced(task, a, account, failure) ==
    /\ task.retries[a].resetAt <= 1 \/ task.retries[a].resetAt <= failure.resetAt
    /\ \/ Follows(task.retries[a], failure)
       \/ \A s \in Unconsumed(task, a, account) : s > failure.resetAt

(* The retry that a failed probe leaves counts and waits as its failure     *)
(* calls for: quotaRetryDelay doubles with every failure of the boundary.   *)
LEMMA RetryFollows ==
    ASSUME NEW retry \in Retry, NEW last \in Failure, NEW reset \in Nat, NEW result,
           NEW completed \in Nat,
           Follows(retry, last) \/ (reset # last.resetAt /\ reset # retry.resetAt)
    PROVE  Follows(NextRetry(retry, reset, result, completed),
                   FailedAgain(last, reset, result, completed))
<1> DEFINE before == IF retry.resetAt = reset THEN retry.failures ELSE 0
           failures == IF before < FailureCap THEN before + 1 ELSE before
           again == FailedAgain(last, reset, result, completed)
           next == NextRetry(retry, reset, result, completed)
           delay == IF result = "credential" THEN MaximumBackoff ELSE quotaRetryDelay(failures)
<1>1. last.repeats \in Nat /\ retry.failures \in Nat
    BY DEF Failure, Retry
<1>2. next = [resetAt |-> reset, nextRetryAt |-> completed + delay, failures |-> failures]
    BY DEF NextRetry
<1>3. /\ again.resetAt = reset /\ again.completed = completed
      /\ again.credential <=> result = "credential"
      /\ again.repeats = IF reset # last.resetAt THEN 0
                         ELSE IF last.repeats + 1 < FailureCap THEN last.repeats + 1
                         ELSE last.repeats
    BY DEF FailedAgain
<1>4. /\ reset # last.resetAt => before = 0
      /\ reset = last.resetAt => before = last.repeats + 1
    BY DEF Follows
<1> HIDE DEF before, again
<1>5. failures = again.repeats + 1 /\ again.repeats \in Nat
    BY <1>1, <1>3, <1>4 DEF FailureCap
<1>6. failures - 1 = again.repeats
    BY <1>5
<1> HIDE DEF failures
<1>7. quotaRetryDelay(failures) =
          IF RefreshInterval * 2 ^ again.repeats \in RefreshInterval .. MaximumBackoff
          THEN RefreshInterval * 2 ^ again.repeats ELSE MaximumBackoff
    BY <1>6 DEF quotaRetryDelay
<1>8. delay = Backoff(again)
    BY <1>3, <1>7 DEF Backoff
<1> HIDE DEF delay, next
<1>9. Follows(next, again)
    BY <1>2, <1>3, <1>5, <1>8 DEF Follows
<1> QED
    BY <1>9 DEF next, again

SpacedInv ==
    \A t \in TaskID, a \in Account :
        Watches(t, a) => Spaced(tasks[t], a, accounts[a], failed[t][a])

LEMMA UnconsumedIsLate ==
    ASSUME ProbeInv, NEW t \in TaskID, NEW a \in Account, Watches(t, a),
           NEW s \in Unconsumed(tasks[t], a, accounts[a])
    PROVE  s \in Nat /\ s > 1
<1>1. tasks[t] \in Task /\ accounts[a] \in AccountState /\ tasks[t].created = 1
    BY DEF ProbeInv, ProbeBase, FreshInv, LockInv, TypeOK, RecordsInv, Watches
<1>2. s \in Nat /\ s > quotaAccountBaseline(tasks[t], a)
    BY <1>1, UnconsumedType DEF Unconsumed
<1>3. quotaAccountBaseline(tasks[t], a) \in Nat /\ quotaAccountBaseline(tasks[t], a) >= 1
    <2>1. tasks[t].lastRun \in Nat /\ tasks[t].handled[a] \in Nat
        BY <1>1 DEF Task
    <2> QED
        BY <1>1, <2>1 DEF quotaAccountBaseline, NoTime
<1> QED
    BY <1>2, <1>3

LEMMA SpacedStays ==
    ASSUME Editor = {}, ProbeInv, SpacedInv, [Next]_vars, NEW t \in TaskID, NEW a \in Account,
           Watches(t, a), tasks'[t].retries[a] = tasks[t].retries[a],
           failed'[t][a] = failed[t][a]
    PROVE  Spaced(tasks'[t], a, accounts'[a], failed'[t][a])
<1>1. CASE Follows(tasks[t].retries[a], failed[t][a])
    BY <1>1 DEF SpacedInv, Spaced
<1>2. CASE \A s \in Unconsumed(tasks[t], a, accounts[a]) : s > failed[t][a].resetAt
    <2> SUFFICES ASSUME NEW s \in Unconsumed(tasks'[t], a, accounts'[a])
                 PROVE  s > failed[t][a].resetAt
        BY DEF SpacedInv, Spaced
    <2>1. TypeOK /\ TypeOK'
        BY LocksKept DEF ProbeInv, ProbeBase, MirrorInv, PastInv, LockInv
    <2>2. s \in Nat /\ failed[t][a].resetAt \in Nat /\ scan.attempt \in Nat
        <3>1. tasks'[t] \in Task /\ accounts'[a] \in AccountState
            BY <2>1 DEF TypeOK
        <3> QED
            BY <2>1, <3>1, UnconsumedType DEF TypeOK, Failure, Scan
    <2>3. \/ s \in Unconsumed(tasks[t], a, accounts[a])
          \/ scan.pc = "query" /\ scan.at = a /\ s > scan.attempt
        BY UnconsumedStep
    <2>4. scan.pc = "query" /\ scan.at = a => failed[t][a].resetAt <= scan.attempt
        BY DEF ProbeInv, QueryInv
    <2> QED
        BY <1>2, <2>2, <2>3, <2>4
<1> QED
    BY <1>1, <1>2 DEF SpacedInv, Spaced

LEMMA NothingKnown ==
    ASSUME Editor = {}, ProbeInv, [Next]_vars, NEW actor \in Actor, FinishRun(actor),
           NEW t \in TaskID, NEW a \in Account, ~accounts[a].known
    PROVE  Unconsumed(tasks'[t], a, accounts'[a]) = {}
<1>1. accounts[a] \in AccountState /\ tasks[t] \in Task
    BY DEF ProbeInv, ProbeBase, FreshInv, LockInv, TypeOK
<1>2. SameAccount(accounts'[a], accounts[a])
    <2>1. accounts' = WithResults(accounts, run[actor])
        BY DEF FinishRun
    <2> QED
        BY <1>1, <2>1 DEF WithResults, SameAccount, AccountState
<1>3. quotaResetTimes(accounts'[a], tasks[t].windows) = {}
    BY <1>1, <1>2 DEF quotaResetTimes, SameAccount, ProbeInv, RecordsInv, Task
<1>4. tasks'[t].windows = tasks[t].windows
    BY StaticTask DEF ProbeInv, ProbeBase
<1> QED
    BY <1>3, <1>4 DEF Unconsumed

LEMMA UnknownRetry ==
    ASSUME ProbeInv, NEW actor \in Actor, FinishRun(actor), run[actor].id \in TaskID,
           NEW a \in Account, Watches(run[actor].id, a), ~accounts[a].known
    PROVE  LET t == run[actor].id
           IN  tasks'[t].retries[a] = tasks[t].retries[a] /\ failed'[t][a] = failed[t][a]
<1> DEFINE r == run[actor]
           old == tasks[r.id]
           base == InitHandled(old, accounts')
           answered == Answered(base, accounts', r.results, r.started, a)
           due == LatestElapsed(base, a, accounts'[a], r.started)
<1>1. TypeOK /\ r \in Run /\ r.started \in Nat /\ r.completed \in Nat /\ old \in Task
      /\ accounts[a] \in AccountState /\ r.pc = "finish"
    BY DEF ProbeInv, ProbeBase, FreshInv, LockInv, TypeOK, Run, FinishRun
<1>2. accounts' = WithResults(accounts, r)
    BY DEF FinishRun
<1>3. accounts' \in [Account -> AccountState] /\ SameAccount(accounts'[a], accounts[a])
    <2>1. accounts \in [Account -> AccountState]
        BY <1>1 DEF TypeOK
    <2>2. \A b \in Account : [accounts[b] EXCEPT !.known = TRUE] \in AccountState
        BY <2>1 DEF AccountState
    <2> QED
        BY <1>1, <1>2, <2>1, <2>2 DEF WithResults, SameAccount, AccountState
<1>4. /\ base \in Task /\ base.windows = old.windows
    BY <1>1, <1>3, InitHandledType, InitHandledKeeps
<1>5. quotaResetTimes(accounts[a], old.windows) = {}
    BY <1>1 DEF quotaResetTimes, ProbeInv, RecordsInv, Task
<1>6. quotaResetTimes(accounts'[a], base.windows) = {}
    BY <1>3, <1>4, <1>5 DEF quotaResetTimes, SameAccount
<1>7. answered = NoTime
    <2>1. accounts'[a] \in AccountState
        BY <1>3
    <2>2. due = NoTime
        BY <1>1, <1>4, <1>6, <2>1, LatestElapsedMeaning
    <2> HIDE DEF base, due
    <2>3. AnsweredReset(base, a, accounts'[a], r.started) \in {due, NoTime}
        BY <1>1, <1>4, <2>1, AnsweredMeaning DEF due
    <2> QED
        BY <2>2, <2>3 DEF Answered
<1>8. tasks'[r.id].retries[a] = old.retries[a]
    <2> DEFINE new == Finished(old, accounts', r)
               marked == markQuotaResetsHandled(old, accounts', r.trigger, r.results, r.started,
                                                r.completed)
    <2>1. tasks'[r.id] = new /\ old.kind = "quota_reset"
        BY DEF FinishRun, Watches
    <2>2. new.retries = marked.retries
        BY <1>1, <1>3, <2>1, FinishedQuota
    <2> HIDE DEF new
    <2>3. marked.retries[a] = old.retries[a]
        BY <1>1, <1>3, <1>7, MarkMeaning
    <2> QED
        BY <2>1, <2>2, <2>3
<1>9. ~(r.trigger = "quota_reset" /\ r.results[a] \in Retryable)
    <2> SUFFICES ASSUME r.trigger = "quota_reset", r.results[a] \in Retryable PROVE FALSE
        OBVIOUS
    <2>1. a \in Chosen(r)
        BY DEF Retryable, Attempted, Result, Chosen, Woke
    <2>2. LatestElapsed(old, a, accounts[a], r.started) \in Unconsumed(old, a, accounts[a])
        BY <1>1, <2>1, PickedIsDue
    <2> QED
        BY <1>5, <2>2 DEF Unconsumed
<1>10. failed'[r.id][a] = failed[r.id][a]
    BY <1>1, <1>9, RecordMeaning
<1> QED
    BY <1>8, <1>10

LEMMA SpacedFinished ==
    ASSUME Editor = {}, ProbeInv, SpacedInv, [Next]_vars, NEW actor \in Actor, FinishRun(actor),
           run[actor].id \in TaskID, NEW a \in Account, Watches(run[actor].id, a)
    PROVE  LET t == run[actor].id
           IN  Spaced(tasks'[t], a, accounts'[a], failed'[t][a])
<1> DEFINE r == run[actor]
           t == r.id
           answer == RunAnswer(r, a, accounts[a])
           due == LatestElapsed(tasks[t], a, accounts[a], r.started)
           kept == KeepForRetry(r.trigger, r.results[a])
           failure == FailedAgain(failed[t][a], due, r.results[a], r.completed)
<1>1. TypeOK /\ TypeOK' /\ r \in Run /\ r.pc = "finish" /\ r.started \in Nat /\ r.completed \in Nat
    <2>1. TypeOK /\ TypeOK'
        BY LocksKept DEF ProbeInv, ProbeBase, MirrorInv, PastInv, LockInv
    <2> QED
        BY <2>1 DEF TypeOK, Run, FinishRun
<1>2. failed'[t][a] = IF kept THEN failure ELSE failed[t][a]
    <2>1. failed'[t][a] = IF t = r.id /\ r.trigger = "quota_reset" /\ r.results[a] \in Retryable
                          THEN failure ELSE failed[t][a]
        BY <1>1, RecordMeaning
    <2> QED
        BY <2>1 DEF KeepForRetry
<1>3. CASE ~accounts[a].known
    <2>1. tasks'[t].retries[a].resetAt <= 1 \/ tasks'[t].retries[a].resetAt <= failed'[t][a].resetAt
        BY <1>3, UnknownRetry DEF SpacedInv, Spaced
    <2> QED
        BY <1>3, <2>1, NothingKnown DEF Spaced
<1>4. CASE accounts[a].known /\ kept
    <2>1. a \in Chosen(r) /\ r.trigger = "quota_reset" /\ r.results[a] \in Attempted
        BY <1>4 DEF KeepForRetry, Retryable, Attempted, Result, Chosen, Woke
    <2>2. ~accounts[a].error /\ due # NoTime
        BY <1>1, <2>1, PickedIsDue
    <2>3. answer = due
        BY <2>1, <2>2 DEF RunAnswer
    <2>4. tasks'[t].retries[a] = NextRetry(tasks[t].retries[a], due, r.results[a], r.completed)
        BY <1>4, <2>2, <2>3, QuotaRunAnswers
    <2>5. due \in Nat /\ due > 1 /\ due \in Unconsumed(tasks[t], a, accounts[a])
        BY <1>1, <2>1, PickedIsDue, UnconsumedIsLate
    <2>6. tasks[t].retries[a] \in Retry /\ failed[t][a] \in Failure
          /\ tasks[t].retries[a].resetAt \in Nat /\ failed[t][a].resetAt \in Nat
        <3>1. tasks[t] \in Task /\ failed[t][a] \in Failure
            BY <1>1 DEF TypeOK
        <3>2. tasks[t].retries[a] \in Retry
            BY <3>1 DEF Task
        <3> QED
            BY <3>1, <3>2 DEF Retry, Failure
    <2>7. Spaced(tasks[t], a, accounts[a], failed[t][a])
        BY DEF SpacedInv
    <2> HIDE DEF due
    <2>8. \/ Follows(tasks[t].retries[a], failed[t][a])
          \/ due # failed[t][a].resetAt /\ due # tasks[t].retries[a].resetAt
        BY <2>5, <2>6, <2>7 DEF Spaced
    <2>9. Follows(tasks'[t].retries[a], failure)
        BY <1>1, <2>4, <2>5, <2>6, <2>8, RetryFollows
    <2>10. tasks'[t].retries[a].resetAt = failure.resetAt /\ failure.resetAt \in Nat
        BY <1>1, <2>5, <2>6, <2>9, FailedAgainType DEF Follows
    <2> HIDE DEF failure
    <2> QED
        BY <1>2, <1>4, <2>9, <2>10 DEF Spaced
<1>5. CASE accounts[a].known /\ ~kept
    <2>1. CASE answer = NoTime
        <3>1. tasks'[t].retries[a] = tasks[t].retries[a]
            BY <1>5, <2>1, QuotaRunAnswers
        <3> QED
            BY <1>2, <1>5, <3>1, SpacedStays
    <2>2. CASE answer # NoTime
        <3>1. r.results[a] \in Attempted /\ ~accounts[a].error
            BY <2>2 DEF RunAnswer
        <3>6. tasks'[t].retries[a].resetAt <= 1
            BY <1>5, <2>2, QuotaRunAnswers DEF NoRetry, NoTime
        <3> SUFFICES ASSUME NEW s \in Unconsumed(tasks'[t], a, accounts'[a])
                     PROVE  s > failed[t][a].resetAt
            BY <1>2, <1>5, <3>6 DEF Spaced
        <3>2. s + ResetDelay > r.started
            BY <1>5, <3>1, NothingLeftBehind
        <3>3. failed[t][a].resetAt # NoTime => failed[t][a].resetAt + ResetDelay <= r.started
            BY <1>1 DEF ProbeInv, ProbeBase, HistoryInv, Before, Holding
        <3>4. s \in Nat /\ failed[t][a].resetAt \in Nat
            <4>1. tasks'[t] \in Task /\ accounts'[a] \in AccountState
                BY <1>1 DEF TypeOK
            <4> QED
                BY <1>1, <4>1, UnconsumedType DEF TypeOK, Failure
        <3>5. s # NoTime
            BY DEF Unconsumed, quotaResetTimes
        <3> QED
            BY <1>1, <3>2, <3>3, <3>4, <3>5, QuotaRulesAssumption DEF NoTime
    <2> QED
        BY <2>1, <2>2
<1> QED
    BY <1>3, <1>4, <1>5

LEMMA SpacedKept ==
    ASSUME Editor = {}, ProbeInv, SpacedInv, [Next]_vars
    PROVE  SpacedInv'
<1> SUFFICES ASSUME NEW t \in TaskID, NEW a \in Account, Watches(t, a)'
             PROVE  Spaced(tasks'[t], a, accounts'[a], failed'[t][a])
    BY DEF SpacedInv
<1>1. Watches(t, a)
    BY StaticTask DEF ProbeInv, ProbeBase, Watches, quotaTaskSelectsAccount
<1>2. CASE \E actor \in Actor : FinishRun(actor) /\ run[actor].id = t
    BY <1>1, <1>2, SpacedFinished
<1>3. CASE ~\E actor \in Actor : FinishRun(actor) /\ run[actor].id = t
    BY <1>1, <1>3, NothingRecorded, SpacedStays
<1> QED
    BY <1>2, <1>3

LEMMA InitSpaced ==
    ASSUME Init, MirrorInv
    PROVE  SpacedInv
<1> SUFFICES ASSUME NEW t \in TaskID, NEW a \in Account
             PROVE  Spaced(tasks[t], a, accounts[a], failed[t][a])
    BY DEF SpacedInv
<1>1. \A w \in Window : accounts[a].reset[w] = NoTime /\ accounts[a].elapsed[w] = NoTime
    BY DEF Init, UnknownAccount
<1>2. tasks[t].windows \subseteq Window
    BY InitType DEF TypeOK, Task
<1>3. tasks[t].retries[a].resetAt <= 1
    <2>1. PICK ts \in InitTasks : disk = Saved(ts, accounts)
        BY DEF Init
    <2>2. ts[t] \in Task /\ disk.tasks[t] = Encoded(ts[t]) /\ FromThePast(ts[t])
        BY <2>1, InputAssumption DEF Saved
    <2>3. disk.tasks[t].retries = ts[t].retries
        BY <2>2 DEF Encoded, Task
    <2>4. tasks[t].retries = disk.tasks[t].retries
        BY DEF MirrorInv, Mirrors
    <2> QED
        BY <2>2, <2>3, <2>4 DEF FromThePast
<1> QED
    BY <1>1, <1>2, <1>3 DEF Spaced, Unconsumed, quotaResetTimes

LEMMA SpacedHeld ==
    ASSUME SaveCanFail = FALSE, Editor = {}
    PROVE  Spec => [](ProbeInv /\ SpacedInv)
<1>1. ProbeInv => MirrorInv
    BY DEF ProbeInv, ProbeBase
<1>2. Init /\ ProbeInv => SpacedInv
    BY <1>1, InitSpaced
<1>3. ASSUME ProbeInv, SpacedInv, [Next]_vars PROVE SpacedInv'
    BY <1>3, SpacedKept
<1> QED
    BY <1>2, <1>3, PickedAccountsStayDue, PTL DEF Spec

\* While nobody edits the tasks and the file can be written, a probe that failed
\* is repeated for the same boundary only after the backoff its failures in a row
\* call for, doubled with each of them up to the maximum and the maximum at once
\* after a 401 or 403, through refreshes, runs, reconfigurations and crashes
\* (quotaDueReset, the retries of markQuotaResetsHandledLocked and
\* quotaRetryDelay). The task keeps the failure until it is answered, and whatever
\* answers it answers the boundary as well.
THEOREM RetriesKeepTheirDistance ==
    ASSUME SaveCanFail = FALSE, Editor = {}
    PROVE  Spec => []RetriesAreSpaced
<1>1. ASSUME ProbeInv, SpacedInv PROVE RetriesAreSpaced
    <2> SUFFICES ASSUME NEW actor \in Actor, Probing(actor)
                 PROVE  LET failure == failed[run[actor].id][run[actor].at]
                        IN  \/ ProbedReset(actor) > failure.resetAt
                            \/ run[actor].started >= failure.completed + Backoff(failure)
        BY DEF RetriesAreSpaced
    <2> DEFINE r == run[actor]
               task == tasks[r.id]
               due == LatestElapsed(task, r.at, accounts[r.at], r.started)
               failure == failed[r.id][r.at]
    <2>1. r.pc = "request" /\ r.trigger = "quota_reset" /\ r.at \in Chosen(r)
        BY DEF Probing, Chosen
    <2>2. /\ r.id \in TaskID /\ r.at \in Account /\ Watches(r.id, r.at)
          /\ due \in Unconsumed(task, r.at, accounts[r.at])
          /\ ~RetryIsPending(task.retries[r.at], due, r.started)
        BY <1>1, <2>1, PickedIsDue
    <2>3. Spaced(task, r.at, accounts[r.at], failure)
        BY <1>1, <2>2 DEF SpacedInv
    <2>4. /\ due \in Nat /\ r.started \in Nat /\ task.retries[r.at] \in Retry
          /\ failure \in Failure
        <3>1. TypeOK
            BY <1>1 DEF ProbeInv, ProbeBase, FreshInv, LockInv
        <3>2. task \in Task /\ accounts[r.at] \in AccountState /\ r \in Run
            BY <2>2, <3>1 DEF TypeOK
        <3>3. due \in Nat
            BY <2>2, <3>2, UnconsumedType
        <3> QED
            BY <2>2, <3>1, <3>2, <3>3 DEF TypeOK, Task, Run
    <2> HIDE DEF due, task, failure
    <2>5. due > failure.resetAt \/ r.started >= failure.completed + Backoff(failure)
        BY <2>2, <2>3, <2>4 DEF Spaced, Follows, RetryIsPending, Retry, Failure
    <2> QED
        BY <2>5 DEF ProbedReset, due, task, failure
<1> QED
    BY <1>1, SpacedHeld, PTL

\* And no longer: under the same assumptions a boundary the task has yet to answer
\* is due once that backoff is over, and at once when a later boundary has passed,
\* so that no retry outlives the failure it is for.
THEOREM RetriesEnd ==
    ASSUME SaveCanFail = FALSE, Editor = {}
    PROVE  Spec => []RetriesComeDue
<1>1. ASSUME ProbeInv, SpacedInv PROVE RetriesComeDue
    <2> SUFFICES ASSUME NEW t \in TaskID, NEW a \in Account,
                        IsQuotaTask(tasks[t]), quotaTaskSelectsAccount(tasks[t], a),
                        ~accounts[a].error,
                        \/ LatestElapsed(tasks[t], a, accounts[a], now) > failed[t][a].resetAt
                        \/ now >= failed[t][a].completed + Backoff(failed[t][a])
                 PROVE  quotaDueReset(tasks[t], a, accounts[a], now)
                            = LatestElapsed(tasks[t], a, accounts[a], now)
        BY DEF RetriesComeDue
    <2> DEFINE task == tasks[t]
               due == LatestElapsed(task, a, accounts[a], now)
               failure == failed[t][a]
               retry == task.retries[a]
    <2>1. Watches(t, a) /\ task.enabled
        BY DEF Watches, IsQuotaTask
    <2>2. Spaced(task, a, accounts[a], failure)
        BY <1>1, <2>1 DEF SpacedInv
    <2>3. TypeOK
        BY <1>1 DEF ProbeInv, ProbeBase, FreshInv, LockInv
    <2>4. task \in Task /\ accounts[a] \in AccountState /\ now \in Nat
          /\ retry.resetAt \in Nat /\ retry.nextRetryAt \in Nat /\ failure.resetAt \in Nat
        <3>1. task \in Task /\ accounts[a] \in AccountState /\ now \in Nat /\ failure \in Failure
            BY <2>3 DEF TypeOK
        <3> HIDE DEF task, failure
        <3>2. retry \in Retry
            BY <3>1 DEF Task
        <3> QED
            BY <3>1, <3>2 DEF Retry, Failure
    <2>5. due # NoTime => due \in Unconsumed(task, a, accounts[a])
        BY <2>4, LatestElapsedMeaning DEF Unconsumed
    <2>6. due # NoTime => due \in Nat /\ due > 1
        BY <1>1, <2>1, <2>5, UnconsumedIsLate
    <2>7. quotaDueReset(task, a, accounts[a], now) =
              IF ~RetryIsPending(retry, due, now) THEN due ELSE NoTime
        BY <2>1 DEF quotaDueReset
    <2>8. due > failure.resetAt \/ now >= failure.completed + Backoff(failure)
        OBVIOUS
    <2> HIDE DEF due, failure, retry, task
    <2>9. due # NoTime => ~RetryIsPending(retry, due, now)
        <3> SUFFICES ASSUME due # NoTime PROVE ~RetryIsPending(retry, due, now)
            OBVIOUS
        <3>1. CASE Follows(retry, failure)
            BY <2>4, <2>6, <2>8, <3>1 DEF Follows, RetryIsPending
        <3>2. CASE \A s \in Unconsumed(task, a, accounts[a]) : s > failure.resetAt
            <4>1. due > failure.resetAt /\ (retry.resetAt <= 1 \/ retry.resetAt <= failure.resetAt)
                BY <2>2, <2>5, <3>2 DEF Spaced, retry
            <4> QED
                BY <2>4, <2>6, <4>1 DEF RetryIsPending
        <3> QED
            BY <2>2, <3>1, <3>2 DEF Spaced, retry
    <2> QED
        BY <2>7, <2>9 DEF due, task
<1> QED
    BY <1>1, SpacedHeld, PTL

-----------------------------------------------------------------------------
(* An account is not woken again for what a success has answered           *)

(* Every boundary a task has yet to answer was not yet due when the run that *)
(* woke the account last started.                                            *)
WokenInv ==
    \A t \in TaskID, a \in Account : Watches(t, a) =>
        \A s \in Unconsumed(tasks[t], a, accounts[a]) : s + ResetDelay > woken[t][a]

(* A manual wake that succeeds while the refreshes of its account fail       *)
(* consumes nothing. It takes manual wakes, and a refresh that fails or is   *)
(* cancelled.                                                                *)
CalmAssumption == Manual = {} \/ (RefreshCanFail = FALSE /\ MaxRestarts = 0)

CalmInv ==
    /\ phase = "up" /\ restarts = 0
    /\ \A a \in Account : ~accounts[a].error

QuietInv == Manual = {} \/ CalmInv

LEMMA LifecycleSteps ==
    ASSUME [Next]_vars
    PROVE  UNCHANGED lifecycle \/ Stop \/ StopOperations \/ Configure \/ Crash
<1>1. ASSUME Scanning PROVE UNCHANGED lifecycle
    BY <1>1 DEF Scanning, StartScan, ListForRefresh, RefreshNext, FinishRefresh, StartEvaluation,
                EvaluateTask, EndScan
<1>2. ASSUME NEW actor \in Actor, Running(actor) PROVE UNCHANGED lifecycle
    BY <1>2 DEF Running, LockTask, ListCandidates, StartAccount, FinishAccount, EndAccounts,
                FinishRun
<1>3. ASSUME NEW e \in Editor, Editing(e) PROVE UNCHANGED lifecycle
    BY <1>3 DEF Editing, toggleTask, deleteTask, saveSingleTask, bulkTasks, Submit, saveTasks
<1>4. Tick \/ (\E t \in TaskID : FireStartup(t)) \/ (\E m \in Manual : Waking(m)) \/ UNCHANGED vars
      => UNCHANGED lifecycle
    BY DEF Tick, FireStartup, Waking, WakeTask, WakeAdHoc, vars, lifecycle
<1> QED
    BY <1>1, <1>2, <1>3, <1>4 DEF Next

LEMMA CalmKept ==
    ASSUME RefreshCanFail = FALSE, MaxRestarts = 0, ProbeBase, CalmInv, [Next]_vars
    PROVE  CalmInv'
<1>1. TypeOK /\ AccountsSaved
    BY DEF ProbeBase, FreshInv, LockInv
<1>2. phase' = "up" /\ restarts' = 0
    <2>1. ~Stop /\ ~StopOperations /\ ~Configure /\ ~Crash
        BY DEF CalmInv, Stop, StopOperations, Configure, Crash
    <2> QED
        BY <2>1, LifecycleSteps DEF CalmInv, lifecycle
<1>3. ASSUME NEW a \in Account PROVE ~accounts'[a].error
    <2>1. CASE SameAccount(accounts'[a], accounts[a])
        BY <2>1 DEF SameAccount, CalmInv
    <2>2. CASE accounts'[a] \in RefreshOutcomes(a)
        <3>1. ~Cancelled(Worker)
            BY ActorAssumption DEF Cancelled, CalmInv
        <3>2. PICK answer : accounts'[a] = Refreshed(accounts[a], scan.attempt, answer)
            BY <2>2, <3>1 DEF RefreshOutcomes
        <3>3. accounts[a] \in AccountState
            BY <1>1 DEF TypeOK
        <3>4. ~Refreshed(accounts[a], scan.attempt, answer).error
            BY <3>3 DEF Refreshed, AccountState
        <3> QED
            BY <3>2, <3>4
    <2> QED
        BY <1>1, <2>1, <2>2, AccountStep
<1> QED
    BY <1>2, <1>3 DEF CalmInv

LEMMA WokenStays ==
    ASSUME Editor = {}, ProbeInv, WokenInv, [Next]_vars, NEW t \in TaskID, NEW a \in Account,
           Watches(t, a), woken'[t][a] = woken[t][a],
           NEW s \in Unconsumed(tasks'[t], a, accounts'[a])
    PROVE  s + ResetDelay > woken'[t][a]
<1>1. TypeOK /\ TypeOK'
    BY LocksKept DEF ProbeInv, ProbeBase, MirrorInv, PastInv, LockInv
<1>2. s \in Nat /\ woken[t][a] \in Nat /\ scan.attempt \in Nat
    <2>1. tasks'[t] \in Task /\ accounts'[a] \in AccountState
        BY <1>1 DEF TypeOK
    <2> QED
        BY <1>1, <2>1, UnconsumedType DEF TypeOK, Scan
<1>3. \/ s \in Unconsumed(tasks[t], a, accounts[a])
      \/ scan.pc = "query" /\ scan.at = a /\ s > scan.attempt
    BY UnconsumedStep
<1>4. scan.pc = "query" /\ scan.at = a => woken[t][a] <= scan.attempt
    BY DEF ProbeInv, QueryInv
<1> QED
    BY <1>2, <1>3, <1>4, QuotaRulesAssumption DEF WokenInv

LEMMA WokenFinished ==
    ASSUME Editor = {}, ProbeInv, WokenInv, QuietInv, [Next]_vars,
           NEW actor \in Actor, FinishRun(actor),
           run[actor].id \in TaskID, NEW a \in Account, Watches(run[actor].id, a),
           NEW s \in Unconsumed(tasks'[run[actor].id], a, accounts'[a])
    PROVE  s + ResetDelay > woken'[run[actor].id][a]
<1> DEFINE r == run[actor]
           t == r.id
<1>1. TypeOK /\ r.pc = "finish"
    BY DEF ProbeInv, ProbeBase, FreshInv, LockInv, FinishRun
<1>2. woken'[t][a] = IF r.results[a] = "success" THEN r.started ELSE woken[t][a]
    BY <1>1, RecordMeaning
<1>3. accounts[a].known
    BY NothingKnown
<1>4. CASE r.results[a] = "success"
    <2>1. r.results[a] \in Attempted /\ ~KeepForRetry(r.trigger, r.results[a]) /\ a \in Chosen(r)
        BY <1>4 DEF KeepForRetry, Retryable, Attempted, Result, Chosen, Woke
    <2>2. ~accounts[a].error
        <3>1. CASE r.trigger = "quota_reset"
            BY <1>1, <2>1, <3>1, PickedIsDue
        <3>2. CASE r.trigger # "quota_reset"
            <4>1. Manual # {}
                BY <1>1, <3>2 DEF ProbeInv, TriggerInv, Watches
            <4> QED
                BY <4>1 DEF QuietInv, CalmInv
        <3> QED
            BY <3>1, <3>2
    <2> QED
        BY <1>2, <1>3, <1>4, <2>1, <2>2, NothingLeftBehind
<1>5. CASE r.results[a] # "success"
    BY <1>2, <1>5, WokenStays
<1> QED
    BY <1>4, <1>5

LEMMA WokenKept ==
    ASSUME Editor = {}, ProbeInv, WokenInv, QuietInv, [Next]_vars
    PROVE  WokenInv'
<1> SUFFICES ASSUME NEW t \in TaskID, NEW a \in Account, Watches(t, a)',
                    NEW s \in Unconsumed(tasks'[t], a, accounts'[a])
             PROVE  s + ResetDelay > woken'[t][a]
    BY DEF WokenInv
<1>1. Watches(t, a)
    BY StaticTask DEF ProbeInv, ProbeBase, Watches, quotaTaskSelectsAccount
<1>2. CASE \E actor \in Actor : FinishRun(actor) /\ run[actor].id = t
    BY <1>1, <1>2, WokenFinished
<1>3. CASE ~\E actor \in Actor : FinishRun(actor) /\ run[actor].id = t
    BY <1>1, <1>3, NothingRecorded, WokenStays
<1> QED
    BY <1>2, <1>3

\* While nobody edits the tasks and the file can be written, no quota run wakes
\* an account for a boundary that an earlier run of the task answered with
\* success, through refreshes, failed listings, reconfigurations and crashes:
\* a success consumes every boundary whose delay was over when its run started
\* (markQuotaResetsHandledLocked), and a boundary that a refresh brings is a new
\* one. A manual wake does so only if the quota data of its account is good, so
\* the theorem excludes manual wakes next to refreshes that fail.
THEOREM SuccessIsFinal ==
    ASSUME SaveCanFail = FALSE, Editor = {}, CalmAssumption
    PROVE  Spec => []NoRepeatedWake
<1>1. Init => WokenInv /\ QuietInv
    <2> SUFFICES ASSUME Init PROVE WokenInv /\ QuietInv
        OBVIOUS
    <2>1. \A a \in Account : /\ ~accounts[a].error
                             /\ \A w \in Window : /\ accounts[a].reset[w] = NoTime
                                                  /\ accounts[a].elapsed[w] = NoTime
        BY DEF Init, UnknownAccount
    <2>2. \A t \in TaskID : tasks[t].windows \subseteq Window
        BY InitType DEF TypeOK, Task
    <2>3. WokenInv
        BY <2>1, <2>2 DEF WokenInv, Unconsumed, quotaResetTimes
    <2>4. QuietInv
        BY <2>1 DEF QuietInv, CalmInv, Init
    <2> QED
        BY <2>3, <2>4
<1>2. ASSUME ProbeInv, WokenInv, QuietInv, [Next]_vars PROVE WokenInv' /\ QuietInv'
    <2>1. WokenInv'
        BY <1>2, WokenKept
    <2>2. ProbeBase
        BY <1>2 DEF ProbeInv
    <2>3. QuietInv'
        BY <1>2, <2>2, CalmKept DEF QuietInv, CalmAssumption
    <2> QED
        BY <2>1, <2>3
<1>3. ASSUME ProbeInv, WokenInv PROVE NoRepeatedWake
    <2> SUFFICES ASSUME NEW actor \in Actor, Probing(actor)
                 PROVE  ProbedReset(actor) + ResetDelay > woken[run[actor].id][run[actor].at]
        BY DEF NoRepeatedWake
    <2>1. /\ run[actor].pc = "request" /\ run[actor].trigger = "quota_reset"
          /\ run[actor].at \in Chosen(run[actor])
        BY DEF Probing, Chosen
    <2>2. /\ run[actor].id \in TaskID /\ run[actor].at \in Account
          /\ Watches(run[actor].id, run[actor].at)
          /\ ProbedReset(actor) \in Unconsumed(tasks[run[actor].id], run[actor].at,
                                               accounts[run[actor].at])
        BY <1>3, <2>1, PickedIsDue DEF ProbedReset
    <2> QED
        BY <1>3, <2>2 DEF WokenInv
<1> QED
    BY <1>1, <1>2, <1>3, PickedAccountsStayDue, PTL DEF Spec
=============================================================================
