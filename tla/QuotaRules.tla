----------------------------- MODULE QuotaRules -----------------------------
(***************************************************************************)
(* The rules that decide when a quota_reset task wakes an account: which   *)
(* reset boundaries an account record offers, which of them a task has     *)
(* already consumed, which one is due, when a failed wake is retried and   *)
(* how a usage refresh keeps a boundary that it is about to overwrite.     *)
(* Translated from quota.go and internal/state/schedule.go.  Instants are  *)
(* natural numbers and NoTime is Go's zero or absent time.                 *)
(***************************************************************************)
EXTENDS Naturals

CONSTANTS
    Account,          \* auth_index values
    Window,           \* the usage windows, primary and secondary
    ResetDelay,       \* state.QuotaResetDelay
    RefreshInterval,  \* quotaRefreshInterval
    MaximumBackoff    \* quotaMaximumBackoff

ASSUME QuotaRulesAssumption ==
    /\ ResetDelay \in Nat
    /\ RefreshInterval \in Nat \ {0}
    /\ MaximumBackoff \in Nat
    /\ RefreshInterval <= MaximumBackoff

NoTime == 0
FailureCap == 30

Retry == [resetAt : Nat, nextRetryAt : Nat, failures : Nat]
NoRetry == [resetAt |-> NoTime, nextRetryAt |-> NoTime, failures |-> 0]

Kind == {"interval", "calendar", "quota_reset", "startup"}

(* A saved task and an account of the state file; a task that is not there *)
(* has present FALSE, daily and weekly schedules are of the calendar kind. *)
Task == [present : BOOLEAN, enabled : BOOLEAN, kind : Kind,
         accounts : SUBSET Account, windows : SUBSET Window,
         created : Nat, lastRun : Nat, nextRun : Nat, legacy : BOOLEAN,
         handled : [Account -> Nat], retries : [Account -> Retry]]

AccountState == [known : BOOLEAN, reset : [Window -> Nat],
                 elapsed : [Window -> Nat], error : BOOLEAN,
                 failures : Nat, nextRefresh : Nat]

Latest(S) == CHOOSE r \in S : \A s \in S : s <= r
Earliest(S) == CHOOSE r \in S : \A s \in S : r <= s

-----------------------------------------------------------------------------
(* The known boundaries of an account in the task's windows.               *)
quotaResetTimes(account, windows) ==
    ({account.reset[w] : w \in windows} \cup {account.elapsed[w] : w \in windows})
        \ {NoTime}

(* An empty account_ids list selects every account.                        *)
quotaTaskSelectsAccount(task, a) ==
    task.accounts = {} \/ a \in task.accounts

(* The boundary up to which the task has consumed the account's resets.    *)
(* legacy stands for a nil QuotaHandledResets map.                         *)
quotaAccountBaseline(task, a) ==
    IF task.legacy
    THEN IF task.lastRun # NoTime THEN task.lastRun ELSE task.created
    ELSE IF task.handled[a] # NoTime THEN task.handled[a] ELSE task.created

(* Mutant: does not wait for the delay.                                     *)
LatestElapsedAtOnce(task, a, account, at) ==
    Latest({NoTime} \cup
           {r \in quotaResetTimes(account, task.windows) :
                r > quotaAccountBaseline(task, a) /\ r <= at})

(* The latest unconsumed boundary whose delay is over, or NoTime.          *)
LatestElapsed(task, a, account, at) ==
    Latest({NoTime} \cup
           {r \in quotaResetTimes(account, task.windows) :
                /\ r > quotaAccountBaseline(task, a)
                /\ r + ResetDelay <= at})

(* Mutant: the retry only holds back boundaries before its own.             *)
RetryIsPendingBefore(retry, due, at) == due < retry.resetAt /\ at < retry.nextRetryAt

RetryIsPending(retry, due, at) == due <= retry.resetAt /\ at < retry.nextRetryAt

(* Mutant: trusts the timestamps a failed refresh left behind.              *)
quotaDueResetStale(task, a, account, at) ==
    LET due == LatestElapsed(task, a, account, at)
    IN  IF /\ task.enabled
           /\ quotaTaskSelectsAccount(task, a)
           /\ ~RetryIsPending(task.retries[a], due, at)
        THEN due
        ELSE NoTime

quotaDueReset(task, a, account, at) ==
    LET due == LatestElapsed(task, a, account, at)
    IN  IF /\ task.enabled
           /\ ~account.error
           /\ quotaTaskSelectsAccount(task, a)
           /\ ~RetryIsPending(task.retries[a], due, at)
        THEN due
        ELSE NoTime

(* What quotaNextRunAt takes into account for one account: the triggers    *)
(* still to come and the pending retry.                                    *)
UpcomingTriggers(task, a, account, at) ==
    LET baseline == quotaAccountBaseline(task, a)
        retry == task.retries[a]
    IN  {r + ResetDelay : r \in {s \in quotaResetTimes(account, task.windows) :
                                     s > baseline /\ s + ResetDelay > at}}
        \cup {t \in {retry.nextRetryAt} : retry.resetAt > baseline /\ t > at}

quotaNextRunAt(task, accts, at) ==
    LET monitored == {a \in Account : /\ accts[a].known
                                      /\ ~accts[a].error
                                      /\ quotaTaskSelectsAccount(task, a)}
        triggers == UNION {UpcomingTriggers(task, a, accts[a], at) : a \in monitored}
    IN  IF triggers = {} THEN NoTime ELSE Earliest(triggers)

-----------------------------------------------------------------------------
(* Exponential backoff that starts at RefreshInterval, only grows, and is   *)
(* capped at MaximumBackoff.                                                *)
quotaRetryDelay(failures) ==
    LET doubled == RefreshInterval * 2 ^ (failures - 1)
    IN  IF doubled \in RefreshInterval .. MaximumBackoff THEN doubled ELSE MaximumBackoff

(* Mutant: keeps nothing when the response clears the window.               *)
rememberElapsedUnlessCleared(elapsed, previous, current, at) ==
    IF previous # NoTime /\ previous <= at /\ current > previous /\ previous > elapsed
    THEN previous
    ELSE elapsed

(* The elapsed boundary to keep for a window when a usage response replaces *)
(* the stored reset previous by current.                                    *)
rememberElapsedReset(elapsed, previous, current, at) ==
    IF /\ previous # NoTime
       /\ previous <= at
       /\ current # NoTime => current > previous
       /\ previous > elapsed
    THEN previous
    ELSE elapsed

-----------------------------------------------------------------------------
(* The result of waking one account: "transient" is a failure with status  *)
(* 0, 408, 429 or 5xx, "credential" one with 401 or 403, "rejected" any    *)
(* other failure; "none" is an account the run has no result for.          *)
Result == {"none", "success", "transient", "credential", "rejected", "skipped"}
Attempted == Result \ {"none", "skipped"}
Retryable == {"transient", "credential"}

(* Mutant: a new map without the entries of the old one.                    *)
InitHandledAnew(task, accts) ==
    [task EXCEPT !.legacy = FALSE, !.handled = [a \in Account |-> NoTime]]

(* A nil map is first filled with the task-wide baseline.                  *)
InitHandled(task, accts) ==
    IF ~task.legacy THEN task
    ELSE [task EXCEPT
             !.legacy = FALSE,
             !.handled = [a \in Account |->
                 IF a \in task.accounts \/ (accts[a].known /\ task.accounts = {})
                 THEN quotaAccountBaseline(task, a)
                 ELSE NoTime]]

(* The boundary a finished attempt on account a answers: enabled and       *)
(* pending retries do not matter, the time is the start of the run.        *)
AnsweredReset(task, a, account, started) ==
    quotaDueReset([task EXCEPT !.enabled = TRUE,
                               !.retries = [b \in Account |-> NoRetry]],
                  a, account, started)

(* Mutants: no failure counts, or those of another boundary count as well.  *)
NextRetryUndoubled(retry, reset, result, completed) ==
    [resetAt |-> reset, failures |-> 1,
     nextRetryAt |-> completed + (IF result = "credential" THEN MaximumBackoff
                                                           ELSE quotaRetryDelay(1))]
NextRetryOfAnyReset(retry, reset, result, completed) ==
    LET failures == IF retry.failures < FailureCap THEN retry.failures + 1 ELSE retry.failures
    IN  [resetAt |-> reset, failures |-> failures,
         nextRetryAt |-> completed + (IF result = "credential" THEN MaximumBackoff
                                                               ELSE quotaRetryDelay(failures))]

NextRetry(retry, reset, result, completed) ==
    LET before == IF retry.resetAt = reset THEN retry.failures ELSE 0
        failures == IF before < FailureCap THEN before + 1 ELSE before
        delay == IF result = "credential" THEN MaximumBackoff
                                          ELSE quotaRetryDelay(failures)
    IN  [resetAt |-> reset, nextRetryAt |-> completed + delay, failures |-> failures]

(* Mutant: retries every quota wake, the successful ones too.               *)
KeepAlways(trigger, result) == trigger = "quota_reset"

(* The boundary a finished attempt answers stays pending for a retry.       *)
KeepForRetry(trigger, result) == trigger = "quota_reset" /\ result \in Retryable

markQuotaResetsHandled(task, accts, trigger, results, started, completed) ==
    LET base == InitHandled(task, accts)
        answered == [a \in Account |->
                        IF results[a] \in Attempted
                        THEN AnsweredReset(base, a, accts[a], started)
                        ELSE NoTime]
    IN  [base EXCEPT
            !.handled = [a \in Account |->
                IF answered[a] # NoTime /\ ~KeepForRetry(trigger, results[a])
                THEN answered[a] ELSE base.handled[a]],
            !.retries = [a \in Account |->
                IF answered[a] = NoTime THEN base.retries[a]
                ELSE IF KeepForRetry(trigger, results[a])
                     THEN NextRetry(base.retries[a], answered[a], results[a], completed)
                     ELSE NoRetry]]
=============================================================================
