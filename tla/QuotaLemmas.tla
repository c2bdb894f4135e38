---------------------------- MODULE QuotaLemmas ----------------------------
(***************************************************************************)
(* Lemmas about the rules of QuotaRules: the CHOOSE operators return what  *)
(* they name, and every rule has its type.  They hold for every value of   *)
(* the constants.                                                          *)
(***************************************************************************)
EXTENDS QuotaRules, WellFoundedInduction, TLAPS

(* A nonempty set of natural numbers has a least element.                  *)
LEMMA LeastNat ==
    ASSUME NEW S, S \subseteq Nat, S # {}
    PROVE  \E m \in S : \A n \in S : m <= n
<1>1. PICK m \in S : \A n \in S : ~(<<n, m>> \in OpToRel(<, Nat))
    BY NatLessThanWellFounded, WFMin
<1>2. ASSUME NEW n \in S PROVE m <= n
    <2>1. <<n, m>> \in Nat \X Nat
        OBVIOUS
    <2>2. ~(n < m)
        BY <1>1, <2>1 DEF OpToRel
    <2> QED
        BY <2>2
<1> QED
    BY <1>2

(* Earliest returns the least element: quotaNextRunAt shows a trigger that  *)
(* really comes.                                                            *)
LEMMA EarliestIsLeast ==
    ASSUME NEW S, S \subseteq Nat, S # {}
    PROVE  Earliest(S) \in S /\ \A n \in S : Earliest(S) <= n
BY LeastNat DEF Earliest

(* A nonempty bounded set of natural numbers has a greatest element.       *)
LEMMA GreatestNat ==
    ASSUME NEW S, S \subseteq Nat, S # {}, NEW bound \in Nat, \A n \in S : n <= bound
    PROVE  \E m \in S : \A n \in S : n <= m
<1> DEFINE gaps == {bound - n : n \in S}
<1>1. gaps \subseteq Nat /\ gaps # {}
    <2>1. \A n \in S : bound - n \in Nat
        OBVIOUS
    <2> QED
        BY <2>1
<1>2. PICK g \in gaps : \A h \in gaps : g <= h
    BY <1>1, LeastNat
<1>3. PICK m \in S : g = bound - m
    OBVIOUS
<1>4. ASSUME NEW n \in S PROVE n <= m
    <2>1. g <= bound - n
        BY <1>2
    <2> QED
        BY <1>3, <2>1
<1> QED
    BY <1>4

(* Latest returns the greatest element of a bounded set.                   *)
LEMMA LatestIsGreatest ==
    ASSUME NEW S, S \subseteq Nat, S # {}, NEW bound \in Nat, \A n \in S : n <= bound
    PROVE  Latest(S) \in S /\ \A n \in S : n <= Latest(S)
BY GreatestNat DEF Latest

-----------------------------------------------------------------------------
(* The rules of quota.go have their types and, below them, their meaning.   *)

LEMMA ResetTimesType ==
    ASSUME NEW account \in AccountState, NEW windows \in SUBSET Window
    PROVE  quotaResetTimes(account, windows) \subseteq Nat
BY DEF quotaResetTimes, AccountState

LEMMA BaselineType ==
    ASSUME NEW task \in Task, NEW a \in Account
    PROVE  quotaAccountBaseline(task, a) \in Nat
BY DEF quotaAccountBaseline, Task

(* What LatestElapsed returns: nothing, or a boundary of the account that   *)
(* lies after the task's baseline and whose delay is over; and no boundary  *)
(* that does is later.                                                      *)
LEMMA LatestElapsedMeaning ==
    ASSUME NEW task \in Task, NEW a \in Account, NEW account \in AccountState,
           NEW at \in Nat
    PROVE  LET due == LatestElapsed(task, a, account, at)
               times == quotaResetTimes(account, task.windows)
               baseline == quotaAccountBaseline(task, a)
           IN  /\ due \in Nat
               /\ due # NoTime => /\ due \in times
                                  /\ due > baseline
                                  /\ due + ResetDelay <= at
               /\ \A r \in times : r > baseline /\ r + ResetDelay <= at => r <= due
<1> DEFINE times == quotaResetTimes(account, task.windows)
           baseline == quotaAccountBaseline(task, a)
           due == {r \in times : r > baseline /\ r + ResetDelay <= at}
           S == {NoTime} \cup due
<1>1. times \subseteq Nat
    <2>1. task.windows \in SUBSET Window
        BY DEF Task
    <2> QED
        BY <2>1, ResetTimesType
<1>2. S \subseteq Nat /\ S # {}
    BY <1>1 DEF NoTime
<1>3. \A n \in S : n <= at
    BY <1>1, QuotaRulesAssumption DEF NoTime
<1>4. Latest(S) \in S /\ \A n \in S : n <= Latest(S)
    <2> HIDE DEF S
    <2> QED
        BY <1>2, <1>3, LatestIsGreatest
<1>5. LatestElapsed(task, a, account, at) = Latest(S)
    BY DEF LatestElapsed
<1> HIDE DEF times, baseline
<1>6. /\ Latest(S) \in Nat
      /\ Latest(S) # NoTime => Latest(S) \in due
      /\ \A r \in due : r <= Latest(S)
    BY <1>2, <1>4
<1> QED
    BY <1>5, <1>6 DEF times, baseline

(* When quotaDueReset wakes an account, and for which boundary: exactly     *)
(* when a boundary that the task has not consumed and whose delay is over   *)
(* is not held back by a retry, because it came after the failed one or the *)
(* backoff has ended; and then for the latest boundary of this kind.        *)
LEMMA DueResetMeaning ==
    ASSUME NEW task \in Task, NEW a \in Account, NEW account \in AccountState,
           NEW at \in Nat
    PROVE  LET due == quotaDueReset(task, a, account, at)
               retry == task.retries[a]
               over == {r \in quotaResetTimes(account, task.windows) :
                            r > quotaAccountBaseline(task, a) /\ r + ResetDelay <= at}
               free == {r \in over : r > retry.resetAt \/ at >= retry.nextRetryAt}
           IN  /\ due \in Nat
               /\ due # NoTime <=> /\ task.enabled /\ ~account.error
                                   /\ quotaTaskSelectsAccount(task, a)
                                   /\ free # {}
               /\ due # NoTime => due \in free /\ \A r \in over : r <= due
<1> DEFINE due == quotaDueReset(task, a, account, at)
           latest == LatestElapsed(task, a, account, at)
           retry == task.retries[a]
           times == quotaResetTimes(account, task.windows)
           baseline == quotaAccountBaseline(task, a)
           over == {r \in times : r > baseline /\ r + ResetDelay <= at}
           free == {r \in over : r > retry.resetAt \/ at >= retry.nextRetryAt}
           asked == task.enabled /\ ~account.error /\ quotaTaskSelectsAccount(task, a)
<1>1. due = IF asked /\ ~RetryIsPending(retry, latest, at) THEN latest ELSE NoTime
    BY DEF quotaDueReset
<1>2. /\ latest \in Nat /\ (latest # NoTime => latest \in over)
      /\ \A r \in over : r <= latest
    BY LatestElapsedMeaning
<1>3. over \subseteq Nat \ {NoTime}
    <2>1. times \subseteq Nat
        BY ResetTimesType DEF Task
    <2>2. NoTime \notin times
        BY DEF quotaResetTimes
    <2> QED
        BY <2>1, <2>2
<1>4. retry.resetAt \in Nat /\ retry.nextRetryAt \in Nat /\ NoTime \in Nat
    BY DEF Task, Retry, NoTime
<1>5. RetryIsPending(retry, latest, at) <=> ~(latest > retry.resetAt \/ at >= retry.nextRetryAt)
    BY <1>2, <1>4 DEF RetryIsPending
<1> HIDE DEF due, latest, retry, over, asked
<1>6. latest \in free <=> latest # NoTime /\ ~RetryIsPending(retry, latest, at)
    BY <1>2, <1>3, <1>5
<1>7. free # {} => latest \in free
    <2>1. SUFFICES ASSUME NEW r \in free PROVE latest \in free
        OBVIOUS
    <2>2. r \in Nat /\ r <= latest /\ r # NoTime
        BY <1>2, <1>3
    <2>3. latest # NoTime
        BY <1>2, <2>2 DEF NoTime
    <2>4. latest > retry.resetAt \/ at >= retry.nextRetryAt
        BY <1>2, <1>4, <2>2
    <2> QED
        BY <1>2, <2>3, <2>4
<1>8. due # NoTime <=> asked /\ free # {}
    BY <1>1, <1>6, <1>7
<1>9. due # NoTime => due = latest /\ latest \in free
    BY <1>1, <1>6
<1>10. due \in Nat
    BY <1>1, <1>2, <1>4
<1> QED
    BY <1>2, <1>8, <1>9, <1>10 DEF due, retry, over, asked

LEMMA NextRunAtType ==
    ASSUME NEW task \in Task, NEW accts \in [Account -> AccountState], NEW at \in Nat
    PROVE  quotaNextRunAt(task, accts, at) \in Nat
<1> DEFINE monitored == {a \in Account : /\ accts[a].known
                                         /\ ~accts[a].error
                                         /\ quotaTaskSelectsAccount(task, a)}
           triggers == UNION {UpcomingTriggers(task, a, accts[a], at) : a \in monitored}
<1>1. ASSUME NEW a \in Account
      PROVE  UpcomingTriggers(task, a, accts[a], at) \subseteq Nat
    <2>1. quotaResetTimes(accts[a], task.windows) \subseteq Nat
        BY ResetTimesType DEF Task
    <2>2. task.retries[a].nextRetryAt \in Nat
        BY DEF Task, Retry
    <2> QED
        BY <2>1, <2>2, QuotaRulesAssumption DEF UpcomingTriggers
<1>2. triggers \subseteq Nat
    BY <1>1
<1>3. quotaNextRunAt(task, accts, at) = IF triggers = {} THEN NoTime ELSE Earliest(triggers)
    BY DEF quotaNextRunAt
<1> HIDE DEF triggers
<1>4. triggers # {} => Earliest(triggers) \in triggers
    BY <1>2, EarliestIsLeast
<1>5. triggers # {} => Earliest(triggers) \in Nat
    BY <1>2, <1>4
<1> QED
    BY <1>3, <1>5 DEF NoTime

LEMMA RetryDelayType ==
    ASSUME NEW failures
    PROVE  quotaRetryDelay(failures) \in Nat /\ quotaRetryDelay(failures) >= RefreshInterval
BY QuotaRulesAssumption DEF quotaRetryDelay

LEMMA RememberType ==
    ASSUME NEW elapsed \in Nat, NEW previous \in Nat, NEW current, NEW at
    PROVE  rememberElapsedReset(elapsed, previous, current, at) \in Nat
BY DEF rememberElapsedReset

LEMMA InitHandledType ==
    ASSUME NEW task \in Task, NEW accts \in [Account -> AccountState]
    PROVE  InitHandled(task, accts) \in Task
<1>1. \A a \in Account : quotaAccountBaseline(task, a) \in Nat
    BY BaselineType
<1> QED
    BY <1>1 DEF InitHandled, Task, NoTime

LEMMA AnsweredResetType ==
    ASSUME NEW task \in Task, NEW a \in Account, NEW account \in AccountState,
           NEW started \in Nat
    PROVE  AnsweredReset(task, a, account, started) \in Nat
<1> DEFINE forced == [task EXCEPT !.enabled = TRUE,
                                  !.retries = [b \in Account |-> NoRetry]]
<1>1. forced \in Task
    BY DEF Task, Retry, NoRetry, NoTime
<1>2. AnsweredReset(task, a, account, started) = quotaDueReset(forced, a, account, started)
    BY DEF AnsweredReset
<1> HIDE DEF forced
<1> QED
    BY <1>1, <1>2, DueResetMeaning

LEMMA NextRetryType ==
    ASSUME NEW retry \in Retry, NEW reset \in Nat, NEW result, NEW completed \in Nat
    PROVE  NextRetry(retry, reset, result, completed) \in Retry
<1> DEFINE before == IF retry.resetAt = reset THEN retry.failures ELSE 0
           failures == IF before < FailureCap THEN before + 1 ELSE before
           delay == IF result = "credential" THEN MaximumBackoff
                                             ELSE quotaRetryDelay(failures)
<1>1. failures \in Nat
    BY DEF Retry, FailureCap
<1>2. delay \in Nat
    BY RetryDelayType, QuotaRulesAssumption
<1>3. NextRetry(retry, reset, result, completed) =
          [resetAt |-> reset, nextRetryAt |-> completed + delay, failures |-> failures]
    BY DEF NextRetry
<1> HIDE DEF failures, delay
<1> QED
    BY <1>1, <1>2, <1>3 DEF Retry

LEMMA MarkType ==
    ASSUME NEW task \in Task, NEW accts \in [Account -> AccountState], NEW trigger,
           NEW results, NEW started \in Nat, NEW completed \in Nat
    PROVE  markQuotaResetsHandled(task, accts, trigger, results, started, completed) \in Task
<1> DEFINE base == InitHandled(task, accts)
           answered == [a \in Account |->
                           IF results[a] \in Attempted
                           THEN AnsweredReset(base, a, accts[a], started)
                           ELSE NoTime]
           handled == [a \in Account |->
                IF answered[a] # NoTime /\ ~KeepForRetry(trigger, results[a])
                THEN answered[a] ELSE base.handled[a]]
           retries == [a \in Account |->
                IF answered[a] = NoTime THEN base.retries[a]
                ELSE IF KeepForRetry(trigger, results[a])
                     THEN NextRetry(base.retries[a], answered[a], results[a], completed)
                     ELSE NoRetry]
<1>1. base \in Task
    BY InitHandledType
<1> HIDE DEF base
<1>2. answered \in [Account -> Nat]
    BY <1>1, AnsweredResetType DEF NoTime
<1>3. base.handled \in [Account -> Nat] /\ base.retries \in [Account -> Retry]
    BY <1>1 DEF Task
<1> HIDE DEF answered
<1>4. handled \in [Account -> Nat]
    BY <1>2, <1>3
<1>5. \A a \in Account :
          NextRetry(base.retries[a], answered[a], results[a], completed) \in Retry
    BY <1>2, <1>3, NextRetryType
<1>6. NoRetry \in Retry
    BY DEF NoRetry, Retry, NoTime
<1>7. retries \in [Account -> Retry]
    BY <1>3, <1>5, <1>6
<1>8. markQuotaResetsHandled(task, accts, trigger, results, started, completed)
          = [base EXCEPT !.handled = handled, !.retries = retries]
    BY DEF markQuotaResetsHandled, base, answered
<1> HIDE DEF handled, retries
<1> QED
    BY <1>1, <1>4, <1>7, <1>8 DEF Task

-----------------------------------------------------------------------------
(* What a finished run writes into its task.                               *)

(* The task knows for itself that it selects the account: by its name, or   *)
(* because it selects all and the account is known.                         *)
Covers(task, accts, a) ==
    a \in task.accounts \/ (task.accounts = {} /\ accts[a].known)

(* The boundaries and baselines read only these fields of a task.           *)
LEMMA SameProgress ==
    ASSUME NEW first \in Task, NEW second \in Task, NEW a \in Account,
           first.legacy = second.legacy, first.lastRun = second.lastRun,
           first.created = second.created, first.handled = second.handled
    PROVE  quotaAccountBaseline(first, a) = quotaAccountBaseline(second, a)
BY DEF quotaAccountBaseline

(* A baseline is replaced by itself when the map is first filled.          *)
LEMMA InitHandledBaseline ==
    ASSUME NEW task \in Task, NEW accts \in [Account -> AccountState], NEW a \in Account,
           Covers(task, accts, a)
    PROVE  quotaAccountBaseline(InitHandled(task, accts), a) = quotaAccountBaseline(task, a)
<1>1. CASE ~task.legacy
    BY <1>1 DEF InitHandled
<1>2. CASE task.legacy
    <2> DEFINE baseline == quotaAccountBaseline(task, a)
               filled == [b \in Account |->
                   IF b \in task.accounts \/ (accts[b].known /\ task.accounts = {})
                   THEN quotaAccountBaseline(task, b) ELSE NoTime]
               base == [task EXCEPT !.legacy = FALSE, !.handled = filled]
    <2>1. filled[a] = baseline
        BY DEF Covers
    <2>2. InitHandled(task, accts) = base
        BY <1>2 DEF InitHandled
    <2> HIDE DEF filled
    <2>3. base.legacy = FALSE /\ base.handled = filled /\ base.created = task.created
        BY DEF Task
    <2>4. quotaAccountBaseline(base, a) = IF baseline # NoTime THEN baseline ELSE task.created
        BY <2>1, <2>3 DEF quotaAccountBaseline
    <2>5. baseline = NoTime => task.created = NoTime
        BY <1>2 DEF quotaAccountBaseline
    <2> QED
        BY <2>2, <2>4, <2>5
<1> QED
    BY <1>1, <1>2 DEF Task

(* Filling the map leaves the rest of the task alone.                      *)
LEMMA InitHandledKeeps ==
    ASSUME NEW task \in Task, NEW accts \in [Account -> AccountState]
    PROVE  LET base == InitHandled(task, accts)
           IN  /\ base.present = task.present /\ base.enabled = task.enabled
               /\ base.kind = task.kind /\ base.accounts = task.accounts
               /\ base.windows = task.windows /\ base.created = task.created
               /\ base.lastRun = task.lastRun /\ base.nextRun = task.nextRun
               /\ base.retries = task.retries /\ ~base.legacy
BY DEF InitHandled, Task

(* The boundary an attempt answers is the latest one that was due when its  *)
(* run started, whatever a pending retry or a disabled task would say.      *)
LEMMA AnsweredMeaning ==
    ASSUME NEW task \in Task, NEW a \in Account, NEW account \in AccountState,
           NEW started \in Nat
    PROVE  AnsweredReset(task, a, account, started) =
               IF ~account.error /\ quotaTaskSelectsAccount(task, a)
               THEN LatestElapsed(task, a, account, started) ELSE NoTime
<1> DEFINE forced == [task EXCEPT !.enabled = TRUE,
                                  !.retries = [b \in Account |-> NoRetry]]
           due == LatestElapsed(forced, a, account, started)
<1>1. forced \in Task
    BY DEF Task, Retry, NoRetry, NoTime
<1>2. /\ forced.enabled /\ forced.retries[a] = NoRetry
      /\ forced.windows = task.windows /\ forced.accounts = task.accounts
      /\ quotaAccountBaseline(forced, a) = quotaAccountBaseline(task, a)
    BY DEF Task, quotaAccountBaseline
<1>3. AnsweredReset(task, a, account, started) = quotaDueReset(forced, a, account, started)
    BY DEF AnsweredReset
<1> HIDE DEF forced
<1>4. due = LatestElapsed(task, a, account, started)
    BY <1>2 DEF LatestElapsed
<1>5. ~RetryIsPending(forced.retries[a], due, started)
    BY <1>2 DEF RetryIsPending, NoRetry, NoTime
<1>6. quotaTaskSelectsAccount(forced, a) = quotaTaskSelectsAccount(task, a)
    BY <1>2 DEF quotaTaskSelectsAccount
<1> QED
    BY <1>2, <1>3, <1>4, <1>5, <1>6 DEF quotaDueReset

(* The boundary a run that has ended settles, or keeps for a retry.        *)
Answered(base, accts, results, started, a) ==
    IF results[a] \in Attempted THEN AnsweredReset(base, a, accts[a], started) ELSE NoTime

(* Field by field, what a run that has ended makes of a quota task.        *)
LEMMA MarkKeeps ==
    ASSUME NEW task \in Task, NEW accts \in [Account -> AccountState], NEW trigger,
           NEW results, NEW started \in Nat, NEW completed \in Nat
    PROVE  LET marked == markQuotaResetsHandled(task, accts, trigger, results, started, completed)
           IN  /\ marked.present = task.present /\ marked.enabled = task.enabled
               /\ marked.kind = task.kind /\ marked.accounts = task.accounts
               /\ marked.windows = task.windows /\ marked.created = task.created
               /\ marked.lastRun = task.lastRun /\ ~marked.legacy
<1> DEFINE base == InitHandled(task, accts)
<1>1. base \in Task
    BY InitHandledType
<1>2. /\ base.present = task.present /\ base.enabled = task.enabled
      /\ base.kind = task.kind /\ base.accounts = task.accounts
      /\ base.windows = task.windows /\ base.created = task.created
      /\ base.lastRun = task.lastRun /\ ~base.legacy
    BY InitHandledKeeps
<1> HIDE DEF base
<1>3. \E handled, retries :
          markQuotaResetsHandled(task, accts, trigger, results, started, completed)
              = [base EXCEPT !.handled = handled, !.retries = retries]
    BY DEF markQuotaResetsHandled, base
<1> QED
    BY <1>1, <1>2, <1>3 DEF Task

LEMMA MarkMeaning ==
    ASSUME NEW task \in Task, NEW accts \in [Account -> AccountState], NEW trigger,
           NEW results, NEW started \in Nat, NEW completed \in Nat, NEW a \in Account
    PROVE  LET marked == markQuotaResetsHandled(task, accts, trigger, results, started, completed)
               base == InitHandled(task, accts)
               due == Answered(base, accts, results, started, a)
           IN  /\ marked.handled[a] =
                      IF due # NoTime /\ ~KeepForRetry(trigger, results[a])
                      THEN due ELSE base.handled[a]
               /\ marked.retries[a] =
                      IF due = NoTime THEN task.retries[a]
                      ELSE IF KeepForRetry(trigger, results[a])
                           THEN NextRetry(task.retries[a], due, results[a], completed)
                           ELSE NoRetry
<1> DEFINE base == InitHandled(task, accts)
           answered == [b \in Account |->
                           IF results[b] \in Attempted
                           THEN AnsweredReset(base, b, accts[b], started)
                           ELSE NoTime]
           handled == [b \in Account |->
                IF answered[b] # NoTime /\ ~KeepForRetry(trigger, results[b])
                THEN answered[b] ELSE base.handled[b]]
           retries == [b \in Account |->
                IF answered[b] = NoTime THEN base.retries[b]
                ELSE IF KeepForRetry(trigger, results[b])
                     THEN NextRetry(base.retries[b], answered[b], results[b], completed)
                     ELSE NoRetry]
           marked == [base EXCEPT !.handled = handled, !.retries = retries]
<1>1. base \in Task
    BY InitHandledType
<1>2. base.retries = task.retries
    BY InitHandledKeeps
<1>3. markQuotaResetsHandled(task, accts, trigger, results, started, completed) = marked
    BY DEF markQuotaResetsHandled
<1>4. /\ answered[a] = Answered(base, accts, results, started, a)
      /\ handled[a] = IF answered[a] # NoTime /\ ~KeepForRetry(trigger, results[a])
                      THEN answered[a] ELSE base.handled[a]
      /\ retries[a] = IF answered[a] = NoTime THEN base.retries[a]
                      ELSE IF KeepForRetry(trigger, results[a])
                           THEN NextRetry(base.retries[a], answered[a], results[a], completed)
                           ELSE NoRetry
    BY DEF Answered
<1> HIDE DEF base, answered, handled, retries
<1>5. /\ marked.handled = handled /\ marked.retries = retries
    BY <1>1 DEF Task
<1> HIDE DEF marked
<1> QED
    BY <1>2, <1>3, <1>4, <1>5 DEF base

(* The same boundary, said of the task as it was before.                   *)
Answer(task, accts, results, started, a) ==
    IF /\ results[a] \in Attempted
       /\ ~accts[a].error
       /\ quotaTaskSelectsAccount(task, a)
    THEN LatestElapsed(task, a, accts[a], started) ELSE NoTime

(* A run moves the baseline of an account to the boundary it answers,       *)
(* which lies ahead, unless that is kept for a retry; or not at all.        *)
LEMMA MarkBaseline ==
    ASSUME NEW task \in Task, NEW accts \in [Account -> AccountState], NEW trigger,
           NEW results, NEW started \in Nat, NEW completed \in Nat,
           NEW a \in Account, Covers(task, accts, a)
    PROVE  LET marked == markQuotaResetsHandled(task, accts, trigger, results, started, completed)
               due == Answer(task, accts, results, started, a)
           IN  /\ quotaAccountBaseline(marked, a) =
                      IF due # NoTime /\ ~KeepForRetry(trigger, results[a])
                      THEN due ELSE quotaAccountBaseline(task, a)
               /\ marked.retries[a] =
                      IF due = NoTime THEN task.retries[a]
                      ELSE IF KeepForRetry(trigger, results[a])
                           THEN NextRetry(task.retries[a], due, results[a], completed)
                           ELSE NoRetry
<1> DEFINE base == InitHandled(task, accts)
           marked == markQuotaResetsHandled(task, accts, trigger, results, started, completed)
           due == Answer(task, accts, results, started, a)
           answered == Answered(base, accts, results, started, a)
           retry(reset) ==
               IF reset = NoTime THEN task.retries[a]
               ELSE IF KeepForRetry(trigger, results[a])
                    THEN NextRetry(task.retries[a], reset, results[a], completed)
                    ELSE NoRetry
<1>1. base \in Task /\ accts[a] \in AccountState /\ ~base.legacy
      /\ base.accounts = task.accounts /\ base.windows = task.windows
      /\ base.created = task.created
    BY InitHandledType, InitHandledKeeps
<1>2. quotaAccountBaseline(base, a) = quotaAccountBaseline(task, a)
    BY InitHandledBaseline
<1>3. /\ ~marked.legacy /\ marked.created = task.created
      /\ marked.handled[a] = IF answered # NoTime /\ ~KeepForRetry(trigger, results[a])
                             THEN answered ELSE base.handled[a]
      /\ marked.retries[a] = retry(answered)
    BY MarkKeeps, MarkMeaning
<1> HIDE DEF base, marked
<1>4. LatestElapsed(base, a, accts[a], started) = LatestElapsed(task, a, accts[a], started)
    BY <1>1, <1>2 DEF LatestElapsed
<1>5. quotaTaskSelectsAccount(base, a) = quotaTaskSelectsAccount(task, a)
    BY <1>1 DEF quotaTaskSelectsAccount
<1>6. answered = due
    <2>1. AnsweredReset(base, a, accts[a], started) =
              IF ~accts[a].error /\ quotaTaskSelectsAccount(base, a)
              THEN LatestElapsed(base, a, accts[a], started) ELSE NoTime
        BY <1>1, AnsweredMeaning
    <2> QED
        BY <1>4, <1>5, <2>1 DEF Answer, Answered
<1> HIDE DEF answered, due
<1>7. quotaAccountBaseline(marked, a) =
          IF due # NoTime /\ ~KeepForRetry(trigger, results[a])
          THEN due ELSE quotaAccountBaseline(base, a)
    BY <1>1, <1>3, <1>6 DEF quotaAccountBaseline
<1> QED
    BY <1>2, <1>3, <1>6, <1>7 DEF due, marked
=============================================================================
