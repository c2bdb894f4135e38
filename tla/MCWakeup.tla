------------------------------ MODULE MCWakeup ------------------------------
(***************************************************************************)
(* Instances of Wakeup for TLC.  Each cfg picks the tasks at the start,    *)
(* what the management clients send and what the host answers from these.  *)
(***************************************************************************)
EXTENDS Wakeup, TLC

CONSTANTS t1, t2, a1, a2, w1, w2, m1, e1

NewTask(kind, accts) ==
    [AbsentTask EXCEPT !.present = TRUE, !.enabled = TRUE, !.kind = kind,
                       !.accounts = accts, !.windows = Window, !.created = 1]

One(task) == {[t \in TaskID |-> task]}
Two(first, second) == {[t \in TaskID |-> IF t = t1 THEN first ELSE second]}

QuotaTask == One(NewTask("quota_reset", Account))
QuotaTaskForAll == One(NewTask("quota_reset", {}))
LegacyTask == One([NewTask("quota_reset", Account) EXCEPT !.lastRun = 1])
QuotaOrLegacyTask == QuotaTask \cup LegacyTask
ScheduledTasks == Two(NewTask("interval", Account), NewTask("calendar", Account))
QuotaAndNone == Two(NewTask("quota_reset", Account), AbsentTask)
QuotaOrScheduled == QuotaAndNone \cup ScheduledTasks
QuotaAndStartup == Two(NewTask("quota_reset", Account), NewTask("startup", Account))

Eligible == [a \in Account |-> "eligible"]
Unavailable == [a \in Account |-> "unavailable"]
Gone == [a \in Account |-> "gone"]
Reliable == {Eligible}
MayFail == {Eligible, NoListing}
AnyListing == {Eligible, Unavailable, Gone, NoListing}

Nothing == {}
OwnAccounts == {{}}
Spans == {1}
LongSpans == {2}

QuotaForm(windows) ==
    [enabled |-> TRUE, kind |-> "quota_reset", accounts |-> Account, windows |-> windows]
QuotaForms == {QuotaForm(Window), QuotaForm({w1})}
EmptyList == {[t \in {} |-> QuotaForm(Window)]}

Accounts == Permutations(Account)
=============================================================================
