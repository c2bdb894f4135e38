------------------------------ MODULE Lifecycle ------------------------------
(***************************************************************************)
(* How the plugin is started, reconfigured, quiesced, shut down and given  *)
(* a new host, against everything that runs meanwhile: the scan goroutine, *)
(* startup timers, management requests behind the operation gate, and the  *)
(* account listing of the management page, which is behind no gate.        *)
(*                                                                         *)
(* What a job does to tasks and accounts is the matter of Wakeup.  Here a  *)
(* job is a series of calls through the host bridge it has read, with one  *)
(* save of the state under persistMu and a log line at the end.            *)
(***************************************************************************)
EXTENDS Naturals

CONSTANTS
    Worker,    \* the scan goroutine
    Timer,     \* the startup timers
    Request,   \* concurrent wakes and edits
    Reader,    \* concurrent account listings
    Caller,    \* the lifecycle call, as an owner of persistMu
    Free,      \* the owner of an unlocked mutex
    MaxCalls   \* bound on lifecycle calls

Background == {Worker} \cup Timer
Gated == Background \cup Request
Job == Gated \cup Reader

ASSUME LifecycleAssumption ==
    /\ Worker \notin Timer \cup Request \cup Reader
    /\ Timer \cap (Request \cup Reader) = {}
    /\ Request \cap Reader = {}
    /\ Caller \notin Job
    /\ Free \notin Job \cup {Caller}
    /\ MaxCalls \in Nat

VARIABLES
    call,         \* the call that holds lifecycleMu
    calls,        \* how many there were
    epoch,        \* history: how often the state or the host was replaced
    host,         \* p.host, by number; 0 for nil
    bridges,      \* how many bridges were installed
    alive,        \* the bridges whose ptr is not nil
    configured,   \* p.configured
    closed,       \* p.closed
    contexts,     \* how many contexts were created
    workerCtx,    \* the context p.cancel cancels; 0 for nil
    operationCtx, \* p.operationCtx; 0 for nil, when nothing is accepted
    persistMu,    \* its owner
    jobs          \* the local state of every job

vars == <<call, calls, epoch, host, bridges, alive, configured, closed, contexts,
          workerCtx, operationCtx, persistMu, jobs>>

plugin == <<epoch, host, bridges, configured, closed>>
gates == <<contexts, workerCtx, operationCtx>>

Call == [kind : {"none", "install", "configure", "quiesce", "shutdown"},
         pc : {"none", "stopWorker", "drainWorker", "stopOperations",
               "drainOperations", "persist", "replace", "close", "closing",
               "open", "log", "inlog"},
         old : Nat]

NoCall == [kind |-> "none", pc |-> "none", old |-> 0]

JobState == [pc : {"idle", "ready", "ask", "inhost", "save", "saving",
                   "report", "log", "inlog"},
             ctx : Nat, epoch : Nat, bridge : Nat, leaving : BOOLEAN]

Idle == [pc |-> "idle", ctx |-> 0, epoch |-> 0, bridge |-> 0, leaving |-> FALSE]

Started(ctx, at) ==
    [pc |-> "ready", ctx |-> ctx, epoch |-> at, bridge |-> 0, leaving |-> FALSE]

Init ==
    /\ call = NoCall
    /\ calls = 0
    /\ epoch = 0
    /\ host = 0
    /\ bridges = 0
    /\ alive = {}
    /\ configured = FALSE
    /\ closed = FALSE
    /\ contexts = 0
    /\ workerCtx = 0
    /\ operationCtx = 0
    /\ persistMu = Free
    /\ jobs = [j \in Job |-> Idle]

-----------------------------------------------------------------------------
(* The lifecycle call.  A configuration that cannot be parsed returns before *)
(* it changes anything, and is no step of the model.                         *)

Kinds == IF bridges = 0 THEN {"install"}
                        ELSE {"install", "configure", "quiesce", "shutdown"}

Begin ==
    /\ call.kind = "none"
    /\ calls < MaxCalls
    /\ calls' = calls + 1
    /\ \E kind \in Kinds : call' = [kind |-> kind, pc |-> "stopWorker", old |-> 0]
    /\ UNCHANGED <<plugin, alive, gates, persistMu, jobs>>

At(pc) == call.pc = pc
GoTo(pc) == call' = [call EXCEPT !.pc = pc]

(* stopWorker waits only when there was a worker to cancel.                *)
StopWorker ==
    /\ At("stopWorker")
    /\ GoTo(IF workerCtx = 0 THEN "stopOperations" ELSE "drainWorker")
    /\ workerCtx' = 0
    /\ UNCHANGED <<calls, plugin, alive, contexts, operationCtx, persistMu, jobs>>

(* Mutants: the wait group misses the startup timers; nothing is waited for. *)
TimersLeft(S) == \A j \in S \ Timer : jobs[j].pc = "idle"
NoWait(S) == TRUE
Drained(S) == \A j \in S : jobs[j].pc = "idle"

DrainWorker ==
    /\ At("drainWorker")
    /\ Drained(Background)
    /\ GoTo("stopOperations")
    /\ UNCHANGED <<calls, plugin, alive, gates, persistMu, jobs>>

(* Mutant: the gate stays open while the operations drain.                 *)
StopOperationsLater ==
    /\ At("stopOperations")
    /\ GoTo("drainOperations")
    /\ UNCHANGED <<calls, plugin, alive, gates, persistMu, jobs>>

StopOperations ==
    /\ At("stopOperations")
    /\ operationCtx' = 0
    /\ GoTo("drainOperations")
    /\ UNCHANGED <<calls, plugin, alive, contexts, workerCtx, persistMu, jobs>>

AfterDrain == [install |-> "replace", configure |-> "persist",
               shutdown |-> "persist", quiesce |-> "none"]

DrainOperations ==
    /\ At("drainOperations")
    /\ Drained(Request)
    /\ IF call.kind = "quiesce" THEN call' = NoCall ELSE GoTo(AfterDrain[call.kind])
    /\ UNCHANGED <<calls, plugin, alive, gates, persistMu, jobs>>

LockPersist ==
    /\ At("persist")
    /\ persistMu = Free
    /\ persistMu' = Caller
    /\ GoTo("replace")
    /\ UNCHANGED <<calls, plugin, alive, gates, jobs>>

(* installHost: the new bridge is in place before the old one is closed.   *)
Exchange ==
    /\ At("replace") /\ call.kind = "install"
    /\ bridges' = bridges + 1
    /\ host' = bridges + 1
    /\ alive' = alive \cup {bridges + 1}
    /\ closed' = FALSE
    /\ epoch' = epoch + 1
    /\ call' = [call EXCEPT !.pc = IF host = 0 THEN "open" ELSE "close", !.old = host]
    /\ UNCHANGED <<calls, configured, gates, persistMu, jobs>>

(* configure: the state is loaded, and the worker and the timers of its    *)
(* startup tasks begin, if the configuration wants them and there is a host. *)
Replace ==
    /\ At("replace") /\ call.kind = "configure"
    /\ epoch' = epoch + 1
    /\ configured' = TRUE
    /\ closed' = FALSE
    /\ \/ UNCHANGED <<contexts, workerCtx, jobs>>
       \/ /\ host # 0
          /\ contexts' = contexts + 1
          /\ workerCtx' = contexts + 1
          /\ \E timers \in SUBSET Timer :
                jobs' = [j \in Job |-> IF j \in {Worker} \cup timers
                                       THEN Started(contexts + 1, epoch + 1)
                                       ELSE jobs[j]]
    /\ GoTo("open")
    /\ UNCHANGED <<calls, host, bridges, alive, operationCtx, persistMu>>

(* shutdown: the host is gone before its bridge is closed.                 *)
Detach ==
    /\ At("replace") /\ call.kind = "shutdown"
    /\ closed' = TRUE
    /\ host' = 0
    /\ configured' = FALSE
    /\ epoch' = epoch + 1
    /\ call' = [call EXCEPT !.pc = "close", !.old = host]
    /\ UNCHANGED <<calls, bridges, alive, gates, persistMu, jobs>>

(* hostBridge.close asks for the write lock, which holds new calls back,   *)
(* and gets it when no call is in flight.                                  *)
RequestClose ==
    /\ At("close")
    /\ GoTo("closing")
    /\ UNCHANGED <<calls, plugin, alive, gates, persistMu, jobs>>

InHost(b) == {j \in Job : jobs[j].pc \in {"inhost", "inlog"} /\ jobs[j].bridge = b}

(* Mutant: close does not wait for the calls in flight.                    *)
AnyCalls(b) == TRUE
NoCallInFlight(b) == InHost(b) = {}

Close ==
    /\ At("closing")
    /\ NoCallInFlight(call.old)
    /\ alive' = alive \ {call.old}
    /\ IF call.kind = "install"
       THEN GoTo("open") /\ UNCHANGED persistMu
       ELSE call' = NoCall /\ persistMu' = Free
    /\ UNCHANGED <<calls, plugin, gates, jobs>>

(* Mutant: the new context is not the one after the last.                  *)
OpenOperationsAnew ==
    /\ contexts' = contexts
    /\ operationCtx' = contexts + 1
startOperations ==
    /\ contexts' = contexts + 1
    /\ operationCtx' = contexts + 1

(* The end of installHost, and of configure up to the unlock of persistMu. *)
Open ==
    /\ At("open")
    /\ IF host # 0 /\ configured THEN startOperations ELSE UNCHANGED <<contexts, operationCtx>>
    /\ IF call.kind = "install"
       THEN call' = NoCall /\ UNCHANGED persistMu
       ELSE GoTo("log") /\ persistMu' = Free
    /\ UNCHANGED <<calls, plugin, alive, workerCtx, jobs>>

(* configure logs through the host while it holds lifecycleMu.             *)
LogConfigured ==
    /\ At("log")
    /\ IF host \in alive THEN GoTo("inlog") ELSE call' = NoCall
    /\ UNCHANGED <<calls, plugin, alive, gates, persistMu, jobs>>

LogReturns ==
    /\ At("inlog")
    /\ call' = NoCall
    /\ UNCHANGED <<calls, plugin, alive, gates, persistMu, jobs>>

Lifecycle ==
    \/ StopWorker \/ DrainWorker \/ StopOperations \/ DrainOperations
    \/ LockPersist \/ Exchange \/ Replace \/ Detach
    \/ RequestClose \/ Close \/ Open \/ LogConfigured \/ LogReturns

-----------------------------------------------------------------------------
(* Jobs *)

Move(j, pc) == jobs' = [jobs EXCEPT ![j].pc = pc]

(* Mutants: a job that does not see its cancellation, a gate that admits    *)
(* whoever comes.                                                           *)
NeverCancelled(j) == FALSE
AnyRequest == host # 0
Cancelled(j) == j \in Gated /\ jobs[j].ctx \notin {workerCtx, operationCtx}
Accepting == operationCtx # 0

(* beginOperation.                                                         *)
Admit(r) ==
    /\ jobs[r].pc = "idle"
    /\ Accepting
    /\ jobs' = [jobs EXCEPT ![r] = Started(operationCtx, epoch)]
    /\ UNCHANGED <<call, calls, plugin, alive, gates, persistMu>>

(* accountsResponse reads the host and lists through it, behind no gate.   *)
Visit(r) ==
    /\ jobs[r].pc = "idle"
    /\ host # 0
    /\ jobs' = [jobs EXCEPT ![r].pc = "ask", ![r].bridge = host]
    /\ UNCHANGED <<call, calls, plugin, alive, gates, persistMu>>

(* executeTask reads the host once and keeps it for the whole run.         *)
ReadHost(j) ==
    /\ jobs[j].pc = "ready"
    /\ ~Cancelled(j)
    /\ IF closed \/ host = 0
       THEN Move(j, "report")
       ELSE jobs' = [jobs EXCEPT ![j].pc = "ask", ![j].bridge = host]
    /\ UNCHANGED <<call, calls, plugin, alive, gates, persistMu>>

(* saveTasks needs no host and does not look at its context again.         *)
Edit(r) ==
    /\ jobs[r].pc = "ready"
    /\ Move(r, "save")
    /\ UNCHANGED <<call, calls, plugin, alive, gates, persistMu>>

(* A wake without its task is refused, a startup timer whose task was edited *)
(* away ends.                                                               *)
GiveUp(j) ==
    /\ jobs[j].pc = "ready"
    /\ jobs' = [jobs EXCEPT ![j] = Idle]
    /\ UNCHANGED <<call, calls, plugin, alive, gates, persistMu>>

Leave(j) ==
    /\ jobs[j].pc = "ready"
    /\ Cancelled(j)
    /\ jobs' = [jobs EXCEPT ![j].pc = "report", ![j].leaving = TRUE]
    /\ UNCHANGED <<call, calls, plugin, alive, gates, persistMu>>

ReadLockable(b) == ~(At("closing") /\ call.old = b)

(* A listing is over after one call; a run has no more use for its bridge    *)
(* when it goes on to its end.                                              *)
EndCalls(j, pc) ==
    jobs' = IF j \in Reader THEN [jobs EXCEPT ![j] = Idle]
                            ELSE [jobs EXCEPT ![j].pc = pc, ![j].bridge = 0]

(* bridge.call looks at the context, then takes the read lock, then looks   *)
(* at the pointer.  A run that fails here is still recorded and saved.      *)
Ask(j) ==
    /\ jobs[j].pc = "ask"
    /\ \/ Cancelled(j) /\ EndCalls(j, "save")
       \/ /\ ~Cancelled(j)
          /\ ReadLockable(jobs[j].bridge)
          /\ IF jobs[j].bridge \in alive THEN Move(j, "inhost") ELSE EndCalls(j, "save")
    /\ UNCHANGED <<call, calls, plugin, alive, gates, persistMu>>

(* The host returns: another call follows, or the save of the run, or       *)
(* neither (a scan whose listing failed).                                   *)
HostReturns(j) ==
    /\ jobs[j].pc = "inhost"
    /\ \/ j \in Gated /\ Move(j, "ask")
       \/ \E pc \in {"save", "report"} : EndCalls(j, pc)
    /\ UNCHANGED <<call, calls, plugin, alive, gates, persistMu>>

(* The change of the state and the copy of it that goes to the file.       *)
Save(j) ==
    /\ jobs[j].pc = "save"
    /\ persistMu = Free
    /\ persistMu' = j
    /\ Move(j, "saving")
    /\ UNCHANGED <<call, calls, plugin, alive, gates>>

Saved(j) ==
    /\ jobs[j].pc = "saving"
    /\ persistMu' = Free
    /\ Move(j, "report")
    /\ UNCHANGED <<call, calls, plugin, alive, gates>>

(* A finished run of the worker waits for the next tick of its scan; every  *)
(* other job is over.                                                       *)
AfterReport(j) ==
    IF j = Worker /\ ~jobs[j].leaving
    THEN [jobs EXCEPT ![j].pc = "ready", ![j].bridge = 0]
    ELSE [jobs EXCEPT ![j] = Idle]

(* log reads the host and calls it with no context at all; an edit, or a     *)
(* timer that never began its run, has nothing to log.                     *)
Report(j) ==
    /\ jobs[j].pc = "report"
    /\ \/ jobs' = AfterReport(j)
       \/ host # 0 /\ jobs' = [jobs EXCEPT ![j].pc = "log", ![j].bridge = host]
    /\ UNCHANGED <<call, calls, plugin, alive, gates, persistMu>>

Log(j) ==
    /\ jobs[j].pc = "log"
    /\ ReadLockable(jobs[j].bridge)
    /\ jobs' = IF jobs[j].bridge \in alive THEN [jobs EXCEPT ![j].pc = "inlog"]
                                           ELSE AfterReport(j)
    /\ UNCHANGED <<call, calls, plugin, alive, gates, persistMu>>

Logged(j) ==
    /\ jobs[j].pc = "inlog"
    /\ jobs' = AfterReport(j)
    /\ UNCHANGED <<call, calls, plugin, alive, gates, persistMu>>

Step(j) ==
    \/ ReadHost(j) \/ Leave(j) \/ Ask(j) \/ HostReturns(j)
    \/ Saved(j) \/ Report(j) \/ Log(j) \/ Logged(j)

Next ==
    \/ Begin
    \/ Lifecycle
    \/ \E r \in Request : Admit(r) \/ Edit(r)
    \/ \E r \in Reader : Visit(r)
    \/ \E j \in Timer \cup Request : GiveUp(j)
    \/ \E j \in Job : Step(j) \/ Save(j)

Spec == Init /\ [][Next]_vars

-----------------------------------------------------------------------------
(* Fairness: goroutines are scheduled and host calls return; a mutex that is *)
(* free again and again is granted (a Go mutex hands over to a waiter).      *)
Fairness ==
    /\ WF_vars(Lifecycle)
    /\ \A j \in Job : WF_vars(Step(j)) /\ SF_vars(Save(j))

FairSpec == Spec /\ Fairness

-----------------------------------------------------------------------------
(* Properties *)

\* Every variable has its type, and no context in use is one not yet created.
TypeOK ==
    /\ call \in Call
    /\ calls \in Nat
    /\ epoch \in Nat
    /\ host \in 0..bridges
    /\ bridges \in Nat
    /\ alive \subseteq 1..bridges
    /\ configured \in BOOLEAN
    /\ closed \in BOOLEAN
    /\ contexts \in Nat
    /\ workerCtx \in 0..contexts
    /\ operationCtx \in 0..contexts
    /\ persistMu \in Job \cup {Caller, Free}
    /\ jobs \in [Job -> JobState]

\* Nothing outlives its generation: a goroutine, a timer or an admitted request
\* that is still at work finds the state and the host it started with
\* (stopWorker and stopOperations before every replacement).
JobsKeepTheirEpoch ==
    \A j \in Gated : jobs[j].pc # "idle" => jobs[j].epoch = epoch

\* The bridge that a run has read at its start stays the plugin's host until the
\* run is over, whatever calls arrive meanwhile (executeTask reads it once).
RunsUseTheCurrentHost ==
    \A j \in Gated : jobs[j].pc \in {"ask", "inhost"} => jobs[j].bridge = host

\* Once close has returned, no call is inside the old host: not of a job, not of
\* the account listing that nothing waits for (hostBridge.mu).
NoCallAfterClose ==
    /\ \A j \in Job : jobs[j].pc \in {"inhost", "inlog"} => jobs[j].bridge \in alive
    /\ At("inlog") => host \in alive

\* Between two lifecycle calls nothing runs that the last one stopped: no worker
\* or timer without its context, no request while the gate is shut, and after a
\* shutdown no call into the host at all.
StoppedMeansQuiet ==
    call.kind = "none" =>
        /\ workerCtx = 0 => \A j \in Background : jobs[j].pc = "idle"
        /\ operationCtx = 0 => \A r \in Request : jobs[r].pc = "idle"
        /\ closed => \A b \in 1..bridges : InHost(b) = {}

\* A lifecycle call returns, though it waits for jobs that save, log and talk to
\* the host, and for calls in flight through the bridge it closes.
CallsEnd == call.kind # "none" ~> call.kind = "none"

\* Jobs, gates and replacements behave like epochs that turn only when everybody
\* has left them.
Epochs == INSTANCE Generations WITH
    open <- (IF workerCtx # 0 THEN {"background"} ELSE {})
            \cup (IF operationCtx # 0 THEN {"request"} ELSE {}),
    members <- {j \in Gated : jobs[j].pc # "idle"}

ImplementsEpochs == Epochs!Spec
=============================================================================
