--------------------------- MODULE LifecycleProofs ---------------------------
(***************************************************************************)
(* The safety of Lifecycle for any number of timers, requests, listings    *)
(* and lifecycle calls, and that its steps are steps of Generations.       *)
(*                                                                         *)
(* The argument: a gate that is shut and not draining has nobody behind it *)
(* (GatesDrain), a call that replaces anything has shut both (Stages), so  *)
(* a replacement finds every gated job idle.                               *)
(***************************************************************************)
EXTENDS Lifecycle, TLAPS

IdleJobs(S) == \A j \in S : jobs[j].pc = "idle"

GatesDrain ==
    /\ workerCtx = 0 /\ call.pc # "drainWorker" => IdleJobs(Background)
    /\ operationCtx = 0 /\ call.pc # "drainOperations" => IdleJobs(Request)

Stages ==
    /\ call.pc \in {"drainWorker", "stopOperations", "drainOperations",
                    "persist", "replace", "close", "closing"} => workerCtx = 0
    /\ call.pc \in {"drainOperations", "persist", "replace", "close",
                    "closing", "open"} => operationCtx = 0

Shape ==
    /\ call.pc = "none" <=> call.kind = "none"
    /\ call.pc \in {"persist"} => call.kind \in {"configure", "shutdown"}
    /\ call.pc = "replace" => call.kind \in {"install", "configure", "shutdown"}
    /\ call.pc \in {"close", "closing"} => call.kind \in {"install", "shutdown"}
    /\ call.pc = "open" => call.kind \in {"install", "configure"}
    /\ call.pc = "open" /\ call.kind = "install" => workerCtx = 0

(* Which bridges are alive, and that the one being closed is no more p.host. *)
Bridges ==
    /\ closed => host = 0
    /\ call.pc \in {"close", "closing"} => call.old # host \/ call.old = 0
    /\ alive = ({host} \cup IF call.pc \in {"close", "closing"}
                            THEN {call.old} ELSE {}) \ {0}

JobBridges ==
    /\ \A j \in Gated : jobs[j].pc \in {"ask", "inhost", "log", "inlog"} =>
            jobs[j].bridge = host
    /\ \A j \in Reader : jobs[j].pc \in {"idle", "ask", "inhost"}

Inv ==
    /\ TypeOK /\ GatesDrain /\ Stages /\ Shape /\ Bridges /\ JobBridges
    /\ JobsKeepTheirEpoch /\ NoCallAfterClose

LEMMA JobSets ==
    /\ Background \cap Request = {}
    /\ Gated \cap Reader = {}
    /\ Background \subseteq Gated /\ Request \subseteq Gated
    /\ Timer \subseteq Background /\ Worker \in Background
    /\ Gated \subseteq Job /\ Reader \subseteq Job
    /\ Caller \notin Job /\ Free \notin Job /\ Free # Caller
BY LifecycleAssumption DEF Background, Gated, Job

LEMMA IdleIsJob == Idle \in JobState
BY DEF Idle, JobState

LEMMA StartedIsJob ==
    ASSUME NEW c \in Nat, NEW n \in Nat
    PROVE  Started(c, n) \in JobState
BY DEF Started, JobState

LEMMA InitInv == ASSUME Init PROVE Inv
<1>1. \A j \in Job : jobs[j].pc = "idle"
    BY DEF Init, Idle
<1>2. call.pc = "none" /\ call.kind = "none"
    BY DEF Init, NoCall
<1>3. TypeOK
    <2>1. call \in Call
        BY DEF Init, NoCall, Call
    <2>2. jobs \in [Job -> JobState]
        BY IdleIsJob DEF Init
    <2>3. alive \subseteq 1..bridges /\ host \in 0..bridges
        BY DEF Init
    <2>4. workerCtx \in 0..contexts /\ operationCtx \in 0..contexts
        BY DEF Init
    <2>5. /\ calls \in Nat /\ epoch \in Nat /\ bridges \in Nat /\ contexts \in Nat
          /\ configured \in BOOLEAN /\ closed \in BOOLEAN
          /\ persistMu \in Job \cup {Caller, Free}
        BY DEF Init
    <2> QED
        BY <2>1, <2>2, <2>3, <2>4, <2>5 DEF TypeOK
<1>4. GatesDrain /\ JobsKeepTheirEpoch /\ JobBridges
    BY <1>1, JobSets DEF GatesDrain, IdleJobs, JobsKeepTheirEpoch, JobBridges
<1>5. Stages /\ Shape
    BY <1>2 DEF Stages, Shape
<1>6. Bridges
    BY <1>2 DEF Bridges, Init
<1>7. NoCallAfterClose
    BY <1>1, <1>2 DEF NoCallAfterClose, At
<1> QED
    BY <1>3, <1>4, <1>5, <1>6, <1>7 DEF Inv

(* While both gates are shut and drained, every gated job is idle.          *)
LEMMA NobodyAtReplacement ==
    ASSUME Inv, call.pc \in {"replace", "persist", "close", "closing"}
    PROVE  IdleJobs(Gated)
BY DEF Inv, GatesDrain, Stages, IdleJobs, Gated

(* A step of one job that is at work.                                      *)
LEMMA JobMoved ==
    ASSUME Inv, NEW j \in Job, jobs[j].pc # "idle",
           jobs' \in [Job -> JobState],
           \A k \in Job : k # j => jobs'[k] = jobs[k],
           UNCHANGED <<call, calls, plugin, alive, gates>>,
           persistMu' \in Job \cup {Caller, Free},
           jobs'[j].pc # "idle" => jobs'[j].epoch = jobs[j].epoch,
           j \in Gated /\ jobs'[j].pc \in {"ask", "inhost", "log", "inlog"}
               => jobs'[j].bridge = host,
           j \in Reader => jobs'[j].pc \in {"idle", "ask", "inhost"},
           jobs'[j].pc \in {"inhost", "inlog"} => jobs'[j].bridge \in alive
    PROVE  Inv'
<1> USE DEF plugin, gates
<1>1. TypeOK'
    BY DEF Inv, TypeOK
<1>2. \A S \in SUBSET Job : IdleJobs(S) => IdleJobs(S)'
    BY DEF IdleJobs
<1>3. GatesDrain'
    BY <1>2, JobSets DEF Inv, GatesDrain, IdleJobs
<1>4. Stages' /\ Shape' /\ Bridges'
    BY DEF Inv, Stages, Shape, Bridges
<1>5. JobBridges'
    BY JobSets DEF Inv, JobBridges
<1>6. JobsKeepTheirEpoch'
    BY JobSets DEF Inv, JobsKeepTheirEpoch
<1>7. NoCallAfterClose'
    BY DEF Inv, NoCallAfterClose, At
<1> QED
    BY <1>1, <1>3, <1>4, <1>5, <1>6, <1>7 DEF Inv

(* Whoever is in the report of a run is a gated job.                       *)
LEMMA JobRecord ==
    ASSUME Inv, NEW j \in Job
    PROVE  /\ jobs[j] \in JobState
           /\ jobs \in [Job -> JobState]
           /\ host \in Nat
           /\ jobs[j].pc \in {"ready", "save", "saving", "report", "log", "inlog"} => j \in Gated
BY JobSets DEF Inv, TypeOK, JobBridges, Gated, Job, Background

LEMMA StepInv ==
    ASSUME Inv, NEW j \in Job, Step(j)
    PROVE  Inv'
<1> USE JobRecord, JobSets, JobMoved
<1>p. persistMu \in Job \cup {Caller, Free}
    BY DEF Inv, TypeOK
<1>b. /\ j \in Gated /\ jobs[j].pc \in {"ask", "inhost", "log", "inlog"} => jobs[j].bridge = host
      /\ j \in Gated => j \notin Reader
    BY DEF Inv, JobBridges
<1>r. ASSUME jobs' = AfterReport(j), jobs[j].pc \in {"report", "log", "inlog"},
             UNCHANGED <<call, calls, plugin, alive, gates, persistMu>>
      PROVE  Inv'
    <2>1. CASE j = Worker /\ ~jobs[j].leaving
        <3>1. jobs' = [jobs EXCEPT ![j].pc = "ready", ![j].bridge = 0]
            BY <1>r, <2>1 DEF AfterReport
        <3>2. jobs' \in [Job -> JobState] /\ jobs'[j].pc = "ready" /\ jobs'[j].epoch = jobs[j].epoch
            BY <3>1 DEF JobState
        <3> QED
            BY <1>r, <1>p, <1>b, <3>1, <3>2
    <2>2. CASE ~(j = Worker /\ ~jobs[j].leaving)
        <3>1. jobs' = [jobs EXCEPT ![j] = Idle]
            BY <1>r, <2>2 DEF AfterReport
        <3>2. jobs' \in [Job -> JobState] /\ jobs'[j].pc = "idle"
            BY <3>1, IdleIsJob DEF Idle
        <3> QED
            BY <1>r, <1>p, <3>1, <3>2
    <2> QED
        BY <2>1, <2>2
<1>e. ASSUME NEW pc \in {"save", "report"}, EndCalls(j, pc), jobs[j].pc # "idle",
             UNCHANGED <<call, calls, plugin, alive, gates, persistMu>>
      PROVE  Inv'
    <2>1. CASE j \in Reader
        <3>1. jobs' = [jobs EXCEPT ![j] = Idle]
            BY <1>e, <2>1 DEF EndCalls
        <3>2. jobs' \in [Job -> JobState] /\ jobs'[j].pc = "idle"
            BY <3>1, IdleIsJob DEF Idle
        <3> QED
            BY <1>e, <1>p, <3>1, <3>2
    <2>2. CASE j \notin Reader
        <3>1. jobs' = [jobs EXCEPT ![j].pc = pc, ![j].bridge = 0]
            BY <1>e, <2>2 DEF EndCalls
        <3>2. jobs' \in [Job -> JobState] /\ jobs'[j].pc = pc
              /\ jobs'[j].epoch = jobs[j].epoch
            BY <3>1 DEF JobState
        <3> QED
            BY <1>e, <1>p, <2>2, <3>1, <3>2
    <2> QED
        BY <2>1, <2>2
<1>1. CASE ReadHost(j)
    <2>1. CASE jobs' = [jobs EXCEPT ![j].pc = "report"]
        BY <1>1, <1>p, <2>1 DEF ReadHost, JobState
    <2>2. CASE jobs' = [jobs EXCEPT ![j].pc = "ask", ![j].bridge = host]
        <3>1. jobs' \in [Job -> JobState] /\ jobs'[j].pc = "ask"
              /\ jobs'[j].bridge = host /\ jobs'[j].epoch = jobs[j].epoch
            BY <2>2 DEF JobState
        <3> QED
            BY <1>1, <1>p, <2>2, <3>1 DEF ReadHost
    <2> QED
        BY <1>1, <2>1, <2>2 DEF ReadHost, Move
<1>2. CASE Leave(j)
    <2>1. jobs' = [jobs EXCEPT ![j].pc = "report", ![j].leaving = TRUE]
        BY <1>2 DEF Leave
    <2>2. jobs' \in [Job -> JobState] /\ jobs'[j].pc = "report"
          /\ jobs'[j].epoch = jobs[j].epoch
        BY <2>1 DEF JobState
    <2>3. j \in Gated
        BY <1>2 DEF Leave
    <2> QED
        BY <1>2, <1>p, <1>b, <2>1, <2>2, <2>3 DEF Leave
<1>3. CASE Ask(j)
    <2>1. CASE EndCalls(j, "save")
        BY <1>3, <1>e, <2>1 DEF Ask
    <2>2. CASE jobs[j].bridge \in alive /\ Move(j, "inhost")
        <3>1. jobs' = [jobs EXCEPT ![j].pc = "inhost"]
            BY <2>2 DEF Move
        <3>2. jobs' \in [Job -> JobState] /\ jobs'[j].pc = "inhost"
              /\ jobs'[j].bridge = jobs[j].bridge /\ jobs'[j].epoch = jobs[j].epoch
            BY <3>1 DEF JobState
        <3> QED
            BY <1>3, <1>p, <1>b, <2>2, <3>1, <3>2 DEF Ask
    <2> QED
        BY <1>3, <2>1, <2>2 DEF Ask
<1>4. CASE HostReturns(j)
    <2>1. CASE j \in Gated /\ Move(j, "ask")
        <3>1. jobs' = [jobs EXCEPT ![j].pc = "ask"]
            BY <2>1 DEF Move
        <3>2. jobs' \in [Job -> JobState] /\ jobs'[j].pc = "ask"
              /\ jobs'[j].bridge = jobs[j].bridge /\ jobs'[j].epoch = jobs[j].epoch
            BY <3>1 DEF JobState
        <3> QED
            BY <1>4, <1>p, <1>b, <2>1, <3>1, <3>2 DEF HostReturns
    <2>2. CASE \E pc \in {"save", "report"} : EndCalls(j, pc)
        BY <1>4, <1>e, <2>2 DEF HostReturns
    <2> QED
        BY <1>4, <2>1, <2>2 DEF HostReturns
<1>5. CASE Saved(j)
    BY <1>5, <1>b DEF Saved, Move, JobState
<1>6. CASE Report(j)
    BY <1>6, <1>p, <1>b, <1>r DEF Report, JobState
<1>7. CASE Log(j)
    BY <1>7, <1>p, <1>b, <1>r DEF Log, JobState
<1>8. CASE Logged(j)
    BY <1>8, <1>r DEF Logged
<1> QED
    BY <1>1, <1>2, <1>3, <1>4, <1>5, <1>6, <1>7, <1>8 DEF Step

-----------------------------------------------------------------------------
(* A step of the lifecycle call that leaves the jobs alone: what is left to *)
(* show is about the call, the gates and the bridges.                       *)
LEMMA JobsKept ==
    ASSUME Inv, jobs' = jobs,
           UNCHANGED <<host, epoch>> \/ IdleJobs(Gated),
           \A j \in Job : jobs[j].pc \in {"inhost", "inlog"} => jobs[j].bridge \in alive',
           call'.pc = "inlog" => host' \in alive'
    PROVE  JobBridges' /\ JobsKeepTheirEpoch' /\ NoCallAfterClose'
<1>1. CASE UNCHANGED <<host, epoch>>
    BY <1>1 DEF Inv, JobBridges, JobsKeepTheirEpoch, NoCallAfterClose, At
<1>2. CASE IdleJobs(Gated)
    BY <1>2, JobSets DEF Inv, JobBridges, JobsKeepTheirEpoch, NoCallAfterClose, At, IdleJobs
<1> QED
    BY <1>1, <1>2

(* The calls that change only themselves and the gates.                    *)
LEMMA GateInv ==
    ASSUME Inv,
           Begin \/ StopWorker \/ DrainWorker \/ StopOperations \/ DrainOperations
           \/ LockPersist \/ RequestClose \/ LogConfigured \/ LogReturns
    PROVE  Inv'
<1> USE DEF plugin, gates, GoTo, At
<1>1. call \in Call /\ call' \in Call
    BY DEF Inv, TypeOK, Call, NoCall, Begin, Kinds, StopWorker, DrainWorker, StopOperations,
        DrainOperations, AfterDrain, Shape, LockPersist, RequestClose, LogConfigured, LogReturns
<1>2. /\ jobs' = jobs /\ UNCHANGED <<host, epoch, alive, bridges, configured, closed, contexts>>
      /\ workerCtx' \in {workerCtx, 0} /\ operationCtx' \in {operationCtx, 0}
      /\ persistMu' \in {persistMu, Caller} /\ calls' \in {calls, calls + 1}
    BY DEF Begin, StopWorker, DrainWorker, StopOperations, DrainOperations, LockPersist,
        RequestClose, LogConfigured, LogReturns
<1>3. TypeOK'
    BY <1>1, <1>2 DEF Inv, TypeOK
<1>4. call'.pc = "inlog" => host \in alive
    BY <1>1 DEF Call, NoCall, Begin, StopWorker, DrainWorker, StopOperations, DrainOperations,
        AfterDrain, Inv, Shape, LockPersist, RequestClose, LogConfigured, LogReturns
<1>5. JobBridges' /\ JobsKeepTheirEpoch' /\ NoCallAfterClose'
    <2>1. \A j \in Job : jobs[j].pc \in {"inhost", "inlog"} => jobs[j].bridge \in alive'
        BY <1>2 DEF Inv, NoCallAfterClose
    <2> QED
        BY <1>2, <1>4, <2>1, JobsKept
<1>6. GatesDrain' /\ Stages' /\ Shape' /\ Bridges'
    <2> USE <1>1, <1>2 DEF Inv, GatesDrain, Stages, Shape, Bridges, IdleJobs, Call
    <2>1. CASE Begin
        BY <2>1 DEF Begin, Kinds
    <2>2. CASE StopWorker
        BY <2>2 DEF StopWorker
    <2>3. CASE DrainWorker
        BY <2>3 DEF DrainWorker, Drained
    <2>4. CASE StopOperations
        BY <2>4 DEF StopOperations
    <2>5. CASE DrainOperations
        BY <2>5 DEF DrainOperations, Drained, AfterDrain, NoCall
    <2>6. CASE LockPersist
        BY <2>6 DEF LockPersist
    <2>7. CASE RequestClose
        BY <2>7 DEF RequestClose
    <2>8. CASE LogConfigured
        BY <2>8 DEF LogConfigured, NoCall
    <2>9. CASE LogReturns
        BY <2>9 DEF LogReturns, NoCall
    <2> QED
        BY <2>1, <2>2, <2>3, <2>4, <2>5, <2>6, <2>7, <2>8, <2>9
<1> QED
    BY <1>3, <1>5, <1>6 DEF Inv

LEMMA ExchangeInv == ASSUME Inv, Exchange PROVE Inv'
<1> USE DEF gates, At
<1>1. IdleJobs(Gated) /\ workerCtx = 0 /\ operationCtx = 0
    BY NobodyAtReplacement DEF Inv, Stages, Exchange
<1>2. /\ bridges' = bridges + 1 /\ host' = bridges + 1 /\ alive' = alive \cup {bridges + 1}
      /\ closed' = FALSE /\ epoch' = epoch + 1 /\ jobs' = jobs
      /\ UNCHANGED <<calls, configured, contexts, workerCtx, operationCtx, persistMu>>
      /\ call' = [call EXCEPT !.pc = IF host = 0 THEN "open" ELSE "close", !.old = host]
      /\ call.pc = "replace" /\ call.kind = "install"
    BY DEF Exchange
<1>3. call \in Call /\ host \in Nat /\ bridges \in Nat
    BY DEF Inv, TypeOK
<1>4. /\ call' \in Call /\ call'.kind = "install" /\ call'.old = host
      /\ call'.pc = IF host = 0 THEN "open" ELSE "close"
    BY <1>2, <1>3 DEF Call
<1>5. TypeOK'
    <2>1. alive' \subseteq 1..bridges'
        BY <1>2, <1>3 DEF Inv, TypeOK
    <2>2. host' \in 0..bridges' /\ bridges' \in Nat /\ epoch' \in Nat
        BY <1>2, <1>3 DEF Inv, TypeOK
    <2> QED
        BY <1>2, <1>4, <2>1, <2>2 DEF Inv, TypeOK
<1>6. JobBridges' /\ JobsKeepTheirEpoch' /\ NoCallAfterClose'
    <2>1. \A j \in Job : jobs[j].pc \in {"inhost", "inlog"} => jobs[j].bridge \in alive'
        BY <1>2 DEF Inv, NoCallAfterClose
    <2> QED
        BY <1>1, <1>2, <1>4, <2>1, JobsKept
<1>7. GatesDrain' /\ Stages' /\ Shape'
    BY <1>1, <1>2, <1>4, JobSets DEF GatesDrain, Stages, Shape, IdleJobs
<1>8. Bridges'
    BY <1>2, <1>3, <1>4 DEF Inv, Bridges, TypeOK
<1> QED
    BY <1>5, <1>6, <1>7, <1>8 DEF Inv

LEMMA DetachInv == ASSUME Inv, Detach PROVE Inv'
<1> USE DEF gates, At
<1>1. IdleJobs(Gated) /\ workerCtx = 0 /\ operationCtx = 0
    BY NobodyAtReplacement DEF Inv, Stages, Detach
<1>2. /\ host' = 0 /\ alive' = alive /\ closed' = TRUE /\ configured' = FALSE
      /\ epoch' = epoch + 1 /\ jobs' = jobs
      /\ UNCHANGED <<calls, bridges, contexts, workerCtx, operationCtx, persistMu>>
      /\ call' = [call EXCEPT !.pc = "close", !.old = host]
      /\ call.pc = "replace" /\ call.kind = "shutdown"
    BY DEF Detach
<1>3. call \in Call /\ host \in Nat /\ bridges \in Nat
    BY DEF Inv, TypeOK
<1>4. /\ call' \in Call /\ call'.kind = "shutdown" /\ call'.old = host /\ call'.pc = "close"
    BY <1>2, <1>3 DEF Call
<1>5. TypeOK'
    <2>1. host' \in 0..bridges' /\ epoch' \in Nat
        BY <1>2, <1>3 DEF Inv, TypeOK
    <2> QED
        BY <1>2, <1>4, <2>1 DEF Inv, TypeOK
<1>6. JobBridges' /\ JobsKeepTheirEpoch' /\ NoCallAfterClose'
    <2>1. \A j \in Job : jobs[j].pc \in {"inhost", "inlog"} => jobs[j].bridge \in alive'
        BY <1>2 DEF Inv, NoCallAfterClose
    <2> QED
        BY <1>1, <1>2, <1>4, <2>1, JobsKept
<1>7. GatesDrain' /\ Stages' /\ Shape'
    BY <1>1, <1>2, <1>4, JobSets DEF GatesDrain, Stages, Shape, IdleJobs
<1>8. Bridges'
    BY <1>2, <1>3, <1>4 DEF Inv, Bridges
<1> QED
    BY <1>5, <1>6, <1>7, <1>8 DEF Inv

(* The write lock is granted when no call is in flight through the bridge.  *)
LEMMA CloseInv == ASSUME Inv, Close PROVE Inv'
<1> USE DEF plugin, gates, At, GoTo
<1>1. /\ alive' = alive \ {call.old} /\ jobs' = jobs /\ persistMu' \in {persistMu, Free}
      /\ UNCHANGED <<calls, epoch, host, bridges, configured, closed, contexts,
                     workerCtx, operationCtx>>
      /\ call.pc = "closing" /\ NoCallInFlight(call.old)
    BY DEF Close
<1>2. call \in Call /\ call.kind \in {"install", "shutdown"}
    BY <1>1 DEF Inv, TypeOK, Shape
<1>3. /\ call' \in Call
      /\ \/ call'.kind = "install" /\ call'.pc = "open"
         \/ call'.kind = "none" /\ call'.pc = "none"
    BY <1>2 DEF Close, Call, NoCall
<1>4. TypeOK'
    BY <1>1, <1>3 DEF Inv, TypeOK
<1>5. JobBridges' /\ JobsKeepTheirEpoch' /\ NoCallAfterClose'
    <2>1. \A j \in Job : jobs[j].pc \in {"inhost", "inlog"} => jobs[j].bridge \in alive'
        BY <1>1 DEF Inv, NoCallAfterClose, NoCallInFlight, InHost
    <2> QED
        BY <1>1, <1>3, <2>1, JobsKept
<1>6. GatesDrain' /\ Stages' /\ Shape'
    BY <1>1, <1>3 DEF Inv, GatesDrain, Stages, Shape, IdleJobs
<1>7. Bridges'
    BY <1>1, <1>3 DEF Inv, Bridges
<1> QED
    BY <1>4, <1>5, <1>6, <1>7 DEF Inv

LEMMA OpenInv == ASSUME Inv, Open PROVE Inv'
<1> USE DEF plugin, gates, At, GoTo
<1>1. /\ jobs' = jobs /\ persistMu' \in {persistMu, Free}
      /\ UNCHANGED <<calls, epoch, host, bridges, alive, configured, closed, workerCtx>>
      /\ \/ contexts' = contexts + 1 /\ operationCtx' = contexts + 1
         \/ UNCHANGED <<contexts, operationCtx>>
      /\ call.pc = "open"
    BY DEF Open, startOperations
<1>2. call \in Call /\ call.kind \in {"install", "configure"} /\ operationCtx = 0
    BY <1>1 DEF Inv, TypeOK, Shape, Stages
<1>3. /\ call' \in Call
      /\ \/ call'.kind = "configure" /\ call'.pc = "log"
         \/ call'.kind = "none" /\ call'.pc = "none"
    BY <1>2 DEF Open, Call, NoCall
<1>4. TypeOK'
    <2>1. contexts' \in Nat /\ workerCtx' \in 0..contexts' /\ operationCtx' \in 0..contexts'
        BY <1>1 DEF Inv, TypeOK
    <2> QED
        BY <1>1, <1>3, <2>1 DEF Inv, TypeOK
<1>5. JobBridges' /\ JobsKeepTheirEpoch' /\ NoCallAfterClose'
    <2>1. \A j \in Job : jobs[j].pc \in {"inhost", "inlog"} => jobs[j].bridge \in alive'
        BY <1>1 DEF Inv, NoCallAfterClose
    <2> QED
        BY <1>1, <1>3, <2>1, JobsKept
<1>6. GatesDrain' /\ Stages' /\ Shape' /\ Bridges'
    BY <1>1, <1>2, <1>3 DEF Inv, GatesDrain, Stages, Shape, Bridges, IdleJobs
<1> QED
    BY <1>4, <1>5, <1>6 DEF Inv

LEMMA ReplaceInv == ASSUME Inv, Replace PROVE Inv'
<1> USE DEF gates, At, GoTo
<1>1. IdleJobs(Gated) /\ workerCtx = 0 /\ operationCtx = 0
    BY NobodyAtReplacement DEF Inv, Stages, Replace
<1>2. /\ epoch' = epoch + 1 /\ configured' = TRUE /\ closed' = FALSE
      /\ UNCHANGED <<calls, host, bridges, alive, operationCtx, persistMu>>
      /\ call' = [call EXCEPT !.pc = "open"]
      /\ call.pc = "replace" /\ call.kind = "configure"
    BY DEF Replace
<1>3. call \in Call /\ epoch \in Nat /\ contexts \in Nat
    BY DEF Inv, TypeOK
<1>4. call' \in Call /\ call'.kind = "configure" /\ call'.pc = "open"
    BY <1>2, <1>3 DEF Call
<1>5. Bridges'
    BY <1>2, <1>4 DEF Inv, Bridges
<1>6. CASE UNCHANGED <<contexts, workerCtx, jobs>>
    <2>1. TypeOK'
        <3>1. epoch' \in Nat
            BY <1>2, <1>3
        <3> QED
            BY <1>2, <1>4, <1>6, <3>1 DEF Inv, TypeOK
    <2>2. JobBridges' /\ JobsKeepTheirEpoch' /\ NoCallAfterClose'
        <3>1. \A j \in Job : jobs[j].pc \in {"inhost", "inlog"} => jobs[j].bridge \in alive'
            BY <1>2 DEF Inv, NoCallAfterClose
        <3> QED
            BY <1>1, <1>2, <1>4, <1>6, <3>1, JobsKept
    <2>3. GatesDrain' /\ Stages' /\ Shape'
        BY <1>1, <1>2, <1>4, <1>6, JobSets DEF GatesDrain, Stages, Shape, IdleJobs
    <2> QED
        BY <1>5, <2>1, <2>2, <2>3 DEF Inv
<1>7. ASSUME NEW timers \in SUBSET Timer,
             contexts' = contexts + 1, workerCtx' = contexts + 1,
             jobs' = [j \in Job |-> IF j \in {Worker} \cup timers
                                    THEN Started(contexts + 1, epoch + 1) ELSE jobs[j]]
      PROVE  Inv'
    <2> DEFINE New == {Worker} \cup timers
    <2>1. New \subseteq Background
        BY JobSets
    <2>2. \A j \in Job : jobs'[j] = IF j \in New THEN Started(contexts + 1, epoch + 1) ELSE jobs[j]
        BY <1>7
    <2>3. Started(contexts + 1, epoch + 1).pc = "ready" /\ Started(contexts + 1, epoch + 1).epoch = epoch + 1
        BY DEF Started
    <2>4. TypeOK'
        <3>1. jobs' \in [Job -> JobState]
            BY <1>3, <1>7, StartedIsJob DEF Inv, TypeOK
        <3>2. contexts' \in Nat /\ workerCtx' \in 0..contexts' /\ operationCtx' \in 0..contexts'
            BY <1>2, <1>3, <1>7 DEF Inv, TypeOK
        <3>3. epoch' \in Nat
            BY <1>2, <1>3
        <3> QED
            BY <1>2, <1>4, <3>1, <3>2, <3>3 DEF Inv, TypeOK
    <2>5. GatesDrain'
        <3>1. workerCtx' # 0
            BY <1>3, <1>7
        <3>2. \A r \in Request : jobs'[r] = jobs[r]
            BY <2>1, <2>2, JobSets
        <3>3. IdleJobs(Request)'
            BY <1>1, <3>2, JobSets DEF IdleJobs
        <3> QED
            BY <3>1, <3>3 DEF GatesDrain
    <2>6. Stages' /\ Shape'
        BY <1>1, <1>2, <1>4 DEF Stages, Shape
    <2>7. JobBridges'
        <3>1. \A j \in Gated : jobs'[j].pc \in {"idle", "ready"}
            BY <1>1, <2>2, <2>3, JobSets DEF IdleJobs
        <3>2. \A j \in Reader : jobs'[j] = jobs[j]
            BY <2>1, <2>2, JobSets
        <3> QED
            BY <3>1, <3>2 DEF Inv, JobBridges
    <2>8. JobsKeepTheirEpoch'
        BY <1>1, <1>2, <2>2, <2>3, JobSets DEF JobsKeepTheirEpoch, IdleJobs
    <2>9. NoCallAfterClose'
        <3>1. \A j \in Job : jobs'[j].pc \in {"inhost", "inlog"} => jobs'[j].bridge \in alive'
            BY <1>2, <2>2, <2>3 DEF Inv, NoCallAfterClose
        <3> QED
            BY <1>4, <3>1 DEF NoCallAfterClose
    <2> QED
        BY <1>5, <2>4, <2>5, <2>6, <2>7, <2>8, <2>9 DEF Inv
<1> QED
    BY <1>6, <1>7 DEF Replace

(* A job that begins.                                                      *)
LEMMA AdmitInv == ASSUME Inv, NEW r \in Request, Admit(r) PROVE Inv'
<1> USE DEF plugin, gates
<1>1. /\ jobs' = [jobs EXCEPT ![r] = Started(operationCtx, epoch)]
      /\ UNCHANGED <<call, calls, plugin, alive, gates, persistMu>>
      /\ operationCtx # 0
    BY DEF Admit, Accepting
<1>2. Started(operationCtx, epoch).pc = "ready" /\ Started(operationCtx, epoch).epoch = epoch
    BY DEF Started
<1>3. jobs' \in [Job -> JobState]
    BY <1>1, StartedIsJob, JobSets DEF Inv, TypeOK
<1>4. \A j \in Job : jobs'[j] = IF j = r THEN Started(operationCtx, epoch) ELSE jobs[j]
    BY <1>1 DEF Inv, TypeOK
<1>5. TypeOK'
    BY <1>1, <1>3 DEF Inv, TypeOK
<1>6. GatesDrain'
    BY <1>1, <1>4, JobSets DEF Inv, GatesDrain, IdleJobs
<1>7. Stages' /\ Shape' /\ Bridges'
    BY <1>1 DEF Inv, Stages, Shape, Bridges
<1>8. JobBridges' /\ JobsKeepTheirEpoch'
    BY <1>1, <1>2, <1>4, JobSets DEF Inv, JobBridges, JobsKeepTheirEpoch
<1>9. NoCallAfterClose'
    BY <1>1, <1>2, <1>4 DEF Inv, NoCallAfterClose, At
<1> QED
    BY <1>5, <1>6, <1>7, <1>8, <1>9 DEF Inv

LEMMA VisitInv == ASSUME Inv, NEW r \in Reader, Visit(r) PROVE Inv'
<1> USE DEF plugin, gates
<1>1. /\ jobs' = [jobs EXCEPT ![r].pc = "ask", ![r].bridge = host]
      /\ UNCHANGED <<call, calls, plugin, alive, gates, persistMu>>
    BY DEF Visit
<1>2. jobs' \in [Job -> JobState] /\ jobs'[r].pc = "ask"
    BY <1>1, JobRecord, JobSets DEF JobState
<1>3. \A j \in Job : j # r => jobs'[j] = jobs[j]
    BY <1>1 DEF Inv, TypeOK
<1>5. TypeOK'
    BY <1>1, <1>2 DEF Inv, TypeOK
<1>6. GatesDrain'
    BY <1>1, <1>3, JobSets DEF Inv, GatesDrain, IdleJobs
<1>7. Stages' /\ Shape' /\ Bridges'
    BY <1>1 DEF Inv, Stages, Shape, Bridges
<1>8. JobBridges' /\ JobsKeepTheirEpoch'
    BY <1>1, <1>2, <1>3, JobSets DEF Inv, JobBridges, JobsKeepTheirEpoch
<1>9. NoCallAfterClose'
    BY <1>1, <1>2, <1>3 DEF Inv, NoCallAfterClose, At
<1> QED
    BY <1>5, <1>6, <1>7, <1>8, <1>9 DEF Inv

LEMMA RequestInv ==
    ASSUME Inv, NEW j \in Job, Save(j) \/ GiveUp(j) \/ Edit(j)
    PROVE  Inv'
<1> USE JobRecord, JobSets, JobMoved
<1>p. persistMu \in Job \cup {Caller, Free}
    BY DEF Inv, TypeOK
<1>1. CASE Save(j)
    BY <1>1 DEF Save, Move, JobState
<1>2. CASE GiveUp(j)
    <2>1. jobs' \in [Job -> JobState] /\ jobs'[j].pc = "idle"
        BY <1>2, IdleIsJob DEF GiveUp, Idle
    <2> QED
        BY <1>2, <1>p, <2>1 DEF GiveUp
<1>3. CASE Edit(j)
    BY <1>3, <1>p DEF Edit, Move, JobState
<1> QED
    BY <1>1, <1>2, <1>3

-----------------------------------------------------------------------------
LEMMA NextInv == ASSUME Inv, [Next]_vars PROVE Inv'
<1>1. CASE Begin
    BY <1>1, GateInv
<1>2. CASE Lifecycle
    BY <1>2, GateInv, ExchangeInv, ReplaceInv, DetachInv, CloseInv, OpenInv DEF Lifecycle
<1>3. CASE \E r \in Request : Admit(r) \/ Edit(r)
    BY <1>3, AdmitInv, RequestInv, JobSets
<1>4. CASE \E r \in Reader : Visit(r)
    BY <1>4, VisitInv
<1>5. CASE \E j \in Timer \cup Request : GiveUp(j)
    BY <1>5, RequestInv, JobSets
<1>6. CASE \E j \in Job : Step(j) \/ Save(j)
    BY <1>6, StepInv, RequestInv
<1>7. CASE UNCHANGED vars
    BY <1>7 DEF vars, Inv, TypeOK, GatesDrain, IdleJobs, Stages, Shape, Bridges, JobBridges,
        JobsKeepTheirEpoch, NoCallAfterClose, At
<1> QED
    BY <1>1, <1>2, <1>3, <1>4, <1>5, <1>6, <1>7 DEF Next

THEOREM InvHolds == Spec => []Inv
<1>1. Init => Inv
    BY InitInv
<1>2. Inv /\ [Next]_vars => Inv'
    BY NextInv
<1> QED
    BY <1>1, <1>2, PTL DEF Spec

\* Every variable has its type in every reachable state (all of the lifecycle).
THEOREM LifecycleTypes == Spec => []TypeOK
BY InvHolds, PTL DEF Inv

\* A goroutine, timer or admitted request that is still at work finds the state
\* and the host it started with (stopWorker, stopOperations).
THEOREM GenerationsAreIsolated == Spec => []JobsKeepTheirEpoch
BY InvHolds, PTL DEF Inv

\* A run's bridge stays the plugin's host until the run is over (executeTask).
THEOREM RunsKeepTheirHost == Spec => []RunsUseTheCurrentHost
<1>1. Inv => RunsUseTheCurrentHost
    BY DEF Inv, JobBridges, RunsUseTheCurrentHost
<1> QED
    BY <1>1, InvHolds, PTL

\* No call is inside a host whose bridge is closed (hostBridge.close).
THEOREM ClosedHostsAreLeft == Spec => []NoCallAfterClose
BY InvHolds, PTL DEF Inv

\* Between two lifecycle calls nothing runs that the last one stopped (quiesce,
\* shutdown, installHost).
THEOREM StoppedIsQuiet == Spec => []StoppedMeansQuiet
<1>1. ASSUME Inv, call.kind = "none" PROVE StoppedMeansQuiet
    <2>1. call.pc = "none"
        BY <1>1 DEF Inv, Shape
    <2>2. /\ workerCtx = 0 => IdleJobs(Background)
          /\ operationCtx = 0 => IdleJobs(Request)
        BY <2>1, <1>1 DEF Inv, GatesDrain
    <2>3. closed => alive = {}
        BY <2>1, <1>1 DEF Inv, Bridges
    <2>4. closed => \A b \in 1..bridges : InHost(b) = {}
        BY <2>3, <1>1 DEF Inv, NoCallAfterClose, InHost
    <2> QED
        BY <2>2, <2>4 DEF StoppedMeansQuiet, IdleJobs
<1>2. Inv => StoppedMeansQuiet
    BY <1>1 DEF StoppedMeansQuiet
<1> QED
    BY <1>2, InvHolds, PTL

-----------------------------------------------------------------------------
(* The refinement of Generations: what its variables are here.             *)
OpenGates == (IF workerCtx # 0 THEN {"background"} ELSE {})
             \cup (IF operationCtx # 0 THEN {"request"} ELSE {})
Members == {j \in Gated : jobs[j].pc # "idle"}

LEMMA Stutters ==
    ASSUME UNCHANGED <<epoch, workerCtx, operationCtx>>, Members' = Members
    PROVE  UNCHANGED Epochs!vars
BY DEF Epochs!vars, Members

(* A step of one job: it stays, or it leaves.                              *)
LEMMA JobRefines ==
    ASSUME Inv, NEW j \in Job, jobs[j].pc # "idle",
           \A k \in Job : k # j => jobs'[k] = jobs[k],
           UNCHANGED <<epoch, workerCtx, operationCtx>>
    PROVE  [Epochs!Next]_Epochs!vars
<1>1. CASE j \in Reader \/ jobs'[j].pc # "idle"
    <2>1. Members' = Members
        BY <1>1, JobSets DEF Members
    <2> QED
        BY <2>1, Stutters
<1>2. CASE j \in Gated /\ jobs'[j].pc = "idle"
    <2>1. Members' = Members \ {j} /\ j \in Members
        BY <1>2, JobSets DEF Members
    <2>2. Epochs!Leave(j)
        BY <2>1 DEF Epochs!Leave, Members
    <2>3. j \in Background \cup Request
        BY <1>2 DEF Gated
    <2> QED
        BY <2>2, <2>3 DEF Epochs!Next
<1> QED
    BY <1>1, <1>2 DEF Job

LEMMA OneJobMoves ==
    ASSUME Inv, NEW j \in Job, Step(j) \/ Save(j) \/ Edit(j) \/ GiveUp(j)
    PROVE  /\ jobs[j].pc # "idle"
           /\ \A k \in Job : k # j => jobs'[k] = jobs[k]
           /\ UNCHANGED <<epoch, workerCtx, operationCtx>>
<1> USE DEF plugin, gates
<1>1. jobs \in [Job -> JobState]
    BY DEF Inv, TypeOK
<1>2. jobs[j].pc # "idle"
    BY DEF Step, ReadHost, Leave, Ask, HostReturns, Saved, Report, Log, Logged, Save, Edit, GiveUp
<1>3. UNCHANGED <<epoch, workerCtx, operationCtx>>
    BY DEF Step, ReadHost, Leave, Ask, HostReturns, Saved, Report, Log, Logged, Save, Edit, GiveUp
<1>4. \A k \in Job : k # j => jobs'[k] = jobs[k]
    BY <1>1 DEF Step, ReadHost, Leave, Ask, HostReturns, Saved, Report, Log, Logged, Save, Edit,
        GiveUp, Move, EndCalls, AfterReport
<1> QED
    BY <1>2, <1>3, <1>4

LEMMA TurnRefines ==
    ASSUME Inv, Exchange \/ Replace \/ Detach
    PROVE  Epochs!Next
<1> USE DEF plugin, gates, At
<1>1. IdleJobs(Gated) /\ workerCtx = 0 /\ operationCtx = 0
    BY NobodyAtReplacement DEF Inv, Stages, Exchange, Replace, Detach
<1>2. OpenGates = {} /\ Members = {}
    BY <1>1 DEF OpenGates, Members, IdleJobs
<1>3. epoch' = epoch + 1 /\ operationCtx' = 0
    BY <1>1 DEF Exchange, Replace, Detach
<1>4. \/ OpenGates' = {} /\ Members' = {}
      \/ OpenGates' = {"background"} /\ Members' \in SUBSET Background
    <2>1. CASE UNCHANGED <<workerCtx, jobs>>
        BY <1>2, <1>3, <2>1 DEF OpenGates, Members
    <2>2. ASSUME NEW timers \in SUBSET Timer, workerCtx' = contexts + 1,
                 jobs' = [j \in Job |-> IF j \in {Worker} \cup timers
                                        THEN Started(contexts + 1, epoch + 1) ELSE jobs[j]]
          PROVE  OpenGates' = {"background"} /\ Members' \in SUBSET Background
        <3>1. workerCtx' # 0
            BY <2>2 DEF Inv, TypeOK
        <3>2. Members' \in SUBSET Background
            BY <1>1, <2>2, JobSets DEF Members, IdleJobs, Background
        <3> QED
            BY <1>3, <3>1, <3>2 DEF OpenGates
    <2> QED
        BY <2>1, <2>2 DEF Exchange, Replace, Detach
<1>5. Epochs!Turn
    BY <1>2, <1>3, <1>4 DEF Epochs!Turn, OpenGates, Members
<1> QED
    BY <1>5 DEF Epochs!Next

LEMMA GateRefines ==
    ASSUME Inv, StopWorker \/ StopOperations \/ Open
    PROVE  [Epochs!Next]_Epochs!vars
<1> USE DEF plugin, gates
<1>1. jobs' = jobs /\ epoch' = epoch
    BY DEF StopWorker, StopOperations, Open
<1>2. Members' = Members
    BY <1>1 DEF Members
<1>3. CASE UNCHANGED <<workerCtx, operationCtx>>
    BY <1>1, <1>2, <1>3, Stutters
<1>4. CASE workerCtx # 0 /\ workerCtx' = 0 /\ operationCtx' = operationCtx
    <2>1. "background" \in OpenGates /\ OpenGates' = OpenGates \ {"background"}
        BY <1>4 DEF OpenGates
    <2>2. Epochs!Close("background")
        BY <1>1, <1>2, <2>1 DEF Epochs!Close, OpenGates, Members
    <2> QED
        BY <2>2 DEF Epochs!Next, Epochs!Group
<1>5. CASE operationCtx # 0 /\ operationCtx' = 0 /\ workerCtx' = workerCtx
    <2>1. "request" \in OpenGates /\ OpenGates' = OpenGates \ {"request"}
        BY <1>5 DEF OpenGates
    <2>2. Epochs!Close("request")
        BY <1>1, <1>2, <2>1 DEF Epochs!Close, OpenGates, Members
    <2> QED
        BY <2>2 DEF Epochs!Next, Epochs!Group
<1>6. CASE operationCtx' = contexts + 1 /\ workerCtx' = workerCtx
    <2>1. operationCtx' # 0
        BY <1>6 DEF Inv, TypeOK
    <2>2. OpenGates' = OpenGates \cup {"request"}
        BY <1>6, <2>1 DEF OpenGates
    <2>3. Epochs!Reopen
        BY <1>1, <1>2, <2>2 DEF Epochs!Reopen, OpenGates, Members
    <2> QED
        BY <2>3 DEF Epochs!Next
<1> QED
    BY <1>3, <1>4, <1>5, <1>6 DEF StopWorker, StopOperations, Open, startOperations

LEMMA StepRefines == ASSUME Inv, [Next]_vars PROVE [Epochs!Next]_Epochs!vars
<1> USE DEF plugin, gates
<1>1. CASE Begin \/ DrainWorker \/ DrainOperations \/ LockPersist \/ RequestClose
           \/ Close \/ LogConfigured \/ LogReturns \/ UNCHANGED vars
    <2>1. UNCHANGED <<epoch, workerCtx, operationCtx, jobs>>
        BY <1>1 DEF Begin, DrainWorker, DrainOperations, LockPersist, RequestClose,
            Close, LogConfigured, LogReturns, vars
    <2> QED
        BY <2>1, Stutters DEF Members
<1>2. CASE StopWorker \/ StopOperations \/ Open
    BY <1>2, GateRefines
<1>3. CASE Exchange \/ Replace \/ Detach
    BY <1>3, TurnRefines
<1>4. ASSUME NEW r \in Request, Admit(r) PROVE [Epochs!Next]_Epochs!vars
    <2>1. /\ jobs' = [jobs EXCEPT ![r] = Started(operationCtx, epoch)]
          /\ UNCHANGED <<epoch, workerCtx, operationCtx>>
          /\ operationCtx # 0 /\ jobs[r].pc = "idle"
        BY <1>4 DEF Admit, Accepting
    <2>2. \A j \in Job : (jobs'[j].pc # "idle") <=> (j = r \/ jobs[j].pc # "idle")
        BY <2>1 DEF Inv, TypeOK, Started
    <2>3. r \notin Members /\ Members' = Members \cup {r} /\ "request" \in OpenGates
        BY <2>1, <2>2, JobSets DEF Members, OpenGates
    <2>4. Epochs!Enter(r)
        BY <2>1, <2>3 DEF Epochs!Enter, Members, OpenGates
    <2> QED
        BY <2>4 DEF Epochs!Next
<1>5. ASSUME NEW r \in Reader, Visit(r) PROVE [Epochs!Next]_Epochs!vars
    <2>1. /\ \A j \in Job : j # r => jobs'[j] = jobs[j]
          /\ UNCHANGED <<epoch, workerCtx, operationCtx>>
        BY <1>5 DEF Inv, TypeOK, Visit
    <2>2. Members' = Members
        BY <2>1, JobSets DEF Members
    <2> QED
        BY <2>1, <2>2, Stutters
<1>6. ASSUME NEW j \in Job, Step(j) \/ Save(j) \/ Edit(j) \/ GiveUp(j)
      PROVE  [Epochs!Next]_Epochs!vars
    BY <1>6, OneJobMoves, JobRefines
<1>7. CASE \E r \in Request : Admit(r) \/ Edit(r)
    BY <1>4, <1>6, <1>7, JobSets
<1>8. CASE \E j \in Timer \cup Request : GiveUp(j)
    BY <1>6, <1>8, JobSets
<1> QED
    BY <1>1, <1>2, <1>3, <1>5, <1>6, <1>7, <1>8 DEF Next, Lifecycle

LEMMA InitRefines == ASSUME Init PROVE Epochs!Init
<1>1. Members = {} /\ OpenGates = {} /\ epoch = 0
    BY JobSets DEF Init, Members, OpenGates, Idle
<1> QED
    BY <1>1 DEF Epochs!Init, Members, OpenGates

\* The plugin's lifecycle behaves like epochs that turn only when both gates are
\* shut and nobody is left behind them: the safety of what ImplementsEpochs says.
THEOREM LifecycleRefinesGenerations == Spec => Epochs!Safety
<1>1. Init => Epochs!Init
    BY InitRefines
<1>2. Inv /\ [Next]_vars => [Epochs!Next]_Epochs!vars
    BY StepRefines
<1> QED
    BY <1>1, <1>2, InvHolds, PTL DEF Spec, Epochs!Safety
=============================================================================
