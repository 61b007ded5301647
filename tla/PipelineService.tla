--------------------------- MODULE PipelineService ---------------------------
(***************************************************************************)
(* Runs of pipeline stages as the console executes them: the request       *)
(* threads of the API (start, retry), the service they share through an    *)
(* unlocked lru_cache, the service's own lock, the daemon worker thread of *)
(* each scheduled run, the rows of the metadata database and the recovery  *)
(* a new process performs.                                                 *)
(*                                                                         *)
(* One repository call is one database transaction and one step here; a    *)
(* thread may be preempted between any two of them.  A run is identified   *)
(* by its unit (stage of a batch) and attempt, as in the code's            *)
(* batch:{batch}:{stage}:{attempt}.  A service is identified by the        *)
(* request thread that built it.                                           *)
(***************************************************************************)
EXTENDS Integers, FiniteSets, RunStatus

CONSTANTS
  Requests,        \* request threads of the console
  Units,           \* (batch, stage) pairs
  None,            \* no thread, no service, no unit, no run
  ArtifactsPerRun, \* artifacts a stage result carries
  MaxCalls,        \* bound: start and retry calls in a behaviour
  MaxFaults,       \* bound: exceptions raised by a database or file call
  MaxCrashes       \* bound: deaths of the console process

ASSUME ArtifactsAssumption == ArtifactsPerRun \in Nat \ {0}
ASSUME BoundsAssumption    == MaxCalls \in Nat /\ MaxFaults \in Nat /\ MaxCrashes \in Nat
ASSUME NoneAssumption      == None \notin Requests /\ None \notin Units

\* A call creates at most one attempt.
Attempts == 1 .. MaxCalls
RunIds   == Units \X Attempts

Active          == {"PENDING", "RUNNING"}
TerminalFailure == {"FAILED", "CANCELLED"}

RequestPC == {"idle", "service", "list", "recover", "snapshot", "failStep",
              "retry", "check", "enter", "attempt", "createRun", "createStep", "schedule"}
Building  == {"list", "recover", "snapshot", "failStep"}
Locked    == {"attempt", "createRun", "createStep"}

WorkerPC  == {"none", "load", "claim", "claimStep", "execute", "registerOk",
              "registerFail", "settleOk", "settleFail", "closeOk", "closeFail"}
\* The worker has marked both rows RUNNING and not yet settled its step.
Executing == {"execute", "registerOk", "registerFail", "settleOk", "settleFail"}

VARIABLES
  runs, steps,   \* rows of pipeline_runs and pipeline_steps
  artifacts,     \* artifact rows of the run's latest execution
  cached,        \* the service held by lru_cache
  lock,          \* holder of each service's _lock
  worker,        \* thread of each run in _ACTIVE_RUNS
  pc, svc, unit, att, stale, failing,  \* locals of the request threads
  calls, faults, crashes,              \* counters of the three bounds
  rivals                               \* history: two threads built a service at once

rows    == <<runs, steps, artifacts>>
process == <<cached, lock, worker>>
locals  == <<pc, svc, unit, att, stale, failing>>
ghosts  == <<calls, faults, crashes, rivals>>
vars    == <<rows, process, locals, ghosts>>

TypeOK ==
  /\ runs \in [RunIds -> Row] /\ steps \in [RunIds -> Row]
  /\ artifacts \in [RunIds -> 0 .. ArtifactsPerRun]
  /\ cached \in Requests \cup {None}
  /\ lock \in [Requests -> Requests \cup {None}]
  /\ worker \in [RunIds -> WorkerPC]
  /\ pc \in [Requests -> RequestPC]
  /\ svc \in [Requests -> Requests \cup {None}]
  /\ unit \in [Requests -> Units \cup {None}]
  /\ att \in [Requests -> 0 .. MaxCalls]
  /\ stale \in [Requests -> SUBSET RunIds]
  /\ failing \in [Requests -> RunIds \cup {None}]
  /\ calls \in 0 .. MaxCalls /\ faults \in 0 .. MaxFaults /\ crashes \in 0 .. MaxCrashes
  /\ rivals \in BOOLEAN

Init ==
  /\ runs = [r \in RunIds |-> "ABSENT"] /\ steps = [r \in RunIds |-> "ABSENT"]
  /\ artifacts = [r \in RunIds |-> 0]
  /\ cached = None
  /\ lock = [t \in Requests |-> None]
  /\ worker = [r \in RunIds |-> "none"]
  /\ pc = [t \in Requests |-> "idle"]
  /\ svc = [t \in Requests |-> None]
  /\ unit = [t \in Requests |-> None]
  /\ att = [t \in Requests |-> 0]
  /\ stale = [t \in Requests |-> {}]
  /\ failing = [t \in Requests |-> None]
  /\ calls = 0 /\ faults = 0 /\ crashes = 0 /\ rivals = FALSE

-----------------------------------------------------------------------------
(* What start_run and recover_stale_runs read from the store.               *)

\* _has_active_run
\* Bug: only a started run counts as active.
HasActiveRunRunningOnly(u) == \E a \in Attempts : runs[<<u, a>>] = "RUNNING"
HasActiveRun(u) == \E a \in Attempts : runs[<<u, a>>] \in Active

\* _next_attempt: one more than the largest attempt on record, 1 if there is none.
\* Bug: the number of failed attempts is used instead of the largest attempt.
IsNextAttemptByFailures(u, a) ==
  a = Cardinality({b \in Attempts : runs[<<u, b>>] = "FAILED"}) + 1
IsNextAttempt(u, a) ==
  /\ \A b \in Attempts : runs[<<u, b>>] # "ABSENT" => b < a
  /\ a > 1 => runs[<<u, a - 1>>] # "ABSENT"

\* The runs recover_stale_runs acts on, as its list_runs sees them.
StaleRuns == {r \in RunIds : runs[r] = "RUNNING"}

-----------------------------------------------------------------------------
(* Request threads.                                                        *)

Target(t) == <<unit[t], att[t]>>

Goto(t, label) == pc' = [pc EXCEPT ![t] = label]

\* The request ends, with its answer or with an exception.
Return(t) ==
  /\ Goto(t, "idle")
  /\ svc' = [svc EXCEPT ![t] = None]
  /\ unit' = [unit EXCEPT ![t] = None]
  /\ att' = [att EXCEPT ![t] = 0]
  /\ stale' = [stale EXCEPT ![t] = {}]
  /\ failing' = [failing EXCEPT ![t] = None]

\* with self._lock: ... leaves the block.
\* Bug: acquire() without a release on this path.
ReleaseForgotten(t) == UNCHANGED lock
Release(t) == lock' = [s \in Requests |-> IF lock[s] = t THEN None ELSE lock[s]]

Call(t, u, a) ==
  /\ pc[t] = "idle" /\ calls < MaxCalls
  /\ calls' = calls + 1
  /\ unit' = [unit EXCEPT ![t] = u]
  /\ att' = [att EXCEPT ![t] = a]
  /\ Goto(t, "service")
  /\ UNCHANGED <<rows, process, svc, stale, failing, faults, crashes, rivals>>

\* POST .../stages/{stage}/runs; attempt 0 until one is chosen.
CallStart(t, u) == Call(t, u, 0)

\* POST .../runs/{run_id}/retry for a run the page shows.
CallRetry(t, r) == runs[r] # "ABSENT" /\ Call(t, r[1], r[2])

\* Where a request goes once it has a service.
AfterService(t) == IF att[t] = 0 THEN "check" ELSE "retry"

UseCachedService(t) ==
  /\ pc[t] = "service" /\ cached # None
  /\ svc' = [svc EXCEPT ![t] = cached]
  /\ Goto(t, AfterService(t))
  /\ UNCHANGED <<rows, process, unit, att, stale, failing, ghosts>>

\* lru_cache does not hold a lock while it computes: every thread that finds
\* the cache empty builds a service, and so a lock, of its own.
BuildService(t) ==
  /\ pc[t] = "service" /\ cached = None
  /\ svc' = [svc EXCEPT ![t] = t]
  /\ rivals' = (rivals \/ \E o \in Requests : pc[o] \in Building)
  /\ Goto(t, "list")
  /\ UNCHANGED <<rows, process, unit, att, stale, failing, calls, faults, crashes>>

ListStaleRuns(t) ==
  /\ pc[t] = "list"
  /\ stale' = [stale EXCEPT ![t] = StaleRuns]
  /\ Goto(t, "recover")
  /\ UNCHANGED <<rows, process, svc, unit, att, failing, ghosts>>

RecoverRun(t, r) ==
  /\ pc[t] = "recover" /\ r \in stale[t] /\ CanTransition(runs[r], "FAILED")
  /\ runs' = [runs EXCEPT ![r] = "FAILED"]
  /\ stale' = [stale EXCEPT ![t] = @ \ {r}]
  /\ failing' = [failing EXCEPT ![t] = r]
  /\ Goto(t, "snapshot")
  /\ UNCHANGED <<steps, artifacts, process, svc, unit, att, ghosts>>

\* The run ended after it was listed: transition_run raises, no service results.
RecoverRunRaises(t, r) ==
  /\ pc[t] = "recover" /\ r \in stale[t] /\ ~CanTransition(runs[r], "FAILED")
  /\ Return(t)
  /\ UNCHANGED <<rows, process, ghosts>>

ReadStaleSteps(t) ==
  /\ pc[t] = "snapshot"
  /\ Goto(t, IF steps[failing[t]] = "RUNNING" THEN "failStep" ELSE "recover")
  /\ UNCHANGED <<rows, process, svc, unit, att, stale, failing, ghosts>>

RecoverStep(t) ==
  /\ pc[t] = "failStep" /\ CanTransition(steps[failing[t]], "FAILED")
  /\ steps' = [steps EXCEPT ![failing[t]] = "FAILED"]
  /\ Goto(t, "recover")
  /\ UNCHANGED <<runs, artifacts, process, svc, unit, att, stale, failing, ghosts>>

RecoverStepRaises(t) ==
  /\ pc[t] = "failStep" /\ ~CanTransition(steps[failing[t]], "FAILED")
  /\ Return(t)
  /\ UNCHANGED <<rows, process, ghosts>>

\* The first service to be complete is the one that is cached.
CacheService(t) ==
  /\ pc[t] = "recover" /\ stale[t] = {}
  /\ cached' = IF cached = None THEN t ELSE cached
  /\ Goto(t, AfterService(t))
  /\ UNCHANGED <<rows, lock, worker, svc, unit, att, stale, failing, ghosts>>

\* retry_run reads the run it is asked to repeat before start_run locks.
RetryAccepted(t) ==
  /\ pc[t] = "retry"
  /\ runs[Target(t)] \in TerminalFailure /\ steps[Target(t)] # "ABSENT"
  /\ Goto(t, "check")
  /\ UNCHANGED <<rows, process, svc, unit, att, stale, failing, ghosts>>

RetryRefused(t) ==
  /\ pc[t] = "retry"
  /\ runs[Target(t)] \notin TerminalFailure \/ steps[Target(t)] = "ABSENT"
  /\ Return(t)
  /\ UNCHANGED <<rows, process, ghosts>>

\* check_prerequisites looks at files no action of this module changes.
PrerequisiteMissing(t) ==
  /\ pc[t] = "check"
  /\ Return(t)
  /\ UNCHANGED <<rows, process, ghosts>>

PrerequisitesMet(t) ==
  /\ pc[t] = "check"
  /\ Goto(t, "enter")
  /\ UNCHANGED <<rows, process, svc, unit, att, stale, failing, ghosts>>

\* The lock is taken, an active run found, the lock given back: DuplicateRunError.
RefuseDuplicate(t) ==
  /\ pc[t] = "enter" /\ lock[svc[t]] = None /\ HasActiveRun(unit[t])
  /\ Return(t)
  /\ UNCHANGED <<rows, process, ghosts>>

\* Bug: the duplicate check is made without taking the lock.
EnterLockUnlocked(t) ==
  /\ pc[t] = "enter" /\ ~HasActiveRun(unit[t])
  /\ Goto(t, "attempt")
  /\ UNCHANGED <<rows, process, svc, unit, att, stale, failing, ghosts>>
EnterLock(t) ==
  /\ pc[t] = "enter" /\ lock[svc[t]] = None /\ ~HasActiveRun(unit[t])
  /\ lock' = [lock EXCEPT ![svc[t]] = t]
  /\ Goto(t, "attempt")
  /\ UNCHANGED <<rows, cached, worker, svc, unit, att, stale, failing, ghosts>>

ChooseAttempt(t) ==
  /\ pc[t] = "attempt"
  /\ \E a \in Attempts : IsNextAttempt(unit[t], a) /\ att' = [att EXCEPT ![t] = a]
  /\ Goto(t, "createRun")
  /\ UNCHANGED <<rows, process, svc, unit, stale, failing, ghosts>>

CreateRun(t) ==
  /\ pc[t] = "createRun"
  /\ runs' = [runs EXCEPT ![Target(t)] = Insert(@)]
  /\ Goto(t, "createStep")
  /\ UNCHANGED <<steps, artifacts, process, svc, unit, att, stale, failing, ghosts>>

CreateStep(t) ==
  /\ pc[t] = "createStep"
  /\ steps' = [steps EXCEPT ![Target(t)] = Insert(@)]
  /\ Release(t)
  /\ Goto(t, "schedule")
  /\ UNCHANGED <<runs, artifacts, cached, worker, svc, unit, att, stale, failing, ghosts>>

\* schedule_run_execution starts a thread unless _ACTIVE_RUNS has the run.
Schedule(t) ==
  /\ pc[t] = "schedule"
  /\ worker' = [worker EXCEPT ![Target(t)] = IF @ = "none" THEN "load" ELSE @]
  /\ Return(t)
  /\ UNCHANGED <<rows, cached, lock, ghosts>>

AtDatabaseCall(t) ==
  \/ pc[t] \in {"list", "snapshot", "failStep", "retry", "attempt",
                "createRun", "createStep", "schedule"}
  \/ pc[t] = "recover" /\ stale[t] # {}

\* A database call of the request raises; with-blocks release what they hold.
RequestFault(t) ==
  /\ AtDatabaseCall(t) /\ faults < MaxFaults
  /\ faults' = faults + 1
  /\ Release(t)
  /\ Return(t)
  /\ UNCHANGED <<rows, cached, worker, calls, crashes, rivals>>

-----------------------------------------------------------------------------
(* Worker threads: execute_run.                                            *)

Advance(r, label) == worker' = [worker EXCEPT ![r] = label]

\* A run that is over is left alone; one without a step row raises.
Resumable(r) ==
  /\ runs[r] \notin {"ABSENT", "SUCCEEDED", "FAILED", "CANCELLED"}
  /\ steps[r] # "ABSENT"

LoadRun(r) ==
  /\ worker[r] = "load"
  /\ Advance(r, IF Resumable(r) THEN "claim" ELSE "none")
  /\ UNCHANGED <<rows, cached, lock, locals, ghosts>>

\* transition_run: the thread dies where the transition is refused.
MoveRun(r, target, label) ==
  IF CanTransition(runs[r], target)
  THEN runs' = [runs EXCEPT ![r] = target] /\ Advance(r, label)
  ELSE UNCHANGED runs /\ Advance(r, "none")

MoveStep(r, target, label) ==
  IF CanTransition(steps[r], target)
  THEN steps' = [steps EXCEPT ![r] = target] /\ Advance(r, label)
  ELSE UNCHANGED steps /\ Advance(r, "none")

ClaimRun(r) ==
  /\ worker[r] = "claim"
  /\ MoveRun(r, "RUNNING", "claimStep")
  /\ UNCHANGED <<steps, artifacts, cached, lock, locals, ghosts>>

ClaimStep(r) ==
  /\ worker[r] = "claimStep"
  /\ MoveStep(r, "RUNNING", "execute")
  /\ UNCHANGED <<runs, artifacts, cached, lock, locals, ghosts>>

\* stage.execute: a result with or without an error; a failed result may
\* carry artifacts too (kfia_reference_bronze with quarantined rows).
ExecuteStage(r) ==
  /\ worker[r] = "execute"
  /\ artifacts' = [artifacts EXCEPT ![r] = 0]
  /\ \E label \in {"registerOk", "registerFail", "settleFail"} : Advance(r, label)
  /\ UNCHANGED <<runs, steps, cached, lock, locals, ghosts>>

\* Bug: off by one, an artifact is registered once more.
RegisterArtifactTwice(r) ==
  /\ worker[r] \in {"registerOk", "registerFail"}
  /\ artifacts' = [artifacts EXCEPT ![r] = @ + 1]
  /\ Advance(r, IF artifacts[r] < ArtifactsPerRun THEN worker[r]
                ELSE IF worker[r] = "registerOk" THEN "settleOk" ELSE "settleFail")
  /\ UNCHANGED <<runs, steps, cached, lock, locals, ghosts>>
\* Bug: the step is settled after the first artifact.
RegisterArtifactFirstOnly(r) ==
  /\ worker[r] \in {"registerOk", "registerFail"}
  /\ artifacts' = [artifacts EXCEPT ![r] = @ + 1]
  /\ Advance(r, IF worker[r] = "registerOk" THEN "settleOk" ELSE "settleFail")
  /\ UNCHANGED <<runs, steps, cached, lock, locals, ghosts>>
RegisterArtifact(r) ==
  /\ worker[r] \in {"registerOk", "registerFail"} /\ artifacts[r] < ArtifactsPerRun
  /\ artifacts' = [artifacts EXCEPT ![r] = @ + 1]
  /\ Advance(r, IF artifacts'[r] < ArtifactsPerRun THEN worker[r]
                ELSE IF worker[r] = "registerOk" THEN "settleOk" ELSE "settleFail")
  /\ UNCHANGED <<runs, steps, cached, lock, locals, ghosts>>

\* Bug: the step of a failed result is left as it is.
SettleStepSuccessOnly(r) ==
  /\ \/ worker[r] = "settleOk" /\ MoveStep(r, "SUCCEEDED", "closeOk")
     \/ worker[r] = "settleFail" /\ Advance(r, "closeFail") /\ UNCHANGED steps
  /\ UNCHANGED <<runs, artifacts, cached, lock, locals, ghosts>>
SettleStep(r) ==
  /\ \/ worker[r] = "settleOk" /\ MoveStep(r, "SUCCEEDED", "closeOk")
     \/ worker[r] = "settleFail" /\ MoveStep(r, "FAILED", "closeFail")
  /\ UNCHANGED <<runs, artifacts, cached, lock, locals, ghosts>>

\* The last transition; the thread then leaves _ACTIVE_RUNS.
CloseRun(r) ==
  /\ \/ worker[r] = "closeOk" /\ MoveRun(r, "SUCCEEDED", "none")
     \/ worker[r] = "closeFail" /\ MoveRun(r, "FAILED", "none")
  /\ UNCHANGED <<steps, artifacts, cached, lock, locals, ghosts>>

\* execute_run catches nothing: an exception ends the thread and the rows stay.
WorkerFault(r) ==
  /\ worker[r] # "none" /\ faults < MaxFaults
  /\ faults' = faults + 1
  /\ Advance(r, "none")
  /\ UNCHANGED <<rows, cached, lock, locals, calls, crashes, rivals>>

-----------------------------------------------------------------------------
\* The process dies and a new one starts; only the rows survive.
Crash ==
  /\ crashes < MaxCrashes
  /\ crashes' = crashes + 1
  /\ cached' = None
  /\ lock' = [t \in Requests |-> None]
  /\ worker' = [r \in RunIds |-> "none"]
  /\ pc' = [t \in Requests |-> "idle"]
  /\ svc' = [t \in Requests |-> None]
  /\ unit' = [t \in Requests |-> None]
  /\ att' = [t \in Requests |-> 0]
  /\ stale' = [t \in Requests |-> {}]
  /\ failing' = [t \in Requests |-> None]
  /\ UNCHANGED <<rows, calls, faults, rivals>>

\* No call is left within the bound and every thread is done.
Quiet ==
  /\ calls = MaxCalls
  /\ \A t \in Requests : pc[t] = "idle"
  /\ \A r \in RunIds : worker[r] = "none"
  /\ UNCHANGED vars

RequestStep(t) ==
  \/ UseCachedService(t) \/ BuildService(t) \/ ListStaleRuns(t)
  \/ \E r \in RunIds : RecoverRun(t, r) \/ RecoverRunRaises(t, r)
  \/ ReadStaleSteps(t) \/ RecoverStep(t) \/ RecoverStepRaises(t) \/ CacheService(t)
  \/ RetryAccepted(t) \/ RetryRefused(t) \/ PrerequisiteMissing(t) \/ PrerequisitesMet(t)
  \/ RefuseDuplicate(t) \/ EnterLock(t) \/ ChooseAttempt(t)
  \/ CreateRun(t) \/ CreateStep(t) \/ Schedule(t)

WorkerStep(r) ==
  \/ LoadRun(r) \/ ClaimRun(r) \/ ClaimStep(r) \/ ExecuteStage(r)
  \/ RegisterArtifact(r) \/ SettleStep(r) \/ CloseRun(r)

Next ==
  \/ \E t \in Requests :
       \/ \E u \in Units : CallStart(t, u)
       \/ \E r \in RunIds : CallRetry(t, r)
       \/ RequestStep(t) \/ RequestFault(t)
  \/ \E r \in RunIds : WorkerStep(r) \/ WorkerFault(r)
  \/ Crash
  \/ Quiet

Spec == Init /\ [][Next]_vars

\* The operating system schedules every started thread, and a stage ends:
\* it is local file work without waiting.  Nothing obliges a user to call,
\* an exception to be raised or the process to die.
Fairness ==
  /\ \A t \in Requests : WF_vars(RequestStep(t))
  /\ \A r \in RunIds : WF_vars(WorkerStep(r))

FairSpec == Spec /\ Fairness

-----------------------------------------------------------------------------
(* Properties.                                                             *)

\* An attempt is entered only when every earlier attempt of the unit is over,
\* so a unit has at most one active run, whatever the interleaving of double
\* clicks, retries, restarts and failing calls (start_run); as long as no two
\* threads have found the service cache empty at once (get_pipeline_service).
NewestOnlyActive == ~rivals =>
  \A u \in Units : \A a, b \in Attempts :
    (b < a /\ runs[<<u, a>>] # "ABSENT") => runs[<<u, b>>] \in Terminal

\* The rows of a run that has a worker are what the worker last wrote.
Owns(r) ==
  /\ worker[r] \in {"load", "claim"} => runs[r] = "PENDING" /\ steps[r] = "PENDING"
  /\ worker[r] = "claimStep" => runs[r] = "RUNNING" /\ steps[r] = "PENDING"
  /\ worker[r] \in Executing => runs[r] = "RUNNING" /\ steps[r] = "RUNNING"
  /\ worker[r] = "closeOk" => runs[r] = "RUNNING" /\ steps[r] = "SUCCEEDED"
  /\ worker[r] = "closeFail" => runs[r] = "RUNNING" /\ steps[r] = "FAILED"

\* From the moment a run has a worker until the worker is gone, nobody else
\* touches the run's rows (execute_run against recover_stale_runs and other
\* requests); as long as no two services were built at once.
WorkerOwnsRows == ~rivals => \A r \in RunIds : Owns(r)

\* A run recorded as SUCCEEDED has a SUCCEEDED step and all its artifacts,
\* although the three are written in separate transactions (execute_run).
SucceededIsBacked ==
  \A r \in RunIds :
    runs[r] = "SUCCEEDED" => steps[r] = "SUCCEEDED" /\ artifacts[r] = ArtifactsPerRun

\* No step of any thread rewrites a run or step that is over, not even a
\* worker whose run was failed behind its back (validate_status_transition).
TerminalIsFinal ==
  [][\A r \in RunIds : /\ runs[r] \in Terminal => runs'[r] = runs[r]
                       /\ steps[r] \in Terminal => steps'[r] = steps[r]]_vars

LastAttempt(u) == Cardinality({a \in Attempts : runs[<<u, a>>] # "ABSENT"})

Books == [u \in Units |-> [a \in 1 .. LastAttempt(u) |-> runs[<<u, a>>]]]

Ledger == INSTANCE RunLedger WITH ledger <- Books

\* Read as one ledger per unit, the run table behaves as RunLedger says, in every
\* behaviour up to the moment, if it comes, when two services are built at once.
ImplementsLedger ==
  Ledger!LedgerInit /\ [][Ledger!LedgerNext \/ rivals']_Books

\* Every call gets an answer: nobody waits for a lock that is never released,
\* also when calls raise while the lock is held (start_run, get_pipeline_service).
CallsReturn == \A t \in Requests : pc[t] # "idle" ~> pc[t] = "idle"

\* Once exceptions and crashes stop, a run whose rows are its worker's reaches
\* the end, and its step with it, unless a further service that is being built
\* meets it - which takes two threads that build one at once
\* (schedule_run_execution, execute_run).
ScheduledRunSettles ==
  \A r \in RunIds :
    (worker[r] # "none" /\ Owns(r) /\ faults = MaxFaults /\ crashes = MaxCrashes)
      ~> \/ runs[r] \in Terminal /\ steps[r] = runs[r]
         \/ \E t \in Requests : pc[t] \in Building

\* The thread that will go on with a run that is not over.
Attended(r) ==
  \/ worker[r] # "none"
  \/ \E t \in Requests : pc[t] \in {"createStep", "schedule"} /\ Target(t) = r

\* After the recovery of a restarted process, a run that blocks its unit is
\* one somebody is working on: an interrupted run can be repeated.
BlockingRunIsAttended ==
  cached # None => \A r \in RunIds : runs[r] \in Active => Attended(r)
=============================================================================
