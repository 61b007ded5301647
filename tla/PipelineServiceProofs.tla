------------------------ MODULE PipelineServiceProofs ------------------------
(***************************************************************************)
(* Theorems about PipelineService for every set of request threads and     *)
(* units and every value of the bounds.                                    *)
(***************************************************************************)
EXTENDS PipelineService, FiniteSetTheorems, SequenceTheorems, WellFoundedInduction, TLAPS

-----------------------------------------------------------------------------
(* The parts of the inductive invariants.                                  *)

\* A request past its call has a unit, and where it names a run, the run's id.
ControlInv ==
  \A t \in Requests :
    /\ pc[t] # "idle" => unit[t] \in Units
    /\ pc[t] \in {"retry", "createRun", "createStep", "schedule"} => att[t] \in Attempts
    /\ pc[t] \in {"snapshot", "failStep"} => failing[t] \in RunIds

\* While no two threads built a service at once, the process has one service.
ServiceInv ==
  /\ \A t \in Requests :
       /\ pc[t] \in Building => cached = None /\ svc[t] = t
       /\ pc[t] \in {"retry", "check", "enter", "schedule"} \cup Locked => cached # None /\ svc[t] = cached
  /\ \A t, o \in Requests : pc[t] \in Building /\ pc[o] \in Building => t = o

LockInv ==
  \A t \in Requests : pc[t] \in Locked => svc[t] \in Requests /\ lock[svc[t]] = t

\* What the duplicate check and the choice of the attempt have established
\* still holds when they are used.
CheckInv ==
  \A t \in Requests :
    /\ pc[t] = "attempt" => ~HasActiveRun(unit[t])
    /\ pc[t] = "createRun" =>
         \A b \in Attempts :
           /\ b < att[t] => runs[<<unit[t], b>>] \in Terminal
           /\ ~(b < att[t]) => runs[<<unit[t], b>>] = "ABSENT"

\* What NewestOnlyActive says of a behaviour without rivals.
Newest ==
  \A u \in Units : \A a, b \in Attempts :
    (b < a /\ runs[<<u, a>>] # "ABSENT") => runs[<<u, b>>] \in Terminal

ClaimInv == TypeOK /\ ControlInv /\ ServiceInv /\ LockInv /\ CheckInv /\ Newest

\* Workers exist only in a process that has a service; a request that has not
\* yet scheduled its run is the only one to know it.
OwnerInv ==
  /\ cached = None => \A r \in RunIds : worker[r] = "none"
  /\ \A r \in RunIds : runs[r] = "ABSENT" => steps[r] = "ABSENT"
  /\ \A t \in Requests :
       /\ pc[t] = "createStep" =>
            runs[Target(t)] = "PENDING" /\ steps[Target(t)] = "ABSENT" /\ worker[Target(t)] = "none"
       /\ pc[t] = "schedule" =>
            runs[Target(t)] = "PENDING" /\ steps[Target(t)] = "PENDING" /\ worker[Target(t)] = "none"
  /\ \A t, o \in Requests :
       (pc[t] \in {"createStep", "schedule"} /\ pc[o] \in {"createStep", "schedule"}
         /\ Target(t) = Target(o)) => t = o

\* What WorkerOwnsRows says of a behaviour without rivals.
Owned == \A r \in RunIds : Owns(r)

OwnershipInv == ClaimInv /\ OwnerInv /\ Owned

\* What a successful worker has written so far stays written.
BackingInv ==
  \A r \in RunIds :
    /\ runs[r] = "SUCCEEDED" => worker[r] \in {"none", "load"}
    /\ worker[r] \in {"settleOk", "closeOk"} => artifacts[r] = ArtifactsPerRun
    /\ worker[r] = "closeOk" => steps[r] = "SUCCEEDED"
-----------------------------------------------------------------------------
(* Types.                                                                  *)

LEMMA TypeInit == Init => TypeOK
  <1> SUFFICES ASSUME Init
               PROVE  TypeOK
    OBVIOUS
  <1>1. rivals \in BOOLEAN
    BY DEF Init
  <1>2. QED
    BY <1>1, ArtifactsAssumption, BoundsAssumption
    DEF Init, TypeOK, Row, RequestPC, WorkerPC

LEMMA RequestStepType ==
  ASSUME TypeOK, NEW t \in Requests, RequestStep(t)
  PROVE  TypeOK'
  <1> USE DEF TypeOK
  <1>1. CASE UseCachedService(t)
    BY <1>1 DEF UseCachedService, AfterService, Goto, rows, process, ghosts, RequestPC
  <1>2. CASE BuildService(t)
    BY <1>2 DEF BuildService, Goto, rows, process, ghosts, RequestPC
  <1>3. CASE ListStaleRuns(t)
    BY <1>3 DEF ListStaleRuns, StaleRuns, Goto, rows, process, ghosts, RequestPC
  <1>4. ASSUME NEW r \in RunIds, RecoverRun(t, r)
        PROVE  TypeOK'
    BY <1>4 DEF RecoverRun, Goto, process, ghosts, RequestPC, Row, Status, Terminal
  <1>5. ASSUME NEW r \in RunIds, RecoverRunRaises(t, r)
        PROVE  TypeOK'
    BY <1>5, BoundsAssumption DEF RecoverRunRaises, Return, Goto, rows, process, ghosts, RequestPC
  <1>6. CASE ReadStaleSteps(t)
    BY <1>6 DEF ReadStaleSteps, Goto, rows, process, ghosts, RequestPC
  <1>7. CASE RecoverStep(t)
    BY <1>7 DEF RecoverStep, Goto, process, ghosts, RequestPC, Row, Status, Terminal
  <1>8. CASE RecoverStepRaises(t)
    BY <1>8, BoundsAssumption DEF RecoverStepRaises, Return, Goto, rows, process, ghosts, RequestPC
  <1>9. CASE CacheService(t)
    BY <1>9 DEF CacheService, AfterService, Goto, rows, ghosts, RequestPC
  <1>10. CASE RetryAccepted(t)
    BY <1>10 DEF RetryAccepted, Goto, rows, process, ghosts, RequestPC
  <1>11. CASE RetryRefused(t)
    BY <1>11, BoundsAssumption DEF RetryRefused, Return, Goto, rows, process, ghosts, RequestPC
  <1>12. CASE PrerequisiteMissing(t)
    BY <1>12, BoundsAssumption DEF PrerequisiteMissing, Return, Goto, rows, process, ghosts, RequestPC
  <1>12a. CASE PrerequisitesMet(t)
    BY <1>12a DEF PrerequisitesMet, Goto, rows, process, ghosts, RequestPC
  <1>13. CASE RefuseDuplicate(t)
    BY <1>13, BoundsAssumption DEF RefuseDuplicate, Return, Goto, rows, process, ghosts, RequestPC
  <1>14. CASE EnterLock(t)
    BY <1>14 DEF EnterLock, Goto, rows, ghosts, RequestPC
  <1>15. CASE ChooseAttempt(t)
    BY <1>15, BoundsAssumption DEF ChooseAttempt, Attempts, Goto, rows, process, ghosts, RequestPC
  <1>16. CASE CreateRun(t)
    BY <1>16 DEF CreateRun, Insert, Row, Status, Active, Goto, process, ghosts, RequestPC
  <1>17. CASE CreateStep(t)
    BY <1>17 DEF CreateStep, Release, Insert, Row, Status, Active, Goto, ghosts, RequestPC
  <1>18. CASE Schedule(t)
    <2>1. worker' \in [RunIds -> WorkerPC]
      <3>1. "load" \in WorkerPC
        BY DEF WorkerPC
      <3>2. QED
        BY <1>18, <3>1 DEF Schedule
    <2>2. QED
      BY <1>18, <2>1, BoundsAssumption DEF Schedule, Return, Goto, rows, ghosts, RequestPC
  <1>19. QED
    BY <1>1, <1>2, <1>3, <1>4, <1>5, <1>6, <1>7, <1>8, <1>9, <1>10, <1>11, <1>12,
       <1>12a, <1>13, <1>14, <1>15, <1>16, <1>17, <1>18, RequestStep(t) DEF RequestStep

LEMMA WorkerStepType ==
  ASSUME TypeOK, NEW r \in RunIds, WorkerStep(r)
  PROVE  TypeOK'
  <1> USE DEF TypeOK, Advance
  <1>1. CASE LoadRun(r)
    BY <1>1 DEF LoadRun, rows, locals, ghosts, WorkerPC
  <1>2. CASE ClaimRun(r)
    BY <1>2 DEF ClaimRun, MoveRun, locals, ghosts, WorkerPC, Row, Status, Active
  <1>3. CASE ClaimStep(r)
    BY <1>3 DEF ClaimStep, MoveStep, locals, ghosts, WorkerPC, Row, Status, Active
  <1>4. CASE ExecuteStage(r)
    BY <1>4, ArtifactsAssumption DEF ExecuteStage, locals, ghosts, WorkerPC
  <1>5. CASE RegisterArtifact(r)
    BY <1>5, ArtifactsAssumption DEF RegisterArtifact, locals, ghosts, WorkerPC
  <1>6. CASE SettleStep(r)
    BY <1>6 DEF SettleStep, MoveStep, locals, ghosts, WorkerPC, Row, Status, Terminal
  <1>7. CASE CloseRun(r)
    BY <1>7 DEF CloseRun, MoveRun, locals, ghosts, WorkerPC, Row, Status, Terminal
  <1>8. QED
    BY <1>1, <1>2, <1>3, <1>4, <1>5, <1>6, <1>7, WorkerStep(r) DEF WorkerStep

LEMMA TypeStep == TypeOK /\ [Next]_vars => TypeOK'
  <1> SUFFICES ASSUME TypeOK, [Next]_vars
               PROVE  TypeOK'
    OBVIOUS
  <1> USE DEF TypeOK
  <1>1. ASSUME NEW t \in Requests, NEW u \in Units, CallStart(t, u)
        PROVE  TypeOK'
    BY <1>1, BoundsAssumption DEF CallStart, Call, Goto, rows, process, RequestPC
  <1>2. ASSUME NEW t \in Requests, NEW r \in RunIds, CallRetry(t, r)
        PROVE  TypeOK'
    BY <1>2, BoundsAssumption DEF CallRetry, Call, Goto, rows, process, RequestPC, RunIds, Attempts
  <1>3. ASSUME NEW t \in Requests, RequestStep(t)
        PROVE  TypeOK'
    BY <1>3, RequestStepType
  <1>4. ASSUME NEW t \in Requests, RequestFault(t)
        PROVE  TypeOK'
    BY <1>4, BoundsAssumption DEF RequestFault, Release, Return, Goto, rows, RequestPC
  <1>5. ASSUME NEW r \in RunIds, WorkerStep(r)
        PROVE  TypeOK'
    BY <1>5, WorkerStepType
  <1>6. ASSUME NEW r \in RunIds, WorkerFault(r)
        PROVE  TypeOK'
    BY <1>6, BoundsAssumption DEF WorkerFault, Advance, rows, locals, WorkerPC
  <1>7. CASE Crash
    BY <1>7, BoundsAssumption DEF Crash, rows, RequestPC, WorkerPC
  <1>8. CASE UNCHANGED vars
    BY <1>8 DEF vars, rows, process, locals, ghosts
  <1>9. QED
    BY <1>1, <1>2, <1>3, <1>4, <1>5, <1>6, <1>7, <1>8 DEF Next, Quiet

\* Every variable keeps its type in every behaviour (all handlers).
THEOREM TypeCorrect == Spec => []TypeOK
  BY TypeInit, TypeStep, PTL DEF Spec

-----------------------------------------------------------------------------
(* What a step does to the rows.                                           *)

LEMMA Transitions ==
  \A s \in Row :
    /\ CanTransition(s, "RUNNING") <=> s \in Active
    /\ CanTransition(s, "FAILED") <=> s \in {"RUNNING", "FAILED"}
    /\ CanTransition(s, "SUCCEEDED") <=> s \in {"RUNNING", "SUCCEEDED"}
  <1> TAKE s \in Row
  <1>1. CASE s = "ABSENT"
    BY <1>1 DEF CanTransition, Status, Active, Terminal
  <1>2. CASE s = "PENDING"
    BY <1>2 DEF CanTransition, AllowedTransitions, Status, Active, Terminal
  <1>3. CASE s = "RUNNING"
    BY <1>3 DEF CanTransition, AllowedTransitions, Status, Active, Terminal
  <1>4. CASE s \in Terminal
    BY <1>4 DEF CanTransition, AllowedTransitions, Status, Active, Terminal
  <1>5. QED
    BY <1>1, <1>2, <1>3, <1>4 DEF Row, Status, Active

\* A step of request t: a row appears, or recovery fails a RUNNING one, or a
\* worker starts.
RequestEffect(t) ==
  /\ artifacts' = artifacts
  /\ \A r \in RunIds :
       /\ \/ runs'[r] = runs[r]
          \/ runs[r] = "ABSENT" /\ runs'[r] = "PENDING" /\ CreateRun(t) /\ r = Target(t)
          \/ runs[r] = "RUNNING" /\ runs'[r] = "FAILED" /\ pc[t] = "recover"
       /\ \/ steps'[r] = steps[r]
          \/ steps[r] = "ABSENT" /\ steps'[r] = "PENDING" /\ CreateStep(t) /\ r = Target(t)
          \/ steps[r] = "RUNNING" /\ steps'[r] = "FAILED" /\ pc[t] = "failStep"
       /\ \/ worker'[r] = worker[r]
          \/ worker[r] = "none" /\ worker'[r] = "load" /\ Schedule(t) /\ r = Target(t)

RequestAction(t) ==
  \/ \E u \in Units : CallStart(t, u)
  \/ \E r \in RunIds : CallRetry(t, r)
  \/ RequestStep(t) \/ RequestFault(t)

LEMMA RequestRows ==
  ASSUME TypeOK, NEW t \in Requests, RequestAction(t)
  PROVE  RequestEffect(t)
  <1>1. ASSUME NEW u \in Units, CallStart(t, u)
        PROVE  RequestEffect(t)
    BY <1>1 DEF CallStart, Call, rows, process, RequestEffect
  <1>2. ASSUME NEW r \in RunIds, CallRetry(t, r)
        PROVE  RequestEffect(t)
    BY <1>2 DEF CallRetry, Call, rows, process, RequestEffect
  <1>3. CASE RequestFault(t)
    BY <1>3 DEF RequestFault, rows, RequestEffect
  <1>4. ASSUME NEW r \in RunIds, RecoverRun(t, r)
        PROVE  RequestEffect(t)
    BY <1>4, Transitions DEF RecoverRun, process, RequestEffect, TypeOK
  <1>5. CASE RecoverStep(t)
    BY <1>5, Transitions DEF RecoverStep, process, RequestEffect, TypeOK
  <1>6. CASE CreateRun(t)
    BY <1>6 DEF CreateRun, Insert, process, RequestEffect, TypeOK
  <1>7. CASE CreateStep(t)
    BY <1>7 DEF CreateStep, Insert, RequestEffect, TypeOK
  <1>8. CASE Schedule(t)
    BY <1>8 DEF Schedule, rows, RequestEffect, TypeOK
  <1>9. ASSUME UNCHANGED <<rows, worker>>
        PROVE  RequestEffect(t)
    BY <1>9 DEF rows, RequestEffect
  <1>10. ASSUME NEW r \in RunIds, RecoverRunRaises(t, r)
         PROVE  RequestEffect(t)
    BY <1>9, <1>10 DEF RecoverRunRaises, process
  <1>11. CASE \/ UseCachedService(t) \/ BuildService(t) \/ ListStaleRuns(t)
              \/ ReadStaleSteps(t) \/ RecoverStepRaises(t) \/ CacheService(t)
    BY <1>9, <1>11 DEF UseCachedService, BuildService, ListStaleRuns, ReadStaleSteps,
         RecoverStepRaises, CacheService, process
  <1>12. CASE \/ RetryAccepted(t) \/ RetryRefused(t) \/ PrerequisiteMissing(t)
              \/ PrerequisitesMet(t) \/ RefuseDuplicate(t) \/ EnterLock(t) \/ ChooseAttempt(t)
    BY <1>9, <1>12 DEF RetryAccepted, RetryRefused, PrerequisiteMissing, PrerequisitesMet, RefuseDuplicate,
         EnterLock, ChooseAttempt, process
  <1>13. QED
    BY <1>1, <1>2, <1>3, <1>4, <1>5, <1>6, <1>7, <1>8, <1>10, <1>11, <1>12,
       RequestAction(t) DEF RequestAction, RequestStep

\* A step of the worker of r touches the rows of r only, along the table.
WorkerEffect(r) ==
  /\ UNCHANGED <<cached, lock, locals>>
  /\ \A q \in RunIds \ {r} :
       runs'[q] = runs[q] /\ steps'[q] = steps[q] /\ artifacts'[q] = artifacts[q] /\ worker'[q] = worker[q]
  /\ worker[r] # "none"
  /\ runs'[r] = runs[r] \/ (runs[r] \in Active /\ runs'[r] \in Status)
  /\ steps'[r] = steps[r] \/ (steps[r] \in Active /\ steps'[r] \in Status)

LEMMA WorkerRows ==
  ASSUME TypeOK, NEW r \in RunIds, WorkerStep(r) \/ WorkerFault(r)
  PROVE  WorkerEffect(r)
  <1> USE DEF WorkerEffect, TypeOK, Advance
  <1>1. CASE LoadRun(r)
    BY <1>1 DEF LoadRun, rows
  <1>2. CASE ClaimRun(r)
    BY <1>2, Transitions DEF ClaimRun, MoveRun, Status, Active
  <1>3. CASE ClaimStep(r)
    BY <1>3, Transitions DEF ClaimStep, MoveStep, Status, Active
  <1>4. CASE ExecuteStage(r)
    BY <1>4 DEF ExecuteStage
  <1>5. CASE RegisterArtifact(r)
    BY <1>5 DEF RegisterArtifact
  <1>6. CASE SettleStep(r)
    BY <1>6, Transitions DEF SettleStep, MoveStep, Status, Active, Terminal
  <1>7. CASE CloseRun(r)
    BY <1>7, Transitions DEF CloseRun, MoveRun, Status, Active, Terminal
  <1>8. CASE WorkerFault(r)
    BY <1>8 DEF WorkerFault, rows
  <1>9. QED
    BY <1>1, <1>2, <1>3, <1>4, <1>5, <1>6, <1>7, <1>8, WorkerStep(r) \/ WorkerFault(r) DEF WorkerStep

LEMMA NextCases ==
  ASSUME [Next]_vars
  PROVE  \/ \E t \in Requests : RequestAction(t)
         \/ \E r \in RunIds : WorkerStep(r) \/ WorkerFault(r)
         \/ Crash
         \/ UNCHANGED vars
  BY DEF Next, Quiet, RequestAction

-----------------------------------------------------------------------------
(* Final rows and backed successes, however many services there are.       *)

\* No step of any thread rewrites a run or step that is over
\* (validate_status_transition under every caller).
THEOREM TerminalRowsAreFinal == Spec => TerminalIsFinal
  <1> DEFINE Final == \A r \in RunIds : /\ runs[r] \in Terminal => runs'[r] = runs[r]
                                        /\ steps[r] \in Terminal => steps'[r] = steps[r]
  <1>1. ASSUME TypeOK, [Next]_vars
        PROVE  Final
    <2>1. ASSUME NEW t \in Requests, RequestAction(t)
          PROVE  Final
      BY <1>1, <2>1, RequestRows DEF RequestEffect, Terminal
    <2>2. ASSUME NEW r \in RunIds, WorkerStep(r) \/ WorkerFault(r)
          PROVE  Final
      BY <1>1, <2>2, WorkerRows DEF WorkerEffect, Terminal, Active
    <2>3. CASE Crash \/ UNCHANGED vars
      BY <2>3 DEF Crash, vars, rows
    <2>4. QED
      BY <1>1, <2>1, <2>2, <2>3, NextCases
  <1>2. TypeOK /\ [Next]_vars => [Final]_vars
    BY <1>1
  <1>3. QED
    BY <1>2, TypeCorrect, PTL DEF Spec, TerminalIsFinal

LEMMA BackingStep ==
  ASSUME TypeOK, BackingInv, SucceededIsBacked, [Next]_vars
  PROVE  BackingInv' /\ SucceededIsBacked'
  <1> DEFINE Backed(r) ==
        /\ runs[r] = "SUCCEEDED" =>
             worker[r] \in {"none", "load"} /\ steps[r] = "SUCCEEDED" /\ artifacts[r] = ArtifactsPerRun
        /\ worker[r] \in {"settleOk", "closeOk"} => artifacts[r] = ArtifactsPerRun
        /\ worker[r] = "closeOk" => steps[r] = "SUCCEEDED"
  <1>a. \A r \in RunIds : Backed(r)
    BY DEF BackingInv, SucceededIsBacked
  <1>b. SUFFICES ASSUME NEW r \in RunIds
                 PROVE  Backed(r)'
    BY DEF BackingInv, SucceededIsBacked
  <1>c. Backed(r)
    BY <1>a
  <1>1. ASSUME NEW t \in Requests, RequestAction(t)
        PROVE  Backed(r)'
    BY <1>1, <1>c, RequestRows DEF RequestEffect
  <1>2. ASSUME NEW q \in RunIds \ {r}, WorkerStep(q) \/ WorkerFault(q)
        PROVE  Backed(r)'
    BY <1>2, <1>c, WorkerRows DEF WorkerEffect
  <1>3. CASE WorkerFault(r)
    BY <1>3, <1>c DEF WorkerFault, Advance, rows, TypeOK
  <1>4. CASE WorkerStep(r)
    <2> USE DEF TypeOK, Advance
    <2>1. CASE LoadRun(r)
      BY <1>c, <2>1 DEF LoadRun, Resumable, rows
    <2>2. CASE ClaimRun(r)
      BY <1>c, <2>2 DEF ClaimRun, MoveRun
    <2>3. CASE ClaimStep(r)
      BY <1>c, <2>3 DEF ClaimStep, MoveStep
    <2>4. CASE ExecuteStage(r)
      BY <1>c, <2>4 DEF ExecuteStage
    <2>5. CASE RegisterArtifact(r)
      BY <1>c, <2>5, ArtifactsAssumption DEF RegisterArtifact
    <2>6. CASE SettleStep(r)
      BY <1>c, <2>6 DEF SettleStep, MoveStep
    <2>7. CASE CloseRun(r)
      BY <1>c, <2>7 DEF CloseRun, MoveRun
    <2>8. QED
      BY <1>4, <2>1, <2>2, <2>3, <2>4, <2>5, <2>6, <2>7 DEF WorkerStep
  <1>5. CASE Crash
    BY <1>5, <1>c DEF Crash, rows
  <1>6. CASE UNCHANGED vars
    BY <1>6, <1>c DEF vars, rows, process
  <1>7. QED
    BY <1>1, <1>2, <1>3, <1>4, <1>5, <1>6, NextCases

\* A run recorded as SUCCEEDED has a SUCCEEDED step and all its artifacts,
\* however many services raced to recover the database (execute_run).
THEOREM SuccessIsBacked == Spec => []SucceededIsBacked
  <1>1. Init => BackingInv /\ SucceededIsBacked
    BY DEF Init, BackingInv, SucceededIsBacked
  <1>2. TypeOK /\ BackingInv /\ SucceededIsBacked /\ [Next]_vars
          => (BackingInv /\ SucceededIsBacked)'
    BY BackingStep
  <1>3. QED
    BY <1>1, <1>2, TypeCorrect, PTL DEF Spec

-----------------------------------------------------------------------------
(* One active run per unit, when a cold service is built by one thread.    *)

\* A request changes its own locals only.
OthersKept(t) ==
  \A o \in Requests \ {t} :
    /\ pc'[o] = pc[o] /\ svc'[o] = svc[o] /\ unit'[o] = unit[o] /\ att'[o] = att[o]
    /\ stale'[o] = stale[o] /\ failing'[o] = failing[o]

LEMMA RequestLocals ==
  ASSUME TypeOK, NEW t \in Requests, RequestAction(t)
  PROVE  OthersKept(t)
  <1> USE DEF OthersKept, TypeOK, Goto, Return
  <1>1. ASSUME NEW u \in Units, CallStart(t, u)
        PROVE  OthersKept(t)
    BY <1>1 DEF CallStart, Call
  <1>2. ASSUME NEW r \in RunIds, CallRetry(t, r)
        PROVE  OthersKept(t)
    BY <1>2 DEF CallRetry, Call
  <1>3. CASE RequestFault(t)
    BY <1>3 DEF RequestFault
  <1>4. ASSUME NEW r \in RunIds, RecoverRun(t, r) \/ RecoverRunRaises(t, r)
        PROVE  OthersKept(t)
    BY <1>4 DEF RecoverRun, RecoverRunRaises
  <1>5. CASE UseCachedService(t) \/ BuildService(t) \/ ListStaleRuns(t)
    BY <1>5 DEF UseCachedService, BuildService, ListStaleRuns
  <1>6. CASE ReadStaleSteps(t) \/ RecoverStep(t) \/ RecoverStepRaises(t)
    BY <1>6 DEF ReadStaleSteps, RecoverStep, RecoverStepRaises
  <1>7. CASE CacheService(t) \/ RetryAccepted(t) \/ RetryRefused(t)
    BY <1>7 DEF CacheService, RetryAccepted, RetryRefused
  <1>8. CASE PrerequisiteMissing(t) \/ PrerequisitesMet(t) \/ RefuseDuplicate(t) \/ EnterLock(t)
    BY <1>8 DEF PrerequisiteMissing, PrerequisitesMet, RefuseDuplicate, EnterLock
  <1>9. CASE ChooseAttempt(t) \/ CreateRun(t)
    BY <1>9 DEF ChooseAttempt, CreateRun
  <1>10. CASE CreateStep(t) \/ Schedule(t)
    BY <1>10 DEF CreateStep, Schedule
  <1>11. QED
    BY <1>1, <1>2, <1>3, <1>4, <1>5, <1>6, <1>7, <1>8, <1>9, <1>10,
       RequestAction(t) DEF RequestAction, RequestStep

LEMMA ControlStep ==
  ASSUME TypeOK, ControlInv, [Next]_vars
  PROVE  ControlInv'
  <1> DEFINE Control(t) ==
        /\ pc[t] # "idle" => unit[t] \in Units
        /\ pc[t] \in {"retry", "createRun", "createStep", "schedule"} => att[t] \in Attempts
        /\ pc[t] \in {"snapshot", "failStep"} => failing[t] \in RunIds
  <1>a. \A t \in Requests : Control(t)
    BY DEF ControlInv
  <1>b. SUFFICES ASSUME NEW o \in Requests
                 PROVE  Control(o)'
    BY DEF ControlInv
  <1>c. Control(o)
    BY <1>a
  <1>1. ASSUME NEW t \in Requests \ {o}, RequestAction(t)
        PROVE  Control(o)'
    BY <1>1, <1>c, RequestLocals DEF OthersKept
  <1>2. CASE RequestAction(o)
    <2> USE DEF TypeOK, Goto, Return
    <2>1. ASSUME NEW u \in Units, CallStart(o, u)
          PROVE  Control(o)'
      BY <2>1 DEF CallStart, Call
    <2>2. ASSUME NEW r \in RunIds, CallRetry(o, r)
          PROVE  Control(o)'
      BY <2>2 DEF CallRetry, Call, RunIds
    <2>3. CASE RequestFault(o)
      BY <2>3 DEF RequestFault
    <2>4. ASSUME NEW r \in RunIds, RecoverRun(o, r) \/ RecoverRunRaises(o, r)
          PROVE  Control(o)'
      BY <1>c, <2>4 DEF RecoverRun, RecoverRunRaises
    <2>5. CASE BuildService(o) \/ ListStaleRuns(o)
      BY <1>c, <2>5 DEF BuildService, ListStaleRuns
    <2>6. CASE ReadStaleSteps(o) \/ RecoverStep(o) \/ RecoverStepRaises(o)
      BY <1>c, <2>6 DEF ReadStaleSteps, RecoverStep, RecoverStepRaises
    <2>7. CASE UseCachedService(o) \/ CacheService(o)
      BY <1>c, <2>7, BoundsAssumption DEF UseCachedService, CacheService, AfterService, Attempts
    <2>8. CASE RetryAccepted(o) \/ RetryRefused(o)
      BY <1>c, <2>8 DEF RetryAccepted, RetryRefused
    <2>9. CASE PrerequisiteMissing(o) \/ PrerequisitesMet(o) \/ RefuseDuplicate(o) \/ EnterLock(o)
      BY <1>c, <2>9 DEF PrerequisiteMissing, PrerequisitesMet, RefuseDuplicate, EnterLock
    <2>10. CASE ChooseAttempt(o) \/ CreateRun(o)
      BY <1>c, <2>10 DEF ChooseAttempt, CreateRun
    <2>11. CASE CreateStep(o) \/ Schedule(o)
      BY <1>c, <2>11 DEF CreateStep, Schedule
    <2>12. QED
      BY <1>2, <2>1, <2>2, <2>3, <2>4, <2>5, <2>6, <2>7, <2>8, <2>9, <2>10, <2>11
         DEF RequestAction, RequestStep
  <1>3. ASSUME NEW r \in RunIds, WorkerStep(r) \/ WorkerFault(r)
        PROVE  Control(o)'
    BY <1>3, <1>c, WorkerRows DEF WorkerEffect, locals
  <1>4. CASE Crash
    BY <1>4 DEF Crash
  <1>5. CASE UNCHANGED vars
    BY <1>5, <1>c DEF vars, locals
  <1>6. QED
    BY <1>1, <1>2, <1>3, <1>4, <1>5, NextCases

LEMMA NoBuilder ==
  ASSUME ~rivals', NEW t \in Requests, BuildService(t)
  PROVE  \A o \in Requests : pc[o] \notin Building
  BY DEF BuildService

LEMMA ServiceStep ==
  ASSUME ~rivals', TypeOK, ServiceInv, [Next]_vars
  PROVE  ServiceInv'
  <1> DEFINE Served == {"retry", "check", "enter", "schedule"} \cup Locked
  <1>1. ASSUME NEW t \in Requests, RequestAction(t)
        PROVE  ServiceInv'
    <2>o. OthersKept(t)
      BY <1>1, RequestLocals
    <2> USE DEF TypeOK, Goto, Return, ServiceInv, OthersKept, Building, Locked, process
    <2>1. ASSUME NEW u \in Units, CallStart(t, u)
          PROVE  ServiceInv'
      BY <2>o, <2>1 DEF CallStart, Call
    <2>2. ASSUME NEW r \in RunIds, CallRetry(t, r)
          PROVE  ServiceInv'
      BY <2>o, <2>2 DEF CallRetry, Call
    <2>3. CASE RequestFault(t)
      BY <2>o, <2>3 DEF RequestFault
    <2>4. ASSUME NEW r \in RunIds, RecoverRun(t, r) \/ RecoverRunRaises(t, r)
          PROVE  ServiceInv'
      BY <2>o, <2>4 DEF RecoverRun, RecoverRunRaises
    <2>5. CASE BuildService(t)
      BY <2>o, <2>5, NoBuilder DEF BuildService
    <2>6. CASE ListStaleRuns(t)
      BY <2>o, <2>6 DEF ListStaleRuns
    <2>7. CASE ReadStaleSteps(t) \/ RecoverStep(t) \/ RecoverStepRaises(t)
      BY <2>o, <2>7 DEF ReadStaleSteps, RecoverStep, RecoverStepRaises
    <2>8. CASE UseCachedService(t)
      BY <2>o, <2>8 DEF UseCachedService, AfterService
    <2>9. CASE CacheService(t)
      BY <2>o, <2>9, NoneAssumption DEF CacheService, AfterService
    <2>10. CASE RetryAccepted(t) \/ RetryRefused(t)
      BY <2>o, <2>10 DEF RetryAccepted, RetryRefused
    <2>11. CASE PrerequisiteMissing(t) \/ PrerequisitesMet(t) \/ RefuseDuplicate(t) \/ EnterLock(t)
      BY <2>o, <2>11 DEF PrerequisiteMissing, PrerequisitesMet, RefuseDuplicate, EnterLock
    <2>12. CASE ChooseAttempt(t) \/ CreateRun(t)
      BY <2>o, <2>12 DEF ChooseAttempt, CreateRun
    <2>13. CASE CreateStep(t) \/ Schedule(t)
      BY <2>o, <2>13 DEF CreateStep, Schedule
    <2>14. QED
      BY <1>1, <2>1, <2>2, <2>3, <2>4, <2>5, <2>6, <2>7, <2>8, <2>9, <2>10, <2>11, <2>12, <2>13
         DEF RequestAction, RequestStep
  <1>2. ASSUME NEW r \in RunIds, WorkerStep(r) \/ WorkerFault(r)
        PROVE  ServiceInv'
    BY <1>2, WorkerRows DEF WorkerEffect, locals, ServiceInv
  <1>3. CASE Crash
    BY <1>3 DEF Crash, ServiceInv, Building, Locked
  <1>4. CASE UNCHANGED vars
    BY <1>4 DEF vars, locals, process, ServiceInv
  <1>5. QED
    BY <1>1, <1>2, <1>3, <1>4, NextCases

LEMMA LockStep ==
  ASSUME TypeOK, ServiceInv, LockInv, [Next]_vars
  PROVE  LockInv'
  <1> DEFINE Holds(t) == pc[t] \in Locked => svc[t] \in Requests /\ lock[svc[t]] = t
  <1>a. \A t \in Requests : Holds(t)
    BY DEF LockInv
  <1>b. SUFFICES ASSUME NEW o \in Requests
                 PROVE  Holds(o)'
    BY DEF LockInv
  <1>c. Holds(o)
    BY <1>a
  <1>1. ASSUME NEW t \in Requests \ {o}, RequestAction(t)
        PROVE  Holds(o)'
    <2>o. OthersKept(t)
      BY <1>1, RequestLocals
    <2> USE DEF OthersKept, TypeOK, Locked
    <2>1. CASE EnterLock(t)
      BY <1>c, <2>o, <2>1, NoneAssumption DEF EnterLock
    <2>2. CASE CreateStep(t) \/ RequestFault(t)
      BY <1>c, <2>o, <2>2 DEF CreateStep, RequestFault, Release
    <2>3. CASE UNCHANGED lock
      BY <1>c, <2>o, <2>3
    <2>4. QED
      BY <1>1, <2>1, <2>2, <2>3 DEF RequestAction, RequestStep, CallStart, CallRetry, Call,
         UseCachedService, BuildService, ListStaleRuns, RecoverRun, RecoverRunRaises,
         ReadStaleSteps, RecoverStep, RecoverStepRaises, CacheService, RetryAccepted,
         RetryRefused, PrerequisiteMissing, PrerequisitesMet, RefuseDuplicate, ChooseAttempt, CreateRun,
         Schedule, process
  <1>2. CASE RequestAction(o)
    <2> USE DEF TypeOK, Locked, Goto, Return
    <2>1. CASE EnterLock(o)
      BY <1>2, <2>1, NoneAssumption DEF EnterLock, ServiceInv
    <2>2. CASE ChooseAttempt(o) \/ CreateRun(o)
      BY <1>c, <2>2 DEF ChooseAttempt, CreateRun, process
    <2>3. CASE ~(EnterLock(o) \/ ChooseAttempt(o) \/ CreateRun(o))
      <3>1. pc'[o] \notin Locked
        BY <1>2, <2>3 DEF RequestAction, RequestStep, CallStart, CallRetry, Call,
         UseCachedService, BuildService, ListStaleRuns, RecoverRun, RecoverRunRaises,
         ReadStaleSteps, RecoverStep, RecoverStepRaises, CacheService, AfterService, RetryAccepted,
         RetryRefused, PrerequisiteMissing, PrerequisitesMet, RefuseDuplicate, CreateStep, Schedule, RequestFault
      <3>2. QED
        BY <3>1
    <2>4. QED
      BY <2>1, <2>2, <2>3
  <1>3. ASSUME NEW r \in RunIds, WorkerStep(r) \/ WorkerFault(r)
        PROVE  Holds(o)'
    BY <1>3, <1>c, WorkerRows DEF WorkerEffect, locals
  <1>4. CASE Crash
    BY <1>4 DEF Crash, Locked
  <1>5. CASE UNCHANGED vars
    BY <1>5, <1>c DEF vars, locals, process
  <1>6. QED
    BY <1>1, <1>2, <1>3, <1>4, <1>5, NextCases

\* Only CreateRun lets a row appear; every other step moves rows that are active.
RunsKept == \A r \in RunIds : runs'[r] = runs[r] \/ (runs[r] \in Active /\ runs'[r] \in Status)

LEMMA RunsMove ==
  ASSUME TypeOK, [Next]_vars
  PROVE  RunsKept \/ \E t \in Requests : CreateRun(t)
  <1>1. ASSUME NEW t \in Requests, RequestAction(t), ~CreateRun(t)
        PROVE  RunsKept
    BY <1>1, RequestRows DEF RequestEffect, RunsKept, Active, Status, Terminal
  <1>2. ASSUME NEW r \in RunIds, WorkerStep(r) \/ WorkerFault(r)
        PROVE  RunsKept
    BY <1>2, WorkerRows DEF WorkerEffect, RunsKept
  <1>3. CASE Crash \/ UNCHANGED vars
    BY <1>3 DEF Crash, vars, rows, RunsKept
  <1>4. QED
    BY <1>1, <1>2, <1>3, NextCases

\* Two requests never are inside the locked part at once.
LEMMA LockExcludes ==
  ASSUME TypeOK, ServiceInv, LockInv, NEW t \in Requests, NEW o \in Requests,
         pc[t] \in Locked, pc[o] \in Locked
  PROVE  t = o
  BY DEF ServiceInv, LockInv

LEMMA CheckStep ==
  ASSUME TypeOK, ControlInv, ServiceInv, LockInv, CheckInv, Newest, [Next]_vars
  PROVE  CheckInv'
  <1> DEFINE Idle(o) == pc[o] = "attempt" => ~HasActiveRun(unit[o])
             Chosen(o) == pc[o] = "createRun" =>
               \A b \in Attempts :
                 /\ b < att[o] => runs[<<unit[o], b>>] \in Terminal
                 /\ ~(b < att[o]) => runs[<<unit[o], b>>] = "ABSENT"
  <1>a. \A o \in Requests : Idle(o) /\ Chosen(o)
    BY DEF CheckInv
  <1>b. SUFFICES ASSUME NEW o \in Requests
                 PROVE  Idle(o)' /\ Chosen(o)'
    BY DEF CheckInv
  <1>c. pc[o] # "idle" => \A b \in Attempts : <<unit[o], b>> \in RunIds
    BY DEF ControlInv, RunIds
  <1>1. CASE pc'[o] \notin {"attempt", "createRun"}
    BY <1>1
  <1>2. CASE EnterLock(o)
    <2>1. pc'[o] = "attempt" /\ UNCHANGED <<runs, unit>> /\ ~HasActiveRun(unit[o])
      BY <1>2 DEF EnterLock, Goto, TypeOK, rows
    <2>2. QED
      BY <2>1 DEF HasActiveRun
  <1>3. CASE ChooseAttempt(o)
    <2>1. PICK a \in Attempts : IsNextAttempt(unit[o], a) /\ att' = [att EXCEPT ![o] = a]
      BY <1>3 DEF ChooseAttempt
    <2>2. pc'[o] = "createRun" /\ pc[o] = "attempt" /\ UNCHANGED <<runs, unit>> /\ att'[o] = a
      BY <1>3, <2>1 DEF ChooseAttempt, Goto, TypeOK, rows
    <2>3. ASSUME NEW b \in Attempts, b < a
          PROVE  runs[<<unit[o], b>>] \in Terminal
      <3>1. a > 1 /\ a - 1 \in Attempts /\ runs[<<unit[o], a - 1>>] # "ABSENT"
        BY <2>1, <2>3, BoundsAssumption DEF Attempts, IsNextAttempt
      <3>2. CASE b = a - 1
        <4>1. runs[<<unit[o], b>>] \notin Active
          BY <1>a, <2>2 DEF HasActiveRun
        <4>2. QED
          BY <3>1, <3>2, <4>1, <2>2, <1>c DEF TypeOK, Row, Status, Active
      <3>3. CASE b < a - 1
        BY <3>1, <3>3, <2>2 DEF Newest, ControlInv
      <3>4. QED
        BY <3>2, <3>3, <2>3, BoundsAssumption DEF Attempts
    <2>4. ASSUME NEW b \in Attempts, ~(b < a)
          PROVE  runs[<<unit[o], b>>] = "ABSENT"
      BY <2>1, <2>4 DEF IsNextAttempt
    <2>5. QED
      BY <2>2, <2>3, <2>4
  <1>4. CASE /\ pc'[o] = pc[o] /\ unit'[o] = unit[o] /\ att'[o] = att[o]
             /\ pc[o] \in {"attempt", "createRun"}
    <2>1. CASE RunsKept
      <3>1. \A b \in Attempts :
              /\ runs[<<unit[o], b>>] \notin Active => runs'[<<unit[o], b>>] = runs[<<unit[o], b>>]
        BY <1>4, <1>c, <2>1 DEF RunsKept
      <3>2. Idle(o)'
        BY <1>a, <1>4, <3>1 DEF HasActiveRun
      <3>3. Chosen(o)'
        BY <1>a, <1>4, <3>1 DEF Terminal, Active
      <3>4. QED
        BY <3>2, <3>3
    <2>2. ASSUME NEW t \in Requests, CreateRun(t)
          PROVE  Idle(o)' /\ Chosen(o)'
      <3>1. pc[t] = "createRun" /\ pc'[t] = "createStep"
        BY <2>2 DEF CreateRun, Goto, TypeOK
      <3>2. t = o
        BY <3>1, <1>4, LockExcludes DEF Locked
      <3>3. QED
        BY <3>1, <3>2, <1>4
    <2>3. QED
      BY <2>1, <2>2, RunsMove
  <1>5. CASE RequestAction(o)
    <2>1. CASE EnterLock(o) \/ ChooseAttempt(o)
      BY <1>2, <1>3, <2>1
    <2>2. CASE ~(EnterLock(o) \/ ChooseAttempt(o))
      <3>1. pc'[o] \notin {"attempt", "createRun"}
        BY <1>5, <2>2 DEF TypeOK, Goto, Return, RequestAction, RequestStep, CallStart, CallRetry, Call,
         UseCachedService, BuildService, ListStaleRuns, RecoverRun, RecoverRunRaises,
         ReadStaleSteps, RecoverStep, RecoverStepRaises, CacheService, AfterService, RetryAccepted,
         RetryRefused, PrerequisiteMissing, PrerequisitesMet, RefuseDuplicate, CreateRun, CreateStep, Schedule, RequestFault
      <3>2. QED
        BY <3>1
    <2>3. QED
      BY <2>1, <2>2
  <1>6. ASSUME NEW t \in Requests \ {o}, RequestAction(t)
        PROVE  Idle(o)' /\ Chosen(o)'
    BY <1>6, <1>1, <1>4, RequestLocals DEF OthersKept
  <1>7. ASSUME NEW r \in RunIds, WorkerStep(r) \/ WorkerFault(r)
        PROVE  Idle(o)' /\ Chosen(o)'
    BY <1>7, <1>1, <1>4, WorkerRows DEF WorkerEffect, locals
  <1>8. CASE Crash
    BY <1>8, <1>1 DEF Crash
  <1>9. CASE UNCHANGED vars
    BY <1>9, <1>1, <1>4 DEF vars, locals
  <1>10. QED
    BY <1>5, <1>6, <1>7, <1>8, <1>9, NextCases

LEMMA NewestStep ==
  ASSUME TypeOK, ControlInv, CheckInv, Newest, [Next]_vars
  PROVE  Newest'
  <1> SUFFICES ASSUME NEW u \in Units, NEW a \in Attempts, NEW b \in Attempts,
                      b < a, runs'[<<u, a>>] # "ABSENT"
               PROVE  runs'[<<u, b>>] \in Terminal
    BY DEF Newest
  <1>a. <<u, a>> \in RunIds /\ <<u, b>> \in RunIds
    BY DEF RunIds
  <1>b. runs[<<u, a>>] # "ABSENT" => runs[<<u, b>>] \in Terminal
    BY DEF Newest
  <1>1. CASE RunsKept
    BY <1>1, <1>a, <1>b DEF RunsKept, Terminal, Active
  <1>2. ASSUME NEW t \in Requests, CreateRun(t)
        PROVE  runs'[<<u, b>>] \in Terminal
    <2>1. /\ pc[t] = "createRun" /\ att[t] \in Attempts /\ unit[t] \in Units
          /\ \A r \in RunIds \ {Target(t)} : runs'[r] = runs[r]
      BY <1>2 DEF CreateRun, ControlInv, TypeOK
    <2>2. CASE u = unit[t]
      <3>1. a = att[t] \/ runs[<<u, a>>] # "ABSENT"
        BY <2>1, <2>2, <1>a DEF Target
      <3>2. ~(b < att[t]) => runs[<<u, b>>] = "ABSENT"
        BY <2>1, <2>2 DEF CheckInv
      <3>3. runs[<<u, b>>] \in Terminal
        <4>1. CASE a = att[t]
          BY <4>1, <2>1, <2>2 DEF CheckInv
        <4>2. QED
          BY <4>1, <3>1, <1>b
      <3>4. b < att[t]
        BY <3>2, <3>3 DEF Terminal
      <3>5. <<u, b>> # Target(t)
        BY <3>4, <2>1, BoundsAssumption DEF Target, Attempts
      <3>6. QED
        BY <3>3, <3>5, <2>1, <1>a
    <2>3. CASE u # unit[t]
      BY <2>1, <2>3, <1>a, <1>b DEF Target
    <2>4. QED
      BY <2>2, <2>3
  <1>3. QED
    BY <1>1, <1>2, RunsMove

LEMMA ClaimInit == Init => ClaimInv
  <1> SUFFICES ASSUME Init
               PROVE  ClaimInv
    OBVIOUS
  <1>1. ControlInv /\ ServiceInv /\ LockInv /\ CheckInv
    BY DEF Init, ControlInv, ServiceInv, LockInv, CheckInv, Building, Locked
  <1>2. Newest
    BY DEF Init, Newest, RunIds
  <1>3. QED
    BY <1>1, <1>2, TypeInit DEF ClaimInv

LEMMA ClaimInvStep ==
  ASSUME ~rivals', ClaimInv, [Next]_vars
  PROVE  ClaimInv'
  BY TypeStep, ControlStep, ServiceStep, LockStep, CheckStep, NewestStep DEF ClaimInv

\* Who were rivals once have been it for good.
LEMMA RivalsRemain ==
  ASSUME rivals \in BOOLEAN, [Next]_vars, ~rivals'
  PROVE  ~rivals
  <1>1. ASSUME NEW t \in Requests, RequestAction(t)
        PROVE  ~rivals
    BY <1>1 DEF RequestAction, RequestStep, CallStart, CallRetry, Call,
       UseCachedService, BuildService, ListStaleRuns, RecoverRun, RecoverRunRaises,
       ReadStaleSteps, RecoverStep, RecoverStepRaises, CacheService, RetryAccepted,
       RetryRefused, PrerequisiteMissing, PrerequisitesMet, RefuseDuplicate, EnterLock, ChooseAttempt,
       CreateRun, CreateStep, Schedule, RequestFault, ghosts
  <1>2. ASSUME NEW r \in RunIds, WorkerStep(r) \/ WorkerFault(r)
        PROVE  ~rivals
    BY <1>2 DEF WorkerStep, LoadRun, ClaimRun, ClaimStep, ExecuteStage, RegisterArtifact,
       SettleStep, CloseRun, WorkerFault, ghosts
  <1>3. CASE Crash \/ UNCHANGED vars
    BY <1>3 DEF Crash, vars, ghosts
  <1>4. QED
    BY <1>1, <1>2, <1>3, NextCases

\* The invariant holds as long as there are no rivals.
UnrivalledInv == rivals \in BOOLEAN /\ (~rivals => ClaimInv)

LEMMA UnrivalledStep == UnrivalledInv /\ TypeOK' /\ [Next]_vars => UnrivalledInv'
  BY RivalsRemain, ClaimInvStep DEF UnrivalledInv, TypeOK

LEMMA ClaimInvariant == Spec => []UnrivalledInv
  <1>1. Init => UnrivalledInv
    BY ClaimInit, TypeInit DEF UnrivalledInv, TypeOK
  <1>2. Spec => []TypeOK
    BY TypeCorrect
  <1>3. QED
    BY <1>1, <1>2, UnrivalledStep, PTL DEF Spec

\* Whatever the interleaving of double clicks, retries, crashes and failing
\* calls, an attempt is entered only after every earlier one is over - in every
\* behaviour, until two threads have built a service at once (start_run).
THEOREM NewestOnlyIsActive == Spec => []NewestOnlyActive
  <1>1. UnrivalledInv => NewestOnlyActive
    BY DEF UnrivalledInv, ClaimInv, NewestOnlyActive, Newest
  <1>2. QED
    BY <1>1, ClaimInvariant, PTL

-----------------------------------------------------------------------------
(* A worker owns the rows of its run, as long as there are no rivals.        *)

Launching(t) == pc[t] \in {"createStep", "schedule"}

\* A request that recovers finds no worker at all.
LEMMA RecoveryIsAlone ==
  ASSUME ServiceInv, OwnerInv, NEW t \in Requests, pc[t] \in Building, NEW r \in RunIds
  PROVE  worker[r] = "none"
  BY DEF ServiceInv, OwnerInv

LEMMA WorkerHasRun ==
  ASSUME TypeOK, Owned, NEW r \in RunIds, worker[r] # "none"
  PROVE  runs[r] \in Active
  BY DEF TypeOK, WorkerPC, Owned, Owns, Executing, Active

LEMMA TargetIsRun ==
  ASSUME ControlInv, NEW t \in Requests,
         pc[t] \in {"createRun", "createStep", "schedule"}
  PROVE  Target(t) \in RunIds
  BY DEF ControlInv, Target, RunIds

\* The launching request still has what it wrote, and nobody else has it.
Launch(t) ==
  /\ runs[Target(t)] = "PENDING" /\ worker[Target(t)] = "none"
  /\ pc[t] = "createStep" => steps[Target(t)] = "ABSENT"
  /\ pc[t] = "schedule" => steps[Target(t)] = "PENDING"

LEMMA LaunchStep ==
  ASSUME OwnershipInv, [Next]_vars, NEW t \in Requests, Launching(t)'
  PROVE  Launch(t)'
  <1>a. TypeOK /\ ControlInv /\ ServiceInv /\ LockInv /\ CheckInv
    BY DEF OwnershipInv, ClaimInv
  <1>b. Launching(t) => Launch(t) /\ Target(t) \in RunIds
    BY <1>a, TargetIsRun DEF OwnershipInv, OwnerInv, Launching, Launch
  <1>1. CASE CreateRun(t)
    <2>1. pc[t] = "createRun" /\ Target(t) \in RunIds /\ Target(t)' = Target(t)
      BY <1>1, <1>a, TargetIsRun DEF CreateRun, Target
    <2>2. runs[Target(t)] = "ABSENT"
      BY <1>a, <2>1, BoundsAssumption DEF CheckInv, ControlInv, Target, Attempts
    <2>3. steps[Target(t)] = "ABSENT" /\ worker[Target(t)] = "none"
      BY <1>a, <2>1, <2>2, WorkerHasRun DEF OwnershipInv, OwnerInv, Active
    <2>4. pc'[t] = "createStep" /\ runs'[Target(t)] = "PENDING" /\ UNCHANGED <<steps, worker>>
      BY <1>1, <1>a, <2>1, <2>2 DEF CreateRun, Goto, Insert, TypeOK, process
    <2>5. QED
      BY <2>1, <2>3, <2>4 DEF Launch
  <1>2. CASE CreateStep(t)
    <2>1. pc[t] = "createStep" /\ Target(t) \in RunIds /\ Target(t)' = Target(t)
      BY <1>2, <1>a, TargetIsRun DEF CreateStep, Target
    <2>2. pc'[t] = "schedule" /\ UNCHANGED <<runs, worker>> /\ steps'[Target(t)] = Insert(steps[Target(t)])
      BY <1>2, <1>a, <2>1 DEF CreateStep, Goto, TypeOK
    <2>3. QED
      BY <1>b, <2>1, <2>2 DEF Launching, Launch, Insert
  <1>3. CASE Launching(t) /\ Target(t)' = Target(t) /\ pc'[t] = pc[t]
    <2>1. ASSUME NEW o \in Requests \ {t}, RequestAction(o)
          PROVE  Launch(t)'
      <3>1. RequestEffect(o)
        BY <1>a, <2>1, RequestRows
      <3>2. ~(Schedule(o) /\ Target(t) = Target(o)) /\ ~(CreateStep(o) /\ Target(t) = Target(o))
        BY <1>3, <2>1 DEF OwnershipInv, OwnerInv, Launching, Schedule, CreateStep
      <3>3. QED
        BY <1>b, <1>3, <3>1, <3>2 DEF RequestEffect, Launch, Launching
    <2>2. ASSUME NEW r \in RunIds, WorkerStep(r) \/ WorkerFault(r)
          PROVE  Launch(t)'
      BY <1>a, <1>b, <1>3, <2>2, WorkerRows DEF WorkerEffect, Launch
    <2>3. CASE RequestAction(t)
      BY <1>3, <1>a, <2>3 DEF Launching, TypeOK, Goto, Return, RequestAction, RequestStep,
         CallStart, CallRetry, Call, RequestFault,
         UseCachedService, BuildService, ListStaleRuns, RecoverRun, RecoverRunRaises,
         ReadStaleSteps, RecoverStep, RecoverStepRaises, CacheService, RetryAccepted,
         RetryRefused, PrerequisiteMissing, PrerequisitesMet, RefuseDuplicate, EnterLock, ChooseAttempt,
         CreateRun, CreateStep, Schedule
    <2>4. CASE Crash
      BY <1>3, <2>4 DEF Crash, Launching
    <2>5. CASE UNCHANGED vars
      BY <1>b, <1>3, <2>5 DEF vars, rows, process, Launch
    <2>6. QED
      BY <2>1, <2>2, <2>3, <2>4, <2>5, NextCases
  <1>4. CASE RequestAction(t) /\ ~CreateRun(t) /\ ~CreateStep(t)
    <2>1. ~Launching(t)'
      BY <1>4, <1>a DEF Launching, TypeOK, Goto, Return, RequestAction, RequestStep,
         CallStart, CallRetry, Call, RequestFault,
         UseCachedService, BuildService, ListStaleRuns, RecoverRun, RecoverRunRaises,
         ReadStaleSteps, RecoverStep, RecoverStepRaises, CacheService, AfterService, RetryAccepted,
         RetryRefused, PrerequisiteMissing, PrerequisitesMet, RefuseDuplicate, EnterLock, ChooseAttempt, Schedule
    <2>2. QED
      BY <2>1
  <1>5. ASSUME NEW o \in Requests \ {t}, RequestAction(o)
        PROVE  Launch(t)'
    BY <1>a, <1>3, <1>5, RequestLocals DEF OthersKept, Launching, Target
  <1>6. ASSUME NEW r \in RunIds, WorkerStep(r) \/ WorkerFault(r)
        PROVE  Launch(t)'
    BY <1>a, <1>3, <1>6, WorkerRows DEF WorkerEffect, locals, Launching, Target
  <1>7. CASE Crash
    BY <1>7 DEF Crash, Launching
  <1>8. CASE UNCHANGED vars
    BY <1>3, <1>8 DEF vars, locals, Launching, Target
  <1>9. QED
    BY <1>1, <1>2, <1>4, <1>5, <1>6, <1>7, <1>8, NextCases

LEMMA LauncherIsUnique ==
  ASSUME OwnershipInv, [Next]_vars, NEW t \in Requests, NEW o \in Requests,
         Launching(t)', Launching(o)', Target(t)' = Target(o)'
  PROVE  t = o
  <1>a. TypeOK /\ ControlInv /\ ServiceInv /\ LockInv /\ CheckInv
    BY DEF OwnershipInv, ClaimInv
  <1>b. ASSUME NEW x \in Requests
        PROVE  /\ ~CreateRun(x) /\ Launching(x)' => Launching(x) /\ Target(x)' = Target(x)
               /\ CreateRun(x) => /\ runs[Target(x)] = "ABSENT" /\ Target(x)' = Target(x)
                                  /\ \A y \in Requests \ {x} : ~CreateRun(y)
    <2>1. CASE CreateRun(x)
      <3>1. pc[x] = "createRun" /\ Target(x)' = Target(x) /\ pc'[x] = "createStep"
        BY <1>a, <2>1 DEF CreateRun, Target, Goto, TypeOK
      <3>2. runs[Target(x)] = "ABSENT"
        BY <1>a, <3>1, BoundsAssumption DEF CheckInv, ControlInv, Target, Attempts
      <3>3. \A y \in Requests \ {x} : ~CreateRun(y)
        BY <1>a, <3>1, LockExcludes DEF Locked, CreateRun
      <3>4. QED
        BY <2>1, <3>1, <3>2, <3>3
    <2>2. CASE RequestAction(x) /\ ~CreateRun(x)
      BY <1>a, <2>2 DEF Launching, Target, TypeOK, Goto, Return, RequestAction, RequestStep,
         CallStart, CallRetry, Call, RequestFault,
         UseCachedService, BuildService, ListStaleRuns, RecoverRun, RecoverRunRaises,
         ReadStaleSteps, RecoverStep, RecoverStepRaises, CacheService, AfterService, RetryAccepted,
         RetryRefused, PrerequisiteMissing, PrerequisitesMet, RefuseDuplicate, EnterLock, ChooseAttempt,
         CreateStep, Schedule
    <2>3. ASSUME NEW y \in Requests \ {x}, RequestAction(y), ~CreateRun(x)
          PROVE  Launching(x)' => Launching(x) /\ Target(x)' = Target(x)
      BY <1>a, <2>3, RequestLocals DEF OthersKept, Launching, Target
    <2>4. ASSUME NEW r \in RunIds, WorkerStep(r) \/ WorkerFault(r)
          PROVE  Launching(x)' => Launching(x) /\ Target(x)' = Target(x)
      BY <1>a, <2>4, WorkerRows DEF WorkerEffect, locals, Launching, Target
    <2>5. CASE Crash
      BY <2>5 DEF Crash, Launching
    <2>6. CASE UNCHANGED vars /\ ~CreateRun(x)
      BY <2>6 DEF vars, locals, Launching, Target
    <2>7. QED
      BY <2>1, <2>2, <2>3, <2>4, <2>5, <2>6, NextCases
  <1>c. \A x \in Requests : Launching(x) => runs[Target(x)] = "PENDING"
    BY DEF OwnershipInv, OwnerInv, Launching
  <1>1. CASE CreateRun(t)
    BY <1>1, <1>b, <1>c
  <1>2. CASE CreateRun(o)
    BY <1>2, <1>b, <1>c
  <1>3. CASE ~CreateRun(t) /\ ~CreateRun(o)
    BY <1>3, <1>b DEF OwnershipInv, OwnerInv, Launching
  <1>4. QED
    BY <1>1, <1>2, <1>3

LEMMA OwnerStep ==
  ASSUME OwnershipInv, [Next]_vars
  PROVE  OwnerInv'
  <1>a. TypeOK /\ ServiceInv /\ OwnerInv /\ TypeOK'
    BY TypeStep DEF OwnershipInv, ClaimInv
  <1>1. cached' = None => \A r \in RunIds : worker'[r] = "none"
    <2>1. ASSUME NEW t \in Requests, RequestAction(t), cached' = None
          PROVE  \A r \in RunIds : worker'[r] = "none"
      <3>1. cached = None
        BY <2>1, NoneAssumption DEF RequestAction, RequestStep, CallStart, CallRetry, Call,
         UseCachedService, BuildService, ListStaleRuns, RecoverRun, RecoverRunRaises,
         ReadStaleSteps, RecoverStep, RecoverStepRaises, CacheService, RetryAccepted,
         RetryRefused, PrerequisiteMissing, PrerequisitesMet, RefuseDuplicate, EnterLock, ChooseAttempt, CreateRun,
         CreateStep, Schedule, RequestFault, process
      <3>2. ~Schedule(t)
        BY <1>a, <3>1 DEF ServiceInv, Schedule
      <3>3. QED
        BY <1>a, <2>1, <3>1, <3>2, RequestRows DEF RequestEffect, OwnerInv
    <2>2. ASSUME NEW r \in RunIds, WorkerStep(r) \/ WorkerFault(r), cached' = None
          PROVE  FALSE
      BY <1>a, <2>2, WorkerRows DEF WorkerEffect, OwnerInv
    <2>3. CASE Crash
      BY <2>3 DEF Crash
    <2>4. CASE UNCHANGED vars
      BY <1>a, <2>4 DEF vars, process, OwnerInv
    <2>5. QED
      BY <2>1, <2>2, <2>3, <2>4, NextCases
  <1>2. ASSUME NEW r \in RunIds, runs'[r] = "ABSENT"
        PROVE  steps'[r] = "ABSENT"
    <2>1. ASSUME NEW t \in Requests, RequestAction(t)
          PROVE  steps'[r] = "ABSENT"
      <3>1. runs[r] = "ABSENT" /\ steps[r] = "ABSENT"
        BY <1>a, <1>2, <2>1, RequestRows DEF RequestEffect, OwnerInv
      <3>2. ~(CreateStep(t) /\ r = Target(t))
        BY <1>a, <3>1 DEF OwnerInv, CreateStep
      <3>3. QED
        BY <1>a, <2>1, <3>1, <3>2, RequestRows DEF RequestEffect
    <2>2. ASSUME NEW q \in RunIds, WorkerStep(q) \/ WorkerFault(q)
          PROVE  steps'[r] = "ABSENT"
      BY <1>a, <1>2, <2>2, WorkerRows DEF WorkerEffect, OwnerInv, Active, Status, Terminal
    <2>3. CASE Crash \/ UNCHANGED vars
      BY <1>a, <1>2, <2>3 DEF Crash, vars, rows, OwnerInv
    <2>4. QED
      BY <2>1, <2>2, <2>3, NextCases
  <1>3. \A t \in Requests : Launching(t)' => Launch(t)'
    BY LaunchStep
  <1>4. \A t, o \in Requests : Launching(t)' /\ Launching(o)' /\ Target(t)' = Target(o)' => t = o
    BY LauncherIsUnique
  <1>5. QED
    BY <1>1, <1>2, <1>3, <1>4 DEF OwnerInv, Launching, Launch

LEMMA OwnsStep ==
  ASSUME OwnershipInv, [Next]_vars
  PROVE  Owned'
  <1> USE DEF Executing, Owns
  <1>a. TypeOK /\ ServiceInv /\ OwnerInv /\ \A r \in RunIds : Owns(r)
    BY DEF OwnershipInv, ClaimInv, Owned
  <1>b. SUFFICES ASSUME NEW r \in RunIds
                 PROVE  Owns(r)'
    BY DEF Owned
  <1>c. Owns(r)
    BY <1>a
  <1>1. ASSUME NEW t \in Requests, RequestAction(t)
        PROVE  Owns(r)'
    <2>1. RequestEffect(t)
      BY <1>a, <1>1, RequestRows
    <2>2. CASE Schedule(t) /\ r = Target(t)
      <3>1. runs[r] = "PENDING" /\ steps[r] = "PENDING" /\ UNCHANGED <<runs, steps>>
        BY <1>a, <2>2 DEF OwnerInv, Schedule, rows
      <3>2. worker'[r] = "load"
        BY <1>a, <2>2 DEF OwnerInv, Schedule, TypeOK
      <3>3. QED
        BY <3>1, <3>2
    <2>3. CASE pc[t] \in Building
      <3>1. worker[r] = "none"
        BY <1>a, <2>3, RecoveryIsAlone
      <3>2. worker'[r] = "none"
        BY <2>1, <2>3, <3>1 DEF RequestEffect, Schedule, Building
      <3>3. QED
        BY <3>2
    <2>4. CASE ~(Schedule(t) /\ r = Target(t)) /\ pc[t] \notin Building
      <3>1. worker'[r] = worker[r]
        BY <2>1, <2>4 DEF RequestEffect
      <3>2. worker[r] # "none" => runs'[r] = runs[r]
        BY <1>a, <2>1, <2>4, WorkerHasRun DEF RequestEffect, Building, Active, OwnershipInv
      <3>3. worker[r] # "none" => steps'[r] = steps[r]
        BY <1>a, <2>1, <2>4 DEF RequestEffect, Building, OwnerInv, CreateStep
      <3>4. QED
        BY <1>c, <3>1, <3>2, <3>3
    <2>5. QED
      BY <2>2, <2>3, <2>4
  <1>2. ASSUME NEW q \in RunIds \ {r}, WorkerStep(q) \/ WorkerFault(q)
        PROVE  Owns(r)'
    BY <1>a, <1>2, <1>c, WorkerRows DEF WorkerEffect
  <1>3. CASE WorkerFault(r)
    BY <1>a, <1>3 DEF WorkerFault, Advance, TypeOK
  <1>4. CASE WorkerStep(r)
    <2> USE <1>a, <1>c DEF TypeOK, Advance
    <2>1. CASE LoadRun(r)
      BY <2>1 DEF LoadRun, rows
    <2>2. CASE ClaimRun(r)
      BY <2>2 DEF ClaimRun, MoveRun
    <2>3. CASE ClaimStep(r)
      BY <2>3 DEF ClaimStep, MoveStep
    <2>4. CASE ExecuteStage(r)
      BY <2>4 DEF ExecuteStage
    <2>5. CASE RegisterArtifact(r)
      BY <2>5 DEF RegisterArtifact
    <2>6. CASE SettleStep(r)
      BY <2>6 DEF SettleStep, MoveStep
    <2>7. CASE CloseRun(r)
      BY <2>7 DEF CloseRun, MoveRun
    <2>8. QED
      BY <1>4, <2>1, <2>2, <2>3, <2>4, <2>5, <2>6, <2>7 DEF WorkerStep
  <1>5. CASE Crash
    BY <1>5 DEF Crash
  <1>6. CASE UNCHANGED vars
    BY <1>6, <1>c DEF vars, rows, process
  <1>7. QED
    BY <1>1, <1>2, <1>3, <1>4, <1>5, <1>6, NextCases

LEMMA OwnershipInit == Init => OwnershipInv
  <1>1. Init => OwnerInv /\ Owned
    BY DEF Init, OwnerInv, Owned, Owns, Executing
  <1>2. QED
    BY <1>1, ClaimInit DEF OwnershipInv

LEMMA OwnershipStep ==
  ASSUME TypeOK, ~rivals => OwnershipInv, [Next]_vars
  PROVE  (~rivals => OwnershipInv)'
  BY RivalsRemain, ClaimInvStep, OwnerStep, OwnsStep DEF OwnershipInv, TypeOK

\* From the moment a run has a worker until the worker is gone its rows are
\* what the worker last wrote: neither a recovery nor another request touches
\* them - in every behaviour, until two services were built at once (execute_run).
THEOREM WorkerOwnsItsRows == Spec => []WorkerOwnsRows
  <1>1. Init => (~rivals => OwnershipInv)
    BY OwnershipInit
  <1>2. TypeOK /\ (~rivals => OwnershipInv) /\ [Next]_vars => (~rivals => OwnershipInv)'
    BY OwnershipStep
  <1>3. (~rivals => OwnershipInv) => WorkerOwnsRows
    BY DEF OwnershipInv, Owned, WorkerOwnsRows
  <1>4. Spec => []TypeOK
    BY TypeCorrect
  <1>5. QED
    BY <1>1, <1>2, <1>3, <1>4, PTL DEF Spec
-----------------------------------------------------------------------------
(* The run table read as one ledger per unit.                              *)

\* The ledger RunLedger speaks of, and the attempts of a unit that are on record.
Book(u)     == [a \in 1 .. LastAttempt(u) |-> runs[<<u, a>>]]
Entered(u)  == {a \in Attempts : runs[<<u, a>>] # "ABSENT"}

\* Runs end as succeeded or failed, never otherwise (execute_run, recover_stale_runs).
LedgerInv == \A r \in RunIds : runs[r] \in {"ABSENT", "PENDING", "RUNNING", "SUCCEEDED", "FAILED"}

\* The least number of a set that has one.
LEMMA LeastNumber ==
  ASSUME NEW T, T \subseteq Nat, T # {}
  PROVE  \E m \in T : \A k \in T : m <= k
  <1> DEFINE Below == {p \in Nat \X Nat : p[1] < p[2]}
  <1>1. IsWellFoundedOn(Below, Nat)
    BY NatLessThanWellFounded DEF OpToRel
  <1>2. PICK m \in T : \A k \in T : <<k, m>> \notin Below
    <2> HIDE DEF Below
    <2>1. QED
      BY <1>1, WFMin
  <1>3. ASSUME NEW k \in T
        PROVE  m <= k
    <2>1. k \in Nat /\ m \in Nat /\ <<k, m>> \notin Below
      BY <1>2
    <2>2. ~ (k < m)
      BY <2>1
    <2>3. QED
      BY <2>1, <2>2
  <1>4. QED
    BY <1>3

\* As attempts follow one another, those on record are 1 .. LastAttempt(u).
Dense(u) == LastAttempt(u) \in 0 .. MaxCalls /\ Entered(u) = 1 .. LastAttempt(u)

LEMMA LedgerIsDense == Newest => \A u \in Units : Dense(u)
  <1> SUFFICES ASSUME Newest, NEW u \in Units
               PROVE  Dense(u)
    OBVIOUS
  <1> DEFINE Free == {n \in 0 .. MaxCalls : n + 1 \notin Entered(u)}
  <1>1. Free \subseteq Nat /\ MaxCalls \in Free
    BY BoundsAssumption DEF Entered, Attempts
  <1>2. PICK k \in Free : \A n \in Free : k <= n
    BY <1>1, LeastNumber
  <1>3. k \in Nat /\ k <= MaxCalls /\ k + 1 \notin Entered(u)
    BY <1>1, <1>2
  <1>4. ASSUME NEW a \in 1 .. k
        PROVE  a \in Entered(u)
    <2>1. a - 1 \in 0 .. MaxCalls /\ ~ (k <= a - 1)
      BY <1>3, <1>4, BoundsAssumption
    <2>2. a - 1 \notin Free
      BY <1>2, <2>1
    <2>3. (a - 1) + 1 = a
      BY <1>3, <1>4
    <2>4. QED
      BY <2>1, <2>2, <2>3
  <1>5. ASSUME NEW a \in Entered(u)
        PROVE  a \in 1 .. k
    <2>1. a \in Attempts /\ runs[<<u, a>>] # "ABSENT"
      BY DEF Entered
    <2>2. \A b \in Attempts : b < a => b \in Entered(u)
      BY <2>1 DEF Newest, Entered, Terminal
    <2>3. ~ (k < a)
      <3>1. SUFFICES ASSUME k < a
                     PROVE  FALSE
        OBVIOUS
      <3>2. k + 1 \in Attempts /\ (k + 1 < a \/ k + 1 = a)
        BY <1>3, <2>1, <3>1, BoundsAssumption DEF Attempts
      <3>3. QED
        BY <1>3, <2>2, <3>2
    <2>4. QED
      BY <1>3, <2>1, <2>3, BoundsAssumption DEF Attempts
  <1>6. Entered(u) = 1 .. k
    BY <1>4, <1>5
  <1>7. LastAttempt(u) = k
    <2>1. LastAttempt(u) = Cardinality(Entered(u))
      BY DEF LastAttempt, Entered
    <2>2. Cardinality(1 .. k) = k
      BY <1>3, FS_Interval
    <2>3. QED
      BY <1>6, <2>1, <2>2
  <1>8. QED
    BY <1>3, <1>6, <1>7, BoundsAssumption DEF Dense

LEMMA LedgerStaysDense == (Newest => \A u \in Units : Dense(u))'
  BY LedgerIsDense, PTL

\* One row moves along the ledger's way.
Moves(r, status) ==
  /\ \/ runs[r] = "PENDING" /\ status = "RUNNING"
     \/ runs[r] = "RUNNING" /\ status \in {"SUCCEEDED", "FAILED"}
  /\ runs' = [runs EXCEPT ![r] = status]

LEMMA OneRowMoves ==
  ASSUME TypeOK, LedgerInv, [Next]_vars
  PROVE  \/ runs' = runs
         \/ \E t \in Requests : CreateRun(t)
         \/ \E r \in RunIds : \E status \in {"RUNNING", "SUCCEEDED", "FAILED"} : Moves(r, status)
  <1>1. ASSUME NEW t \in Requests, RequestAction(t), ~CreateRun(t), runs' # runs
        PROVE  \E r \in RunIds : Moves(r, "FAILED")
    <2>1. PICK r \in RunIds : RecoverRun(t, r)
      BY <1>1 DEF RequestAction, CallStart, CallRetry, Call, RequestFault, RequestStep, UseCachedService,
                  BuildService, ListStaleRuns, RecoverRunRaises, ReadStaleSteps, RecoverStep,
                  RecoverStepRaises, CacheService, RetryAccepted, RetryRefused, PrerequisiteMissing,
                  PrerequisitesMet, RefuseDuplicate, EnterLock, ChooseAttempt, CreateStep, Schedule, rows
    <2>2. runs' = [runs EXCEPT ![r] = "FAILED"] /\ runs[r] \in {"RUNNING", "FAILED"}
      BY <2>1, Transitions DEF RecoverRun, TypeOK
    <2>3. runs[r] # "FAILED"
      BY <1>1, <2>2 DEF TypeOK
    <2>4. QED
      BY <2>2, <2>3 DEF Moves
  <1>2. ASSUME NEW r \in RunIds, WorkerStep(r) \/ WorkerFault(r), runs' # runs
        PROVE  \E status \in {"RUNNING", "SUCCEEDED", "FAILED"} : Moves(r, status)
    <2>1. ClaimRun(r) \/ CloseRun(r)
      BY <1>2 DEF WorkerStep, WorkerFault, LoadRun, ClaimStep, ExecuteStage, RegisterArtifact, SettleStep,
                  rows
    <2>2. PICK status \in {"RUNNING", "SUCCEEDED", "FAILED"}, label \in WorkerPC : MoveRun(r, status, label)
      BY <2>1 DEF ClaimRun, CloseRun, WorkerPC
    <2>3. CanTransition(runs[r], status) /\ runs' = [runs EXCEPT ![r] = status]
      BY <1>2, <2>2 DEF MoveRun
    <2>4. runs[r] # status
      BY <1>2, <2>3 DEF TypeOK
    <2>5. QED
      BY <2>3, <2>4, Transitions DEF Moves, TypeOK, LedgerInv, Active
  <1>3. CASE Crash \/ UNCHANGED vars
    BY <1>3 DEF Crash, vars, rows
  <1>4. QED
    BY <1>1, <1>2, <1>3, NextCases

LEMMA LedgerStep ==
  ASSUME TypeOK, LedgerInv, [Next]_vars
  PROVE  LedgerInv'
  <1>1. CASE runs' = runs
    BY <1>1 DEF LedgerInv
  <1>2. ASSUME NEW t \in Requests, CreateRun(t)
        PROVE  LedgerInv'
    BY <1>2 DEF CreateRun, Insert, LedgerInv, TypeOK
  <1>3. ASSUME NEW r \in RunIds, NEW status \in {"RUNNING", "SUCCEEDED", "FAILED"}, Moves(r, status)
        PROVE  LedgerInv'
    BY <1>3 DEF Moves, LedgerInv, TypeOK
  <1>4. QED
    BY <1>1, <1>2, <1>3, OneRowMoves

\* A ledger that grows by an entry.
LEMMA Grown ==
  ASSUME NEW n \in Nat, NEW S, NEW f \in [1 .. n -> S], NEW e
  PROVE  /\ Len(f) = n
         /\ Append(f, e) \in [1 .. n + 1 -> S \cup {e}]
         /\ \A i \in 1 .. n + 1 : Append(f, e)[i] = IF i = n + 1 THEN e ELSE f[i]
  <1>1. f \in Seq(S) /\ Len(f) = n /\ DOMAIN f = 1 .. n
    OBVIOUS
  <1>2. f \in Seq(S \cup {e})
    BY <1>1
  <1>3. Append(f, e) \in Seq(S \cup {e}) /\ Len(Append(f, e)) = n + 1
    BY <1>1, <1>2
  <1>4. \A i \in 1 .. n + 1 : Append(f, e)[i] = IF i = n + 1 THEN e ELSE f[i]
    BY <1>1, <1>2
  <1>5. Append(f, e) \in [1 .. n + 1 -> S \cup {e}]
    BY <1>3, LenProperties
  <1>6. QED
    BY <1>1, <1>4, <1>5

\* What a unit's ledger is made of, as its attempts on record are 1 .. LastAttempt(u).
LEMMA BookType ==
  ASSUME TypeOK, NEW u \in Units, Dense(u)
  PROVE  /\ LastAttempt(u) \in Nat
         /\ Book(u) \in [1 .. LastAttempt(u) -> Row]
         /\ Len(Book(u)) = LastAttempt(u)
         /\ Book(u) = <<>> <=> LastAttempt(u) = 0
  <1>1. LastAttempt(u) \in Nat /\ LastAttempt(u) <= MaxCalls
    BY BoundsAssumption DEF Dense
  <1>2. Book(u) \in [1 .. LastAttempt(u) -> Row]
    <2>1. ASSUME NEW b \in 1 .. LastAttempt(u)
          PROVE  runs[<<u, b>>] \in Row
      <3>1. b \in Attempts
        BY <1>1, BoundsAssumption DEF Attempts
      <3>2. <<u, b>> \in RunIds
        BY <3>1 DEF RunIds
      <3>3. QED
        BY <3>2 DEF TypeOK
    <2>2. QED
      BY <2>1 DEF Book
  <1>3. Len(Book(u)) = LastAttempt(u)
    BY <1>1, <1>2, Grown
  <1>4. QED
    BY <1>1, <1>2, <1>3

\* A run is entered: the unit's ledger, whose last entry is over, grows by one.
LEMMA EntryIsSubmitted ==
  ASSUME TypeOK, LedgerInv, ControlInv, CheckInv, Newest, Newest',
         NEW t \in Requests, CreateRun(t)
  PROVE  Ledger!LedgerNext
  <1> DEFINE k == LastAttempt(unit[t])
             a == att[t]
  <1>1. unit[t] \in Units /\ a \in Attempts /\ pc[t] = "createRun"
    BY DEF CreateRun, ControlInv
  <1>2. \A b \in Attempts : /\ b < a => runs[<<unit[t], b>>] \in Terminal
                            /\ ~(b < a) => runs[<<unit[t], b>>] = "ABSENT"
    BY <1>1 DEF CheckInv
  <1>3. runs' = [runs EXCEPT ![<<unit[t], a>>] = "PENDING"]
    <2>1. runs[<<unit[t], a>>] = "ABSENT"
      BY <1>1, <1>2, BoundsAssumption DEF Attempts
    <2>2. QED
      BY <2>1 DEF CreateRun, Insert, Target
  <1>4. SUFFICES ASSUME NEW u \in Units, u = unit[t]
                 PROVE  Ledger!LedgerNext
    BY <1>1
  <1>5. LastAttempt(u) \in 0 .. MaxCalls /\ Entered(u) = 1 .. LastAttempt(u)
    BY LedgerIsDense DEF Dense
  <1>6. LastAttempt(u)' \in 0 .. MaxCalls /\ Entered(u)' = 1 .. LastAttempt(u)'
    BY LedgerStaysDense DEF Dense
  <1>7. a = LastAttempt(u) + 1
    <2>1. a \notin Entered(u) /\ \A b \in Attempts : b < a => b \in Entered(u)
      BY <1>1, <1>2, <1>4, BoundsAssumption DEF Entered, Terminal, Attempts
    <2>2. ~ (a <= LastAttempt(u))
      BY <1>1, <1>5, <2>1, BoundsAssumption DEF Attempts
    <2>3. ~ (LastAttempt(u) + 1 < a)
      BY <1>1, <1>5, <2>1, BoundsAssumption DEF Attempts
    <2>4. QED
      BY <1>1, <1>5, <2>2, <2>3, BoundsAssumption DEF Attempts
  <1>8. \A v \in Units : \A b \in Attempts :
           runs'[<<v, b>>] = IF v = u /\ b = a THEN "PENDING" ELSE runs[<<v, b>>]
    BY <1>1, <1>3, <1>4 DEF TypeOK, RunIds
  <1>9. Entered(u)' = Entered(u) \cup {a}
    BY <1>1, <1>8 DEF Entered
  <1>10. LastAttempt(u)' = a
    <2>1. LastAttempt(u)' \in 1 .. a /\ a \in 1 .. LastAttempt(u)'
      <3>1. a \in 1 .. LastAttempt(u)'
        BY <1>6, <1>9
      <3>2. LastAttempt(u)' \in Entered(u) \cup {a}
        BY <1>6, <1>9, <3>1
      <3>3. QED
        BY <1>5, <1>7, <3>1, <3>2
    <2>2. QED
      BY <1>1, <2>1, BoundsAssumption DEF Attempts
  <1>11. Book(u)' = Append(Book(u), "PENDING")
    <2>1. Book(u)' = [b \in 1 .. a |-> runs'[<<u, b>>]]
      BY <1>10 DEF Book
    <2>2. \A b \in 1 .. a : b \in Attempts
      BY <1>1, BoundsAssumption DEF Attempts
    <2>3. Book(u)' = [b \in 1 .. a |-> IF b = a THEN "PENDING" ELSE runs[<<u, b>>]]
      BY <1>8, <2>1, <2>2
    <2>4. \A b \in 1 .. a : b # a => Book(u)[b] = runs[<<u, b>>]
      BY <1>5, <1>7 DEF Book
    <2>5. Book(u)' = [b \in 1 .. LastAttempt(u) + 1 |-> IF b = LastAttempt(u) + 1 THEN "PENDING" ELSE Book(u)[b]]
      BY <1>7, <2>3, <2>4
    <2>6. LastAttempt(u) \in Nat /\ Book(u) \in [1 .. LastAttempt(u) -> Row]
      BY <1>5, BookType DEF Dense
    <2>7. Append(Book(u), "PENDING")
            = [b \in 1 .. LastAttempt(u) + 1 |-> IF b = LastAttempt(u) + 1 THEN "PENDING" ELSE Book(u)[b]]
      <3>1. ASSUME NEW n \in Nat, NEW f \in [1 .. n -> Row]
            PROVE  Append(f, "PENDING") = [b \in 1 .. n + 1 |-> IF b = n + 1 THEN "PENDING" ELSE f[b]]
        <4>1. /\ Append(f, "PENDING") \in [1 .. n + 1 -> Row \cup {"PENDING"}]
              /\ \A b \in 1 .. n + 1 : Append(f, "PENDING")[b] = IF b = n + 1 THEN "PENDING" ELSE f[b]
          BY Grown
        <4>2. QED
          BY <4>1
      <3>2. QED
        BY <2>6, <3>1
    <2>8. QED
      BY <2>5, <2>7
  <1>12. ASSUME NEW v \in Units, v # u
         PROVE  Book(v)' = Book(v)
    <2>1. \A b \in Attempts : runs'[<<v, b>>] = runs[<<v, b>>]
      BY <1>8, <1>12
    <2>2. LastAttempt(v)' = LastAttempt(v)
      BY <2>1 DEF LastAttempt
    <2>3. \A b \in 1 .. LastAttempt(v) : b \in Attempts
      BY LedgerIsDense, BoundsAssumption DEF Dense, Attempts
    <2>4. QED
      BY <2>1, <2>2, <2>3 DEF Book
  <1>13. Book(u) # <<>> => Book(u)[Len(Book(u))] \in {"SUCCEEDED", "FAILED"}
    <2>1. SUFFICES ASSUME LastAttempt(u) # 0
                   PROVE  Book(u)[LastAttempt(u)] \in {"SUCCEEDED", "FAILED"}
      BY <1>5, BookType DEF Dense
    <2>2. LastAttempt(u) \in Attempts /\ LastAttempt(u) < a
      BY <1>5, <1>7, <2>1, BoundsAssumption DEF Attempts
    <2>3. runs[<<u, LastAttempt(u)>>] \in Terminal
      BY <1>2, <1>4, <2>2
    <2>4. QED
      BY <1>5, <2>1, <2>2, <2>3 DEF Book, LedgerInv, RunIds, Terminal
  <1>14. Ledger!Submit(u)
    BY <1>11, <1>12, <1>13 DEF Ledger!Submit, Ledger!LastEntry, Ledger!Over, Book, Books
  <1>15. QED
    BY <1>14 DEF Ledger!LedgerNext

\* A row that moves is the last of its unit: the ones before are over.
LEMMA MoveIsLast ==
  ASSUME TypeOK, Newest, NEW u \in Units, NEW a \in Attempts, runs[<<u, a>>] \in Active
  PROVE  a = LastAttempt(u)
  <1>1. LastAttempt(u) \in 0 .. MaxCalls /\ Entered(u) = 1 .. LastAttempt(u)
    BY LedgerIsDense DEF Dense
  <1>2. a \in 1 .. LastAttempt(u) /\ LastAttempt(u) \in Entered(u)
    BY <1>1 DEF Entered, Active
  <1>3. ~ (a < LastAttempt(u))
    BY <1>2 DEF Newest, Entered, Active, Terminal
  <1>4. QED
    BY <1>1, <1>2, <1>3

LEMMA MoveIsBeginOrFinish ==
  ASSUME TypeOK, Newest, NEW u \in Units, NEW a \in Attempts,
         NEW status \in {"RUNNING", "SUCCEEDED", "FAILED"}, Moves(<<u, a>>, status)
  PROVE  Ledger!LedgerNext
  <1>1. a = LastAttempt(u)
    BY MoveIsLast DEF Moves, Active
  <1>2. Dense(u)
    BY LedgerIsDense
  <1>3. \A v \in Units : \A b \in Attempts :
           runs'[<<v, b>>] = IF v = u /\ b = a THEN status ELSE runs[<<v, b>>]
    BY DEF Moves, TypeOK, RunIds
  <1>4. \A v \in Units : LastAttempt(v)' = LastAttempt(v)
    <2>1. \A v \in Units : Entered(v)' = Entered(v)
      BY <1>3 DEF Entered, Moves
    <2>2. QED
      BY <2>1 DEF LastAttempt, Entered
  <1>5. \A v \in Units : \A b \in 1 .. LastAttempt(v) : b \in Attempts
    BY LedgerIsDense, BoundsAssumption DEF Dense, Attempts
  <1>6. Book(u)' = [Book(u) EXCEPT ![Len(Book(u))] = status]
    <2>1. Book(u)' = [b \in 1 .. LastAttempt(u) |-> IF b = LastAttempt(u) THEN status ELSE Book(u)[b]]
      BY <1>1, <1>3, <1>4, <1>5 DEF Book
    <2>2. QED
      BY <1>2, <2>1, BookType
  <1>7. ASSUME NEW v \in Units, v # u
        PROVE  Book(v)' = Book(v)
    BY <1>3, <1>4, <1>5, <1>7 DEF Book
  <1>8. Book(u) # <<>> /\ Book(u)[Len(Book(u))] = runs[<<u, a>>]
    BY <1>1, <1>2, <1>5, BookType DEF Book, Attempts
  <1>9. Ledger!SetLast(u, status)
    BY <1>6, <1>7 DEF Ledger!SetLast, Book, Books
  <1>10. CASE runs[<<u, a>>] = "PENDING"
    <2>1. Ledger!Begin(u)
      BY <1>8, <1>9, <1>10 DEF Ledger!Begin, Ledger!LastEntry, Book, Books, Moves
    <2>2. QED
      BY <2>1 DEF Ledger!LedgerNext
  <1>11. CASE runs[<<u, a>>] = "RUNNING"
    <2>1. Ledger!Finish(u)
      BY <1>8, <1>9, <1>11 DEF Ledger!Finish, Ledger!LastEntry, Ledger!Over, Book, Books, Moves
    <2>2. QED
      BY <2>1 DEF Ledger!LedgerNext
  <1>12. QED
    BY <1>10, <1>11 DEF Moves

\* A step of the service is a step of the ledger, or leaves it alone.
LEMMA StepIsLedgers ==
  ASSUME ClaimInv, ClaimInv', LedgerInv, [Next]_vars
  PROVE  [Ledger!LedgerNext]_Books
  <1>1. CASE runs' = runs
    BY <1>1 DEF Books, LastAttempt
  <1>2. ASSUME NEW t \in Requests, CreateRun(t)
        PROVE  Ledger!LedgerNext
    BY <1>2, EntryIsSubmitted DEF ClaimInv
  <1>3. ASSUME NEW r \in RunIds, NEW status \in {"RUNNING", "SUCCEEDED", "FAILED"}, Moves(r, status)
        PROVE  Ledger!LedgerNext
    <2>1. PICK u \in Units, a \in Attempts : r = <<u, a>>
      BY DEF RunIds
    <2>2. QED
      BY <1>3, <2>1, MoveIsBeginOrFinish DEF ClaimInv
  <1>4. QED
    BY <1>1, <1>2, <1>3, OneRowMoves DEF ClaimInv

\* Read as one ledger per unit, the run table behaves as RunLedger says: attempts
\* are entered one after the other, each when the last one is over, and only
\* the last moves, from PENDING over RUNNING to its end - whatever threads,
\* restarts and failing calls do, up to the step, if it comes, that makes a
\* second service beside one being built (start_run, execute_run, recover_stale_runs).
THEOREM LedgerIsImplemented == Spec => ImplementsLedger
  <1>1. Init => Ledger!LedgerInit
    <2> SUFFICES ASSUME Init
                 PROVE  Ledger!LedgerInit
      OBVIOUS
    <2>1. \A u \in Units : \A a \in Attempts : runs[<<u, a>>] = "ABSENT"
      BY DEF Init, RunIds
    <2>2. ASSUME NEW u \in Units
          PROVE  [a \in 1 .. LastAttempt(u) |-> runs[<<u, a>>]] = <<>>
      <3>1. {a \in Attempts : runs[<<u, a>>] # "ABSENT"} = {}
        BY <2>1
      <3>2. LastAttempt(u) = 0
        BY <3>1, FS_EmptySet DEF LastAttempt
      <3>3. QED
        BY <3>2
    <2>3. QED
      BY <2>2 DEF Ledger!LedgerInit, Books
  <1>2. Init => LedgerInv
    BY DEF Init, LedgerInv
  <1>3. TypeOK /\ LedgerInv /\ [Next]_vars => LedgerInv'
    BY LedgerStep
  <1>4. Spec => []UnrivalledInv /\ []TypeOK
    BY ClaimInvariant, TypeCorrect, PTL
  <1>5. TypeOK /\ UnrivalledInv /\ UnrivalledInv' /\ LedgerInv /\ [Next]_vars
          => [Ledger!LedgerNext \/ rivals']_Books
    BY RivalsRemain, StepIsLedgers DEF UnrivalledInv
  <1>6. QED
    BY <1>1, <1>2, <1>3, <1>4, <1>5, PTL DEF Spec, ImplementsLedger
=============================================================================
