------------------------ MODULE CollectionIntakeProofs ------------------------
(***************************************************************************)
(* Theorems about CollectionIntake for all registrars, code versions,      *)
(* files and bounds.                                                       *)
(***************************************************************************)
EXTENDS CollectionIntake, TLAPS

\* What a registrar remembers is what the database has, and it runs the code
\* version of the run it writes to.
RegistrarInv ==
  \A p \in Registrars :
    /\ pc[p] # "idle" => run # "ABSENT" /\ version[p] = runVersion
    /\ \A f \in registered[p] : artifacts[f] # None
    /\ edges[p] \subseteq linked
    /\ pc[p] \in {"lineage", "finishRun"} => registered[p] = Files
    /\ pc[p] = "finishRun" => step = "SUCCEEDED"

\* Success is recorded bottom-up: rows, then the step, then the run.
RowsInv ==
  /\ run # "ABSENT" => runVersion \in Versions
  /\ run = "ABSENT" => \A f \in Files : artifacts[f] = None
  /\ step = "SUCCEEDED" => Complete
  /\ run = "SUCCEEDED" => step = "SUCCEEDED"
  /\ OneCodeVersion

IntakeInv == IntakeTypeOK /\ RegistrarInv /\ RowsInv

LEMMA IntakeInit == Init => IntakeInv
  <1> SUFFICES ASSUME Init
               PROVE  IntakeInv
    OBVIOUS
  <1>1. IntakeTypeOK
    BY BoundsAssumption DEF Init, IntakeTypeOK, Row, RegistrarPC, RecoveryPC
  <1>2. RegistrarInv /\ RowsInv
    BY DEF Init, RegistrarInv, RowsInv, OneCodeVersion
  <1>3. QED
    BY <1>1, <1>2 DEF IntakeInv

LEMMA Transitions ==
  \A s \in Row :
    /\ CanTransition(s, "RUNNING") <=> s \in {"PENDING", "RUNNING"}
    /\ CanTransition(s, "FAILED") <=> s \in {"RUNNING", "FAILED"}
    /\ CanTransition(s, "SUCCEEDED") <=> s \in {"RUNNING", "SUCCEEDED"}
  <1> TAKE s \in Row
  <1>1. CASE s = "ABSENT"
    BY <1>1 DEF CanTransition, Status, Terminal
  <1>2. CASE s = "PENDING"
    BY <1>2 DEF CanTransition, AllowedTransitions, Status, Terminal
  <1>3. CASE s = "RUNNING"
    BY <1>3 DEF CanTransition, AllowedTransitions, Status, Terminal
  <1>4. CASE s \in Terminal
    BY <1>4 DEF CanTransition, AllowedTransitions, Status, Terminal
  <1>5. QED
    BY <1>1, <1>2, <1>3, <1>4 DEF Row, Status

\* A call that ends forgets its locals and leaves the rows alone.
LEMMA AnswerStep ==
  ASSUME IntakeInv, NEW p \in Registrars, NEW how \in {"registered", "refused", "raised"},
         Answer(p, how), UNCHANGED <<rows, rpc>>, faults' \in 0 .. MaxFaults, recoveries' = recoveries
  PROVE  IntakeInv'
  <1>1. IntakeTypeOK'
    BY DEF IntakeInv, IntakeTypeOK, Answer, Goto, RegistrarPC, rows
  <1>2. RegistrarInv'
    BY DEF IntakeInv, IntakeTypeOK, RegistrarInv, Answer, Goto, rows
  <1>3. RowsInv'
    BY DEF IntakeInv, RowsInv, Complete, OneCodeVersion, rows
  <1>4. QED
    BY <1>1, <1>2, <1>3 DEF IntakeInv

LEMMA RegisterStep ==
  ASSUME IntakeInv, NEW p \in Registrars, NEW v \in Versions, Register(p, v)
  PROVE  IntakeInv'
  <1>1. CASE CreateRun(p, v)
    <2> USE <1>1 DEF CreateRun, Enter, Resume, Insert, Goto, bounds, IntakeInv
    <2>1. IntakeTypeOK'
      BY DEF IntakeTypeOK, Row, Status, RegistrarPC
    <2>2. RegistrarInv'
      BY DEF IntakeTypeOK, RegistrarInv
    <2>3. RowsInv'
      BY DEF RowsInv, Complete, OneCodeVersion
    <2>4. QED
      BY <2>1, <2>2, <2>3
  <1>2. CASE JoinRun(p, v)
    <2> USE <1>2 DEF JoinRun, Enter, Resume, Goto, rows, bounds, IntakeInv
    <2>1. IntakeTypeOK'
      BY DEF IntakeTypeOK, RegistrarPC
    <2>2. RegistrarInv'
      BY DEF IntakeTypeOK, RegistrarInv
    <2>3. RowsInv'
      BY DEF RowsInv, Complete, OneCodeVersion
    <2>4. QED
      BY <2>1, <2>2, <2>3
  <1>3. CASE AlreadyRegistered(p, v) \/ VersionConflict(p, v)
    BY <1>3, AnswerStep DEF AlreadyRegistered, VersionConflict, bounds, IntakeInv, IntakeTypeOK
  <1>4. QED
    BY <1>1, <1>2, <1>3 DEF Register

LEMMA RegistrarPreserves ==
  ASSUME IntakeInv, NEW p \in Registrars, RegistrarStep(p)
  PROVE  IntakeInv'
  <1> USE DEF IntakeInv, Goto
  <1>1. CASE BeginRun(p)
    <2>1. CASE CanTransition(run, "RUNNING")
      <3> USE <1>1, <2>1, Transitions DEF BeginRun, MoveRun, bounds
      <3>1. IntakeTypeOK'
        BY DEF IntakeTypeOK, Row, Status, RegistrarPC
      <3>2. RegistrarInv'
        BY DEF IntakeTypeOK, RegistrarInv
      <3>3. RowsInv'
        BY DEF IntakeTypeOK, RegistrarInv, RowsInv, Complete, OneCodeVersion
      <3>4. QED
        BY <3>1, <3>2, <3>3
    <2>2. CASE ~CanTransition(run, "RUNNING")
      BY <1>1, <2>2, AnswerStep DEF BeginRun, MoveRun, rows, bounds, IntakeTypeOK
    <2>3. QED
      BY <2>1, <2>2
  <1>2. CASE CreateStep(p)
    <2> USE <1>2 DEF CreateStep, Insert, bounds
    <2>1. IntakeTypeOK'
      BY DEF IntakeTypeOK, Row, Status, RegistrarPC
    <2>2. RegistrarInv'
      BY DEF IntakeTypeOK, RegistrarInv
    <2>3. RowsInv'
      BY DEF IntakeTypeOK, RowsInv, Complete, OneCodeVersion
    <2>4. QED
      BY <2>1, <2>2, <2>3
  <1>3. CASE ReadStep(p)
    <2> USE <1>3 DEF ReadStep, rows, bounds
    <2>1. IntakeTypeOK'
      BY DEF IntakeTypeOK, RegistrarPC
    <2>2. RegistrarInv'
      BY DEF IntakeTypeOK, RegistrarInv
    <2>3. RowsInv'
      BY DEF RowsInv, Complete, OneCodeVersion
    <2>4. QED
      BY <2>1, <2>2, <2>3
  <1>4. CASE BeginStep(p)
    <2>1. CASE CanTransition(step, "RUNNING")
      <3> USE <1>4, <2>1, Transitions DEF BeginStep, MoveStep, bounds
      <3>1. IntakeTypeOK'
        BY DEF IntakeTypeOK, Row, Status, RegistrarPC
      <3>2. step # "SUCCEEDED" /\ run # "SUCCEEDED"
        BY DEF IntakeTypeOK, RowsInv
      <3>3. RegistrarInv'
        BY <3>2 DEF IntakeTypeOK, RegistrarInv
      <3>4. RowsInv'
        BY <3>2 DEF RowsInv, Complete, OneCodeVersion
      <3>5. QED
        BY <3>1, <3>3, <3>4
    <2>2. CASE ~CanTransition(step, "RUNNING")
      BY <1>4, <2>2, AnswerStep DEF BeginStep, MoveStep, rows, bounds, IntakeTypeOK
    <2>3. QED
      BY <2>1, <2>2
  <1>5. ASSUME NEW f \in Files, RegisterArtifact(p, f)
        PROVE  IntakeInv'
    <2> USE <1>5 DEF RegisterArtifact, bounds
    <2>1. IntakeTypeOK'
      BY DEF IntakeTypeOK, RegistrarPC
    <2>2. version[p] = runVersion /\ runVersion \in Versions /\ run # "ABSENT"
      BY DEF RegistrarInv, RowsInv
    <2>3. \A g \in Files : artifacts[g] # None => artifacts'[g] = artifacts[g]
      BY DEF IntakeTypeOK
    <2>4. artifacts'[f] # None
      BY <2>2, NoneAssumption DEF IntakeTypeOK
    <2>5. RegistrarInv'
      BY <2>3, <2>4 DEF IntakeTypeOK, RegistrarInv
    <2>6. RowsInv'
      BY <2>2, <2>3 DEF IntakeTypeOK, RowsInv, Complete, OneCodeVersion
    <2>7. QED
      BY <2>1, <2>5, <2>6
  <1>6. ASSUME NEW f \in Files, AddLineage(p, f)
        PROVE  IntakeInv'
    <2> USE <1>6 DEF AddLineage, bounds
    <2>1. IntakeTypeOK'
      BY DEF IntakeTypeOK
    <2>2. RegistrarInv'
      BY DEF IntakeTypeOK, RegistrarInv
    <2>3. RowsInv'
      BY DEF IntakeTypeOK, RowsInv, Complete, OneCodeVersion
    <2>4. QED
      BY <2>1, <2>2, <2>3
  <1>7. CASE FinishStep(p)
    <2>1. CASE CanTransition(step, "SUCCEEDED")
      <3> USE <1>7, <2>1, Transitions DEF FinishStep, MoveStep, bounds
      <3>1. IntakeTypeOK'
        BY DEF IntakeTypeOK, Row, Status, Terminal, RegistrarPC
      <3>2. RegistrarInv'
        BY DEF IntakeTypeOK, RegistrarInv
      <3>3. Complete'
        BY DEF IntakeTypeOK, RegistrarInv, Complete
      <3>4. RowsInv'
        BY <3>3 DEF RowsInv, OneCodeVersion
      <3>5. QED
        BY <3>1, <3>2, <3>4
    <2>2. CASE ~CanTransition(step, "SUCCEEDED")
      BY <1>7, <2>2, AnswerStep DEF FinishStep, MoveStep, rows, bounds, IntakeTypeOK
    <2>3. QED
      BY <2>1, <2>2
  <1>8. CASE FinishRun(p)
    <2>1. CASE CanTransition(run, "SUCCEEDED")
      <3> USE <1>8, <2>1, Transitions DEF FinishRun, Answer, bounds
      <3>1. IntakeTypeOK'
        BY DEF IntakeTypeOK, Row, Status, Terminal, RegistrarPC
      <3>2. RegistrarInv'
        BY DEF IntakeTypeOK, RegistrarInv
      <3>3. RowsInv'
        BY DEF RegistrarInv, RowsInv, Complete, OneCodeVersion
      <3>4. QED
        BY <3>1, <3>2, <3>3
    <2>2. CASE ~CanTransition(run, "SUCCEEDED")
      BY <1>8, <2>2, AnswerStep DEF FinishRun, rows, bounds, IntakeTypeOK
    <2>3. QED
      BY <2>1, <2>2
  <1>9. QED
    BY <1>1, <1>2, <1>3, <1>4, <1>5, <1>6, <1>7, <1>8, RegistrarStep(p) DEF RegistrarStep

LEMMA RecoveryPreserves ==
  ASSUME IntakeInv, Recovery
  PROVE  IntakeInv'
  <1> USE DEF IntakeInv, locals
  <1>1. CASE ListStaleRuns \/ ReadStaleSteps \/ RecoveryFault
    <2> USE <1>1, BoundsAssumption DEF ListStaleRuns, ReadStaleSteps, RecoveryFault, rows, bounds
    <2>1. IntakeTypeOK'
      BY DEF IntakeTypeOK, RecoveryPC
    <2>2. RegistrarInv' /\ RowsInv'
      BY DEF RegistrarInv, RowsInv, Complete, OneCodeVersion
    <2>3. QED
      BY <2>1, <2>2
  <1>2. CASE RecoverRun
    <2> USE <1>2, Transitions DEF RecoverRun, bounds
    <2>1. IntakeTypeOK'
      BY DEF IntakeTypeOK, RecoveryPC, Row, Status, Terminal
    <2>2. RegistrarInv' /\ RowsInv'
      BY DEF IntakeTypeOK, RegistrarInv, RowsInv, Complete, OneCodeVersion
    <2>3. QED
      BY <2>1, <2>2
  <1>3. CASE RecoverStep
    <2> USE <1>3, Transitions DEF RecoverStep, bounds
    <2>1. IntakeTypeOK'
      BY DEF IntakeTypeOK, RecoveryPC, Row, Status, Terminal
    <2>2. step = "SUCCEEDED" => step' = "SUCCEEDED"
      BY DEF IntakeTypeOK
    <2>3. step' \in {step, "FAILED"}
      OBVIOUS
    <2>4. RegistrarInv' /\ RowsInv'
      BY <2>2, <2>3 DEF RegistrarInv, RowsInv, Complete, OneCodeVersion
    <2>5. QED
      BY <2>1, <2>4
  <1>4. QED
    BY <1>1, <1>2, <1>3 DEF Recovery

LEMMA IntakeStep == IntakeInv /\ [Next]_vars => IntakeInv'
  <1> SUFFICES ASSUME IntakeInv, [Next]_vars
               PROVE  IntakeInv'
    OBVIOUS
  <1>1. ASSUME NEW p \in Registrars, Fault(p)
        PROVE  IntakeInv'
    BY <1>1, AnswerStep, BoundsAssumption DEF Fault, IntakeInv, IntakeTypeOK
  <1>2. CASE UNCHANGED vars
    BY <1>2 DEF vars, rows, locals, bounds, IntakeInv, IntakeTypeOK, RegistrarInv, RowsInv,
         Complete, OneCodeVersion
  <1>3. QED
    BY <1>1, <1>2, RegisterStep, RegistrarPreserves, RecoveryPreserves DEF Next

LEMMA IntakeInvariant == Spec => []IntakeInv
  BY IntakeInit, IntakeStep, PTL DEF Spec

\* A SUCCEEDED intake run has its step, all artifacts and all lineage edges,
\* for any number of registrars racing each other and a recovery
\* (register_accepted_submission).
THEOREM SuccessIsComplete == Spec => []SucceededIsComplete
  <1>1. IntakeInv => SucceededIsComplete
    BY DEF IntakeInv, RowsInv, SucceededIsComplete
  <1>2. QED
    BY <1>1, IntakeInvariant, PTL

\* Every artifact row of the run carries the code version of the run
\* (MetadataRepository.create_run).
THEOREM VersionsDoNotMix == Spec => []OneCodeVersion
  <1>1. IntakeInv => OneCodeVersion
    BY DEF IntakeInv, RowsInv
  <1>2. QED
    BY <1>1, IntakeInvariant, PTL

\* The rows of an intake, what every registrar holds and the recovery keep their
\* types (register_accepted_submission, recover_stale_runs).
THEOREM IntakeTyped == Spec => []IntakeTypeOK
  <1>1. IntakeInv => IntakeTypeOK
    BY DEF IntakeInv
  <1>2. QED
    BY <1>1, IntakeInvariant, PTL
=============================================================================
