--------------------------- MODULE CollectionIntake ---------------------------
(***************************************************************************)
(* Registration of one accepted collection bundle in the metadata          *)
(* database.  Registrars - the command line, a Dagster asset and its       *)
(* automatic retries - run register_accepted_submission in processes of    *)
(* their own, while a starting console recovers whatever run it finds      *)
(* RUNNING.  The run id is made of the content hash, so every registration *)
(* of the bundle is about the same run; the bundle's files do not change.  *)
(* One repository call is one transaction and one step.                    *)
(***************************************************************************)
EXTENDS Naturals, RunStatus

CONSTANTS
  Registrars,      \* processes that may register the bundle
  Versions,        \* code versions they run
  Files,           \* files of the bundle
  Manifest,        \* the collection_manifest among them
  None,            \* no version
  MaxFaults,       \* bound: exceptions and deaths of a process between two calls
  MaxRecoveries    \* bound: starts of the console

ASSUME FilesAssumption  == Manifest \in Files
ASSUME BoundsAssumption == MaxFaults \in Nat /\ MaxRecoveries \in Nat
ASSUME NoneAssumption   == None \notin Versions

RegistrarPC == {"idle", "begin", "createStep", "readStep", "beginStep",
                "artifacts", "lineage", "finishStep", "finishRun"}
RecoveryPC  == {"idle", "failRun", "readSteps", "failStep"}

VARIABLES
  run, runVersion,  \* status and code_version of the run's row
  step,             \* status of the step's row
  artifacts,        \* code_version of each file's artifact row
  linked,           \* files whose BUNDLED_IN edge to the manifest is recorded
  pc, version, registered, edges, \* per registrar: locals
  answer,           \* per registrar: how its last call ended
  rpc,              \* the recovery of a starting console
  faults, recoveries

rows   == <<run, runVersion, step, artifacts, linked>>
locals == <<pc, version, registered, edges, answer>>
bounds == <<faults, recoveries>>
vars   == <<rows, locals, rpc, bounds>>

IntakeTypeOK ==
  /\ run \in Row /\ step \in Row
  /\ runVersion \in Versions \cup {None}
  /\ artifacts \in [Files -> Versions \cup {None}]
  /\ linked \subseteq Files \ {Manifest}
  /\ pc \in [Registrars -> RegistrarPC]
  /\ version \in [Registrars -> Versions \cup {None}]
  /\ registered \in [Registrars -> SUBSET Files]
  /\ edges \in [Registrars -> SUBSET (Files \ {Manifest})]
  /\ answer \in [Registrars -> {"none", "registered", "refused", "raised"}]
  /\ rpc \in RecoveryPC
  /\ faults \in 0 .. MaxFaults /\ recoveries \in 0 .. MaxRecoveries

Init ==
  /\ run = "ABSENT" /\ runVersion = None /\ step = "ABSENT"
  /\ artifacts = [f \in Files |-> None] /\ linked = {}
  /\ pc = [p \in Registrars |-> "idle"]
  /\ version = [p \in Registrars |-> None]
  /\ registered = [p \in Registrars |-> {}]
  /\ edges = [p \in Registrars |-> {}]
  /\ answer = [p \in Registrars |-> "none"]
  /\ rpc = "idle" /\ faults = 0 /\ recoveries = 0

-----------------------------------------------------------------------------
(* register_accepted_submission.                                           *)

Goto(p, label) == pc' = [pc EXCEPT ![p] = label]

\* The call ends: with the snapshot, or with an exception.
Answer(p, how) ==
  /\ Goto(p, "idle")
  /\ answer' = [answer EXCEPT ![p] = how]
  /\ version' = [version EXCEPT ![p] = None]
  /\ registered' = [registered EXCEPT ![p] = {}]
  /\ edges' = [edges EXCEPT ![p] = {}]

\* Where a call goes on that found the run with this status; a run that is
\* over without success is not told from one that is running.
Resume(status) == IF status = "PENDING" THEN "begin" ELSE "createStep"

Enter(p, v, status) ==
  /\ Goto(p, Resume(status))
  /\ version' = [version EXCEPT ![p] = v]
  /\ answer' = [answer EXCEPT ![p] = "none"]
  /\ UNCHANGED <<registered, edges>>

CreateRun(p, v) ==
  /\ pc[p] = "idle" /\ run = "ABSENT"
  /\ run' = Insert(run) /\ runVersion' = v
  /\ Enter(p, v, "PENDING")
  /\ UNCHANGED <<step, artifacts, linked, rpc, bounds>>

\* Bug: the existing row is not compared with the record.
JoinRunUnchecked(p, v) ==
  /\ pc[p] = "idle" /\ run \notin {"ABSENT", "SUCCEEDED"}
  /\ Enter(p, v, run)
  /\ UNCHANGED <<rows, rpc, bounds>>
JoinRun(p, v) ==
  /\ pc[p] = "idle" /\ run \notin {"ABSENT", "SUCCEEDED"} /\ v = runVersion
  /\ Enter(p, v, run)
  /\ UNCHANGED <<rows, rpc, bounds>>

AlreadyRegistered(p, v) ==
  /\ pc[p] = "idle" /\ run = "SUCCEEDED" /\ v = runVersion
  /\ Answer(p, "registered")
  /\ UNCHANGED <<rows, rpc, bounds>>

\* MetadataConflictError: the row was written by another code version.
VersionConflict(p, v) ==
  /\ pc[p] = "idle" /\ run # "ABSENT" /\ v # runVersion
  /\ Answer(p, "refused")
  /\ UNCHANGED <<rows, rpc, bounds>>

\* transition_run and transition_step: refused where the table has no such move.
MoveRun(p, target, label) ==
  IF CanTransition(run, target)
  THEN run' = target /\ Goto(p, label) /\ UNCHANGED <<version, registered, edges, answer>>
  ELSE UNCHANGED run /\ Answer(p, "refused")

MoveStep(p, target, label) ==
  IF CanTransition(step, target)
  THEN step' = target /\ Goto(p, label) /\ UNCHANGED <<version, registered, edges, answer>>
  ELSE UNCHANGED step /\ Answer(p, "refused")

BeginRun(p) ==
  /\ pc[p] = "begin"
  /\ MoveRun(p, "RUNNING", "createStep")
  /\ UNCHANGED <<runVersion, step, artifacts, linked, rpc, bounds>>

CreateStep(p) ==
  /\ pc[p] = "createStep"
  /\ step' = Insert(step)
  /\ Goto(p, "readStep")
  /\ UNCHANGED <<run, runVersion, artifacts, linked, version, registered, edges, answer, rpc, bounds>>

\* Bug: the step is begun whatever its status.
ReadStepIgnored(p) ==
  /\ pc[p] = "readStep"
  /\ Goto(p, "beginStep")
  /\ UNCHANGED <<rows, version, registered, edges, answer, rpc, bounds>>
ReadStep(p) ==
  /\ pc[p] = "readStep"
  /\ Goto(p, IF step = "PENDING" THEN "beginStep" ELSE "artifacts")
  /\ UNCHANGED <<rows, version, registered, edges, answer, rpc, bounds>>

BeginStep(p) ==
  /\ pc[p] = "beginStep"
  /\ MoveStep(p, "RUNNING", "artifacts")
  /\ UNCHANGED <<run, runVersion, artifacts, linked, rpc, bounds>>

\* An artifact id is made of the run id, the name and the checksum: a row that
\* exists is kept.
RegisterArtifact(p, f) ==
  /\ pc[p] = "artifacts" /\ f \notin registered[p]
  /\ artifacts' = [artifacts EXCEPT ![f] = IF @ = None THEN version[p] ELSE @]
  /\ registered' = [registered EXCEPT ![p] = @ \cup {f}]
  /\ Goto(p, IF registered'[p] = Files THEN "lineage" ELSE "artifacts")
  /\ UNCHANGED <<run, runVersion, step, linked, version, edges, answer, rpc, bounds>>

AddLineage(p, f) ==
  /\ pc[p] = "lineage" /\ f \notin edges[p] /\ f # Manifest
  /\ linked' = linked \cup {f}
  /\ edges' = [edges EXCEPT ![p] = @ \cup {f}]
  /\ UNCHANGED <<run, runVersion, step, artifacts, pc, version, registered, answer, rpc, bounds>>

\* Bug: the lineage that is missing is left to another registrar.
FinishStepWithoutLineage(p) ==
  /\ pc[p] = "lineage"
  /\ MoveStep(p, "SUCCEEDED", "finishRun")
  /\ UNCHANGED <<run, runVersion, artifacts, linked, rpc, bounds>>
FinishStep(p) ==
  /\ pc[p] = "lineage" /\ edges[p] = Files \ {Manifest}
  /\ MoveStep(p, "SUCCEEDED", "finishRun")
  /\ UNCHANGED <<run, runVersion, artifacts, linked, rpc, bounds>>

FinishRun(p) ==
  /\ pc[p] = "finishRun"
  /\ IF CanTransition(run, "SUCCEEDED")
     THEN run' = "SUCCEEDED" /\ Answer(p, "registered")
     ELSE UNCHANGED run /\ Answer(p, "refused")
  /\ UNCHANGED <<runVersion, step, artifacts, linked, rpc, bounds>>

\* A database call raises or the process ends; what is committed stays.
Fault(p) ==
  /\ pc[p] # "idle" /\ faults < MaxFaults
  /\ faults' = faults + 1
  /\ Answer(p, "raised")
  /\ UNCHANGED <<rows, rpc, recoveries>>

-----------------------------------------------------------------------------
(* recover_stale_runs of a starting console, as far as it meets this run.  *)

ListStaleRuns ==
  /\ rpc = "idle" /\ run = "RUNNING" /\ recoveries < MaxRecoveries
  /\ recoveries' = recoveries + 1
  /\ rpc' = "failRun"
  /\ UNCHANGED <<rows, locals, faults>>

\* The transition is refused where the run has ended since: the start fails.
RecoverRun ==
  /\ rpc = "failRun"
  /\ IF CanTransition(run, "FAILED") THEN run' = "FAILED" /\ rpc' = "readSteps"
                                     ELSE UNCHANGED run /\ rpc' = "idle"
  /\ UNCHANGED <<runVersion, step, artifacts, linked, locals, bounds>>

ReadStaleSteps ==
  /\ rpc = "readSteps"
  /\ rpc' = IF step = "RUNNING" THEN "failStep" ELSE "idle"
  /\ UNCHANGED <<rows, locals, bounds>>

RecoverStep ==
  /\ rpc = "failStep"
  /\ IF CanTransition(step, "FAILED") THEN step' = "FAILED" ELSE UNCHANGED step
  /\ rpc' = "idle"
  /\ UNCHANGED <<run, runVersion, artifacts, linked, locals, bounds>>

RecoveryFault ==
  /\ rpc # "idle" /\ faults < MaxFaults
  /\ faults' = faults + 1
  /\ rpc' = "idle"
  /\ UNCHANGED <<rows, locals, recoveries>>

-----------------------------------------------------------------------------
Register(p, v) ==
  CreateRun(p, v) \/ JoinRun(p, v) \/ AlreadyRegistered(p, v) \/ VersionConflict(p, v)

RegistrarStep(p) ==
  \/ BeginRun(p) \/ CreateStep(p) \/ ReadStep(p) \/ BeginStep(p)
  \/ \E f \in Files : RegisterArtifact(p, f)
  \/ \E f \in Files : AddLineage(p, f)
  \/ FinishStep(p) \/ FinishRun(p)

Recovery == ListStaleRuns \/ RecoverRun \/ ReadStaleSteps \/ RecoverStep \/ RecoveryFault

Next ==
  \/ \E p \in Registrars :
       \/ \E v \in Versions : Register(p, v)
       \/ RegistrarStep(p) \/ Fault(p)
  \/ Recovery

Spec == Init /\ [][Next]_vars

\* A process that runs goes on; an asset whose call raised or was refused is
\* called again by Dagster (a retry policy of two retries, as many as the
\* faults of the checked instance need).
FairSpec ==
  /\ Spec
  /\ \A p \in Registrars : WF_vars(RegistrarStep(p))
  /\ \A p \in Registrars : WF_vars(answer[p] \in {"refused", "raised"} /\ \E v \in Versions : Register(p, v))

-----------------------------------------------------------------------------
(* Properties.                                                             *)

Complete ==
  /\ step = "SUCCEEDED"
  /\ \A f \in Files : artifacts[f] # None
  /\ linked = Files \ {Manifest}

\* A SUCCEEDED intake run is complete - step, artifacts and lineage - although
\* several registrars and a recovery write the same rows in transactions of
\* their own and any of them may stop half-way (register_accepted_submission).
SucceededIsComplete == run = "SUCCEEDED" => Complete

\* All rows of the run were written by the code version the run carries: the
\* comparison made when a call joins the run covers everything it writes later
\* (MetadataRepository.create_run).
OneCodeVersion == \A f \in Files : artifacts[f] \in {None, runVersion}

\* Once processes stop failing, a bundle whose registration was begun gets
\* registered, whoever of the concurrent registrars is refused on the way -
\* unless a starting console took the registration for a stale run.
IntakeSettles ==
  (run # "ABSENT" /\ faults = MaxFaults /\ \E p \in Registrars : pc[p] # "idle")
    ~> (run = "SUCCEEDED" \/ recoveries > 0)
=============================================================================
