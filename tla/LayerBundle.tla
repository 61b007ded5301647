----------------------------- MODULE LayerBundle -----------------------------
(***************************************************************************)
(* The medallion bundles on the shared volume.  A run of a stage reads     *)
(* files of earlier layers one after the other, writes its own result into *)
(* a staging directory of its attempt and promotes it file by file over    *)
(* the layer's bundle, the manifest last; stages of different layers run   *)
(* at the same time, and a gold bundle may be published once.  A run or    *)
(* the process may stop between any two files.                             *)
(*                                                                         *)
(* A file is identified with the run that wrote it: every run stamps its   *)
(* id and time into what it writes, so no two runs write the same bytes.   *)
(***************************************************************************)
EXTENDS Naturals, Sequences

CONSTANTS
  Layers, Files,
  Manifest,        \* the file promoted last, which the next stage looks for
  Outputs,         \* per layer: its files in the order of promotion
  Reads,           \* per layer: the <<layer, file>> it reads, in order
  Sealed,          \* layers whose bundle may not be published again (gold)
  Strict,          \* layers that fail when no record is usable (the bronzes)
  Quarantining,    \* layers that fail when some record is not (KFIA bronze)
  Rechecks,        \* layers that check a manifest's count again when reading it
  Serial,          \* whether a layer has at most one active run: PipelineService
                   \* grants it when one thread at a time finds its cache empty
  MaxAttempts,     \* bound: runs per layer
  MaxFaults        \* bound: exceptions and deaths of the process

Attempts == 1 .. MaxAttempts
Sources  == Layers \X Files
Runs     == Layers \X Attempts

ASSUME LayerAssumption ==
  /\ Manifest \in Files
  /\ Outputs \in [Layers -> Seq(Files)]
  /\ Reads \in [Layers -> Seq(Sources)]
  /\ Sealed \subseteq Layers /\ Strict \subseteq Layers /\ Rechecks \subseteq Layers
  /\ Quarantining \subseteq Strict
  /\ Serial \in BOOLEAN /\ MaxAttempts \in Nat /\ MaxFaults \in Nat

\* Every bundle ends with its manifest.
ASSUME OutputsAssumption ==
  \A l \in Layers :
    /\ Len(Outputs[l]) > 0
    /\ \A i \in DOMAIN Outputs[l] : Outputs[l][i] = Manifest <=> i = Len(Outputs[l])

VARIABLES
  bundle,   \* which run wrote a layer's file; 0: there is no such file
  pc,       \* per run
  pos,      \* per run: the next file to read or to promote
  seen,     \* per run: what it read, by the run that had written it
  usable,   \* per run: its result has records for the next stage
  faults

vars == <<bundle, pc, pos, seen, usable, faults>>

LayerTypeOK ==
  /\ bundle \in [Sources -> 0 .. MaxAttempts]
  /\ pc \in [Runs -> {"none", "check", "read", "promote", "settle", "SUCCEEDED", "FAILED"}]
  /\ pos \in [Runs -> Nat \ {0}]
  /\ seen \in [Runs -> [Sources -> 0 .. MaxAttempts]]
  /\ usable \in [Runs -> BOOLEAN]
  /\ faults \in 0 .. MaxFaults
  /\ \A r \in Runs :
       /\ pc[r] \in {"none", "check"} => pos[r] = 1
       /\ pc[r] = "read" => pos[r] <= Len(Reads[r[1]]) + 1
       /\ pc[r] = "promote" => pos[r] <= Len(Outputs[r[1]])

Init ==
  /\ bundle = [s \in Sources |-> 0]
  /\ pc = [r \in Runs |-> "none"]
  /\ pos = [r \in Runs |-> 1]
  /\ seen = [r \in Runs |-> [s \in Sources |-> 0]]
  /\ usable = [r \in Runs |-> FALSE]
  /\ faults = 0

-----------------------------------------------------------------------------
Working       == {"check", "read", "promote", "settle"}
IsOver(r)     == pc[r] \in {"SUCCEEDED", "FAILED"}
Earlier(q, r) == q[1] = r[1] /\ q[2] < r[2]     \* runs of one layer

ManifestOf(l) == <<l, Manifest>>
Exists(s)     == bundle[s] # 0
Writer(s)     == <<s[1], bundle[s]>>             \* the run that wrote a file

\* A manifest with a count above zero.
Usable(l) == Exists(ManifestOf(l)) /\ usable[Writer(ManifestOf(l))]

FilesOf(l)    == {<<l, Outputs[l][i]>> : i \in DOMAIN Outputs[l]}

\* The layers whose manifest the stage reads.
Needs(l) == {k \in Layers : \E i \in DOMAIN Reads[l] : Reads[l][i] = ManifestOf(k)}

\* A stage reads the files of layers whose manifest it reads, and of those that
\* their stages need (gold: the silver layers of its reconciliation).
ASSUME ReadsAssumption ==
  \A l \in Layers : \A i \in DOMAIN Reads[l] :
    LET layer == Reads[l][i][1] IN
    /\ Reads[l][i] \in FilesOf(layer)
    /\ layer \in Needs(l) \/ \E k \in Needs(l) : layer \in Needs(k)

\* check_prerequisites.
\* Bug: an existing gold bundle is not looked for.
PrerequisitesUnsealed(l) == \A k \in Needs(l) : Usable(k)
Prerequisites(l) ==
  /\ \A k \in Needs(l) : Usable(k)
  /\ l \in Sealed => ~Exists(ManifestOf(l))

\* start_run, as far as it matters here: PipelineService has the rest.
\* Bug: a second run of the stage is let in.
StartBeside(r) ==
  /\ pc[r] = "none" /\ \A q \in Runs : Earlier(q, r) => pc[q] # "none"
  /\ Prerequisites(r[1])
  /\ pc' = [pc EXCEPT ![r] = "check"]
  /\ UNCHANGED <<bundle, pos, seen, usable, faults>>
Start(r) ==
  /\ pc[r] = "none" /\ \A q \in Runs : Earlier(q, r) => pc[q] # "none"
  /\ Serial => \A q \in Runs : Earlier(q, r) => IsOver(q)
  /\ Prerequisites(r[1])
  /\ pc' = [pc EXCEPT ![r] = "check"]
  /\ UNCHANGED <<bundle, pos, seen, usable, faults>>

\* execute checks once more, and the publisher looks for a gold bundle itself.
Check(r) ==
  /\ pc[r] = "check"
  /\ pc' = [pc EXCEPT ![r] = IF Prerequisites(r[1]) THEN "read" ELSE "FAILED"]
  /\ UNCHANGED <<bundle, pos, seen, usable, faults>>

\* The manifests and then the records, each opened by a call of its own; the
\* silver stages reject a manifest that counts no valid record.
Read(r) ==
  /\ pc[r] = "read" /\ pos[r] <= Len(Reads[r[1]])
  /\ LET source == Reads[r[1]][pos[r]] IN
     /\ seen' = [seen EXCEPT ![r][source] = bundle[source]]
     /\ IF source[2] = Manifest /\ r[1] \in Rechecks /\ ~Usable(source[1])
        THEN pc' = [pc EXCEPT ![r] = "FAILED"] /\ UNCHANGED pos
        ELSE pos' = [pos EXCEPT ![r] = @ + 1] /\ UNCHANGED pc
  /\ UNCHANGED <<bundle, usable, faults>>

\* The result is computed and staged; no record comes out of empty inputs.
Stage(r) ==
  /\ pc[r] = "read" /\ pos[r] = Len(Reads[r[1]]) + 1
  /\ \E some \in BOOLEAN :
       /\ some => \A s \in Sources : seen[r][s] # 0 => usable[<<s[1], seen[r][s]>>]
       /\ usable' = [usable EXCEPT ![r] = some]
  /\ pc' = [pc EXCEPT ![r] = "promote"]
  /\ pos' = [pos EXCEPT ![r] = 1]
  /\ UNCHANGED <<bundle, seen, faults>>

\* promote_staging: one rename per file.
\* Bug: the manifest goes first.
NextOutputReversed(r) == <<r[1], Outputs[r[1]][Len(Outputs[r[1]]) + 1 - pos[r]]>>
NextOutput(r) == <<r[1], Outputs[r[1]][pos[r]]>>

Promote(r) ==
  /\ pc[r] = "promote"
  /\ bundle' = [bundle EXCEPT ![NextOutput(r)] = r[2]]
  /\ IF pos[r] = Len(Outputs[r[1]])
     THEN pc' = [pc EXCEPT ![r] = "settle"] /\ UNCHANGED pos
     ELSE pos' = [pos EXCEPT ![r] = @ + 1] /\ UNCHANGED pc
  /\ UNCHANGED <<seen, usable, faults>>

\* The stage's result becomes the run's status: a bronze without valid records
\* failed, and so did a KFIA bronze that quarantined any.
Settle(r) ==
  /\ pc[r] = "settle"
  /\ \E quarantined \in BOOLEAN :
       pc' = [pc EXCEPT ![r] =
                IF (r[1] \in Strict /\ ~usable[r]) \/ (r[1] \in Quarantining /\ quarantined)
                THEN "FAILED" ELSE "SUCCEEDED"]
  /\ UNCHANGED <<bundle, pos, seen, usable, faults>>

\* An exception ends one run ...
Fault(r) ==
  /\ pc[r] \in Working /\ faults < MaxFaults
  /\ faults' = faults + 1
  /\ pc' = [pc EXCEPT ![r] = "FAILED"]
  /\ UNCHANGED <<bundle, pos, seen, usable>>

\* ... and a death of the process all of them; recovery fails their rows.
Crash ==
  /\ faults < MaxFaults /\ \E r \in Runs : pc[r] \in Working
  /\ faults' = faults + 1
  /\ pc' = [r \in Runs |-> IF pc[r] \in Working THEN "FAILED" ELSE pc[r]]
  /\ UNCHANGED <<bundle, pos, seen, usable>>

RunStep(r) == Check(r) \/ Read(r) \/ Stage(r) \/ Promote(r) \/ Settle(r)

Next ==
  \/ \E r \in Runs : Start(r) \/ RunStep(r) \/ Fault(r)
  \/ Crash

Spec == Init /\ [][Next]_vars

-----------------------------------------------------------------------------
(* Properties.                                                             *)

Published(l) == Exists(ManifestOf(l))

\* A gold bundle that has a manifest is whole - all its files are of one run -
\* wherever earlier publications stopped (promote_staging).
SealedIsWhole ==
  \A l \in Sealed : Published(l) =>
    \A s \in FilesOf(l) : bundle[s] = bundle[ManifestOf(l)]

\* No run, retry or recovery ever changes a published gold bundle
\* (GoldDatasetVersionExistsError, check_prerequisites).
SealedIsFinal ==
  [][\A s \in Sources : s[1] \in Sealed /\ Published(s[1]) => bundle'[s] = bundle[s]]_vars

\* A bundle is a mixture of two runs only where one of them is still promoting
\* or has failed: runs that succeeded never mix (promote_staging).
WroteAndSucceeded(s) == Exists(s) /\ pc[Writer(s)] = "SUCCEEDED"
OnlyFailuresMix ==
  \A s \in Sources, t \in Sources :
    s[1] = t[1] /\ WroteAndSucceeded(s) /\ WroteAndSucceeded(t) => bundle[s] = bundle[t]

\* A stage that passed its prerequisites finds every file it opens, although
\* the layers it reads are being rewritten (the run functions raise
\* FileNotFoundError otherwise).
ReadersFindFiles ==
  \A r \in Runs : pc[r] = "read" =>
    \A i \in 1 .. pos[r] - 1 : seen[r][Reads[r[1]][i]] # 0

\* Of two runs of a stage the later one never worked from an older input than
\* the earlier one, so a re-run never takes a layer back.
NoOlderInput ==
  \A q \in Runs, r \in Runs : Earlier(q, r) =>
    \A s \in Sources : seen[r][s] # 0 => seen[q][s] <= seen[r][s]
=============================================================================
