------------------------------ MODULE Submission ------------------------------
(***************************************************************************)
(* submit_collection_batch: a collected batch is validated where the       *)
(* crawler and the parser write it, copied into a hidden directory of the  *)
(* inbox, sealed with its manifest and renamed to its final place.         *)
(* Submitters - the command line and the console's jobs - run in processes *)
(* of their own; meanwhile the working files may be written again, and a   *)
(* submitter may fail or die between any two files.                        *)
(*                                                                         *)
(* A version stands for the content of a file, so versions compare as      *)
(* their checksums do.                                                     *)
(***************************************************************************)
EXTENDS Naturals, Sequences

CONSTANTS
  Submitters,
  Operators,       \* those who pass submitted_by
  Files, Required, \* the hashed files, and those that may not be missing
  Products,        \* products.csv, which the manifest repeats row by row
  HashOrder,       \* the files in the order batch_sha256 reads them
  CopyOrder,       \* and in the order they are copied
  Versions,
  Invalid,         \* versions of products.csv the contract rejects
  None,            \* no file, no content
  MaxEdits,        \* bound: writes to the working files
  MaxFaults        \* bound: exceptions and deaths of submitters

ASSUME FilesAssumption ==
  /\ Products \in Required /\ Required \subseteq Files
  /\ HashOrder \in Seq(Files) /\ CopyOrder \in Seq(Files)
  /\ Len(HashOrder) > 0 /\ Len(CopyOrder) > 0
  /\ Operators \subseteq Submitters
  /\ None \notin Versions
ASSUME BoundsAssumption == MaxEdits \in Nat /\ MaxFaults \in Nat

Contents == [Files -> Versions \cup {None}]
Nothing  == [f \in Files |-> None]

SubmitterPC == {"idle", "identity", "adapt", "list", "hash", "final", "dupReport",
                "dupAudit", "copy", "compare", "seal", "rename", "report"}
Answers == {"none", "accepted", "duplicate", "rejected", "different", "mismatch", "raised"}

VARIABLES
  working,          \* the files as the crawler and the parser leave them
  final,            \* the accepted directory: its files, its manifest's products
                    \* and the checksum in its report; no manifest: no directory
  audit,            \* who is named in its submission_audit.json
  report,           \* the batch's local validation_report.json
  litter,           \* hidden directories that dead submitters left: none or some
  pc, pos,
  payload,          \* per submitter: the products that its manifest repeats
  found, hash, tmp, \* per submitter: the files hashed, their versions, its directory
  answer,
  edits, faults

shared == <<final, audit, report>>
locals == <<pos, payload, found, hash, tmp>>
vars   == <<working, shared, litter, pc, locals, answer, edits, faults>>

SubmissionTypeOK ==
  /\ working \in Contents
  /\ final \in [files : Contents, manifest : Versions \cup {None}, hash : Contents]
  /\ audit \in Operators \cup {None}
  /\ report \in [status : {"none", "REJECTED", "ACCEPTED"}, hash : Contents]
  /\ litter \in {"none", "some"}
  /\ pc \in [Submitters -> SubmitterPC] /\ pos \in [Submitters -> Nat \ {0}]
  /\ payload \in [Submitters -> Versions \cup {None}]
  /\ found \in [Submitters -> SUBSET Files]
  /\ hash \in [Submitters -> Contents] /\ tmp \in [Submitters -> Contents]
  /\ answer \in [Submitters -> Answers]
  /\ edits \in 0 .. MaxEdits /\ faults \in 0 .. MaxFaults
  /\ \A p \in Submitters :
       /\ pc[p] = "hash" => pos[p] <= Len(HashOrder)
       /\ pc[p] = "copy" => pos[p] <= Len(CopyOrder)

Init ==
  /\ working \in Contents
  /\ final = [files |-> Nothing, manifest |-> None, hash |-> Nothing]
  /\ audit = None
  /\ report = [status |-> "none", hash |-> Nothing]
  /\ litter = "none"
  /\ pc = [p \in Submitters |-> "idle"] /\ pos = [p \in Submitters |-> 1]
  /\ payload = [p \in Submitters |-> None]
  /\ found = [p \in Submitters |-> {}]
  /\ hash = [p \in Submitters |-> Nothing]
  /\ tmp = [p \in Submitters |-> Nothing]
  /\ answer = [p \in Submitters |-> "none"]
  /\ edits = 0 /\ faults = 0

-----------------------------------------------------------------------------
Accepted       == final.manifest # None
Goto(p, label) == pc' = [pc EXCEPT ![p] = label]
Private(p)     == pc[p] \in {"copy", "compare", "seal", "rename"}

\* The call ends; locals no later call reads are forgotten.
Answer(p, how) ==
  /\ Goto(p, "idle")
  /\ answer' = [answer EXCEPT ![p] = how]
  /\ pos' = [pos EXCEPT ![p] = 1]
  /\ payload' = [payload EXCEPT ![p] = None]
  /\ found' = [found EXCEPT ![p] = {}]
  /\ hash' = [hash EXCEPT ![p] = Nothing]
  /\ tmp' = [tmp EXCEPT ![p] = Nothing]

\* The crawler or the parser writes a file; neither deletes one.
Edit(f, v) ==
  /\ edits < MaxEdits /\ working[f] # v
  /\ edits' = edits + 1
  /\ working' = [working EXCEPT ![f] = v]
  /\ UNCHANGED <<shared, litter, pc, locals, answer, faults>>

-----------------------------------------------------------------------------
(* validate_collection_batch.                                              *)

Begin(p) ==
  /\ pc[p] = "idle"
  /\ Goto(p, "identity")
  /\ answer' = [answer EXCEPT ![p] = "none"]
  /\ UNCHANGED <<working, shared, litter, locals, edits, faults>>

\* A rejected batch leaves its reasons in the local report.
Reject(p) ==
  /\ report' = [status |-> "REJECTED", hash |-> Nothing]
  /\ Answer(p, "rejected")
  /\ UNCHANGED <<final, audit>>

Proceed(p, label) ==
  /\ Goto(p, label)
  /\ UNCHANGED <<shared, pos, payload, found, hash, tmp, answer>>

\* The files that may not be missing; products.csv is read a first time for
\* its counts and the batch ids of its rows.
Identify(p) ==
  /\ pc[p] = "identity"
  /\ IF \E f \in Required : working[f] = None
     THEN Reject(p) ELSE Proceed(p, "adapt")
  /\ UNCHANGED <<working, litter, edits, faults>>

\* products.csv is read again and turned into the manifest.
Adapt(p) ==
  /\ pc[p] = "adapt"
  /\ IF working[Products] \in Invalid
     THEN Reject(p)
     ELSE /\ payload' = [payload EXCEPT ![p] = working[Products]]
          /\ Goto(p, "list")
          /\ UNCHANGED <<shared, pos, found, hash, tmp, answer>>
  /\ UNCHANGED <<working, litter, edits, faults>>

\* batch_sha256 looks first which files exist and then reads them one by one.
ListFiles(p) ==
  /\ pc[p] = "list"
  /\ found' = [found EXCEPT ![p] = {f \in Files : working[f] # None}]
  /\ Goto(p, "hash")
  /\ UNCHANGED <<working, shared, litter, pos, payload, hash, tmp, answer, edits, faults>>

Advance(p, order, here, next) ==
  IF pos[p] < Len(order)
  THEN pos' = [pos EXCEPT ![p] = @ + 1] /\ Goto(p, here)
  ELSE pos' = [pos EXCEPT ![p] = 1] /\ Goto(p, next)

HashFile(p) ==
  LET f == HashOrder[pos[p]] IN
  /\ pc[p] = "hash"
  /\ hash' = [hash EXCEPT ![p][f] = IF f \in found[p] THEN working[f] ELSE None]
  /\ Advance(p, HashOrder, "hash", "final")
  /\ UNCHANGED <<working, shared, litter, payload, found, tmp, answer, edits, faults>>

-----------------------------------------------------------------------------
(* submit_collection_batch.                                                *)

\* Bug: the hidden directory has the same name every time.
StartCopyFixedName(p) ==
  IF litter # "none" THEN Answer(p, "raised")
                 ELSE Goto(p, "copy") /\ UNCHANGED <<locals, answer>>
StartCopy(p) == Goto(p, "copy") /\ UNCHANGED <<locals, answer>>

\* Bug: whatever is in the accepted directory is taken for the same batch.
SameBatchAssumed(p) == TRUE
SameBatch(p) == final.files = hash[p]

CheckFinal(p) ==
  /\ pc[p] = "final"
  /\ \/ ~Accepted /\ StartCopy(p)
     \/ Accepted /\ SameBatch(p) /\ Goto(p, "dupReport") /\ UNCHANGED <<locals, answer>>
     \/ Accepted /\ ~SameBatch(p) /\ Answer(p, "different")
  /\ UNCHANGED <<working, shared, litter, edits, faults>>

WriteReport(p) == report' = [status |-> "ACCEPTED", hash |-> hash[p]]

DuplicateReport(p) ==
  /\ pc[p] = "dupReport"
  /\ WriteReport(p)
  /\ IF p \in Operators THEN Goto(p, "dupAudit") /\ UNCHANGED <<locals, answer>>
                        ELSE Answer(p, "duplicate")
  /\ UNCHANGED <<working, final, audit, litter, edits, faults>>

\* The audit of the accepted batch now names whoever submitted it again.
DuplicateAudit(p) ==
  /\ pc[p] = "dupAudit"
  /\ audit' = p
  /\ Answer(p, "duplicate")
  /\ UNCHANGED <<working, final, report, litter, edits, faults>>

CopyFile(p) ==
  LET f == CopyOrder[pos[p]] IN
  /\ pc[p] = "copy"
  /\ tmp' = [tmp EXCEPT ![p][f] = working[f]]
  /\ Advance(p, CopyOrder, "copy", "compare")
  /\ UNCHANGED <<working, shared, litter, payload, found, hash, answer, edits, faults>>

\* Bug: the copy is trusted.
CompareSkipped(p) ==
  /\ pc[p] = "compare"
  /\ Goto(p, "seal") /\ UNCHANGED <<locals, answer>>
  /\ UNCHANGED <<working, shared, litter, edits, faults>>
\* COPY_CHECKSUM_MISMATCH: the hidden directory is removed.
Compare(p) ==
  /\ pc[p] = "compare"
  /\ IF tmp[p] = hash[p] THEN Goto(p, "seal") /\ UNCHANGED <<locals, answer>>
                         ELSE Answer(p, "mismatch")
  /\ UNCHANGED <<working, shared, litter, edits, faults>>

\* Manifest, report and audit are written into the hidden directory.
Seal(p) ==
  /\ pc[p] = "seal"
  /\ Goto(p, "rename")
  /\ UNCHANGED <<working, shared, litter, locals, answer, edits, faults>>

\* Bug: what is there is removed first.
RenameOver(p) ==
  /\ pc[p] = "rename"
  /\ final' = [files |-> tmp[p], manifest |-> payload[p], hash |-> hash[p]]
  /\ audit' = IF p \in Operators THEN p ELSE None
  /\ Goto(p, "report") /\ UNCHANGED <<locals, answer>>
  /\ UNCHANGED <<working, report, litter, edits, faults>>
\* os.replace: a directory that is not empty is never replaced.
Rename(p) ==
  /\ pc[p] = "rename"
  /\ IF Accepted
     THEN Answer(p, "raised") /\ UNCHANGED <<final, audit>>
     ELSE /\ final' = [files |-> tmp[p], manifest |-> payload[p], hash |-> hash[p]]
          /\ audit' = IF p \in Operators THEN p ELSE None
          /\ Goto(p, "report") /\ UNCHANGED <<locals, answer>>
  /\ UNCHANGED <<working, report, litter, edits, faults>>

LocalReport(p) ==
  /\ pc[p] = "report"
  /\ WriteReport(p)
  /\ Answer(p, "accepted")
  /\ UNCHANGED <<working, final, audit, litter, edits, faults>>

\* An exception: the hidden directory is removed.
Fault(p) ==
  /\ pc[p] # "idle" /\ faults < MaxFaults
  /\ faults' = faults + 1
  /\ Answer(p, "raised")
  /\ UNCHANGED <<working, shared, litter, edits>>

\* The process ends: the hidden directory stays.
Die(p) ==
  /\ pc[p] # "idle" /\ faults < MaxFaults
  /\ faults' = faults + 1
  /\ litter' = IF Private(p) THEN "some" ELSE litter
  /\ Answer(p, "raised")
  /\ UNCHANGED <<working, shared, edits>>

-----------------------------------------------------------------------------
Validation(p) == Identify(p) \/ Adapt(p) \/ ListFiles(p) \/ HashFile(p)
Duplicate(p)  == DuplicateReport(p) \/ DuplicateAudit(p)
Copy(p)       == CopyFile(p) \/ Compare(p) \/ Seal(p) \/ Rename(p) \/ LocalReport(p)

SubmitterStep(p) == Validation(p) \/ CheckFinal(p) \/ Duplicate(p) \/ Copy(p)

Next ==
  \/ \E p \in Submitters : Begin(p) \/ SubmitterStep(p) \/ Fault(p) \/ Die(p)
  \/ \E f \in Files, v \in Versions : Edit(f, v)

Spec == Init /\ [][Next]_vars

\* A process that runs goes on, and a submitter whose call ended with neither an
\* acceptance nor a refusal of the batch calls again.
Undecided == {"raised", "mismatch"}
FairSpec ==
  /\ Spec
  /\ \A p \in Submitters :
       WF_vars(SubmitterStep(p)) /\ WF_vars(answer[p] \in Undecided /\ Begin(p))

-----------------------------------------------------------------------------
(* Properties.                                                             *)

\* The accepted files are those the report beside them has the checksum of,
\* although each was read twice from a directory that others write
\* (batch_sha256 before and after the copy).
AcceptedMatchesReport == final.files = final.hash

\* An accepted batch never changes, whoever submits again, with other files or
\* at the same time (final_dir.exists, os.replace).
AcceptedIsFinal == [][Accepted => final' = final]_vars

\* A local report that says ACCEPTED is about the accepted batch: it is not
\* written before the batch is in place, and not for another content.
LocalReportIsTrue == report.status = "ACCEPTED" => Accepted /\ final.files = report.hash

\* A submission that is failed, refused by the recheck or killed can be made
\* again: the batch is accepted or refused in the end, whatever was left behind.
SubmissionIsDecided ==
  \A p \in Submitters : pc[p] # "idle" ~> answer[p] \notin Undecided \cup {"none"}
=============================================================================
