--------------------------- MODULE SubmissionProofs ---------------------------
(***************************************************************************)
(* Theorems about Submission for all submitters, files, versions and       *)
(* bounds.                                                                 *)
(***************************************************************************)
EXTENDS Submission, TLAPS

\* What a submitter has established at each place of the code, and what the
\* writes of the others to the working files cannot undo.
LocalInv ==
  \A p \in Submitters :
    /\ pc[p] \notin {"hash", "copy"} => pos[p] = 1
    /\ pc[p] = "adapt" => working[Products] # None
    /\ pc[p] \in {"list", "hash", "final", "copy", "compare", "seal", "rename"} => payload[p] # None
    /\ pc[p] \in {"seal", "rename"} => tmp[p] = hash[p]
    /\ pc[p] \in {"dupReport", "report"} => Accepted /\ final.files = hash[p]
    /\ pc[p] = "dupAudit" => p \in Operators

SubmissionInv ==
  SubmissionTypeOK /\ LocalInv /\ AcceptedMatchesReport /\ LocalReportIsTrue

LEMMA NothingIsContents == Nothing \in Contents
  BY DEF Nothing, Contents

LEMMA SubmissionInit == Init => SubmissionInv
  <1> SUFFICES ASSUME Init
               PROVE  SubmissionInv
    OBVIOUS
  <1>1. SubmissionTypeOK
    BY NothingIsContents, BoundsAssumption DEF Init, SubmissionTypeOK, SubmitterPC, Answers
  <1>2. LocalInv /\ AcceptedMatchesReport /\ LocalReportIsTrue
    BY DEF Init, LocalInv, AcceptedMatchesReport, LocalReportIsTrue
  <1>3. QED
    BY <1>1, <1>2 DEF SubmissionInv

\* A call that ends leaves the accepted directory alone; the report is kept, or
\* is one of a rejection, or is true of what is accepted.
LEMMA AnswerStep ==
  ASSUME SubmissionInv, NEW p \in Submitters, NEW how \in Answers, Answer(p, how),
         UNCHANGED <<working, final, edits>>,
         audit' \in Operators \cup {None}, faults' \in 0 .. MaxFaults,
         litter' \in {"none", "some"},
         \/ UNCHANGED report
         \/ report' = [status |-> "REJECTED", hash |-> Nothing]
         \/ Accepted /\ final.files = hash[p] /\ report' = [status |-> "ACCEPTED", hash |-> hash[p]]
  PROVE  SubmissionInv'
  <1> USE DEF SubmissionInv, Answer, Goto
  <1>1. SubmissionTypeOK'
    BY NothingIsContents DEF SubmissionTypeOK, SubmitterPC
  <1>2. LocalInv'
    BY DEF LocalInv, SubmissionTypeOK, Accepted
  <1>3. AcceptedMatchesReport'
    BY DEF AcceptedMatchesReport
  <1>4. LocalReportIsTrue'
    BY DEF LocalReportIsTrue, Accepted
  <1>5. QED
    BY <1>1, <1>2, <1>3, <1>4

\* A step that changes neither the files nor the shared directories only has to
\* keep the types and what its submitter knows.
LEMMA LocalStep ==
  ASSUME SubmissionInv, SubmissionTypeOK', LocalInv', UNCHANGED <<final, report>>
  PROVE  SubmissionInv'
  BY DEF SubmissionInv, AcceptedMatchesReport, LocalReportIsTrue, Accepted

\* Advance stays within the list, or goes on at position 1.
LEMMA AdvanceStep ==
  ASSUME NEW p \in Submitters, NEW order, Len(order) \in Nat,
         NEW here \in SubmitterPC, NEW next \in SubmitterPC, here # next,
         pos \in [Submitters -> Nat \ {0}], pc \in [Submitters -> SubmitterPC],
         Advance(p, order, here, next)
  PROVE  /\ pos' \in [Submitters -> Nat \ {0}] /\ pc' \in [Submitters -> SubmitterPC]
         /\ \A q \in Submitters \ {p} : pos'[q] = pos[q] /\ pc'[q] = pc[q]
         /\ \/ pc'[p] = here /\ pos'[p] <= Len(order)
            \/ pc'[p] = next /\ pos'[p] = 1
  <1>1. CASE pos[p] < Len(order)
    <2>1. pos' = [pos EXCEPT ![p] = pos[p] + 1] /\ pc' = [pc EXCEPT ![p] = here]
      BY <1>1 DEF Advance, Goto
    <2>2. pos[p] + 1 \in Nat \ {0} /\ pos[p] + 1 <= Len(order)
      BY <1>1
    <2>3. QED
      BY <2>1, <2>2
  <1>2. CASE ~(pos[p] < Len(order))
    <2>1. pos' = [pos EXCEPT ![p] = 1] /\ pc' = [pc EXCEPT ![p] = next]
      BY <1>2 DEF Advance, Goto
    <2>2. QED
      BY <2>1
  <1>3. QED
    BY <1>1, <1>2

LEMMA ValidationPreserves ==
  ASSUME SubmissionInv, NEW p \in Submitters, Validation(p)
  PROVE  SubmissionInv'
  <1> USE DEF SubmissionInv, shared
  <1>1. ASSUME Identify(p) \/ Adapt(p), Reject(p), UNCHANGED <<working, litter, edits, faults>>
        PROVE  SubmissionInv'
    BY <1>1, AnswerStep DEF Reject, Answers, SubmissionTypeOK
  <1>2. CASE Identify(p)
    <2>1. CASE \E f \in Required : working[f] = None
      BY <1>1, <1>2, <2>1 DEF Identify
    <2>2. CASE ~ \E f \in Required : working[f] = None
      <3> USE <1>2, <2>2 DEF Identify, Proceed, Goto
      <3>1. SubmissionTypeOK'
        BY DEF SubmissionTypeOK, SubmitterPC
      <3>2. LocalInv'
        BY FilesAssumption DEF LocalInv, SubmissionTypeOK, Accepted
      <3>3. QED
        BY <3>1, <3>2, LocalStep
    <2>3. QED
      BY <2>1, <2>2
  <1>3. CASE Adapt(p)
    <2>1. CASE working[Products] \in Invalid
      BY <1>1, <1>3, <2>1 DEF Adapt
    <2>2. CASE working[Products] \notin Invalid
      <3> USE <1>3, <2>2 DEF Adapt, Goto
      <3>1. payload' \in [Submitters -> Versions \cup {None}]
        <4>1. working[Products] \in Versions \cup {None}
          BY FilesAssumption DEF SubmissionTypeOK, Contents
        <4>2. QED
          BY <4>1 DEF SubmissionTypeOK
      <3>2. SubmissionTypeOK'
        BY <3>1 DEF SubmissionTypeOK, SubmitterPC
      <3>3. LocalInv'
        BY DEF LocalInv, SubmissionTypeOK, Accepted
      <3>4. QED
        BY <3>2, <3>3, LocalStep
    <2>3. QED
      BY <2>1, <2>2
  <1>4. CASE ListFiles(p)
    <2> USE <1>4 DEF ListFiles, Goto
    <2>1. SubmissionTypeOK'
      BY FilesAssumption DEF SubmissionTypeOK, SubmitterPC, LocalInv
    <2>2. LocalInv'
      BY DEF LocalInv, SubmissionTypeOK, Accepted
    <2>3. QED
      BY <2>1, <2>2, LocalStep
  <1>5. CASE HashFile(p)
    <2> USE <1>5 DEF HashFile
    <2> DEFINE f == HashOrder[pos[p]]
    <2>1. f \in Files
      BY FilesAssumption DEF SubmissionTypeOK
    <2>2. hash' \in [Submitters -> Contents]
      BY <2>1 DEF SubmissionTypeOK, Contents
    <2>3. /\ pos' \in [Submitters -> Nat \ {0}] /\ pc' \in [Submitters -> SubmitterPC]
          /\ \A q \in Submitters \ {p} : pos'[q] = pos[q] /\ pc'[q] = pc[q]
          /\ \/ pc'[p] = "hash" /\ pos'[p] <= Len(HashOrder)
             \/ pc'[p] = "final" /\ pos'[p] = 1
      <3>1. Len(HashOrder) \in Nat /\ "hash" \in SubmitterPC /\ "final" \in SubmitterPC
        BY FilesAssumption DEF SubmitterPC
      <3>2. Advance(p, HashOrder, "hash", "final")
        OBVIOUS
      <3>3. pos \in [Submitters -> Nat \ {0}] /\ pc \in [Submitters -> SubmitterPC]
        BY DEF SubmissionTypeOK
      <3>4. QED
        BY <3>1, <3>2, <3>3, AdvanceStep
    <2>4. ASSUME NEW q \in Submitters
          PROVE  /\ pc'[q] = "hash" => pos'[q] <= Len(HashOrder)
                 /\ pc'[q] = "copy" => pos'[q] <= Len(CopyOrder)
      BY <2>3 DEF SubmissionTypeOK
    <2>5. SubmissionTypeOK'
      BY <2>2, <2>3, <2>4 DEF SubmissionTypeOK
    <2>6. LocalInv'
      BY <2>3 DEF LocalInv, SubmissionTypeOK, Accepted
<2>7. QED
      BY <2>5, <2>6, LocalStep
  <1>6. QED
    BY <1>2, <1>3, <1>4, <1>5 DEF Validation

LEMMA CheckFinalPreserves ==
  ASSUME SubmissionInv, NEW p \in Submitters, CheckFinal(p)
  PROVE  SubmissionInv'
  <1> USE DEF SubmissionInv, CheckFinal, shared
  <1>1. CASE Answer(p, "different")
    BY <1>1, AnswerStep DEF Answers, SubmissionTypeOK
  <1>2. CASE ~Accepted /\ StartCopy(p)
    <2> USE <1>2 DEF StartCopy, Goto, locals
    <2>1. SubmissionTypeOK'
      BY FilesAssumption DEF SubmissionTypeOK, SubmitterPC, LocalInv
    <2>2. LocalInv'
      BY DEF LocalInv, SubmissionTypeOK, Accepted
    <2>3. QED
      BY <2>1, <2>2, LocalStep
  <1>3. CASE Accepted /\ SameBatch(p) /\ Goto(p, "dupReport") /\ UNCHANGED <<locals, answer>>
    <2> USE <1>3 DEF SameBatch, Goto, locals
    <2>1. SubmissionTypeOK'
      BY DEF SubmissionTypeOK, SubmitterPC
    <2>2. LocalInv'
      BY DEF LocalInv, SubmissionTypeOK, Accepted
    <2>3. QED
      BY <2>1, <2>2, LocalStep
  <1>4. QED
    BY <1>1, <1>2, <1>3

LEMMA DuplicatePreserves ==
  ASSUME SubmissionInv, NEW p \in Submitters, Duplicate(p)
  PROVE  SubmissionInv'
  <1> USE DEF SubmissionInv
  <1>1. CASE DuplicateReport(p)
    <2>1. Accepted /\ final.files = hash[p]
      BY <1>1 DEF DuplicateReport, LocalInv
    <2>2. CASE p \notin Operators
      BY <1>1, <2>1, <2>2, AnswerStep DEF DuplicateReport, WriteReport, Answers, SubmissionTypeOK
    <2>3. CASE p \in Operators
      <3> USE <1>1, <2>1, <2>3 DEF DuplicateReport, WriteReport, Goto, locals
      <3>1. SubmissionTypeOK'
        BY DEF SubmissionTypeOK, SubmitterPC
      <3>2. LocalInv'
        BY DEF LocalInv, SubmissionTypeOK, Accepted
      <3>3. AcceptedMatchesReport' /\ LocalReportIsTrue'
        BY DEF AcceptedMatchesReport, LocalReportIsTrue, Accepted
      <3>4. QED
        BY <3>1, <3>2, <3>3
    <2>4. QED
      BY <2>2, <2>3
  <1>2. CASE DuplicateAudit(p)
    <2>1. audit' \in Operators \cup {None}
      BY <1>2 DEF DuplicateAudit, LocalInv
    <2>2. QED
      BY <1>2, <2>1, AnswerStep DEF DuplicateAudit, Answers, SubmissionTypeOK
  <1>3. QED
    BY <1>1, <1>2 DEF Duplicate

LEMMA CopyPreserves ==
  ASSUME SubmissionInv, NEW p \in Submitters, Copy(p)
  PROVE  SubmissionInv'
  <1> USE DEF SubmissionInv, shared
  <1>1. CASE CopyFile(p)
    <2> USE <1>1 DEF CopyFile
    <2>1. CopyOrder[pos[p]] \in Files
      BY FilesAssumption DEF SubmissionTypeOK
    <2>2. tmp' \in [Submitters -> Contents]
      BY <2>1 DEF SubmissionTypeOK, Contents
    <2>3. /\ pos' \in [Submitters -> Nat \ {0}] /\ pc' \in [Submitters -> SubmitterPC]
          /\ \A q \in Submitters \ {p} : pos'[q] = pos[q] /\ pc'[q] = pc[q]
          /\ \/ pc'[p] = "copy" /\ pos'[p] <= Len(CopyOrder)
             \/ pc'[p] = "compare" /\ pos'[p] = 1
      <3>1. Len(CopyOrder) \in Nat /\ "copy" \in SubmitterPC /\ "compare" \in SubmitterPC
        BY FilesAssumption DEF SubmitterPC
      <3>2. Advance(p, CopyOrder, "copy", "compare")
        OBVIOUS
      <3>3. pos \in [Submitters -> Nat \ {0}] /\ pc \in [Submitters -> SubmitterPC]
        BY DEF SubmissionTypeOK
      <3>4. QED
        BY <3>1, <3>2, <3>3, AdvanceStep
    <2>4. ASSUME NEW q \in Submitters
          PROVE  /\ pc'[q] = "hash" => pos'[q] <= Len(HashOrder)
                 /\ pc'[q] = "copy" => pos'[q] <= Len(CopyOrder)
      BY <2>3 DEF SubmissionTypeOK
    <2>5. SubmissionTypeOK'
      BY <2>2, <2>3, <2>4 DEF SubmissionTypeOK
    <2>6. LocalInv'
      BY <2>3 DEF LocalInv, SubmissionTypeOK, Accepted
<2>7. QED
      BY <2>5, <2>6, LocalStep
  <1>2. CASE Compare(p)
    <2>1. CASE tmp[p] # hash[p]
      BY <1>2, <2>1, AnswerStep DEF Compare, Answers, SubmissionTypeOK
    <2>2. CASE tmp[p] = hash[p]
      <3> USE <1>2, <2>2 DEF Compare, Goto, locals
      <3>1. SubmissionTypeOK'
        BY DEF SubmissionTypeOK, SubmitterPC
      <3>2. LocalInv'
        BY DEF LocalInv, SubmissionTypeOK, Accepted
      <3>3. QED
        BY <3>1, <3>2, LocalStep
    <2>3. QED
      BY <2>1, <2>2
  <1>3. CASE Seal(p)
    <2> USE <1>3 DEF Seal, Goto, locals
    <2>1. SubmissionTypeOK'
      BY DEF SubmissionTypeOK, SubmitterPC
    <2>2. LocalInv'
      BY DEF LocalInv, SubmissionTypeOK, Accepted
    <2>3. QED
      BY <2>1, <2>2, LocalStep
  <1>4. CASE Rename(p)
    <2>1. CASE Accepted
      BY <1>4, <2>1, AnswerStep DEF Rename, Answers, SubmissionTypeOK
    <2>2. CASE ~Accepted
      <3> USE <1>4, <2>2 DEF Rename, Goto, locals
      <3>1. tmp[p] \in Contents /\ hash[p] \in Contents /\ payload[p] \in Versions \cup {None}
        BY DEF SubmissionTypeOK
      <3>2. SubmissionTypeOK'
        <4>1. final' \in [files : Contents, manifest : Versions \cup {None}, hash : Contents]
          BY <3>1
        <4>2. audit' \in Operators \cup {None}
          OBVIOUS
        <4>3. QED
          BY <4>1, <4>2 DEF SubmissionTypeOK, SubmitterPC
      <3>3. Accepted'
        BY DEF LocalInv, Accepted
      <3>4. final'.files = hash[p] /\ tmp[p] = hash[p] /\ hash' = hash /\ report' = report
        BY DEF LocalInv
      <3>5. \A q \in Submitters : q # p => pc'[q] = pc[q] /\ pc[q] \notin {"dupReport", "report"}
        BY DEF LocalInv, SubmissionTypeOK
      <3>6. LocalInv'
        BY <3>3, <3>4, <3>5 DEF LocalInv, SubmissionTypeOK
      <3>7. AcceptedMatchesReport' /\ LocalReportIsTrue'
        BY <3>4 DEF AcceptedMatchesReport, LocalReportIsTrue
      <3>8. QED
        BY <3>2, <3>6, <3>7
    <2>3. QED
      BY <2>1, <2>2
  <1>5. CASE LocalReport(p)
    <2>1. Accepted /\ final.files = hash[p]
      BY <1>5 DEF LocalReport, LocalInv
    <2>2. QED
      BY <1>5, <2>1, AnswerStep DEF LocalReport, WriteReport, Answers, SubmissionTypeOK
  <1>6. QED
    BY <1>1, <1>2, <1>3, <1>4, <1>5 DEF Copy

LEMMA SubmissionStep == SubmissionInv /\ [Next]_vars => SubmissionInv'
  <1> SUFFICES ASSUME SubmissionInv, [Next]_vars
               PROVE  SubmissionInv'
    OBVIOUS
  <1>1. ASSUME NEW p \in Submitters, Begin(p)
        PROVE  SubmissionInv'
    <2> USE <1>1 DEF SubmissionInv, Begin, Goto, shared, locals
    <2>1. SubmissionTypeOK'
      BY DEF SubmissionTypeOK, SubmitterPC, Answers
    <2>2. LocalInv'
      BY DEF LocalInv, SubmissionTypeOK, Accepted
    <2>3. QED
      BY <2>1, <2>2, LocalStep
  <1>2. ASSUME NEW p \in Submitters, Fault(p) \/ Die(p)
        PROVE  SubmissionInv'
    <2>1. faults' \in 0 .. MaxFaults /\ UNCHANGED <<working, shared, edits>> /\ Answer(p, "raised")
      BY <1>2, BoundsAssumption DEF Fault, Die, SubmissionInv, SubmissionTypeOK
    <2>2. litter' \in {"none", "some"}
      BY <1>2 DEF Fault, Die, SubmissionInv, SubmissionTypeOK
    <2>3. QED
      BY <2>1, <2>2, AnswerStep DEF shared, Answers, SubmissionInv, SubmissionTypeOK
  <1>3. ASSUME NEW f \in Files, NEW v \in Versions, Edit(f, v)
        PROVE  SubmissionInv'
    <2> USE <1>3 DEF SubmissionInv, Edit, shared, locals
    <2>1. SubmissionTypeOK'
      BY BoundsAssumption DEF SubmissionTypeOK, Contents
    <2>2. LocalInv'
      BY FilesAssumption DEF LocalInv, SubmissionTypeOK, Contents, Accepted
    <2>3. QED
      BY <2>1, <2>2, LocalStep
  <1>4. CASE UNCHANGED vars
    BY <1>4 DEF vars, shared, locals, SubmissionInv, SubmissionTypeOK, LocalInv,
         AcceptedMatchesReport, LocalReportIsTrue, Accepted
  <1>5. QED
    BY <1>1, <1>2, <1>3, <1>4, ValidationPreserves, CheckFinalPreserves, DuplicatePreserves,
       CopyPreserves DEF Next, SubmitterStep

LEMMA SubmissionInvariant == Spec => []SubmissionInv
  BY SubmissionInit, SubmissionStep, PTL DEF Spec

\* The variables keep their types, and a submitter never reads beyond the list
\* of files it goes through (batch_sha256, the copy).
THEOREM SubmissionTyped == Spec => []SubmissionTypeOK
  <1>1. SubmissionInv => SubmissionTypeOK
    BY DEF SubmissionInv
  <1>2. QED
    BY <1>1, SubmissionInvariant, PTL

\* The accepted files are those whose checksum the report beside them carries,
\* however often the working files are written during the submission.
THEOREM FilesMatchReport == Spec => []AcceptedMatchesReport
  <1>1. SubmissionInv => AcceptedMatchesReport
    BY DEF SubmissionInv
  <1>2. QED
    BY <1>1, SubmissionInvariant, PTL

\* A local report of an acceptance is about the batch that is in place, for any
\* number of submitters that fail or die anywhere (write_validation_report).
THEOREM ReportsAreTrue == Spec => []LocalReportIsTrue
  <1>1. SubmissionInv => LocalReportIsTrue
    BY DEF SubmissionInv
  <1>2. QED
    BY <1>1, SubmissionInvariant, PTL

\* No step changes the files, the manifest or the report of an accepted batch
\* (final_dir.exists, os.replace).
THEOREM AcceptanceIsFinal == Spec => AcceptedIsFinal
  <1>1. Next /\ Accepted => final' = final
    BY DEF Next, SubmitterStep, Validation, Duplicate, Copy, Begin, Fault, Die, Edit, Identify,
       Adapt, ListFiles, HashFile, CheckFinal, DuplicateReport, DuplicateAudit, CopyFile,
       Compare, Seal, Rename, LocalReport, Reject, Proceed, shared
  <1>2. [Next]_vars => [Accepted => final' = final]_vars
    BY <1>1
  <1>3. QED
    BY <1>2, PTL DEF Spec, AcceptedIsFinal
=============================================================================
