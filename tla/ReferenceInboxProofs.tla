------------------------- MODULE ReferenceInboxProofs -------------------------
(***************************************************************************)
(* Theorems about ReferenceInbox for all calls, exports and bounds.        *)
(***************************************************************************)
EXTENDS ReferenceInbox, TLAPS

\* One registration at a time, which finds no manifest until it writes one.
CallInv ==
  /\ \A c, d \in Calls : pc[c] # "idle" /\ pc[d] # "idle" => c = d
  /\ \A c \in Calls :
       /\ pc[c] \in {"copy", "copying", "manifest"} => ~Registered
       /\ pc[c] = "manifest" => export = [of |-> upload[c], whole |-> TRUE]

\* What the threads have read of the manifest is still so, but for its status.
ReaderInv ==
  /\ \A v \in Validators : vpc[v] = "write" => Registered /\ vseen[v].sum = manifest.sum
  /\ \A b \in Bronzes :
       /\ bpc[b] # "idle" => Registered /\ bseen[b].sum = manifest.sum
       /\ bpc[b] = "done" => bread[b] = export

InboxInv == InboxTypeOK /\ CallInv /\ ReaderInv /\ ManifestIsTrue

LEMMA InboxInit == Init => InboxInv
  <1> SUFFICES ASSUME Init
               PROVE  InboxInv
    OBVIOUS
  <1>1. InboxTypeOK
    BY BoundsAssumption DEF Init, InboxTypeOK, Manifests, Contents
  <1>2. CallInv /\ ReaderInv /\ ManifestIsTrue
    BY DEF Init, CallInv, ReaderInv, ManifestIsTrue, Registered
  <1>3. QED
    BY <1>1, <1>2 DEF InboxInv

\* A manifest has one of the two statuses, or there is none.
LEMMA ManifestCases ==
  ASSUME InboxTypeOK
  PROVE  Registered <=> manifest.sum \in Exports
  BY NoneAssumption DEF InboxTypeOK, Manifests, NoManifest, Registered

LEMMA ExportRecords ==
  \A e \in Exports : [of |-> e, whole |-> FALSE] \in Contents /\ [of |-> e, whole |-> TRUE] \in Contents
  BY DEF Contents

LEMMA RegisterPreserves ==
  ASSUME InboxInv, NEW c \in Calls, Register(c) \/ \E e \in Exports : Begin(c, e)
  PROVE  InboxInv'
  <1> USE DEF InboxInv, files, calls, checks, bronze, Goto
  <1>1. ASSUME NEW e \in Exports, Begin(c, e)
        PROVE  InboxInv'
    <2> USE <1>1 DEF Begin, LoopFree
    <2>1. InboxTypeOK'
      BY DEF InboxTypeOK
    <2>2. CallInv' /\ ReaderInv' /\ ManifestIsTrue'
      BY DEF InboxTypeOK, CallInv, ReaderInv, ManifestIsTrue, Registered
    <2>3. QED
      BY <2>1, <2>2
  <1>2. CASE CheckManifest(c) \/ RegistrationFails(c)
    <2> USE <1>2 DEF CheckManifest, RegistrationFails
    <2>1. InboxTypeOK'
      BY DEF InboxTypeOK
    <2>2. CallInv' /\ ReaderInv' /\ ManifestIsTrue'
      BY DEF InboxTypeOK, CallInv, ReaderInv, ManifestIsTrue, Registered
    <2>3. QED
      BY <2>1, <2>2
  <1>3. CASE StartCopy(c) \/ FinishCopy(c)
    <2> USE <1>3 DEF StartCopy, FinishCopy
    <2>1. ~Registered /\ \A b \in Bronzes : bpc[b] = "idle"
      BY DEF CallInv, ReaderInv
    <2>2. InboxTypeOK'
      <3>1. upload[c] \in Exports
        BY DEF InboxTypeOK
      <3>2. export' \in Contents
        <4>1. \/ export' = [of |-> upload[c], whole |-> FALSE]
              \/ export' = [of |-> upload[c], whole |-> TRUE]
          OBVIOUS
        <4>2. QED
          BY <3>1, <4>1, ExportRecords
      <3>3. pc' \in [Calls -> {"idle", "check", "copy", "copying", "manifest"}]
        BY DEF InboxTypeOK
      <3>4. QED
        BY <3>2, <3>3 DEF InboxTypeOK
    <2>3. CallInv' /\ ReaderInv' /\ ManifestIsTrue'
      BY <2>1 DEF InboxTypeOK, CallInv, ReaderInv, ManifestIsTrue, Registered
    <2>4. QED
      BY <2>2, <2>3
  <1>4. CASE WriteManifest(c)
    <2> USE <1>4 DEF WriteManifest
    <2>1. /\ ~Registered
          /\ \A b \in Bronzes : bpc[b] = "idle"
          /\ \A v \in Validators : vpc[v] # "write"
          /\ upload[c] \in Exports
      BY DEF CallInv, ReaderInv, InboxTypeOK
    <2>2. InboxTypeOK'
      BY <2>1 DEF InboxTypeOK, Manifests
    <2>3. CallInv' /\ ReaderInv' /\ ManifestIsTrue'
      BY <2>1 DEF InboxTypeOK, CallInv, ReaderInv, ManifestIsTrue, Registered
    <2>4. QED
      BY <2>2, <2>3
  <1>5. QED
    BY <1>1, <1>2, <1>3, <1>4 DEF Register

LEMMA ValidatePreserves ==
  ASSUME InboxInv, NEW v \in Validators, Validate(v)
  PROVE  InboxInv'
  <1> USE DEF InboxInv, files, calls, checks, bronze
  <1>1. CASE CheckExport(v) \/ ReadManifest(v)
    <2> USE <1>1 DEF CheckExport, ReadManifest
    <2>1. InboxTypeOK'
      BY DEF InboxTypeOK, Registered
    <2>2. CallInv' /\ ReaderInv' /\ ManifestIsTrue'
      BY DEF InboxTypeOK, CallInv, ReaderInv, ManifestIsTrue, Registered
    <2>3. QED
      BY <2>1, <2>2
  <1>2. CASE MarkValidated(v)
    <2> USE <1>2 DEF MarkValidated
    <2>1. vseen[v] \in [sum : Exports, status : {"REGISTERED", "VALIDATED"}]
      BY DEF InboxTypeOK, Manifests
    <2>2. manifest' = [sum |-> vseen[v].sum, status |-> "VALIDATED"]
      BY <2>1
    <2>3. Registered /\ manifest'.sum = manifest.sum /\ Registered' /\ manifest' \in Manifests
      BY <2>1, <2>2, NoneAssumption DEF ReaderInv, Registered, NoManifest, Manifests
    <2>4. InboxTypeOK'
      BY <2>3 DEF InboxTypeOK, Manifests
    <2>5. CallInv' /\ ReaderInv' /\ ManifestIsTrue'
      BY <2>3 DEF InboxTypeOK, CallInv, ReaderInv, ManifestIsTrue
    <2>6. QED
      BY <2>4, <2>5
  <1>3. QED
    BY <1>1, <1>2 DEF Validate

LEMMA ReadPreserves ==
  ASSUME InboxInv, NEW b \in Bronzes, ReadInbox(b)
  PROVE  InboxInv'
  <1> USE DEF InboxInv, files, calls, checks, bronze, ReadInbox, BronzeManifest, BronzeExport
  <1>1. InboxTypeOK'
    BY DEF InboxTypeOK
  <1>2. CallInv' /\ ReaderInv' /\ ManifestIsTrue'
    BY DEF InboxTypeOK, CallInv, ReaderInv, ManifestIsTrue, Registered
  <1>3. QED
    BY <1>1, <1>2

LEMMA InboxStep == InboxInv /\ [Next]_vars => InboxInv'
  <1> SUFFICES ASSUME InboxInv, [Next]_vars
               PROVE  InboxInv'
    OBVIOUS
  <1> USE DEF InboxInv, files, calls, checks, bronze
  <1>1. CASE Crash
    <2> USE <1>1, BoundsAssumption DEF Crash
    <2>1. InboxTypeOK'
      BY DEF InboxTypeOK, Manifests
    <2>2. CallInv' /\ ReaderInv' /\ ManifestIsTrue'
      BY DEF InboxTypeOK, CallInv, ReaderInv, ManifestIsTrue, Registered
    <2>3. QED
      BY <2>1, <2>2
  <1>2. CASE UNCHANGED vars
    BY <1>2 DEF vars, InboxTypeOK, CallInv, ReaderInv, ManifestIsTrue, Registered
  <1>3. QED
    BY <1>1, <1>2, RegisterPreserves, ValidatePreserves, ReadPreserves DEF Next

LEMMA InboxInvariant == Spec => []InboxInv
  BY InboxInit, InboxStep, PTL DEF Spec

\* A registered dataset version has the whole export its manifest names, after
\* any number of failed or dead registrations (register_reference_export).
THEOREM ManifestsAreTrue == Spec => []ManifestIsTrue
  <1>1. InboxInv => ManifestIsTrue
    BY DEF InboxInv
  <1>2. QED
    BY <1>1, InboxInvariant, PTL

\* A bronze run records the checksum of what it read, for any number of
\* registrations and validations beside it (run_kfia_bronze).
THEOREM BronzeNamesItsInput == Spec => []BronzeReadsWhatItNames
  <1>1. InboxInv => BronzeReadsWhatItNames
    BY DEF InboxInv, ReaderInv, ManifestIsTrue, BronzeReadsWhatItNames
  <1>2. QED
    BY <1>1, InboxInvariant, PTL

\* The checksum of a registered dataset version never changes, nor is its
\* validation taken back (mark_reference_validated).
THEOREM RegisteredOnce == Spec => RegistrationIsFinal
  <1> DEFINE Kept == Registered => /\ manifest'.sum = manifest.sum
                                   /\ manifest.status = "VALIDATED" => manifest'.status = "VALIDATED"
  <1>1. ASSUME InboxInv, Next
        PROVE  Kept
    <2>1. ASSUME NEW c \in Calls, WriteManifest(c)
          PROVE  Kept
      BY <1>1, <2>1 DEF WriteManifest, InboxInv, CallInv
    <2>2. ASSUME NEW v \in Validators, MarkValidated(v)
          PROVE  Kept
      <3>1. manifest'.sum = vseen[v].sum /\ manifest'.status = "VALIDATED"
        BY <1>1, <2>2 DEF MarkValidated, InboxInv, InboxTypeOK, Manifests
      <3>2. QED
        BY <1>1, <2>2, <3>1 DEF MarkValidated, InboxInv, ReaderInv
    <2>3. CASE UNCHANGED manifest
      BY <2>3
    <2>4. QED
      BY <1>1, <2>1, <2>2, <2>3 DEF Next, Register, Validate, ReadInbox, Begin, CheckManifest,
         StartCopy, FinishCopy, RegistrationFails, CheckExport, ReadManifest, BronzeManifest,
         BronzeExport, Crash, files
  <1>2. InboxInv /\ [Next]_vars => [Kept]_vars
    BY <1>1
  <1>3. QED
    BY <1>2, InboxInvariant, PTL DEF Spec, RegistrationIsFinal

\* The files of the inbox, the calls in flight and what the bronze run read keep
\* their types (register_reference, mark_reference_validated).
THEOREM InboxTyped == Spec => []InboxTypeOK
  <1>1. InboxInv => InboxTypeOK
    BY DEF InboxInv
  <1>2. QED
    BY <1>1, InboxInvariant, PTL
=============================================================================
