---------------------------- MODULE ReferenceInbox ----------------------------
(***************************************************************************)
(* One dataset version in the reference inbox: an export and the manifest  *)
(* that names its checksum.  The console's registration is an async        *)
(* handler, which no other async handler interleaves with; validations and *)
(* bronze runs are threads beside it.  The export is copied in place, the  *)
(* manifest is replaced as a whole, and the console may die in between.    *)
(***************************************************************************)
EXTENDS Naturals

CONSTANTS
  Calls,           \* registrations that may be under way
  Validators, Bronzes,
  Exports,         \* contents of uploads, all valid, compared as checksums
  None,
  MaxCrashes       \* bound: deaths of the console

ASSUME NoneAssumption   == None \notin Exports
ASSUME BoundsAssumption == MaxCrashes \in Nat

NoManifest == [sum |-> None, status |-> "none"]
NoFile     == [of |-> None, whole |-> TRUE]
Manifests  == [sum : Exports, status : {"REGISTERED", "VALIDATED"}] \cup {NoManifest}
Contents   == [of : Exports, whole : BOOLEAN] \cup {NoFile}

VARIABLES
  export, manifest, \* the files of the dataset version
  pc, upload,       \* per registration
  vpc, vseen,       \* per validation: and the manifest it read
  bpc, bseen, bread,\* per bronze run: and the manifest and the export it read
  crashes

files  == <<export, manifest>>
calls  == <<pc, upload>>
checks == <<vpc, vseen>>
bronze == <<bpc, bseen, bread>>
vars   == <<files, calls, checks, bronze, crashes>>

InboxTypeOK ==
  /\ export \in Contents /\ manifest \in Manifests
  /\ pc \in [Calls -> {"idle", "check", "copy", "copying", "manifest"}]
  /\ upload \in [Calls -> Exports \cup {None}]
  /\ vpc \in [Validators -> {"idle", "read", "write"}]
  /\ vseen \in [Validators -> Manifests]
  /\ bpc \in [Bronzes -> {"idle", "read", "done"}]
  /\ bseen \in [Bronzes -> Manifests] /\ bread \in [Bronzes -> Contents]
  /\ crashes \in 0 .. MaxCrashes
  /\ \A c \in Calls : pc[c] # "idle" => upload[c] \in Exports
  /\ \A v \in Validators : vpc[v] = "write" => vseen[v] # NoManifest

Init ==
  /\ export = NoFile /\ manifest = NoManifest
  /\ pc = [c \in Calls |-> "idle"] /\ upload = [c \in Calls |-> None]
  /\ vpc = [v \in Validators |-> "idle"] /\ vseen = [v \in Validators |-> NoManifest]
  /\ bpc = [b \in Bronzes |-> "idle"] /\ bseen = [b \in Bronzes |-> NoManifest]
  /\ bread = [b \in Bronzes |-> NoFile]
  /\ crashes = 0

-----------------------------------------------------------------------------
(* register_reference_export.                                              *)

Registered     == manifest # NoManifest
Goto(c, label) == pc' = [pc EXCEPT ![c] = label]

\* Bug: the handler is a plain def and runs in a thread of its own.
LoopFreeAssumed == TRUE
\* api_reference_register holds the event loop from the upload to its answer.
LoopFree == \A c \in Calls : pc[c] = "idle"

Begin(c, e) ==
  /\ pc[c] = "idle" /\ LoopFree
  /\ Goto(c, "check")
  /\ upload' = [upload EXCEPT ![c] = e]
  /\ UNCHANGED <<files, checks, bronze, crashes>>

\* Bug: a duplicate is registered anew.
CheckManifestRewriting(c) ==
  /\ pc[c] = "check"
  /\ IF Registered
     THEN /\ Goto(c, "idle")
          /\ manifest' = IF manifest.sum = upload[c] THEN [manifest EXCEPT !.status = "REGISTERED"]
                                                      ELSE manifest
     ELSE Goto(c, "copy") /\ UNCHANGED manifest
  /\ UNCHANGED <<export, upload, checks, bronze, crashes>>
\* A duplicate is answered with the manifest, another export with a conflict.
CheckManifest(c) ==
  /\ pc[c] = "check"
  /\ Goto(c, IF Registered THEN "idle" ELSE "copy")
  /\ UNCHANGED <<files, upload, checks, bronze, crashes>>

\* shutil.copy2 truncates the target and fills it.
StartCopy(c) ==
  /\ pc[c] = "copy"
  /\ export' = [of |-> upload[c], whole |-> FALSE]
  /\ Goto(c, "copying")
  /\ UNCHANGED <<manifest, upload, checks, bronze, crashes>>

FinishCopy(c) ==
  /\ pc[c] = "copying"
  /\ export' = [of |-> upload[c], whole |-> TRUE]
  /\ Goto(c, "manifest")
  /\ UNCHANGED <<manifest, upload, checks, bronze, crashes>>

WriteManifest(c) ==
  /\ pc[c] = "manifest"
  /\ manifest' = [sum |-> upload[c], status |-> "REGISTERED"]
  /\ Goto(c, "idle")
  /\ UNCHANGED <<export, upload, checks, bronze, crashes>>

\* The call raises: a full disk, a rejected manifest.
RegistrationFails(c) ==
  /\ pc[c] # "idle"
  /\ Goto(c, "idle")
  /\ UNCHANGED <<files, upload, checks, bronze, crashes>>

-----------------------------------------------------------------------------
(* validate_reference_dataset: the export is checked, by contract and not   *)
(* against the manifest; then mark_reference_validated reads and writes.    *)

CheckExport(v) ==
  /\ vpc[v] = "idle" /\ export # NoFile   \* a half-copied export may pass
  /\ vpc' = [vpc EXCEPT ![v] = "read"]
  /\ UNCHANGED <<files, calls, vseen, bronze, crashes>>

ReadManifest(v) ==
  /\ vpc[v] = "read"
  /\ vpc' = [vpc EXCEPT ![v] = IF Registered THEN "write" ELSE "idle"]
  /\ vseen' = [vseen EXCEPT ![v] = manifest]
  /\ UNCHANGED <<files, calls, bronze, crashes>>

MarkValidated(v) ==
  /\ vpc[v] = "write"
  /\ manifest' = [vseen[v] EXCEPT !.status = "VALIDATED"]
  /\ vpc' = [vpc EXCEPT ![v] = "idle"]
  /\ vseen' = [vseen EXCEPT ![v] = NoManifest]
  /\ UNCHANGED <<export, calls, bronze, crashes>>

-----------------------------------------------------------------------------
(* run_kfia_bronze, as far as it reads the inbox.                          *)

BronzeManifest(b) ==
  /\ bpc[b] # "read" /\ Registered
  /\ bseen' = [bseen EXCEPT ![b] = manifest]
  /\ bpc' = [bpc EXCEPT ![b] = "read"]
  /\ UNCHANGED <<files, calls, checks, bread, crashes>>

BronzeExport(b) ==
  /\ bpc[b] = "read"
  /\ bread' = [bread EXCEPT ![b] = export]
  /\ bpc' = [bpc EXCEPT ![b] = "done"]
  /\ UNCHANGED <<files, calls, checks, bseen, crashes>>

\* The console dies with all its threads; the files stay as they are.
Crash ==
  /\ crashes < MaxCrashes /\ crashes' = crashes + 1
  /\ pc' = [c \in Calls |-> "idle"]
  /\ vpc' = [v \in Validators |-> "idle"]
  /\ vseen' = [v \in Validators |-> NoManifest]
  /\ bpc' = [b \in Bronzes |-> "idle"]
  /\ UNCHANGED <<files, upload, bseen, bread>>

Register(c) == CheckManifest(c) \/ StartCopy(c) \/ FinishCopy(c) \/ WriteManifest(c) \/ RegistrationFails(c)
Validate(v) == CheckExport(v) \/ ReadManifest(v) \/ MarkValidated(v)
ReadInbox(b) == BronzeManifest(b) \/ BronzeExport(b)

Next ==
  \/ \E c \in Calls : Register(c) \/ \E e \in Exports : Begin(c, e)
  \/ \E v \in Validators : Validate(v)
  \/ \E b \in Bronzes : ReadInbox(b)
  \/ Crash

Spec == Init /\ [][Next]_vars

-----------------------------------------------------------------------------
(* Properties.                                                             *)

\* A registered dataset version has the whole export its manifest names, even
\* after registrations that failed or died with half an export copied
\* (register_reference_export).
ManifestIsTrue == Registered => export = [of |-> manifest.sum, whole |-> TRUE]

\* What a bronze run read is what the checksum it records stands for, although
\* it opens the manifest and the export separately (run_kfia_bronze).
BronzeReadsWhatItNames == \A b \in Bronzes : bpc[b] = "done" => bread[b] = [of |-> bseen[b].sum, whole |-> TRUE]

\* A dataset version is registered once: no later call, and no validation that
\* writes back what it read before, changes its checksum or takes a validation
\* back (mark_reference_validated).
RegistrationIsFinal ==
  [][Registered => /\ manifest'.sum = manifest.sum
                   /\ manifest.status = "VALIDATED" => manifest'.status = "VALIDATED"]_vars
=============================================================================
