---------------------------- MODULE Reconciliation ----------------------------
(***************************************************************************)
(* What the stages compute, record by record: the readings of a Kurly      *)
(* batch and the rows of a KFIA export become bronze and silver, silver    *)
(* products are matched with reference rows or with what people mapped by  *)
(* hand, and approved products are published as gold, once.  Stages may be *)
(* run again in any order their prerequisites allow while the mapping file *)
(* is edited; a run is one step here, LayerBundle has its files.           *)
(*                                                                         *)
(* A reading is identified with its position in the accepted manifest, a   *)
(* reference row with its position in the export (its record_id is made of *)
(* it), a silver product with its product id.                              *)
(***************************************************************************)
EXTENDS Naturals, Sequences

CONSTANTS
  Products, Names, Codes,
  Deliveries,   \* accepted manifests that may be given
  Exports,      \* reference exports that may be given
  Absent,       \* no value, no bundle
  MaxEdits      \* bound: edits of the mapping file

Classes == {"REFRIGERATED", "FROZEN", "ROOM"}          \* of Kurly
Kinds   == {"REFRIGERATED", "FROZEN", "AMBIENT"}       \* of KFIA

\* What parse_expiration reads out of a text.
Expirations == [value : Nat, unit : {"HOUR", "DAY", "MONTH", "YEAR"},
                basis : {"MANUFACTURE", "PACKING", "OPENING", "UNKNOWN"}]

\* A line of products.csv.  valid: it meets the bronze contract; confidence 0:
\* none was given; type and method: what normalize_storage_type recognises in
\* the storage type and in the storage method, Absent where it recognises none.
Readings == [product : Products, valid : BOOLEAN, confidence : Nat,
             name : Names \cup {Absent},
             type : Classes \cup {"UNKNOWN", Absent}, method : Classes \cup {"UNKNOWN", Absent},
             expiration : Expirations \cup {Absent}]

\* A line of the export.  adaptable: the adapter and the contract take it;
\* suspect: a safety factor above 1 or a document of another category.
References == [adaptable : BOOLEAN, code : Codes, type : Names \cup {Absent},
               storage : Kinds \cup {Absent}, days : Nat, inDays : BOOLEAN, suspect : BOOLEAN]

ASSUME InputsAssumption ==
  /\ Deliveries \subseteq Seq(Readings) /\ Exports \subseteq Seq(References)
  /\ MaxEdits \in Nat

VARIABLES
  accepted, export,            \* what the two inboxes hold
  mapping,                     \* per product: the reference row people mapped it to; 0: none
  edits,                       \* every edit of it, as <<product, row>>
  kurlyBronze, kfiaBronze,     \* the rows kept
  kurlySilver, kfiaSilver,     \* per product and per row: the silver record
  reconciled,                  \* per product: the outcome
  used,                        \* the mapping file the latest reconciliation read
  gold                         \* per product: the published profile

inputs == <<accepted, export>>
vars == <<accepted, export, mapping, edits, kurlyBronze, kfiaBronze,
          kurlySilver, kfiaSilver, reconciled, used, gold>>

-----------------------------------------------------------------------------
(* Bronze and silver.                                                      *)

\* Rows that break the contract go to quarantine.
ValidReadings == {i \in DOMAIN accepted : accepted[i].valid}
AdaptableRows == {j \in DOMAIN export : export[j].adaptable}

ProductsOf(rows) == {accepted[i].product : i \in rows}

\* The silver record of a product is that of its representative reading: the
\* highest OCR confidence, then the earliest created_at - of which a manifest
\* has only one, so that the sort, which is stable, leaves the first line.
\* Bug: a tie is left to chance.
RepresentativeOfSome(i, p, rows) ==
  /\ i \in rows /\ accepted[i].product = p
  /\ \A k \in rows : accepted[k].product = p => accepted[k].confidence <= accepted[i].confidence
Representative(i, p, rows) ==
  /\ i \in rows /\ accepted[i].product = p
  /\ \A k \in rows : accepted[k].product = p =>
       \/ accepted[k].confidence < accepted[i].confidence
       \/ accepted[k].confidence = accepted[i].confidence /\ i <= k

StorageOf(reading) ==
  CASE reading.type # Absent   -> reading.type
    [] reading.type = Absent /\ reading.method # Absent -> reading.method
    [] OTHER -> "UNKNOWN"

Certain(expiration) == expiration # Absent /\ expiration.basis # "UNKNOWN"

SilverProduct(i) ==
  LET reading == accepted[i] IN
  [row |-> i, name |-> reading.name, storage |-> StorageOf(reading),
   expiration |-> reading.expiration,
   review |-> \/ reading.name = Absent
              \/ reading.type = Absent /\ reading.method = Absent
              \/ ~Certain(reading.expiration)]

\* evaluate_kfia_quality, on rows the adapter let through.
Quality(row) ==
  CASE row.days = 0 -> "REJECTED"
    [] row.days > 0 /\ (row.suspect \/ row.storage = Absent \/ row.type = Absent) -> "REVIEW_REQUIRED"
    [] OTHER -> "APPROVED"

SilverReference(j) ==
  LET row == export[j] IN
  [code |-> row.code, type |-> row.type,
   storage |-> IF row.storage = Absent THEN "UNKNOWN" ELSE row.storage,
   days |-> row.days, inDays |-> row.inDays, status |-> Quality(row)]

-----------------------------------------------------------------------------
(* Matching.                                                               *)

Unified(storage) == IF storage = "AMBIENT" THEN "ROOM" ELSE storage
Compatible(product, reference) == Unified(product.storage) = Unified(reference.storage)

Candidates(p) ==
  {j \in DOMAIN kfiaSilver :
     /\ kfiaSilver[j].type # Absent /\ kfiaSilver[j].type = kurlySilver[p].name
     /\ Compatible(kurlySilver[p], kfiaSilver[j])}

Aligned(p, j) ==
  /\ kurlySilver[p].expiration # Absent
  /\ kurlySilver[p].expiration.unit = "DAY" /\ kfiaSilver[j].inDays
  /\ kurlySilver[p].expiration.value = kfiaSilver[j].days

Outcome(status, match, source, reference) ==
  [status |-> status, match |-> match, source |-> source, reference |-> reference]

\* Bug: the first candidate is taken without counting them.
MatchFirst(p) ==
  IF mapping[p] \in DOMAIN kfiaSilver
  THEN Outcome("APPROVED", "MANAGED_MAPPING", "MANUAL", mapping[p])
  ELSE IF \E j \in Candidates(p) : Aligned(p, j)
       THEN Outcome("APPROVED", "EXACT_NAME_UNIQUE", "KURLY", CHOOSE j \in Candidates(p) : Aligned(p, j))
       ELSE Outcome("REVIEW_REQUIRED", "NO_REFERENCE", "NONE", 0)
\* match_kurly_record, with the id of the matched reference row or 0.
Match(p) ==
  CASE mapping[p] \in DOMAIN kfiaSilver ->
         Outcome("APPROVED", "MANAGED_MAPPING", "MANUAL", mapping[p])
    [] mapping[p] \notin DOMAIN kfiaSilver /\ Candidates(p) = {} ->
         Outcome("REVIEW_REQUIRED", "NO_REFERENCE", "NONE", 0)
    [] mapping[p] \notin DOMAIN kfiaSilver /\ \E j \in DOMAIN kfiaSilver : Candidates(p) = {j} ->
         LET j == CHOOSE j \in DOMAIN kfiaSilver : Candidates(p) = {j} IN
         IF Aligned(p, j)
         THEN Outcome("APPROVED", "EXACT_NAME_UNIQUE", "KURLY", j)
         ELSE Outcome("REVIEW_REQUIRED", "EXACT_NAME_EXPIRATION_MISMATCH", "NONE", j)
    [] OTHER -> Outcome("REVIEW_REQUIRED", "MULTI_CANDIDATE", "NONE", 0)

\* Bug: a product without a reference is not reported.
ReportedWithReference == {p \in DOMAIN kurlySilver : Match(p).match # "NO_REFERENCE"}
Reported == DOMAIN kurlySilver

-----------------------------------------------------------------------------
(* Gold.                                                                   *)

Approved == {p \in DOMAIN reconciled : reconciled[p].status = "APPROVED"}

\* build_gold_record.  The value is Kurly's: matching never selects MFDS.
Profile(p) ==
  LET outcome == reconciled[p]
      known   == outcome.reference \in DOMAIN kfiaSilver IN
  [name       |-> kurlySilver[p].name,
   storage    |-> kurlySilver[p].storage,
   expiration |-> kurlySilver[p].expiration,
   source     |-> outcome.source,
   reference  |-> outcome.reference,
   key        |-> IF known THEN kfiaSilver[outcome.reference].code ELSE kurlySilver[p].name]

-----------------------------------------------------------------------------
SilverProducts == [row : Nat, name : Names \cup {Absent}, storage : Classes \cup {"UNKNOWN"},
                   expiration : Expirations \cup {Absent}, review : BOOLEAN]
SilverReferences == [code : Codes, type : Names \cup {Absent}, storage : Kinds \cup {"UNKNOWN"},
                     days : Nat, inDays : BOOLEAN,
                     status : {"APPROVED", "REVIEW_REQUIRED", "REJECTED"}]
Outcomes == [status : {"APPROVED", "REVIEW_REQUIRED"},
             match : {"MANAGED_MAPPING", "EXACT_NAME_UNIQUE", "EXACT_NAME_EXPIRATION_MISMATCH",
                      "MULTI_CANDIDATE", "NO_REFERENCE"},
             source : {"KURLY", "MANUAL", "NONE"}, reference : Nat]

\* A bundle holds what its schema says, keyed by rows and products that exist.
ReconciliationTypeOK ==
  /\ accepted \in Deliveries /\ export \in Exports
  /\ mapping \in [Products -> Nat] /\ used \in [Products -> Nat]
  /\ edits \in Seq(Products \X Nat)
  /\ kurlyBronze # Absent => kurlyBronze \in [ValidReadings -> Products]
  /\ kfiaBronze # Absent => kfiaBronze \in [AdaptableRows -> Codes]
  /\ kurlySilver # Absent => kurlySilver \in [ProductsOf(ValidReadings) -> SilverProducts]
  /\ kfiaSilver # Absent => kfiaSilver \in [AdaptableRows -> SilverReferences]
  /\ reconciled # Absent => reconciled \in [ProductsOf(ValidReadings) -> Outcomes]

Init ==
  /\ accepted \in Deliveries /\ export \in Exports
  /\ mapping = [p \in Products |-> 0] /\ edits = <<>>
  /\ kurlyBronze = Absent /\ kfiaBronze = Absent
  /\ kurlySilver = Absent /\ kfiaSilver = Absent
  /\ reconciled = Absent /\ used = mapping
  /\ gold = Absent

RunKurlyBronze ==
  /\ kurlyBronze' = [i \in ValidReadings |-> accepted[i].product]
  /\ UNCHANGED <<inputs, mapping, edits, kfiaBronze, kurlySilver, kfiaSilver, reconciled, used, gold>>

RunKfiaBronze ==
  /\ kfiaBronze' = [j \in AdaptableRows |-> export[j].code]
  /\ UNCHANGED <<inputs, mapping, edits, kurlyBronze, kurlySilver, kfiaSilver, reconciled, used, gold>>

\* Both silver stages want a bronze with a valid row.
RunKurlySilver ==
  /\ kurlyBronze # Absent /\ DOMAIN kurlyBronze # {}
  /\ \E chosen \in [ProductsOf(DOMAIN kurlyBronze) -> DOMAIN kurlyBronze] :
       /\ \A p \in DOMAIN chosen : Representative(chosen[p], p, DOMAIN kurlyBronze)
       /\ kurlySilver' = [p \in DOMAIN chosen |-> SilverProduct(chosen[p])]
  /\ UNCHANGED <<inputs, mapping, edits, kurlyBronze, kfiaBronze, kfiaSilver, reconciled, used, gold>>

RunKfiaSilver ==
  /\ kfiaBronze # Absent /\ DOMAIN kfiaBronze # {}
  /\ kfiaSilver' = [j \in DOMAIN kfiaBronze |-> SilverReference(j)]
  /\ UNCHANGED <<inputs, mapping, edits, kurlyBronze, kfiaBronze, kurlySilver, reconciled, used, gold>>

Reconcile ==
  /\ kurlySilver # Absent /\ kfiaSilver # Absent
  /\ reconciled' = [p \in Reported |-> Match(p)]
  /\ used' = mapping
  /\ UNCHANGED <<inputs, mapping, edits, kurlyBronze, kfiaBronze, kurlySilver, kfiaSilver, gold>>

PublishGold ==
  /\ reconciled # Absent /\ Approved # {} /\ gold = Absent
  /\ gold' = [p \in Approved |-> Profile(p)]
  /\ UNCHANGED <<inputs, mapping, edits, kurlyBronze, kfiaBronze, kurlySilver, kfiaSilver, reconciled, used>>

\* A person maps a product to a row, of this export or of another, or unmaps it.
EditMapping(p, j) ==
  /\ Len(edits) < MaxEdits /\ mapping[p] # j
  /\ edits' = Append(edits, <<p, j>>)
  /\ mapping' = [mapping EXCEPT ![p] = j]
  /\ UNCHANGED <<inputs, kurlyBronze, kfiaBronze, kurlySilver, kfiaSilver, reconciled, used, gold>>

Next ==
  \/ RunKurlyBronze \/ RunKfiaBronze \/ RunKurlySilver \/ RunKfiaSilver
  \/ Reconcile \/ PublishGold
  \/ \E p \in Products : \E j \in 0 .. Len(export) + 1 : EditMapping(p, j)

Spec == Init /\ [][Next]_vars

-----------------------------------------------------------------------------
(* Properties.                                                             *)

\* An adaptable row of the export that is about the product a reading is of.
Speaks(i, j) ==
  /\ j \in AdaptableRows
  /\ export[j].type # Absent /\ export[j].type = accepted[i].name
  /\ Compatible([storage |-> StorageOf(accepted[i])], SilverReference(j))

\* From the two inboxes to gold: a published profile carries the expiration of
\* a valid reading of its product that no other exceeds in confidence, and
\* either people mapped the product to the row it cites or this row is the
\* only one that speaks of the product and gives the same days - whatever was
\* re-run and edited before and after (bronze, silver, match_kurly_record and
\* run_gold_freshness_publish together).
GoldIsJustified ==
  gold # Absent => \A p \in DOMAIN gold :
    \E i \in ValidReadings :
      /\ accepted[i].product = p
      /\ \A k \in ValidReadings : accepted[k].product = p => accepted[k].confidence <= accepted[i].confidence
      /\ gold[p].expiration = accepted[i].expiration
      /\ \/ /\ gold[p].source = "MANUAL"
            /\ \E n \in DOMAIN edits : edits[n] = <<p, gold[p].reference>>
         \/ /\ gold[p].source = "KURLY"
            /\ {j \in DOMAIN export : Speaks(i, j)} = {gold[p].reference}
            /\ export[gold[p].reference].inDays /\ gold[p].expiration # Absent
            /\ gold[p].expiration.unit = "DAY"
            /\ gold[p].expiration.value = export[gold[p].reference].days

\* No product of a valid reading gets lost between the accepted manifest and
\* the review list: it is approved or waits for review (dev_order_docs/08:
\* uncertain records may not be left out).
NothingVanishes ==
  reconciled # Absent => \A i \in ValidReadings :
    /\ accepted[i].product \in DOMAIN reconciled
    /\ reconciled[accepted[i].product].status \in {"APPROVED", "REVIEW_REQUIRED"}

\* Running stages again changes no outcome while the mapping file is the one
\* the latest reconciliation read, ties between readings included
\* (dev_order_docs/08: the same input and rules give the same result).
RerunsAgree ==
  [][reconciled # Absent /\ reconciled' # reconciled => mapping # used]_vars

-----------------------------------------------------------------------------
(* What the documents ask for and the code does not give.                  *)

\* What a silver stage left for review is never approved without a person.
UncertainNeverApproved ==
  reconciled # Absent => \A p \in DOMAIN reconciled :
    reconciled[p].match = "EXACT_NAME_UNIQUE" =>
      /\ ~kurlySilver[p].review
      /\ kfiaSilver[reconciled[p].reference].status = "APPROVED"
=============================================================================
