------------------------- MODULE ReconciliationProofs -------------------------
(* Proofs about Reconciliation, for every delivery, export and mapping.  Each *)
(* bundle is a function of the two inboxes, so a re-run changes none; what    *)
(* people mapped is among the edits; so an approval, and the gold made from   *)
(* it, can be justified from the inboxes and the edits alone.                 *)
EXTENDS Reconciliation, TLAPS

\* The rows of both inboxes have the fields the stages read.
LEMMA RowsTyped ==
  ASSUME accepted \in Deliveries, export \in Exports
  PROVE  /\ \A i \in DOMAIN accepted : i \in Nat /\ accepted[i] \in Readings
         /\ \A j \in DOMAIN export : j \in Nat \ {0} /\ export[j] \in References
<1>1. accepted \in Seq(Readings) /\ export \in Seq(References)
  BY InputsAssumption
<1> QED BY <1>1

LEMMA SilverProductTyped ==
  ASSUME accepted \in Deliveries, export \in Exports, NEW i \in DOMAIN accepted
  PROVE  SilverProduct(i) \in SilverProducts
<1> DEFINE r == accepted[i]
<1>1. r \in Readings /\ i \in Nat BY RowsTyped
<1>2. StorageOf(r) \in Classes \cup {"UNKNOWN"} BY <1>1 DEF StorageOf, Readings, Classes
<1>3. r.name \in Names \cup {Absent} /\ r.expiration \in Expirations \cup {Absent} BY <1>1 DEF Readings
<1> HIDE DEF r
<1>4. \/ r.name = Absent
      \/ r.type = Absent /\ r.method = Absent
      \/ ~Certain(r.expiration)
      \in BOOLEAN
  OBVIOUS
<1> QED BY <1>1, <1>2, <1>3, <1>4 DEF SilverProduct, SilverProducts, r

LEMMA SilverReferenceTyped ==
  ASSUME accepted \in Deliveries, export \in Exports, NEW j \in DOMAIN export
  PROVE  SilverReference(j) \in SilverReferences
<1>1. export[j] \in References BY RowsTyped
<1>2. Quality(export[j]) \in {"APPROVED", "REVIEW_REQUIRED", "REJECTED"} BY <1>1 DEF Quality, References
<1>3. (IF export[j].storage = Absent THEN "UNKNOWN" ELSE export[j].storage) \in Kinds \cup {"UNKNOWN"}
  BY <1>1 DEF References
<1> QED BY <1>1, <1>2, <1>3 DEF SilverReference, SilverReferences, References

-----------------------------------------------------------------------------
(* The strengthening.                                                      *)

\* What GoldIsJustified says of one profile, of the reading i it was made from.
Earned(i, p, source, reference) ==
  \/ /\ source = "MANUAL"
     /\ \E n \in DOMAIN edits : edits[n] = <<p, reference>>
  \/ /\ source = "KURLY"
     /\ {j \in DOMAIN export : Speaks(i, j)} = {reference}
     /\ export[reference].inDays /\ accepted[i].expiration # Absent
     /\ accepted[i].expiration.unit = "DAY"
     /\ accepted[i].expiration.value = export[reference].days

\* Every bundle is what the inboxes determine.
KurlySilverInv ==
  /\ DOMAIN kurlySilver = ProductsOf(ValidReadings)
  /\ \A p \in DOMAIN kurlySilver :
       \E i : Representative(i, p, ValidReadings) /\ kurlySilver[p] = SilverProduct(i)
LayerInv ==
  /\ kurlyBronze # Absent => DOMAIN kurlyBronze = ValidReadings
  /\ kfiaBronze # Absent => DOMAIN kfiaBronze = AdaptableRows
  /\ kurlySilver # Absent => KurlySilverInv
  /\ kfiaSilver # Absent => kfiaSilver = [j \in AdaptableRows |-> SilverReference(j)]

\* What is mapped was once an edit.
MappingInv ==
  \A p \in Products : mapping[p] = 0 \/ \E n \in DOMAIN edits : edits[n] = <<p, mapping[p]>>

\* What is approved was earned by the representative reading.
ApprovalInv ==
  reconciled # Absent =>
    /\ KurlySilverInv
    /\ DOMAIN reconciled = ProductsOf(ValidReadings)
    /\ \A p \in DOMAIN reconciled : reconciled[p].status = "APPROVED" =>
         \A i : Representative(i, p, ValidReadings) =>
           Earned(i, p, reconciled[p].source, reconciled[p].reference)

\* A product has one representative.
LEMMA RepresentativeUnique ==
  ASSUME accepted \in Deliveries, export \in Exports, NEW p, NEW i, NEW k,
         Representative(i, p, ValidReadings), Representative(k, p, ValidReadings)
  PROVE  i = k
<1>1. i \in DOMAIN accepted /\ k \in DOMAIN accepted BY DEF Representative, ValidReadings
<1>2. i \in Nat /\ k \in Nat /\ accepted[i].confidence \in Nat /\ accepted[k].confidence \in Nat
  BY <1>1, RowsTyped DEF Readings
<1> QED BY <1>2 DEF Representative

\* The candidates of a product are the rows that speak of its reading.
LEMMA CandidatesSpeak ==
  ASSUME LayerInv, kfiaSilver # Absent, NEW p, NEW i, kurlySilver[p] = SilverProduct(i)
  PROVE  Candidates(p) = {j \in DOMAIN export : Speaks(i, j)}
<1>1. kfiaSilver = [j \in AdaptableRows |-> SilverReference(j)] BY DEF LayerInv
<1>2. AdaptableRows \subseteq DOMAIN export BY DEF AdaptableRows
<1>3. kurlySilver[p].name = accepted[i].name /\ kurlySilver[p].storage = StorageOf(accepted[i])
  BY DEF SilverProduct
<1>4. \A j \in AdaptableRows : kfiaSilver[j].type = export[j].type
  BY <1>1 DEF SilverReference
<1>5. ASSUME NEW j \in AdaptableRows
      PROVE  Compatible(kurlySilver[p], kfiaSilver[j])
               <=> Compatible([storage |-> StorageOf(accepted[i])], SilverReference(j))
  BY <1>1, <1>3 DEF Compatible
<1> QED BY <1>1, <1>2, <1>3, <1>4, <1>5 DEF Candidates, Speaks

\* match_kurly_record approves what was earned only.
LEMMA MatchEarned ==
  ASSUME ReconciliationTypeOK, LayerInv, MappingInv, kfiaSilver # Absent,
         NEW p \in Products, NEW i, kurlySilver[p] = SilverProduct(i),
         Match(p).status = "APPROVED"
  PROVE  Earned(i, p, Match(p).source, Match(p).reference)
<1>1. DOMAIN kfiaSilver = AdaptableRows /\ \A j \in AdaptableRows : kfiaSilver[j] = SilverReference(j)
  BY DEF LayerInv
<1>2. 0 \notin AdaptableRows BY RowsTyped DEF AdaptableRows, ReconciliationTypeOK
<1>3. CASE mapping[p] \in DOMAIN kfiaSilver
  <2>1. Match(p) = Outcome("APPROVED", "MANAGED_MAPPING", "MANUAL", mapping[p])
    BY <1>3 DEF Match
  <2>2. \E n \in DOMAIN edits : edits[n] = <<p, mapping[p]>> BY <1>1, <1>2, <1>3 DEF MappingInv
  <2> QED BY <2>1, <2>2 DEF Earned, Outcome
<1>4. CASE mapping[p] \notin DOMAIN kfiaSilver /\ Candidates(p) = {}
  <2>1. Match(p) = Outcome("REVIEW_REQUIRED", "NO_REFERENCE", "NONE", 0)
    BY <1>4 DEF Match
  <2> QED BY <2>1 DEF Outcome
<1>5. CASE mapping[p] \notin DOMAIN kfiaSilver /\ \E j \in DOMAIN kfiaSilver : Candidates(p) = {j}
  <2> DEFINE j == CHOOSE j \in DOMAIN kfiaSilver : Candidates(p) = {j}
  <2>1. j \in DOMAIN kfiaSilver /\ Candidates(p) = {j} BY <1>5
  <2>2. Candidates(p) # {} BY <2>1
  <2>3. Match(p) = IF Aligned(p, j) THEN Outcome("APPROVED", "EXACT_NAME_UNIQUE", "KURLY", j)
                   ELSE Outcome("REVIEW_REQUIRED", "EXACT_NAME_EXPIRATION_MISMATCH", "NONE", j)
    BY <1>5, <2>2 DEF Match
  <2> HIDE DEF j
  <2>4. Aligned(p, j) BY <2>3 DEF Outcome
  <2>5. Match(p).source = "KURLY" /\ Match(p).reference = j BY <2>3, <2>4 DEF Outcome
  <2>6. {k \in DOMAIN export : Speaks(i, k)} = {j} BY <2>1, CandidatesSpeak
  <2>7. kurlySilver[p].expiration = accepted[i].expiration BY DEF SilverProduct
  <2>8. kfiaSilver[j].inDays = export[j].inDays /\ kfiaSilver[j].days = export[j].days
    BY <1>1, <2>1 DEF SilverReference
  <2> QED BY <2>4, <2>5, <2>6, <2>7, <2>8 DEF Earned, Aligned
<1>6. CASE /\ mapping[p] \notin DOMAIN kfiaSilver /\ Candidates(p) # {}
           /\ ~\E j \in DOMAIN kfiaSilver : Candidates(p) = {j}
  <2>1. Match(p) = Outcome("REVIEW_REQUIRED", "MULTI_CANDIDATE", "NONE", 0)
    BY <1>6 DEF Match
  <2> QED BY <2>1 DEF Outcome
<1> QED BY <1>3, <1>4, <1>5, <1>6

-----------------------------------------------------------------------------
(* Type correctness.                                                       *)

LEMMA MatchTyped ==
  ASSUME ReconciliationTypeOK, kfiaSilver # Absent, NEW p \in Products
  PROVE  Match(p) \in Outcomes
<1>1. \A j \in DOMAIN kfiaSilver : j \in Nat
  BY RowsTyped DEF ReconciliationTypeOK, AdaptableRows
<1>2. mapping[p] \in Nat BY DEF ReconciliationTypeOK
<1>3. CASE mapping[p] \in DOMAIN kfiaSilver
  BY <1>2, <1>3 DEF Match, Outcome, Outcomes
<1>4. CASE mapping[p] \notin DOMAIN kfiaSilver /\ Candidates(p) = {}
  BY <1>4 DEF Match, Outcome, Outcomes
<1>5. CASE mapping[p] \notin DOMAIN kfiaSilver /\ \E j \in DOMAIN kfiaSilver : Candidates(p) = {j}
  <2> DEFINE j == CHOOSE j \in DOMAIN kfiaSilver : Candidates(p) = {j}
  <2>1. j \in DOMAIN kfiaSilver /\ Candidates(p) = {j} BY <1>5
  <2>2. Candidates(p) # {} BY <2>1
  <2>3. Match(p) = IF Aligned(p, j) THEN Outcome("APPROVED", "EXACT_NAME_UNIQUE", "KURLY", j)
                   ELSE Outcome("REVIEW_REQUIRED", "EXACT_NAME_EXPIRATION_MISMATCH", "NONE", j)
    BY <1>5, <2>2 DEF Match
  <2>4. j \in Nat BY <1>1, <2>1
  <2> HIDE DEF j
  <2> QED BY <2>3, <2>4 DEF Outcome, Outcomes
<1>6. CASE /\ mapping[p] \notin DOMAIN kfiaSilver /\ Candidates(p) # {}
           /\ ~\E j \in DOMAIN kfiaSilver : Candidates(p) = {j}
  BY <1>6 DEF Match, Outcome, Outcomes
<1> QED BY <1>3, <1>4, <1>5, <1>6

\* The two inboxes have what RowsTyped needs in every state.
LEMMA ProductsTyped ==
  ASSUME accepted \in Deliveries, export \in Exports
  PROVE  ProductsOf(ValidReadings) \subseteq Products
BY RowsTyped DEF ProductsOf, ValidReadings, Readings

TypeInv == ReconciliationTypeOK /\ LayerInv

LEMMA InitTyped == Init => TypeInv
<1> SUFFICES ASSUME Init PROVE TypeInv OBVIOUS
<1>1. ReconciliationTypeOK BY DEF Init, ReconciliationTypeOK
<1>2. LayerInv BY DEF Init, LayerInv
<1> QED BY <1>1, <1>2 DEF TypeInv

\* The steps of the stages that write silver, one at a time.
LEMMA KurlySilverTyped ==
  ASSUME TypeInv, RunKurlySilver
  PROVE  /\ kurlySilver' \in [ProductsOf(ValidReadings) -> SilverProducts]
         /\ \A p \in DOMAIN kurlySilver' :
              \E i : Representative(i, p, ValidReadings) /\ kurlySilver'[p] = SilverProduct(i)
<1>1. DOMAIN kurlyBronze = ValidReadings BY DEF TypeInv, LayerInv, RunKurlySilver
<1>2. PICK chosen \in [ProductsOf(ValidReadings) -> ValidReadings] :
        /\ \A p \in DOMAIN chosen : Representative(chosen[p], p, ValidReadings)
        /\ kurlySilver' = [p \in DOMAIN chosen |-> SilverProduct(chosen[p])]
  BY <1>1 DEF RunKurlySilver
<1>3. \A i \in ValidReadings : SilverProduct(i) \in SilverProducts
  BY SilverProductTyped DEF ValidReadings, TypeInv, ReconciliationTypeOK
<1> QED BY <1>2, <1>3

LEMMA KfiaSilverTyped ==
  ASSUME TypeInv, RunKfiaSilver
  PROVE  /\ kfiaSilver' = [j \in AdaptableRows |-> SilverReference(j)]
         /\ kfiaSilver' \in [AdaptableRows -> SilverReferences]
<1>1. kfiaSilver' = [j \in AdaptableRows |-> SilverReference(j)]
  BY DEF TypeInv, LayerInv, RunKfiaSilver
<1>2. \A j \in AdaptableRows : SilverReference(j) \in SilverReferences
  BY SilverReferenceTyped DEF AdaptableRows, TypeInv, ReconciliationTypeOK
<1> QED BY <1>1, <1>2

LEMMA NextTyped == TypeInv /\ [Next]_vars => TypeInv'
<1> SUFFICES ASSUME TypeInv, [Next]_vars PROVE TypeInv' OBVIOUS
<1> USE DEF TypeInv
<1>1. ASSUME UNCHANGED inputs
      PROVE  /\ ValidReadings' = ValidReadings /\ AdaptableRows' = AdaptableRows
             /\ ProductsOf(ValidReadings)' = ProductsOf(ValidReadings)
             /\ \A i : SilverProduct(i)' = SilverProduct(i)
             /\ \A j : SilverReference(j)' = SilverReference(j)
             /\ \A i, p : Representative(i, p, ValidReadings)' = Representative(i, p, ValidReadings)
  BY <1>1 DEF inputs, ValidReadings, AdaptableRows, ProductsOf, SilverProduct, SilverReference, Representative
<1>2. CASE RunKurlyBronze
  <2>1. kurlyBronze' \in [ValidReadings -> Products]
    BY <1>2, RowsTyped DEF RunKurlyBronze, ReconciliationTypeOK, ValidReadings, Readings
  <2>2. LayerInv' BY <1>1, <1>2, <2>1 DEF RunKurlyBronze, LayerInv, KurlySilverInv
  <2> QED BY <1>1, <1>2, <2>1, <2>2 DEF RunKurlyBronze, ReconciliationTypeOK, inputs
<1>3. CASE RunKfiaBronze
  <2>1. kfiaBronze' \in [AdaptableRows -> Codes]
    BY <1>3, RowsTyped DEF RunKfiaBronze, ReconciliationTypeOK, AdaptableRows, References
  <2>2. LayerInv' BY <1>1, <1>3, <2>1 DEF RunKfiaBronze, LayerInv, KurlySilverInv
  <2> QED BY <1>1, <1>3, <2>1, <2>2 DEF RunKfiaBronze, ReconciliationTypeOK, inputs
<1>4. CASE RunKurlySilver
  <2>1. kurlySilver' \in [ProductsOf(ValidReadings) -> SilverProducts] BY <1>4, KurlySilverTyped
  <2>2. \A p \in DOMAIN kurlySilver' :
          \E i : Representative(i, p, ValidReadings) /\ kurlySilver'[p] = SilverProduct(i)
    BY <1>4, KurlySilverTyped
  <2>3. LayerInv' BY <1>1, <1>4, <2>1, <2>2 DEF RunKurlySilver, LayerInv, KurlySilverInv
  <2> QED BY <1>1, <1>4, <2>1, <2>3 DEF RunKurlySilver, ReconciliationTypeOK, inputs
<1>5. CASE RunKfiaSilver
  <2>1. LayerInv' BY <1>1, <1>5, KfiaSilverTyped DEF RunKfiaSilver, LayerInv, KurlySilverInv
  <2> QED BY <1>1, <1>5, <2>1, KfiaSilverTyped DEF RunKfiaSilver, ReconciliationTypeOK, inputs
<1>6. CASE Reconcile
  <2>1. DOMAIN kurlySilver = ProductsOf(ValidReadings) BY <1>6 DEF Reconcile, LayerInv, KurlySilverInv
  <2>2. ProductsOf(ValidReadings) \subseteq Products BY ProductsTyped DEF ReconciliationTypeOK
  <2>3. reconciled' \in [ProductsOf(ValidReadings) -> Outcomes]
    BY <1>6, <2>1, <2>2, MatchTyped DEF Reconcile, Reported
  <2>4. LayerInv' BY <1>1, <1>6 DEF Reconcile, LayerInv, KurlySilverInv
  <2> QED BY <1>1, <1>6, <2>3, <2>4 DEF Reconcile, ReconciliationTypeOK, inputs
<1>7. CASE PublishGold
  <2>1. LayerInv' BY <1>1, <1>7 DEF PublishGold, LayerInv, KurlySilverInv
  <2> QED BY <1>1, <1>7, <2>1 DEF PublishGold, ReconciliationTypeOK, inputs
<1>8. ASSUME NEW p \in Products, NEW j \in 0 .. Len(export) + 1, EditMapping(p, j)
      PROVE  TypeInv'
  <2>1. export \in Seq(References) BY InputsAssumption DEF ReconciliationTypeOK
  <2>2. j \in Nat BY <2>1
  <2>3. mapping' \in [Products -> Nat] /\ edits' \in Seq(Products \X Nat)
    BY <1>8, <2>2 DEF EditMapping, ReconciliationTypeOK
  <2>4. LayerInv' BY <1>1, <1>8 DEF EditMapping, LayerInv, KurlySilverInv
  <2> QED BY <1>1, <1>8, <2>3, <2>4 DEF EditMapping, ReconciliationTypeOK, inputs
<1>9. CASE UNCHANGED vars
  <2>1. LayerInv' BY <1>1, <1>9 DEF vars, inputs, LayerInv, KurlySilverInv
  <2> QED BY <1>1, <1>9, <2>1 DEF vars, inputs, ReconciliationTypeOK
<1> QED BY <1>2, <1>3, <1>4, <1>5, <1>6, <1>7, <1>8, <1>9 DEF Next

\* Every bundle holds what its schema says, and is what the inboxes determine.
THEOREM ReconciliationTyped == Spec => []ReconciliationTypeOK
<1>1. TypeInv => ReconciliationTypeOK BY DEF TypeInv
<1> QED BY <1>1, InitTyped, NextTyped, PTL DEF Spec

\* No product of a valid reading gets lost: reconciliation reports them all.
THEOREM NobodyVanishes == Spec => []NothingVanishes
<1>1. ReconciliationTypeOK => NothingVanishes
  <2> SUFFICES ASSUME ReconciliationTypeOK, reconciled # Absent, NEW i \in ValidReadings
               PROVE  /\ accepted[i].product \in DOMAIN reconciled
                      /\ reconciled[accepted[i].product].status \in {"APPROVED", "REVIEW_REQUIRED"}
    BY DEF NothingVanishes
  <2>1. accepted[i].product \in ProductsOf(ValidReadings) BY DEF ProductsOf
  <2> QED BY <2>1 DEF ReconciliationTypeOK, Outcomes
<1> QED BY <1>1, ReconciliationTyped, PTL

-----------------------------------------------------------------------------
(* Re-runs.                                                                *)

\* match_kurly_record under a given row of the mapping file.
MatchAt(p, row) ==
  CASE row \in DOMAIN kfiaSilver ->
         Outcome("APPROVED", "MANAGED_MAPPING", "MANUAL", row)
    [] row \notin DOMAIN kfiaSilver /\ Candidates(p) = {} ->
         Outcome("REVIEW_REQUIRED", "NO_REFERENCE", "NONE", 0)
    [] row \notin DOMAIN kfiaSilver /\ \E j \in DOMAIN kfiaSilver : Candidates(p) = {j} ->
         LET j == CHOOSE j \in DOMAIN kfiaSilver : Candidates(p) = {j} IN
         IF Aligned(p, j)
         THEN Outcome("APPROVED", "EXACT_NAME_UNIQUE", "KURLY", j)
         ELSE Outcome("REVIEW_REQUIRED", "EXACT_NAME_EXPIRATION_MISMATCH", "NONE", j)
    [] OTHER -> Outcome("REVIEW_REQUIRED", "MULTI_CANDIDATE", "NONE", 0)

LEMMA MatchIsAt == \A p : Match(p) = MatchAt(p, mapping[p])
BY DEF Match, MatchAt

\* The outcomes are those of the mapping file the reconciliation read.
AgreeInv ==
  reconciled # Absent =>
    /\ kurlySilver # Absent /\ kfiaSilver # Absent
    /\ reconciled = [p \in ProductsOf(ValidReadings) |-> MatchAt(p, used[p])]

\* Ties are broken alike: a silver bundle, once there, is made again as it was.
LEMMA KurlySilverStays ==
  ASSUME TypeInv, TypeInv', [Next]_vars, kurlySilver # Absent
  PROVE  kurlySilver' = kurlySilver
<1> USE DEF TypeInv
<1>1. CASE RunKurlySilver
  <2>1. UNCHANGED inputs BY <1>1 DEF RunKurlySilver
  <2>2. /\ ValidReadings' = ValidReadings
        /\ \A i : SilverProduct(i)' = SilverProduct(i)
    BY <2>1 DEF inputs, ValidReadings, SilverProduct
  <2>3. kurlySilver \in [ProductsOf(ValidReadings) -> SilverProducts] BY DEF ReconciliationTypeOK
  <2>4. kurlySilver' \in [ProductsOf(ValidReadings) -> SilverProducts]
    BY <1>1, KurlySilverTyped
  <2>5. ASSUME NEW p \in ProductsOf(ValidReadings) PROVE kurlySilver'[p] = kurlySilver[p]
    <3>1. PICK i : Representative(i, p, ValidReadings) /\ kurlySilver[p] = SilverProduct(i)
      BY <2>3 DEF LayerInv, KurlySilverInv
    <3>2. PICK k : Representative(k, p, ValidReadings) /\ kurlySilver'[p] = SilverProduct(k)
      BY <1>1, <2>4, KurlySilverTyped
    <3>3. i = k BY <3>1, <3>2, RepresentativeUnique DEF ReconciliationTypeOK
    <3> QED BY <3>1, <3>2, <3>3
  <2> QED BY <2>3, <2>4, <2>5
<1>2. CASE ~RunKurlySilver
  BY <1>2 DEF Next, vars, RunKurlyBronze, RunKfiaBronze, RunKfiaSilver, Reconcile, PublishGold, EditMapping
<1> QED BY <1>1, <1>2

LEMMA KfiaSilverStays ==
  ASSUME TypeInv, [Next]_vars, kfiaSilver # Absent
  PROVE  kfiaSilver' = kfiaSilver
<1> USE DEF TypeInv
<1>1. CASE RunKfiaSilver
  BY <1>1, KfiaSilverTyped DEF LayerInv
<1>2. CASE ~RunKfiaSilver
  BY <1>2 DEF Next, vars, RunKurlyBronze, RunKfiaBronze, RunKurlySilver, Reconcile, PublishGold, EditMapping
<1> QED BY <1>1, <1>2

LEMMA OutcomeMoves ==
  ASSUME [Next]_vars
  PROVE  /\ UNCHANGED inputs
         /\ UNCHANGED <<reconciled, used>> \/ Reconcile
BY DEF Next, vars, inputs, RunKurlyBronze, RunKfiaBronze, RunKurlySilver, RunKfiaSilver, PublishGold,
       EditMapping, Reconcile

\* What a reconciliation writes.
LEMMA ReconcileWrites ==
  ASSUME TypeInv, Reconcile
  PROVE  /\ UNCHANGED <<kurlySilver, kfiaSilver>> /\ kurlySilver # Absent /\ kfiaSilver # Absent
         /\ used' = mapping
         /\ reconciled' = [p \in ProductsOf(ValidReadings) |-> MatchAt(p, mapping[p])]
<1>1. Reported = ProductsOf(ValidReadings)
  BY DEF Reconcile, TypeInv, LayerInv, KurlySilverInv, Reported
<1> QED BY <1>1, MatchIsAt DEF Reconcile

LEMMA StepAgrees ==
  ASSUME TypeInv, TypeInv', AgreeInv, [Next]_vars
  PROVE  AgreeInv'
<1> SUFFICES ASSUME reconciled' # Absent
             PROVE  /\ kurlySilver' # Absent /\ kfiaSilver' # Absent
                    /\ reconciled' = [p \in ProductsOf(ValidReadings) |-> MatchAt(p, used[p])]'
  BY DEF AgreeInv
<1>1. ProductsOf(ValidReadings)' = ProductsOf(ValidReadings)
  BY OutcomeMoves DEF inputs, ProductsOf, ValidReadings
<1>2. ASSUME UNCHANGED <<kurlySilver, kfiaSilver>>
      PROVE  \A p, row : MatchAt(p, row)' = MatchAt(p, row)
  <2>1. \A p : Candidates(p)' = Candidates(p) BY <1>2 DEF Candidates, Compatible
  <2>2. \A p, j : Aligned(p, j)' <=> Aligned(p, j) BY <1>2 DEF Aligned
  <2> QED BY <1>2, <2>1, <2>2 DEF MatchAt, Outcome
<1>3. CASE Reconcile
  BY <1>1, <1>2, <1>3, ReconcileWrites
<1>4. CASE UNCHANGED <<reconciled, used>>
  <2>1. kurlySilver # Absent /\ kfiaSilver # Absent BY <1>4 DEF AgreeInv
  <2>2. UNCHANGED <<kurlySilver, kfiaSilver>> BY <2>1, KurlySilverStays, KfiaSilverStays
  <2> QED BY <1>1, <1>2, <1>4, <2>1, <2>2 DEF AgreeInv
<1> QED BY <1>3, <1>4, OutcomeMoves

\* Running any stage again changes no outcome while the mapping file is the one
\* the latest reconciliation read.
THEOREM StagesAgreeAgain == Spec => RerunsAgree
<1>1. Init => AgreeInv BY DEF Init, AgreeInv
<1>2. TypeInv /\ TypeInv' /\ AgreeInv /\ [Next]_vars => AgreeInv' BY StepAgrees
<1>3. TypeInv /\ AgreeInv /\ [Next]_vars
        => [reconciled # Absent /\ reconciled' # reconciled => mapping # used]_vars
  <2> SUFFICES ASSUME TypeInv, AgreeInv, [Next]_vars, reconciled # Absent, reconciled' # reconciled,
                      mapping = used
               PROVE  FALSE
    OBVIOUS
  <2>1. Reconcile BY OutcomeMoves
  <2>2. reconciled' = [p \in ProductsOf(ValidReadings) |-> MatchAt(p, used[p])]
    BY <2>1, ReconcileWrites
  <2> QED BY <2>2 DEF AgreeInv
<1> QED BY <1>1, <1>2, <1>3, InitTyped, NextTyped, PTL DEF Spec, RerunsAgree

-----------------------------------------------------------------------------
(* Gold.                                                                   *)

FullInv == TypeInv /\ MappingInv /\ ApprovalInv /\ GoldIsJustified

\* What was earned stays earned: the inboxes do not change, edits are kept.
LEMMA EarnedKept ==
  ASSUME UNCHANGED inputs, DOMAIN edits \subseteq DOMAIN edits',
         \A n \in DOMAIN edits : edits'[n] = edits[n]
  PROVE  \A i, p, source, reference :
           Earned(i, p, source, reference) => Earned(i, p, source, reference)'
<1> SUFFICES ASSUME NEW i, NEW p, NEW source, NEW reference, Earned(i, p, source, reference)
             PROVE  Earned(i, p, source, reference)'
  OBVIOUS
<1>1. accepted' = accepted /\ export' = export BY DEF inputs
<1>2. AdaptableRows' = AdaptableRows BY <1>1 DEF AdaptableRows
<1>3. \A j : SilverReference(j)' = SilverReference(j) BY <1>1 DEF SilverReference
<1>4. \A j : Speaks(i, j)' <=> Speaks(i, j) BY <1>1, <1>2, <1>3 DEF Speaks
<1>5. CASE /\ source = "MANUAL"
           /\ \E n \in DOMAIN edits : edits[n] = <<p, reference>>
  BY <1>5 DEF Earned
<1>6. CASE /\ source = "KURLY"
           /\ {j \in DOMAIN export : Speaks(i, j)} = {reference}
           /\ export[reference].inDays /\ accepted[i].expiration # Absent
           /\ accepted[i].expiration.unit = "DAY"
           /\ accepted[i].expiration.value = export[reference].days
  <2>1. {j \in DOMAIN export : Speaks(i, j)}' = {j \in DOMAIN export : Speaks(i, j)}
    BY <1>1, <1>4
  <2> QED BY <1>1, <1>6, <2>1 DEF Earned
<1> QED BY <1>5, <1>6 DEF Earned

\* A representative is a reading no other exceeds.
LEMMA RepresentativeLeads ==
  ASSUME accepted \in Deliveries, export \in Exports, NEW p, NEW i,
         Representative(i, p, ValidReadings)
  PROVE  /\ i \in ValidReadings /\ accepted[i].product = p
         /\ \A k \in ValidReadings :
              accepted[k].product = p => accepted[k].confidence <= accepted[i].confidence
<1>1. \A k \in ValidReadings : k \in Nat /\ accepted[k].confidence \in Nat
  BY RowsTyped DEF ValidReadings, Readings
<1> QED BY <1>1 DEF Representative

LEMMA InitJustified == Init => FullInv
<1> SUFFICES ASSUME Init PROVE FullInv OBVIOUS
<1>1. MappingInv BY DEF Init, MappingInv
<1>2. ApprovalInv BY DEF Init, ApprovalInv
<1>3. GoldIsJustified BY DEF Init, GoldIsJustified
<1> QED BY <1>1, <1>2, <1>3, InitTyped DEF FullInv

\* Reconciliation establishes the approvals.
LEMMA ReconcileApproves ==
  ASSUME FullInv, Reconcile
  PROVE  ApprovalInv'
<1> USE DEF FullInv, TypeInv
<1>1. UNCHANGED <<inputs, edits, kurlySilver, kfiaSilver>> BY DEF Reconcile
<1>2. kurlySilver # Absent /\ kfiaSilver # Absent /\ DOMAIN kurlySilver = ProductsOf(ValidReadings)
  BY DEF Reconcile, LayerInv, KurlySilverInv
<1>3. ProductsOf(ValidReadings) \subseteq Products BY ProductsTyped DEF ReconciliationTypeOK
<1>4. reconciled' = [p \in ProductsOf(ValidReadings) |-> Match(p)] BY <1>2 DEF Reconcile, Reported
<1>5. ASSUME NEW p \in ProductsOf(ValidReadings), Match(p).status = "APPROVED",
             NEW i, Representative(i, p, ValidReadings)
      PROVE  Earned(i, p, Match(p).source, Match(p).reference)
  <2>1. PICK k : Representative(k, p, ValidReadings) /\ kurlySilver[p] = SilverProduct(k)
    BY <1>2 DEF LayerInv, KurlySilverInv
  <2>2. i = k BY <1>5, <2>1, RepresentativeUnique DEF ReconciliationTypeOK
  <2> QED BY <1>2, <1>3, <1>5, <2>1, <2>2, MatchEarned
<1>6. ASSUME NEW p \in ProductsOf(ValidReadings), reconciled'[p].status = "APPROVED",
             NEW i, Representative(i, p, ValidReadings)
      PROVE  Earned(i, p, reconciled[p].source, reconciled[p].reference)'
  <2>1. reconciled'[p] = Match(p) BY <1>4
  <2>2. Earned(i, p, reconciled'[p].source, reconciled'[p].reference) BY <1>5, <1>6, <2>1
  <2>3. UNCHANGED inputs /\ edits' = edits BY <1>1
  <2> QED BY <2>2, <2>3, EarnedKept
<1>7. /\ ValidReadings' = ValidReadings /\ ProductsOf(ValidReadings)' = ProductsOf(ValidReadings)
      /\ \A i, p : Representative(i, p, ValidReadings)' = Representative(i, p, ValidReadings)
  BY <1>1 DEF inputs, ValidReadings, ProductsOf, Representative
<1>8. KurlySilverInv'
  BY <1>1, <1>2, <1>7 DEF inputs, LayerInv, KurlySilverInv, SilverProduct
<1>9. DOMAIN reconciled' = ProductsOf(ValidReadings)' BY <1>4, <1>7
<1> QED BY <1>6, <1>7, <1>8, <1>9 DEF ApprovalInv

\* Publication carries an approval, and the representative's expiration, over.
LEMMA PublicationJustified ==
  ASSUME FullInv, PublishGold
  PROVE  GoldIsJustified'
<1> USE DEF FullInv, TypeInv
<1>1. /\ UNCHANGED <<accepted, export, edits>>
      /\ gold' = [p \in Approved |-> Profile(p)] /\ reconciled # Absent
  BY DEF PublishGold, inputs
<1>2. KurlySilverInv /\ DOMAIN reconciled = ProductsOf(ValidReadings)
  BY <1>1 DEF ApprovalInv
<1>3. ASSUME NEW p \in Approved
      PROVE  \E i \in ValidReadings :
               /\ accepted[i].product = p
               /\ \A k \in ValidReadings :
                    accepted[k].product = p => accepted[k].confidence <= accepted[i].confidence
               /\ gold'[p].expiration = accepted[i].expiration
               /\ Earned(i, p, gold'[p].source, gold'[p].reference)
  <2>1. p \in DOMAIN reconciled /\ reconciled[p].status = "APPROVED" BY <1>3 DEF Approved
  <2>2. PICK i : Representative(i, p, ValidReadings) /\ kurlySilver[p] = SilverProduct(i)
    BY <1>2, <2>1 DEF KurlySilverInv
  <2>3. Earned(i, p, reconciled[p].source, reconciled[p].reference)
    BY <1>1, <2>1, <2>2 DEF ApprovalInv
  <2>4. /\ gold'[p].source = reconciled[p].source
        /\ gold'[p].reference = reconciled[p].reference
        /\ gold'[p].expiration = kurlySilver[p].expiration
    BY <1>1 DEF Profile
  <2>5. kurlySilver[p].expiration = accepted[i].expiration BY <2>2 DEF SilverProduct
  <2>6. /\ i \in ValidReadings /\ accepted[i].product = p
        /\ \A k \in ValidReadings :
             accepted[k].product = p => accepted[k].confidence <= accepted[i].confidence
    BY <2>2, RepresentativeLeads DEF ReconciliationTypeOK
  <2> QED BY <2>3, <2>4, <2>5, <2>6
<1>4. /\ ValidReadings' = ValidReadings /\ AdaptableRows' = AdaptableRows
      /\ \A j : SilverReference(j)' = SilverReference(j)
  BY <1>1 DEF ValidReadings, AdaptableRows, SilverReference
<1>5. \A i, j : Speaks(i, j)' <=> Speaks(i, j) BY <1>1, <1>4 DEF Speaks
<1>6. \A i : {j \in DOMAIN export : Speaks(i, j)}' = {j \in DOMAIN export : Speaks(i, j)}
  BY <1>1, <1>5
<1>7. DOMAIN gold' = Approved BY <1>1
<1> QED BY <1>1, <1>3, <1>4, <1>6, <1>7 DEF GoldIsJustified, Earned

\* Steps that leave the bundles alone and lose no edit keep the justification.
LEMMA JustificationKept ==
  ASSUME FullInv, UNCHANGED <<inputs, gold>>, DOMAIN edits \subseteq DOMAIN edits',
         \A n \in DOMAIN edits : edits'[n] = edits[n]
  PROVE  GoldIsJustified'
<1>1. accepted' = accepted /\ export' = export /\ gold' = gold BY DEF inputs
<1>2. /\ ValidReadings' = ValidReadings /\ AdaptableRows' = AdaptableRows
      /\ \A j : SilverReference(j)' = SilverReference(j)
  BY <1>1 DEF ValidReadings, AdaptableRows, SilverReference
<1>3. \A i, j : Speaks(i, j)' <=> Speaks(i, j) BY <1>1, <1>2 DEF Speaks
<1>4. \A i : {j \in DOMAIN export : Speaks(i, j)}' = {j \in DOMAIN export : Speaks(i, j)}
  BY <1>1, <1>3
<1>5. \A q : (\E n \in DOMAIN edits : edits[n] = q) => \E n \in DOMAIN edits' : edits'[n] = q
  OBVIOUS
<1> QED BY <1>1, <1>2, <1>4, <1>5 DEF FullInv, GoldIsJustified

LEMMA ApprovalsKept ==
  ASSUME FullInv, UNCHANGED <<inputs, reconciled>>, DOMAIN edits \subseteq DOMAIN edits',
         \A n \in DOMAIN edits : edits'[n] = edits[n],
         reconciled # Absent => KurlySilverInv'
  PROVE  ApprovalInv'
<1>1. /\ ValidReadings' = ValidReadings /\ ProductsOf(ValidReadings)' = ProductsOf(ValidReadings)
      /\ \A i, p : Representative(i, p, ValidReadings)' = Representative(i, p, ValidReadings)
  BY DEF inputs, ValidReadings, ProductsOf, Representative
<1>2. \A i, p, source, reference :
        Earned(i, p, source, reference) => Earned(i, p, source, reference)'
  BY EarnedKept
<1>3. ASSUME reconciled # Absent, NEW p \in DOMAIN reconciled, reconciled[p].status = "APPROVED",
             NEW i, Representative(i, p, ValidReadings)
      PROVE  Earned(i, p, reconciled[p].source, reconciled[p].reference)'
  <2>1. Earned(i, p, reconciled[p].source, reconciled[p].reference) BY <1>3 DEF FullInv, ApprovalInv
  <2>2. reconciled' = reconciled OBVIOUS
  <2>3. Earned(i, p, reconciled'[p].source, reconciled'[p].reference) BY <2>1, <2>2
  <2> QED BY <2>3, <1>2
<1> QED BY <1>1, <1>3 DEF FullInv, ApprovalInv

LEMMA NextJustified == FullInv /\ [Next]_vars => FullInv'
<1> SUFFICES ASSUME FullInv, [Next]_vars PROVE FullInv' OBVIOUS
<1>1. TypeInv' BY NextTyped DEF FullInv
<1>2. export \in Seq(References) /\ edits \in Seq(Products \X Nat) /\ mapping \in [Products -> Nat]
  BY InputsAssumption DEF FullInv, TypeInv, ReconciliationTypeOK
<1>3. CASE RunKurlyBronze \/ RunKfiaBronze \/ RunKurlySilver \/ RunKfiaSilver \/ UNCHANGED vars
  <2>1. UNCHANGED <<inputs, mapping, edits, reconciled, gold>>
    BY <1>3 DEF RunKurlyBronze, RunKfiaBronze, RunKurlySilver, RunKfiaSilver, vars, inputs
  <2>2. reconciled # Absent => KurlySilverInv'
    <3>0. /\ ValidReadings' = ValidReadings /\ ProductsOf(ValidReadings)' = ProductsOf(ValidReadings)
          /\ \A i, p : Representative(i, p, ValidReadings)' = Representative(i, p, ValidReadings)
          /\ \A i : SilverProduct(i)' = SilverProduct(i)
      BY <2>1 DEF inputs, ValidReadings, ProductsOf, Representative, SilverProduct
    <3>1. CASE RunKurlySilver
      <4>1. /\ DOMAIN kurlySilver' = ProductsOf(ValidReadings)
            /\ \A p \in DOMAIN kurlySilver' :
                 \E i : Representative(i, p, ValidReadings) /\ kurlySilver'[p] = SilverProduct(i)
        BY <3>1, KurlySilverTyped DEF FullInv
      <4> QED BY <3>0, <4>1 DEF KurlySilverInv
    <3>2. CASE UNCHANGED kurlySilver BY <3>0, <3>2 DEF FullInv, ApprovalInv, KurlySilverInv
    <3> QED BY <1>3, <3>1, <3>2 DEF RunKurlyBronze, RunKfiaBronze, RunKfiaSilver, vars
  <2>3. MappingInv' BY <2>1 DEF FullInv, MappingInv
  <2>4. ApprovalInv' BY <2>1, <2>2, ApprovalsKept
  <2>5. GoldIsJustified' BY <2>1, JustificationKept
  <2> QED BY <1>1, <2>3, <2>4, <2>5 DEF FullInv
<1>4. CASE Reconcile
  <2>1. UNCHANGED <<inputs, mapping, edits, gold>> BY <1>4 DEF Reconcile
  <2>2. MappingInv' BY <2>1 DEF FullInv, MappingInv
  <2>3. ApprovalInv' BY <1>4, ReconcileApproves
  <2>4. GoldIsJustified' BY <2>1, JustificationKept
  <2> QED BY <1>1, <2>2, <2>3, <2>4 DEF FullInv
<1>5. CASE PublishGold
  <2>1. UNCHANGED <<inputs, mapping, edits, reconciled, kurlySilver, kfiaSilver>> BY <1>5 DEF PublishGold
  <2>2. MappingInv' BY <2>1 DEF FullInv, MappingInv
  <2>7. reconciled # Absent => KurlySilverInv'
    BY <2>1 DEF inputs, FullInv, ApprovalInv, KurlySilverInv, ValidReadings, ProductsOf,
                Representative, SilverProduct
  <2>3. ApprovalInv' BY <2>1, <2>7, ApprovalsKept
  <2>4. GoldIsJustified' BY <1>5, PublicationJustified
  <2> QED BY <1>1, <2>2, <2>3, <2>4 DEF FullInv
<1>6. ASSUME NEW p \in Products, NEW j \in 0 .. Len(export) + 1, EditMapping(p, j)
      PROVE  FullInv'
  <2>1. /\ UNCHANGED <<inputs, reconciled, gold, kurlySilver, kfiaSilver>>
        /\ edits' = Append(edits, <<p, j>>) /\ mapping' = [mapping EXCEPT ![p] = j]
    BY <1>6 DEF EditMapping
  <2>2. /\ DOMAIN edits \subseteq DOMAIN edits' /\ \A n \in DOMAIN edits : edits'[n] = edits[n]
        /\ Len(edits) + 1 \in DOMAIN edits' /\ edits'[Len(edits) + 1] = <<p, j>>
    BY <1>2, <2>1
  <2>3. MappingInv'
    <3>1. ASSUME NEW q \in Products
          PROVE  mapping'[q] = 0 \/ \E n \in DOMAIN edits' : edits'[n] = <<q, mapping'[q]>>
      <4>1. CASE q = p BY <1>2, <2>1, <2>2, <4>1
      <4>2. CASE q # p BY <1>2, <2>1, <2>2, <4>2 DEF FullInv, MappingInv
      <4> QED BY <4>1, <4>2
    <3> QED BY <3>1 DEF MappingInv
  <2>7. reconciled # Absent => KurlySilverInv'
    BY <2>1 DEF inputs, FullInv, ApprovalInv, KurlySilverInv, ValidReadings, ProductsOf,
                Representative, SilverProduct
  <2>4. ApprovalInv' BY <2>1, <2>2, <2>7, ApprovalsKept
  <2>5. GoldIsJustified' BY <2>1, <2>2, JustificationKept
  <2> QED BY <1>1, <2>3, <2>4, <2>5 DEF FullInv
<1> QED BY <1>3, <1>4, <1>5, <1>6 DEF Next

\* Every profile that is ever published can be justified from the two inboxes
\* and the edits alone.
THEOREM GoldIsEarned == Spec => []GoldIsJustified
<1>1. FullInv => GoldIsJustified BY DEF FullInv
<1> QED BY <1>1, InitJustified, NextJustified, PTL DEF Spec
=============================================================================
