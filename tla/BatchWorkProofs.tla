----------------------------- MODULE BatchWorkProofs -----------------------------
(***************************************************************************)
(* Theorems about BatchWork for all pages, images, files and bounds: the   *)
(* list of a batch and what the discovery says of it, the rows and images  *)
(* a collection leaves, the rows the OCR container writes, what a command  *)
(* of it claims when it ends, and what a row says against its image.        *)
(***************************************************************************)
EXTENDS BatchWork, SequenceTheorems, FiniteSetTheorems, WellFoundedInduction, TLAPS

-----------------------------------------------------------------------------
(* Numbers, sequences, and what a fold over a sequence comes to.           *)

\* The least number of a set that has one.
LEMMA LeastNumber ==
  ASSUME NEW T, T \subseteq Nat, T # {}
  PROVE  \E m \in T : \A k \in T : m <= k
  <1> DEFINE Below == {p \in Nat \X Nat : p[1] < p[2]}
  <1>1. IsWellFoundedOn(Below, Nat)
    BY NatLessThanWellFounded DEF OpToRel
  <1>2. PICK m \in T : \A k \in T : <<k, m>> \notin Below
    <2> HIDE DEF Below
    <2>1. QED
      BY <1>1, WFMin
  <1>3. ASSUME NEW k \in T
        PROVE  m <= k
    <2>1. k \in Nat /\ m \in Nat /\ <<k, m>> \notin Below
      BY <1>2
    <2>2. ~ (k < m)
      BY <2>1
    <2>3. QED
      BY <2>1, <2>2
  <1>4. QED
    BY <1>3

\* A set that has 0 and with each number up to n the next has all up to n.
LEMMA UpTo ==
  ASSUME NEW n \in Nat, NEW T, 0 \in T, \A k \in 0 .. n : k < n /\ k \in T => k + 1 \in T
  PROVE  \A k \in 0 .. n : k \in T
  <1> DEFINE Rest == {k \in 0 .. n : k \notin T}
  <1>1. SUFFICES ASSUME Rest # {}
                 PROVE  FALSE
    OBVIOUS
  <1>2. PICK m \in Rest : \A k \in Rest : m <= k
    <2>1. Rest \subseteq Nat
      OBVIOUS
    <2> HIDE DEF Rest
    <2>2. QED
      BY <1>1, <2>1, LeastNumber
  <1>3. m \in 0 .. n /\ m \notin T /\ m # 0
    BY <1>2
  <1>4. m - 1 \in 0 .. n /\ m - 1 < n /\ (m - 1) + 1 = m
    BY <1>3
  <1>5. m - 1 \notin Rest
    <2>1. \A k \in Rest : m <= k
      BY <1>2
    <2>2. ~ (m <= m - 1)
      BY <1>3
    <2> HIDE DEF Rest
    <2>3. QED
      BY <2>1, <2>2
  <1>6. m - 1 \in T
    BY <1>4, <1>5
  <1>7. QED
    BY <1>3, <1>4, <1>6

\* A set of numbers up to n has a greatest one.
LEMMA MaxOf ==
  ASSUME NEW n \in Nat, NEW s, s \subseteq 1 .. n, s # {}
  PROVE  Max(s) \in s /\ \A x \in s : x <= Max(s)
  <1> DEFINE Over == {k \in Nat : \A x \in s : x <= k}
  <1>1. n \in Over
    OBVIOUS
  <1>2. PICK m \in Over : \A k \in Over : m <= k
    <2>1. Over \subseteq Nat /\ Over # {}
      BY <1>1
    <2> HIDE DEF Over
    <2>2. QED
      BY <2>1, LeastNumber
  <1>3. m \in s
    <2>1. SUFFICES ASSUME m \notin s
                   PROVE  FALSE
      OBVIOUS
    <2>2. m \in Nat /\ \A x \in s : x <= m /\ x # m /\ x \in 1 .. n
      BY <1>2, <2>1
    <2>3. PICK y \in s : TRUE
      OBVIOUS
    <2>4. m - 1 \in Nat
      BY <2>2, <2>3
    <2>5. \A x \in s : x <= m - 1
      BY <2>2
    <2>6. m - 1 \in Over
      BY <2>4, <2>5
    <2>7. m <= m - 1
      <3> HIDE DEF Over
      <3>1. QED
        BY <1>2, <2>6
    <2>8. QED
      BY <2>2, <2>7
  <1>4. \A x \in s : m >= x
    BY <1>2, <1>3
  <1>5. Max(s) \in s /\ \A x \in s : Max(s) >= x
    <2>1. \E x \in s : \A y \in s : x >= y
      BY <1>3, <1>4
    <2>2. QED
      BY <2>1 DEF Max
  <1>6. QED
    BY <1>5

\* The values a fold takes over the elements up to each place.
Trace(G, F, base, seq) ==
  /\ G[0] = base
  /\ \A k \in 0 .. Len(seq) - 1 : G[k + 1] = F[<<G[k], seq[k + 1]>>]

\* v is what the fold comes to, by way of values in A.
HasTrace(A, F, base, seq, v) ==
  \E G \in [0 .. Len(seq) -> A] : Trace(G, F, base, seq) /\ v = G[Len(seq)]

\* h folds seq over each set of places, as far as it stays in A.
FoldsIn(h, A, F, base, seq) ==
  /\ h[{}] = base
  /\ \A s \in SUBSET (1 .. Len(seq)) : s # {} /\ h[s \ {Max(s)}] \in A =>
       h[s] = F[<<h[s \ {Max(s)}], seq[Max(s)]>>]

\* h folds seq over each set of places.
Folds(h, F, base, seq) ==
  \A s \in SUBSET (1 .. Len(seq)) :
    h[s] = IF s = {} THEN base ELSE F[<<h[s \ {Max(s)}], seq[Max(s)]>>]

\* There is such an h, whatever is folded.
LEMMA FoldExists ==
  ASSUME NEW A, NEW S, NEW F \in [A \X S -> A], NEW base \in A, NEW seq \in Seq(S)
  PROVE  \E h \in [SUBSET (1 .. Len(seq)) -> A] : Folds(h, F, base, seq)
  <1> DEFINE n == Len(seq)
             Upto(k, h) == \A s \in SUBSET (1 .. k) :
               h[s] = IF s = {} THEN base ELSE F[<<h[s \ {Max(s)}], seq[Max(s)]>>]
             T == {k \in 0 .. n : \E h \in [SUBSET (1 .. k) -> A] : Upto(k, h)}
  <1>1. n \in Nat
    OBVIOUS
  <1>2. 0 \in T
    <2> DEFINE h == [s \in SUBSET (1 .. 0) |-> base]
    <2>1. \A s \in SUBSET (1 .. 0) : s = {}
      OBVIOUS
    <2>2. h \in [SUBSET (1 .. 0) -> A] /\ Upto(0, h)
      BY <2>1
    <2>3. 0 \in 0 .. n
      BY <1>1
    <2>4. QED
      <3> HIDE DEF h, Upto, n
      <3>1. QED
        BY <2>2, <2>3
  <1>3. ASSUME NEW k \in 0 .. n, k < n, k \in T
        PROVE  k + 1 \in T
    <2>1. PICK h \in [SUBSET (1 .. k) -> A] : Upto(k, h)
      BY <1>3
    <2> DEFINE g == [s \in SUBSET (1 .. k + 1) |->
                       IF k + 1 \in s THEN F[<<h[s \ {k + 1}], seq[k + 1]>>] ELSE h[s]]
    <2>2. ASSUME NEW s \in SUBSET (1 .. k + 1)
          PROVE  /\ k + 1 \in s => s \ {k + 1} \in SUBSET (1 .. k)
                 /\ k + 1 \notin s => s \in SUBSET (1 .. k)
      BY <1>3
    <2>3. seq[k + 1] \in S
      BY <1>1, <1>3
    <2>4. g \in [SUBSET (1 .. k + 1) -> A]
      <3>1. ASSUME NEW s \in SUBSET (1 .. k + 1)
            PROVE  (IF k + 1 \in s THEN F[<<h[s \ {k + 1}], seq[k + 1]>>] ELSE h[s]) \in A
        BY <2>2, <2>3
      <3>2. QED
        BY <3>1
    <2>5. ASSUME NEW s \in SUBSET (1 .. k + 1)
          PROVE  g[s] = IF s = {} THEN base ELSE F[<<g[s \ {Max(s)}], seq[Max(s)]>>]
      <3>1. CASE k + 1 \in s
        <4>1. Max(s) = k + 1
          <5>1. k + 1 \in Nat /\ s \subseteq 1 .. k + 1 /\ s # {}
            BY <1>1, <3>1
          <5>2. Max(s) \in s /\ \A x \in s : x <= Max(s)
            BY <5>1, MaxOf
          <5>3. k + 1 <= Max(s) /\ Max(s) \in 1 .. k + 1
            BY <3>1, <5>2
          <5>4. QED
            BY <1>1, <5>3
        <4>2. g[s] = F[<<h[s \ {k + 1}], seq[k + 1]>>]
          BY <3>1
        <4>3. g[s \ {k + 1}] = h[s \ {k + 1}]
          BY <2>2, <3>1
        <4>4. QED
          BY <3>1, <4>1, <4>2, <4>3
      <3>2. CASE k + 1 \notin s
        <4>1. g[s] = h[s] /\ s \in SUBSET (1 .. k)
          BY <2>2, <3>2
        <4>2. g[s \ {Max(s)}] = h[s \ {Max(s)}]
          BY <2>2, <3>2
        <4>3. QED
          BY <2>1, <4>1, <4>2
      <3>3. QED
        BY <3>1, <3>2
    <2>6. Upto(k + 1, g)
      <3> HIDE DEF g
      <3> QED
      BY <2>5
    <2>7. k + 1 \in 0 .. n
      BY <1>1, <1>3
    <2>8. QED
      <3> HIDE DEF g, Upto
      <3> QED
      BY <2>4, <2>6, <2>7
  <1>4. \A k \in 0 .. n : k \in T
    <2> HIDE DEF T, n
    <2>1. QED
      BY <1>1, <1>2, <1>3, UpTo
  <1>5. n \in T
    <2> HIDE DEF T
    <2> QED
    BY <1>1, <1>4
  <1>6. QED
    BY <1>5 DEF Folds

\* What such an h has for all the places is what the fold comes to.
LEMMA FoldValue ==
  ASSUME NEW A, NEW S, NEW F \in [A \X S -> A], NEW base \in A, NEW seq \in Seq(S), NEW h,
         FoldsIn(h, A, F, base, seq)
  PROVE  HasTrace(A, F, base, seq, h[1 .. Len(seq)])
  <1> DEFINE n == Len(seq)
             G == [k \in 0 .. n |-> h[1 .. k]]
             T == {k \in 0 .. n : h[1 .. k] \in A}
  <1>1. n \in Nat
    OBVIOUS
  <1>2. ASSUME NEW k \in 0 .. n, k < n
        PROVE  h[1 .. k] \in A => h[1 .. k + 1] = F[<<h[1 .. k], seq[k + 1]>>] /\ h[1 .. k + 1] \in A
    <2> DEFINE s == 1 .. k + 1
    <2>1. s \in SUBSET (1 .. n) /\ s # {} /\ k \in Nat /\ k + 1 \in s /\ s \in SUBSET Nat
      <3>1. k \in Nat /\ k + 1 \in Nat /\ k + 1 <= n
        BY <1>1, <1>2
      <3>2. k + 1 \in s /\ \A x \in s : x \in 1 .. n /\ x \in Nat
        BY <1>1, <3>1
      <3>3. QED
        BY <3>1, <3>2
    <2>2. Max(s) = k + 1
      <3>1. Max(s) \in s /\ \A x \in s : x <= Max(s)
        <4>1. s \subseteq 1 .. k + 1 /\ k + 1 \in Nat
          BY <2>1
        <4> HIDE DEF s
        <4>2. QED
          BY <2>1, <4>1, MaxOf
      <3>2. Max(s) \in 1 .. k + 1 /\ k + 1 <= Max(s)
        BY <2>1, <3>1
      <3>3. QED
        BY <2>1, <3>2
    <2>3. (1 .. k + 1) \ {k + 1} = 1 .. k
      BY <1>1, <1>2
    <2>4. seq[k + 1] \in S
      BY <1>1, <1>2
    <2>5. QED
      BY <2>1, <2>2, <2>3, <2>4 DEF FoldsIn
  <1>3. 1 .. 0 = {} /\ 0 \in T
    BY <1>1 DEF FoldsIn
  <1>4. ASSUME NEW k \in 0 .. n, k < n, k \in T
        PROVE  k + 1 \in T
    <2>1. h[1 .. k + 1] \in A
      BY <1>2, <1>4
    <2>2. k + 1 \in 0 .. n
      BY <1>1, <1>4
    <2>3. QED
      BY <2>1, <2>2
  <1>5. \A k \in 0 .. n : k \in T
    <2> HIDE DEF T, n
    <2>1. QED
      BY <1>1, <1>3, <1>4, UpTo
  <1>6. G \in [0 .. n -> A]
    BY <1>5
  <1>7. Trace(G, F, base, seq)
    <2>1. G[0] = base
      BY <1>1, <1>3 DEF FoldsIn
    <2>2. ASSUME NEW k \in 0 .. n - 1
          PROVE  G[k + 1] = F[<<G[k], seq[k + 1]>>]
      <3>1. k \in 0 .. n /\ k + 1 \in 0 .. n /\ k < n
        BY <1>1
      <3>2. QED
        BY <1>2, <1>5, <3>1
    <2>3. QED
      <3> HIDE DEF G
      <3> QED
      BY <2>1, <2>2 DEF Trace
  <1>8. G[n] = h[1 .. n]
    BY <1>1
  <1>9. QED
    <2> HIDE DEF G
    <2>1. QED
      BY <1>6, <1>7, <1>8 DEF HasTrace

\* A fold over nothing, and over one element more.
LEMMA FoldOfNone ==
  ASSUME NEW A, NEW F, NEW base, NEW v, HasTrace(A, F, base, <<>>, v)
  PROVE  v = base
  BY DEF HasTrace, Trace

\* One more element is one more step of the fold.
LEMMA FoldOfMore ==
  ASSUME NEW A, NEW S, NEW F, NEW base, NEW seq \in Seq(S), NEW e \in S, NEW v, NEW u,
         HasTrace(A, F, base, seq, v), HasTrace(A, F, base, Append(seq, e), u)
  PROVE  u = F[<<v, e>>]
  <1> DEFINE n == Len(seq)
             more == Append(seq, e)
  <1>1. n \in Nat /\ Len(more) = n + 1 /\ more[n + 1] = e /\ \A k \in 1 .. n : more[k] = seq[k]
    OBVIOUS
  <1>2. PICK G \in [0 .. n -> A] : Trace(G, F, base, seq) /\ v = G[n]
    BY DEF HasTrace
  <1>3. PICK H \in [0 .. Len(more) -> A] : Trace(H, F, base, more) /\ u = H[Len(more)]
    BY DEF HasTrace
  <1> HIDE DEF n, more
  <1> DEFINE T == {k \in 0 .. n : H[k] = G[k]}
  <1>4. 0 \in T
    BY <1>1, <1>2, <1>3 DEF Trace
  <1>5. ASSUME NEW k \in 0 .. n, k < n, k \in T
        PROVE  k + 1 \in T
    <2>1. k \in 0 .. n - 1 /\ k \in 0 .. (n + 1) - 1 /\ k + 1 \in 1 .. n /\ k + 1 \in 0 .. n
      BY <1>1, <1>5
    <2>2. G[k + 1] = F[<<G[k], seq[k + 1]>>]
      BY <1>2, <2>1 DEF Trace, n
    <2>3. H[k + 1] = F[<<H[k], more[k + 1]>>]
      BY <1>1, <1>3, <2>1 DEF Trace
    <2>4. QED
      BY <1>1, <1>5, <2>1, <2>2, <2>3
  <1>6. n \in T
    <2> HIDE DEF T
    <2>1. \A k \in 0 .. n : k \in T
      BY <1>1, <1>4, <1>5, UpTo
    <2>2. QED
      BY <1>1, <2>1
  <1>7. n \in 0 .. Len(more) - 1
    BY <1>1
  <1>8. H[n + 1] = F[<<H[n], more[n + 1]>>]
    BY <1>3, <1>7 DEF Trace
  <1>9. QED
    BY <1>1, <1>2, <1>3, <1>6, <1>8

\* Merging links one after the other (merge_link_candidates).
LEMMA MergeTrace ==
  ASSUME NEW known \in Seq(Products), NEW links \in Seq(Products \cup {Foreign})
  PROVE  \E G \in [0 .. Len(links) -> Seq(Products)] :
           /\ G[0] = known
           /\ \A k \in 0 .. Len(links) - 1 : G[k + 1] = IF links[k + 1] = Foreign \/ links[k + 1] \in ToSet(G[k])
                                                        THEN G[k]
                                                        ELSE Append(G[k], links[k + 1])
           /\ Merge(known, links) = G[Len(links)]
  <1> DEFINE A == Seq(Products)
             S == Products \cup {Foreign}
             F == [p \in A \X S |-> IF p[2] = Foreign \/ p[2] \in ToSet(p[1])
                                    THEN p[1]
                                    ELSE Append(p[1], p[2])]
             n == Len(links)
             Step(it, s) == IF s = {} THEN known
                            ELSE IF links[Max(s)] = Foreign \/ links[Max(s)] \in ToSet(it[s \ {Max(s)}])
                                 THEN it[s \ {Max(s)}]
                                 ELSE Append(it[s \ {Max(s)}], links[Max(s)])
             h == CHOOSE it : it = [s \in SUBSET DOMAIN links |-> Step(it, s)]
  <1>1. /\ known \in A /\ links \in Seq(S) /\ n \in Nat
        /\ DOMAIN links = 1 .. n /\ \A i \in 1 .. n : links[i] \in S
    OBVIOUS
  <1>2. ASSUME NEW a \in A, NEW e \in S
        PROVE  (IF e = Foreign \/ e \in ToSet(a) THEN a ELSE Append(a, e)) \in A
    <2>1. e # Foreign => Append(a, e) \in A
      OBVIOUS
    <2> HIDE DEF A, S
    <2>2. QED
      BY <2>1
  <1>3. F \in [A \X S -> A]
    <2>1. \A p \in A \X S : p[1] \in A /\ p[2] \in S
      OBVIOUS
    <2> HIDE DEF A, S
    <2>2. ASSUME NEW p \in A \X S
          PROVE  (IF p[2] = Foreign \/ p[2] \in ToSet(p[1]) THEN p[1] ELSE Append(p[1], p[2])) \in A
      BY <1>2, <2>1
    <2>3. QED
      BY <2>2
  <1>4. ASSUME NEW s \in SUBSET (1 .. n), s # {}, NEW a \in A
        PROVE  F[<<a, links[Max(s)]>>] = IF links[Max(s)] = Foreign \/ links[Max(s)] \in ToSet(a)
                                         THEN a
                                         ELSE Append(a, links[Max(s)])
    <2>1. Max(s) \in s
      BY <1>1, <1>4, MaxOf
    <2>2. <<a, links[Max(s)]>> \in A \X S
      <3> HIDE DEF A, S
      <3>1. QED
        BY <1>1, <2>1
    <2> HIDE DEF A, S
    <2>3. QED
      BY <2>2
  <1>5. h = [s \in SUBSET DOMAIN links |-> Step(h, s)]
    <2>1. PICK it \in [SUBSET (1 .. n) -> A] : Folds(it, F, known, links)
      <3> HIDE DEF F, A, S
      <3>1. QED
        BY <1>1, <1>3, FoldExists
    <2>2. ASSUME NEW s \in SUBSET (1 .. n)
          PROVE  it[s] = Step(it, s)
      <3>1. it[s \ {Max(s)}] \in A
        BY <2>1
      <3> HIDE DEF F, A, S
      <3>2. QED
        BY <1>4, <2>1, <3>1 DEF Folds
    <2>3. it = [s \in SUBSET DOMAIN links |-> Step(it, s)]
      <3> HIDE DEF Step, n
      <3>1. QED
        BY <1>1, <2>1, <2>2
    <2> HIDE DEF Step
    <2>4. QED
      BY <2>3
  <1>6. Merge(known, links) = h[1 .. n]
    <2>1. Merge(known, links) = h[DOMAIN links]
      BY DEF Merge, FoldLeft, MapThenFoldSet
    <2> HIDE DEF h
    <2>2. QED
      BY <1>1, <2>1
  <1> HIDE DEF h
  <1>7. FoldsIn(h, A, F, known, links)
    <2>1. h[{}] = known
      BY <1>5
    <2>2. ASSUME NEW s \in SUBSET (1 .. n), s # {}, h[s \ {Max(s)}] \in A
          PROVE  h[s] = F[<<h[s \ {Max(s)}], links[Max(s)]>>]
      <3>1. h[s] = Step(h, s)
        <4> HIDE DEF Step, n
        <4>1. QED
          BY <1>1, <1>5
      <3> HIDE DEF F, A, S
      <3>2. QED
        BY <1>4, <2>2, <3>1
    <2> HIDE DEF F, A, S
    <2>3. QED
      BY <2>1, <2>2 DEF FoldsIn
  <1>8. PICK G \in [0 .. n -> A] : Trace(G, F, known, links) /\ h[1 .. n] = G[n]
    <2> HIDE DEF F, A, S
    <2>1. HasTrace(A, F, known, links, h[1 .. n])
      BY <1>1, <1>3, <1>7, FoldValue
    <2>2. QED
      BY <2>1 DEF HasTrace
  <1>9. ASSUME NEW k \in 0 .. n - 1
        PROVE  G[k + 1] = IF links[k + 1] = Foreign \/ links[k + 1] \in ToSet(G[k])
                          THEN G[k]
                          ELSE Append(G[k], links[k + 1])
    <2> HIDE DEF A, S
    <2>1. G[k] \in A /\ links[k + 1] \in S
      <3>1. k \in 0 .. n /\ k + 1 \in 1 .. n
        BY <1>1
      <3> HIDE DEF n
      <3>2. QED
        BY <1>1, <1>8, <3>1
    <2>2. G[k + 1] = F[<<G[k], links[k + 1]>>]
      BY <1>8 DEF Trace
    <2>3. QED
      BY <2>1, <2>2
  <1>10. QED
    BY <1>6, <1>8, <1>9 DEF Trace

\* Reading a URL file line by line (load_unique_urls).
LEMMA UniqueTrace ==
  ASSUME NEW lines \in Seq(Line)
  PROVE  \E G \in [0 .. Len(lines) -> Seq(Line)] :
           /\ G[0] = <<>>
           /\ \A k \in 0 .. Len(lines) - 1 : G[k + 1] = IF lines[k + 1] # Foreign
                                                           /\ \E r \in ToSet(G[k]) : r # Foreign /\ r.product = lines[k + 1].product
                                                        THEN G[k]
                                                        ELSE Append(G[k], lines[k + 1])
           /\ LoadUniqueUrls(lines) = G[Len(lines)]
  <1> DEFINE A == Seq(Line)
             S == Line
             F == [p \in A \X S |-> IF p[2] # Foreign
                                       /\ \E r \in ToSet(p[1]) : r # Foreign /\ r.product = p[2].product
                                    THEN p[1]
                                    ELSE Append(p[1], p[2])]
             n == Len(lines)
             Step(it, s) == IF s = {} THEN <<>>
                            ELSE IF lines[Max(s)] # Foreign
                                    /\ \E r \in ToSet(it[s \ {Max(s)}]) : r # Foreign /\ r.product = lines[Max(s)].product
                                 THEN it[s \ {Max(s)}]
                                 ELSE Append(it[s \ {Max(s)}], lines[Max(s)])
             h == CHOOSE it : it = [s \in SUBSET DOMAIN lines |-> Step(it, s)]
  <1>1. /\ <<>> \in A /\ lines \in Seq(S) /\ n \in Nat
        /\ DOMAIN lines = 1 .. n /\ \A i \in 1 .. n : lines[i] \in S
    OBVIOUS
  <1>2. ASSUME NEW a \in A, NEW e \in S
        PROVE  (IF e # Foreign /\ \E r \in ToSet(a) : r # Foreign /\ r.product = e.product
                THEN a
                ELSE Append(a, e)) \in A
    <2>1. Append(a, e) \in A
      OBVIOUS
    <2> HIDE DEF A, S
    <2>2. QED
      BY <2>1
  <1>3. F \in [A \X S -> A]
    <2>1. \A p \in A \X S : p[1] \in A /\ p[2] \in S
      OBVIOUS
    <2> HIDE DEF A, S
    <2>2. ASSUME NEW p \in A \X S
          PROVE  (IF p[2] # Foreign /\ \E r \in ToSet(p[1]) : r # Foreign /\ r.product = p[2].product
                  THEN p[1]
                  ELSE Append(p[1], p[2])) \in A
      BY <1>2, <2>1
    <2>3. QED
      BY <2>2
  <1>4. ASSUME NEW s \in SUBSET (1 .. n), s # {}, NEW a \in A
        PROVE  F[<<a, lines[Max(s)]>>] = IF lines[Max(s)] # Foreign
                                            /\ \E r \in ToSet(a) : r # Foreign /\ r.product = lines[Max(s)].product
                                         THEN a
                                         ELSE Append(a, lines[Max(s)])
    <2>1. Max(s) \in s
      BY <1>1, <1>4, MaxOf
    <2>2. <<a, lines[Max(s)]>> \in A \X S
      <3> HIDE DEF A, S
      <3>1. QED
        BY <1>1, <2>1
    <2> HIDE DEF A, S
    <2>3. QED
      BY <2>2
  <1>5. h = [s \in SUBSET DOMAIN lines |-> Step(h, s)]
    <2>1. PICK it \in [SUBSET (1 .. n) -> A] : Folds(it, F, <<>>, lines)
      <3> HIDE DEF F, A, S
      <3>1. QED
        BY <1>1, <1>3, FoldExists
    <2>2. ASSUME NEW s \in SUBSET (1 .. n)
          PROVE  it[s] = Step(it, s)
      <3>1. it[s \ {Max(s)}] \in A
        BY <2>1
      <3> HIDE DEF F, A, S
      <3>2. QED
        BY <1>4, <2>1, <3>1 DEF Folds
    <2>3. it = [s \in SUBSET DOMAIN lines |-> Step(it, s)]
      <3> HIDE DEF Step, n
      <3>1. QED
        BY <1>1, <2>1, <2>2
    <2> HIDE DEF Step
    <2>4. QED
      BY <2>3
  <1>6. LoadUniqueUrls(lines) = h[1 .. n]
    <2>1. LoadUniqueUrls(lines) = h[DOMAIN lines]
      BY DEF LoadUniqueUrls, FoldLeft, MapThenFoldSet
    <2> HIDE DEF h
    <2>2. QED
      BY <1>1, <2>1
  <1> HIDE DEF h
  <1>7. FoldsIn(h, A, F, <<>>, lines)
    <2>1. h[{}] = <<>>
      BY <1>5
    <2>2. ASSUME NEW s \in SUBSET (1 .. n), s # {}, h[s \ {Max(s)}] \in A
          PROVE  h[s] = F[<<h[s \ {Max(s)}], lines[Max(s)]>>]
      <3>1. h[s] = Step(h, s)
        <4> HIDE DEF Step, n
        <4>1. QED
          BY <1>1, <1>5
      <3> HIDE DEF F, A, S
      <3>2. QED
        BY <1>4, <2>2, <3>1
    <2> HIDE DEF F, A, S
    <2>3. QED
      BY <2>1, <2>2 DEF FoldsIn
  <1>8. PICK G \in [0 .. n -> A] : Trace(G, F, <<>>, lines) /\ h[1 .. n] = G[n]
    <2> HIDE DEF F, A, S
    <2>1. HasTrace(A, F, <<>>, lines, h[1 .. n])
      BY <1>1, <1>3, <1>7, FoldValue
    <2>2. QED
      BY <2>1 DEF HasTrace
  <1>9. ASSUME NEW k \in 0 .. n - 1
        PROVE  G[k + 1] = IF lines[k + 1] # Foreign
                             /\ \E r \in ToSet(G[k]) : r # Foreign /\ r.product = lines[k + 1].product
                          THEN G[k]
                          ELSE Append(G[k], lines[k + 1])
    <2> HIDE DEF A, S
    <2>1. G[k] \in A /\ lines[k + 1] \in S
      <3>1. k \in 0 .. n /\ k + 1 \in 1 .. n
        BY <1>1
      <3> HIDE DEF n
      <3>2. QED
        BY <1>1, <1>8, <3>1
    <2>2. G[k + 1] = F[<<G[k], lines[k + 1]>>]
      BY <1>8 DEF Trace
    <2>3. QED
      BY <2>1, <2>2
  <1>10. QED
    BY <1>6, <1>8, <1>9 DEF Trace

\* Keeping some elements one after the other.
Picks(G, list, P) ==
  /\ G[0] = <<>>
  /\ \A k \in 0 .. Len(list) - 1 : G[k + 1] = IF list[k + 1] \in P THEN Append(G[k], list[k + 1]) ELSE G[k]
  /\ Among(list, P) = G[Len(list)]

\* Among goes through the list and picks the elements in P.
LEMMA AmongTrace ==
  ASSUME NEW E, NEW list \in Seq(E), NEW P
  PROVE  \E G \in [0 .. Len(list) -> Seq(E)] : Picks(G, list, P)
  <1> DEFINE A == Seq(E)
             S == E
             F == [p \in A \X S |-> IF p[2] \in P THEN Append(p[1], p[2]) ELSE p[1]]
             n == Len(list)
             Step(it, s) == IF s = {} THEN <<>>
                            ELSE IF list[Max(s)] \in P
                                 THEN Append(it[s \ {Max(s)}], list[Max(s)])
                                 ELSE it[s \ {Max(s)}]
             h == CHOOSE it : it = [s \in SUBSET DOMAIN list |-> Step(it, s)]
  <1>1. /\ <<>> \in A /\ list \in Seq(S) /\ n \in Nat
        /\ DOMAIN list = 1 .. n /\ \A i \in 1 .. n : list[i] \in S
    OBVIOUS
  <1>2. ASSUME NEW a \in A, NEW e \in S
        PROVE  (IF e \in P THEN Append(a, e) ELSE a) \in A
    <2>1. Append(a, e) \in A
      OBVIOUS
    <2> HIDE DEF A, S
    <2>2. QED
      BY <2>1
  <1>3. F \in [A \X S -> A]
    <2>1. \A p \in A \X S : p[1] \in A /\ p[2] \in S
      OBVIOUS
    <2> HIDE DEF A, S
    <2>2. ASSUME NEW p \in A \X S
          PROVE  (IF p[2] \in P THEN Append(p[1], p[2]) ELSE p[1]) \in A
      BY <1>2, <2>1
    <2>3. QED
      BY <2>2
  <1>4. ASSUME NEW s \in SUBSET (1 .. n), s # {}, NEW a \in A
        PROVE  F[<<a, list[Max(s)]>>] = IF list[Max(s)] \in P THEN Append(a, list[Max(s)]) ELSE a
    <2>1. Max(s) \in s
      BY <1>1, <1>4, MaxOf
    <2>2. <<a, list[Max(s)]>> \in A \X S
      <3> HIDE DEF A, S
      <3>1. QED
        BY <1>1, <2>1
    <2> HIDE DEF A, S
    <2>3. QED
      BY <2>2
  <1>5. h = [s \in SUBSET DOMAIN list |-> Step(h, s)]
    <2>1. PICK it \in [SUBSET (1 .. n) -> A] : Folds(it, F, <<>>, list)
      <3> HIDE DEF F, A, S
      <3>1. QED
        BY <1>1, <1>3, FoldExists
    <2>2. ASSUME NEW s \in SUBSET (1 .. n)
          PROVE  it[s] = Step(it, s)
      <3>1. it[s \ {Max(s)}] \in A
        BY <2>1
      <3> HIDE DEF F, A, S
      <3>2. QED
        BY <1>4, <2>1, <3>1 DEF Folds
    <2>3. it = [s \in SUBSET DOMAIN list |-> Step(it, s)]
      <3> HIDE DEF Step, n
      <3>1. QED
        BY <1>1, <2>1, <2>2
    <2> HIDE DEF Step
    <2>4. QED
      BY <2>3
  <1>6. Among(list, P) = h[1 .. n]
    <2>1. Among(list, P) = h[DOMAIN list]
      BY DEF Among, FoldLeft, MapThenFoldSet
    <2> HIDE DEF h
    <2>2. QED
      BY <1>1, <2>1
  <1> HIDE DEF h
  <1>7. FoldsIn(h, A, F, <<>>, list)
    <2>1. h[{}] = <<>>
      BY <1>5
    <2>2. ASSUME NEW s \in SUBSET (1 .. n), s # {}, h[s \ {Max(s)}] \in A
          PROVE  h[s] = F[<<h[s \ {Max(s)}], list[Max(s)]>>]
      <3>1. h[s] = Step(h, s)
        <4> HIDE DEF Step, n
        <4>1. QED
          BY <1>1, <1>5
      <3> HIDE DEF F, A, S
      <3>2. QED
        BY <1>4, <2>2, <3>1
    <2> HIDE DEF F, A, S
    <2>3. QED
      BY <2>1, <2>2 DEF FoldsIn
  <1>8. PICK G \in [0 .. n -> A] : Trace(G, F, <<>>, list) /\ h[1 .. n] = G[n]
    <2> HIDE DEF F, A, S
    <2>1. HasTrace(A, F, <<>>, list, h[1 .. n])
      BY <1>1, <1>3, <1>7, FoldValue
    <2>2. QED
      BY <2>1 DEF HasTrace
  <1>9. ASSUME NEW k \in 0 .. n - 1
        PROVE  G[k + 1] = IF list[k + 1] \in P THEN Append(G[k], list[k + 1]) ELSE G[k]
    <2> HIDE DEF A, S
    <2>1. G[k] \in A /\ list[k + 1] \in S
      <3>1. k \in 0 .. n /\ k + 1 \in 1 .. n
        BY <1>1
      <3> HIDE DEF n
      <3>2. QED
        BY <1>1, <1>8, <3>1
    <2>2. G[k + 1] = F[<<G[k], list[k + 1]>>]
      BY <1>8 DEF Trace
    <2>3. QED
      BY <2>1, <2>2
  <1>10. QED
    BY <1>6, <1>8, <1>9 DEF Trace, Picks

\* Keeping each image once (download_images).
LEMMA DistinctTrace ==
  ASSUME NEW E, NEW contents \in Seq(E)
  PROVE  \E G \in [0 .. Len(contents) -> Seq(E)] :
           /\ G[0] = <<>>
           /\ \A k \in 0 .. Len(contents) - 1 : G[k + 1] = IF contents[k + 1] \in ToSet(G[k])
                                                           THEN G[k]
                                                           ELSE Append(G[k], contents[k + 1])
           /\ Distinct(contents) = G[Len(contents)]
  <1> DEFINE A == Seq(E)
             S == E
             F == [p \in A \X S |-> IF p[2] \in ToSet(p[1]) THEN p[1] ELSE Append(p[1], p[2])]
             n == Len(contents)
             Step(it, s) == IF s = {} THEN <<>>
                            ELSE IF contents[Max(s)] \in ToSet(it[s \ {Max(s)}])
                                 THEN it[s \ {Max(s)}]
                                 ELSE Append(it[s \ {Max(s)}], contents[Max(s)])
             h == CHOOSE it : it = [s \in SUBSET DOMAIN contents |-> Step(it, s)]
  <1>1. /\ <<>> \in A /\ contents \in Seq(S) /\ n \in Nat
        /\ DOMAIN contents = 1 .. n /\ \A i \in 1 .. n : contents[i] \in S
    OBVIOUS
  <1>2. ASSUME NEW a \in A, NEW e \in S
        PROVE  (IF e \in ToSet(a) THEN a ELSE Append(a, e)) \in A
    <2>1. Append(a, e) \in A
      OBVIOUS
    <2> HIDE DEF A, S
    <2>2. QED
      BY <2>1
  <1>3. F \in [A \X S -> A]
    <2>1. \A p \in A \X S : p[1] \in A /\ p[2] \in S
      OBVIOUS
    <2> HIDE DEF A, S
    <2>2. ASSUME NEW p \in A \X S
          PROVE  (IF p[2] \in ToSet(p[1]) THEN p[1] ELSE Append(p[1], p[2])) \in A
      BY <1>2, <2>1
    <2>3. QED
      BY <2>2
  <1>4. ASSUME NEW s \in SUBSET (1 .. n), s # {}, NEW a \in A
        PROVE  F[<<a, contents[Max(s)]>>] = IF contents[Max(s)] \in ToSet(a)
                                            THEN a
                                            ELSE Append(a, contents[Max(s)])
    <2>1. Max(s) \in s
      BY <1>1, <1>4, MaxOf
    <2>2. <<a, contents[Max(s)]>> \in A \X S
      <3> HIDE DEF A, S
      <3>1. QED
        BY <1>1, <2>1
    <2> HIDE DEF A, S
    <2>3. QED
      BY <2>2
  <1>5. h = [s \in SUBSET DOMAIN contents |-> Step(h, s)]
    <2>1. PICK it \in [SUBSET (1 .. n) -> A] : Folds(it, F, <<>>, contents)
      <3> HIDE DEF F, A, S
      <3>1. QED
        BY <1>1, <1>3, FoldExists
    <2>2. ASSUME NEW s \in SUBSET (1 .. n)
          PROVE  it[s] = Step(it, s)
      <3>1. it[s \ {Max(s)}] \in A
        BY <2>1
      <3> HIDE DEF F, A, S
      <3>2. QED
        BY <1>4, <2>1, <3>1 DEF Folds
    <2>3. it = [s \in SUBSET DOMAIN contents |-> Step(it, s)]
      <3> HIDE DEF Step, n
      <3>1. QED
        BY <1>1, <2>1, <2>2
    <2> HIDE DEF Step
    <2>4. QED
      BY <2>3
  <1>6. Distinct(contents) = h[1 .. n]
    <2>1. Distinct(contents) = h[DOMAIN contents]
      BY DEF Distinct, FoldLeft, MapThenFoldSet
    <2> HIDE DEF h
    <2>2. QED
      BY <1>1, <2>1
  <1> HIDE DEF h
  <1>7. FoldsIn(h, A, F, <<>>, contents)
    <2>1. h[{}] = <<>>
      BY <1>5
    <2>2. ASSUME NEW s \in SUBSET (1 .. n), s # {}, h[s \ {Max(s)}] \in A
          PROVE  h[s] = F[<<h[s \ {Max(s)}], contents[Max(s)]>>]
      <3>1. h[s] = Step(h, s)
        <4> HIDE DEF Step, n
        <4>1. QED
          BY <1>1, <1>5
      <3> HIDE DEF F, A, S
      <3>2. QED
        BY <1>4, <2>2, <3>1
    <2> HIDE DEF F, A, S
    <2>3. QED
      BY <2>1, <2>2 DEF FoldsIn
  <1>8. PICK G \in [0 .. n -> A] : Trace(G, F, <<>>, contents) /\ h[1 .. n] = G[n]
    <2> HIDE DEF F, A, S
    <2>1. HasTrace(A, F, <<>>, contents, h[1 .. n])
      BY <1>1, <1>3, <1>7, FoldValue
    <2>2. QED
      BY <2>1 DEF HasTrace
  <1>9. ASSUME NEW k \in 0 .. n - 1
        PROVE  G[k + 1] = IF contents[k + 1] \in ToSet(G[k]) THEN G[k] ELSE Append(G[k], contents[k + 1])
    <2> HIDE DEF A, S
    <2>1. G[k] \in A /\ contents[k + 1] \in S
      <3>1. k \in 0 .. n /\ k + 1 \in 1 .. n
        BY <1>1
      <3> HIDE DEF n
      <3>2. QED
        BY <1>1, <1>8, <3>1
    <2>2. G[k + 1] = F[<<G[k], contents[k + 1]>>]
      BY <1>8 DEF Trace
    <2>3. QED
      BY <2>1, <2>2
  <1>10. QED
    BY <1>6, <1>8, <1>9 DEF Trace

\* Merging rows one after the other (collect_details).
LEMMA MergeRowsTrace ==
  ASSUME NEW E, NEW file \in Seq(E), NEW rows \in Seq(E)
  PROVE  \E G \in [0 .. Len(rows) -> Seq(E)] :
           /\ G[0] = file
           /\ \A k \in 0 .. Len(rows) - 1 : G[k + 1] = IF RowKey(rows[k + 1]) \in KeysOf(G[k])
                                                       THEN G[k]
                                                       ELSE Append(G[k], rows[k + 1])
           /\ MergeRows(file, rows) = G[Len(rows)]
  <1> DEFINE A == Seq(E)
             S == E
             F == [p \in A \X S |-> IF RowKey(p[2]) \in KeysOf(p[1]) THEN p[1] ELSE Append(p[1], p[2])]
             n == Len(rows)
             Step(it, s) == IF s = {} THEN file
                            ELSE IF RowKey(rows[Max(s)]) \in KeysOf(it[s \ {Max(s)}])
                                 THEN it[s \ {Max(s)}]
                                 ELSE Append(it[s \ {Max(s)}], rows[Max(s)])
             h == CHOOSE it : it = [s \in SUBSET DOMAIN rows |-> Step(it, s)]
  <1>1. /\ file \in A /\ rows \in Seq(S) /\ n \in Nat
        /\ DOMAIN rows = 1 .. n /\ \A i \in 1 .. n : rows[i] \in S
    OBVIOUS
  <1>2. ASSUME NEW a \in A, NEW e \in S
        PROVE  (IF RowKey(e) \in KeysOf(a) THEN a ELSE Append(a, e)) \in A
    <2>1. Append(a, e) \in A
      OBVIOUS
    <2> HIDE DEF A, S
    <2>2. QED
      BY <2>1
  <1>3. F \in [A \X S -> A]
    <2>1. \A p \in A \X S : p[1] \in A /\ p[2] \in S
      OBVIOUS
    <2> HIDE DEF A, S
    <2>2. ASSUME NEW p \in A \X S
          PROVE  (IF RowKey(p[2]) \in KeysOf(p[1]) THEN p[1] ELSE Append(p[1], p[2])) \in A
      BY <1>2, <2>1
    <2>3. QED
      BY <2>2
  <1>4. ASSUME NEW s \in SUBSET (1 .. n), s # {}, NEW a \in A
        PROVE  F[<<a, rows[Max(s)]>>] = IF RowKey(rows[Max(s)]) \in KeysOf(a)
                                        THEN a
                                        ELSE Append(a, rows[Max(s)])
    <2>1. Max(s) \in s
      BY <1>1, <1>4, MaxOf
    <2>2. <<a, rows[Max(s)]>> \in A \X S
      <3> HIDE DEF A, S
      <3>1. QED
        BY <1>1, <2>1
    <2> HIDE DEF A, S
    <2>3. QED
      BY <2>2
  <1>5. h = [s \in SUBSET DOMAIN rows |-> Step(h, s)]
    <2>1. PICK it \in [SUBSET (1 .. n) -> A] : Folds(it, F, file, rows)
      <3> HIDE DEF F, A, S
      <3>1. QED
        BY <1>1, <1>3, FoldExists
    <2>2. ASSUME NEW s \in SUBSET (1 .. n)
          PROVE  it[s] = Step(it, s)
      <3>1. it[s \ {Max(s)}] \in A
        BY <2>1
      <3> HIDE DEF F, A, S
      <3>2. QED
        BY <1>4, <2>1, <3>1 DEF Folds
    <2>3. it = [s \in SUBSET DOMAIN rows |-> Step(it, s)]
      <3> HIDE DEF Step, n
      <3>1. QED
        BY <1>1, <2>1, <2>2
    <2> HIDE DEF Step
    <2>4. QED
      BY <2>3
  <1>6. MergeRows(file, rows) = h[1 .. n]
    <2>1. MergeRows(file, rows) = h[DOMAIN rows]
      BY DEF MergeRows, FoldLeft, MapThenFoldSet
    <2> HIDE DEF h
    <2>2. QED
      BY <1>1, <2>1
  <1> HIDE DEF h
  <1>7. FoldsIn(h, A, F, file, rows)
    <2>1. h[{}] = file
      BY <1>5
    <2>2. ASSUME NEW s \in SUBSET (1 .. n), s # {}, h[s \ {Max(s)}] \in A
          PROVE  h[s] = F[<<h[s \ {Max(s)}], rows[Max(s)]>>]
      <3>1. h[s] = Step(h, s)
        <4> HIDE DEF Step, n
        <4>1. QED
          BY <1>1, <1>5
      <3> HIDE DEF F, A, S
      <3>2. QED
        BY <1>4, <2>2, <3>1
    <2> HIDE DEF F, A, S
    <2>3. QED
      BY <2>1, <2>2 DEF FoldsIn
  <1>8. PICK G \in [0 .. n -> A] : Trace(G, F, file, rows) /\ h[1 .. n] = G[n]
    <2> HIDE DEF F, A, S
    <2>1. HasTrace(A, F, file, rows, h[1 .. n])
      BY <1>1, <1>3, <1>7, FoldValue
    <2>2. QED
      BY <2>1 DEF HasTrace
  <1>9. ASSUME NEW k \in 0 .. n - 1
        PROVE  G[k + 1] = IF RowKey(rows[k + 1]) \in KeysOf(G[k]) THEN G[k] ELSE Append(G[k], rows[k + 1])
    <2> HIDE DEF A, S
    <2>1. G[k] \in A /\ rows[k + 1] \in S
      <3>1. k \in 0 .. n /\ k + 1 \in 1 .. n
        BY <1>1
      <3> HIDE DEF n
      <3>2. QED
        BY <1>1, <1>8, <3>1
    <2>2. G[k + 1] = F[<<G[k], rows[k + 1]>>]
      BY <1>8 DEF Trace
    <2>3. QED
      BY <2>1, <2>2
  <1>10. QED
    BY <1>6, <1>8, <1>9 DEF Trace

\* What appending to a sequence does to it and to its elements.
LEMMA Longer ==
  ASSUME NEW S, NEW s \in Seq(S), NEW e
  PROVE  /\ Append(s, e) \in Seq(S \cup {e})
         /\ Len(s) \in Nat /\ Len(Append(s, e)) = Len(s) + 1
         /\ \A i \in 1 .. Len(s) : Append(s, e)[i] = s[i]
         /\ Append(s, e)[Len(s) + 1] = e
         /\ ToSet(Append(s, e)) = ToSet(s) \cup {e}
         /\ Append(s, e) # <<>>
  <1>1. s \in Seq(S \cup {e})
    OBVIOUS
  <1>2. Append(s, e) \in Seq(S \cup {e})
    BY <1>1
  <1> DEFINE t == Append(s, e)
  <1>3. Len(s) \in Nat /\ Len(t) = Len(s) + 1 /\ (\A i \in 1 .. Len(s) : t[i] = s[i]) /\ t[Len(s) + 1] = e
    BY <1>1
  <1>4. t \in Seq(S \cup {e})
    BY <1>2
  <1> HIDE DEF t
  <1>5. DOMAIN t = 1 .. Len(s) + 1 /\ DOMAIN s = 1 .. Len(s)
    BY <1>3, <1>4
  <1>6. \A i \in DOMAIN t : i \in DOMAIN s \/ i = Len(s) + 1
    BY <1>3, <1>5
  <1>7. Len(s) + 1 \in DOMAIN t /\ \A i \in DOMAIN s : i \in DOMAIN t
    BY <1>3, <1>5
  <1>8. ToSet(t) = ToSet(s) \cup {e}
    BY <1>3, <1>5, <1>6, <1>7 DEF ToSet
  <1>9. t # <<>>
    BY <1>3
  <1>10. QED
    BY <1>2, <1>3, <1>8, <1>9 DEF t

\* A sequence without repetition keeps to it when something new is appended.
LEMMA StaysInjective ==
  ASSUME NEW S, NEW s \in Seq(S), NEW e \in S, IsInjective(s), e \notin ToSet(s)
  PROVE  IsInjective(Append(s, e))
  <1> DEFINE t == Append(s, e)
  <1>1. /\ Len(s) \in Nat /\ Len(t) = Len(s) + 1 /\ (\A i \in 1 .. Len(s) : t[i] = s[i])
        /\ t[Len(s) + 1] = e /\ t \in Seq(S)
    BY Longer
  <1> HIDE DEF t
  <1>2. DOMAIN t = 1 .. Len(s) + 1 /\ DOMAIN s = 1 .. Len(s)
    BY <1>1
  <1>3. \A i \in DOMAIN t : i \in DOMAIN s \/ i = Len(s) + 1
    BY <1>1, <1>2
  <1>4. \A i \in DOMAIN s : s[i] # e
    BY DEF ToSet
  <1>5. \A i, k \in DOMAIN t : t[i] = t[k] => i = k
    BY <1>1, <1>2, <1>3, <1>4 DEF IsInjective
  <1>6. QED
    BY <1>5 DEF IsInjective, t

\* What merging links comes to (merge_link_candidates).
LEMMA MergeFacts ==
  ASSUME NEW known \in Seq(Products), NEW links \in Seq(Products \cup {Foreign}), IsInjective(known)
  PROVE  /\ Merge(known, links) \in Seq(Products)
         /\ IsInjective(Merge(known, links))
         /\ ToSet(Merge(known, links)) = ToSet(known) \cup (ToSet(links) \ {Foreign})
         /\ Len(Merge(known, links)) >= Len(known)
         /\ Len(Merge(known, links)) = Len(known) => Merge(known, links) = known
  <1> DEFINE n == Len(links)
             Met(k) == {links[i] : i \in 1 .. k} \ {Foreign}
             Right(k, m) == /\ IsInjective(m)
                            /\ ToSet(m) = ToSet(known) \cup Met(k)
                            /\ Len(m) >= Len(known)
                            /\ Len(m) = Len(known) => m = known
  <1>1. PICK G \in [0 .. n -> Seq(Products)] :
          /\ G[0] = known
          /\ \A k \in 0 .. n - 1 :
               G[k + 1] = IF links[k + 1] = Foreign \/ links[k + 1] \in ToSet(G[k]) THEN G[k]
                          ELSE Append(G[k], links[k + 1])
          /\ Merge(known, links) = G[n]
    BY MergeTrace
  <1>2. n \in Nat /\ DOMAIN links = 1 .. n /\ \A k \in 1 .. n : links[k] \in Products \cup {Foreign}
    OBVIOUS
  <1> DEFINE T == {k \in 0 .. n : Right(k, G[k])}
  <1>3. 0 \in T
    BY <1>1, <1>2
  <1>4. ASSUME NEW k \in 0 .. n, k < n, k \in T
        PROVE  k + 1 \in T
    <2>1. k \in 0 .. n - 1 /\ k + 1 \in 1 .. n /\ k + 1 \in 0 .. n /\ G[k] \in Seq(Products)
      BY <1>1, <1>2, <1>4
    <2>2. Right(k, G[k])
      BY <1>4
    <2>3. Met(k + 1) = Met(k) \cup ({links[k + 1]} \ {Foreign})
      <3>1. \A i \in 1 .. k + 1 : i \in 1 .. k \/ i = k + 1
        BY <1>2, <2>1
      <3>2. k + 1 \in 1 .. k + 1 /\ \A i \in 1 .. k : i \in 1 .. k + 1
        BY <1>2, <2>1
      <3>3. QED
        BY <3>1, <3>2
    <2>4. CASE links[k + 1] = Foreign \/ links[k + 1] \in ToSet(G[k])
      <3>1. G[k + 1] = G[k]
        BY <1>1, <2>1, <2>4
      <3>2. Right(k + 1, G[k + 1])
        BY <2>2, <2>3, <2>4, <3>1
      <3>3. QED
        BY <2>1, <3>2
    <2>5. CASE links[k + 1] # Foreign /\ links[k + 1] \notin ToSet(G[k])
      <3>1. G[k + 1] = Append(G[k], links[k + 1]) /\ links[k + 1] \in Products
        BY <1>1, <1>2, <2>1, <2>5
      <3>2. IsInjective(G[k + 1])
        <4>1. IsInjective(G[k])
          BY <2>2
        <4>2. IsInjective(Append(G[k], links[k + 1]))
          BY <2>1, <2>5, <3>1, <4>1, StaysInjective
        <4>3. QED
          BY <3>1, <4>2
      <3>3. ToSet(G[k + 1]) = ToSet(G[k]) \cup {links[k + 1]} /\ Len(G[k + 1]) = Len(G[k]) + 1
            /\ Len(G[k]) \in Nat
        <4>1. /\ ToSet(Append(G[k], links[k + 1])) = ToSet(G[k]) \cup {links[k + 1]}
              /\ Len(Append(G[k], links[k + 1])) = Len(G[k]) + 1 /\ Len(G[k]) \in Nat
          BY <2>1, Longer
        <4>2. QED
          BY <3>1, <4>1
      <3>4. Len(known) \in Nat
        OBVIOUS
      <3>5. Right(k + 1, G[k + 1])
        BY <2>2, <2>3, <2>5, <3>2, <3>3, <3>4
      <3>6. QED
        BY <2>1, <3>5
    <2>6. QED
      BY <2>4, <2>5
  <1>5. n \in T
    <2> HIDE DEF T, n
    <2>1. \A k \in 0 .. n : k \in T
      BY <1>2, <1>3, <1>4, UpTo
    <2>2. QED
      BY <1>2, <2>1
  <1>6. Right(n, G[n]) /\ G[n] \in Seq(Products)
    BY <1>1, <1>2, <1>5
  <1>7. Met(n) = ToSet(links) \ {Foreign}
    BY <1>2 DEF ToSet
  <1>8. QED
    BY <1>1, <1>6, <1>7

\* No two lines name the same product.
NamesOnce(lines) ==
  \A i, j \in DOMAIN lines :
    lines[i] # Foreign /\ lines[j] # Foreign /\ lines[i].product = lines[j].product => i = j

\* Of the lines of a URL file, no two that are read name the same product.
LEMMA UniqueFacts ==
  ASSUME NEW lines \in Seq(Line)
  PROVE  LoadUniqueUrls(lines) \in Seq(Line) /\ NamesOnce(LoadUniqueUrls(lines))
  <1> DEFINE n == Len(lines)
  <1>1. PICK G \in [0 .. n -> Seq(Line)] :
          /\ G[0] = <<>>
          /\ \A k \in 0 .. n - 1 :
               G[k + 1] = IF lines[k + 1] # Foreign
                             /\ \E r \in ToSet(G[k]) : r # Foreign /\ r.product = lines[k + 1].product
                          THEN G[k] ELSE Append(G[k], lines[k + 1])
          /\ LoadUniqueUrls(lines) = G[n]
    BY UniqueTrace
  <1>2. n \in Nat /\ \A k \in 1 .. n : lines[k] \in Line
    OBVIOUS
  <1> DEFINE T == {k \in 0 .. n : NamesOnce(G[k])}
  <1>3. 0 \in T
    BY <1>1, <1>2 DEF NamesOnce
  <1>4. ASSUME NEW k \in 0 .. n, k < n, k \in T
        PROVE  k + 1 \in T
    <2>1. k \in 0 .. n - 1 /\ k + 1 \in 1 .. n /\ k + 1 \in 0 .. n /\ G[k] \in Seq(Line) /\ NamesOnce(G[k])
      BY <1>1, <1>2, <1>4
    <2>2. CASE G[k + 1] = G[k]
      BY <2>1, <2>2
    <2>3. CASE G[k + 1] # G[k]
      <3> DEFINE e == lines[k + 1]
                 t == Append(G[k], e)
      <3>1. G[k + 1] = t /\ e \in Line
            /\ (e # Foreign => \A r \in ToSet(G[k]) : r # Foreign => r.product # e.product)
        BY <1>1, <1>2, <2>1, <2>3
      <3>2. /\ t \in Seq(Line \cup {e}) /\ Len(G[k]) \in Nat /\ Len(t) = Len(G[k]) + 1
            /\ (\A i \in 1 .. Len(G[k]) : t[i] = G[k][i]) /\ t[Len(G[k]) + 1] = e
        BY <2>1, Longer
      <3> HIDE DEF t, e
      <3>3. DOMAIN t = 1 .. Len(G[k]) + 1 /\ DOMAIN G[k] = 1 .. Len(G[k])
        BY <2>1, <3>2
      <3>4. \A i \in DOMAIN t : i \in DOMAIN G[k] \/ i = Len(G[k]) + 1
        BY <3>2, <3>3
      <3>5. \A i \in DOMAIN G[k] : G[k][i] \in ToSet(G[k]) /\ t[i] = G[k][i]
        BY <3>2, <3>3 DEF ToSet
      <3>6. \A i \in DOMAIN G[k] : e # Foreign /\ t[i] # Foreign => t[i].product # e.product
        BY <3>1, <3>5
      <3>7. NamesOnce(t)
        BY <2>1, <3>2, <3>4, <3>5, <3>6 DEF NamesOnce
      <3>8. QED
        BY <2>1, <3>1, <3>7
    <2>4. QED
      BY <2>2, <2>3
  <1>5. n \in T
    <2> HIDE DEF T, n
    <2>1. \A k \in 0 .. n : k \in T
      BY <1>2, <1>3, <1>4, UpTo
    <2>2. QED
      BY <1>2, <2>1
  <1>6. QED
    BY <1>1, <1>2, <1>5

\* m is what stands in s at some of its first n places, in their order.
PickedBy(f, m, s, n, P) ==
  /\ f \in [1 .. Len(m) -> 1 .. n]
  /\ IsInjective(f)
  /\ Len(m) <= n
  /\ \A i \in 1 .. Len(m) : m[i] = s[f[i]] /\ m[i] \in P
  /\ \A k \in 1 .. n : s[k] \in P => \E i \in 1 .. Len(m) : f[i] = k

\* What is kept of a sequence: its elements in P, each place once.
LEMMA AmongFacts ==
  ASSUME NEW E, NEW s \in Seq(E), NEW P
  PROVE  /\ Among(s, P) \in Seq(E)
         /\ \E f : PickedBy(f, Among(s, P), s, Len(s), P)
  <1> DEFINE n == Len(s)
  <1>1. PICK G \in [0 .. n -> Seq(E)] :
          /\ G[0] = <<>>
          /\ \A k \in 0 .. n - 1 : G[k + 1] = IF s[k + 1] \in P THEN Append(G[k], s[k + 1]) ELSE G[k]
          /\ Among(s, P) = G[n]
    <2>1. \E G \in [0 .. n -> Seq(E)] : Picks(G, s, P)
      BY AmongTrace
    <2>2. QED
      BY <2>1 DEF Picks
  <1>2. n \in Nat /\ \A k \in 1 .. n : s[k] \in E
    OBVIOUS
  <1> DEFINE T == {k \in 0 .. n : \E f : PickedBy(f, G[k], s, k, P)}
  <1>3. 0 \in T
    <2> DEFINE f == [i \in 1 .. 0 |-> 0]
    <2>1. PickedBy(f, <<>>, s, 0, P)
      BY DEF PickedBy, IsInjective
    <2>2. 0 \in 0 .. n
      BY <1>2
    <2>3. QED
      BY <1>1, <2>1, <2>2
  <1>4. ASSUME NEW k \in 0 .. n, k < n, k \in T
        PROVE  k + 1 \in T
    <2>1. k \in 0 .. n - 1 /\ k + 1 \in 1 .. n /\ k + 1 \in 0 .. n /\ G[k] \in Seq(E) /\ k \in Nat
      BY <1>1, <1>2, <1>4
    <2> DEFINE m == G[k]
    <2>2. PICK f : PickedBy(f, m, s, k, P)
      BY <1>4
    <2>3. m \in Seq(E) /\ Len(m) \in Nat
      BY <2>1
    <2>4. \A i \in 1 .. k + 1 : i \in 1 .. k \/ i = k + 1
      BY <2>1
    <2>5. CASE s[k + 1] \notin P
      <3>1. G[k + 1] = m
        BY <1>1, <2>1, <2>5
      <3> HIDE DEF m
      <3>2. f \in [1 .. Len(m) -> 1 .. k + 1] /\ Len(m) <= k + 1
        BY <2>1, <2>2, <2>3 DEF PickedBy
      <3>3. PickedBy(f, m, s, k + 1, P)
        BY <2>2, <2>4, <2>5, <3>2 DEF PickedBy
      <3>4. QED
        BY <2>1, <3>1, <3>3
    <2>6. CASE s[k + 1] \in P
      <3> DEFINE t == Append(m, s[k + 1])
                 l == Len(m)
                 g == [i \in 1 .. l + 1 |-> IF i = l + 1 THEN k + 1 ELSE f[i]]
      <3>1. G[k + 1] = t
        BY <1>1, <2>1, <2>6
      <3>2. l \in Nat /\ Len(t) = l + 1 /\ (\A i \in 1 .. l : t[i] = m[i]) /\ t[l + 1] = s[k + 1]
        BY <2>3, Longer
      <3> HIDE DEF m, t
      <3>3. \A i \in 1 .. l + 1 : i \in 1 .. l \/ i = l + 1
        BY <3>2
      <3>4. \A i \in 1 .. l : g[i] = f[i] /\ f[i] \in 1 .. k /\ f[i] # k + 1 /\ i \in 1 .. l + 1
        <4>1. \A i \in 1 .. l : f[i] \in 1 .. k /\ i # l + 1 /\ i \in 1 .. l + 1
          BY <2>2, <3>2 DEF PickedBy
        <4>2. \A i \in 1 .. l : g[i] = f[i]
          BY <4>1
        <4>3. \A i \in 1 .. k : i # k + 1
          BY <2>1
        <4> HIDE DEF g, l
        <4>4. QED
          BY <4>1, <4>2, <4>3
      <3>5. g[l + 1] = k + 1 /\ l + 1 \in 1 .. l + 1 /\ k + 1 \in 1 .. k + 1
        BY <2>1, <3>2
      <3>6. g \in [1 .. l + 1 -> 1 .. k + 1]
        <4>1. \A i \in 1 .. l + 1 : g[i] \in 1 .. k + 1
          <5>1. 1 .. k \subseteq 1 .. k + 1
            BY <2>1
          <5> HIDE DEF g, l
          <5>2. QED
            BY <3>3, <3>4, <3>5, <5>1
        <4>2. g = [i \in 1 .. l + 1 |-> g[i]]
          OBVIOUS
        <4> HIDE DEF g, l
        <4>3. QED
          BY <4>1, <4>2
      <3>7. DOMAIN g = 1 .. l + 1 /\ DOMAIN f = 1 .. l /\ l <= k
        BY <2>2 DEF PickedBy
      <3> HIDE DEF g, l
      <3>8. IsInjective(g)
        <4>1. \A a, b \in 1 .. l : g[a] = g[b] => a = b
          BY <2>2, <3>4, <3>7 DEF PickedBy, IsInjective
        <4>2. QED
          BY <3>3, <3>4, <3>5, <3>7, <4>1 DEF IsInjective
      <3>9. \A i \in 1 .. l + 1 : t[i] = s[g[i]] /\ t[i] \in P
        BY <2>2, <2>6, <3>2, <3>3, <3>4, <3>5 DEF PickedBy, l
      <3>10. \A j \in 1 .. k + 1 : s[j] \in P => \E i \in 1 .. l + 1 : g[i] = j
        BY <2>2, <2>4, <3>4, <3>5 DEF PickedBy, l
      <3>11. Len(t) <= k + 1
        BY <2>1, <3>2, <3>7
      <3>12. PickedBy(g, t, s, k + 1, P)
        BY <3>2, <3>6, <3>8, <3>9, <3>10, <3>11 DEF PickedBy
      <3>13. QED
        BY <2>1, <3>1, <3>12
    <2>7. QED
      BY <2>5, <2>6
  <1>5. n \in T
    <2> HIDE DEF T, n
    <2>1. \A k \in 0 .. n : k \in T
      BY <1>2, <1>3, <1>4, UpTo
    <2>2. QED
      BY <1>2, <2>1
  <1>6. QED
    BY <1>1, <1>2, <1>5

-----------------------------------------------------------------------------
(* The list of a batch.                                                    *)

\* A discovery starts, from the console or by hand.
DiscoveryBegins == JobDiscover \/ DiscoverByHand

\* A discovery that has its list still to open found no list there.
ListInv ==
  /\ DOMAIN disc = DOMAIN NoDiscovery
  /\ listed # Absent => dir
  /\ disc.pc = "list" => dir
  /\ disc.pc \in {"look", "scroll", "close", "csv"} => dir /\ listed = Absent

\* The steps that may write the list do so where there is none, or fill their own.
ListKept == listed # Absent /\ disc.pc # "list" => listed' = listed

\* A batch starts with no discovery at work.
LEMMA ListInit == BatchInit => ListInv
  <1> SUFFICES ASSUME NEW start \in Starts, DiscoveryInit(start.listed)
               PROVE  ListInv
    BY DEF BatchInit
  <1>1. disc = NoDiscovery /\ (dir <=> start.listed # Absent) /\ listed = start.listed
    BY DEF DiscoveryInit
  <1>2. QED
    BY <1>1 DEF ListInv, NoDiscovery

\* A new discovery makes the directory, or there is none.
LEMMA ListBegun ==
  ASSUME ListInv, DiscoveryBegins
  PROVE  ListInv' /\ ListKept
  <1>1. \/ \E mode \in Modes : Begin(mode)
        \/ \E lines \in UrlFiles : DiscoverUrls(lines)
    BY DEF DiscoveryBegins, DiscoverByHand, DiscoveryStarts, JobDiscover, DiscoverSearch, CategoryCommand,
           DiscoverCategory, Modes
  <1>2. ~dir /\ dir' /\ listed' = listed /\ disc'.pc \in {"look", "csv"} /\ DOMAIN disc' = DOMAIN NoDiscovery
    <2>1. CASE \E mode \in Modes : Begin(mode)
      BY <2>1 DEF Begin, EnsureFreshBatchDir, NoDiscovery
    <2>2. CASE \E lines \in UrlFiles : DiscoverUrls(lines)
      BY <2>2 DEF DiscoverUrls, EnsureFreshBatchDir, NoDiscovery
    <2>3. QED
      BY <1>1, <2>1, <2>2
  <1>3. QED
    BY <1>2 DEF ListInv, ListKept

\* A discovery at work writes the list it found absent, or none.
LEMMA ListWorked ==
  ASSUME ListInv, DiscoverySteps \/ DiscoveryDies
  PROVE  ListInv' /\ ListKept
  <1>1. CASE PageLoads \/ Look \/ LookAgain
    <2>1. /\ dir' = dir /\ listed' = listed /\ disc.pc \in {"look", "scroll"}
          /\ disc'.pc \in {"look", "scroll", "close"} /\ DOMAIN disc' = DOMAIN disc
      <3>1. CASE PageLoads
        BY <3>1 DEF PageLoads
      <3>2. CASE Look
        BY <3>2 DEF Look, ListInv, NoDiscovery
      <3>3. CASE LookAgain
        BY <3>3 DEF LookAgain, ListInv, NoDiscovery
      <3>4. QED
        BY <1>1, <3>1, <3>2, <3>3
    <2>2. QED
      BY <2>1 DEF ListInv, ListKept
  <1>2. CASE SearchFails \/ CategoryFails \/ SearchConcludes \/ CategoryConcludes
    <2>1. /\ dir' = dir /\ listed' = listed /\ disc.pc \in {"look", "scroll", "close"}
          /\ disc'.pc = "csv" /\ DOMAIN disc' = DOMAIN disc
      BY <1>2 DEF SearchFails, CategoryFails, SearchConcludes, CategoryConcludes, PageFails,
                  PageConcludes, Conclude, ListInv, NoDiscovery
    <2>2. QED
      BY <2>1 DEF ListInv, ListKept
  <1>3. CASE OpenDiscoveryCsv \/ WriteDiscoveryCsv
    <2>1. /\ dir' = dir /\ disc.pc \in {"csv", "list"} /\ disc'.pc \in {"list", "manifest"}
          /\ DOMAIN disc' = DOMAIN disc
      BY <1>3 DEF OpenDiscoveryCsv, WriteDiscoveryCsv, ListInv, NoDiscovery
    <2>2. QED
      BY <2>1 DEF ListInv, ListKept
  <1>4. CASE WriteDiscoveryManifest \/ AppendDiscoveryFailures
    <2>1. /\ dir' = dir /\ listed' = listed /\ disc'.pc \in {"failures", "idle"}
          /\ DOMAIN disc' = DOMAIN NoDiscovery
      BY <1>4 DEF WriteDiscoveryManifest, AppendDiscoveryFailures, DiscoveryEnds, ListInv, NoDiscovery
    <2>2. QED
      BY <2>1 DEF ListInv, ListKept
  <1>5. CASE DiscoveryDies
    <2>1. /\ dir' = dir /\ disc' = NoDiscovery
          /\ listed' = listed \/ disc.pc = "list"
      BY <1>5 DEF DiscoveryDies, DiscoveryEnds
    <2>2. QED
      BY <2>1 DEF ListInv, ListKept, NoDiscovery
  <1>6. QED
    BY <1>1, <1>2, <1>3, <1>4, <1>5 DEF DiscoverySteps

\* Steps that are none of the discovery's.
Elsewhere == UNCHANGED <<listed, manifest, refusals, disc, shown, sights>> /\ (dir' = dir \/ dir')

\* Only a collection among them may make the directory.
LEMMA DiscoveryElsewhere ==
  ASSUME BatchNext \/ UNCHANGED batchVars, ~DiscoveryBegins, ~(DiscoverySteps \/ DiscoveryDies)
  PROVE  Elsewhere
  <1>1. CASE \E w \in Procs, force \in BOOLEAN : JobCollect(w, force)
    BY <1>1 DEF JobCollect, CollectDetails, Collecting, discoveryVars, Elsewhere
  <1>2. CASE \E w \in Procs, force \in BOOLEAN : JobClassify(w, force)
    BY <1>2 DEF JobClassify, ClassifyImages, discoveryVars, Elsewhere
  <1>3. CASE \E w \in Procs, offset \in 0 .. 1, limit \in 0 .. 1 : JobOcr(w, offset, limit)
    BY <1>3 DEF JobOcr, ProcessBatch, discoveryVars, Elsewhere
  <1>4. CASE \E w \in Procs : CollectByHand(w) \/ ReadByHand(w)
    BY <1>4 DEF CollectByHand, CollectBatch, CollectDetails, Collecting, ReadByHand, ClassifyImages,
                ProcessBatch, discoveryVars, Elsewhere
  <1>5. CASE \E w \in Procs : CollectSteps(w) \/ CollectDies(w)
    BY <1>5 DEF CollectSteps, CollectDies, ReuseRecord, OpenProduct, OpenImage, SaveImage, KeepRecord,
                FailProduct, CollectsNothing, CollectOpens, CollectCloses, CollectExits, discoveryVars, Elsewhere
  <1>6. CASE \E w \in Procs : ReaderSteps(w) \/ ReaderDies(w)
    BY <1>6 DEF ReaderSteps, ReaderDies, ClassifyImage, TornImageEnds, ClassifiesNothing, MergesChecks, WritesChecks,
                LoadsKeys, SkipRow, DomOnly, PlainImage, DisclosingImage, FailRow, EndsBatch,
                ReaderExits, discoveryVars, Elsewhere
  <1>7. CASE ConsoleRestarts \/ UNCHANGED batchVars
    BY <1>7 DEF ConsoleRestarts, batchVars, discoveryVars, Elsewhere
  <1>8. QED
    BY <1>1, <1>2, <1>3, <1>4, <1>5, <1>6, <1>7 DEF BatchNext, Works, Dies, DiscoveryBegins

\* Nothing else writes the list; a collection may make the directory.
LEMMA ListElsewhere ==
  ASSUME ListInv, BatchNext \/ UNCHANGED batchVars, ~DiscoveryBegins,
         ~(DiscoverySteps \/ DiscoveryDies)
  PROVE  ListInv' /\ ListKept
  <1>1. disc' = disc /\ listed' = listed /\ (dir' = dir \/ dir')
    BY DiscoveryElsewhere DEF Elsewhere
  <1>2. QED
    BY <1>1 DEF ListInv, ListKept

\* Every step keeps the list that is there.
LEMMA ListStep == ListInv /\ [BatchNext]_batchVars => ListInv' /\ ListKept
  <1> SUFFICES ASSUME ListInv, BatchNext \/ UNCHANGED batchVars
               PROVE  ListInv' /\ ListKept
    OBVIOUS
  <1>1. CASE DiscoveryBegins
    BY <1>1, ListBegun
  <1>2. CASE DiscoverySteps \/ DiscoveryDies
    BY <1>2, ListWorked
  <1>3. CASE ~DiscoveryBegins /\ ~(DiscoverySteps \/ DiscoveryDies)
    BY <1>3, ListElsewhere
  <1>4. QED
    BY <1>1, <1>2, <1>3

\* A batch is discovered once (base.py, ensure_fresh_batch_dir): its list never
\* changes after it is there, whatever dies and whatever the console forgets.
THEOREM ListStaysFinal == BatchSpec => ListIsFinal
  <1>1. ListInv /\ [BatchNext]_batchVars => [listed # Absent /\ disc.pc # "list" => listed' = listed]_discoveryVars
    BY ListStep DEF ListKept
  <1>2. QED
    BY <1>1, ListInit, ListStep, PTL DEF BatchSpec, ListIsFinal

-----------------------------------------------------------------------------
(* What the discovery says of its list.                                    *)

\* What the loop can have seen of the page at its two looks of a round.
Looks == (0 .. Len(Feed)) \X (0 .. Len(Feed))

\* The record of a discovering process.
Discovering ==
  [pc : {"idle", "look", "scroll", "close", "csv", "list", "manifest", "failures"}, mode : Modes,
   known : Seq(Products), before : Nat, idle : Nat, round : Nat, reason : Reasons,
   status : Statuses, failures : Nat]

\* The types of what the discovery keeps; no product is known twice.
DiscType ==
  /\ disc \in Discovering
  /\ IsInjective(disc.known)
  /\ shown \in 0 .. Len(Feed)
  /\ sights \in Seq(Looks)

\* What a discovery has still to write is what its manifest will say of it.
FilesInv ==
  /\ disc.pc \in {"csv", "list", "manifest"} =>
       /\ (disc.status = "FAILED") <=> (disc.known = <<>>)
       /\ disc.reason # "none" => Len(disc.known) <= MaxProducts
  /\ disc.pc = "list" => dir /\ manifest = Absent
  /\ disc.pc = "manifest" => listed = disc.known
  /\ disc.pc \in {"look", "scroll", "close", "csv"} => dir /\ listed = Absent
  /\ listed # Absent => dir
  /\ DiscoveryFilesAgree

\* What the page shows is a sequence of links.
LEMMA PrefixFacts ==
  ASSUME NEW n \in 0 .. Len(Feed)
  PROVE  /\ Prefix(n) \in Seq(Products \cup {Foreign})
         /\ ToSet(Prefix(n)) = {Feed[i] : i \in 1 .. n}
  <1>1. Feed \in Seq(Products \cup {Foreign})
    BY DiscoveryAssumption
  <1>2. /\ Prefix(n) \in Seq(Products \cup {Foreign}) /\ Len(Prefix(n)) = n
        /\ \A i \in 1 .. n : Prefix(n)[i] = Feed[i]
    BY <1>1 DEF Prefix
  <1>3. DOMAIN Prefix(n) = 1 .. n
    BY <1>2
  <1>4. QED
    BY <1>2, <1>3 DEF ToSet

\* What is merged at a look.
LEMMA LookFacts ==
  ASSUME DiscType
  PROVE  /\ Merge(disc.known, Prefix(shown)) \in Seq(Products)
         /\ IsInjective(Merge(disc.known, Prefix(shown)))
         /\ ToSet(Merge(disc.known, Prefix(shown))) = ToSet(disc.known)
              \cup ({Feed[i] : i \in 1 .. shown} \ {Foreign})
         /\ Len(Merge(disc.known, Prefix(shown))) >= Len(disc.known)
         /\ Len(Merge(disc.known, Prefix(shown))) = Len(disc.known) =>
               Merge(disc.known, Prefix(shown)) = disc.known
  <1>1. disc.known \in Seq(Products) /\ IsInjective(disc.known) /\ shown \in 0 .. Len(Feed)
    BY DEF DiscType, Discovering
  <1>2. Prefix(shown) \in Seq(Products \cup {Foreign}) /\ ToSet(Prefix(shown)) = {Feed[i] : i \in 1 .. shown}
    BY <1>1, PrefixFacts
  <1>3. QED
    BY <1>1, <1>2, MergeFacts

\* What is kept of the known products is a list of them within the maximum.
LEMMA CutFacts ==
  ASSUME NEW known \in Seq(Products), IsInjective(known), known # <<>>
  PROVE  /\ Cut(known) \in Seq(Products) /\ IsInjective(Cut(known))
         /\ Cut(known) # <<>> /\ Len(Cut(known)) <= MaxProducts
  <1> DEFINE n == IF Len(known) < MaxProducts THEN Len(known) ELSE MaxProducts
  <1>1. MaxProducts \in Nat /\ MaxProducts > 0 /\ Len(known) \in Nat /\ Len(known) > 0
    BY DiscoveryAssumption
  <1>2. n \in 1 .. Len(known) /\ n <= MaxProducts
    BY <1>1
  <1>3. Cut(known) = SubSeq(known, 1, n)
    BY DEF Cut
  <1> HIDE DEF n
  <1>4. /\ Cut(known) \in Seq(Products) /\ Len(Cut(known)) = n
        /\ \A i \in 1 .. n : Cut(known)[i] = known[i]
    BY <1>2, <1>3
  <1>5. DOMAIN Cut(known) = 1 .. n /\ DOMAIN known = 1 .. Len(known) /\ 1 .. n \subseteq 1 .. Len(known)
    BY <1>2, <1>4
  <1>6. IsInjective(Cut(known))
    BY <1>4, <1>5 DEF IsInjective
  <1>7. Cut(known) # <<>>
    BY <1>2, <1>4
  <1>8. QED
    BY <1>2, <1>4, <1>6, <1>7

\* The products of a URL file, each once, and how many lines were refused.
LEMMA UrlFacts ==
  ASSUME NEW lines \in UrlFiles, NEW urls, urls = LoadUniqueUrls(lines),
         NEW good, good = Among(urls, {l \in ToSet(urls) : Good(l)})
  PROVE  /\ Len(urls) - Len(good) \in Nat
         /\ [i \in 1 .. Len(good) |-> good[i].product] \in Seq(Products)
         /\ IsInjective([i \in 1 .. Len(good) |-> good[i].product])
         /\ urls \in Seq(Line) /\ Len(good) \in Nat
  <1>1. lines \in Seq(Line)
    BY DiscoveryAssumption
  <1>2. urls \in Seq(Line) /\ NamesOnce(urls)
    BY <1>1, UniqueFacts
  <1> DEFINE P == {l \in ToSet(urls) : Good(l)}
  <1>3. good \in Seq(Line) /\ \E f : PickedBy(f, good, urls, Len(urls), P)
    <2>1. Among(urls, P) \in Seq(Line) /\ \E f : PickedBy(f, Among(urls, P), urls, Len(urls), P)
      <3> HIDE DEF P
      <3>1. QED
        BY <1>2, AmongFacts
    <2>2. QED
      BY <2>1
  <1>4. PICK f : PickedBy(f, good, urls, Len(urls), P)
    BY <1>3
  <1>5. Len(good) \in Nat /\ Len(urls) \in Nat /\ Len(good) <= Len(urls)
        /\ DOMAIN urls = 1 .. Len(urls) /\ DOMAIN good = 1 .. Len(good)
    BY <1>2, <1>3, <1>4 DEF PickedBy
  <1>6. \A i \in 1 .. Len(good) : /\ good[i] = urls[f[i]] /\ f[i] \in DOMAIN urls
                                  /\ good[i] # Foreign /\ good[i].product \in Products
    <2>1. ASSUME NEW i \in 1 .. Len(good)
          PROVE  /\ good[i] = urls[f[i]] /\ f[i] \in DOMAIN urls
                 /\ good[i] # Foreign /\ good[i].product \in Products
      <3>1. good[i] = urls[f[i]] /\ f[i] \in 1 .. Len(urls) /\ good[i] \in P
        BY <1>4 DEF PickedBy
      <3>2. Good(good[i])
        BY <3>1
      <3>3. good[i] \in Line
        BY <1>3
      <3>4. QED
        BY <1>5, <3>1, <3>2, <3>3 DEF Good, Line
    <2>2. QED
      BY <2>1
  <1> DEFINE found == [i \in 1 .. Len(good) |-> good[i].product]
  <1>7. found \in Seq(Products) /\ DOMAIN found = 1 .. Len(good)
    BY <1>5, <1>6
  <1>8. \A i \in 1 .. Len(good) : found[i] = good[i].product
    OBVIOUS
  <1>9. IsInjective(found)
    <2> HIDE DEF found, P
    <2>1. ASSUME NEW i \in 1 .. Len(good), NEW j \in 1 .. Len(good), found[i] = found[j]
          PROVE  i = j
      <3>1. f[i] = f[j]
        BY <1>2, <1>6, <1>8, <2>1 DEF NamesOnce
      <3>2. DOMAIN f = 1 .. Len(good) /\ IsInjective(f)
        BY <1>4 DEF PickedBy
      <3>3. QED
        BY <3>1, <3>2 DEF IsInjective
    <2>2. QED
      BY <1>7, <2>1 DEF IsInjective
  <1>10. Len(urls) - Len(good) \in Nat
    BY <1>5
  <1>11. QED
    BY <1>2, <1>5, <1>7, <1>9, <1>10

\* What a process has before it discovers.
LEMMA FirstDiscovery ==
  /\ NoDiscovery.pc = "idle" /\ NoDiscovery.known = <<>> /\ NoDiscovery.idle = 0
  /\ NoDiscovery.round = 0 /\ NoDiscovery.reason = "none"
  /\ NoDiscovery \in Discovering
  /\ IsInjective(NoDiscovery.known)
  BY DEF NoDiscovery, Modes, Reasons, Statuses, IsInjective, Discovering

\* The files a batch can start with agree.
LEMMA DiscTypeInit == BatchInit => DiscType /\ FilesInv
  <1> SUFFICES ASSUME NEW start \in Starts, DiscoveryInit(start.listed)
               PROVE  DiscType /\ FilesInv
    BY DEF BatchInit
  <1>1. disc = NoDiscovery /\ shown = 0 /\ sights = <<>> /\ listed = start.listed
        /\ (dir <=> listed # Absent)
        /\ manifest = IF listed = Absent THEN Absent
                      ELSE [status |-> "COMPLETED", count |-> Len(listed), reason |-> "none"]
    BY DEF DiscoveryInit
  <1>2. Len(Feed) \in Nat
    BY DiscoveryAssumption
  <1>3. DiscType
    BY <1>1, <1>2, FirstDiscovery DEF DiscType
  <1>4. disc.pc = "idle"
    BY <1>1, FirstDiscovery
  <1>5. listed # Absent => listed \in Seq(Products) /\ listed # <<>> /\ IsInjective(listed)
    BY <1>1, StartsAssumption
  <1>6. DiscoveryFilesAgree
    BY <1>1, <1>5 DEF DiscoveryFilesAgree
  <1>7. QED
    BY <1>1, <1>3, <1>4, <1>6 DEF FilesInv

\* A new discovery: its directory was not there, so there is neither list nor manifest.
LEMMA DiscTypeBegun ==
  ASSUME DiscType, FilesInv, DiscoveryBegins
  PROVE  DiscType' /\ FilesInv'
  <1>1. \/ \E mode \in Modes : Begin(mode)
        \/ \E lines \in UrlFiles : DiscoverUrls(lines)
    BY DEF DiscoveryBegins, DiscoverByHand, DiscoveryStarts, JobDiscover, DiscoverSearch, CategoryCommand,
           DiscoverCategory, Modes
  <1>2. ASSUME NEW mode \in Modes, Begin(mode)
        PROVE  DiscType' /\ FilesInv'
    <2>1. /\ disc' = [NoDiscovery EXCEPT !.pc = "look", !.mode = mode]
          /\ shown' \in 0 .. Len(Feed) /\ sights' = <<>>
          /\ ~dir /\ dir' = TRUE /\ listed' = listed /\ manifest' = manifest
      BY <1>2 DEF Begin, EnsureFreshBatchDir
    <2>2. disc' \in Discovering
          /\ disc'.known = <<>> /\ disc'.pc = "look"
      BY <2>1, FirstDiscovery DEF NoDiscovery, Discovering
    <2>3. IsInjective(disc'.known)
      BY <2>2 DEF IsInjective
    <2>4. DiscType'
      BY <2>1, <2>2, <2>3 DEF DiscType
    <2>5. listed = Absent
      BY <2>1 DEF FilesInv
    <2>6. FilesInv'
      BY <2>1, <2>2, <2>5 DEF FilesInv, DiscoveryFilesAgree
    <2>7. QED
      BY <2>4, <2>6
  <1>3. ASSUME NEW lines \in UrlFiles, DiscoverUrls(lines)
        PROVE  DiscType' /\ FilesInv'
    <2> DEFINE urls  == LoadUniqueUrls(lines)
               good  == Among(urls, {l \in ToSet(urls) : Good(l)})
               found == [i \in 1 .. Len(good) |-> good[i].product]
               bad   == Len(urls) - Len(good)
    <2>1. /\ bad \in Nat /\ found \in Seq(Products) /\ IsInjective(found)
      BY UrlFacts
    <2>2. disc' = [NoDiscovery EXCEPT
            !.pc = "csv", !.mode = "URL_LIST", !.known = found,
            !.status = CASE found # <<>> /\ bad = 0 -> "COMPLETED"
                         [] found # <<>> /\ bad > 0 -> "PARTIAL_FAILED"
                         [] found = <<>> -> "FAILED",
            !.failures = IF urls = <<>> THEN 1 ELSE bad]
      BY <1>3 DEF DiscoverUrls
    <2>3. /\ shown' = shown /\ sights' = sights /\ ~dir /\ dir' = TRUE /\ listed' = listed
          /\ manifest' = manifest
      BY <1>3 DEF DiscoverUrls, EnsureFreshBatchDir
    <2> HIDE DEF found, bad, urls
    <2> DEFINE status == CASE found # <<>> /\ bad = 0 -> "COMPLETED"
                           [] found # <<>> /\ bad > 0 -> "PARTIAL_FAILED"
                           [] found = <<>> -> "FAILED"
               failures == IF urls = <<>> THEN 1 ELSE bad
    <2>4. status \in Statuses /\ (status = "FAILED" <=> found = <<>>) /\ failures \in Nat
      BY <2>1 DEF Statuses
    <2>5. disc' = [NoDiscovery EXCEPT !.pc = "csv", !.mode = "URL_LIST", !.known = found,
                                      !.status = status, !.failures = failures]
      BY <2>2
    <2> HIDE DEF status, failures
    <2>6. disc' \in Discovering
          /\ disc'.known = found /\ disc'.pc = "csv" /\ disc'.status = status /\ disc'.reason = "none"
      BY <2>1, <2>4, <2>5, FirstDiscovery DEF NoDiscovery, Modes, Discovering
    <2>7. DiscType'
      BY <2>1, <2>3, <2>6 DEF DiscType
    <2>8. listed = Absent
      BY <2>3 DEF FilesInv
    <2>9. FilesInv'
      BY <2>3, <2>4, <2>6, <2>8 DEF FilesInv, DiscoveryFilesAgree
    <2>10. QED
      BY <2>7, <2>9
  <1>4. QED
    BY <1>1, <1>2, <1>3

\* Scrolling writes no file.
LEMMA DiscTypeScrolls ==
  ASSUME DiscType, FilesInv, PageLoads \/ Look \/ LookAgain
  PROVE  DiscType' /\ FilesInv'
  <1> DEFINE known == Merge(disc.known, Prefix(shown))
  <1>1. known \in Seq(Products) /\ IsInjective(known)
    BY LookFacts
  <1> HIDE DEF known
  <1>2. /\ disc.pc \in {"look", "scroll"} /\ disc'.pc \in {"look", "scroll", "close"}
        /\ UNCHANGED <<dir, listed, manifest>>
        /\ disc' \in Discovering
        /\ IsInjective(disc'.known)
        /\ shown' \in 0 .. Len(Feed) /\ sights' \in Seq(Looks)
    <2>1. CASE PageLoads
      <3>1. shown' \in 0 .. Len(Feed)
        <4>1. shown' \in shown + 1 .. Len(Feed) /\ shown \in Nat
          BY <2>1 DEF PageLoads, DiscType
        <4>2. QED
          BY <4>1, DiscoveryAssumption
      <3>2. QED
        BY <2>1, <3>1 DEF PageLoads, DiscType
    <2>2. CASE Look
      <3>1. Len(disc.known) \in Nat /\ <<shown, 0>> \in Looks
        BY DiscoveryAssumption DEF DiscType, Looks
      <3> DEFINE pc == IF Len(known) >= MaxProducts THEN "close" ELSE "scroll"
                 reason == IF Len(known) >= MaxProducts THEN "MAX_PRODUCTS_REACHED" ELSE disc.reason
      <3>2. pc \in {"close", "scroll"} /\ reason \in Reasons
        BY DEF DiscType, Reasons, Discovering
      <3>3. disc' = [disc EXCEPT !.pc = pc, !.known = known, !.before = Len(disc.known),
                                 !.round = @ + 1, !.reason = reason]
        BY <2>2 DEF Look, known
      <3> HIDE DEF pc, reason
      <3>4. disc.pc = "look" /\ sights' = Append(sights, <<shown, 0>>)
            /\ UNCHANGED <<dir, listed, manifest, shown>>
        BY <2>2 DEF Look
      <3>5. sights' \in Seq(Looks)
        BY <3>1, <3>4 DEF DiscType
      <3>6. disc' \in Discovering
            /\ disc'.known = known /\ disc'.pc = pc
        <4>1. disc.round \in Nat /\ disc.round + 1 \in Nat
          BY DEF DiscType, Discovering
        <4> DEFINE before == Len(disc.known)
                   round == disc.round + 1
        <4>2. before \in Nat /\ round \in Nat
          BY <3>1, <4>1
        <4>3. disc' = [disc EXCEPT !.pc = pc, !.known = known, !.before = before,
                                   !.round = round, !.reason = reason]
          BY <3>3
        <4> HIDE DEF before, round
        <4>4. QED
          BY <1>1, <3>2, <4>2, <4>3 DEF DiscType, Discovering
      <3>7. QED
        BY <1>1, <3>2, <3>4, <3>5, <3>6 DEF DiscType
    <2>3. CASE LookAgain
      <3> DEFINE idle == IdleRounds(known)
                 reason == StopReason(known, idle)
                 pc == IF reason = "none" THEN "look" ELSE "close"
      <3>1. idle \in Nat
        BY DEF IdleRounds, DiscType, Discovering
      <3>2. reason \in Reasons
        BY <1>1, <3>1, DiscoveryAssumption DEF StopReason, Reasons, DiscType
      <3>3. disc' = [disc EXCEPT !.pc = pc, !.known = known, !.idle = idle, !.reason = reason]
        BY <2>3 DEF LookAgain, known
      <3>4. pc \in {"look", "close"}
        OBVIOUS
      <3> HIDE DEF pc, reason, idle
      <3>5. disc.pc = "scroll" /\ sights' = [sights EXCEPT ![Len(sights)][2] = shown]
            /\ UNCHANGED <<dir, listed, manifest, shown>>
        BY <2>3 DEF LookAgain
      <3>6. sights' \in Seq(Looks)
        <4>1. sights \in Seq(Looks) /\ shown \in 0 .. Len(Feed)
          BY DEF DiscType
        <4>2. \A l \in Looks : [l EXCEPT ![2] = shown] \in Looks
          BY <4>1 DEF Looks
        <4> DEFINE l == [sights[Len(sights)] EXCEPT ![2] = shown]
        <4>3. sights' = [sights EXCEPT ![Len(sights)] = l]
          BY <3>5
        <4>4. CASE Len(sights) = 0
          <5>1. DOMAIN sights = {}
            BY <4>1, <4>4
          <5>2. sights' = sights
            BY <4>1, <4>3, <5>1
          <5>3. QED
            BY <4>1, <5>2
        <4>5. CASE Len(sights) # 0
          <5>1. Len(sights) \in 1 .. Len(sights)
            BY <4>1, <4>5
          <5>2. l \in Looks
            BY <4>1, <4>2, <5>1
          <5> HIDE DEF l
          <5>3. QED
            BY <4>1, <4>3, <5>1, <5>2, ExceptSeq
        <4>6. QED
          BY <4>4, <4>5
      <3>7. QED
        BY <1>1, <3>1, <3>2, <3>3, <3>4, <3>5, <3>6 DEF DiscType, Discovering
    <2>4. QED
      BY <2>1, <2>2, <2>3
  <1>3. DiscType'
    BY <1>2 DEF DiscType
  <1>4. FilesInv'
    BY <1>2 DEF FilesInv, DiscoveryFilesAgree
  <1>5. QED
    BY <1>3, <1>4

\* What a page comes to: a list that is not too long, or a failure.
LEMMA DiscTypeConcludes ==
  ASSUME DiscType, FilesInv, SearchFails \/ CategoryFails \/ SearchConcludes \/ CategoryConcludes
  PROVE  DiscType' /\ FilesInv'
  <1>1. PICK products, reason, status, failures :
          /\ Conclude(products, reason, status, failures)
          /\ \/ products = <<>> /\ reason = "none" /\ status = "FAILED" /\ failures = 1
             \/ products = <<>> /\ reason = disc.reason /\ status = "FAILED" /\ failures = 1
             \/ disc.known # <<>> /\ products = Cut(disc.known) /\ reason = disc.reason
                /\ status = "COMPLETED" /\ failures = 0
    BY DEF SearchFails, CategoryFails, SearchConcludes, CategoryConcludes, PageFails, PageConcludes
  <1>2. /\ disc.pc \in {"look", "scroll", "close"} /\ UNCHANGED <<dir, listed, manifest, shown, sights>>
    BY DEF SearchFails, CategoryFails, SearchConcludes, CategoryConcludes, PageFails, PageConcludes
  <1>3. /\ products \in Seq(Products) /\ IsInjective(products) /\ Len(products) <= MaxProducts
        /\ (status = "FAILED" <=> products = <<>>)
        /\ reason \in Reasons /\ status \in Statuses /\ failures \in Nat
    <2>1. disc.known \in Seq(Products) /\ IsInjective(disc.known) /\ disc.reason \in Reasons
      BY DEF DiscType, Discovering
    <2>2. "none" \in Reasons /\ "FAILED" \in Statuses /\ "COMPLETED" \in Statuses
      BY DEF Reasons, Statuses
    <2>3. CASE products = <<>> /\ status = "FAILED" /\ failures = 1 /\ reason \in {"none", disc.reason}
      BY <2>1, <2>2, <2>3, DiscoveryAssumption DEF IsInjective
    <2>4. CASE disc.known # <<>> /\ products = Cut(disc.known) /\ reason = disc.reason
               /\ status = "COMPLETED" /\ failures = 0
      BY <2>1, <2>2, <2>4, CutFacts
    <2>5. QED
      BY <1>1, <2>3, <2>4
  <1>4. disc' = [disc EXCEPT !.pc = "csv", !.known = products, !.reason = reason,
                             !.status = status, !.failures = failures]
    BY <1>1 DEF Conclude
  <1>5. /\ disc' \in Discovering
        /\ disc'.pc = "csv" /\ disc'.known = products /\ disc'.status = status
    BY <1>3, <1>4 DEF DiscType, Discovering
  <1>6. DiscType'
    BY <1>2, <1>3, <1>5 DEF DiscType
  <1>7. FilesInv'
    BY <1>2, <1>3, <1>5 DEF FilesInv, DiscoveryFilesAgree
  <1>8. QED
    BY <1>6, <1>7

\* The files are written in their order, or the process dies between or within them.
LEMMA DiscTypeWrites ==
  ASSUME DiscType, FilesInv,
         \/ OpenDiscoveryCsv \/ WriteDiscoveryCsv \/ WriteDiscoveryManifest
         \/ AppendDiscoveryFailures \/ DiscoveryDies
  PROVE  DiscType' /\ FilesInv'
  <1>1. Absent \notin Seq(Products) /\ Len(Feed) \in Nat
    BY StartsAssumption, DiscoveryAssumption
  <1>2. disc.known \in Seq(Products) /\ IsInjective(disc.known)
    BY DEF DiscType, Discovering
  <1>3. CASE OpenDiscoveryCsv \/ WriteDiscoveryCsv \/ WriteDiscoveryManifest
    <2>1. PICK pc \in {"list", "manifest", "failures"} : disc' = [disc EXCEPT !.pc = pc]
      BY <1>3 DEF OpenDiscoveryCsv, WriteDiscoveryCsv, WriteDiscoveryManifest
    <2>2. UNCHANGED <<dir, shown, sights>>
      BY <1>3 DEF OpenDiscoveryCsv, WriteDiscoveryCsv, WriteDiscoveryManifest
    <2>3. DiscType'
      BY <2>1, <2>2 DEF DiscType, Discovering
    <2>4. /\ disc'.known = disc.known /\ disc'.status = disc.status /\ disc'.reason = disc.reason
          /\ disc'.pc = pc
      BY <2>1 DEF DiscType
    <2>5. CASE OpenDiscoveryCsv \/ WriteDiscoveryCsv
      <3>1. /\ manifest' = manifest
            /\ \/ disc.pc = "csv" /\ disc'.pc = "list"
               \/ disc.pc = "list" /\ listed' = disc.known /\ disc'.pc = "manifest"
        <4>1. CASE OpenDiscoveryCsv
          BY <2>1, <4>1 DEF OpenDiscoveryCsv, DiscType, Discovering
        <4>2. CASE WriteDiscoveryCsv
          BY <2>1, <4>2 DEF WriteDiscoveryCsv, DiscType, Discovering
        <4>3. QED
          BY <2>5, <4>1, <4>2
      <3>2. manifest = Absent /\ dir
        BY <3>1 DEF FilesInv, DiscoveryFilesAgree
      <3>3. QED
        BY <2>2, <2>3, <2>4, <3>1, <3>2 DEF FilesInv, DiscoveryFilesAgree
    <2>6. CASE WriteDiscoveryManifest
      <3>1. /\ disc.pc = "manifest" /\ disc'.pc = "failures" /\ listed' = listed
            /\ manifest' = [status |-> disc.status, count |-> Len(disc.known), reason |-> disc.reason]
        BY <2>4, <2>6 DEF WriteDiscoveryManifest, DiscType
      <3>2. listed = disc.known /\ listed # Absent
        BY <1>1, <1>2, <3>1 DEF FilesInv
      <3>3. DiscoveryFilesAgree'
        BY <1>2, <3>1, <3>2 DEF FilesInv, DiscoveryFilesAgree
      <3>4. FilesInv'
        BY <2>2, <3>1, <3>2, <3>3 DEF FilesInv
      <3>5. QED
        BY <2>3, <3>4
    <2>7. QED
      BY <1>3, <2>5, <2>6
  <1>4. CASE AppendDiscoveryFailures \/ DiscoveryDies
    <2>1. disc' = NoDiscovery /\ shown' = 0 /\ sights' = <<>> /\ UNCHANGED <<dir, manifest>>
      BY <1>4 DEF AppendDiscoveryFailures, DiscoveryDies, DiscoveryEnds
    <2>2. listed' = listed \/ disc.pc = "list"
      BY <1>4 DEF AppendDiscoveryFailures, DiscoveryDies
    <2>3. DiscType'
      BY <1>1, <2>1, FirstDiscovery DEF DiscType
    <2>4. disc'.pc = "idle"
      BY <2>1, FirstDiscovery
    <2>5. DiscoveryFilesAgree'
      <3>1. CASE listed' = listed
        BY <2>1, <3>1 DEF FilesInv, DiscoveryFilesAgree
      <3>2. CASE disc.pc = "list"
        BY <2>1, <3>2 DEF FilesInv, DiscoveryFilesAgree
      <3>3. QED
        BY <2>2, <3>1, <3>2
    <2>6. listed' # Absent => dir'
      BY <2>1, <2>2 DEF FilesInv
    <2>7. QED
      BY <2>3, <2>4, <2>5, <2>6 DEF FilesInv
  <1>5. QED
    BY <1>3, <1>4

\* Every step keeps the types and what the files are to say.
LEMMA DiscTypeStep == DiscType /\ FilesInv /\ [BatchNext]_batchVars => DiscType' /\ FilesInv'
  <1> SUFFICES ASSUME DiscType, FilesInv, BatchNext \/ UNCHANGED batchVars
               PROVE  DiscType' /\ FilesInv'
    OBVIOUS
  <1>1. CASE DiscoveryBegins
    BY <1>1, DiscTypeBegun
  <1>2. CASE DiscoverySteps \/ DiscoveryDies
    BY <1>2, DiscTypeScrolls, DiscTypeConcludes, DiscTypeWrites DEF DiscoverySteps
  <1>3. CASE ~DiscoveryBegins /\ ~(DiscoverySteps \/ DiscoveryDies)
    <2>1. Elsewhere
      BY <1>3, DiscoveryElsewhere
    <2>2. DiscType'
      BY <2>1 DEF Elsewhere, DiscType
    <2>3. FilesInv'
      BY <2>1 DEF Elsewhere, FilesInv, DiscoveryFilesAgree
    <2>4. QED
      BY <2>2, <2>3
  <1>4. QED
    BY <1>1, <1>2, <1>3

\* A batch that has its manifest has the list it counts (_persist_discovery),
\* whatever the page shows, the URL file says, or dies.
THEOREM FilesStayInStep == BatchSpec => []DiscoveryFilesAgree
  <1>1. FilesInv => DiscoveryFilesAgree
    BY DEF FilesInv
  <1>2. QED
    BY <1>1, DiscTypeInit, DiscTypeStep, PTL DEF BatchSpec

-----------------------------------------------------------------------------
(* Why the discovery stops.                                                *)

\* The products the first n links of the page name.
Met(n) == {Feed[i] : i \in 1 .. n} \ {Foreign}

\* What the page had shown k whole rounds ago, nothing before the first.
Back(k) == IF Len(sights) > k THEN Met(sights[Len(sights) - k][2]) ELSE {}

\* A round is entered when no limit is reached; what is known is what the page
\* showed, and was all there was to know in each of the idle rounds.
StopInv ==
  /\ disc.pc \in {"look", "scroll", "close"} => disc.round = Len(sights)
  /\ disc.pc = "look" =>
       /\ Len(sights) < MaxScrolls /\ disc.idle <= Len(sights)
       /\ ToSet(disc.known) \subseteq Met(shown)
       /\ \A k \in 0 .. disc.idle : Back(k) = ToSet(disc.known)
  /\ disc.pc = "scroll" =>
       /\ Len(sights) \in 1 .. MaxScrolls /\ disc.idle < Len(sights)
       /\ sights[Len(sights)][1] <= shown
       /\ ToSet(disc.known) = Met(sights[Len(sights)][1])
       /\ disc.before <= Len(disc.known)
       /\ disc.before = Len(disc.known) =>
            \A k \in 1 .. disc.idle + 1 : Back(k) = ToSet(disc.known)
  /\ StopIsJustified

\* More links name no fewer products.
LEMMA MetGrows ==
  ASSUME NEW m \in Nat, NEW n \in Nat, m <= n
  PROVE  Met(m) \subseteq Met(n)
  <1>1. 1 .. m \subseteq 1 .. n
    OBVIOUS
  <1>2. QED
    BY <1>1 DEF Met

\* As many products as the list is long.
LEMMA InjectiveSize ==
  ASSUME NEW S, NEW s \in Seq(S), IsInjective(s)
  PROVE  IsFiniteSet(ToSet(s)) /\ Cardinality(ToSet(s)) = Len(s)
  <1>1. s \in [1 .. Len(s) -> ToSet(s)] /\ Len(s) \in Nat /\ DOMAIN s = 1 .. Len(s)
    BY DEF ToSet
  <1>2. s \in Bijection(1 .. Len(s), ToSet(s))
    BY <1>1 DEF Bijection, Injection, Surjection, ToSet, IsInjective
  <1>3. QED
    <2> DEFINE n == Len(s)
               T == ToSet(s)
               I == 1 .. n
    <2>1. IsFiniteSet(I) /\ Cardinality(I) = n
      <3>1. n \in Nat
        BY <1>1
      <3> HIDE DEF n
      <3>2. QED
        BY <3>1, FS_Interval
    <2>2. ExistsBijection(I, T)
      BY <1>2 DEF ExistsBijection
    <2> HIDE DEF n, T, I
    <2>3. IsFiniteSet(T) /\ Cardinality(T) = n
      BY <2>1, <2>2, FS_Bijection
    <2>4. QED
      BY <2>3 DEF n, T

\* Where a look leaves off, the reason it gives is the one it has.
LEMMA StopBegun ==
  ASSUME DiscType, DiscoveryBegins
  PROVE  StopInv'
  <1>1. \/ \E mode \in Modes : Begin(mode)
        \/ \E lines \in UrlFiles : DiscoverUrls(lines)
    BY DEF DiscoveryBegins, DiscoverByHand, DiscoveryStarts, JobDiscover, DiscoverSearch, CategoryCommand,
           DiscoverCategory, Modes
  <1>2. CASE \E mode \in Modes : Begin(mode)
    <2>1. /\ disc'.pc = "look" /\ disc'.known = <<>> /\ disc'.idle = 0 /\ disc'.round = 0 /\ sights' = <<>>
      BY <1>2, FirstDiscovery DEF Begin, NoDiscovery
    <2>2. Len(sights') = 0 /\ ToSet(disc'.known) = {} /\ MaxScrolls \in Nat \ {0}
      BY <2>1, DiscoveryAssumption DEF ToSet
    <2>3. (\A k \in 0 .. disc.idle : Back(k) = ToSet(disc.known))'
      BY <2>1, <2>2 DEF Back
    <2>4. QED
      BY <2>1, <2>2, <2>3 DEF StopInv, StopIsJustified
  <1>3. CASE \E lines \in UrlFiles : DiscoverUrls(lines)
    <2>1. disc'.pc = "csv"
      BY <1>3 DEF DiscoverUrls, NoDiscovery
    <2>2. QED
      BY <2>1 DEF StopInv, StopIsJustified
  <1>4. QED
    BY <1>1, <1>2, <1>3

\* Links that load change nothing that was met.
LEMMA StopLoads ==
  ASSUME DiscType, StopInv, PageLoads
  PROVE  StopInv'
  <1>1. /\ shown' \in Nat /\ shown \in Nat /\ shown <= shown' /\ disc' = disc /\ sights' = sights
    BY DiscoveryAssumption DEF PageLoads, DiscType
  <1>2. Met(shown) \subseteq Met(shown')
    BY <1>1, MetGrows
  <1>3. disc.pc = "scroll" => sights[Len(sights)][1] \in Nat
    BY DiscoveryAssumption DEF StopInv, DiscType, Looks
  <1>4. disc.pc = "scroll" => sights[Len(sights)][1] <= shown'
    BY <1>1, <1>3 DEF StopInv
  <1>5. disc.pc = "look" => ToSet(disc.known) \subseteq Met(shown')
    BY <1>2 DEF StopInv
  <1>6. /\ disc.pc = "look" => (\A k \in 0 .. disc.idle : Back(k) = ToSet(disc.known))'
        /\ disc.pc = "scroll" /\ disc.before = Len(disc.known) =>
             (\A k \in 1 .. disc.idle + 1 : Back(k) = ToSet(disc.known))'
    BY <1>1 DEF StopInv, Back, Met
  <1>7. StopIsJustified'
    BY <1>1 DEF StopInv, StopIsJustified
  <1>8. QED
    BY <1>1, <1>4, <1>5, <1>6, <1>7 DEF StopInv, Met

\* The first look of a round.
LEMMA StopLook ==
  ASSUME DiscType, StopInv, Look
  PROVE  StopInv'
  <1> DEFINE known == Merge(disc.known, Prefix(shown))
             n     == Len(sights)
  <1>1. /\ known \in Seq(Products) /\ IsInjective(known)
        /\ ToSet(known) = ToSet(disc.known) \cup Met(shown)
        /\ Len(known) >= Len(disc.known)
        /\ Len(known) = Len(disc.known) => known = disc.known
    BY LookFacts DEF Met
  <1>2. /\ disc.pc = "look" /\ disc'.pc = IF Len(known) >= MaxProducts THEN "close" ELSE "scroll"
        /\ disc'.known = known /\ disc'.before = Len(disc.known) /\ disc'.idle = disc.idle
        /\ disc'.round = disc.round + 1
        /\ Len(known) >= MaxProducts => disc'.reason = "MAX_PRODUCTS_REACHED"
        /\ sights' = Append(sights, <<shown, 0>>) /\ shown' = shown
    BY DEF Look, DiscType, Discovering
  <1> HIDE DEF known
  <1>3. n \in Nat /\ disc.round = n /\ n < MaxScrolls /\ disc.idle \in Nat /\ disc.idle <= n
        /\ MaxScrolls \in Nat /\ shown \in Nat
        /\ Len(known) \in Nat /\ Len(disc.known) \in Nat /\ MaxProducts \in Nat
    BY <1>1, <1>2, DiscoveryAssumption DEF DiscType, Discovering, StopInv
  <1>4. Len(sights') = n + 1 /\ sights'[n + 1] = <<shown, 0>> /\ \A i \in 1 .. n : sights'[i] = sights[i]
    BY <1>2 DEF DiscType
  <1>5. ToSet(known) = Met(shown)
    BY <1>1, <1>2 DEF StopInv
  <1>6. ASSUME Len(known) = Len(disc.known), NEW k \in 1 .. disc.idle + 1
        PROVE  IF n + 1 > k THEN Met(sights'[n + 1 - k][2]) = ToSet(known) ELSE ToSet(known) = {}
    <2>1. k - 1 \in 0 .. disc.idle /\ k \in Nat /\ (n + 1 > k <=> n > k - 1)
      BY <1>3
    <2>2. Back(k - 1) = ToSet(known)
      BY <1>1, <1>2, <1>6, <2>1 DEF StopInv
    <2>3. CASE n + 1 > k
      <3>1. n + 1 - k = n - (k - 1) /\ n - (k - 1) \in 1 .. n
        BY <1>3, <2>1, <2>3
      <3>2. QED
        BY <1>4, <2>1, <2>2, <2>3, <3>1 DEF Back
    <2>4. CASE ~(n + 1 > k)
      BY <2>1, <2>2, <2>4 DEF Back
    <2>5. QED
      BY <2>3, <2>4
  <1> HIDE DEF n
  <1>7. CASE Len(known) >= MaxProducts
    <2>1. disc'.pc = "close" /\ disc'.reason = "MAX_PRODUCTS_REACHED"
      BY <1>2, <1>7
    <2>2. Met(0) = {}
      BY DEF Met
    <2>3. Met(sights'[n + 1][1]) \cup Met(sights'[n + 1][2]) = ToSet(known)
      BY <1>4, <1>5, <2>2
    <2>4. Cardinality(ToSet(known)) = Len(known)
      BY <1>1, InjectiveSize
    <2>5. StopIsJustified'
      BY <1>2, <1>4, <1>7, <2>1, <2>3, <2>4 DEF StopIsJustified, Met
    <2>6. QED
      BY <1>2, <1>3, <1>4, <2>1, <2>5 DEF StopInv
  <1>8. CASE ~(Len(known) >= MaxProducts)
    <2>1. disc'.pc = "scroll"
      BY <1>2, <1>8
    <2>2. Len(sights') \in 1 .. MaxScrolls /\ disc'.idle < Len(sights')
      BY <1>2, <1>3, <1>4
    <2>3. sights'[Len(sights')][1] <= shown' /\ ToSet(disc'.known) = Met(sights'[Len(sights')][1])
      BY <1>2, <1>3, <1>4, <1>5
    <2>4. disc'.before <= Len(disc'.known)
      BY <1>1, <1>2, <1>3
    <2>5. disc'.before = Len(disc'.known) => (\A k \in 1 .. disc.idle + 1 : Back(k) = ToSet(disc.known))'
      <3>1. ASSUME Len(known) = Len(disc.known), NEW k \in 1 .. disc.idle + 1
            PROVE  (IF Len(sights') > k THEN Met(sights'[Len(sights') - k][2]) ELSE {}) = ToSet(known)
        <4>1. IF n + 1 > k THEN Met(sights'[n + 1 - k][2]) = ToSet(known) ELSE ToSet(known) = {}
          BY <1>6, <3>1
        <4>2. Len(sights') = n + 1
          BY <1>4
        <4>3. CASE n + 1 > k
          BY <1>3, <4>1, <4>2, <4>3
        <4>4. CASE ~(n + 1 > k)
          BY <1>3, <4>1, <4>2, <4>4
        <4>5. QED
          BY <4>3, <4>4
      <3>2. QED
        BY <1>2, <3>1 DEF Back, Met
    <2>6. StopIsJustified'
      BY <2>1 DEF StopIsJustified
    <2>7. QED
      BY <1>2, <1>3, <1>4, <2>1, <2>2, <2>3, <2>4, <2>5, <2>6 DEF StopInv, Met
  <1>9. QED
    BY <1>7, <1>8

\* The second look, and whether another round follows.
LEMMA StopLookAgain ==
  ASSUME DiscType, StopInv, LookAgain
  PROVE  StopInv'
  <1> DEFINE known  == Merge(disc.known, Prefix(shown))
             idle   == IdleRounds(known)
             reason == StopReason(known, idle)
             n      == Len(sights)
  <1>1. /\ known \in Seq(Products) /\ IsInjective(known)
        /\ ToSet(known) = ToSet(disc.known) \cup Met(shown)
        /\ Len(known) >= Len(disc.known)
        /\ Len(known) = Len(disc.known) => known = disc.known
    BY LookFacts DEF Met
  <1>2. /\ disc.pc = "scroll" /\ disc'.pc = IF reason = "none" THEN "look" ELSE "close"
        /\ disc'.known = known /\ disc'.idle = idle /\ disc'.reason = reason /\ disc'.round = disc.round
        /\ sights' = [sights EXCEPT ![Len(sights)][2] = shown] /\ shown' = shown
    BY DEF LookAgain, DiscType, Discovering
  <1> HIDE DEF known
  <1>3. /\ n \in 1 .. MaxScrolls /\ disc.round = n /\ disc.idle \in Nat /\ disc.idle < n
        /\ MaxScrolls \in Nat /\ IdleLimit \in Nat \ {0} /\ shown \in Nat /\ MaxProducts \in Nat
        /\ disc.before \in Nat /\ Len(known) \in Nat /\ Len(disc.known) \in Nat
    BY <1>1, <1>2, DiscoveryAssumption DEF DiscType, Discovering, StopInv
  <1>4. /\ Len(sights') = n /\ sights'[n][1] = sights[n][1] /\ sights'[n][2] = shown
        /\ \A i \in 1 .. n : i # n => sights'[i] = sights[i]
        /\ sights[n][1] \in Nat /\ sights[n][1] <= shown
    <2>1. sights \in Seq(Looks) /\ n \in DOMAIN sights /\ sights[n] \in Looks
      BY <1>3 DEF DiscType
    <2>2. sights[n][1] \in Nat /\ sights[n][1] <= shown
      BY <1>2, <2>1, DiscoveryAssumption DEF StopInv, Looks
    <2> DEFINE l == [sights[n] EXCEPT ![2] = shown]
    <2>3. sights' = [sights EXCEPT ![n] = l]
      BY <1>2
    <2>4. l[1] = sights[n][1] /\ l[2] = shown
      BY <2>1 DEF Looks
    <2> HIDE DEF l
    <2>5. QED
      BY <2>1, <2>2, <2>3, <2>4
  <1>5. ToSet(known) = Met(shown)
    BY <1>1, <1>2, <1>3, <1>4, MetGrows DEF StopInv
  <1>6. idle \in 0 .. n /\ \A k \in 0 .. idle : IF n > k
                                                THEN Met(sights'[n - k][2]) = ToSet(known)
                                                ELSE ToSet(known) = {}
    <2>1. n > 0 /\ n - 0 = n /\ Met(sights'[n][2]) = ToSet(known)
      BY <1>3, <1>4, <1>5
    <2>2. CASE Len(known) = disc.before
      <3>1. idle = disc.idle + 1 /\ idle \in 0 .. n
        BY <1>3, <2>2 DEF IdleRounds
      <3>2. known = disc.known /\ disc.before = Len(disc.known)
        BY <1>1, <1>2, <1>3, <2>2 DEF StopInv
      <3>3. ASSUME NEW k \in 1 .. disc.idle + 1
            PROVE  IF n > k THEN Met(sights'[n - k][2]) = ToSet(known) ELSE ToSet(known) = {}
        <4>1. Back(k) = ToSet(known)
          BY <1>2, <3>2 DEF StopInv
        <4>2. n > k => n - k \in 1 .. n /\ n - k # n
          BY <1>3
        <4>3. QED
          BY <1>4, <4>1, <4>2 DEF Back
      <3>4. \A k \in 0 .. idle : k = 0 \/ k \in 1 .. disc.idle + 1
        BY <1>3, <3>1
      <3>5. QED
        BY <2>1, <3>1, <3>3, <3>4
    <2>3. CASE Len(known) # disc.before
      <3>1. idle = 0
        BY <2>3 DEF IdleRounds
      <3>2. QED
        BY <1>3, <2>1, <3>1
    <2>4. QED
      BY <2>2, <2>3
  <1>7. /\ reason = "none" => n < MaxScrolls
        /\ reason = "NO_NEW_PRODUCTS" => idle >= IdleLimit
        /\ reason = "SCROLL_LIMIT_REACHED" => n = MaxScrolls
        /\ reason = "MAX_PRODUCTS_REACHED" => Len(known) >= MaxProducts
    BY <1>3, <1>6 DEF StopReason
  <1> HIDE DEF n, idle, reason
  <1>8. CASE reason = "none"
    <2>1. (\A k \in 0 .. disc.idle : Back(k) = ToSet(disc.known))'
      BY <1>2, <1>4, <1>6 DEF Back, Met
    <2>2. QED
      BY <1>2, <1>3, <1>4, <1>5, <1>6, <1>7, <1>8, <2>1 DEF StopInv, StopIsJustified, Met
  <1>9. CASE reason # "none"
    <2>1. Met(sights'[n][1]) \cup Met(sights'[n][2]) = ToSet(known)
      BY <1>3, <1>4, <1>5, MetGrows
    <2>2. reason = "NO_NEW_PRODUCTS" =>
            n >= IdleLimit /\ ToSet(known) = (IF n > IdleLimit THEN Met(sights'[n - IdleLimit][2]) ELSE {})
      BY <1>3, <1>6, <1>7
    <2>3. Cardinality(ToSet(known)) = Len(known)
      BY <1>1, InjectiveSize
    <2>4. StopIsJustified'
      BY <1>2, <1>4, <1>7, <1>9, <2>1, <2>2, <2>3 DEF StopIsJustified, Met
    <2>5. QED
      BY <1>2, <1>3, <1>4, <1>9, <2>4 DEF StopInv
  <1>10. QED
    BY <1>8, <1>9

\* The other steps of a discovery are past the loop.
LEMMA ScrollingEnds ==
  ASSUME DiscType,
         \/ SearchFails \/ CategoryFails \/ SearchConcludes \/ CategoryConcludes
         \/ OpenDiscoveryCsv \/ WriteDiscoveryCsv \/ WriteDiscoveryManifest
         \/ AppendDiscoveryFailures \/ DiscoveryDies
  PROVE  disc'.pc \in {"csv", "list", "manifest", "failures", "idle"}
  <1>1. CASE SearchFails \/ CategoryFails \/ SearchConcludes \/ CategoryConcludes
    BY <1>1 DEF SearchFails, CategoryFails, SearchConcludes, CategoryConcludes, PageFails, PageConcludes,
                Conclude, DiscType, Discovering
  <1>2. CASE OpenDiscoveryCsv \/ WriteDiscoveryCsv \/ WriteDiscoveryManifest
    BY <1>2 DEF OpenDiscoveryCsv, WriteDiscoveryCsv, WriteDiscoveryManifest, DiscType, Discovering
  <1>3. CASE AppendDiscoveryFailures \/ DiscoveryDies
    BY <1>3 DEF AppendDiscoveryFailures, DiscoveryDies, DiscoveryEnds, NoDiscovery
  <1>4. QED
    BY <1>1, <1>2, <1>3

\* Every step keeps what the loop knows of the looks it took.
LEMMA StopStep == DiscType /\ StopInv /\ [BatchNext]_batchVars => StopInv'
  <1> SUFFICES ASSUME DiscType, StopInv, BatchNext \/ UNCHANGED batchVars
               PROVE  StopInv'
    OBVIOUS
  <1>1. CASE DiscoveryBegins
    BY <1>1, StopBegun
  <1>2. CASE PageLoads \/ Look \/ LookAgain
    BY <1>2, StopLoads, StopLook, StopLookAgain
  <1>3. CASE \/ SearchFails \/ CategoryFails \/ SearchConcludes \/ CategoryConcludes
             \/ OpenDiscoveryCsv \/ WriteDiscoveryCsv \/ WriteDiscoveryManifest
             \/ AppendDiscoveryFailures \/ DiscoveryDies
    <2>1. disc'.pc \in {"csv", "list", "manifest", "failures", "idle"}
      BY <1>3, ScrollingEnds
    <2>2. QED
      BY <2>1 DEF StopInv, StopIsJustified
  <1>4. CASE ~DiscoveryBegins /\ ~(DiscoverySteps \/ DiscoveryDies)
    <2>1. disc' = disc /\ sights' = sights /\ shown' = shown
      BY <1>4, DiscoveryElsewhere DEF Elsewhere
    <2>2. QED
      BY <2>1 DEF StopInv, StopIsJustified, Back, Met
  <1>5. QED
    BY <1>1, <1>2, <1>3, <1>4 DEF DiscoverySteps

\* Scrolling stops for a reason that is so (discovery/page_scroller.py, discover_with_scroll):
\* for want of new products only when the page, since the rounds the limit asks
\* for, had nothing it had not shown before; at the limit of scrolls after all of
\* them; at the maximum with that many products; and it missed none that was
\* shown, however the links of the page load between two looks.
THEOREM StopStaysJustified == BatchSpec => []StopIsJustified
  <1>1. BatchInit => StopInv
    <2>1. BatchInit => disc.pc = "idle"
      BY FirstDiscovery DEF BatchInit, DiscoveryInit
    <2>2. QED
      BY <2>1 DEF StopInv, StopIsJustified
  <1>2. StopInv => StopIsJustified
    BY DEF StopInv
  <1>3. QED
    BY <1>1, <1>2, StopStep, DiscTypeInit, DiscTypeStep, PTL DEF BatchSpec

-----------------------------------------------------------------------------
(* The loop and the double of the tests.                                   *)

\* The double over what the page showed, before its answer is read off.
Doubling    == [known : Seq(Products), idle : Nat, rounds : Nat, reason : Reasons]
FirstDouble == [known |-> <<>>, idle |-> 0, rounds |-> 0, reason |-> "none"]
DoubleStep  == [p \in Doubling \X Looks |-> DoubleRound(p[1], p[2])]
Doubled(looks) == FoldLeft(DoubleRound, FirstDouble, looks)

\* Merging keeps to products.
LEMMA MergeType ==
  ASSUME NEW known \in Seq(Products), NEW links \in Seq(Products \cup {Foreign})
  PROVE  Merge(known, links) \in Seq(Products)
  <1>1. PICK G \in [0 .. Len(links) -> Seq(Products)] : Merge(known, links) = G[Len(links)]
    BY MergeTrace
  <1>2. Len(links) \in 0 .. Len(links)
    OBVIOUS
  <1>3. QED
    BY <1>1, <1>2

\* A page that shows no link adds none.
LEMMA MergeNone ==
  ASSUME NEW known \in Seq(Products)
  PROVE  Merge(known, Prefix(0)) = known
  <1>1. Prefix(0) = <<>>
    BY DiscoveryAssumption DEF Prefix
  <1>2. <<>> \in Seq(Products \cup {Foreign}) /\ Len(<<>>) = 0
    OBVIOUS
  <1>3. ASSUME NEW links \in Seq(Products \cup {Foreign}), Len(links) = 0
        PROVE  Merge(known, links) = known
    <2>1. PICK G \in [0 .. Len(links) -> Seq(Products)] : G[0] = known /\ Merge(known, links) = G[Len(links)]
      BY <1>3, MergeTrace
    <2>2. QED
      BY <1>3, <2>1
  <1>4. QED
    BY <1>1, <1>2, <1>3

\* A round of the double leaves a double.
LEMMA RoundType ==
  ASSUME NEW d \in Doubling, NEW seen \in Looks
  PROVE  DoubleRound(d, seen) \in Doubling
  <1> DEFINE known == Merge(Merge(d.known, Prefix(seen[1])), Prefix(seen[2]))
             idle  == IF Len(known) = Len(d.known) THEN d.idle + 1 ELSE 0
             reason == CASE Len(known) >= MaxProducts -> "MAX_PRODUCTS_REACHED"
                         [] Len(known) < MaxProducts /\ idle >= IdleLimit -> "NO_NEW_PRODUCTS"
                         [] OTHER -> "none"
  <1>1. d.known \in Seq(Products) /\ seen[1] \in 0 .. Len(Feed) /\ seen[2] \in 0 .. Len(Feed)
        /\ d.idle \in Nat /\ d.rounds \in Nat
    BY DEF Doubling, Looks
  <1>2. Prefix(seen[1]) \in Seq(Products \cup {Foreign}) /\ Prefix(seen[2]) \in Seq(Products \cup {Foreign})
    BY <1>1, PrefixFacts
  <1>3. Merge(d.known, Prefix(seen[1])) \in Seq(Products)
    BY <1>1, <1>2, MergeType
  <1>4. known \in Seq(Products)
    BY <1>2, <1>3, MergeType
  <1>5. DoubleRound(d, seen) = IF d.reason # "none" THEN d
          ELSE [known |-> known, idle |-> idle, rounds |-> d.rounds + 1, reason |-> reason]
    BY DEF DoubleRound
  <1> HIDE DEF known
  <1>6. idle \in Nat /\ d.rounds + 1 \in Nat
    BY <1>1
  <1>7. reason \in Reasons
    BY DEF Reasons
  <1> HIDE DEF idle, reason
  <1>8. QED
    BY <1>4, <1>5, <1>6, <1>7 DEF Doubling

\* A round as a function has the type its fold needs.
LEMMA DoubleType == DoubleStep \in [Doubling \X Looks -> Doubling]
  <1>1. ASSUME NEW p \in Doubling \X Looks
        PROVE  DoubleRound(p[1], p[2]) \in Doubling
    BY RoundType
  <1>2. QED
    BY <1>1 DEF DoubleStep

\* The double's rounds one after the other.
LEMMA DoubleTrace ==
  ASSUME NEW looks \in Seq(Looks)
  PROVE  HasTrace(Doubling, DoubleStep, FirstDouble, looks, Doubled(looks))
  <1> DEFINE A == Doubling
             S == Looks
             F == DoubleStep
             n == Len(looks)
             Step(it, s) == IF s = {} THEN FirstDouble
                            ELSE DoubleRound(it[s \ {Max(s)}], looks[Max(s)])
             h == CHOOSE it : it = [s \in SUBSET DOMAIN looks |-> Step(it, s)]
  <1>1. /\ FirstDouble \in A /\ looks \in Seq(S) /\ n \in Nat
        /\ DOMAIN looks = 1 .. n /\ \A i \in 1 .. n : looks[i] \in S
    BY DEF Doubling, FirstDouble, Reasons
  <1>2. F \in [A \X S -> A]
    BY DoubleType
  <1>4. ASSUME NEW s \in SUBSET (1 .. n), s # {}, NEW a \in A
        PROVE  F[<<a, looks[Max(s)]>>] = DoubleRound(a, looks[Max(s)])
    <2>1. Max(s) \in s
      BY <1>1, <1>4, MaxOf
    <2>2. <<a, looks[Max(s)]>> \in A \X S
      <3> HIDE DEF A, S
      <3>1. QED
        BY <1>1, <2>1
    <2>3. QED
      BY <2>2 DEF DoubleStep
  <1>5. h = [s \in SUBSET DOMAIN looks |-> Step(h, s)]
    <2>1. PICK it \in [SUBSET (1 .. n) -> A] : Folds(it, F, FirstDouble, looks)
      <3> HIDE DEF F, A, S
      <3>1. QED
        BY <1>1, <1>2, FoldExists
    <2>2. ASSUME NEW s \in SUBSET (1 .. n)
          PROVE  it[s] = Step(it, s)
      <3>1. it[s \ {Max(s)}] \in A
        BY <2>1
      <3> HIDE DEF F, A, S
      <3>2. QED
        BY <1>4, <2>1, <3>1 DEF Folds
    <2>3. it = [s \in SUBSET DOMAIN looks |-> Step(it, s)]
      <3> HIDE DEF Step, n
      <3>1. QED
        BY <1>1, <2>1, <2>2
    <2> HIDE DEF Step
    <2>4. QED
      BY <2>3
  <1>6. Doubled(looks) = h[1 .. n]
    <2>1. Doubled(looks) = h[DOMAIN looks]
      BY DEF Doubled, FoldLeft, MapThenFoldSet
    <2> HIDE DEF h
    <2>2. QED
      BY <1>1, <2>1
  <1> HIDE DEF h
  <1>7. FoldsIn(h, A, F, FirstDouble, looks)
    <2>1. h[{}] = FirstDouble
      BY <1>5
    <2>2. ASSUME NEW s \in SUBSET (1 .. n), s # {}, h[s \ {Max(s)}] \in A
          PROVE  h[s] = F[<<h[s \ {Max(s)}], looks[Max(s)]>>]
      <3>1. h[s] = Step(h, s)
        <4> HIDE DEF Step, n
        <4>1. QED
          BY <1>1, <1>5
      <3> HIDE DEF F, A, S
      <3>2. QED
        BY <1>4, <2>2, <3>1
    <2> HIDE DEF F, A, S
    <2>3. QED
      BY <2>1, <2>2 DEF FoldsIn
  <1>8. HasTrace(A, F, FirstDouble, looks, h[1 .. n])
    <2> HIDE DEF F, A, S
    <2>1. QED
      BY <1>1, <1>2, <1>7, FoldValue
  <1>9. QED
    BY <1>6, <1>8

\* The double of no look is the first one, and another look is another round.
LEMMA DoubleFacts ==
  /\ Doubled(<<>>) = FirstDouble
  /\ \A looks \in Seq(Looks) : Doubled(looks) \in Doubling
  /\ \A looks \in Seq(Looks), seen \in Looks :
       Doubled(Append(looks, seen)) = DoubleRound(Doubled(looks), seen)
  <1>1. <<>> \in Seq(Looks)
    OBVIOUS
  <1>2. Doubled(<<>>) = FirstDouble
    BY <1>1, DoubleTrace, FoldOfNone
  <1>3. ASSUME NEW looks \in Seq(Looks)
        PROVE  Doubled(looks) \in Doubling
    <2>1. PICK G \in [0 .. Len(looks) -> Doubling] : Doubled(looks) = G[Len(looks)]
      BY DoubleTrace DEF HasTrace
    <2>2. Len(looks) \in 0 .. Len(looks)
      OBVIOUS
    <2>3. QED
      BY <2>1, <2>2
  <1>4. ASSUME NEW looks \in Seq(Looks), NEW seen \in Looks
        PROVE  Doubled(Append(looks, seen)) = DoubleRound(Doubled(looks), seen)
    <2>1. Append(looks, seen) \in Seq(Looks)
      OBVIOUS
    <2>2. HasTrace(Doubling, DoubleStep, FirstDouble, looks, Doubled(looks))
      BY DoubleTrace
    <2>3. HasTrace(Doubling, DoubleStep, FirstDouble, Append(looks, seen), Doubled(Append(looks, seen)))
      BY <2>1, DoubleTrace
    <2>4. Doubled(Append(looks, seen)) = DoubleStep[<<Doubled(looks), seen>>]
      BY <2>2, <2>3, FoldOfMore
    <2>5. <<Doubled(looks), seen>> \in Doubling \X Looks
      BY <1>3
    <2>6. QED
      BY <2>4, <2>5 DEF DoubleStep
  <1>5. QED
    BY <1>2, <1>3, <1>4

\* The rounds the double has seen when a round is at its second look, and what
\* the first look of that round found.
ScrollsFrom(s, x) ==
  /\ sights = Append(s, <<x, 0>>)
  /\ disc.known = Merge(Doubled(s).known, Prefix(x))
  /\ disc.before = Len(Doubled(s).known)
  /\ Doubled(s).idle = disc.idle /\ Doubled(s).rounds + 1 = disc.round
  /\ Doubled(s).reason = "none"

\* Between rounds the double is where the scrolling is; within one it is where
\* the scrolling was when it began.
DoubleInv ==
  /\ disc.pc = "look" =>
       /\ disc.reason = "none"
       /\ Doubled(sights) = [known |-> disc.known, idle |-> disc.idle, rounds |-> disc.round, reason |-> "none"]
  /\ disc.pc = "scroll" => \E s \in Seq(Looks), x \in 0 .. Len(Feed) : ScrollsFrom(s, x)
  /\ DoubleAgrees

\* A discovery that begins has scrolled nothing.
LEMMA DoubleBegun ==
  ASSUME DiscoveryBegins
  PROVE  DoubleInv'
  <1>1. \/ \E mode \in Modes : Begin(mode)
        \/ \E lines \in UrlFiles : DiscoverUrls(lines)
    BY DEF DiscoveryBegins, DiscoverByHand, DiscoveryStarts, JobDiscover, DiscoverSearch, CategoryCommand,
           DiscoverCategory, Modes
  <1>2. CASE \E mode \in Modes : Begin(mode)
    <2>1. /\ disc'.pc = "look" /\ disc'.known = <<>> /\ disc'.idle = 0 /\ disc'.round = 0
          /\ disc'.reason = "none" /\ sights' = <<>>
      BY <1>2, FirstDiscovery DEF Begin, NoDiscovery
    <2>2. Doubled(sights') = [known |-> <<>>, idle |-> 0, rounds |-> 0, reason |-> "none"]
      BY <2>1, DoubleFacts DEF FirstDouble
    <2>3. QED
      BY <2>1, <2>2 DEF DoubleInv, DoubleAgrees, Doubled, FirstDouble
  <1>3. CASE \E lines \in UrlFiles : DiscoverUrls(lines)
    <2>1. disc'.pc = "csv"
      BY <1>3 DEF DiscoverUrls, NoDiscovery
    <2>2. QED
      BY <2>1 DEF DoubleInv, DoubleAgrees
  <1>4. QED
    BY <1>1, <1>2, <1>3

\* How the double ends, read off its last round.
LEMMA DoubleRead ==
  Double = [products |-> Cut(Doubled(sights).known), rounds |-> Doubled(sights).rounds,
            reason |-> IF Doubled(sights).reason = "none" THEN "SCROLL_LIMIT_REACHED"
                       ELSE Doubled(sights).reason]
  BY DEF Double, Doubled, FirstDouble

\* The same of the next state.
LEMMA DoubleReadNext ==
  (Double = [products |-> Cut(Doubled(sights).known), rounds |-> Doubled(sights).rounds,
             reason |-> IF Doubled(sights).reason = "none" THEN "SCROLL_LIMIT_REACHED"
                        ELSE Doubled(sights).reason])'
  BY DoubleRead, PTL

\* A look of the loop is the first half of a round of the double.
LEMMA DoubleLook ==
  ASSUME DiscType, DoubleInv, Look
  PROVE  DoubleInv'
  <1> DEFINE d     == Doubled(sights)
             known == Merge(disc.known, Prefix(shown))
             full  == Len(known) >= MaxProducts
  <1>1. /\ disc.pc = "look" /\ disc'.pc = IF full THEN "close" ELSE "scroll"
        /\ disc'.known = known /\ disc'.before = Len(disc.known) /\ disc'.idle = disc.idle
        /\ disc'.round = disc.round + 1
        /\ disc'.reason = IF full THEN "MAX_PRODUCTS_REACHED" ELSE disc.reason
        /\ sights' = Append(sights, <<shown, 0>>)
    BY DEF Look, DiscType, Discovering
  <1>2. d = [known |-> disc.known, idle |-> disc.idle, rounds |-> disc.round, reason |-> "none"]
    BY <1>1 DEF DoubleInv
  <1>3. /\ d.known = disc.known /\ d.idle = disc.idle /\ d.rounds = disc.round /\ d.reason = "none"
    BY <1>2
  <1>4. sights \in Seq(Looks) /\ shown \in 0 .. Len(Feed) /\ 0 \in 0 .. Len(Feed)
        /\ known \in Seq(Products)
    BY LookFacts, DiscoveryAssumption DEF DiscType
  <1> HIDE DEF d, known
  <1>5. CASE full
    <2>1. <<shown, 0>> \in Looks
      BY <1>4 DEF Looks
    <2>2. Doubled(sights') = DoubleRound(d, <<shown, 0>>)
      BY <1>1, <1>4, <2>1, DoubleFacts DEF d
    <2>3. Merge(Merge(d.known, Prefix(shown)), Prefix(0)) = known
      BY <1>3, <1>4, MergeNone DEF known
    <2> DEFINE seen  == <<shown, 0>>
               found == Merge(Merge(d.known, Prefix(seen[1])), Prefix(seen[2]))
               idle  == IF Len(found) = Len(d.known) THEN d.idle + 1 ELSE 0
    <2>7. found = known
      BY <2>3
    <2>8. DoubleRound(d, seen) = [known |-> found, idle |-> idle, rounds |-> d.rounds + 1,
             reason |-> CASE Len(found) >= MaxProducts -> "MAX_PRODUCTS_REACHED"
                          [] Len(found) < MaxProducts /\ idle >= IdleLimit -> "NO_NEW_PRODUCTS"
                          [] OTHER -> "none"]
      BY <1>3 DEF DoubleRound
    <2>9. Len(known) \in Nat /\ MaxProducts \in Nat
      BY <1>4, DiscoveryAssumption
    <2>4. /\ Doubled(sights').known = known /\ Doubled(sights').rounds = disc.round + 1
          /\ Doubled(sights').reason = "MAX_PRODUCTS_REACHED"
      <3> HIDE DEF found, idle
      <3>1. QED
        BY <1>3, <1>5, <2>2, <2>7, <2>8, <2>9
    <2>5. Double' = [products |-> Cut(known), rounds |-> disc.round + 1, reason |-> "MAX_PRODUCTS_REACHED"]
      BY <2>4, DoubleReadNext DEF Doubled, Cut
    <2>6. QED
      BY <1>1, <1>5, <2>5 DEF DoubleInv, DoubleAgrees, Cut
  <1>6. CASE ~full
    <2>1. /\ sights' = Append(sights, <<shown, 0>>)
          /\ disc'.known = Merge(Doubled(sights).known, Prefix(shown))
          /\ disc'.before = Len(Doubled(sights).known) /\ Doubled(sights).idle = disc'.idle
          /\ Doubled(sights).rounds + 1 = disc'.round /\ Doubled(sights).reason = "none"
      BY <1>1, <1>3 DEF d, known
    <2>2. disc'.pc = "scroll"
      BY <1>1, <1>6
    <2>3. PICK s \in Seq(Looks), x \in 0 .. Len(Feed) : s = sights /\ x = shown
      BY <1>4
    <2>4. ScrollsFrom(s, x)'
      BY <2>1, <2>3 DEF ScrollsFrom
    <2>5. (\E y \in Seq(Looks), z \in 0 .. Len(Feed) : ScrollsFrom(y, z))'
      BY <2>4
    <2>6. QED
      BY <2>2, <2>5 DEF DoubleInv, DoubleAgrees
  <1>7. QED
    BY <1>5, <1>6

\* The look after the scroll is the second half.
LEMMA DoubleLookAgain ==
  ASSUME DiscType, DoubleInv, LookAgain
  PROVE  DoubleInv'
  <1> DEFINE known  == Merge(disc.known, Prefix(shown))
             idle   == IdleRounds(known)
             reason == StopReason(known, idle)
  <1>1. /\ disc.pc = "scroll" /\ disc'.pc = IF reason = "none" THEN "look" ELSE "close"
        /\ disc'.known = known /\ disc'.idle = idle /\ disc'.reason = reason /\ disc'.round = disc.round
        /\ sights' = [sights EXCEPT ![Len(sights)][2] = shown]
    BY DEF LookAgain, DiscType, Discovering
  <1>2. PICK s \in Seq(Looks), x \in 0 .. Len(Feed) :
         /\ sights = Append(s, <<x, 0>>)
         /\ disc.known = Merge(Doubled(s).known, Prefix(x))
         /\ disc.before = Len(Doubled(s).known)
         /\ Doubled(s).idle = disc.idle /\ Doubled(s).rounds + 1 = disc.round
         /\ Doubled(s).reason = "none"
    BY <1>1 DEF DoubleInv, ScrollsFrom
  <1>3. shown \in 0 .. Len(Feed) /\ <<x, shown>> \in Looks /\ <<x, 0>> \in Looks
    BY DiscoveryAssumption DEF DiscType, Looks
  <1>4. sights' = Append(s, <<x, shown>>)
    <2>1. Len(sights) = Len(s) + 1 /\ Len(s) \in Nat /\ sights[Len(s) + 1] = <<x, 0>>
      BY <1>2
    <2>2. [<<x, 0>> EXCEPT ![2] = shown] = <<x, shown>>
      OBVIOUS
    <2>3. sights' = [sights EXCEPT ![Len(s) + 1] = <<x, shown>>]
      BY <1>1, <2>1, <2>2
    <2>4. sights \in Seq(Looks) /\ Append(s, <<x, shown>>) \in Seq(Looks)
          /\ DOMAIN sights = 1 .. Len(s) + 1
      BY <1>2, <1>3, <2>1
    <2>5. sights' = [i \in 1 .. Len(s) + 1 |-> IF i = Len(s) + 1 THEN <<x, shown>> ELSE sights[i]]
      BY <2>3, <2>4
    <2>8. \A i \in 1 .. Len(s) : sights[i] = s[i]
      BY <1>2, <2>1
    <2>6. Append(s, <<x, shown>>) = [i \in 1 .. Len(s) + 1 |-> IF i = Len(s) + 1 THEN <<x, shown>> ELSE s[i]]
      BY <1>3, <2>1
    <2>7. QED
      BY <2>1, <2>5, <2>6, <2>8
  <1>5. Doubled(sights') = DoubleRound(Doubled(s), <<x, shown>>)
    BY <1>3, <1>4, DoubleFacts
  <1> DEFINE again == CASE Len(known) >= MaxProducts -> "MAX_PRODUCTS_REACHED"
                        [] Len(known) < MaxProducts /\ idle >= IdleLimit -> "NO_NEW_PRODUCTS"
                        [] OTHER -> "none"
  <1>6. idle = IF Len(known) = Len(Doubled(s).known) THEN Doubled(s).idle + 1 ELSE 0
    BY <1>2 DEF IdleRounds
  <1>7. Doubled(sights') = [known |-> known, idle |-> idle, rounds |-> disc.round, reason |-> again]
    BY <1>2, <1>5, <1>6 DEF DoubleRound
  <1>8. reason = IF again = "none" /\ disc.round >= MaxScrolls THEN "SCROLL_LIMIT_REACHED" ELSE again
    <2>1. Len(known) \in Nat /\ MaxProducts \in Nat /\ idle \in Nat /\ IdleLimit \in Nat
      BY LookFacts, DiscoveryAssumption DEF DiscType, Discovering, IdleRounds
    <2> HIDE DEF known, idle
    <2>2. QED
      BY <2>1 DEF StopReason
  <1> HIDE DEF known, idle, reason, again
  <1>9. /\ Doubled(sights').known = known /\ Doubled(sights').rounds = disc.round
        /\ Doubled(sights').reason = again
    BY <1>7
  <1>10. CASE reason = "none"
    BY <1>1, <1>7, <1>8, <1>10 DEF DoubleInv, DoubleAgrees, Doubled
  <1>11. CASE reason # "none"
    <2>1. Double' = [products |-> Cut(known), rounds |-> disc.round, reason |-> reason]
      BY <1>8, <1>9, <1>11, DoubleReadNext DEF Doubled, Cut
    <2>2. QED
      BY <1>1, <1>11, <2>1 DEF DoubleInv, DoubleAgrees, Cut
  <1>12. QED
    BY <1>10, <1>11

\* Steps that leave the loop and its looks alone.
LEMMA DoubleIdles ==
  ASSUME DoubleInv, UNCHANGED <<disc, sights>>
  PROVE  DoubleInv'
  <1>1. Double' = Double
    BY DEF Double
  <1>2. ASSUME disc.pc = "scroll"
        PROVE  (\E s \in Seq(Looks), x \in 0 .. Len(Feed) : ScrollsFrom(s, x))'
    <2>1. PICK s \in Seq(Looks), x \in 0 .. Len(Feed) : ScrollsFrom(s, x)
      BY <1>2 DEF DoubleInv
    <2>2. ScrollsFrom(s, x)'
      BY <2>1 DEF ScrollsFrom
    <2>3. QED
      BY <2>2
  <1>3. ASSUME disc.pc = "look"
        PROVE  (/\ disc.reason = "none"
                /\ Doubled(sights) = [known |-> disc.known, idle |-> disc.idle, rounds |-> disc.round, reason |-> "none"])'
    <2>1. Doubled(sights)' = Doubled(sights)
      OBVIOUS
    <2>2. QED
      BY <1>3, <2>1 DEF DoubleInv
  <1>4. ASSUME disc.pc = "close"
        PROVE  ([products |-> Cut(disc.known), rounds |-> disc.round, reason |-> disc.reason])'
                = [products |-> Cut(disc.known), rounds |-> disc.round, reason |-> disc.reason]
    BY DEF Cut
  <1>5. QED
    BY <1>1, <1>2, <1>3, <1>4 DEF DoubleInv, DoubleAgrees

\* Every step keeps the loop in step with its double.
LEMMA DoubleStepKept == DiscType /\ DoubleInv /\ [BatchNext]_batchVars => DoubleInv'
  <1> SUFFICES ASSUME DiscType, DoubleInv, BatchNext \/ UNCHANGED batchVars
               PROVE  DoubleInv'
    OBVIOUS
  <1>1. CASE DiscoveryBegins
    BY <1>1, DoubleBegun
  <1>2. CASE Look \/ LookAgain
    BY <1>2, DoubleLook, DoubleLookAgain
  <1>3. CASE PageLoads
    <2>1. disc' = disc /\ sights' = sights
      BY <1>3 DEF PageLoads
    <2>2. QED
      BY <2>1, DoubleIdles
  <1>4. CASE \/ SearchFails \/ CategoryFails \/ SearchConcludes \/ CategoryConcludes
             \/ OpenDiscoveryCsv \/ WriteDiscoveryCsv \/ WriteDiscoveryManifest
             \/ AppendDiscoveryFailures \/ DiscoveryDies
    <2>1. disc'.pc \in {"csv", "list", "manifest", "failures", "idle"}
      BY <1>4, ScrollingEnds
    <2>2. QED
      BY <2>1 DEF DoubleInv, DoubleAgrees
  <1>5. CASE ~DiscoveryBegins /\ ~(DiscoverySteps \/ DiscoveryDies)
    <2>1. disc' = disc /\ sights' = sights
      BY <1>5, DiscoveryElsewhere DEF Elsewhere
    <2>2. QED
      BY <2>1, DoubleIdles
  <1>6. QED
    BY <1>1, <1>2, <1>3, <1>4, <1>5 DEF DiscoverySteps

\* The scrolling and simulate_scroll_discovery, the double the unit tests run in
\* its place (discovery/page_scroller.py), end with the same products, the same number of
\* rounds and the same reason, however the links of the page load.
THEOREM DoubleStaysInStep == BatchSpec => []DoubleAgrees
  <1>1. BatchInit => DoubleInv
    <2>1. BatchInit => disc.pc = "idle"
      BY FirstDiscovery DEF BatchInit, DiscoveryInit
    <2>2. QED
      BY <2>1 DEF DoubleInv, DoubleAgrees
  <1>2. DoubleInv => DoubleAgrees
    BY DEF DoubleInv
  <1>3. QED
    BY <1>1, <1>2, DoubleStepKept, DiscTypeInit, DiscTypeStep, PTL DEF BatchSpec

-----------------------------------------------------------------------------
(* Rows, and the images they name.                                         *)

\* A sequence of n things of a set.
LEMMA Listing ==
  ASSUME NEW S, NEW n \in Nat, NEW s, s = [i \in 1 .. n |-> s[i]], \A i \in 1 .. n : s[i] \in S
  PROVE  s \in Seq(S) /\ Len(s) = n
  OBVIOUS

\* Where an image of a page is kept.
Path == Products \X Nat \X Images

\* The record of a page names the images the page has, each by its place.
LEMMA RecordFacts ==
  ASSUME NEW r \in Records
  PROVE  /\ r.dom \in Doms /\ r.paths \in Seq(Path)
         /\ \A i, j \in 1 .. Len(r.paths) : r.paths[i] = r.paths[j] => i = j
  <1>1. PICK q \in Products : \E page \in Pages[q] : r = RecordOf(q, page)
    BY DEF Records, RecordsOf
  <1>12. PICK page \in Pages[q] : r = RecordOf(q, page)
    BY <1>1
  <1>2. page \in Page
    BY PagesAssumption
  <1> DEFINE contents == Candidates(page)
  <1>3. contents \in Seq(Images)
    <2>1. page.preferred \in Seq(Images) /\ page.fallback \in Seq(Images)
      BY <1>2 DEF Page
    <2> DEFINE n == IF Len(page.fallback) < 5 THEN Len(page.fallback) ELSE 5
    <2>2. SubSeq(page.fallback, 1, n) \in Seq(Images)
      BY <2>1
    <2>3. QED
      BY <2>1, <2>2 DEF Candidates
  <1> HIDE DEF contents
  <1>4. Distinct(contents) \in Seq(Images)
    <2>1. PICK G \in [0 .. Len(contents) -> Seq(Images)] : Distinct(contents) = G[Len(contents)]
      BY <1>3, DistinctTrace
    <2>2. Len(contents) \in 0 .. Len(contents)
      BY <1>3
    <2>3. QED
      BY <2>1, <2>2
  <1> DEFINE kept  == Distinct(contents)
             paths == [i \in 1 .. Len(kept) |-> <<q, i, kept[i]>>]
  <1>5. r.paths = paths /\ r.dom = page.dom
    BY <1>12 DEF RecordOf, Downloaded, contents
  <1>6. page.dom \in Doms
    BY <1>2 DEF Page
  <1> HIDE DEF kept
  <1>7. kept \in Seq(Images) /\ Len(kept) \in Nat
    BY <1>4 DEF kept
  <1>8. \A i \in 1 .. Len(kept) : <<q, i, kept[i]>> \in Path
    BY <1>7 DEF Path
  <1>9. paths \in Seq(Path) /\ Len(paths) = Len(kept)
    BY <1>7, <1>8
  <1>10. \A i, j \in 1 .. Len(paths) : paths[i] = paths[j] => i = j
    BY <1>9
  <1>11. QED
    BY <1>5, <1>6, <1>9, <1>10

\* The images of a product's record are its own, each by its place.
LEMMA OwnPaths ==
  ASSUME NEW q \in Products, NEW r \in RecordsOf(q)
  PROVE  /\ r \in Records /\ r.paths \in Seq(Path) /\ Len(r.paths) \in Nat
         /\ \A i \in 1 .. Len(r.paths) : r.paths[i][1] = q /\ r.paths[i][2] = i
  <1>1. r \in Records
    BY DEF Records
  <1>2. r.paths \in Seq(Path) /\ Len(r.paths) \in Nat
    BY <1>1, RecordFacts
  <1>3. PICK page \in Pages[q] : r = RecordOf(q, page)
    BY DEF RecordsOf
  <1> DEFINE kept == Distinct(Candidates(page))
  <1>4. r.paths = [i \in 1 .. Len(kept) |-> <<q, i, kept[i]>>]
    BY <1>3 DEF RecordOf, Downloaded
  <1> HIDE DEF kept
  <1>5. DOMAIN r.paths = 1 .. Len(r.paths)
    BY <1>2
  <1>6. \A i \in 1 .. Len(r.paths) : r.paths[i] = <<q, i, kept[i]>>
    BY <1>4, <1>5
  <1>7. QED
    BY <1>1, <1>2, <1>6

\* The rows of a record: one for each of its images, or one of its product.
LEMMA RowsOfFacts ==
  ASSUME NEW q \in Products, NEW r \in Records
  PROVE  /\ RowsOf(q, r) \in Seq(CrawledRow)
         /\ \A row \in ToSet(RowsOf(q, r)) :
              row.product = q /\ (row.path # NoImage => row.path \in ToSet(r.paths))
         /\ KeysOnce(RowsOf(q, r))
  <1>1. /\ r.dom \in Doms /\ r.paths \in Seq(Path) /\ Len(r.paths) \in Nat
        /\ \A i, j \in 1 .. Len(r.paths) : r.paths[i] = r.paths[j] => i = j
    BY RecordFacts
  <1>2. CASE r.paths = <<>>
    <2> DEFINE row == [product |-> q, path |-> NoImage, dom |-> r.dom]
    <2>1. RowsOf(q, r) = <<row>> /\ row \in CrawledRow
      BY <1>1, <1>2 DEF RowsOf, CrawledRow
    <2>2. row.product = q /\ row.path = NoImage
      OBVIOUS
    <2> HIDE DEF row
    <2>3. <<row>> \in Seq(CrawledRow) /\ Len(<<row>>) = 1 /\ ToSet(<<row>>) = {row}
      BY <2>1 DEF ToSet
    <2>4. QED
      BY <2>1, <2>2, <2>3 DEF KeysOnce
  <1>3. CASE r.paths # <<>>
    <2> DEFINE rows == [i \in 1 .. Len(r.paths) |-> [product |-> q, path |-> r.paths[i], dom |-> r.dom]]
    <2>1. RowsOf(q, r) = rows
      BY <1>3 DEF RowsOf
    <2>2. \A i \in 1 .. Len(r.paths) : /\ rows[i] \in CrawledRow /\ rows[i].product = q
                                       /\ rows[i].path = r.paths[i]
      BY <1>1 DEF CrawledRow, Path
    <2>8. rows = [i \in 1 .. Len(r.paths) |-> rows[i]]
      OBVIOUS
    <2> HIDE DEF rows
    <2>3. rows \in Seq(CrawledRow) /\ Len(rows) = Len(r.paths)
      BY <1>1, <2>2, <2>8, Listing
    <2>4. DOMAIN rows = 1 .. Len(r.paths) /\ DOMAIN r.paths = 1 .. Len(r.paths)
      BY <1>1, <2>3
    <2>5. \A row \in ToSet(rows) : row.product = q /\ row.path \in ToSet(r.paths)
      BY <2>2, <2>4 DEF ToSet
    <2>6. KeysOnce(rows)
      BY <1>1, <2>2, <2>3 DEF KeysOnce, RowKey
    <2>7. QED
      BY <2>1, <2>3, <2>5, <2>6
  <1>4. QED
    BY <1>2, <1>3

\* The elements of t are those of s and e.
Joined(t, s, e) == ToSet(t) = ToSet(s) \cup {e}

\* Appending joins one thing.
LEMMA Joins ==
  ASSUME NEW S, NEW s \in Seq(S), NEW e
  PROVE  Joined(Append(s, e), s, e)
  <1> DEFINE t == Append(s, e)
  <1>1. /\ t \in Seq(S \cup {e}) /\ Len(s) \in Nat /\ Len(t) = Len(s) + 1
        /\ \A i \in 1 .. Len(s) : t[i] = s[i]
        /\ t[Len(s) + 1] = e
    BY Longer
  <1> HIDE DEF t
  <1>2. DOMAIN t = 1 .. Len(s) + 1 /\ DOMAIN s = 1 .. Len(s)
    BY <1>1
  <1>3. \A i \in DOMAIN t : i \in DOMAIN s \/ i = Len(s) + 1
    BY <1>1, <1>2
  <1>4. Len(s) + 1 \in DOMAIN t /\ \A i \in DOMAIN s : i \in DOMAIN t
    BY <1>1, <1>2
  <1>5. QED
    BY <1>1, <1>2, <1>3, <1>4 DEF Joined, ToSet, t

\* What the merging of rows comes to (collect_details).
LEMMA MergeRowsFacts ==
  ASSUME NEW E, NEW file \in Seq(E), NEW rows \in Seq(E)
  PROVE  /\ MergeRows(file, rows) \in Seq(E)
         /\ ToSet(file) \subseteq ToSet(MergeRows(file, rows))
         /\ ToSet(MergeRows(file, rows)) \subseteq ToSet(file) \cup ToSet(rows)
         /\ KeysOf(rows) \subseteq KeysOf(MergeRows(file, rows))
         /\ KeysOnce(file) => KeysOnce(MergeRows(file, rows))
  <1> DEFINE n == Len(rows)
  <1>1. PICK G \in [0 .. n -> Seq(E)] :
           /\ G[0] = file
           /\ \A k \in 0 .. n - 1 : G[k + 1] = IF RowKey(rows[k + 1]) \in KeysOf(G[k])
                                              THEN G[k] ELSE Append(G[k], rows[k + 1])
           /\ MergeRows(file, rows) = G[n]
    BY MergeRowsTrace
  <1>2. n \in Nat /\ DOMAIN rows = 1 .. n
    OBVIOUS
  <1> DEFINE Good1(m, k) == /\ ToSet(file) \subseteq ToSet(m)
                            /\ ToSet(m) \subseteq ToSet(file) \cup ToSet(rows)
                            /\ \A i \in 1 .. k : RowKey(rows[i]) \in KeysOf(m)
                            /\ KeysOnce(file) => KeysOnce(m)
             T == {k \in 0 .. n : Good1(G[k], k)}
  <1>3. 0 \in T
    <2>1. 0 \in 0 .. n /\ \A i \in 1 .. 0 : FALSE
      BY <1>2
    <2>2. QED
      BY <1>1, <2>1
  <1>4. ASSUME NEW k \in 0 .. n, k < n, k \in T
        PROVE  k + 1 \in T
    <2> DEFINE m == G[k]
               e == rows[k + 1]
               t == Append(m, e)
    <2>1. /\ k \in 0 .. n - 1 /\ k + 1 \in 1 .. n /\ k + 1 \in 0 .. n /\ m \in Seq(E) /\ k \in Nat
          /\ \A i \in 1 .. k + 1 : i \in 1 .. k \/ i = k + 1
      BY <1>1, <1>2, <1>4
    <2>7. m \in Seq(E)
      BY <2>1
    <2>2. Good1(m, k)
      BY <1>4
    <2>3. e \in ToSet(rows)
      BY <1>2, <2>1 DEF ToSet
    <2>4. CASE RowKey(e) \in KeysOf(m)
      <3>1. G[k + 1] = m
        BY <1>1, <2>1, <2>4
      <3> HIDE DEF m
      <3>2. Good1(m, k + 1)
        BY <2>1, <2>2, <2>4
      <3>3. QED
        BY <2>1, <3>1, <3>2
    <2>5. CASE RowKey(e) \notin KeysOf(m)
      <3>1. G[k + 1] = t
        BY <1>1, <2>1, <2>5
      <3>2. /\ Len(m) \in Nat /\ Len(t) = Len(m) + 1
            /\ \A i \in 1 .. Len(m) : t[i] = m[i]
            /\ t[Len(m) + 1] = e /\ ToSet(t) = ToSet(m) \cup {e}
        <4> HIDE DEF m, e
        <4>1. Len(m) \in Nat /\ Len(Append(m, e)) = Len(m) + 1
          BY <2>7, Longer
        <4>2. \A i \in 1 .. Len(m) : Append(m, e)[i] = m[i]
          BY <2>7, Longer
        <4>3. Append(m, e)[Len(m) + 1] = e
          BY <2>7, Longer
        <4>4. ToSet(Append(m, e)) = ToSet(m) \cup {e}
          BY <2>7, Joins DEF Joined
        <4>5. QED
          BY <4>1, <4>2, <4>3, <4>4
      <3>3. DOMAIN m = 1 .. Len(m)
        BY <2>1
      <3> HIDE DEF m, t, e
      <3>4. KeysOf(t) = KeysOf(m) \cup {RowKey(e)}
        BY <3>2 DEF KeysOf
      <3>5. \A i \in 1 .. k + 1 : RowKey(rows[i]) \in KeysOf(t)
        BY <2>1, <2>2, <3>4 DEF e
      <3>6. KeysOnce(m) => KeysOnce(t)
        <4> SUFFICES ASSUME KeysOnce(m)
                     PROVE  KeysOnce(t)
          OBVIOUS
        <4>1. \A i \in 1 .. Len(m) : RowKey(m[i]) # RowKey(e)
          BY <2>5, <3>3 DEF KeysOf, ToSet
        <4>2. \A i \in 1 .. Len(t) : i \in 1 .. Len(m) \/ i = Len(m) + 1
          BY <3>2
        <4>3. QED
          BY <3>2, <4>1, <4>2 DEF KeysOnce
      <3>7. Good1(t, k + 1)
        BY <2>2, <2>3, <3>2, <3>5, <3>6
      <3>8. QED
        BY <2>1, <3>1, <3>7
    <2>6. QED
      BY <2>4, <2>5
  <1>5. n \in T
    <2> HIDE DEF T, n
    <2>1. \A k \in 0 .. n : k \in T
      BY <1>2, <1>3, <1>4, UpTo
    <2>2. QED
      BY <1>2, <2>1
  <1>6. Good1(G[n], n)
    BY <1>5
  <1>7. KeysOf(rows) \subseteq KeysOf(G[n])
    BY <1>2, <1>6 DEF KeysOf, ToSet
  <1>8. n \in 0 .. n
    BY <1>2
  <1>9. QED
    BY <1>1, <1>6, <1>7, <1>8

\* Rows after rows.
LEMMA JoinFacts ==
  ASSUME NEW E, NEW s \in Seq(E), NEW t \in Seq(E)
  PROVE  /\ s \o t \in Seq(E) /\ ToSet(s \o t) = ToSet(s) \cup ToSet(t)
         /\ KeysOf(s \o t) = KeysOf(s) \cup KeysOf(t)
         /\ KeysOnce(s) /\ KeysOnce(t) /\ KeysOf(s) \cap KeysOf(t) = {} => KeysOnce(s \o t)
  <1> DEFINE j == s \o t
             m == Len(s)
             n == Len(t)
  <1>1. /\ j \in Seq(E) /\ m \in Nat /\ n \in Nat /\ Len(j) = m + n
        /\ \A i \in 1 .. m : j[i] = s[i]
        /\ \A i \in 1 .. n : j[m + i] = t[i]
    OBVIOUS
  <1>2. DOMAIN s = 1 .. m /\ DOMAIN t = 1 .. n
    OBVIOUS
  <1> HIDE DEF j
  <1>3. DOMAIN j = 1 .. m + n
    BY <1>1
  <1> HIDE DEF m, n
  <1>4. \A i \in 1 .. m + n : i \in 1 .. m \/ (i - m \in 1 .. n /\ i = m + (i - m))
    BY <1>1
  <1>5. (\A i \in 1 .. m : i \in 1 .. m + n) /\ \A i \in 1 .. n : m + i \in 1 .. m + n
    BY <1>1
  <1>6. ToSet(j) = ToSet(s) \cup ToSet(t)
    <2>1. ASSUME NEW e \in ToSet(j)
          PROVE  e \in ToSet(s) \cup ToSet(t)
      <3>1. PICK i \in 1 .. m + n : e = j[i]
        BY <1>3 DEF ToSet
      <3>2. CASE i \in 1 .. m
        BY <1>1, <1>2, <3>1, <3>2 DEF ToSet
      <3>3. CASE i - m \in 1 .. n /\ i = m + (i - m)
        <4>1. e = t[i - m]
          BY <1>1, <3>1, <3>3
        <4>2. QED
          BY <1>2, <3>3, <4>1 DEF ToSet
      <3>4. QED
        BY <1>4, <3>2, <3>3
    <2>2. ToSet(s) \subseteq ToSet(j)
      BY <1>1, <1>2, <1>3, <1>5 DEF ToSet
    <2>3. ToSet(t) \subseteq ToSet(j)
      <3>1. \A i \in 1 .. n : t[i] \in ToSet(j)
        BY <1>1, <1>3, <1>5 DEF ToSet
      <3>2. QED
        BY <1>2, <3>1 DEF ToSet
    <2>4. QED
      BY <2>1, <2>2, <2>3
  <1>7. KeysOf(j) = KeysOf(s) \cup KeysOf(t)
    BY <1>6 DEF KeysOf
  <1>8. ASSUME KeysOnce(s), KeysOnce(t), KeysOf(s) \cap KeysOf(t) = {}
        PROVE  KeysOnce(j)
    <2>1. (\A i \in 1 .. m : RowKey(s[i]) \in KeysOf(s)) /\ \A i \in 1 .. n : RowKey(t[i]) \in KeysOf(t)
      BY <1>2 DEF KeysOf, ToSet
    <2>2. SUFFICES ASSUME NEW a \in 1 .. m + n, NEW b \in 1 .. m + n, RowKey(j[a]) = RowKey(j[b])
                   PROVE  a = b
      BY <1>1 DEF KeysOnce
    <2>3. CASE a \in 1 .. m /\ b \in 1 .. m
      BY <1>1, <1>8, <2>2, <2>3 DEF KeysOnce, m
    <2>4. CASE a - m \in 1 .. n /\ b - m \in 1 .. n
      <3>1. RowKey(t[a - m]) = RowKey(t[b - m])
        BY <1>1, <1>4, <2>2, <2>4
      <3>2. a - m = b - m
        BY <1>8, <2>4, <3>1 DEF KeysOnce, n
      <3>3. QED
        BY <1>1, <3>2
    <2>5. CASE a \in 1 .. m /\ b - m \in 1 .. n
      <3>1. RowKey(s[a]) = RowKey(t[b - m])
        BY <1>1, <1>4, <2>2, <2>5
      <3>2. QED
        BY <1>8, <2>1, <2>5, <3>1
    <2>6. CASE a - m \in 1 .. n /\ b \in 1 .. m
      <3>1. RowKey(t[a - m]) = RowKey(s[b])
        BY <1>1, <1>4, <2>2, <2>6
      <3>2. QED
        BY <1>8, <2>1, <2>6, <3>1
    <2>7. QED
      BY <1>4, <2>3, <2>4, <2>5, <2>6
  <1>9. QED
    BY <1>1, <1>6, <1>7, <1>8 DEF j

\* What a process that dies leaves of what it was writing.
LEMMA StartFacts ==
  ASSUME NEW E, NEW s \in Seq(E), NEW n \in 0 .. Len(s)
  PROVE  /\ SubSeq(s, 1, n) \in Seq(E) /\ ToSet(SubSeq(s, 1, n)) \subseteq ToSet(s)
         /\ KeysOnce(s) => KeysOnce(SubSeq(s, 1, n))
  <1> DEFINE t == SubSeq(s, 1, n)
  <1>1. /\ t \in Seq(E) /\ Len(t) = n /\ n \in Nat /\ Len(s) \in Nat /\ n <= Len(s)
        /\ \A i \in 1 .. n : t[i] = s[i] /\ i \in 1 .. Len(s)
    OBVIOUS
  <1> HIDE DEF t
  <1>2. DOMAIN t = 1 .. n /\ DOMAIN s = 1 .. Len(s)
    BY <1>1
  <1>3. ToSet(t) \subseteq ToSet(s)
    BY <1>1, <1>2 DEF ToSet
  <1>4. KeysOnce(s) => KeysOnce(t)
    BY <1>1 DEF KeysOnce
  <1>5. QED
    BY <1>1, <1>3, <1>4 DEF t

\* The record of a collecting process.
Gathering ==
  [pc : {"idle", "pages", "images", "image", "write", "exit"}, kind : Kinds,
   wanted : SUBSET (Products \cup {Foreign}), todo : Seq(Products \cup {Foreign}),
   rows : Seq(CrawledRow), failed : SUBSET (Products \cup {Foreign}),
   record : Records \cup {Absent}, got : Nat,
   merged : Seq(CrawledRow), old : Seq(CrawledRow)]

\* The list names products, each once.
ListType == listed # Absent => listed \in Seq(Products) /\ IsInjective(listed)

\* A collection that gets images gets those of the product it is at.
AtImages(c) == c.pc \in {"images", "image"}
Resting(c)  == ~AtImages(c) /\ c.got = 0
Downloading(c) ==
  \/ Resting(c)
  \/ /\ AtImages(c)
     /\ c.todo # <<>> /\ Head(c.todo) \in Products /\ c.record \in RecordsOf(Head(c.todo))
     /\ c.got <= Len(c.record.paths)
     /\ c.pc = "image" => c.got < Len(c.record.paths)

\* The types of what collections keep.
CollType ==
  /\ \A q \in Products : raw[q] \in RecordsOf(q) \cup {Absent, Unreadable}
  /\ DOMAIN raw = Products /\ raw = [q \in Products |-> raw[q]]
  /\ coll \in [Procs -> Gathering]
  /\ crawled # Absent => crawled \in Seq(CrawledRow)
  /\ \A w \in Procs : Downloading(coll[w]) /\ (coll[w].kind = "details" => coll[w].todo \in Seq(Products))

\* Rows that name an image have its file.
Backed(rows, files) == \A row \in ToSet(rows) : row.path # NoImage => row.path \in files

\* What a collection got of a record, and what it is writing of it, is there.
GotIn(c, files) ==
  AtImages(c) => \A i \in 1 .. Len(c.record.paths) :
                    i <= c.got \/ (c.pc = "image" /\ i = c.got + 1) => c.record.paths[i] \in files

\* What a collection holds is backed before it is written.
BackInv ==
  /\ ImagesAreThere
  /\ \A w \in Procs : Backed(coll[w].rows, disk) /\ Backed(coll[w].merged, disk) /\ GotIn(coll[w], disk)

\* A process that collects nothing holds nothing.
LEMMA NothingCollected ==
  /\ NoCollection \in Gathering /\ NoCollection.kind = "none" /\ Resting(NoCollection)
  /\ Backed(NoCollection.rows, disk) /\ Backed(NoCollection.merged, disk)
  BY DEF NoCollection, Gathering, Kinds, Backed, ToSet, AtImages, Resting

\* The files a batch can start with have their images.
LEMMA CollTypeInit == BatchInit => ListType /\ CollType /\ BackInv
  <1> SUFFICES ASSUME NEW start \in Starts, DiscoveryInit(start.listed),
                      CollectionInit(start.raw, start.crawled)
               PROVE  ListType /\ CollType /\ BackInv
    BY DEF BatchInit
  <1>1. /\ listed = start.listed /\ raw = start.raw /\ crawled = start.crawled
        /\ coll = [w \in Procs |-> NoCollection]
        /\ disk = UNION {ToSet(raw[q].paths) : q \in {q \in Products : Readable(raw[q])}}
    BY DEF DiscoveryInit, CollectionInit
  <1>2. ListType
    BY <1>1, StartsAssumption DEF ListType
  <1>3. \A w \in Procs : coll[w] = NoCollection
    BY <1>1
  <1>4. CollType
    <2>1. /\ start.raw \in [Products -> Records \cup {Absent, Unreadable}]
          /\ \A q \in Products : start.raw[q] \in RecordsOf(q) \cup {Absent, Unreadable}
          /\ start.crawled # Absent => start.crawled \in Seq(CrawledRow)
      BY StartsAssumption
    <2>2. QED
      BY <1>1, <1>3, <2>1, NothingCollected DEF CollType, Downloading
  <1>5. \A q \in Products : Readable(raw[q]) => ToSet(raw[q].paths) \subseteq disk
    BY <1>1
  <1>6. crawled # Absent => \A row \in ToSet(crawled) : row.path # NoImage => row.path \in disk
    <2> SUFFICES ASSUME crawled # Absent, NEW row \in ToSet(crawled), row.path # NoImage
                 PROVE  row.path \in disk
      OBVIOUS
    <2>1. Readable(start.raw[row.product]) /\ row.path \in ToSet(start.raw[row.product].paths)
      BY <1>1, StartsAssumption
    <2>2. row.product \in Products
      <3>1. crawled \in Seq(CrawledRow)
        BY <1>4 DEF CollType
      <3>2. row \in CrawledRow
        BY <3>1 DEF ToSet
      <3>3. QED
        BY <3>2 DEF CrawledRow
    <2>3. QED
      BY <1>1, <1>5, <2>1, <2>2
  <1>7. BackInv
    BY <1>3, <1>5, <1>6, NothingCollected DEF BackInv, ImagesAreThere, GotIn, Resting
  <1>8. QED
    BY <1>2, <1>4, <1>7

\* One collection moves on.
LEMMA Moved ==
  ASSUME CollType, NEW w \in Procs, NEW next \in Gathering, coll' = [coll EXCEPT ![w] = next]
  PROVE  /\ coll' \in [Procs -> Gathering] /\ coll'[w] = next
         /\ \A v \in Procs : v # w => coll'[v] = coll[v]
  <1>1. coll \in [Procs -> Gathering]
    BY DEF CollType
  <1>2. QED
    BY <1>1

\* A step of a collection keeps the types and the files when what it takes on does.
LEMMA BackMoved ==
  ASSUME CollType, BackInv, NEW w \in Procs, NEW next \in Gathering, coll' = [coll EXCEPT ![w] = next],
         disk \subseteq disk',
         raw' = raw \/ \E q \in Products : \E r \in RecordsOf(q) :
                         raw' = [raw EXCEPT ![q] = r] /\ ToSet(r.paths) \subseteq disk',
         crawled' = crawled \/ (crawled' \in Seq(CrawledRow) /\ Backed(crawled', disk)),
         next.kind = "details" => next.todo \in Seq(Products),
         Backed(next.rows, disk'), Backed(next.merged, disk'),
         Resting(next) \/ (Downloading(next) /\ GotIn(next, disk'))
  PROVE  CollType' /\ BackInv'
  <1>1. /\ coll' \in [Procs -> Gathering] /\ coll'[w] = next
        /\ \A v \in Procs : v # w => coll'[v] = coll[v]
    BY Moved
  <1>2. \A rows : Backed(rows, disk) => Backed(rows, disk')
    BY DEF Backed
  <1>3. /\ \A q \in Products : raw'[q] \in RecordsOf(q) \cup {Absent, Unreadable}
        /\ DOMAIN raw' = Products /\ raw' = [q \in Products |-> raw'[q]]
    BY DEF CollType
  <1>20. Downloading(next) /\ GotIn(next, disk')
    BY DEF Downloading, GotIn, Resting
  <1>21. \A v \in Procs : Downloading(coll'[v]) /\ GotIn(coll'[v], disk')
    <2>1. \A c : GotIn(c, disk) => GotIn(c, disk')
      BY DEF GotIn
    <2>2. QED
      BY <1>1, <1>20, <2>1 DEF CollType, BackInv
  <1>4. CollType'
    BY <1>1, <1>3, <1>21 DEF CollType, Downloading, Resting, AtImages, RecordsOf, RecordOf
  <1>5. \A q \in Products : Readable(raw'[q]) => ToSet(raw'[q].paths) \subseteq disk'
    <2>1. \A q \in Products : Readable(raw[q]) => ToSet(raw[q].paths) \subseteq disk
      BY DEF BackInv, ImagesAreThere
    <2>2. CASE raw' = raw
      BY <2>1, <2>2
    <2>3. ASSUME NEW q \in Products, NEW r \in RecordsOf(q), raw' = [raw EXCEPT ![q] = r],
                 ToSet(r.paths) \subseteq disk'
          PROVE  \A p \in Products : Readable(raw'[p]) => ToSet(raw'[p].paths) \subseteq disk'
      <3>1. \A p \in Products : raw'[p] = IF p = q THEN r ELSE raw[p]
        BY <2>3 DEF CollType
      <3>2. QED
        BY <2>1, <2>3, <3>1
    <2>4. QED
      BY <2>2, <2>3
  <1>6. crawled' # Absent => Backed(crawled', disk')
    <2>1. crawled # Absent => Backed(crawled, disk)
      BY DEF BackInv, ImagesAreThere, Backed
    <2>2. QED
      BY <1>2, <2>1
  <1>7. \A v \in Procs : Backed(coll'[v].rows, disk') /\ Backed(coll'[v].merged, disk')
    BY <1>1, <1>2 DEF BackInv
  <1>8. ImagesAreThere'
    BY <1>5, <1>6 DEF ImagesAreThere, Backed, Readable, Records, RecordsOf, RecordOf
  <1>9. BackInv'
    BY <1>7, <1>8, <1>21 DEF BackInv, Backed, GotIn, AtImages
  <1>10. QED
    BY <1>4, <1>9

\* A collection begins, on the list of the batch or on a file of URLs.
LEMMA BackBegun ==
  ASSUME ListType, CollType, BackInv, NEW w \in Procs,
         \/ \E force \in BOOLEAN : CollectDetails(w, force)
         \/ \E lines \in UrlFiles : CollectBatch(w, lines)
  PROVE  CollType' /\ BackInv'
  <1>1. PICK kind \in Kinds, products \in Seq(Products \cup {Foreign}) :
          Collecting(w, kind, products) /\ (kind = "details" => products \in Seq(Products))
    <2>1. CASE \E force \in BOOLEAN : CollectDetails(w, force)
      <3>1. listed \in Seq(Products) /\ listed \in Seq(Products \cup {Foreign})
        BY <2>1 DEF CollectDetails, ListType
      <3>2. Collecting(w, "force", listed) \/ Collecting(w, "details", listed)
        BY <2>1 DEF CollectDetails
      <3>3. QED
        BY <3>1, <3>2 DEF Kinds
    <2>2. CASE \E lines \in UrlFiles : CollectBatch(w, lines)
      <3>1. PICK lines \in UrlFiles : CollectBatch(w, lines)
        BY <2>2
      <3> DEFINE urls  == LoadUniqueUrls(lines)
                 links == [i \in 1 .. Len(urls) |-> IF Good(urls[i]) THEN urls[i].product ELSE Foreign]
      <3>2. urls \in Seq(Line)
        BY DiscoveryAssumption, UniqueFacts
      <3>3. Collecting(w, "batch", links)
        BY <3>1 DEF CollectBatch
      <3> HIDE DEF urls
      <3>4. \A i \in 1 .. Len(urls) : links[i] \in Products \cup {Foreign}
        BY <3>2 DEF Good, Line
      <3>5. links = [i \in 1 .. Len(urls) |-> links[i]] /\ Len(urls) \in Nat
        BY <3>2
      <3> HIDE DEF links
      <3>6. links \in Seq(Products \cup {Foreign})
        BY <3>4, <3>5, Listing
      <3>7. QED
        BY <3>3, <3>6 DEF Kinds
    <2>3. QED
      BY <2>1, <2>2
  <1> DEFINE next == [NoCollection EXCEPT !.pc = "pages", !.kind = kind,
                                          !.wanted = ToSet(products), !.todo = products]
  <1>2. ToSet(products) \subseteq Products \cup {Foreign}
    BY DEF ToSet
  <1>3. next \in Gathering
    <2>1. NoCollection \in Gathering
      BY NothingCollected
    <2>2. QED
      BY <1>2, <2>1 DEF Gathering
  <1>4. /\ next.kind = kind /\ next.todo = products /\ next.rows = <<>> /\ next.merged = <<>>
        /\ Resting(next)
    BY DEF NoCollection, AtImages, Resting
  <1>5. coll' = [coll EXCEPT ![w] = next] /\ disk' = disk /\ raw' = raw /\ crawled' = crawled
    BY <1>1 DEF Collecting
  <1> HIDE DEF next
  <1>6. Backed(next.rows, disk') /\ Backed(next.merged, disk')
    BY <1>4 DEF Backed, ToSet
  <1>7. QED
    BY <1>1, <1>3, <1>4, <1>5, <1>6, BackMoved

\* A collection takes the next of its products, or an image of it.
LEMMA BackPages ==
  ASSUME CollType, BackInv, NEW w \in Procs,
         \/ ReuseRecord(w) \/ OpenProduct(w) \/ OpenImage(w) \/ SaveImage(w)
         \/ KeepRecord(w) \/ FailProduct(w)
  PROVE  CollType' /\ BackInv'
  <1> DEFINE c == coll[w]
             q == Head(c.todo)
             n == Len(c.record.paths)
  <1>1. /\ c \in Gathering /\ c.todo \in Seq(Products \cup {Foreign})
        /\ c.rows \in Seq(CrawledRow) /\ Backed(c.rows, disk) /\ Backed(c.merged, disk)
        /\ c.failed \subseteq Products \cup {Foreign}
        /\ c.kind = "details" => c.todo \in Seq(Products)
        /\ Downloading(c) /\ GotIn(c, disk) /\ c.got \in Nat /\ c.record \in Records \cup {Absent}
    BY DEF CollType, BackInv, Gathering
  <1>20. c.todo # <<>> /\ c.pc \in {"pages", "images", "image"}
    <2>1. InPages(w) \/ AtImages(c)
      BY DEF ReuseRecord, OpenProduct, OpenImage, SaveImage, KeepRecord, FailProduct, MoreImages, AtImages
    <2>2. AtImages(c) => c.todo # <<>>
      BY <1>1 DEF Downloading, Resting
    <2>3. QED
      BY <2>1, <2>2 DEF InPages, AtImages
  <1>2. /\ q \in Products \cup {Foreign} /\ Tail(c.todo) \in Seq(Products \cup {Foreign})
        /\ c.kind = "details" => q \in Products /\ Tail(c.todo) \in Seq(Products)
    BY <1>1, <1>20
  <1>21. AtImages(c) => /\ q \in Products /\ c.record \in RecordsOf(q) /\ c.record \in Records
                        /\ c.record.paths \in Seq(Path) /\ n \in Nat /\ c.got \in 0 .. n
                        /\ (c.pc = "image" => c.got < n)
                        /\ \A i \in 1 .. n : i <= c.got \/ (c.pc = "image" /\ i = c.got + 1) =>
                             c.record.paths[i] \in disk
    <2>1. AtImages(c) => /\ q \in Products /\ c.record \in RecordsOf(q) /\ c.got <= n
                         /\ (c.pc = "image" => c.got < n)
      BY <1>1 DEF Downloading, Resting
    <2>2. AtImages(c) => c.record \in Records /\ c.record.paths \in Seq(Path) /\ n \in Nat
      BY <2>1, OwnPaths
    <2>3. AtImages(c) => \A i \in 1 .. n : i <= c.got \/ (c.pc = "image" /\ i = c.got + 1) =>
                           c.record.paths[i] \in disk
      BY <1>1 DEF GotIn
    <2> HIDE DEF q, n, c
    <2>4. QED
      BY <1>1, <2>1, <2>2, <2>3
  <1>3. CASE FailProduct(w)
    <2> DEFINE next == [c EXCEPT !.pc = "pages", !.todo = Tail(c.todo), !.failed = c.failed \cup {q},
                                 !.record = Absent, !.got = 0]
    <2>1. coll' = [coll EXCEPT ![w] = next] /\ disk \subseteq disk' /\ raw' = raw /\ crawled' = crawled
      BY <1>3 DEF FailProduct, CollType, Gathering
    <2>2. next \in Gathering
      BY <1>1, <1>2 DEF Gathering
    <2>3. /\ next.kind = c.kind /\ next.todo = Tail(c.todo) /\ next.rows = c.rows /\ next.merged = c.merged
          /\ Resting(next)
      BY <1>1 DEF Gathering, AtImages, Resting
    <2> HIDE DEF next, c
    <2>4. Backed(next.rows, disk') /\ Backed(next.merged, disk')
      BY <1>1, <2>1, <2>3 DEF Backed
    <2>5. QED
      BY <1>2, <2>1, <2>2, <2>3, <2>4, BackMoved
  <1>4. ASSUME NEW new \in Seq(CrawledRow), Backed(new, disk'), disk \subseteq disk',
               raw' = raw \/ \E p \in Products : \E r \in RecordsOf(p) :
                               raw' = [raw EXCEPT ![p] = r] /\ ToSet(r.paths) \subseteq disk',
               crawled' = crawled, NEW record \in Records \cup {Absent},
               coll' = [coll EXCEPT ![w] = [c EXCEPT !.pc = "pages", !.todo = Tail(c.todo),
                                              !.rows = c.rows \o new, !.record = record, !.got = 0]]
        PROVE  CollType' /\ BackInv'
    <2> DEFINE next == [c EXCEPT !.pc = "pages", !.todo = Tail(c.todo), !.rows = c.rows \o new,
                                 !.record = record, !.got = 0]
    <2>1. coll' = [coll EXCEPT ![w] = next]
      BY <1>4
    <2>2. c.rows \o new \in Seq(CrawledRow) /\ ToSet(c.rows \o new) = ToSet(c.rows) \cup ToSet(new)
      BY <1>1, <1>4, JoinFacts
    <2>3. next \in Gathering
      BY <1>1, <1>2, <2>2 DEF Gathering
    <2>4. next.kind = c.kind /\ next.todo = Tail(c.todo) /\ next.rows = c.rows \o new
          /\ next.merged = c.merged /\ Resting(next)
      BY <1>1 DEF Gathering, AtImages, Resting
    <2> HIDE DEF next, c
    <2>5. Backed(next.rows, disk') /\ Backed(next.merged, disk')
      BY <1>1, <1>4, <2>2, <2>4 DEF Backed
    <2>6. QED
      BY <1>2, <1>4, <2>1, <2>3, <2>4, <2>5, BackMoved
  <1>5. CASE ReuseRecord(w)
    <2> DEFINE new == IF Readable(raw[q]) THEN RowsOf(q, raw[q]) ELSE <<>>
    <2>1. /\ disk' = disk /\ raw' = raw /\ crawled' = crawled /\ c.kind = "details" /\ c.pc = "pages"
          /\ coll' = [coll EXCEPT ![w].todo = Tail(@), ![w].rows = @ \o new]
      BY <1>5 DEF ReuseRecord, Reused, InPages
    <2>2. q \in Products
      BY <1>2, <2>1
    <2>3. new \in Seq(CrawledRow) /\ Backed(new, disk)
      <3>1. CASE Readable(raw[q])
        <4>1. raw[q] \in Records /\ ToSet(raw[q].paths) \subseteq disk
          BY <2>2, <3>1 DEF BackInv, ImagesAreThere, Readable
        <4>2. /\ RowsOf(q, raw[q]) \in Seq(CrawledRow)
              /\ \A row \in ToSet(RowsOf(q, raw[q])) : row.path # NoImage => row.path \in ToSet(raw[q].paths)
          BY <2>2, <4>1, RowsOfFacts
        <4>3. QED
          BY <3>1, <4>1, <4>2 DEF Backed
      <3>2. CASE ~Readable(raw[q])
        BY <3>2 DEF Backed, ToSet
      <3>3. QED
        BY <3>1, <3>2
    <2> HIDE DEF new
    <2>4. coll' = [coll EXCEPT ![w] = [c EXCEPT !.pc = "pages", !.todo = Tail(c.todo),
                                         !.rows = c.rows \o new, !.record = c.record, !.got = 0]]
      <3>1. c.got = 0
        BY <1>1, <2>1 DEF Downloading, AtImages, Resting
      <3>2. coll \in [Procs -> Gathering]
        BY DEF CollType
      <3>3. \A f \in Gathering : f.pc = "pages" /\ f.got = 0 =>
              [[f EXCEPT !.todo = Tail(@)] EXCEPT !.rows = @ \o new]
                = [f EXCEPT !.pc = "pages", !.todo = Tail(f.todo), !.rows = f.rows \o new,
                            !.record = f.record, !.got = 0]
        BY DEF Gathering
      <3>4. QED
        BY <1>1, <2>1, <3>1, <3>2, <3>3
    <2> HIDE DEF c
    <2>5. QED
      BY <1>1, <1>4, <2>1, <2>3, <2>4
  <1>6. CASE KeepRecord(w)
    <2> DEFINE r == c.record
    <2>1. /\ disk' = disk /\ raw' = [raw EXCEPT ![q] = r] /\ crawled' = crawled
          /\ c.pc = "images" /\ ~(c.got < n)
      BY <1>6 DEF KeepRecord, MoreImages
    <2>2. coll' = [coll EXCEPT ![w] = [c EXCEPT !.pc = "pages", !.todo = Tail(c.todo),
                                         !.rows = c.rows \o RowsOf(q, r), !.record = Absent, !.got = 0]]
      BY <1>6 DEF KeepRecord, CollType, Gathering
    <2>3. AtImages(c)
      BY <2>1 DEF AtImages
    <2> HIDE DEF c, q
    <2>4. \A i \in 1 .. n : r.paths[i] \in disk
      BY <1>21, <2>1, <2>3
    <2>5. ToSet(r.paths) \subseteq disk
      BY <1>21, <2>3, <2>4 DEF ToSet
    <2> HIDE DEF r, n
    <2>6. q \in Products /\ r \in RecordsOf(q) /\ r \in Records
      BY <1>21, <2>3 DEF r
    <2>7. /\ RowsOf(q, r) \in Seq(CrawledRow)
          /\ \A row \in ToSet(RowsOf(q, r)) : row.path # NoImage => row.path \in ToSet(r.paths)
      BY <2>6, RowsOfFacts
    <2>8. Backed(RowsOf(q, r), disk')
      BY <2>1, <2>5, <2>7 DEF Backed
    <2>9. \E p \in Products : \E s \in RecordsOf(p) :
            raw' = [raw EXCEPT ![p] = s] /\ ToSet(s.paths) \subseteq disk'
      BY <2>1, <2>5, <2>6
    <2>10. QED
      BY <1>4, <2>1, <2>2, <2>7, <2>8, <2>9
  <1>7. CASE OpenProduct(w)
    <2>1. PICK page \in Pages[q] : coll' = [coll EXCEPT ![w].pc = "images", ![w].record = RecordOf(q, page)]
      BY <1>7 DEF OpenProduct
    <2>2. q \in Products /\ disk' = disk /\ raw' = raw /\ crawled' = crawled
      BY <1>2, <1>7 DEF OpenProduct
    <2> DEFINE r    == RecordOf(q, page)
               next == [c EXCEPT !.pc = "images", !.record = r]
    <2>3. r \in RecordsOf(q) /\ coll' = [coll EXCEPT ![w] = next]
      BY <2>1 DEF RecordsOf, CollType, Gathering
    <2>4. r \in Records /\ Len(r.paths) \in Nat
      <3> HIDE DEF r, q
      <3>1. QED
        BY <2>2, <2>3, OwnPaths
    <2>5. next \in Gathering
      BY <1>1, <2>4 DEF Gathering
    <2>6. c.pc = "pages" /\ c.got = 0
      BY <1>1, <1>7 DEF OpenProduct, InPages, Downloading, AtImages, Resting
    <2>7. /\ next.pc = "images" /\ next.kind = c.kind /\ next.todo = c.todo /\ next.rows = c.rows
          /\ next.merged = c.merged /\ next.record = r /\ next.got = 0
      BY <1>1, <2>6 DEF Gathering
    <2> HIDE DEF next, r
    <2>8. Downloading(next)
      BY <1>20, <2>2, <2>3, <2>4, <2>7 DEF Downloading, AtImages
    <2>9. GotIn(next, disk')
      BY <2>4, <2>7 DEF GotIn
    <2> HIDE DEF c, q
    <2>10. QED
      BY <1>1, <2>2, <2>3, <2>5, <2>7, <2>8, <2>9, BackMoved
  <1>8. CASE OpenImage(w)
    <2> DEFINE next == [c EXCEPT !.pc = "image"]
    <2>1. /\ coll' = [coll EXCEPT ![w] = next] /\ raw' = raw /\ crawled' = crawled
          /\ c.pc = "images" /\ c.got < n /\ disk' = disk \cup {c.record.paths[c.got + 1]}
      BY <1>8 DEF OpenImage, MoreImages, ImageAt, CollType, Gathering
    <2>2. next \in Gathering
      BY <1>1 DEF Gathering
    <2>3. /\ next.pc = "image" /\ next.kind = c.kind /\ next.todo = c.todo /\ next.rows = c.rows
          /\ next.merged = c.merged /\ next.record = c.record /\ next.got = c.got /\ AtImages(c)
      BY <1>1, <2>1 DEF Gathering, AtImages
    <2> HIDE DEF next
    <2>4. Downloading(next)
      BY <1>20, <1>21, <2>1, <2>3 DEF Downloading, AtImages
    <2> HIDE DEF c, q
    <2>5. GotIn(next, disk')
      <3>1. \A i \in 1 .. n : i <= c.got \/ i = c.got + 1 => c.record.paths[i] \in disk'
        BY <1>21, <2>1, <2>3
      <3>2. QED
        BY <2>3, <3>1 DEF GotIn
    <2>6. Backed(next.rows, disk') /\ Backed(next.merged, disk')
      BY <1>1, <2>1, <2>3 DEF Backed
    <2>7. QED
      BY <1>1, <2>1, <2>2, <2>3, <2>4, <2>5, <2>6, BackMoved
  <1>9. CASE SaveImage(w)
    <2> DEFINE next == [c EXCEPT !.pc = "images", !.got = c.got + 1]
    <2>1. /\ coll' = [coll EXCEPT ![w] = next] /\ raw' = raw /\ crawled' = crawled
          /\ c.pc = "image" /\ disk' = disk
      BY <1>9 DEF SaveImage, CollType, Gathering
    <2>2. next \in Gathering
      <3>1. c.got + 1 \in Nat
        BY <1>1
      <3>2. \A f \in Gathering, g \in Nat : [f EXCEPT !.pc = "images", !.got = g] \in Gathering
        BY DEF Gathering
      <3>3. QED
        BY <1>1, <3>1, <3>2
    <2>3. /\ next.pc = "images" /\ next.kind = c.kind /\ next.todo = c.todo /\ next.rows = c.rows
          /\ next.merged = c.merged /\ next.record = c.record /\ next.got = c.got + 1 /\ AtImages(c)
      BY <1>1, <2>1 DEF Gathering, AtImages
    <2> HIDE DEF next
    <2>9. c.got \in Nat /\ n \in Nat /\ c.got < n
      BY <1>1, <1>21, <2>1, <2>3
    <2>4. Downloading(next)
      <3>1. c.got + 1 <= n
        BY <2>9
      <3>2. QED
        BY <1>20, <1>21, <2>3, <3>1 DEF Downloading, AtImages
    <2> HIDE DEF c, q
    <2>5. GotIn(next, disk')
      <3>1. \A i \in 1 .. n : i <= c.got + 1 => c.record.paths[i] \in disk'
        BY <1>21, <2>1, <2>3, <2>9
      <3>2. QED
        BY <2>3, <3>1 DEF GotIn
    <2>7. QED
      BY <1>1, <2>1, <2>2, <2>3, <2>4, <2>5, BackMoved
  <1>10. QED
    BY <1>3, <1>5, <1>6, <1>7, <1>8, <1>9

\* A collection writes what it holds, or some of it.
LEMMA BackWrites ==
  ASSUME CollType, BackInv, NEW w \in Procs,
         CollectsNothing(w) \/ CollectOpens(w) \/ CollectCloses(w) \/ CollectExits(w) \/ CollectDies(w)
  PROVE  CollType' /\ BackInv'
  <1> DEFINE c    == coll[w]
             file == IF crawled = Absent THEN <<>> ELSE crawled
  <1>1. /\ c \in Gathering /\ c.rows \in Seq(CrawledRow) /\ c.merged \in Seq(CrawledRow)
        /\ Backed(c.rows, disk) /\ Backed(c.merged, disk)
        /\ c.kind = "details" => c.todo \in Seq(Products)
    BY DEF CollType, BackInv, Gathering
  <1>10. ~AtImages(c) => c.got = 0
    BY DEF CollType, Downloading, Resting
  <1>2. file \in Seq(CrawledRow) /\ Backed(file, disk)
    BY DEF CollType, BackInv, ImagesAreThere, Backed, ToSet
  <1>3. disk' = disk /\ raw' = raw
    BY DEF CollectsNothing, CollectOpens, CollectCloses, CollectExits, CollectDies
  <1> HIDE DEF file
  <1>4. CASE CollectsNothing(w)
    <2> DEFINE next == [c EXCEPT !.pc = "exit", !.old = file]
    <2>1. coll' = [coll EXCEPT ![w] = next] /\ crawled' = crawled
      BY <1>4 DEF CollectsNothing, CollType, Gathering, file
    <2>2. next \in Gathering
      BY <1>1, <1>2 DEF Gathering
    <2>3. /\ next.kind = c.kind /\ next.todo = c.todo /\ next.rows = c.rows /\ next.merged = c.merged
          /\ Resting(next)
      BY <1>1, <1>10, <1>4 DEF Gathering, AtImages, Resting, CollectsNothing
    <2> HIDE DEF next, c
    <2>4. Backed(next.rows, disk') /\ Backed(next.merged, disk')
      BY <1>1, <1>3, <2>3
    <2>5. QED
      BY <1>1, <1>3, <2>1, <2>2, <2>3, <2>4, BackMoved
  <1>5. CASE CollectOpens(w)
    <2> DEFINE merged == IF c.kind = "details" /\ crawled # Absent THEN MergeRows(file, c.rows) ELSE c.rows
               next   == [c EXCEPT !.pc = "write", !.old = file, !.merged = merged]
    <2>1. coll' = [coll EXCEPT ![w] = next] /\ crawled' = <<>>
      BY <1>5 DEF CollectOpens, CollType, Gathering, file
    <2>2. merged \in Seq(CrawledRow) /\ ToSet(merged) \subseteq ToSet(file) \cup ToSet(c.rows)
      <3>1. MergeRows(file, c.rows) \in Seq(CrawledRow)
            /\ ToSet(MergeRows(file, c.rows)) \subseteq ToSet(file) \cup ToSet(c.rows)
        BY <1>1, <1>2, MergeRowsFacts
      <3>2. QED
        BY <1>1, <3>1
    <2> HIDE DEF merged
    <2>3. next \in Gathering
      BY <1>1, <1>2, <2>2 DEF Gathering
    <2>4. /\ next.kind = c.kind /\ next.todo = c.todo /\ next.rows = c.rows /\ next.merged = merged
          /\ Resting(next)
      BY <1>1, <1>10, <1>5 DEF Gathering, AtImages, Resting, CollectOpens
    <2> HIDE DEF next, c
    <2>5. Backed(next.rows, disk') /\ Backed(next.merged, disk')
      BY <1>1, <1>2, <1>3, <2>2, <2>4 DEF Backed
    <2>6. crawled' \in Seq(CrawledRow) /\ Backed(crawled', disk)
      BY <2>1 DEF Backed, ToSet
    <2>7. QED
      BY <1>1, <1>3, <2>1, <2>3, <2>4, <2>5, <2>6, BackMoved
  <1>6. CASE CollectCloses(w)
    <2> DEFINE next == [c EXCEPT !.pc = "exit"]
    <2>1. coll' = [coll EXCEPT ![w] = next] /\ crawled' = c.merged
      BY <1>6 DEF CollectCloses, CollType, Gathering
    <2>2. next \in Gathering
      BY <1>1 DEF Gathering
    <2>3. /\ next.kind = c.kind /\ next.todo = c.todo /\ next.rows = c.rows /\ next.merged = c.merged
          /\ Resting(next)
      BY <1>1, <1>10, <1>6 DEF Gathering, AtImages, Resting, CollectCloses
    <2> HIDE DEF next, c
    <2>4. QED
      BY <1>1, <1>3, <2>1, <2>2, <2>3, BackMoved
  <1>7. CASE CollectExits(w)
    <2>1. coll' = [coll EXCEPT ![w] = NoCollection] /\ crawled' = crawled
      BY <1>7 DEF CollectExits
    <2>2. QED
      BY <1>3, <2>1, NothingCollected, BackMoved
  <1>8. CASE CollectDies(w)
    <2>1. /\ coll' = [coll EXCEPT ![w] = NoCollection]
          /\ crawled' = crawled \/ \E n \in 0 .. Len(c.merged) : crawled' = SubSeq(c.merged, 1, n)
      BY <1>8 DEF CollectDies
    <2> HIDE DEF c
    <2>2. crawled' = crawled \/ (crawled' \in Seq(CrawledRow) /\ Backed(crawled', disk))
      <3>1. ASSUME NEW n \in 0 .. Len(c.merged)
            PROVE  SubSeq(c.merged, 1, n) \in Seq(CrawledRow) /\ Backed(SubSeq(c.merged, 1, n), disk)
        <4>1. SubSeq(c.merged, 1, n) \in Seq(CrawledRow)
              /\ ToSet(SubSeq(c.merged, 1, n)) \subseteq ToSet(c.merged)
          BY <1>1, <3>1, StartFacts
        <4>2. QED
          BY <1>1, <4>1 DEF Backed
      <3>2. QED
        BY <2>1, <3>1
    <2>3. QED
      BY <1>3, <2>1, <2>2, NothingCollected, BackMoved
  <1>9. QED
    BY <1>4, <1>5, <1>6, <1>7, <1>8

\* A collection begins or goes on.
CollectBegins(w) ==
  \/ \E force \in BOOLEAN : CollectDetails(w, force)
  \/ \E lines \in UrlFiles : CollectBatch(w, lines)
CollectMoves(w) == CollectBegins(w) \/ CollectSteps(w) \/ CollectDies(w)

\* The steps of the OCR container leave the collection alone.
LEMMA ReaderLeaves ==
  ASSUME NEW w \in Procs, ReaderSteps(w) \/ ReaderDies(w)
  PROVE  UNCHANGED collectionVars
  BY DEF ReaderSteps, ReaderDies, ClassifyImage, TornImageEnds, ClassifiesNothing, MergesChecks, WritesChecks,
         LoadsKeys, SkipRow, DomOnly, PlainImage, DisclosingImage, FailRow, EndsBatch, ReaderExits

\* Every other step does so, too.
LEMMA CollectionCases ==
  ASSUME BatchNext \/ UNCHANGED batchVars
  PROVE  UNCHANGED collectionVars \/ \E w \in Procs : CollectMoves(w)
  <1>1. CASE DiscoveryBegins \/ ConsoleRestarts \/ UNCHANGED batchVars
    BY <1>1 DEF DiscoveryBegins, DiscoverByHand, JobDiscover, ConsoleRestarts, batchVars
  <1>2. CASE \/ \E w \in Procs, force \in BOOLEAN : JobClassify(w, force)
             \/ \E w \in Procs, offset \in 0 .. 1, limit \in 0 .. 1 : JobOcr(w, offset, limit)
             \/ \E w \in Procs : ReadByHand(w)
    BY <1>2 DEF JobClassify, JobOcr, ReadByHand, ClassifyImages, ProcessBatch
  <1>3. CASE \/ \E w \in Procs, force \in BOOLEAN : JobCollect(w, force)
             \/ \E w \in Procs : CollectByHand(w)
    BY <1>3 DEF JobCollect, CollectByHand, CollectMoves, CollectBegins
  <1>4. CASE Works \/ Dies
    BY <1>4, ReaderLeaves DEF Works, Dies, CollectMoves
  <1>5. QED
    BY <1>1, <1>2, <1>3, <1>4 DEF BatchNext, DiscoveryBegins

\* The list is the whole of what a discovery found, or its beginning.
LEMMA ListTypeStep == DiscType /\ ListType /\ [BatchNext]_batchVars => ListType'
  <1> SUFFICES ASSUME DiscType, ListType, BatchNext \/ UNCHANGED batchVars
               PROVE  ListType'
    OBVIOUS
  <1>1. disc.known \in Seq(Products) /\ IsInjective(disc.known)
    BY DEF DiscType, Discovering
  <1>2. ASSUME NEW n \in 0 .. Len(disc.known)
        PROVE  SubSeq(disc.known, 1, n) \in Seq(Products) /\ IsInjective(SubSeq(disc.known, 1, n))
    <2> DEFINE t == SubSeq(disc.known, 1, n)
    <2>1. /\ t \in Seq(Products) /\ Len(t) = n /\ \A i \in 1 .. n : t[i] = disc.known[i]
          /\ DOMAIN disc.known = 1 .. Len(disc.known) /\ 1 .. n \subseteq 1 .. Len(disc.known)
      BY <1>1
    <2> HIDE DEF t
    <2>2. DOMAIN t = 1 .. n
      BY <2>1
    <2>3. QED
      BY <1>1, <2>1, <2>2 DEF IsInjective, t
  <1>3. \/ listed' = listed \/ listed' = <<>> \/ listed' = disc.known
        \/ \E n \in 0 .. Len(disc.known) : listed' = SubSeq(disc.known, 1, n)
    <2>1. CASE DiscoveryBegins
      BY <2>1 DEF DiscoveryBegins, DiscoverByHand, DiscoveryStarts, JobDiscover, DiscoverSearch,
                  CategoryCommand, DiscoverCategory, Begin, DiscoverUrls
    <2>2. CASE DiscoverySteps
      BY <2>2 DEF DiscoverySteps, PageLoads, Look, LookAgain, SearchFails, CategoryFails, SearchConcludes,
                  CategoryConcludes, PageFails, PageConcludes, OpenDiscoveryCsv, WriteDiscoveryCsv,
                  WriteDiscoveryManifest, AppendDiscoveryFailures
    <2>3. CASE DiscoveryDies
      BY <2>3 DEF DiscoveryDies
    <2>4. CASE ~DiscoveryBegins /\ ~(DiscoverySteps \/ DiscoveryDies)
      BY <2>4, DiscoveryElsewhere DEF Elsewhere
    <2>5. QED
      BY <2>1, <2>2, <2>3, <2>4
  <1>4. <<>> \in Seq(Products) /\ IsInjective(<<>>)
    BY DEF IsInjective
  <1>5. QED
    BY <1>1, <1>2, <1>3, <1>4 DEF ListType

\* Every step keeps the types and what is backed.
LEMMA BackStep == ListType /\ CollType /\ BackInv /\ [BatchNext]_batchVars => CollType' /\ BackInv'
  <1> SUFFICES ASSUME ListType, CollType, BackInv, BatchNext \/ UNCHANGED batchVars
               PROVE  CollType' /\ BackInv'
    OBVIOUS
  <1>1. CASE UNCHANGED collectionVars
    <2>1. raw' = raw /\ disk' = disk /\ crawled' = crawled /\ coll' = coll
      BY <1>1 DEF collectionVars
    <2>2. QED
      BY <2>1 DEF CollType, BackInv, ImagesAreThere, Backed, GotIn, Downloading, Resting, AtImages,
                  Readable, Records, RecordsOf, RecordOf
  <1>2. ASSUME NEW w \in Procs, CollectMoves(w)
        PROVE  CollType' /\ BackInv'
    <2>1. CASE CollectBegins(w)
      BY <2>1, BackBegun DEF CollectBegins
    <2>2. CASE \/ ReuseRecord(w) \/ OpenProduct(w) \/ OpenImage(w) \/ SaveImage(w)
               \/ KeepRecord(w) \/ FailProduct(w)
      BY <2>2, BackPages
    <2>3. CASE CollectsNothing(w) \/ CollectOpens(w) \/ CollectCloses(w) \/ CollectExits(w) \/ CollectDies(w)
      BY <2>3, BackWrites
    <2>4. QED
      BY <1>2, <2>1, <2>2, <2>3 DEF CollectMoves, CollectSteps
  <1>3. QED
    BY <1>1, <1>2, CollectionCases

\* What is kept of a batch keeps its types: the discovery knows each product
\* once, a list names each product once, and every record and row is one that
\* build_manifest_rows and collect_product make.
THEOREM BatchTyped == BatchSpec => [](DiscType /\ ListType /\ CollType)
  BY DiscTypeInit, DiscTypeStep, ListTypeStep, CollTypeInit, BackStep, PTL DEF BatchSpec

-----------------------------------------------------------------------------
(* A collection that ends.                                                 *)

\* What is left of a sequence after its head.
LEMMA TailFacts ==
  ASSUME NEW S, NEW s \in Seq(S), s # <<>>
  PROVE  /\ Tail(s) \in Seq(S) /\ Head(s) \in ToSet(s)
         /\ \A e : e \in ToSet(s) <=> e = Head(s) \/ e \in ToSet(Tail(s))
         /\ IsInjective(s) => IsInjective(Tail(s)) /\ Head(s) \notin ToSet(Tail(s))
  <1> DEFINE t == Tail(s)
             n == Len(s)
  <1>1. /\ t \in Seq(S) /\ n \in Nat /\ n > 0 /\ Len(t) = n - 1
        /\ \A i \in 1 .. n - 1 : t[i] = s[i + 1]
        /\ Head(s) = s[1]
    OBVIOUS
  <1>2. DOMAIN s = 1 .. n
    OBVIOUS
  <1> HIDE DEF t
  <1>3. DOMAIN t = 1 .. n - 1
    BY <1>1
  <1> HIDE DEF n
  <1>4. 1 \in 1 .. n /\ (\A i \in 1 .. n - 1 : i + 1 \in 1 .. n /\ i + 1 # 1)
        /\ \A i \in 1 .. n : i = 1 \/ (i - 1 \in 1 .. n - 1 /\ (i - 1) + 1 = i)
    BY <1>1
  <1>5. s[1] \in ToSet(s)
    BY <1>2, <1>4 DEF ToSet
  <1>6. \A e : e \in ToSet(s) <=> e = s[1] \/ e \in ToSet(t)
    <2>1. ASSUME NEW e \in ToSet(s)
          PROVE  e = s[1] \/ e \in ToSet(t)
      <3>1. PICK i \in 1 .. n : e = s[i]
        BY <1>2 DEF ToSet
      <3>2. i = 1 \/ (i - 1 \in 1 .. n - 1 /\ e = t[i - 1])
        BY <1>1, <1>4, <3>1
      <3>3. QED
        BY <1>3, <3>1, <3>2 DEF ToSet
    <2>2. ASSUME NEW e \in ToSet(t)
          PROVE  e \in ToSet(s)
      <3>1. PICK i \in 1 .. n - 1 : e = t[i]
        BY <1>3 DEF ToSet
      <3>2. e = s[i + 1] /\ i + 1 \in 1 .. n
        BY <1>1, <1>4, <3>1
      <3>3. QED
        BY <1>2, <3>2 DEF ToSet
    <2>3. QED
      BY <1>5, <2>1, <2>2
  <1>7. ASSUME IsInjective(s)
        PROVE  IsInjective(t) /\ s[1] \notin ToSet(t)
    <2>1. \A i, j \in 1 .. n : s[i] = s[j] => i = j
      BY <1>2, <1>7 DEF IsInjective
    <2>2. \A i, j \in 1 .. n - 1 : t[i] = t[j] => i = j
      <3>1. SUFFICES ASSUME NEW i \in 1 .. n - 1, NEW j \in 1 .. n - 1, t[i] = t[j]
                     PROVE  i = j
        OBVIOUS
      <3>2. s[i + 1] = s[j + 1]
        BY <1>1, <3>1
      <3>3. i + 1 = j + 1
        BY <1>4, <2>1, <3>2
      <3>4. QED
        BY <1>1, <3>3
    <2>3. \A i \in 1 .. n - 1 : t[i] # s[1]
      BY <1>1, <1>4, <2>1
    <2>4. QED
      BY <1>3, <2>2, <2>3 DEF IsInjective, ToSet
  <1>8. QED
    BY <1>1, <1>5, <1>6, <1>7 DEF t

\* While the console has not restarted and nothing is run past it.
Alone == ~restarted /\ ~byHand

\* The images of q have their rows.
Covers(r, rows, q) == Readable(r[q]) => KeysOf(RowsOf(q, r[q])) \subseteq KeysOf(rows)

\* A collection has the rows of what it is done with, each once.
Kept(c, r, file) ==
  /\ c.pc # "idle" => c.kind # "batch" /\ c.wanted \subseteq Products
  /\ c.pc = "pages" \/ AtImages(c) =>
       /\ KeysOnce(c.rows) /\ IsInjective(c.todo) /\ c.todo \in Seq(Products)
       /\ \A row \in ToSet(c.rows) : row.product \notin ToSet(c.todo)
       /\ \A q \in c.wanted \ c.failed : q \in ToSet(c.todo) \/ Covers(r, c.rows, q)
  /\ c.pc = "write" =>
       /\ KeysOnce(c.merged)
       /\ \A q \in c.wanted \ c.failed : Covers(r, c.merged, q)
       /\ c.kind = "details" => ToSet(c.old) \subseteq ToSet(c.merged)
  /\ c.pc = "exit" =>
       /\ file # Absent => KeysOnce(file)
       /\ \A q \in c.wanted \ c.failed : Covers(r, IF file = Absent THEN <<>> ELSE file, q)
       /\ c.kind = "details" => ToSet(c.old) \subseteq ToSet(IF file = Absent THEN <<>> ELSE file)

\* While there is no more than the console's one job, a collection runs inside it,
\* and what it holds and what it left are whole.
WholeInv ==
  Alone => /\ crawled # Absent => KeysOnce(crawled)
           /\ \A w \in Procs : coll[w].pc # "idle" => job = w
           /\ \A w \in Procs : Kept(coll[w], raw, crawled)

\* Rows of a product are its own.
LEMMA KeysApart ==
  ASSUME NEW q \in Products, NEW r \in Records, NEW rows \in Seq(CrawledRow),
         \A row \in ToSet(rows) : row.product # q
  PROVE  KeysOf(rows) \cap KeysOf(RowsOf(q, r)) = {}
  <1>1. \A row \in ToSet(RowsOf(q, r)) : row.product = q
    BY RowsOfFacts
  <1>2. QED
    BY <1>1 DEF KeysOf, RowKey

\* A collection alone that takes the next of its products keeps its rows whole.
LEMMA KeptPages ==
  ASSUME CollType, NEW w \in Procs,
         \/ ReuseRecord(w) \/ OpenProduct(w) \/ OpenImage(w) \/ SaveImage(w)
         \/ KeepRecord(w) \/ FailProduct(w),
         Kept(coll[w], raw, crawled)
  PROVE  Kept(coll'[w], raw', crawled') /\ crawled' = crawled
  <1> DEFINE c == coll[w]
             q == Head(c.todo)
  <1>1. /\ c \in Gathering /\ (c.pc = "pages" \/ AtImages(c)) /\ c.todo # <<>>
        /\ c.rows \in Seq(CrawledRow) /\ crawled' = crawled
    <2>1. InPages(w) \/ AtImages(c)
      BY DEF ReuseRecord, OpenProduct, OpenImage, SaveImage, KeepRecord, FailProduct, MoreImages, AtImages
    <2>2. Downloading(c) /\ c \in Gathering /\ c.rows \in Seq(CrawledRow)
      BY DEF CollType, Gathering
    <2>3. c.todo # <<>>
      BY <2>1, <2>2 DEF InPages, Downloading, Resting
    <2>4. crawled' = crawled
      BY DEF ReuseRecord, OpenProduct, OpenImage, SaveImage, KeepRecord, FailProduct
    <2>5. QED
      BY <2>1, <2>2, <2>3, <2>4 DEF InPages
  <1>10. c.pc # "idle"
    BY <1>1 DEF AtImages
  <1>2. /\ c.kind # "batch" /\ c.wanted \subseteq Products
        /\ KeysOnce(c.rows) /\ IsInjective(c.todo) /\ c.todo \in Seq(Products)
        /\ \A row \in ToSet(c.rows) : row.product \notin ToSet(c.todo)
        /\ \A p \in c.wanted \ c.failed : p \in ToSet(c.todo) \/ Covers(raw, c.rows, p)
    BY <1>1, <1>10 DEF Kept
  <1>3. /\ Tail(c.todo) \in Seq(Products) /\ q \in ToSet(c.todo) /\ q \in Products
        /\ \A e : e \in ToSet(c.todo) <=> e = q \/ e \in ToSet(Tail(c.todo))
        /\ IsInjective(Tail(c.todo)) /\ q \notin ToSet(Tail(c.todo))
    BY <1>1, <1>2, TailFacts
  <1>4. CASE FailProduct(w)
    <2>1. /\ coll'[w].pc = "pages" /\ coll'[w].todo = Tail(c.todo) /\ coll'[w].rows = c.rows
          /\ coll'[w].failed = c.failed \cup {q} /\ coll'[w].kind = c.kind /\ coll'[w].wanted = c.wanted
          /\ raw' = raw
      BY <1>1, <1>4 DEF FailProduct, CollType, Gathering
    <2> HIDE DEF c, q
    <2>2. QED
      BY <1>1, <1>2, <1>3, <2>1 DEF Kept
  <1>5. ASSUME NEW new \in Seq(CrawledRow), KeysOnce(new), \A row \in ToSet(new) : row.product = q,
               \A p \in Products : p # q => raw'[p] = raw[p],
               Covers(raw', new, q),
               coll'[w].pc = "pages", coll'[w].todo = Tail(c.todo), coll'[w].rows = c.rows \o new,
               coll'[w].failed = c.failed, coll'[w].kind = c.kind, coll'[w].wanted = c.wanted
        PROVE  Kept(coll'[w], raw', crawled')
    <2> DEFINE rows == c.rows \o new
    <2>1. /\ coll'[w].pc = "pages" /\ coll'[w].todo = Tail(c.todo) /\ coll'[w].rows = rows
          /\ coll'[w].failed = c.failed /\ coll'[w].kind = c.kind /\ coll'[w].wanted = c.wanted
      BY <1>5
    <2>2. KeysOf(c.rows) \cap KeysOf(new) = {}
      <3>1. \A row \in ToSet(c.rows) : row.product # q
        BY <1>2, <1>3
      <3>2. QED
        BY <1>5, <3>1 DEF KeysOf, RowKey
    <2>3. /\ ToSet(rows) = ToSet(c.rows) \cup ToSet(new)
          /\ KeysOf(rows) = KeysOf(c.rows) \cup KeysOf(new)
          /\ KeysOnce(rows)
      BY <1>1, <1>2, <1>5, <2>2, JoinFacts
    <2> HIDE DEF rows, c, q
    <2>4. \A row \in ToSet(rows) : row.product \notin ToSet(Tail(c.todo))
      BY <1>2, <1>3, <1>5, <2>3
    <2>5. \A p \in c.wanted \ c.failed : p \in ToSet(Tail(c.todo)) \/ Covers(raw', rows, p)
      <3> SUFFICES ASSUME NEW p \in c.wanted \ c.failed, p \notin ToSet(Tail(c.todo))
                   PROVE  Covers(raw', rows, p)
        OBVIOUS
      <3>1. CASE p = q
        BY <1>5, <2>3, <3>1 DEF Covers
      <3>2. CASE p # q
        <4>1. Covers(raw, c.rows, p) /\ raw'[p] = raw[p]
          BY <1>2, <1>3, <1>5, <3>2
        <4>2. QED
          BY <2>3, <4>1 DEF Covers
      <3>3. QED
        BY <3>1, <3>2
    <2>6. QED
      BY <1>2, <1>3, <2>1, <2>3, <2>4, <2>5 DEF Kept
  <1>6. CASE ReuseRecord(w)
    <2> DEFINE new == IF Readable(raw[q]) THEN RowsOf(q, raw[q]) ELSE <<>>
    <2>1. /\ raw' = raw /\ coll'[w].pc = "pages" /\ coll'[w].todo = Tail(c.todo)
          /\ coll'[w].rows = c.rows \o new
          /\ coll'[w].failed = c.failed /\ coll'[w].kind = c.kind /\ coll'[w].wanted = c.wanted
      BY <1>1, <1>6 DEF ReuseRecord, InPages, CollType, Gathering
    <2>2. /\ new \in Seq(CrawledRow) /\ KeysOnce(new) /\ \A row \in ToSet(new) : row.product = q
      <3>1. CASE Readable(raw[q])
        BY <1>3, <3>1, RowsOfFacts DEF Readable
      <3>2. CASE ~Readable(raw[q])
        BY <3>2 DEF KeysOnce, ToSet
      <3>3. QED
        BY <3>1, <3>2
    <2>3. Covers(raw', new, q)
      BY <2>1 DEF Covers
    <2> HIDE DEF new
    <2>4. QED
      BY <1>1, <1>5, <2>1, <2>2, <2>3
  <1>7. CASE KeepRecord(w)
    <2> DEFINE r == c.record
    <2>1. /\ raw' = [raw EXCEPT ![q] = r] /\ AtImages(c)
          /\ coll'[w].pc = "pages" /\ coll'[w].todo = Tail(c.todo)
          /\ coll'[w].rows = c.rows \o RowsOf(q, r)
          /\ coll'[w].failed = c.failed /\ coll'[w].kind = c.kind /\ coll'[w].wanted = c.wanted
      BY <1>1, <1>7 DEF KeepRecord, AtImages, CollType, Gathering
    <2>2. r \in Records
      <3>1. Downloading(c)
        BY DEF CollType
      <3>2. QED
        BY <1>3, <2>1, <3>1, OwnPaths DEF Downloading, Resting
    <2> HIDE DEF r, q
    <2>4. /\ RowsOf(q, r) \in Seq(CrawledRow) /\ KeysOnce(RowsOf(q, r))
          /\ \A row \in ToSet(RowsOf(q, r)) : row.product = q
      BY <1>3, <2>2, RowsOfFacts
    <2>5. raw'[q] = r /\ \A p \in Products : p # q => raw'[p] = raw[p]
      BY <1>3, <2>1 DEF CollType
    <2>6. Covers(raw', RowsOf(q, r), q)
      BY <2>5 DEF Covers
    <2> HIDE DEF c
    <2>7. QED
      BY <1>1, <1>5, <2>1, <2>4, <2>5, <2>6
  <1>9. CASE OpenProduct(w) \/ OpenImage(w) \/ SaveImage(w)
    <2>1. /\ coll'[w].pc \in {"images", "image"} /\ coll'[w].todo = c.todo /\ coll'[w].rows = c.rows
          /\ coll'[w].failed = c.failed /\ coll'[w].kind = c.kind /\ coll'[w].wanted = c.wanted
          /\ raw' = raw
      BY <1>1, <1>9 DEF OpenProduct, OpenImage, SaveImage, CollType, Gathering
    <2> HIDE DEF c, q
    <2>2. QED
      BY <1>1, <1>2, <2>1 DEF Kept, AtImages
  <1>8. QED
    BY <1>1, <1>4, <1>6, <1>7, <1>9

\* A collection alone that is done with its products leaves the file whole.
LEMMA KeptWrites ==
  ASSUME CollType, NEW w \in Procs, crawled # Absent => KeysOnce(crawled),
         CollectsNothing(w) \/ CollectOpens(w) \/ CollectCloses(w) \/ CollectExits(w) \/ CollectDies(w),
         Kept(coll[w], raw, crawled)
  PROVE  Kept(coll'[w], raw', crawled') /\ (crawled' # Absent => KeysOnce(crawled'))
  <1> DEFINE c    == coll[w]
             file == IF crawled = Absent THEN <<>> ELSE crawled
  <1>1. /\ c \in Gathering /\ c.rows \in Seq(CrawledRow) /\ c.merged \in Seq(CrawledRow)
        /\ file \in Seq(CrawledRow) /\ raw' = raw
    BY DEF CollType, Gathering, CollectsNothing, CollectOpens, CollectCloses, CollectExits, CollectDies
  <1>2. KeysOnce(<<>>) /\ ToSet(<<>>) = {} /\ KeysOf(<<>>) = {}
    BY DEF KeysOnce, KeysOf, ToSet
  <1>3. KeysOnce(file)
    BY <1>2
  <1>4. CASE CollectsNothing(w)
    <2>1. /\ coll'[w].pc = "exit" /\ coll'[w].failed = c.failed /\ coll'[w].kind = c.kind
          /\ coll'[w].wanted = c.wanted /\ coll'[w].old = file /\ crawled' = crawled
          /\ c.pc = "pages" /\ c.todo = <<>> /\ c.rows = <<>>
      BY <1>1, <1>4 DEF CollectsNothing, CollType, Gathering
    <2>2. /\ c.kind # "batch" /\ c.wanted \subseteq Products
          /\ \A q \in c.wanted \ c.failed : Covers(raw, <<>>, q)
      BY <1>2, <2>1 DEF Kept
    <2> HIDE DEF c
    <2>3. \A q \in c.wanted \ c.failed : Covers(raw, file, q)
      BY <1>2, <2>2 DEF Covers
    <2>4. QED
      BY <1>1, <1>2, <1>3, <2>1, <2>2, <2>3 DEF Kept, AtImages
  <1>5. CASE CollectOpens(w)
    <2> DEFINE merged == IF c.kind = "details" /\ crawled # Absent THEN MergeRows(file, c.rows) ELSE c.rows
    <2>1. /\ coll'[w].pc = "write" /\ coll'[w].failed = c.failed /\ coll'[w].kind = c.kind
          /\ coll'[w].wanted = c.wanted /\ coll'[w].old = file /\ coll'[w].merged = merged
          /\ crawled' = <<>> /\ c.pc = "pages" /\ c.todo = <<>>
      BY <1>1, <1>5 DEF CollectOpens, CollType, Gathering
    <2>2. /\ c.kind # "batch" /\ c.wanted \subseteq Products /\ KeysOnce(c.rows)
          /\ \A q \in c.wanted \ c.failed : Covers(raw, c.rows, q)
      BY <1>2, <2>1 DEF Kept
    <2>3. /\ KeysOnce(merged) /\ KeysOf(c.rows) \subseteq KeysOf(merged)
          /\ c.kind = "details" => ToSet(file) \subseteq ToSet(merged)
      <3>1. CASE c.kind = "details" /\ crawled # Absent
        BY <1>1, <1>3, <3>1, MergeRowsFacts
      <3>2. CASE ~(c.kind = "details" /\ crawled # Absent)
        BY <1>2, <2>2, <3>2
      <3>3. QED
        BY <3>1, <3>2
    <2> HIDE DEF merged, c, file
    <2>4. \A q \in c.wanted \ c.failed : Covers(raw, merged, q)
      BY <2>2, <2>3 DEF Covers
    <2>5. QED
      BY <1>1, <1>2, <2>1, <2>2, <2>3, <2>4 DEF Kept, AtImages
  <1>6. CASE CollectCloses(w)
    <2>1. /\ coll'[w].pc = "exit" /\ coll'[w].failed = c.failed /\ coll'[w].kind = c.kind
          /\ coll'[w].wanted = c.wanted /\ coll'[w].old = c.old /\ crawled' = c.merged
          /\ c.pc = "write"
      BY <1>1, <1>6 DEF CollectCloses, CollType, Gathering
    <2>2. c.merged # Absent
      BY <1>1, StartsAssumption
    <2>3. /\ c.kind # "batch" /\ c.wanted \subseteq Products /\ KeysOnce(c.merged)
          /\ \A q \in c.wanted \ c.failed : Covers(raw, c.merged, q)
          /\ c.kind = "details" => ToSet(c.old) \subseteq ToSet(c.merged)
      BY <2>1 DEF Kept
    <2>4. (IF crawled' = Absent THEN <<>> ELSE crawled') = c.merged
      BY <2>1, <2>2
    <2> HIDE DEF c
    <2>5. QED
      BY <1>1, <2>1, <2>3, <2>4 DEF Kept, AtImages
  <1>7. CASE CollectExits(w)
    <2>1. coll'[w] = NoCollection /\ crawled' = crawled
      BY <1>7 DEF CollectExits, CollType
    <2>2. QED
      BY <2>1 DEF Kept, AtImages, NoCollection
  <1>8. CASE CollectDies(w)
    <2>1. /\ coll'[w] = NoCollection
          /\ \/ crawled' = crawled
             \/ c.pc = "write" /\ \E n \in 0 .. Len(c.merged) : crawled' = SubSeq(c.merged, 1, n)
      BY <1>8 DEF CollectDies, CollType
    <2>2. c.pc = "write" => KeysOnce(c.merged)
      BY DEF Kept
    <2> HIDE DEF c
    <2>3. crawled' # Absent => KeysOnce(crawled')
      BY <1>1, <2>1, <2>2, StartFacts
    <2>4. QED
      BY <2>1, <2>3 DEF Kept, AtImages, NoCollection
  <1>9. QED
    BY <1>4, <1>5, <1>6, <1>7, <1>8

\* A collection alone begins on the list.
LEMMA KeptBegun ==
  ASSUME ListType, CollType, NEW w \in Procs, NEW force \in BOOLEAN, CollectDetails(w, force)
  PROVE  Kept(coll'[w], raw', crawled') /\ crawled' = crawled
  <1>1. listed \in Seq(Products) /\ IsInjective(listed) /\ crawled' = crawled
    BY DEF CollectDetails, Collecting, ListType
  <1>2. PICK kind \in {"force", "details"} : Collecting(w, kind, listed)
    BY DEF CollectDetails
  <1> DEFINE next == [NoCollection EXCEPT !.pc = "pages", !.kind = kind,
                                          !.wanted = ToSet(listed), !.todo = listed]
  <1>3. coll'[w] = next
    BY <1>2 DEF Collecting, CollType
  <1>4. /\ next.pc = "pages" /\ next.kind = kind /\ next.wanted = ToSet(listed) /\ next.todo = listed
        /\ next.rows = <<>> /\ next.failed = {}
    BY DEF NoCollection
  <1> HIDE DEF next
  <1>5. ToSet(listed) \subseteq Products
    BY <1>1 DEF ToSet
  <1>6. KeysOnce(<<>>) /\ ToSet(<<>>) = {}
    BY DEF KeysOnce, ToSet
  <1>7. QED
    BY <1>1, <1>3, <1>4, <1>5, <1>6 DEF Kept, AtImages

\* The collection that moves is the only one.
LEMMA WholeMoved ==
  ASSUME CollType, NEW w \in Procs, Alone, WholeInv,
         \A v \in Procs : v # w => coll[v].pc = "idle",
         \A v \in Procs : v # w => coll'[v] = coll[v],
         crawled' # Absent => KeysOnce(crawled'),
         Kept(coll'[w], raw', crawled'),
         coll'[w].pc # "idle" => job' = w
  PROVE  WholeInv'
  <1>1. \A v \in Procs : coll'[v].pc # "idle" => job' = v
    <2>1. \A v \in Procs : v = w \/ coll'[v].pc = "idle"
      OBVIOUS
    <2>2. QED
      BY <2>1
  <1>2. \A v \in Procs : Kept(coll'[v], raw', crawled')
    <2>1. \A v \in Procs : v # w => coll'[v].pc = "idle"
      OBVIOUS
    <2>2. QED
      BY <2>1 DEF Kept, AtImages
  <1>3. QED
    BY <1>1, <1>2 DEF WholeInv

\* Only one that ends loses the console's eye, but for a restart.
LEMMA OthersRest ==
  ASSUME WholeInv, Alone, NEW w \in Procs, coll[w].pc # "idle"
  PROVE  \A v \in Procs : v # w => coll[v].pc = "idle"
  BY DEF WholeInv

\* The process that moves is at work, and it alone moves.
LEMMA MovesRest ==
  ASSUME CollType, NEW w \in Procs, CollectSteps(w) \/ CollectDies(w)
  PROVE  coll[w].pc # "idle" /\ \A v \in Procs : v # w => coll'[v] = coll[v]
  BY DEF CollectSteps, CollectDies, ReuseRecord, OpenProduct, OpenImage, SaveImage, KeepRecord, FailProduct,
         InPages, MoreImages, CollectsNothing, CollectOpens, CollectCloses, CollectExits, CollType

\* Every step keeps what is whole.
LEMMA WholeStep ==
  ListType /\ CollType /\ WholeInv /\ [BatchNext]_batchVars => WholeInv'
  <1> SUFFICES ASSUME ListType, CollType, WholeInv, BatchNext \/ UNCHANGED batchVars, Alone'
               PROVE  WholeInv'
    BY DEF WholeInv
  <1>1. CASE DiscoverByHand \/ \E w \in Procs : CollectByHand(w) \/ ReadByHand(w)
    BY <1>1 DEF DiscoverByHand, CollectByHand, ReadByHand, ByHand, Alone
  <1>2. CASE ConsoleRestarts
    BY <1>2 DEF ConsoleRestarts, Alone
  <1>3. CASE UNCHANGED batchVars
    <2>1. UNCHANGED <<raw, crawled, coll, job, restarted, byHand>>
      BY <1>3 DEF batchVars, collectionVars, consoleVars
    <2>2. QED
      BY <2>1 DEF WholeInv, Alone
  <1>4. CASE \/ JobDiscover \/ \E w \in Procs, force \in BOOLEAN : JobClassify(w, force)
             \/ \E w \in Procs, offset \in 0 .. 1, limit \in 0 .. 1 : JobOcr(w, offset, limit)
    <2>1. UNCHANGED <<raw, crawled, coll, restarted, byHand>> /\ job = "none"
      BY <1>4 DEF JobDiscover, JobClassify, JobOcr, Start, ClassifyImages, ProcessBatch, collectionVars
    <2>2. QED
      BY <2>1, ProcsAssumption DEF WholeInv, Alone
  <1>5. ASSUME NEW w \in Procs, NEW force \in BOOLEAN, JobCollect(w, force)
        PROVE  WholeInv'
    <2>1. /\ UNCHANGED <<restarted, byHand>> /\ job = "none" /\ job' = w
          /\ CollectDetails(w, force)
      BY <1>5 DEF JobCollect, Start
    <2>2. Alone /\ \A v \in Procs : coll[v].pc = "idle"
      BY <2>1, ProcsAssumption DEF WholeInv, Alone
    <2>3. \A v \in Procs : v # w => coll'[v] = coll[v]
      BY <2>1 DEF CollectDetails, Collecting, CollType
    <2>4. Kept(coll'[w], raw', crawled') /\ crawled' = crawled
      BY <2>1, KeptBegun
    <2>5. crawled # Absent => KeysOnce(crawled)
      BY <2>2 DEF WholeInv
    <2>6. QED
      BY <2>1, <2>2, <2>3, <2>4, <2>5, WholeMoved
  <1>6. ASSUME NEW w \in Procs, CollectSteps(w) \/ CollectDies(w), Watch, UNCHANGED <<restarted, byHand>>
        PROVE  WholeInv'
    <2>1. coll[w].pc # "idle" /\ \A v \in Procs : v # w => coll'[v] = coll[v]
      BY <1>6, MovesRest
    <2>2. Alone
      BY <1>6 DEF Alone
    <2>3. /\ job = w /\ Kept(coll[w], raw, crawled)
          /\ crawled # Absent => KeysOnce(crawled)
          /\ \A v \in Procs : v # w => coll[v].pc = "idle"
      BY <2>1, <2>2 DEF WholeInv
    <2>4. coll'[w].pc # "idle" => job' = w
      BY <1>6, <2>3 DEF Watch
    <2>5. Kept(coll'[w], raw', crawled') /\ (crawled' # Absent => KeysOnce(crawled'))
      <3>1. CASE \/ ReuseRecord(w) \/ OpenProduct(w) \/ OpenImage(w) \/ SaveImage(w)
                 \/ KeepRecord(w) \/ FailProduct(w)
        BY <2>3, <3>1, KeptPages
      <3>2. CASE CollectsNothing(w) \/ CollectOpens(w) \/ CollectCloses(w) \/ CollectExits(w)
                      \/ CollectDies(w)
        BY <2>3, <3>2, KeptWrites
      <3>3. QED
        BY <1>6, <3>1, <3>2 DEF CollectSteps
    <2>6. QED
      BY <2>1, <2>2, <2>3, <2>4, <2>5, WholeMoved
  <1>7. CASE Works \/ Dies
    <2>1. Watch /\ UNCHANGED <<restarted, byHand>>
      BY <1>7 DEF Works, Dies
    <2>2. CASE \E w \in Procs : CollectSteps(w) \/ CollectDies(w)
      BY <1>6, <2>1, <2>2
    <2>3. CASE \A w \in Procs : ~CollectSteps(w) /\ ~CollectDies(w)
      <3>1. UNCHANGED collectionVars
        BY <1>7, <2>3, ReaderLeaves DEF Works, Dies
      <3>2. UNCHANGED <<raw, crawled, coll>>
        BY <3>1 DEF collectionVars
      <3>3. \A w \in Procs : coll'[w].pc # "idle" /\ job = w => job' = w
        BY <2>1, <3>2 DEF Watch
      <3>4. QED
        BY <2>1, <3>2, <3>3 DEF WholeInv, Alone
    <2>4. QED
      BY <2>2, <2>3
  <1>8. QED
    BY <1>1, <1>2, <1>3, <1>4, <1>5, <1>7 DEF BatchNext

\* The rows a batch can start with are told apart by their keys.
LEMMA WholeInit == BatchInit => WholeInv
  <1> SUFFICES ASSUME NEW start \in Starts, CollectionInit(start.raw, start.crawled)
               PROVE  WholeInv
    BY DEF BatchInit
  <1>1. crawled = start.crawled /\ coll = [w \in Procs |-> NoCollection]
    BY DEF CollectionInit
  <1>2. \A w \in Procs : coll[w].pc = "idle"
    BY <1>1 DEF NoCollection
  <1>3. QED
    BY <1>1, <1>2, StartsAssumption DEF WholeInv, Kept, AtImages

\* While the console has not restarted and nothing is run past it, a collection
\* that ends leaves crawled_products.csv whole (cli.py, collect_details):
\* every image of every product it did not fail on has its row, no image has two
\* rows, and the rows that were there stay, whatever died before in the middle of
\* rewriting the file.
THEOREM CollectionsEndWhole == BatchSpec => []CollectionIsWhole
  <1>1. WholeInv => CollectionIsWhole
    BY DEF WholeInv, CollectionIsWhole, LeavesItWhole, Kept, Covers, Alone, KeysOnce
  <1>2. QED
    BY <1>1, WholeInit, WholeStep, CollTypeInit, BackStep, ListTypeStep, DiscTypeInit, DiscTypeStep,
       PTL DEF BatchSpec

-----------------------------------------------------------------------------
(* Images that were written whole.                                         *)

\* While the console has not restarted, nothing is run past it and it has not
\* forced a collection.
Sole == Alone /\ ~forced

\* An image that was written whole, of a product that has its record.
Firm(path, r, t) == path \notin t /\ path[1] \in Products /\ r[path[1]] # Absent
FirmRows(rows, r, t) == \A row \in ToSet(rows) : row.path # NoImage => Firm(row.path, r, t)

\* A collection holds such rows, and gets the images of a product without a record.
GetsNew(c, r, t) ==
  /\ FirmRows(c.rows, r, t) /\ FirmRows(c.merged, r, t)
  /\ c.pc # "idle" => c.kind = "details"
  /\ AtImages(c) => /\ r[Head(c.todo)] = Absent
                    /\ \A i \in 1 .. c.got : c.record.paths[i] \notin t

\* Only images of products without a record are torn.
TornInv ==
  Sole => /\ \A q \in Products : Readable(raw[q]) => \A path \in ToSet(raw[q].paths) : Firm(path, raw, torn)
          /\ crawled # Absent => FirmRows(crawled, raw, torn)
          /\ \A w \in Procs : GetsNew(coll[w], raw, torn)

\* A process that collects nothing holds nothing.
LEMMA NothingTorn == ASSUME NEW r, NEW t PROVE GetsNew(NoCollection, r, t)
  BY DEF GetsNew, FirmRows, NoCollection, ToSet, AtImages

\* The images of a product's record carry its name.
LEMMA FirmRecord ==
  ASSUME NEW q \in Products, NEW r \in RecordsOf(q), NEW records, NEW t, records[q] # Absent,
         \A path \in ToSet(r.paths) : path \notin t
  PROVE  \A path \in ToSet(r.paths) : Firm(path, records, t)
  <1>1. /\ r.paths \in Seq(Path) /\ Len(r.paths) \in Nat
        /\ \A i \in 1 .. Len(r.paths) : r.paths[i][1] = q
    BY OwnPaths
  <1>2. DOMAIN r.paths = 1 .. Len(r.paths)
    BY <1>1
  <1>3. QED
    BY <1>1, <1>2 DEF ToSet, Firm

\* A batch starts with images that are whole.
LEMMA TornInit == BatchInit => TornInv
  <1> SUFFICES ASSUME NEW start \in Starts, CollectionInit(start.raw, start.crawled)
               PROVE  TornInv
    BY DEF BatchInit
  <1>1. raw = start.raw /\ crawled = start.crawled /\ torn = {} /\ coll = [w \in Procs |-> NoCollection]
    BY DEF CollectionInit
  <1>2. \A q \in Products : Readable(raw[q]) =>
          raw[q] \in RecordsOf(q) /\ raw[q] # Absent /\ \A path \in ToSet(raw[q].paths) : path \notin torn
    BY <1>1, StartsAssumption, PagesAssumption DEF Readable
  <1>3. \A q \in Products : Readable(raw[q]) => \A path \in ToSet(raw[q].paths) : Firm(path, raw, torn)
    BY <1>2, FirmRecord
  <1>4. ASSUME crawled # Absent, NEW row \in ToSet(crawled), row.path # NoImage
        PROVE  Firm(row.path, raw, torn)
    <2>1. crawled \in Seq(CrawledRow)
      BY <1>1, <1>4, StartsAssumption
    <2>2. row \in CrawledRow
      BY <1>4, <2>1 DEF ToSet
    <2>3. row.product \in Products
      BY <2>2 DEF CrawledRow
    <2>4. Readable(raw[row.product]) /\ row.path \in ToSet(raw[row.product].paths)
      BY <1>1, <1>4, StartsAssumption
    <2>5. QED
      BY <1>3, <2>3, <2>4
  <1>5. \A w \in Procs : GetsNew(coll[w], raw, torn)
    BY <1>1, NothingTorn
  <1>6. QED
    BY <1>3, <1>4, <1>5 DEF TornInv, FirmRows

\* The collection that moves is the only one.
LEMMA TornMoved ==
  ASSUME CollType, Sole, TornInv, NEW w \in Procs, NEW next \in Gathering,
         coll' = [coll EXCEPT ![w] = next], \A v \in Procs : v # w => coll[v].pc = "idle",
         \A path : Firm(path, raw, torn) => Firm(path, raw', torn'),
         \A q \in Products : raw'[q] = raw[q] \/ \A path \in ToSet(raw'[q].paths) : Firm(path, raw', torn'),
         crawled' = crawled \/ FirmRows(crawled', raw', torn'),
         GetsNew(next, raw', torn')
  PROVE  TornInv'
  <1>1. coll'[w] = next /\ \A v \in Procs : v # w => coll'[v] = coll[v]
    BY Moved
  <1>2. \A rows : FirmRows(rows, raw, torn) => FirmRows(rows, raw', torn')
    BY DEF FirmRows
  <1>3. \A v \in Procs : GetsNew(coll'[v], raw', torn')
    <2>1. \A v \in Procs : v # w => GetsNew(coll[v], raw', torn')
      BY <1>2 DEF TornInv, GetsNew, AtImages
    <2>2. QED
      BY <1>1, <2>1
  <1>4. \A q \in Products : Readable(raw'[q]) => \A path \in ToSet(raw'[q].paths) : Firm(path, raw', torn')
    BY DEF TornInv
  <1>5. crawled' # Absent => FirmRows(crawled', raw', torn')
    BY <1>2 DEF TornInv
  <1>6. QED
    BY <1>3, <1>4, <1>5 DEF TornInv, Readable, Records, RecordsOf, RecordOf, FirmRows, Firm, GetsNew, AtImages

\* A collection that takes the next of its products, or an image of it, writes
\* what no record names.
LEMMA TornPages ==
  ASSUME CollType, BackInv, Sole, TornInv, NEW w \in Procs, \A v \in Procs : v # w => coll[v].pc = "idle",
         \/ ReuseRecord(w) \/ OpenProduct(w) \/ OpenImage(w) \/ SaveImage(w)
         \/ KeepRecord(w) \/ FailProduct(w)
  PROVE  TornInv'
  <1> DEFINE c == coll[w]
             q == Head(c.todo)
             n == Len(c.record.paths)
  <1>1. /\ c \in Gathering /\ c.rows \in Seq(CrawledRow) /\ c.record \in Records \cup {Absent} /\ c.got \in Nat
        /\ Downloading(c) /\ GetsNew(c, raw, torn) /\ coll' \in [Procs -> Gathering]
        /\ c.kind = "details" => c.todo \in Seq(Products)
    BY BackPages DEF CollType, Gathering, TornInv
  <1>2. c.todo # <<>> /\ c.pc \in {"pages", "images", "image"}
    <2>1. InPages(w) \/ AtImages(c)
      BY DEF ReuseRecord, OpenProduct, OpenImage, SaveImage, KeepRecord, FailProduct, MoreImages, AtImages
    <2>2. AtImages(c) => c.todo # <<>>
      BY <1>1 DEF Downloading, Resting
    <2>3. QED
      BY <2>1, <2>2 DEF InPages, AtImages
  <1>3. c.kind = "details" /\ q \in Products /\ FirmRows(c.rows, raw, torn) /\ FirmRows(c.merged, raw, torn)
    BY <1>1, <1>2 DEF GetsNew
  <1>4. AtImages(c) => /\ c.record \in RecordsOf(q) /\ raw[q] = Absent
                       /\ c.got <= n /\ n \in Nat /\ c.record.paths \in Seq(Path)
                       /\ (c.pc = "image" => c.got < n)
                       /\ \A i \in 1 .. n : c.record.paths[i][1] = q /\ c.record.paths[i][2] = i
                       /\ \A i \in 1 .. c.got : c.record.paths[i] \notin torn
    <2>1. AtImages(c) => /\ c.record \in RecordsOf(q) /\ c.got <= n
                         /\ (c.pc = "image" => c.got < n)
      BY <1>1 DEF Downloading, Resting
    <2>2. AtImages(c) => /\ n \in Nat /\ c.record.paths \in Seq(Path)
                         /\ \A i \in 1 .. n : c.record.paths[i][1] = q /\ c.record.paths[i][2] = i
      BY <1>3, <2>1, OwnPaths
    <2>3. QED
      BY <1>1, <2>1, <2>2 DEF GetsNew
  <1>5. coll' = [coll EXCEPT ![w] = coll'[w]] /\ coll'[w] \in Gathering
    BY <1>1 DEF ReuseRecord, OpenProduct, OpenImage, SaveImage, KeepRecord, FailProduct, CollType
  <1> HIDE DEF n, q
  <1>6. ASSUME NEW new \in Seq(CrawledRow), FirmRows(new, raw', torn'), crawled' = crawled,
               \A path : Firm(path, raw, torn) => Firm(path, raw', torn'),
               \A p \in Products : raw'[p] = raw[p] \/ \A path \in ToSet(raw'[p].paths) : Firm(path, raw', torn'),
               coll'[w].pc = "pages", coll'[w].kind = c.kind, coll'[w].rows = c.rows \o new,
               coll'[w].merged = c.merged
        PROVE  TornInv'
    <2> DEFINE next == coll'[w]
    <2>1. ToSet(c.rows \o new) = ToSet(c.rows) \cup ToSet(new)
      BY <1>1, <1>6, JoinFacts
    <2> HIDE DEF c
    <2>2. FirmRows(c.rows \o new, raw', torn') /\ FirmRows(c.merged, raw', torn')
      BY <1>3, <1>6, <2>1 DEF FirmRows
    <2>3. GetsNew(next, raw', torn')
      BY <1>3, <1>6, <2>2 DEF GetsNew, AtImages
    <2> HIDE DEF next
    <2>4. QED
      BY <1>5, <1>6, <2>3, TornMoved DEF next
  <1>7. CASE FailProduct(w)
    <2>1. /\ coll'[w].pc = "pages" /\ coll'[w].rows = c.rows /\ coll'[w].kind = c.kind
          /\ coll'[w].merged = c.merged /\ UNCHANGED <<raw, torn, crawled>>
      BY <1>1, <1>7 DEF FailProduct, CollType, Gathering
    <2> HIDE DEF c
    <2>2. GetsNew(coll'[w], raw', torn')
      BY <1>3, <2>1 DEF GetsNew, AtImages, FirmRows, Firm
    <2>3. QED
      BY <1>5, <2>1, <2>2, TornMoved
  <1>8. CASE ReuseRecord(w)
    <2> DEFINE new == IF Readable(raw[q]) THEN RowsOf(q, raw[q]) ELSE <<>>
    <2>1. /\ coll'[w].pc = "pages" /\ coll'[w].rows = c.rows \o new /\ coll'[w].kind = c.kind
          /\ coll'[w].merged = c.merged /\ UNCHANGED <<raw, torn, crawled>>
      BY <1>1, <1>8 DEF ReuseRecord, InPages, CollType, Gathering, q
    <2>2. new \in Seq(CrawledRow) /\ FirmRows(new, raw, torn)
      <3>1. CASE Readable(raw[q])
        <4>1. raw[q] \in Records /\ \A path \in ToSet(raw[q].paths) : Firm(path, raw, torn)
          BY <1>3, <3>1 DEF TornInv, Readable
        <4>2. /\ RowsOf(q, raw[q]) \in Seq(CrawledRow)
              /\ \A row \in ToSet(RowsOf(q, raw[q])) : row.path # NoImage => row.path \in ToSet(raw[q].paths)
          BY <1>3, <4>1, RowsOfFacts
        <4>3. QED
          BY <3>1, <4>1, <4>2 DEF FirmRows
      <3>2. CASE ~Readable(raw[q])
        BY <3>2 DEF FirmRows, ToSet
      <3>3. QED
        BY <3>1, <3>2
    <2> HIDE DEF new, c
    <2>3. QED
      BY <1>6, <2>1, <2>2
  <1>9. CASE OpenProduct(w)
    <2>1. /\ coll'[w].pc = "images" /\ coll'[w].rows = c.rows /\ coll'[w].kind = c.kind
          /\ coll'[w].merged = c.merged /\ coll'[w].todo = c.todo /\ coll'[w].got = c.got
          /\ UNCHANGED <<raw, torn, crawled>>
      <3>1. PICK r : coll' = [coll EXCEPT ![w].pc = "images", ![w].record = r]
        BY <1>9 DEF OpenProduct
      <3>2. coll \in [Procs -> Gathering] /\ UNCHANGED <<raw, torn, crawled>>
        BY <1>9 DEF OpenProduct, CollType
      <3>3. QED
        BY <1>1, <3>1, <3>2 DEF Gathering
    <2>2. c.got = 0
      BY <1>1, <1>9 DEF OpenProduct, InPages, Downloading, AtImages, Resting
    <2>3. raw[q] = Absent
      BY <1>3, <1>9 DEF OpenProduct, Reused, q
    <2> HIDE DEF c
    <2>4. GetsNew(coll'[w], raw', torn')
      BY <1>3, <2>1, <2>2, <2>3 DEF GetsNew, FirmRows, Firm, q
    <2>5. QED
      BY <1>5, <2>1, <2>4, TornMoved
  <1>10. CASE OpenImage(w)
    <2> DEFINE at == c.record.paths[c.got + 1]
    <2>1. /\ coll'[w].pc = "image" /\ coll'[w].rows = c.rows /\ coll'[w].kind = c.kind
          /\ coll'[w].merged = c.merged /\ coll'[w].todo = c.todo /\ coll'[w].got = c.got
          /\ coll'[w].record = c.record /\ UNCHANGED <<raw, crawled>>
          /\ torn' = torn \cup {at} /\ AtImages(c) /\ c.got < n
      BY <1>1, <1>10 DEF OpenImage, MoreImages, ImageAt, CollType, Gathering, AtImages, n
    <2>2. at[1] = q /\ \A i \in 1 .. c.got : c.record.paths[i] # at
      <3>1. c.got + 1 \in 1 .. n /\ \A i \in 1 .. c.got : i \in 1 .. n /\ i # c.got + 1
        BY <1>1, <1>4, <2>1
      <3>2. QED
        BY <1>4, <2>1, <3>1
    <2> HIDE DEF at, c
    <2>3. \A path : Firm(path, raw, torn) => Firm(path, raw', torn')
      BY <1>4, <2>1, <2>2 DEF Firm
    <2>4. GetsNew(coll'[w], raw', torn')
      <3>1. FirmRows(c.rows, raw', torn') /\ FirmRows(c.merged, raw', torn')
        BY <1>3, <2>3 DEF FirmRows
      <3>2. raw'[q] = Absent /\ \A i \in 1 .. c.got : c.record.paths[i] \notin torn'
        BY <1>4, <2>1, <2>2
      <3>3. QED
        BY <1>3, <2>1, <3>1, <3>2 DEF GetsNew, q
    <2>5. QED
      BY <1>5, <2>1, <2>3, <2>4, TornMoved
  <1>11. CASE SaveImage(w)
    <2> DEFINE at == c.record.paths[c.got + 1]
    <2>1. /\ coll'[w].pc = "images" /\ coll'[w].rows = c.rows /\ coll'[w].kind = c.kind
          /\ coll'[w].merged = c.merged /\ coll'[w].todo = c.todo /\ coll'[w].got = c.got + 1
          /\ coll'[w].record = c.record /\ UNCHANGED <<raw, crawled>> /\ AtImages(c)
      BY <1>1, <1>11 DEF SaveImage, CollType, Gathering, AtImages
    <2>2. torn' = torn \ {at}
      <3>1. \A v \in Procs \ {w} : ~Writing(v, ImageAt(w))
        BY DEF Writing
      <3>2. QED
        BY <1>11, <3>1 DEF SaveImage, ImageAt
    <2>3. \A i \in 1 .. c.got + 1 : i \in 1 .. c.got \/ i = c.got + 1
      BY <1>1
    <2>4. \A i \in 1 .. c.got + 1 : c.record.paths[i] \notin torn'
      BY <1>4, <2>1, <2>2, <2>3
    <2> HIDE DEF at, c
    <2>5. \A path : Firm(path, raw, torn) => Firm(path, raw', torn')
      BY <2>1, <2>2 DEF Firm
    <2>6. GetsNew(coll'[w], raw', torn')
      <3>1. FirmRows(c.rows, raw', torn') /\ FirmRows(c.merged, raw', torn')
        BY <1>3, <2>5 DEF FirmRows
      <3>2. QED
        BY <1>3, <1>4, <2>1, <2>4, <3>1 DEF GetsNew, q
    <2>7. QED
      BY <1>5, <2>1, <2>5, <2>6, TornMoved
  <1>12. CASE KeepRecord(w)
    <2> DEFINE r == c.record
    <2>1. /\ coll'[w].pc = "pages" /\ coll'[w].rows = c.rows \o RowsOf(q, r) /\ coll'[w].kind = c.kind
          /\ coll'[w].merged = c.merged /\ UNCHANGED <<torn, crawled>>
          /\ raw' = [raw EXCEPT ![q] = r] /\ AtImages(c) /\ ~(c.got < n)
      BY <1>1, <1>12 DEF KeepRecord, MoreImages, CollType, Gathering, AtImages, q, n
    <2>2. r \in RecordsOf(q) /\ r \in Records /\ r # Absent
      BY <1>3, <1>4, <2>1, OwnPaths, StartsAssumption
    <2>3. raw'[q] = r /\ \A p \in Products : p # q => raw'[p] = raw[p]
      BY <1>3, <2>1 DEF CollType
    <2>4. \A path \in ToSet(r.paths) : path \notin torn'
      <3>1. c.got = n /\ DOMAIN r.paths = 1 .. n
        BY <1>1, <1>4, <2>1 DEF n
      <3>2. QED
        BY <1>4, <2>1, <3>1 DEF ToSet
    <2> HIDE DEF r, c
    <2>5. \A path \in ToSet(r.paths) : Firm(path, raw', torn')
      BY <1>3, <2>2, <2>3, <2>4, FirmRecord
    <2>6. \A path : Firm(path, raw, torn) => Firm(path, raw', torn')
      BY <2>1, <2>2, <2>3 DEF Firm
    <2>7. RowsOf(q, r) \in Seq(CrawledRow) /\ FirmRows(RowsOf(q, r), raw', torn')
      <3>1. /\ RowsOf(q, r) \in Seq(CrawledRow)
            /\ \A row \in ToSet(RowsOf(q, r)) : row.path # NoImage => row.path \in ToSet(r.paths)
        BY <1>3, <2>2, RowsOfFacts
      <3>2. QED
        BY <2>5, <3>1 DEF FirmRows
    <2>8. QED
      BY <1>6, <2>1, <2>3, <2>5, <2>6, <2>7
  <1>13. QED
    BY <1>7, <1>8, <1>9, <1>10, <1>11, <1>12

\* What a collection writes of its rows is what it holds.
LEMMA TornWrites ==
  ASSUME CollType, BackInv, Sole, TornInv, NEW w \in Procs, \A v \in Procs : v # w => coll[v].pc = "idle",
         CollectsNothing(w) \/ CollectOpens(w) \/ CollectCloses(w) \/ CollectExits(w) \/ CollectDies(w)
  PROVE  TornInv'
  <1> DEFINE c    == coll[w]
             file == IF crawled = Absent THEN <<>> ELSE crawled
  <1>1. /\ c \in Gathering /\ c.rows \in Seq(CrawledRow) /\ c.merged \in Seq(CrawledRow)
        /\ file \in Seq(CrawledRow) /\ GetsNew(c, raw, torn) /\ coll' \in [Procs -> Gathering]
    <2>1. CollType'
      BY BackWrites
    <2>2. coll' \in [Procs -> Gathering] /\ coll \in [Procs -> Gathering] /\ GetsNew(c, raw, torn)
      BY <2>1 DEF CollType, TornInv
    <2>3. file \in Seq(CrawledRow)
      BY DEF CollType
    <2>4. c \in Gathering /\ c.rows \in Seq(CrawledRow) /\ c.merged \in Seq(CrawledRow)
      BY <2>2 DEF Gathering
    <2>5. QED
      BY <2>2, <2>3, <2>4
  <1>2. c.pc # "idle"
    BY DEF CollectsNothing, CollectOpens, CollectCloses, CollectExits, CollectDies
  <1>3. c.kind = "details" /\ FirmRows(c.rows, raw, torn) /\ FirmRows(c.merged, raw, torn)
    BY <1>1, <1>2 DEF GetsNew
  <1>4. UNCHANGED <<raw, torn>> /\ coll' = [coll EXCEPT ![w] = coll'[w]] /\ coll'[w] \in Gathering
    BY <1>1 DEF CollectsNothing, CollectOpens, CollectCloses, CollectExits, CollectDies, CollType
  <1>5. FirmRows(<<>>, raw, torn) /\ FirmRows(file, raw, torn)
    BY DEF FirmRows, ToSet, TornInv
  <1>6. CASE CollectsNothing(w) \/ CollectOpens(w) \/ CollectCloses(w)
    <2> DEFINE merged == IF c.kind = "details" /\ crawled # Absent THEN MergeRows(file, c.rows) ELSE c.rows
    <2>1. FirmRows(merged, raw, torn)
      <3>1. ToSet(merged) \subseteq ToSet(file) \cup ToSet(c.rows)
        BY <1>1, MergeRowsFacts
      <3>2. QED
        BY <1>3, <1>5, <3>1 DEF FirmRows
    <2>2. /\ coll'[w].kind = c.kind /\ coll'[w].rows = c.rows /\ coll'[w].merged \in {c.merged, merged}
          /\ coll'[w].pc \in {"write", "exit"} /\ crawled' \in {crawled, <<>>, c.merged}
      BY <1>1, <1>6 DEF CollectsNothing, CollectOpens, CollectCloses, CollType, Gathering
    <2> HIDE DEF merged, c, file
    <2>3. GetsNew(coll'[w], raw, torn)
      BY <1>3, <2>1, <2>2 DEF GetsNew, AtImages
    <2>4. crawled' = crawled \/ FirmRows(crawled', raw, torn)
      BY <1>3, <1>5, <2>2
    <2>5. GetsNew(coll'[w], raw', torn') /\ (crawled' = crawled \/ FirmRows(crawled', raw', torn'))
      BY <1>4, <2>3, <2>4
    <2>6. QED
      BY <1>4, <2>5, TornMoved
  <1>7. CASE CollectExits(w) \/ CollectDies(w)
    <2>1. /\ coll'[w] = NoCollection
          /\ crawled' = crawled \/ \E m \in 0 .. Len(c.merged) : crawled' = SubSeq(c.merged, 1, m)
      BY <1>7 DEF CollectExits, CollectDies, CollType
    <2> HIDE DEF c
    <2>2. crawled' = crawled \/ FirmRows(crawled', raw, torn)
      <3>1. ASSUME NEW m \in 0 .. Len(c.merged)
            PROVE  FirmRows(SubSeq(c.merged, 1, m), raw, torn)
        <4>1. ToSet(SubSeq(c.merged, 1, m)) \subseteq ToSet(c.merged)
          BY <1>1, <3>1, StartFacts
        <4>2. QED
          BY <1>3, <4>1 DEF FirmRows
      <3>2. QED
        BY <2>1, <3>1
    <2>3. GetsNew(coll'[w], raw', torn') /\ (crawled' = crawled \/ FirmRows(crawled', raw', torn'))
      BY <1>4, <2>1, <2>2, NothingTorn
    <2>4. QED
      BY <1>4, <2>3, TornMoved
  <1>8. QED
    BY <1>6, <1>7

\* Every step leaves the images of records whole.
LEMMA TornStep ==
  ListType /\ CollType /\ BackInv /\ WholeInv /\ TornInv /\ [BatchNext]_batchVars => TornInv'
  <1> SUFFICES ASSUME ListType, CollType, BackInv, WholeInv, TornInv, BatchNext \/ UNCHANGED batchVars, Sole'
               PROVE  TornInv'
    BY DEF TornInv
  <1>1. ASSUME UNCHANGED collectionVars, Sole
        PROVE  TornInv'
    <2>1. UNCHANGED <<raw, torn, crawled, coll>>
      BY <1>1 DEF collectionVars
    <2>2. QED
      BY <1>1, <2>1 DEF TornInv, GetsNew, FirmRows, Firm, AtImages, Readable, Records, RecordsOf, RecordOf
  <1>2. CASE DiscoverByHand \/ \E w \in Procs : CollectByHand(w) \/ ReadByHand(w)
    BY <1>2 DEF DiscoverByHand, CollectByHand, ReadByHand, ByHand, Sole, Alone
  <1>3. CASE ConsoleRestarts
    BY <1>3 DEF ConsoleRestarts, Sole, Alone
  <1>4. CASE UNCHANGED batchVars
    BY <1>1, <1>4 DEF batchVars, consoleVars, Sole, Alone
  <1>5. CASE \/ JobDiscover \/ \E w \in Procs, force \in BOOLEAN : JobClassify(w, force)
             \/ \E w \in Procs, offset \in 0 .. 1, limit \in 0 .. 1 : JobOcr(w, offset, limit)
    <2>1. UNCHANGED <<restarted, byHand, forced>> /\ UNCHANGED collectionVars
      BY <1>5 DEF JobDiscover, JobClassify, JobOcr, Start, ClassifyImages, ProcessBatch
    <2>2. QED
      BY <1>1, <2>1 DEF Sole, Alone
  <1>6. ASSUME NEW w \in Procs, NEW force \in BOOLEAN, JobCollect(w, force)
        PROVE  TornInv'
    <2>1. /\ UNCHANGED <<restarted, byHand>> /\ job = "none" /\ forced' = (forced \/ force)
          /\ CollectDetails(w, force)
      BY <1>6 DEF JobCollect, Start
    <2>2. Sole /\ ~force /\ \A v \in Procs : coll[v].pc = "idle"
      BY <2>1, ProcsAssumption DEF WholeInv, Alone, Sole
    <2>3. Collecting(w, "details", listed)
      BY <2>1, <2>2 DEF CollectDetails
    <2> DEFINE next == [NoCollection EXCEPT !.pc = "pages", !.kind = "details",
                                            !.wanted = ToSet(listed), !.todo = listed]
    <2>4. coll' = [coll EXCEPT ![w] = next] /\ UNCHANGED <<raw, torn, crawled>>
      BY <2>3 DEF Collecting
    <2>5. CollType'
      BY <2>1, BackBegun
    <2>6. next \in Gathering
      BY <2>4, <2>5 DEF CollType
    <2>7. GetsNew(next, raw', torn')
      BY DEF GetsNew, FirmRows, NoCollection, ToSet, AtImages
    <2> HIDE DEF next
    <2>8. \A path : Firm(path, raw, torn) => Firm(path, raw', torn')
      BY <2>4
    <2>9. QED
      BY <2>2, <2>4, <2>6, <2>7, <2>8, TornMoved
  <1>7. CASE Works \/ Dies
    <2>1. Sole
      BY <1>7 DEF Works, Dies, Sole, Alone
    <2>2. ASSUME NEW w \in Procs, CollectSteps(w) \/ CollectDies(w)
          PROVE  TornInv'
      <3>1. \A v \in Procs : v # w => coll[v].pc = "idle"
        BY <2>1, <2>2, MovesRest, OthersRest DEF Sole
      <3>2. CASE \/ ReuseRecord(w) \/ OpenProduct(w) \/ OpenImage(w) \/ SaveImage(w)
                 \/ KeepRecord(w) \/ FailProduct(w)
        BY <2>1, <3>1, <3>2, TornPages
      <3>3. CASE CollectsNothing(w) \/ CollectOpens(w) \/ CollectCloses(w) \/ CollectExits(w)
                      \/ CollectDies(w)
        BY <2>1, <3>1, <3>3, TornWrites
      <3>4. QED
        BY <2>2, <3>2, <3>3 DEF CollectSteps
    <2>3. CASE \A w \in Procs : ~CollectSteps(w) /\ ~CollectDies(w)
      <3>1. UNCHANGED collectionVars
        BY <1>7, <2>3, ReaderLeaves DEF Works, Dies
      <3>2. QED
        BY <1>1, <2>1, <3>1
    <2>4. QED
      BY <2>2, <2>3
  <1>8. QED
    BY <1>2, <1>3, <1>4, <1>5, <1>6, <1>7 DEF BatchNext

\* The images a record in crawl_raw or a row of crawled_products.csv names are
\* there (kurly_page.py, collect_product; image_downloader.py), whichever steps fail
\* or die and however collections of the batch overlap; and each was written whole
\* as long as the console, which does not restart, runs alone and forces nothing.
THEOREM RowsStayBacked == BatchSpec => []RowsAreBacked
  <1>1. BackInv /\ TornInv => RowsAreBacked
    <2>1. TornInv /\ Sole => ImagesAreWhole
      BY DEF TornInv, FirmRows, Firm, ImagesAreWhole
    <2>2. QED
      BY <2>1 DEF BackInv, RowsAreBacked, Sole, Alone
  <1>2. QED
    BY <1>1, CollTypeInit, BackStep, TornInit, TornStep, WholeInit, WholeStep, ListTypeStep, DiscTypeInit,
       DiscTypeStep, PTL DEF BatchSpec

-----------------------------------------------------------------------------
(* The rows of products.csv.                                               *)

\* The product and the image a row of products.csv is of.
KeyOf(o) == <<o.product, o.image>>

\* The shape of what the readers keep.
ReaderShape ==
  /\ \E S : out \in Seq(S)
  /\ DOMAIN reader = Procs
  /\ \A w \in Procs : DOMAIN reader[w] = DOMAIN NoReader

\* A reader knows every row that was written.
Knows(w) == reader[w].pc = "rows" => \A i \in 1 .. Len(out) : KeyOf(out[i]) \in reader[w].seen

\* One reader at a time is the console's, and it knows what was written.
OneReader ==
  /\ \A w \in Procs : reader[w].pc # "idle" => job = w
  /\ \A w \in Procs : Knows(w)
  /\ NoRowTwice

\* Until the console restarts or something is run past it, there is one reader, and
\* it knows what was written.
RowInv == ReaderShape /\ (Alone => OneReader)

\* A batch starts without rows.
LEMMA RowInit == BatchInit => RowInv
  <1> SUFFICES ASSUME BatchInit
               PROVE  RowInv
    OBVIOUS
  <1>1. out = <<>> /\ reader = [w \in Procs |-> NoReader]
    BY DEF BatchInit, OcrInit
  <1>2. <<>> \in Seq({})
    OBVIOUS
  <1>3. \A w \in Procs : reader[w] = NoReader /\ reader[w].pc = "idle"
    BY <1>1 DEF NoReader
  <1>4. ReaderShape
    BY <1>1, <1>2, <1>3 DEF ReaderShape
  <1>5. OneReader
    BY <1>1, <1>3 DEF OneReader, Knows, NoRowTwice
  <1>6. QED
    BY <1>4, <1>5 DEF RowInv

\* Readers that stand still stay the console's as long as it keeps their job.
LEMMA ReadersStill ==
  ASSUME RowInv, reader' = reader, out' = out,
         Alone' => Alone /\ \A w \in Procs : reader[w].pc # "idle" /\ job = w => job' = w
  PROVE  RowInv'
  <1>1. ReaderShape'
    BY DEF RowInv, ReaderShape
  <1>2. Alone' => OneReader'
    <2> SUFFICES ASSUME Alone'
                 PROVE  OneReader'
      OBVIOUS
    <2>1. OneReader /\ \A w \in Procs : reader[w].pc # "idle" /\ job = w => job' = w
      BY DEF RowInv
    <2>2. \A w \in Procs : reader'[w].pc # "idle" => job' = w
      BY <2>1 DEF OneReader
    <2>3. (\A w \in Procs : Knows(w))' /\ NoRowTwice'
      BY <2>1 DEF OneReader, Knows, NoRowTwice
    <2>4. QED
      BY <2>2, <2>3 DEF OneReader
  <1>3. QED
    BY <1>1, <1>2 DEF RowInv

\* One reader moves on without writing a row.
LEMMA ReaderQuiet ==
  ASSUME RowInv, NEW w \in Procs, out' = out, (Alone' => Alone),
         DOMAIN reader' = Procs, DOMAIN reader'[w] = DOMAIN NoReader,
         \A v \in Procs : v # w => reader'[v] = reader[v],
         Alone => \A v \in Procs : v # w => reader[v].pc = "idle",
         Alone /\ reader'[w].pc # "idle" => job' = w,
         Alone => (Knows(w))'
  PROVE  RowInv'
  <1>1. ReaderShape'
    BY DEF RowInv, ReaderShape
  <1>2. Alone' => OneReader'
    <2> SUFFICES ASSUME Alone
                 PROVE  OneReader'
      OBVIOUS
    <2>1. OneReader
      BY DEF RowInv
    <2>2. \A v \in Procs : v # w => reader'[v].pc = "idle"
      OBVIOUS
    <2>3. \A v \in Procs : reader'[v].pc # "idle" => job' = v
      <3>1. reader'[w].pc # "idle" => job' = w
        OBVIOUS
      <3>2. QED
        BY <2>2, <3>1
    <2>4. (\A v \in Procs : Knows(v))'
      BY <2>2 DEF Knows
    <2>5. NoRowTwice'
      BY <2>1 DEF OneReader, NoRowTwice
    <2>6. QED
      BY <2>3, <2>4, <2>5 DEF OneReader
  <1>3. QED
    BY <1>1, <1>2 DEF RowInv

\* The console's reader writes a row it did not know, and knows it then.
LEMMA ReaderWrites ==
  ASSUME RowInv, NEW w \in Procs, NEW o, out' = Append(out, o), (Alone' => Alone),
         reader[w].pc = "rows", KeyOf(o) \notin reader[w].seen,
         DOMAIN reader' = Procs, DOMAIN reader'[w] = DOMAIN NoReader,
         \A v \in Procs : v # w => reader'[v] = reader[v],
         reader'[w].pc = "rows", reader[w].seen \cup {KeyOf(o)} \subseteq reader'[w].seen,
         Alone => job' = job
  PROVE  RowInv'
  <1> PICK S : out \in Seq(S)
    BY DEF RowInv, ReaderShape
  <1>1. /\ out' \in Seq(S \cup {o})
        /\ Len(out) \in Nat /\ Len(out') = Len(out) + 1
        /\ \A i \in 1 .. Len(out) : out'[i] = out[i]
        /\ out'[Len(out) + 1] = o
    <2> DEFINE longer == Append(out, o)
    <2>1. /\ longer \in Seq(S \cup {o})
          /\ Len(out) \in Nat /\ Len(longer) = Len(out) + 1
          /\ \A i \in 1 .. Len(out) : longer[i] = out[i]
          /\ longer[Len(out) + 1] = o
      BY Longer
    <2>2. out' = longer
      OBVIOUS
    <2> HIDE DEF longer
    <2>3. QED
      BY <2>1, <2>2
  <1>2. ReaderShape'
    BY <1>1 DEF RowInv, ReaderShape
  <1>3. Alone' => OneReader'
    <2> SUFFICES ASSUME Alone
                 PROVE  OneReader'
      OBVIOUS
    <2>1. OneReader /\ job' = job
      BY DEF RowInv
    <2>2. job = w /\ \A v \in Procs : v # w => reader[v].pc = "idle"
      BY <2>1 DEF OneReader
    <2>3. \A v \in Procs : reader'[v].pc # "idle" => job' = v
      BY <2>1, <2>2
    <2>4. \A i \in 1 .. Len(out) : KeyOf(out[i]) \in reader[w].seen
      BY <2>1 DEF OneReader, Knows
    <2>5. \A i \in 1 .. Len(out') : i \in 1 .. Len(out) \/ i = Len(out) + 1
      BY <1>1
    <2>6. (\A v \in Procs : Knows(v))'
      <3>1. \A i \in 1 .. Len(out') : KeyOf(out'[i]) \in reader'[w].seen
        BY <1>1, <2>4, <2>5
      <3>2. \A v \in Procs : v # w => reader'[v].pc = "idle"
        BY <2>2
      <3>3. QED
        BY <3>1, <3>2 DEF Knows, KeyOf
    <2>7. NoRowTwice'
      <3>1. \A i, k \in 1 .. Len(out) : KeyOf(out[i]) = KeyOf(out[k]) => i = k
        BY <2>1 DEF OneReader, NoRowTwice, KeyOf
      <3>2. \A i \in 1 .. Len(out) : KeyOf(out[i]) # KeyOf(o)
        BY <2>4
      <3>3. \A i, k \in 1 .. Len(out') : KeyOf(out'[i]) = KeyOf(out'[k]) => i = k
        BY <1>1, <2>5, <3>1, <3>2
      <3>4. QED
        BY <3>3 DEF NoRowTwice, KeyOf
    <2>8. QED
      BY <2>3, <2>6, <2>7 DEF OneReader
  <1>4. QED
    BY <1>2, <1>3 DEF RowInv

\* A step of w's process touches no other reader, and keeps w's a record.
StepOf(w) ==
  /\ DOMAIN reader' = Procs /\ DOMAIN reader'[w] = DOMAIN NoReader
  /\ \A v \in Procs : v # w => reader'[v] = reader[v]

\* A step that changes the record of w alone.
LEMMA StepFacts ==
  ASSUME ReaderShape, NEW w \in Procs, NEW next, DOMAIN next = DOMAIN NoReader,
         reader' = [reader EXCEPT ![w] = next]
  PROVE  StepOf(w) /\ reader'[w] = next
  BY DEF StepOf, ReaderShape

\* A command of the OCR container begins in w's process.
ReadsBegin(w) ==
  \/ \E force \in BOOLEAN : ClassifyImages(w, force)
  \/ \E offset \in 0 .. 1, limit \in 0 .. 1 : ProcessBatch(w, offset, limit)

\* It has written nothing and is at no row yet.
LEMMA ReadingBegun ==
  ASSUME ReaderShape, NEW w \in Procs, ReadsBegin(w)
  PROVE  /\ StepOf(w) /\ reader'[w].pc # "rows"
         /\ UNCHANGED <<disk, torn, checks, out, ocrFailures, heard>>
  <1>1. ASSUME NEW force \in BOOLEAN, ClassifyImages(w, force)
        PROVE  StepOf(w) /\ reader'[w].pc # "rows"
    <2>1. PICK todo : reader' = [reader EXCEPT ![w] = [NoReader EXCEPT !.pc = "images", !.todo = todo]]
      BY <1>1 DEF ClassifyImages
    <2> DEFINE next == [NoReader EXCEPT !.pc = "images", !.todo = todo]
    <2>2. DOMAIN next = DOMAIN NoReader /\ next.pc = "images"
      BY DEF NoReader
    <2>3. reader' = [reader EXCEPT ![w] = next]
      BY <2>1
    <2> HIDE DEF next
    <2>4. QED
      BY <2>2, <2>3, StepFacts
  <1>2. ASSUME NEW offset \in 0 .. 1, NEW limit \in 0 .. 1, ProcessBatch(w, offset, limit)
        PROVE  StepOf(w) /\ reader'[w].pc # "rows"
    <2>1. PICK pc, todo, chunk, passed :
            /\ reader' = [reader EXCEPT ![w] =
                            [NoReader EXCEPT !.pc = pc, !.todo = todo, !.chunk = chunk, !.passed = passed]]
            /\ pc \in {"exit", "keys"}
      BY <1>2 DEF ProcessBatch
    <2> DEFINE next == [NoReader EXCEPT !.pc = pc, !.todo = todo, !.chunk = chunk, !.passed = passed]
    <2>2. DOMAIN next = DOMAIN NoReader /\ next.pc # "rows"
      BY <2>1 DEF NoReader
    <2>3. reader' = [reader EXCEPT ![w] = next]
      BY <2>1
    <2> HIDE DEF next
    <2>4. QED
      BY <2>2, <2>3, StepFacts
  <1>3. UNCHANGED <<disk, torn, checks, out, ocrFailures, heard>>
    <2>1. CASE \E force \in BOOLEAN : ClassifyImages(w, force)
      BY <2>1 DEF ClassifyImages, collectionVars, results
    <2>2. CASE \E offset \in 0 .. 1, limit \in 0 .. 1 : ProcessBatch(w, offset, limit)
      BY <2>2 DEF ProcessBatch, collectionVars, results
    <2>3. QED
      BY <2>1, <2>2 DEF ReadsBegin
  <1>4. QED
    BY <1>1, <1>2, <1>3 DEF ReadsBegin

\* A container the console starts works on nothing yet.
LEMMA ReaderStarted ==
  ASSUME RowInv, NEW w \in Procs, Start(w), ReadsBegin(w), UNCHANGED forced
  PROVE  RowInv'
  <1>1. StepOf(w) /\ reader'[w].pc # "rows" /\ out' = out
    BY ReadingBegun DEF RowInv
  <1>2. job = "none" /\ job' = w /\ (Alone' => Alone)
    BY DEF Start, Alone
  <1>3. Alone => \A v \in Procs : reader[v].pc = "idle"
    BY <1>2, ProcsAssumption DEF RowInv, OneReader
  <1>4. (Knows(w))'
    BY <1>1 DEF Knows
  <1>5. QED
    BY <1>1, <1>2, <1>3, <1>4, ReaderQuiet DEF StepOf

\* The reader that works is the console's, which keeps its job until it ends.
LEMMA ReaderWatched ==
  ASSUME RowInv, NEW w \in Procs, reader[w].pc # "idle", Watch
  PROVE  /\ Alone => \A v \in Procs : v # w => reader[v].pc = "idle"
         /\ Alone /\ reader'[w].pc # "idle" => job' = job /\ job' = w
  BY DEF RowInv, OneReader, Watch

\* The steps that leave a reader's place, or lead to no row.
LEMMA QuietSteps ==
  ASSUME RowInv, NEW w \in Procs, Watch, (Alone' => Alone),
         \/ ClassifyImage(w) \/ TornImageEnds(w) \/ ClassifiesNothing(w) \/ MergesChecks(w) \/ WritesChecks(w)
         \/ SkipRow(w) \/ FailRow(w) \/ EndsBatch(w) \/ ReaderExits(w) \/ ReaderDies(w)
  PROVE  RowInv'
  <1>1. ReaderShape /\ DOMAIN reader[w] = DOMAIN NoReader
    BY DEF RowInv, ReaderShape
  <1>2. /\ StepOf(w) /\ reader[w].pc # "idle"
        /\ reader'[w].pc = "rows" => reader[w].pc = "rows" /\ reader[w].seen \subseteq reader'[w].seen
    <2>1. CASE ClassifyImage(w)
      BY <1>1, <2>1 DEF ClassifyImage, StepOf, NoReader, ReaderShape
    <2>2. CASE ClassifiesNothing(w)
      BY <1>1, <2>2 DEF ClassifiesNothing, StepOf, NoReader, ReaderShape
    <2>3. CASE MergesChecks(w)
      BY <1>1, <2>3 DEF MergesChecks, StepOf, NoReader, ReaderShape
    <2>4. CASE WritesChecks(w)
      BY <1>1, <2>4 DEF WritesChecks, StepOf, NoReader, ReaderShape
    <2>5. CASE SkipRow(w)
      BY <1>1, <2>5 DEF SkipRow, AtRow, Onward, StepOf, NoReader, ReaderShape
    <2>6. CASE FailRow(w)
      BY <1>1, <2>6 DEF FailRow, AtRow, Onward, StepOf, NoReader, ReaderShape
    <2>7. CASE EndsBatch(w)
      BY <1>1, <2>7 DEF EndsBatch, StepOf, NoReader, ReaderShape
    <2>8. CASE TornImageEnds(w) \/ ReaderExits(w) \/ ReaderDies(w)
      BY <1>1, <2>8 DEF TornImageEnds, ReaderExits, ReaderDies, StepOf, NoReader, ReaderShape
    <2>9. QED
      BY <2>1, <2>2, <2>3, <2>4, <2>5, <2>6, <2>7, <2>8
  <1>3. out' = out
    BY DEF ClassifyImage, TornImageEnds, ClassifiesNothing, MergesChecks, WritesChecks, SkipRow, FailRow,
           EndsBatch, ReaderExits, ReaderDies, results
  <1>4. /\ Alone => \A v \in Procs : v # w => reader[v].pc = "idle"
        /\ Alone /\ reader'[w].pc # "idle" => job' = w
    BY <1>2, ReaderWatched
  <1>5. Alone => (Knows(w))'
    BY <1>2, <1>3 DEF RowInv, OneReader, Knows
  <1>6. QED
    BY <1>2, <1>3, <1>4, <1>5, ReaderQuiet DEF StepOf

\* A process loads the keys of all that was written before its first row.
LEMMA LoadStep ==
  ASSUME RowInv, NEW w \in Procs, Watch, (Alone' => Alone), LoadsKeys(w)
  PROVE  RowInv'
  <1>1. ReaderShape /\ DOMAIN reader[w] = DOMAIN NoReader
    BY DEF RowInv, ReaderShape
  <1>2. /\ StepOf(w) /\ reader[w].pc # "idle" /\ out' = out
        /\ reader'[w].seen = LoadExistingSourceKeys(out)
    BY <1>1 DEF LoadsKeys, StepOf, NoReader, ReaderShape, results
  <1>3. /\ Alone => \A v \in Procs : v # w => reader[v].pc = "idle"
        /\ Alone /\ reader'[w].pc # "idle" => job' = w
    BY <1>2, ReaderWatched
  <1>4. \A i \in 1 .. Len(out) : KeyOf(out[i]) \in LoadExistingSourceKeys(out)
    <2>1. PICK S : out \in Seq(S)
      BY <1>1 DEF ReaderShape
    <2>2. \A i \in 1 .. Len(out) : out[i] \in ToSet(out)
      BY <2>1 DEF ToSet
    <2>3. QED
      BY <2>2 DEF KeyOf, LoadExistingSourceKeys
  <1>5. Alone => (Knows(w))'
    BY <1>2, <1>4 DEF Knows, KeyOf
  <1>6. QED
    BY <1>2, <1>3, <1>5, ReaderQuiet DEF StepOf

\* The rows a process writes.
LEMMA WritingSteps ==
  ASSUME RowInv, NEW w \in Procs, Watch, (Alone' => Alone),
         DomOnly(w) \/ PlainImage(w) \/ DisclosingImage(w)
  PROVE  RowInv'
  <1>1. ReaderShape /\ DOMAIN reader[w] = DOMAIN NoReader
    BY DEF RowInv, ReaderShape
  <1>2. reader[w].pc = "rows" /\ \E keys : Onward(w, keys)
    BY DEF DomOnly, PlainImage, DisclosingImage, AtRow
  <1>3. ASSUME NEW keys, Onward(w, keys)
        PROVE  StepOf(w) /\ reader'[w].pc = "rows" /\ reader'[w].seen = reader[w].seen \cup keys
    BY <1>1, <1>2, <1>3 DEF Onward, StepOf, NoReader, ReaderShape
  <1>4. StepOf(w) /\ reader'[w].pc = "rows"
    BY <1>2, <1>3
  <1>5. /\ Alone => \A v \in Procs : v # w => reader[v].pc = "idle"
        /\ Alone => job' = job /\ job' = w
    BY <1>2, <1>4, ReaderWatched
  <1>6. KeyOf(DomRow(Row(w))) = ProductKey(Row(w).product)
    BY DEF KeyOf, DomRow, MergedRecord, ProductKey
  <1>7. \/ /\ out' = out /\ reader[w].seen \subseteq reader'[w].seen
        \/ \E o : /\ out' = Append(out, o) /\ KeyOf(o) \notin reader[w].seen
                  /\ reader[w].seen \cup {KeyOf(o)} \subseteq reader'[w].seen
    <2>1. CASE DomOnly(w)
      <3>1. Key(Row(w)) = ProductKey(Row(w).product)
        BY <2>1 DEF DomOnly, Key, ImageOf, ProductKey
      <3>2. reader'[w].seen = reader[w].seen \cup {Key(Row(w))}
        BY <1>3, <2>1 DEF DomOnly
      <3>3. out' = Append(out, DomRow(Row(w))) /\ Key(Row(w)) \notin reader[w].seen
        BY <2>1 DEF DomOnly, Unseen
      <3>4. QED
        BY <1>6, <3>1, <3>2, <3>3
    <2>2. CASE DisclosingImage(w)
      <3>1. KeyOf(ImageRow(Row(w))) = Key(Row(w))
        BY DEF KeyOf, ImageRow, MergedRecord, Key
      <3>2. reader'[w].seen = reader[w].seen \cup {Key(Row(w))}
        BY <1>3, <2>2 DEF DisclosingImage
      <3>3. out' = Append(out, ImageRow(Row(w))) /\ Key(Row(w)) \notin reader[w].seen
        BY <2>2 DEF DisclosingImage, Unseen
      <3>4. QED
        BY <3>1, <3>2, <3>3
    <2>3. CASE PlainImage(w)
      <3> DEFINE words == HasWords(Row(w).dom) /\ ProductKey(Row(w).product) \notin reader[w].seen
      <3>1. /\ words => out' = Append(out, DomRow(Row(w)))
            /\ ~words => out' = out
            /\ Onward(w, {Key(Row(w))} \cup IF words THEN {ProductKey(Row(w).product)} ELSE {})
        BY <2>3 DEF PlainImage
      <3>2. reader'[w].seen =
              reader[w].seen \cup ({Key(Row(w))} \cup IF words THEN {ProductKey(Row(w).product)} ELSE {})
        BY <1>3, <3>1
      <3>3. CASE words
        BY <1>6, <3>1, <3>2, <3>3
      <3>4. CASE ~words
        BY <3>1, <3>2, <3>4
      <3>5. QED
        BY <3>3, <3>4
    <2>4. QED
      BY <2>1, <2>2, <2>3
  <1>8. CASE out' = out /\ reader[w].seen \subseteq reader'[w].seen
    <2>1. Alone => (Knows(w))'
      BY <1>2, <1>8 DEF RowInv, OneReader, Knows
    <2>2. QED
      BY <1>4, <1>5, <1>8, <2>1, ReaderQuiet DEF StepOf
  <1>9. CASE \E o : /\ out' = Append(out, o) /\ KeyOf(o) \notin reader[w].seen
                    /\ reader[w].seen \cup {KeyOf(o)} \subseteq reader'[w].seen
    BY <1>2, <1>4, <1>5, <1>9, ReaderWrites DEF StepOf
  <1>10. QED
    BY <1>7, <1>8, <1>9

\* Where no reader moves, the console loses no reader's job but by restarting.
LEMMA ElsewhereSteps ==
  ASSUME RowInv,
         \/ JobDiscover \/ ConsoleRestarts \/ UNCHANGED batchVars
         \/ \E w \in Procs, force \in BOOLEAN : JobCollect(w, force)
         \/ (Works \/ Dies) /\ \A w \in Procs : ~ReaderSteps(w) /\ ~ReaderDies(w)
  PROVE  RowInv'
  <1>1. reader' = reader /\ out' = out
    <2>1. CASE JobDiscover
      BY <2>1 DEF JobDiscover, ocrVars, results
    <2>2. CASE \E w \in Procs, force \in BOOLEAN : JobCollect(w, force)
      BY <2>2 DEF JobCollect, ocrVars, results
    <2>3. CASE (Works \/ Dies) /\ \A w \in Procs : ~ReaderSteps(w) /\ ~ReaderDies(w)
      BY <2>3 DEF Works, Dies, ocrVars, results
    <2>4. CASE ConsoleRestarts \/ UNCHANGED batchVars
      BY <2>4 DEF ConsoleRestarts, batchVars, ocrVars, results
    <2>5. QED
      BY <2>1, <2>2, <2>3, <2>4
  <1>2. Alone' => Alone /\ \A w \in Procs : reader[w].pc # "idle" /\ job = w => job' = w
    <2>1. CASE JobDiscover \/ \E w \in Procs, force \in BOOLEAN : JobCollect(w, force)
      BY <2>1, ProcsAssumption DEF JobDiscover, JobCollect, Start, Alone
    <2>2. CASE Works \/ Dies
      BY <1>1, <2>2 DEF Works, Dies, Watch, Alone
    <2>3. CASE ConsoleRestarts \/ UNCHANGED batchVars
      BY <2>3 DEF ConsoleRestarts, batchVars, consoleVars, Alone
    <2>4. QED
      BY <2>1, <2>2, <2>3
  <1>3. QED
    BY <1>1, <1>2, ReadersStill

\* What is run past the console keeps the shape of the readers, and no more is asked.
LEMMA ByHandSteps ==
  ASSUME RowInv, DiscoverByHand \/ \E w \in Procs : CollectByHand(w) \/ ReadByHand(w)
  PROVE  RowInv'
  <1>1. byHand'
    BY DEF DiscoverByHand, CollectByHand, ReadByHand, ByHand
  <1>2. ReaderShape'
    <2>1. CASE DiscoverByHand \/ \E w \in Procs : CollectByHand(w)
      <3>1. reader' = reader /\ out' = out
        BY <2>1 DEF DiscoverByHand, CollectByHand, ocrVars, results
      <3>2. QED
        BY <3>1 DEF RowInv, ReaderShape
    <2>2. CASE \E w \in Procs : ReadByHand(w)
      <3>1. PICK w \in Procs : ReadsBegin(w)
        BY <2>2 DEF ReadByHand, ReadsBegin
      <3>2. StepOf(w) /\ out' = out
        BY <3>1, ReadingBegun DEF RowInv
      <3>3. QED
        BY <3>2 DEF StepOf, RowInv, ReaderShape
    <2>3. QED
      BY <2>1, <2>2
  <1>3. QED
    BY <1>1, <1>2 DEF RowInv, Alone

\* Every step keeps the rows apart.
LEMMA RowStep == RowInv /\ [BatchNext]_batchVars => RowInv'
  <1> SUFFICES ASSUME RowInv, BatchNext \/ UNCHANGED batchVars
               PROVE  RowInv'
    OBVIOUS
  <1>1. CASE \E w \in Procs : \/ \E force \in BOOLEAN : JobClassify(w, force)
                              \/ \E offset \in 0 .. 1, limit \in 0 .. 1 : JobOcr(w, offset, limit)
    <2>1. PICK w \in Procs : Start(w) /\ ReadsBegin(w) /\ UNCHANGED forced
      BY <1>1 DEF JobClassify, JobOcr, ReadsBegin
    <2>2. QED
      BY <2>1, ReaderStarted
  <1>2. ASSUME NEW w \in Procs, ReaderSteps(w) \/ ReaderDies(w), Watch, (Alone' => Alone)
        PROVE  RowInv'
    <2>1. CASE LoadsKeys(w)
      BY <1>2, <2>1, LoadStep
    <2>2. CASE DomOnly(w) \/ PlainImage(w) \/ DisclosingImage(w)
      BY <1>2, <2>2, WritingSteps
    <2>3. CASE \/ ClassifyImage(w) \/ ClassifiesNothing(w) \/ MergesChecks(w) \/ WritesChecks(w)
               \/ TornImageEnds(w) \/ SkipRow(w) \/ FailRow(w) \/ EndsBatch(w) \/ ReaderExits(w)
               \/ ReaderDies(w)
      BY <1>2, <2>3, QuietSteps
    <2>4. QED
      BY <1>2, <2>1, <2>2, <2>3 DEF ReaderSteps
  <1>3. CASE Works \/ Dies
    <2>1. Watch /\ (Alone' => Alone)
      BY <1>3 DEF Works, Dies, Alone
    <2>2. CASE \E w \in Procs : ReaderSteps(w) \/ ReaderDies(w)
      BY <1>2, <2>1, <2>2
    <2>3. CASE \A w \in Procs : ~ReaderSteps(w) /\ ~ReaderDies(w)
      BY <1>3, <2>3, ElsewhereSteps
    <2>4. QED
      BY <2>2, <2>3
  <1>4. CASE \/ JobDiscover \/ ConsoleRestarts \/ UNCHANGED batchVars
             \/ \E w \in Procs, force \in BOOLEAN : JobCollect(w, force)
    BY <1>4, ElsewhereSteps
  <1>5. CASE DiscoverByHand \/ \E w \in Procs : CollectByHand(w) \/ ReadByHand(w)
    BY <1>5, ByHandSteps
  <1>6. QED
    BY <1>1, <1>3, <1>4, <1>5 DEF BatchNext

\* While the console does not restart and nothing is run past it, products.csv
\* never has two rows of one product and image: chunks, reruns and deaths of the OCR
\* container may follow one another in any way (pipeline.py, process; exporter.py,
\* load_existing_source_keys), as the runner lets one container in at a time.
THEOREM NoRowIsDoubled == BatchSpec => []NoDuplicateRows
  <1>1. RowInv => NoDuplicateRows
    BY DEF RowInv, OneReader, NoDuplicateRows, Alone
  <1>2. QED
    BY <1>1, RowInit, RowStep, PTL DEF BatchSpec

-----------------------------------------------------------------------------
(* What a row says against its image.                                      *)

\* A row that is not up for review agrees with its image.
Agreed(o) ==
  o.image # NoImage /\ o.status # "REVIEW_REQUIRED" =>
    \A f \in {"food", "expiration", "storage"} :
      Reading[o.image][f] # NoValue =>
        o[f] = Reading[o.image][f] \/ <<o[f], Reading[o.image][f]>> \in Alike

\* What needs no review agrees with the images.
AgreedInv == (\E S : out \in Seq(S)) /\ MatchedIsAgreed

\* A field that is not up for review has the image's value, if the image has one.
LEMMA MergeAgrees ==
  ASSUME NEW dom, NEW ocr, ocr # NoValue, MergeField(dom, ocr).status # "REVIEW_REQUIRED"
  PROVE  MergeField(dom, ocr).value = ocr \/ <<MergeField(dom, ocr).value, ocr>> \in Alike
  <1>1. CASE dom = NoValue
    BY <1>1 DEF MergeField
  <1>2. CASE dom # NoValue
    BY <1>2 DEF MergeField
  <1>3. QED
    BY <1>1, <1>2

\* A row merged with the reading of its image agrees with it.
LEMMA MergedAgrees ==
  ASSUME NEW q, NEW image, NEW dom, image # NoImage
  PROVE  Agreed(MergedRecord(q, image, dom, Reading[image]))
  <1> DEFINE read       == Reading[image]
             food       == MergeField(NoValue, read.food)
             expiration == MergeField(dom.expiration, read.expiration)
             storage    == MergeField(dom.storage, read.storage)
             o          == MergedRecord(q, image, dom, read)
  <1>1. /\ o.image = image /\ o.food = food.value /\ o.expiration = expiration.value
        /\ o.storage = storage.value
        /\ o.status = Overall({food.status, expiration.status, storage.status})
    BY DEF MergedRecord
  <1> HIDE DEF o
  <1>2. ASSUME o.status # "REVIEW_REQUIRED"
        PROVE  /\ food.status # "REVIEW_REQUIRED" /\ expiration.status # "REVIEW_REQUIRED"
               /\ storage.status # "REVIEW_REQUIRED"
    <2> DEFINE statuses == {food.status, expiration.status, storage.status}
    <2>1. "REVIEW_REQUIRED" \notin statuses
      BY <1>1, <1>2 DEF Overall
    <2>2. QED
      BY <2>1
  <1> HIDE DEF food, expiration, storage, read
  <1>3. ASSUME o.status # "REVIEW_REQUIRED", read.food # NoValue
        PROVE  o.food = read.food \/ <<o.food, read.food>> \in Alike
    BY <1>1, <1>2, <1>3, MergeAgrees DEF food
  <1>4. ASSUME o.status # "REVIEW_REQUIRED", read.expiration # NoValue
        PROVE  o.expiration = read.expiration \/ <<o.expiration, read.expiration>> \in Alike
    BY <1>1, <1>2, <1>4, MergeAgrees DEF expiration
  <1>5. ASSUME o.status # "REVIEW_REQUIRED", read.storage # NoValue
        PROVE  o.storage = read.storage \/ <<o.storage, read.storage>> \in Alike
    BY <1>1, <1>2, <1>5, MergeAgrees DEF storage
  <1>6. Agreed(o)
    BY <1>1, <1>3, <1>4, <1>5 DEF Agreed, read
  <1>7. QED
    BY <1>6 DEF o, read

\* A step of no reader.
Outside ==
  \/ JobDiscover \/ ConsoleRestarts \/ DiscoverByHand \/ UNCHANGED batchVars
  \/ \E w \in Procs, force \in BOOLEAN : JobCollect(w, force)
  \/ \E w \in Procs : CollectByHand(w)
  \/ (Works \/ Dies) /\ \A w \in Procs : ~ReaderSteps(w) /\ ~ReaderDies(w)

\* It leaves all a reader writes.
LEMMA OutsideFacts == ASSUME Outside PROVE UNCHANGED <<checks, reader, out, ocrFailures, heard>>
  <1>1. CASE UNCHANGED ocrVars
    BY <1>1 DEF ocrVars, results
  <1>2. CASE JobDiscover \/ ConsoleRestarts \/ DiscoverByHand \/ UNCHANGED batchVars
    BY <1>1, <1>2 DEF JobDiscover, ConsoleRestarts, DiscoverByHand, batchVars
  <1>3. CASE \/ \E w \in Procs, force \in BOOLEAN : JobCollect(w, force)
             \/ \E w \in Procs : CollectByHand(w)
    BY <1>1, <1>3 DEF JobCollect, CollectByHand
  <1>4. CASE (Works \/ Dies) /\ \A w \in Procs : ~ReaderSteps(w) /\ ~ReaderDies(w)
    BY <1>1, <1>4 DEF Works, Dies
  <1>5. QED
    BY <1>2, <1>3, <1>4 DEF Outside

\* A step is a reader's, begins a command of the OCR container, or is elsewhere.
LEMMA StepKinds ==
  ASSUME BatchNext \/ UNCHANGED batchVars
  PROVE  \/ \E w \in Procs : ReaderSteps(w) \/ ReaderDies(w)
         \/ \E w \in Procs : ReadsBegin(w)
         \/ Outside
  <1>1. CASE Works \/ Dies
    BY <1>1 DEF Outside
  <1>2. CASE \/ JobDiscover \/ ConsoleRestarts \/ DiscoverByHand \/ UNCHANGED batchVars
             \/ \E w \in Procs, force \in BOOLEAN : JobCollect(w, force)
             \/ \E w \in Procs : CollectByHand(w)
    BY <1>2 DEF Outside
  <1>3. CASE \/ \E w \in Procs, force \in BOOLEAN : JobClassify(w, force)
             \/ \E w \in Procs, offset \in 0 .. 1, limit \in 0 .. 1 : JobOcr(w, offset, limit)
             \/ \E w \in Procs : ReadByHand(w)
    BY <1>3 DEF JobClassify, JobOcr, ReadByHand, ReadsBegin
  <1>4. QED
    BY <1>1, <1>2, <1>3 DEF BatchNext

\* A step writes no row, or one that agrees.
LEMMA RowsWritten ==
  ASSUME BatchNext \/ UNCHANGED batchVars
  PROVE  out' = out \/ \E o : out' = Append(out, o) /\ Agreed(o)
  <1>1. ASSUME NEW w \in Procs, ReaderSteps(w) \/ ReaderDies(w)
        PROVE  out' = out \/ \E o : out' = Append(out, o) /\ Agreed(o)
    <2>1. Agreed(DomRow(Row(w)))
      BY DEF Agreed, DomRow, MergedRecord
    <2>2. Agreed(ImageRow(Row(w)))
      <3>1. CASE ImageOf(Row(w)) = NoImage
        BY <3>1 DEF Agreed, ImageRow, MergedRecord
      <3>2. CASE ImageOf(Row(w)) # NoImage
        BY <3>2, MergedAgrees DEF ImageRow
      <3>3. QED
        BY <3>1, <3>2
    <2>3. CASE DomOnly(w) \/ PlainImage(w) \/ DisclosingImage(w)
      BY <2>1, <2>2, <2>3 DEF DomOnly, PlainImage, DisclosingImage
    <2>4. CASE ~(DomOnly(w) \/ PlainImage(w) \/ DisclosingImage(w))
      BY <1>1, <2>4 DEF ReaderSteps, ReaderDies, ClassifyImage, TornImageEnds, ClassifiesNothing,
                        MergesChecks, WritesChecks, LoadsKeys, SkipRow, FailRow, EndsBatch, ReaderExits, results
    <2>5. QED
      BY <2>3, <2>4
  <1>2. CASE \E w \in Procs : ReaderSteps(w) \/ ReaderDies(w)
    BY <1>1, <1>2
  <1>3. CASE \E w \in Procs : ReadsBegin(w)
    BY <1>3 DEF ReadsBegin, ClassifyImages, ProcessBatch, results
  <1>4. CASE Outside
    BY <1>4, OutsideFacts
  <1>5. QED
    BY <1>2, <1>3, <1>4, StepKinds

\* Every step keeps the rows agreed.
LEMMA AgreedStep == AgreedInv /\ [BatchNext]_batchVars => AgreedInv'
  <1> SUFFICES ASSUME AgreedInv, BatchNext \/ UNCHANGED batchVars
               PROVE  AgreedInv'
    OBVIOUS
  <1>1. \A o \in ToSet(out) : Agreed(o)
    BY DEF AgreedInv, MatchedIsAgreed, Agreed
  <1>2. CASE out' = out
    BY <1>2 DEF AgreedInv, MatchedIsAgreed
  <1>3. ASSUME NEW o, out' = Append(out, o), Agreed(o)
        PROVE  AgreedInv'
    <2>1. PICK S : out \in Seq(S)
      BY DEF AgreedInv
    <2>2. out' \in Seq(S \cup {o}) /\ ToSet(out') = ToSet(out) \cup {o}
      <3> DEFINE longer == Append(out, o)
      <3>1. /\ longer \in Seq(S \cup {o})
            /\ Len(out) \in Nat /\ Len(longer) = Len(out) + 1
            /\ \A i \in 1 .. Len(out) : longer[i] = out[i]
            /\ longer[Len(out) + 1] = o
        BY <2>1, Longer
      <3>2. out' = longer
        BY <1>3
      <3> HIDE DEF longer
      <3>3. \A i \in 1 .. Len(out') : i \in 1 .. Len(out) \/ i = Len(out) + 1
        BY <3>1, <3>2
      <3>4. ToSet(out') = ToSet(out) \cup {o}
        BY <2>1, <3>1, <3>2, <3>3 DEF ToSet
      <3>5. QED
        BY <3>1, <3>2, <3>4
    <2>3. \A e \in ToSet(out') : Agreed(e)
      BY <1>1, <1>3, <2>2
    <2>4. MatchedIsAgreed'
      BY <2>3 DEF MatchedIsAgreed, Agreed
    <2>5. QED
      BY <2>2, <2>4 DEF AgreedInv
  <1>4. QED
    BY <1>2, <1>3, RowsWritten

\* A row of products.csv that nobody is asked to look at holds what its image
\* says, or what means the same (merge_policy.py, merge_field), whatever the
\* page said, in every batch and with any number of processes.
THEOREM UnreviewedIsAgreed == BatchSpec => []MatchedIsAgreed
  <1>1. BatchInit => AgreedInv
    <2> SUFFICES ASSUME BatchInit
                 PROVE  AgreedInv
      OBVIOUS
    <2>1. out = <<>> /\ out \in Seq({})
      BY DEF BatchInit, OcrInit
    <2>2. QED
      BY <2>1 DEF AgreedInv, MatchedIsAgreed, ToSet
  <1>2. AgreedInv => MatchedIsAgreed
    BY DEF AgreedInv
  <1>3. QED
    BY <1>1, <1>2, AgreedStep, PTL DEF BatchSpec

-----------------------------------------------------------------------------
(* The verdicts on images.                                                 *)

\* An image judged to have no text has none, and no verdict is on no image.
VerdictsTrue(verdicts) ==
  \A p \in DOMAIN verdicts : p # NoImage /\ (verdicts[p] = "NO_TEXT" => HasNoText(p[3]))

\* A reader that judges images holds true verdicts, and has images to judge.
Judging(c) ==
  /\ VerdictsTrue(c.found)
  /\ c.pc = "images" => \E S : c.todo \in Seq(S) /\ NoImage \notin ToSet(c.todo)

\* The verdicts in image_text_check.csv and those of the readers.
ChecksTrue == VerdictsTrue(Checks) /\ \A w \in Procs : Judging(reader[w])

\* No verdicts are true ones.
LEMMA NoVerdicts == VerdictsTrue(<<>>)
  BY DEF VerdictsTrue

\* Verdicts put over others.
LEMMA UpdatedTrue ==
  ASSUME NEW new, NEW old, VerdictsTrue(new), VerdictsTrue(old)
  PROVE  VerdictsTrue(Updated(new, old))
  BY DEF VerdictsTrue, Updated

\* The verdict on an image says that it has no text only if it has none.
LEMMA VerdictFacts ==
  ASSUME NEW p, NEW works \in BOOLEAN, Verdict(p, works) = "NO_TEXT"
  PROVE  HasNoText(p[3])
  <1>1. CASE p \notin disk
    BY <1>1 DEF Verdict
  <1>2. CASE p \in disk /\ Heuristic[p[3]] # "UNSURE"
    BY <1>2 DEF Verdict, HasNoText
  <1>3. CASE p \in disk /\ Heuristic[p[3]] = "UNSURE"
    BY <1>3 DEF Verdict, HasNoText
  <1>4. QED
    BY <1>1, <1>2, <1>3

\* The elements of what is kept of a sequence are those in P.
LEMMA KeptElements ==
  ASSUME NEW E, NEW s \in Seq(E), NEW P
  PROVE  Among(s, P) \in Seq(E) /\ ToSet(Among(s, P)) = ToSet(s) \cap P
  <1> DEFINE m == Among(s, P)
  <1>1. m \in Seq(E) /\ \E f : PickedBy(f, m, s, Len(s), P)
    BY AmongFacts
  <1> HIDE DEF m
  <1>2. PICK f : PickedBy(f, m, s, Len(s), P)
    BY <1>1
  <1>3. /\ DOMAIN m = 1 .. Len(m) /\ DOMAIN s = 1 .. Len(s)
        /\ f \in [1 .. Len(m) -> 1 .. Len(s)]
        /\ \A i \in 1 .. Len(m) : m[i] = s[f[i]] /\ m[i] \in P
        /\ \A k \in 1 .. Len(s) : s[k] \in P => \E i \in 1 .. Len(m) : f[i] = k
    BY <1>1, <1>2 DEF PickedBy
  <1>4. ToSet(m) \subseteq ToSet(s) \cap P
    BY <1>3 DEF ToSet
  <1>5. ToSet(s) \cap P \subseteq ToSet(m)
    BY <1>3 DEF ToSet
  <1>6. QED
    BY <1>1, <1>4, <1>5 DEF m

\* A command that judges images begins with the images of the file.
LEMMA JudgingBegun ==
  ASSUME ReaderShape, CollType, NEW w \in Procs, NEW force \in BOOLEAN, ClassifyImages(w, force)
  PROVE  Judging(reader'[w])
  <1> DEFINE trace == [i \in 1 .. Len(crawled) |-> crawled[i].path]
             known == IF force THEN {} ELSE DOMAIN Checks
             paths == Distinct(trace)
             P     == {p \in ToSet(paths) : p # NoImage /\ p \notin known}
             todo  == Among(paths, P)
             next  == [NoReader EXCEPT !.pc = "images", !.todo = todo]
             E     == {NoImage} \cup (Products \X Nat \X Images)
  <1>1. crawled \in Seq(CrawledRow)
    BY DEF ClassifyImages, CollType
  <1>2. trace \in Seq(E)
    <2>1. Len(crawled) \in Nat /\ \A i \in 1 .. Len(crawled) : crawled[i] \in CrawledRow
      BY <1>1
    <2>2. \A i \in 1 .. Len(crawled) : crawled[i].path \in E
      BY <2>1 DEF CrawledRow
    <2> HIDE DEF E
    <2>3. QED
      BY <2>1, <2>2
  <1>3. paths \in Seq(E)
    <2> HIDE DEF trace, E
    <2>1. PICK G \in [0 .. Len(trace) -> Seq(E)] : paths = G[Len(trace)]
      BY <1>2, DistinctTrace
    <2>2. Len(trace) \in 0 .. Len(trace)
      BY <1>2
    <2>3. QED
      BY <2>1, <2>2
  <1>4. todo \in Seq(E) /\ ToSet(todo) = ToSet(paths) \cap P
    <2> HIDE DEF paths, P, E
    <2>1. QED
      BY <1>3, KeptElements
  <1>5. NoImage \notin ToSet(todo)
    BY <1>4
  <1>6. reader' = [reader EXCEPT ![w] = next]
    BY DEF ClassifyImages
  <1> HIDE DEF todo, E
  <1>7. DOMAIN next = DOMAIN NoReader /\ next.todo = todo /\ next.found = <<>>
    BY DEF NoReader
  <1> HIDE DEF next
  <1>8. reader'[w] = next
    BY <1>6, <1>7, StepFacts
  <1>9. QED
    BY <1>4, <1>5, <1>7, <1>8, NoVerdicts DEF Judging

\* A reader that holds no verdict and judges no image.
LEMMA NoJudging == ASSUME NEW c, c.pc # "images", c.found = <<>> PROVE Judging(c)
  BY NoVerdicts DEF Judging

\* A command that reads a chunk holds no verdicts.
LEMMA JudgesNone ==
  ASSUME ReaderShape, NEW w \in Procs, NEW offset, NEW limit, ProcessBatch(w, offset, limit)
  PROVE  Judging(reader'[w])
  <1>1. PICK pc, todo, chunk, passed :
          /\ reader' = [reader EXCEPT ![w] =
                          [NoReader EXCEPT !.pc = pc, !.todo = todo, !.chunk = chunk, !.passed = passed]]
          /\ pc \in {"exit", "keys"}
    BY DEF ProcessBatch
  <1> DEFINE next == [NoReader EXCEPT !.pc = pc, !.todo = todo, !.chunk = chunk, !.passed = passed]
  <1>2. DOMAIN next = DOMAIN NoReader /\ next.pc # "images" /\ next.found = <<>>
    BY <1>1 DEF NoReader
  <1>3. reader' = [reader EXCEPT ![w] = next]
    BY <1>1
  <1> HIDE DEF next
  <1>4. reader'[w] = next
    BY <1>2, <1>3, StepFacts
  <1>5. QED
    BY <1>2, <1>4, NoJudging

\* The steps of a reader keep the verdicts true.
LEMMA JudgingSteps ==
  ASSUME ReaderShape, ChecksTrue, NEW w \in Procs, ReaderSteps(w) \/ ReaderDies(w)
  PROVE  StepOf(w) /\ Judging(reader'[w]) /\ VerdictsTrue(Checks')
  <1> DEFINE c == reader[w]
  <1>1. DOMAIN reader = Procs /\ DOMAIN c = DOMAIN NoReader /\ Judging(c) /\ VerdictsTrue(Checks)
    BY DEF ReaderShape, ChecksTrue
  <1>2. NoReader.pc # "images" /\ NoReader.found = <<>>
    BY DEF NoReader
  <1>3. CASE ClassifyImage(w)
    <2> DEFINE path == Head(c.todo)
    <2>1. PICK works \in BOOLEAN :
            reader' = [reader EXCEPT ![w].todo = Tail(@),
                                     ![w].found = Updated([p \in {path} |-> Verdict(path, works)], @)]
      BY <1>3 DEF ClassifyImage
    <2>2. PICK S : c.todo \in Seq(S) /\ NoImage \notin ToSet(c.todo)
      BY <1>1, <1>3 DEF Judging, ClassifyImage
    <2>3. c.todo # <<>>
      BY <1>3 DEF ClassifyImage
    <2>4. Tail(c.todo) \in Seq(S) /\ NoImage \notin ToSet(Tail(c.todo)) /\ path # NoImage
      BY <2>2, <2>3, TailFacts
    <2>5. VerdictsTrue([p \in {path} |-> Verdict(path, works)])
      BY <2>4, VerdictFacts DEF VerdictsTrue
    <2>6. VerdictsTrue(Updated([p \in {path} |-> Verdict(path, works)], c.found))
      BY <1>1, <2>5, UpdatedTrue DEF Judging
    <2>7. /\ StepOf(w) /\ reader'[w].todo = Tail(c.todo)
          /\ reader'[w].found = Updated([p \in {path} |-> Verdict(path, works)], c.found)
      BY <1>1, <2>1 DEF StepOf, NoReader
    <2>8. checks' = checks
      BY <1>3 DEF ClassifyImage
    <2>9. QED
      BY <1>1, <2>4, <2>6, <2>7, <2>8 DEF Judging, Checks
  <1>4. CASE MergesChecks(w)
    <2>1. /\ StepOf(w) /\ reader'[w].found = Updated(c.found, Checks) /\ reader'[w].pc = "verdicts"
          /\ checks' = <<>>
      BY <1>1, <1>4 DEF MergesChecks, StepOf, NoReader
    <2>2. VerdictsTrue(Updated(c.found, Checks))
      BY <1>1, UpdatedTrue DEF Judging
    <2>3. Checks' = <<>>
      BY <2>1 DEF Checks
    <2>4. QED
      BY <2>1, <2>2, <2>3, NoVerdicts DEF Judging
  <1>5. CASE WritesChecks(w)
    <2>1. /\ StepOf(w) /\ reader'[w].found = <<>> /\ reader'[w].pc = "exit" /\ checks' = c.found
      BY <1>1, <1>5 DEF WritesChecks, StepOf, NoReader
    <2>2. Checks' = <<>> \/ Checks' = c.found
      BY <2>1 DEF Checks
    <2>3. QED
      BY <1>1, <2>1, <2>2, NoVerdicts, NoJudging DEF Judging
  <1>6. CASE TornImageEnds(w) \/ ReaderExits(w) \/ ReaderDies(w)
    <2>1. StepOf(w) /\ reader'[w] = NoReader
      BY <1>1, <1>6 DEF TornImageEnds, ReaderExits, ReaderDies, StepOf
    <2>2. Judging(reader'[w])
      BY <1>2, <2>1, NoJudging
    <2>3. CASE checks' = checks
      BY <1>1, <2>1, <2>2, <2>3 DEF Checks
    <2>4. CASE checks' # checks
      <3>1. PICK kept \in SUBSET DOMAIN c.found : checks' = [p \in kept |-> c.found[p]]
        BY <1>6, <2>4 DEF TornImageEnds, ReaderExits, ReaderDies
      <3>2. VerdictsTrue([p \in kept |-> c.found[p]])
        BY <1>1 DEF Judging, VerdictsTrue
      <3>3. Checks' = <<>> \/ Checks' = [p \in kept |-> c.found[p]]
        BY <3>1 DEF Checks
      <3>4. QED
        BY <2>1, <2>2, <3>2, <3>3, NoVerdicts
    <2>5. QED
      BY <2>3, <2>4
  <1>7. CASE \/ ClassifiesNothing(w) \/ LoadsKeys(w) \/ SkipRow(w) \/ DomOnly(w) \/ PlainImage(w)
             \/ DisclosingImage(w) \/ FailRow(w) \/ EndsBatch(w)
    <2>1. /\ StepOf(w) /\ reader'[w].found = c.found /\ reader'[w].pc # "images" /\ checks' = checks
      <3>1. CASE ClassifiesNothing(w)
        BY <1>1, <3>1 DEF ClassifiesNothing, StepOf, NoReader
      <3>2. CASE LoadsKeys(w)
        BY <1>1, <3>2 DEF LoadsKeys, StepOf, NoReader
      <3>3. CASE SkipRow(w) \/ DomOnly(w) \/ PlainImage(w) \/ DisclosingImage(w)
        <4>1. c.pc = "rows" /\ checks' = checks /\ \E keys : Onward(w, keys)
          BY <3>3 DEF SkipRow, DomOnly, PlainImage, DisclosingImage, AtRow
        <4>2. QED
          BY <1>1, <4>1 DEF Onward, StepOf, NoReader
      <3>4. CASE FailRow(w)
        BY <1>1, <3>4 DEF FailRow, AtRow, StepOf, NoReader
      <3>5. CASE EndsBatch(w)
        BY <1>1, <3>5 DEF EndsBatch, StepOf, NoReader
      <3>6. QED
        BY <1>7, <3>1, <3>2, <3>3, <3>4, <3>5
    <2>2. QED
      BY <1>1, <2>1 DEF Judging, Checks
  <1>8. QED
    BY <1>3, <1>4, <1>5, <1>6, <1>7 DEF ReaderSteps

\* Every step keeps the verdicts true.
LEMMA ChecksStep == RowInv /\ CollType /\ ChecksTrue /\ [BatchNext]_batchVars => ChecksTrue'
  <1> SUFFICES ASSUME RowInv, CollType, ChecksTrue, BatchNext \/ UNCHANGED batchVars
               PROVE  ChecksTrue'
    OBVIOUS
  <1>1. ReaderShape
    BY DEF RowInv
  <1>2. ASSUME NEW w \in Procs, StepOf(w), Judging(reader'[w]), VerdictsTrue(Checks')
        PROVE  ChecksTrue'
    <2>1. \A v \in Procs : Judging(reader'[v])
      BY <1>2 DEF StepOf, ChecksTrue
    <2>2. QED
      BY <1>2, <2>1 DEF ChecksTrue
  <1>3. CASE \E w \in Procs : ReaderSteps(w) \/ ReaderDies(w)
    BY <1>1, <1>2, <1>3, JudgingSteps
  <1>4. ASSUME NEW w \in Procs, ReadsBegin(w)
        PROVE  ChecksTrue'
    <2>1. StepOf(w) /\ checks' = checks
      BY <1>1, <1>4, ReadingBegun
    <2>2. Judging(reader'[w])
      BY <1>1, <1>4, JudgingBegun, JudgesNone DEF ReadsBegin
    <2>3. VerdictsTrue(Checks')
      BY <2>1 DEF ChecksTrue, Checks
    <2>4. QED
      BY <1>2, <2>1, <2>2, <2>3
  <1>5. CASE Outside
    BY <1>5, OutsideFacts DEF ChecksTrue, Checks
  <1>6. QED
    BY <1>3, <1>4, <1>5, StepKinds

-----------------------------------------------------------------------------
(* What a command of the OCR container claims when it ends.                *)

\* A row of the product is there, one of the row's product and image is, and a
\* row of the product was read of which what the page told, if it did, was written.
KnownIn(o, q)      == \E x \in ToSet(o) : x.product = q
WrittenIn(o, row)  == \E x \in ToSet(o) : <<x.product, x.image>> = Key(row)
ToldIn(o, h, q)    == \E dom \in Doms : <<q, dom>> \in h /\ (HasWords(dom) => KnownIn(o, q))
\* A row a command need not come back to.
SettledIn(o, h, row) ==
  IF row.path = NoImage THEN KnownIn(o, row.product)
  ELSE WrittenIn(o, row) \/ (Plain(ImageOf(row)) /\ ToldIn(o, h, row.product))

\* A reader's rows are still to come, failed or settled, and a key it has seen
\* stands for what settles the rows that have it.
Claims(c, o, h, failures) ==
  /\ c.chunk \subseteq CrawledRow
  /\ c.pc \in {"images", "verdicts"} => c.chunk = {}
  /\ \A row \in c.passed : row.path # NoImage /\ HasNoText(ImageOf(row))
  /\ \A row \in c.failed : Key(row) \in failures
  /\ c.pc \in {"keys", "rows"} =>
       /\ c.todo \in Seq(CrawledRow) /\ ToSet(c.todo) \subseteq c.chunk
       /\ \A row \in c.chunk : row \in ToSet(c.todo) \/ row \in c.failed \/ SettledIn(o, h, row)
  /\ c.pc = "exit" => \A row \in c.chunk \ c.failed : SettledIn(o, h, row)
  /\ c.pc = "rows" =>
       /\ \A q : ProductKey(q) \in c.seen => KnownIn(o, q)
       /\ \A row \in c.chunk : row.path # NoImage /\ Key(row) \in c.seen => SettledIn(o, h, row)

\* A row of products.csv tells what a row read before told.
OutHeard == \A o \in ToSet(out) : \E dom \in Doms : <<o.product, dom>> \in heard /\ Tells(o, dom)

\* The claims of every process.
ClaimsInv == OutHeard /\ \A w \in Procs : Claims(reader[w], out, heard, ocrFailures)

\* Nothing written, read or failed is forgotten.
LEMMA SettledGrows ==
  ASSUME NEW o, NEW h, NEW o2, NEW h2, ToSet(o) \subseteq ToSet(o2), h \subseteq h2
  PROVE  /\ \A q : KnownIn(o, q) => KnownIn(o2, q)
         /\ \A row : SettledIn(o, h, row) => SettledIn(o2, h2, row)
  <1>1. \A q : KnownIn(o, q) => KnownIn(o2, q)
    BY DEF KnownIn
  <1>2. \A row : WrittenIn(o, row) => WrittenIn(o2, row)
    BY DEF WrittenIn
  <1>3. \A q : ToldIn(o, h, q) => ToldIn(o2, h2, q)
    BY <1>1 DEF ToldIn
  <1>4. QED
    BY <1>1, <1>2, <1>3 DEF SettledIn

\* The same of a reader's claims.
LEMMA ClaimsGrow ==
  ASSUME NEW c, NEW o, NEW h, NEW failures, NEW o2, NEW h2, NEW failures2, Claims(c, o, h, failures),
         ToSet(o) \subseteq ToSet(o2), h \subseteq h2, failures \subseteq failures2
  PROVE  Claims(c, o2, h2, failures2)
  <1>1. /\ \A q : KnownIn(o, q) => KnownIn(o2, q)
        /\ \A row : SettledIn(o, h, row) => SettledIn(o2, h2, row)
    BY SettledGrows
  <1>2. QED
    BY <1>1 DEF Claims

\* The key of a row names its image, if it has one.
LEMMA KeyFacts ==
  ASSUME NEW row \in CrawledRow
  PROVE  /\ row.product \in Products /\ row.dom \in Doms
         /\ row.path = NoImage => Key(row) = ProductKey(row.product) /\ ImageOf(row) = NoImage
         /\ row.path # NoImage => ImageOf(row) # NoImage /\ ImageOf(row) \in Images
         /\ Key(row) = <<row.product, ImageOf(row)>>
  <1>1. /\ row.product \in Products /\ row.dom \in Doms
        /\ row.path \in {NoImage} \cup (Products \X Nat \X Images)
    BY DEF CrawledRow
  <1>2. row.path # NoImage => row.path[3] \in Images
    BY <1>1
  <1>3. QED
    BY <1>1, <1>2, PagesAssumption DEF Key, ImageOf, ProductKey

\* A value the page gives is the value of the merged field.
LEMMA MergeTells == ASSUME NEW dom, NEW ocr, dom # NoValue PROVE MergeField(dom, ocr).value = dom
  BY DEF MergeField

\* A merged row tells what the page told.
LEMMA MergedTells ==
  ASSUME NEW q, NEW image, NEW dom, NEW read
  PROVE  /\ Tells(MergedRecord(q, image, dom, read), dom)
         /\ MergedRecord(q, image, dom, read).product = q
         /\ MergedRecord(q, image, dom, read).image = image
  <1> DEFINE o == MergedRecord(q, image, dom, read)
  <1>1. /\ o.expiration = MergeField(dom.expiration, read.expiration).value
        /\ o.storage = MergeField(dom.storage, read.storage).value
        /\ o.product = q /\ o.image = image
    BY DEF MergedRecord
  <1> HIDE DEF o
  <1>2. Tells(o, dom)
    BY <1>1, MergeTells DEF Tells
  <1>3. QED
    BY <1>1, <1>2 DEF o

\* The keys loaded from products.csv stand for its rows.
LEMMA LoadedKeys ==
  ASSUME NEW o
  PROVE  /\ \A q : ProductKey(q) \in LoadExistingSourceKeys(o) => KnownIn(o, q)
         /\ \A row \in CrawledRow : row.path # NoImage /\ Key(row) \in LoadExistingSourceKeys(o) =>
                                      WrittenIn(o, row)
  <1>1. ASSUME NEW q, ProductKey(q) \in LoadExistingSourceKeys(o)
        PROVE  KnownIn(o, q)
    BY <1>1 DEF LoadExistingSourceKeys, ProductKey, KnownIn
  <1>2. ASSUME NEW row \in CrawledRow, row.path # NoImage, Key(row) \in LoadExistingSourceKeys(o)
        PROVE  WrittenIn(o, row)
    <2>1. Key(row) = <<row.product, ImageOf(row)>> /\ ImageOf(row) # NoImage
      BY <1>2, KeyFacts
    <2>2. CASE \E x \in ToSet(o) : Key(row) = <<x.product, x.image>>
      BY <2>2 DEF WrittenIn
    <2>3. CASE \E x \in ToSet(o) : Key(row) = ProductKey(x.product)
      BY <2>1, <2>3 DEF ProductKey
    <2>4. QED
      BY <1>2, <2>2, <2>3 DEF LoadExistingSourceKeys
  <1>3. QED
    BY <1>1, <1>2

\* A reader goes on from a row that failed or is settled, with keys that stand for it.
LEMMA GoesOn ==
  ASSUME NEW c, NEW d, NEW o, NEW h, NEW failures, NEW keys,
         c.pc = "rows", c.todo # <<>>, Claims(c, o, h, failures),
         d.pc = "rows", d.todo = Tail(c.todo), d.chunk = c.chunk, d.passed = c.passed,
         d.seen = c.seen \cup keys, c.failed \subseteq d.failed,
         \A row \in d.failed : Key(row) \in failures,
         Head(c.todo) \in d.failed \/ SettledIn(o, h, Head(c.todo)),
         \A q : ProductKey(q) \in keys => KnownIn(o, q),
         \A row \in c.chunk : row.path # NoImage /\ Key(row) \in keys => SettledIn(o, h, row)
  PROVE  Claims(d, o, h, failures)
  <1>1. /\ c.chunk \subseteq CrawledRow /\ c.todo \in Seq(CrawledRow) /\ ToSet(c.todo) \subseteq c.chunk
        /\ \A row \in c.passed : row.path # NoImage /\ HasNoText(ImageOf(row))
        /\ \A row \in c.chunk : row \in ToSet(c.todo) \/ row \in c.failed \/ SettledIn(o, h, row)
        /\ \A q : ProductKey(q) \in c.seen => KnownIn(o, q)
        /\ \A row \in c.chunk : row.path # NoImage /\ Key(row) \in c.seen => SettledIn(o, h, row)
    BY DEF Claims
  <1>2. /\ Tail(c.todo) \in Seq(CrawledRow)
        /\ \A e : e \in ToSet(c.todo) <=> e = Head(c.todo) \/ e \in ToSet(Tail(c.todo))
    BY <1>1, TailFacts
  <1>3. \A row \in c.chunk : row \in ToSet(Tail(c.todo)) \/ row \in d.failed \/ SettledIn(o, h, row)
    BY <1>1, <1>2
  <1>4. ToSet(Tail(c.todo)) \subseteq c.chunk
    BY <1>1, <1>2
  <1>5. QED
    BY <1>1, <1>2, <1>3, <1>4 DEF Claims

\* The chunk a command reads are rows of the file, and it leaves out only images
\* judged to have no text.
LEMMA ChunkFacts ==
  ASSUME NEW rows \in Seq(CrawledRow), NEW offset \in 0 .. 1, NEW limit \in 0 .. 1
  PROVE  /\ Chunk(Eligible(rows), offset, limit) \in Seq(CrawledRow)
         /\ ToSet(Chunk(Eligible(rows), offset, limit)) \subseteq CrawledRow
         /\ \A row \in ToSet(rows) \ ToSet(Eligible(rows)) :
              row.path \in DOMAIN Checks /\ Checks[row.path] = "NO_TEXT"
  <1> DEFINE P == {row \in ToSet(rows) : ~(row.path \in DOMAIN Checks /\ Checks[row.path] = "NO_TEXT")}
             kept == Eligible(rows)
             last == IF limit = 0 \/ offset + limit > Len(kept) THEN Len(kept) ELSE offset + limit
  <1>1. Among(rows, P) \in Seq(CrawledRow) /\ ToSet(Among(rows, P)) = ToSet(rows) \cap P
    <2> HIDE DEF P
    <2>1. QED
      BY KeptElements
  <1>2. kept \in Seq(CrawledRow) /\ ToSet(kept) = ToSet(rows) \cap P
    BY <1>1 DEF Eligible
  <1>3. \A row \in ToSet(rows) \ ToSet(kept) : row.path \in DOMAIN Checks /\ Checks[row.path] = "NO_TEXT"
    <2> HIDE DEF kept
    <2>1. QED
      BY <1>2
  <1> HIDE DEF kept, P
  <1>4. Len(kept) \in Nat
    BY <1>2
  <1>5. last \in 0 .. Len(kept)
    BY <1>4
  <1>6. Chunk(kept, offset, limit) = SubSeq(kept, offset + 1, last)
    BY DEF Chunk
  <1> HIDE DEF last
  <1>7. \A i \in offset + 1 .. last : i \in 1 .. Len(kept)
    BY <1>4, <1>5
  <1>8. SubSeq(kept, offset + 1, last) \in Seq(CrawledRow)
    BY <1>2, <1>4, <1>5, <1>7
  <1>9. QED
    BY <1>3, <1>6, <1>8 DEF kept, ToSet

\* products.csv only grows.
LEMMA OutGrows ==
  ASSUME ReaderShape, BatchNext \/ UNCHANGED batchVars
  PROVE  ToSet(out) \subseteq ToSet(out')
  <1>1. PICK S : out \in Seq(S)
    BY DEF ReaderShape
  <1>2. CASE out' = out
    BY <1>2
  <1>3. ASSUME NEW o, out' = Append(out, o)
        PROVE  ToSet(out) \subseteq ToSet(out')
    BY <1>1, <1>3, Joins DEF Joined
  <1>4. QED
    BY <1>2, <1>3, RowsWritten

\* So do failures.csv and what was read.
LEMMA FailuresGrow ==
  ASSUME ReaderShape, BatchNext \/ UNCHANGED batchVars
  PROVE  ocrFailures \subseteq ocrFailures' /\ heard \subseteq heard'
  <1>1. CASE \E w \in Procs : ReaderSteps(w) \/ ReaderDies(w)
    BY <1>1 DEF ReaderSteps, ReaderDies, ClassifyImage, TornImageEnds, ClassifiesNothing, MergesChecks,
                WritesChecks, LoadsKeys, SkipRow, DomOnly, PlainImage, DisclosingImage, FailRow, EndsBatch,
                ReaderExits, Hear, results
  <1>2. CASE \E w \in Procs : ReadsBegin(w)
    BY <1>2, ReadingBegun
  <1>3. CASE Outside
    BY <1>3, OutsideFacts
  <1>4. QED
    BY <1>1, <1>2, <1>3, StepKinds

\* A command reads the file and has nothing settled yet.
LEMMA ClaimsBegun ==
  ASSUME ReaderShape, CollType, ChecksTrue, NEW w \in Procs, ReadsBegin(w)
  PROVE  StepOf(w) /\ Claims(reader'[w], out', heard', ocrFailures')
  <1>1. ASSUME NEW force \in BOOLEAN, ClassifyImages(w, force)
        PROVE  StepOf(w) /\ Claims(reader'[w], out', heard', ocrFailures')
    <2>1. PICK todo : reader' = [reader EXCEPT ![w] = [NoReader EXCEPT !.pc = "images", !.todo = todo]]
      BY <1>1 DEF ClassifyImages
    <2> DEFINE next == [NoReader EXCEPT !.pc = "images", !.todo = todo]
    <2>2. /\ DOMAIN next = DOMAIN NoReader /\ next.pc = "images" /\ next.chunk = {}
          /\ next.passed = {} /\ next.failed = {}
      BY DEF NoReader
    <2>3. reader' = [reader EXCEPT ![w] = next]
      BY <2>1
    <2> HIDE DEF next
    <2>4. StepOf(w) /\ reader'[w] = next
      BY <2>2, <2>3, StepFacts
    <2>5. QED
      BY <2>2, <2>4 DEF Claims
  <1>2. ASSUME NEW offset \in 0 .. 1, NEW limit \in 0 .. 1, ProcessBatch(w, offset, limit)
        PROVE  StepOf(w) /\ Claims(reader'[w], out', heard', ocrFailures')
    <2> DEFINE chunk  == Chunk(Eligible(crawled), offset, limit)
               passed == ToSet(crawled) \ ToSet(Eligible(crawled))
               next   == [NoReader EXCEPT !.pc = IF chunk = <<>> THEN "exit" ELSE "keys",
                                          !.todo = chunk, !.chunk = ToSet(chunk), !.passed = passed]
    <2>1. reader' = [reader EXCEPT ![w] = next] /\ crawled \in Seq(CrawledRow)
      BY <1>2 DEF ProcessBatch, CollType
    <2>2. /\ chunk \in Seq(CrawledRow) /\ ToSet(chunk) \subseteq CrawledRow
          /\ \A row \in passed : row.path \in DOMAIN Checks /\ Checks[row.path] = "NO_TEXT"
      BY <2>1, ChunkFacts
    <2>3. \A row \in passed : row.path # NoImage /\ HasNoText(ImageOf(row))
      BY <2>2 DEF ChecksTrue, VerdictsTrue, ImageOf
    <2> HIDE DEF chunk, passed
    <2>4. /\ DOMAIN next = DOMAIN NoReader /\ next.pc = IF chunk = <<>> THEN "exit" ELSE "keys"
          /\ next.todo = chunk /\ next.chunk = ToSet(chunk) /\ next.passed = passed /\ next.failed = {}
      BY DEF NoReader
    <2> HIDE DEF next
    <2>5. StepOf(w) /\ reader'[w] = next
      BY <2>1, <2>4, StepFacts
    <2>6. chunk = <<>> => ToSet(chunk) = {}
      BY DEF ToSet
    <2>7. QED
      BY <2>2, <2>3, <2>4, <2>5, <2>6 DEF Claims
  <1>3. QED
    BY <1>1, <1>2 DEF ReadsBegin

\* The steps of a reader between its rows.
LEMMA ClaimsKept ==
  ASSUME ReaderShape, NEW w \in Procs, Claims(reader[w], out', heard', ocrFailures'), out' = out,
         \/ ClassifyImage(w) \/ TornImageEnds(w) \/ ClassifiesNothing(w) \/ MergesChecks(w)
         \/ WritesChecks(w) \/ LoadsKeys(w) \/ EndsBatch(w) \/ ReaderExits(w) \/ ReaderDies(w)
  PROVE  StepOf(w) /\ Claims(reader'[w], out', heard', ocrFailures')
  <1> DEFINE c == reader[w]
             Same == /\ reader'[w].chunk = c.chunk /\ reader'[w].passed = c.passed
                     /\ reader'[w].failed = c.failed
  <1>1. DOMAIN reader = Procs /\ DOMAIN c = DOMAIN NoReader
    BY DEF ReaderShape
  <1>2. CASE ClassifyImage(w) \/ ClassifiesNothing(w) \/ MergesChecks(w) \/ WritesChecks(w)
    <2>1. /\ StepOf(w) /\ Same /\ c.pc \in {"images", "verdicts"}
          /\ reader'[w].pc \in {"images", "verdicts", "exit"}
      BY <1>1, <1>2 DEF ClassifyImage, ClassifiesNothing, MergesChecks, WritesChecks, StepOf, NoReader
    <2>2. c.chunk = {}
      BY <2>1 DEF Claims
    <2>3. QED
      BY <2>1, <2>2 DEF Claims
  <1>3. CASE LoadsKeys(w)
    <2>1. /\ StepOf(w) /\ Same /\ c.pc = "keys" /\ reader'[w].pc = "rows"
          /\ reader'[w].todo = c.todo /\ reader'[w].seen = LoadExistingSourceKeys(out')
      BY <1>1, <1>3 DEF LoadsKeys, StepOf, NoReader
    <2>2. c.chunk \subseteq CrawledRow
      BY DEF Claims
    <2>3. /\ \A q : ProductKey(q) \in LoadExistingSourceKeys(out') => KnownIn(out', q)
          /\ \A row \in c.chunk : row.path # NoImage /\ Key(row) \in LoadExistingSourceKeys(out') =>
                                    SettledIn(out', heard', row)
      BY <2>2, LoadedKeys DEF SettledIn
    <2> HIDE DEF c
    <2>4. QED
      BY <2>1, <2>3 DEF Claims, c
  <1>4. CASE EndsBatch(w)
    <2>1. StepOf(w) /\ Same /\ c.pc = "rows" /\ reader'[w].pc = "exit" /\ c.todo = <<>>
      BY <1>1, <1>4 DEF EndsBatch, StepOf, NoReader
    <2>2. ToSet(<<>>) = {}
      BY DEF ToSet
    <2>3. QED
      BY <2>1, <2>2 DEF Claims
  <1>5. CASE TornImageEnds(w) \/ ReaderExits(w) \/ ReaderDies(w)
    <2>1. StepOf(w) /\ reader'[w] = NoReader
      BY <1>1, <1>5 DEF TornImageEnds, ReaderExits, ReaderDies, StepOf
    <2>2. QED
      BY <2>1 DEF Claims, NoReader
  <1>6. QED
    BY <1>2, <1>3, <1>4, <1>5

\* The steps of a reader at a row: it fails, or is settled by them, and so is every
\* other of its image.
LEMMA ClaimsAtRow ==
  ASSUME ReaderShape, NEW w \in Procs, Claims(reader[w], out', heard', ocrFailures'),
         SkipRow(w) \/ DomOnly(w) \/ PlainImage(w) \/ DisclosingImage(w) \/ FailRow(w)
  PROVE  StepOf(w) /\ Claims(reader'[w], out', heard', ocrFailures')
  <1> DEFINE c   == reader[w]
             row == Head(c.todo)
             q   == row.product
  <1>1. /\ DOMAIN reader = Procs /\ DOMAIN c = DOMAIN NoReader
        /\ c.pc = "rows" /\ c.todo # <<>> /\ Row(w) = row
    BY DEF ReaderShape, SkipRow, DomOnly, PlainImage, DisclosingImage, FailRow, AtRow, Row
  <1>2. /\ c.chunk \subseteq CrawledRow /\ c.todo \in Seq(CrawledRow) /\ ToSet(c.todo) \subseteq c.chunk
        /\ \A r \in c.failed : Key(r) \in ocrFailures'
        /\ \A p : ProductKey(p) \in c.seen => KnownIn(out', p)
        /\ \A r \in c.chunk : r.path # NoImage /\ Key(r) \in c.seen => SettledIn(out', heard', r)
    BY <1>1 DEF Claims
  <1>3. row \in c.chunk /\ row \in CrawledRow
    BY <1>1, <1>2, TailFacts
  <1>4. \A r \in c.chunk : /\ Key(r) = <<r.product, ImageOf(r)>>
                           /\ r.path = NoImage => Key(r) = ProductKey(r.product) /\ ImageOf(r) = NoImage
                           /\ r.path # NoImage => ImageOf(r) # NoImage
                           /\ r.dom \in Doms
    BY <1>2, KeyFacts
  <1>5. ASSUME NEW keys, Onward(w, keys), SettledIn(out', heard', row),
               \A p : ProductKey(p) \in keys => KnownIn(out', p),
               \A r \in c.chunk : r.path # NoImage /\ Key(r) \in keys => SettledIn(out', heard', r)
        PROVE  StepOf(w) /\ Claims(reader'[w], out', heard', ocrFailures')
    <2>1. /\ StepOf(w) /\ reader'[w].pc = "rows" /\ reader'[w].todo = Tail(c.todo)
          /\ reader'[w].chunk = c.chunk /\ reader'[w].passed = c.passed /\ reader'[w].failed = c.failed
          /\ reader'[w].seen = c.seen \cup keys
      BY <1>1, <1>5 DEF Onward, StepOf, NoReader
    <2>2. QED
      BY <1>1, <1>2, <1>5, <2>1, GoesOn
  <1>6. PICK S : out \in Seq(S)
    BY DEF ReaderShape
  <1>7. ASSUME NEW o, out' = Append(out, o)
        PROVE  o \in ToSet(out')
    BY <1>6, <1>7, Joins DEF Joined
  <1>8. /\ DomRow(row).product = q /\ DomRow(row).image = NoImage
        /\ ImageRow(row).product = q /\ ImageRow(row).image = ImageOf(row)
    BY MergedTells DEF DomRow, ImageRow
  <1> HIDE DEF c, row, q
  <1>9. CASE SkipRow(w)
    <2>1. Onward(w, {}) /\ Key(row) \in c.seen
      BY <1>1, <1>9 DEF SkipRow, c
    <2>2. SettledIn(out', heard', row)
      BY <1>2, <1>3, <1>4, <2>1 DEF SettledIn
    <2>3. QED
      BY <1>5, <2>1, <2>2
  <1>10. CASE DomOnly(w)
    <2>1. Onward(w, {Key(row)}) /\ row.path = NoImage /\ out' = Append(out, DomRow(row))
      BY <1>1, <1>10 DEF DomOnly
    <2>2. KnownIn(out', q)
      BY <1>7, <1>8, <2>1 DEF KnownIn
    <2>3. SettledIn(out', heard', row)
      BY <2>1, <2>2 DEF SettledIn, q
    <2>4. \A p : ProductKey(p) \in {Key(row)} => KnownIn(out', p)
      BY <1>3, <1>4, <2>1, <2>2 DEF ProductKey, q
    <2>5. \A r \in c.chunk : r.path # NoImage => Key(r) # Key(row)
      BY <1>3, <1>4, <2>1
    <2>6. QED
      BY <1>5, <2>1, <2>3, <2>4, <2>5
  <1>11. CASE DisclosingImage(w)
    <2>1. Onward(w, {Key(row)}) /\ row.path # NoImage /\ out' = Append(out, ImageRow(row))
      BY <1>1, <1>11 DEF DisclosingImage
    <2>2. \A r : Key(r) = Key(row) => WrittenIn(out', r)
      BY <1>3, <1>4, <1>7, <1>8, <2>1 DEF WrittenIn, q
    <2>3. \A r \in c.chunk : r.path # NoImage /\ Key(r) = Key(row) => SettledIn(out', heard', r)
      BY <2>2 DEF SettledIn
    <2>4. \A p : ProductKey(p) # Key(row)
      BY <1>3, <1>4, <2>1 DEF ProductKey
    <2>5. SettledIn(out', heard', row)
      BY <1>3, <2>1, <2>3
    <2>6. QED
      BY <1>5, <2>1, <2>3, <2>4, <2>5
  <1>12. CASE FailRow(w)
    <2>1. /\ reader' = [reader EXCEPT ![w].todo = Tail(@), ![w].failed = @ \cup {row}]
          /\ Key(row) \in ocrFailures'
      BY <1>1, <1>12 DEF FailRow
    <2>2. /\ StepOf(w) /\ reader'[w].pc = "rows" /\ reader'[w].todo = Tail(c.todo)
          /\ reader'[w].chunk = c.chunk /\ reader'[w].passed = c.passed
          /\ reader'[w].failed = c.failed \cup {row} /\ reader'[w].seen = c.seen \cup {}
      BY <1>1, <2>1 DEF StepOf, NoReader, c
    <2> DEFINE d    == reader'[w]
               keys == {}
    <2>3. /\ d.pc = "rows" /\ d.todo = Tail(c.todo) /\ d.chunk = c.chunk /\ d.passed = c.passed
          /\ d.seen = c.seen \cup keys /\ c.failed \subseteq d.failed
          /\ \A r \in d.failed : Key(r) \in ocrFailures'
          /\ Head(c.todo) \in d.failed
      BY <1>2, <2>1, <2>2 DEF row
    <2>4. c.pc = "rows" /\ c.todo # <<>> /\ Claims(c, out', heard', ocrFailures')
      BY <1>1 DEF c
    <2>5. \A k : k \notin keys
      OBVIOUS
    <2> HIDE DEF d, keys
    <2>6. Claims(d, out', heard', ocrFailures')
      BY <2>3, <2>4, <2>5, GoesOn
    <2>7. QED
      BY <2>2, <2>6 DEF d
  <1>13. CASE PlainImage(w)
    <2> DEFINE words == HasWords(row.dom) /\ ProductKey(q) \notin c.seen
               keys  == {Key(row)} \cup IF words THEN {ProductKey(q)} ELSE {}
    <2>1. /\ Onward(w, keys) /\ row.path # NoImage /\ Plain(ImageOf(row))
          /\ words => out' = Append(out, DomRow(row))
          /\ <<q, row.dom>> \in heard'
      BY <1>1, <1>13 DEF PlainImage, Hear, q, c
    <2>2. words => KnownIn(out', q)
      BY <1>7, <1>8, <2>1 DEF KnownIn
    <2>3. KnownIn(out', q) \/ ~HasWords(row.dom)
      BY <1>2, <2>2
    <2>4. ToldIn(out', heard', q)
      BY <1>3, <1>4, <2>1, <2>3 DEF ToldIn
    <2>5. \A r \in c.chunk : r.path # NoImage /\ Key(r) = Key(row) => SettledIn(out', heard', r)
      <3>1. ASSUME NEW r \in c.chunk, r.path # NoImage, Key(r) = Key(row)
            PROVE  SettledIn(out', heard', r)
        <4>1. r.product = q /\ ImageOf(r) = ImageOf(row)
          BY <1>3, <1>4, <3>1 DEF q
        <4>2. QED
          BY <2>1, <2>4, <3>1, <4>1 DEF SettledIn
      <3>2. QED
        BY <3>1
    <2>6. SettledIn(out', heard', row)
      BY <1>3, <2>1, <2>5
    <2>7. \A p : ProductKey(p) \in keys => KnownIn(out', p)
      BY <1>3, <1>4, <2>1, <2>2 DEF ProductKey
    <2>8. \A r \in c.chunk : r.path # NoImage /\ Key(r) \in keys => Key(r) = Key(row)
      BY <1>4 DEF ProductKey
    <2> HIDE DEF keys
    <2>9. QED
      BY <1>5, <2>1, <2>5, <2>6, <2>7, <2>8
  <1>14. QED
    BY <1>9, <1>10, <1>11, <1>12, <1>13

\* A row that is written tells what the page told of the row that was read.
LEMMA HeardStep ==
  ASSUME ReaderShape, ClaimsInv, BatchNext \/ UNCHANGED batchVars
  PROVE  OutHeard'
  <1>1. heard \subseteq heard'
    BY FailuresGrow
  <1>2. PICK S : out \in Seq(S)
    BY DEF ReaderShape
  <1>3. CASE out' = out
    BY <1>1, <1>3 DEF ClaimsInv, OutHeard
  <1>4. ASSUME NEW w \in Procs, DomOnly(w) \/ PlainImage(w) \/ DisclosingImage(w), out' # out
        PROVE  OutHeard'
    <2> DEFINE row == Row(w)
    <2>1. row \in CrawledRow
      <3>1. reader[w].pc = "rows" /\ reader[w].todo # <<>>
        BY <1>4 DEF DomOnly, PlainImage, DisclosingImage, AtRow
      <3>2. /\ reader[w].todo \in Seq(CrawledRow) /\ reader[w].chunk \subseteq CrawledRow
            /\ ToSet(reader[w].todo) \subseteq reader[w].chunk
        BY <3>1 DEF ClaimsInv, Claims
      <3>3. QED
        BY <3>1, <3>2, TailFacts DEF Row
    <2>2. row.dom \in Doms
      BY <2>1, KeyFacts
    <2> HIDE DEF row
    <2>3. <<row.product, row.dom>> \in heard' /\ \E o \in {DomRow(row), ImageRow(row)} : out' = Append(out, o)
      BY <1>4 DEF DomOnly, PlainImage, DisclosingImage, Hear, row
    <2>4. PICK o \in {DomRow(row), ImageRow(row)} : out' = Append(out, o)
      BY <2>3
    <2>5. o.product = row.product /\ Tells(o, row.dom)
      BY <2>4, MergedTells DEF DomRow, ImageRow
    <2>6. ToSet(out') = ToSet(out) \cup {o}
      BY <1>2, <2>4, Joins DEF Joined
    <2>7. \A x \in ToSet(out) : \E dom \in Doms : <<x.product, dom>> \in heard' /\ Tells(x, dom)
      BY <1>1 DEF ClaimsInv, OutHeard
    <2>8. \E dom \in Doms : <<o.product, dom>> \in heard' /\ Tells(o, dom)
      BY <2>2, <2>3, <2>5
    <2>9. \A x \in ToSet(out') : \E dom \in Doms : <<x.product, dom>> \in heard' /\ Tells(x, dom)
      BY <2>6, <2>7, <2>8
    <2>10. QED
      BY <2>9 DEF OutHeard, Tells
  <1>5. CASE \E w \in Procs : DomOnly(w) \/ PlainImage(w) \/ DisclosingImage(w)
    BY <1>3, <1>4, <1>5
  <1>6. CASE ~\E w \in Procs : DomOnly(w) \/ PlainImage(w) \/ DisclosingImage(w)
    <2>1. CASE \E w \in Procs : ReaderSteps(w) \/ ReaderDies(w)
      BY <1>3, <1>6, <2>1 DEF ReaderSteps, ReaderDies, ClassifyImage, TornImageEnds, ClassifiesNothing,
                              MergesChecks, WritesChecks, LoadsKeys, SkipRow, FailRow, EndsBatch,
                              ReaderExits, results
    <2>2. CASE \E w \in Procs : ReadsBegin(w)
      BY <1>3, <2>2, ReadingBegun
    <2>3. CASE Outside
      BY <1>3, <2>3, OutsideFacts
    <2>4. QED
      BY <2>1, <2>2, <2>3, StepKinds
  <1>7. QED
    BY <1>5, <1>6

\* Every step keeps the claims.
LEMMA ClaimsStep == RowInv /\ CollType /\ ChecksTrue /\ ClaimsInv /\ [BatchNext]_batchVars => ClaimsInv'
  <1> SUFFICES ASSUME RowInv, CollType, ChecksTrue, ClaimsInv, BatchNext \/ UNCHANGED batchVars
               PROVE  ClaimsInv'
    OBVIOUS
  <1>1. /\ ReaderShape /\ ToSet(out) \subseteq ToSet(out') /\ heard \subseteq heard'
        /\ ocrFailures \subseteq ocrFailures'
    BY OutGrows, FailuresGrow DEF RowInv
  <1>2. OutHeard'
    BY <1>1, HeardStep
  <1>3. \A w \in Procs : Claims(reader[w], out', heard', ocrFailures')
    BY <1>1, ClaimsGrow DEF ClaimsInv
  <1>4. ASSUME NEW w \in Procs, StepOf(w), Claims(reader'[w], out', heard', ocrFailures')
        PROVE  ClaimsInv'
    <2>1. \A v \in Procs : Claims(reader'[v], out', heard', ocrFailures')
      BY <1>3, <1>4 DEF StepOf
    <2>2. QED
      BY <1>2, <2>1 DEF ClaimsInv
  <1>5. ASSUME NEW w \in Procs, ReadsBegin(w)
        PROVE  ClaimsInv'
    BY <1>1, <1>4, <1>5, ClaimsBegun
  <1>6. ASSUME NEW w \in Procs, ReaderSteps(w) \/ ReaderDies(w)
        PROVE  ClaimsInv'
    <2>1. CASE \/ ClassifyImage(w) \/ TornImageEnds(w) \/ ClassifiesNothing(w) \/ MergesChecks(w)
               \/ WritesChecks(w) \/ LoadsKeys(w) \/ EndsBatch(w) \/ ReaderExits(w) \/ ReaderDies(w)
      <3>1. out' = out
        BY <2>1 DEF ClassifyImage, TornImageEnds, ClassifiesNothing, MergesChecks, WritesChecks,
                    LoadsKeys, EndsBatch, ReaderExits, ReaderDies, results
      <3>2. QED
        BY <1>1, <1>3, <1>4, <2>1, <3>1, ClaimsKept
    <2>2. CASE SkipRow(w) \/ DomOnly(w) \/ PlainImage(w) \/ DisclosingImage(w) \/ FailRow(w)
      BY <1>1, <1>3, <1>4, <2>2, ClaimsAtRow
    <2>3. QED
      BY <1>6, <2>1, <2>2 DEF ReaderSteps
  <1>7. CASE Outside
    BY <1>2, <1>3, <1>7, OutsideFacts DEF ClaimsInv
  <1>8. QED
    BY <1>5, <1>6, <1>7, StepKinds

\* Where a row of the product is known, it tells what this row's page told, or a
\* row of the product was read with other words.
LEMMA KnownTells ==
  ASSUME OutHeard, NEW row, KnownIn(out, row.product)
  PROVE  \/ \E dom \in Doms : dom # row.dom /\ <<row.product, dom>> \in heard
         \/ \E o \in ToSet(out) : o.product = row.product /\ Tells(o, row.dom)
  <1>1. PICK o \in ToSet(out) : o.product = row.product
    BY DEF KnownIn
  <1>2. PICK dom \in Doms : <<o.product, dom>> \in heard /\ Tells(o, dom)
    BY DEF OutHeard
  <1>3. QED
    BY <1>1, <1>2

\* Claims that hold are true when the command ends.
LEMMA ClaimsMean == ClaimsInv => ClaimsAreTrue
  <1> SUFFICES ASSUME ClaimsInv, NEW w \in Procs, reader[w].pc = "exit"
               PROVE  /\ \A row \in reader[w].passed : row.path # NoImage /\ HasNoText(ImageOf(row))
                      /\ \A row \in reader[w].failed : Key(row) \in ocrFailures
                      /\ \A row \in reader[w].chunk \ reader[w].failed :
                           LET Rows    == {o \in ToSet(out) : o.product = row.product}
                               Changed == \E dom \in Doms : dom # row.dom /\ <<row.product, dom>> \in heard
                           IN /\ IF row.path = NoImage THEN Rows # {}
                                 ELSE Plain(ImageOf(row)) \/ \E o \in Rows : o.image = ImageOf(row)
                              /\ HasWords(row.dom) => Changed \/ \E o \in Rows : Tells(o, row.dom)
    BY DEF ClaimsAreTrue
  <1>1. /\ OutHeard
        /\ reader[w].chunk \subseteq CrawledRow
        /\ \A row \in reader[w].passed : row.path # NoImage /\ HasNoText(ImageOf(row))
        /\ \A row \in reader[w].failed : Key(row) \in ocrFailures
        /\ \A row \in reader[w].chunk \ reader[w].failed : SettledIn(out, heard, row)
    BY DEF ClaimsInv, Claims
  <1>2. ASSUME NEW row \in reader[w].chunk \ reader[w].failed
        PROVE  /\ IF row.path = NoImage THEN KnownIn(out, row.product)
                  ELSE \/ Plain(ImageOf(row))
                       \/ \E o \in ToSet(out) : o.product = row.product /\ o.image = ImageOf(row)
               /\ HasWords(row.dom) =>
                    \/ \E dom \in Doms : dom # row.dom /\ <<row.product, dom>> \in heard
                    \/ \E o \in ToSet(out) : o.product = row.product /\ Tells(o, row.dom)
    <2>1. SettledIn(out, heard, row) /\ row \in CrawledRow
      BY <1>1, <1>2
    <2>2. Key(row) = <<row.product, ImageOf(row)>>
      BY <2>1, KeyFacts
    <2>3. CASE KnownIn(out, row.product)
      BY <1>1, <2>1, <2>2, <2>3, KnownTells DEF SettledIn, WrittenIn
    <2>4. CASE ~KnownIn(out, row.product)
      <3>1. row.path # NoImage /\ Plain(ImageOf(row)) /\ ToldIn(out, heard, row.product)
        BY <2>1, <2>2, <2>4 DEF SettledIn, WrittenIn, KnownIn
      <3>2. PICK dom \in Doms : <<row.product, dom>> \in heard /\ ~HasWords(dom)
        BY <2>4, <3>1 DEF ToldIn
      <3>3. QED
        BY <3>1, <3>2
    <2>5. QED
      BY <2>3, <2>4
  <1>3. QED
    BY <1>1, <1>2 DEF KnownIn

\* A command of the OCR container that ended left out only images without text,
\* and may count its chunk as done (cli.py, process_batch): each row of it failed
\* and is in failures.csv; or its image has its row in products.csv or discloses
\* nothing, and what the page told is in a row of the product, unless a row of the
\* product was read before with other words; whatever died before, and with any
\* number of commands at once.
THEOREM ClaimsStayTrue == BatchSpec => []ClaimsAreTrue
  <1>1. BatchInit => ClaimsInv /\ ChecksTrue
    <2> SUFFICES ASSUME BatchInit
                 PROVE  ClaimsInv /\ ChecksTrue
      OBVIOUS
    <2>1. /\ \A w \in Procs : reader[w] = NoReader
          /\ out = <<>> /\ checks = Absent
      BY DEF BatchInit, OcrInit
    <2>2. OutHeard
      BY <2>1 DEF OutHeard, ToSet
    <2>3. \A w \in Procs : Claims(reader[w], out, heard, ocrFailures)
      BY <2>1 DEF Claims, NoReader
    <2>4. NoReader.pc # "images" /\ NoReader.found = <<>> /\ Checks = <<>>
      BY <2>1 DEF NoReader, Checks
    <2>5. QED
      BY <2>1, <2>2, <2>3, <2>4, NoJudging, NoVerdicts DEF ClaimsInv, ChecksTrue
  <1>2. QED
    BY <1>1, ClaimsMean, ClaimsStep, ChecksStep, RowInit, RowStep, CollTypeInit, BackStep, ListTypeStep,
       DiscTypeInit, DiscTypeStep, PTL DEF BatchSpec
=============================================================================
