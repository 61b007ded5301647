-------------------------- MODULE LayerBundleProofs --------------------------
(* Proofs about LayerBundle for any layers, files, attempts and faults.       *)
EXTENDS LayerBundle, TLAPS

Types ==
  /\ bundle \in [Sources -> 0 .. MaxAttempts]
  /\ pc \in [Runs -> {"none", "check", "read", "promote", "settle", "SUCCEEDED", "FAILED"}]
  /\ pos \in [Runs -> Nat \ {0}]
  /\ seen \in [Runs -> [Sources -> 0 .. MaxAttempts]]
  /\ usable \in [Runs -> BOOLEAN]
  /\ faults \in 0 .. MaxFaults

\* A run's position lies within the list it works through.
InRange(r) ==
  /\ pc[r] \in {"none", "check"} => pos[r] = 1
  /\ pc[r] = "read" => pos[r] <= Len(Reads[r[1]]) + 1
  /\ pc[r] = "promote" => pos[r] <= Len(Outputs[r[1]])

Typed == Types /\ \A r \in Runs : InRange(r)

LEMMA TypedIsTypeOK == LayerTypeOK <=> Typed
BY DEF LayerTypeOK, Typed, Types, InRange

\* The lists have natural lengths and members of the right kind.
LEMMA Lists ==
  ASSUME NEW l \in Layers
  PROVE  /\ Len(Reads[l]) \in Nat /\ Len(Outputs[l]) \in Nat \ {0}
         /\ \A i \in 1 .. Len(Reads[l]) : Reads[l][i] \in Sources
         /\ \A i \in 1 .. Len(Outputs[l]) :
              /\ Outputs[l][i] \in Files
              /\ Outputs[l][i] = Manifest <=> i = Len(Outputs[l])
<1>1. Reads[l] \in Seq(Sources) /\ Outputs[l] \in Seq(Files)
  BY LayerAssumption DEF LayerAssumption
<1>2. Len(Outputs[l]) > 0
      /\ \A i \in DOMAIN Outputs[l] : Outputs[l][i] = Manifest <=> i = Len(Outputs[l])
  BY OutputsAssumption DEF OutputsAssumption
<1>. QED BY <1>1, <1>2

\* Every step keeps the variables in their types.
LEMMA StepTyped == ASSUME Typed, [Next]_vars PROVE Typed'
<1> USE DEF Typed, Types
<1>a. \A r \in Runs : r[1] \in Layers /\ r[2] \in Attempts
  BY DEF Runs
<1>b. MaxAttempts \in Nat /\ MaxFaults \in Nat
  BY LayerAssumption DEF LayerAssumption
<1>c. \A r \in Runs : Len(Reads[r[1]]) \in Nat /\ Len(Outputs[r[1]]) \in Nat \ {0}
  BY <1>a, Lists
<1>1. CASE UNCHANGED vars
  BY <1>1 DEF vars, InRange
<1>2. ASSUME NEW r \in Runs, Start(r) PROVE Typed'
  BY <1>2, <1>c DEF Start, InRange
<1>3. ASSUME NEW r \in Runs, Check(r) PROVE Typed'
  <2>1. pc' = [pc EXCEPT ![r] = "read"] \/ pc' = [pc EXCEPT ![r] = "FAILED"]
    BY <1>3 DEF Check
  <2>2. pos[r] = 1 /\ UNCHANGED <<bundle, pos, seen, usable, faults>>
    BY <1>3 DEF Check, InRange
  <2>8. Types'
    BY <2>1, <2>2, <1>c
  <2>9. ASSUME NEW q \in Runs PROVE InRange(q)'
    <3>1. CASE q = r
      BY <3>1, <2>1, <2>2, <1>c DEF InRange
    <3>2. CASE q # r
      BY <3>2, <2>1, <2>2, <1>c DEF InRange
    <3>. QED BY <3>1, <3>2
  <2>. QED BY <2>8, <2>9
<1>4. ASSUME NEW r \in Runs, Read(r) PROVE Typed'
  <2> DEFINE source == Reads[r[1]][pos[r]]
  <2>1. pc[r] = "read" /\ pos[r] <= Len(Reads[r[1]]) /\ source \in Sources
    BY <1>4, <1>a, Lists DEF Read
  <2>2. bundle[source] \in 0 .. MaxAttempts
    BY <2>1
  <2>3. seen' \in [Runs -> [Sources -> 0 .. MaxAttempts]]
    BY <1>4, <2>1, <2>2 DEF Read
  <2>4. \/ pc' = [pc EXCEPT ![r] = "FAILED"] /\ UNCHANGED pos
        \/ pos' = [pos EXCEPT ![r] = @ + 1] /\ UNCHANGED pc
    BY <1>4 DEF Read
  <2>5. UNCHANGED <<bundle, usable, faults>>
    BY <1>4 DEF Read
  <2>7. /\ pos' \in [Runs -> Nat \ {0}]
        /\ pc' \in [Runs -> {"none", "check", "read", "promote", "settle", "SUCCEEDED", "FAILED"}]
    <3>1. CASE pc' = [pc EXCEPT ![r] = "FAILED"] /\ UNCHANGED pos
      BY <3>1
    <3>2. CASE pos' = [pos EXCEPT ![r] = @ + 1] /\ UNCHANGED pc
      BY <3>2
    <3>. QED BY <3>1, <3>2, <2>4
  <2>8. Types'
    BY <2>3, <2>5, <2>7
  <2>9. ASSUME NEW q \in Runs PROVE InRange(q)'
    <3>1. CASE q = r
      <4>1. pos[r] \in Nat /\ pos[r] + 1 <= Len(Reads[r[1]]) + 1
        BY <2>1, <1>c
      <4>2. CASE pc' = [pc EXCEPT ![r] = "FAILED"] /\ UNCHANGED pos
        BY <4>2, <3>1 DEF InRange
      <4>3. CASE pos' = [pos EXCEPT ![r] = @ + 1] /\ UNCHANGED pc
        BY <4>1, <4>3, <3>1, <2>1 DEF InRange
      <4>. QED BY <4>2, <4>3, <2>4
    <3>2. CASE q # r
      BY <3>2, <2>1, <2>3, <2>4, <2>5, <1>c DEF InRange
    <3>. QED BY <3>1, <3>2
  <2>. QED BY <2>8, <2>9
<1>5. ASSUME NEW r \in Runs, Stage(r) PROVE Typed'
  <2>1. PICK some \in BOOLEAN : usable' = [usable EXCEPT ![r] = some]
    BY <1>5 DEF Stage
  <2>. QED BY <1>5, <2>1, <1>c DEF Stage, InRange
<1>6. ASSUME NEW r \in Runs, Promote(r) PROVE Typed'
  <2>1. pc[r] = "promote" /\ pos[r] \in 1 .. Len(Outputs[r[1]])
    BY <1>6, <1>a, Lists DEF Promote, InRange
  <2>2. bundle' \in [Sources -> 0 .. MaxAttempts]
    BY <1>6, <2>1, <1>a, <1>b, Lists DEF Promote, Attempts, NextOutput, Sources
  <2>3. \/ pc' = [pc EXCEPT ![r] = "settle"] /\ UNCHANGED pos
        \/ pos[r] # Len(Outputs[r[1]]) /\ pos' = [pos EXCEPT ![r] = @ + 1] /\ UNCHANGED pc
    BY <1>6 DEF Promote
  <2>4. UNCHANGED <<seen, usable, faults>>
    BY <1>6 DEF Promote
  <2>7. /\ pos' \in [Runs -> Nat \ {0}]
        /\ pc' \in [Runs -> {"none", "check", "read", "promote", "settle", "SUCCEEDED", "FAILED"}]
    <3>1. CASE pc' = [pc EXCEPT ![r] = "settle"] /\ UNCHANGED pos
      BY <3>1
    <3>2. CASE pos' = [pos EXCEPT ![r] = @ + 1] /\ UNCHANGED pc
      BY <3>2
    <3>. QED BY <3>1, <3>2, <2>3
  <2>8. Types'
    BY <2>2, <2>4, <2>7
  <2>9. ASSUME NEW q \in Runs PROVE InRange(q)'
    <3>1. CASE q = r
      <4>1. CASE pc' = [pc EXCEPT ![r] = "settle"] /\ UNCHANGED pos
        BY <4>1, <3>1 DEF InRange
      <4>2. CASE /\ pos[r] # Len(Outputs[r[1]])
                 /\ pos' = [pos EXCEPT ![r] = @ + 1] /\ UNCHANGED pc
        <5>1. pos[r] + 1 <= Len(Outputs[r[1]])
          BY <4>2, <2>1, <1>c
        <5>. QED BY <5>1, <4>2, <3>1, <2>1 DEF InRange
      <4>. QED BY <4>1, <4>2, <2>3
    <3>2. CASE q # r
      BY <3>2, <2>1, <2>2, <2>3, <2>4, <1>c DEF InRange
    <3>. QED BY <3>1, <3>2
  <2>. QED BY <2>8, <2>9
<1>7. ASSUME NEW r \in Runs, Settle(r) PROVE Typed'
  <2>1. pc' = [pc EXCEPT ![r] = "SUCCEEDED"] \/ pc' = [pc EXCEPT ![r] = "FAILED"]
    BY <1>7 DEF Settle
  <2>. QED BY <1>7, <2>1 DEF Settle, InRange
<1>8. ASSUME NEW r \in Runs, Fault(r) PROVE Typed'
  BY <1>8, <1>b DEF Fault, InRange
<1>9. CASE Crash
  BY <1>9, <1>b DEF Crash, InRange
<1>. QED BY <1>1, <1>2, <1>3, <1>4, <1>5, <1>6, <1>7, <1>8, <1>9 DEF Next, RunStep

\* The variables keep their types, and a run reads and promotes within its lists.
THEOREM LayersTyped == Spec => []LayerTypeOK
<1>1. Init => Typed
  BY LayerAssumption, Lists DEF LayerAssumption, Init, Typed, Types, InRange, Runs, Sources, Attempts
<1>. QED BY <1>1, StepTyped, TypedIsTypeOK, PTL DEF Spec

-----------------------------------------------------------------------------
(* What a step does to the control of one run, to the files and to what was   *)
(* read; the invariants below are preserved by these facts.                   *)

LEMMA Moves ==
  ASSUME Typed, [Next]_vars, NEW r \in Runs
  PROVE  \/ pc'[r] = pc[r]
         \/ pc[r] = "none" /\ pc'[r] = "check" /\ Start(r)
         \/ pc[r] = "check" /\ pc'[r] = "read" /\ Prerequisites(r[1]) /\ UNCHANGED bundle
         \/ pc[r] = "read" /\ pc'[r] = "promote" /\ Stage(r)
         \/ pc[r] = "promote" /\ pc'[r] = "settle" /\ Promote(r)
         \/ pc[r] = "settle" /\ pc'[r] = "SUCCEEDED"
         \/ pc[r] \in Working /\ pc'[r] = "FAILED"
<1> USE DEF Typed, Types
<1>1. CASE UNCHANGED vars
  BY <1>1 DEF vars
<1>2. ASSUME NEW q \in Runs, Start(q) \/ Fault(q) PROVE pc'[r] = pc[r] \/ q = r
  BY <1>2 DEF Start, Fault
<1>3. ASSUME NEW q \in Runs, RunStep(q) PROVE pc'[r] = pc[r] \/ q = r
  BY <1>3 DEF RunStep, Check, Read, Stage, Promote, Settle
<1>4. ASSUME Start(r) \/ Fault(r) PROVE
        \/ pc[r] = "none" /\ pc'[r] = "check" /\ Start(r)
        \/ pc[r] \in Working /\ pc'[r] = "FAILED"
  BY <1>4 DEF Start, Fault
<1>5. CASE Check(r)
  BY <1>5 DEF Check, Working
<1>6. CASE Read(r)
  BY <1>6 DEF Read, Working
<1>7. CASE Stage(r)
  BY <1>7 DEF Stage
<1>8. CASE Promote(r)
  BY <1>8 DEF Promote
<1>9. CASE Settle(r)
  BY <1>9 DEF Settle, Working
<1>10. CASE Crash
  BY <1>10 DEF Crash
<1>. QED BY <1>1, <1>2, <1>3, <1>4, <1>5, <1>6, <1>7, <1>8, <1>9, <1>10 DEF Next, RunStep

LEMMA FileMoves == ASSUME [Next]_vars PROVE UNCHANGED bundle \/ \E r \in Runs : Promote(r)
BY DEF Next, RunStep, vars, Start, Check, Read, Stage, Settle, Fault, Crash

LEMMA ReadMoves == ASSUME [Next]_vars PROVE UNCHANGED seen \/ \E r \in Runs : Read(r)
BY DEF Next, RunStep, vars, Start, Check, Promote, Stage, Settle, Fault, Crash

\* A position moves only by reading, staging or promoting.
LEMMA PositionMoves ==
  ASSUME Typed, [Next]_vars, NEW r \in Runs
  PROVE  \/ pos'[r] = pos[r] \/ Read(r) \/ Stage(r) \/ Promote(r)
<1> USE DEF Typed, Types
<1>1. ASSUME NEW q \in Runs, RunStep(q) PROVE pos'[r] = pos[r] \/ q = r
  BY <1>1 DEF RunStep, Check, Read, Stage, Promote, Settle
<1>. QED BY <1>1 DEF Next, RunStep, vars, Start, Check, Settle, Fault, Crash

-----------------------------------------------------------------------------
(* One run of a layer at a time.                                              *)

Ordered == \A q \in Runs, r \in Runs : Earlier(q, r) /\ pc[r] # "none" => IsOver(q)

LEMMA StepOrdered == ASSUME Serial, Typed, Ordered, [Next]_vars PROVE Ordered'
<1> SUFFICES ASSUME NEW q \in Runs, NEW r \in Runs, Earlier(q, r), pc'[r] # "none"
             PROVE  IsOver(q)'
  BY DEF Ordered, Earlier
<1>1. IsOver(q)
  <2>1. CASE pc[r] # "none"
    BY <2>1 DEF Ordered
  <2>2. CASE pc[r] = "none"
    BY <2>2, Moves DEF Start, Working
  <2>. QED BY <2>1, <2>2
<1>. QED BY <1>1, Moves DEF IsOver, Working

\* Two working runs of a layer are one.
LEMMA OneWorks ==
  ASSUME Typed, Ordered, NEW q \in Runs, NEW r \in Runs, q[1] = r[1],
         pc[q] \in Working, pc[r] \in Working
  PROVE  q = r
<1>1. ~Earlier(q, r) /\ ~Earlier(r, q)
  BY DEF Ordered, IsOver, Working
<1>2. q[2] \in Nat /\ r[2] \in Nat
  BY LayerAssumption DEF LayerAssumption, Runs, Attempts
<1>3. q[2] = r[2]
  BY <1>1, <1>2 DEF Earlier
<1>. QED BY <1>3 DEF Runs

\* Files carry the number of a run that came to promote them.
Written ==
  \A s \in Sources : bundle[s] # 0 =>
    /\ s \in FilesOf(s[1])
    /\ pc[Writer(s)] \in {"promote", "settle", "SUCCEEDED", "FAILED"}

LEMMA WriterIsRun == ASSUME Typed, NEW s \in Sources, bundle[s] # 0 PROVE Writer(s) \in Runs
<1>1. bundle[s] \in Attempts
  BY LayerAssumption DEF LayerAssumption, Typed, Types, Attempts
<1>. QED BY <1>1 DEF Writer, Runs, Sources

\* No file is ahead of the run that works on its layer.
LEMMA NotAhead ==
  ASSUME Typed, Ordered, Written, NEW r \in Runs, pc[r] \in Working,
         NEW s \in Sources, s[1] = r[1]
  PROVE  bundle[s] <= r[2]
<1>1. r[2] \in Nat /\ bundle[s] \in Nat
  BY LayerAssumption DEF LayerAssumption, Typed, Types, Runs, Attempts
<1>2. SUFFICES ASSUME bundle[s] > r[2] PROVE FALSE
  BY <1>1
<1>3. bundle[s] # 0 /\ Writer(s) \in Runs
  BY <1>1, <1>2, WriterIsRun
<1>4. Earlier(r, Writer(s)) /\ pc[Writer(s)] # "none"
  BY <1>1, <1>2, <1>3 DEF Earlier, Writer, Written
<1>. QED BY <1>3, <1>4 DEF Ordered, IsOver, Working

LEMMA PromoteWrites ==
  ASSUME Typed, NEW r \in Runs, Promote(r)
  PROVE  /\ pc[r] = "promote" /\ pc'[r] \in {"promote", "settle"}
         /\ \A q \in Runs : q # r => pc'[q] = pc[q]
         /\ pos[r] \in 1 .. Len(Outputs[r[1]])
         /\ pc'[r] = "settle" <=> pos[r] = Len(Outputs[r[1]])
         /\ pc'[r] = "promote" => pos'[r] = pos[r] + 1
         /\ NextOutput(r) \in Sources /\ NextOutput(r) \in FilesOf(r[1])
         /\ NextOutput(r)[1] = r[1]
         /\ bundle'[NextOutput(r)] = r[2]
         /\ \A s \in Sources : s # NextOutput(r) => bundle'[s] = bundle[s]
<1> USE DEF Typed, Types
<1>1. r[1] \in Layers /\ r[2] \in Attempts
  BY DEF Runs
<1>2. pc[r] = "promote" /\ pos[r] \in 1 .. Len(Outputs[r[1]])
  BY <1>1, Lists DEF Promote, InRange
<1>3. NextOutput(r) \in Sources /\ NextOutput(r)[1] = r[1]
  BY <1>1, <1>2, Lists DEF NextOutput, Sources
<1>4. Outputs[r[1]] \in Seq(Files)
  BY <1>1, LayerAssumption DEF LayerAssumption
<1>5. NextOutput(r) \in FilesOf(r[1])
  <2>1. pos[r] \in DOMAIN Outputs[r[1]]
    BY <1>2, <1>4
  <2>. QED BY <2>1 DEF NextOutput, FilesOf
<1>6. bundle' = [bundle EXCEPT ![NextOutput(r)] = r[2]]
  BY DEF Promote
<1>7. /\ pc'[r] \in {"promote", "settle"} /\ \A q \in Runs : q # r => pc'[q] = pc[q]
      /\ pc'[r] = "settle" <=> pos[r] = Len(Outputs[r[1]])
      /\ pc'[r] = "promote" => pos'[r] = pos[r] + 1
  BY <1>2 DEF Promote
<1>. QED BY <1>2, <1>3, <1>5, <1>6, <1>7

\* The number of the run that wrote a file never falls.
LEMMA FilesGrow ==
  ASSUME Typed, Ordered, Written, [Next]_vars, NEW s \in Sources
  PROVE  bundle[s] \in Nat /\ bundle'[s] \in Nat /\ bundle[s] <= bundle'[s]
<1>1. bundle[s] \in Nat /\ bundle'[s] \in Nat
  BY StepTyped, LayerAssumption DEF LayerAssumption, Typed, Types
<1>2. CASE UNCHANGED bundle
  BY <1>1, <1>2
<1>3. ASSUME NEW r \in Runs, Promote(r) PROVE bundle[s] <= bundle'[s]
  <2>1. CASE s = NextOutput(r)
    BY <1>3, <2>1, PromoteWrites, NotAhead DEF Working
  <2>2. CASE s # NextOutput(r)
    BY <1>1, <1>3, <2>2, PromoteWrites
  <2>. QED BY <2>1, <2>2
<1>. QED BY <1>1, <1>2, <1>3, FileMoves

LEMMA StepWritten == ASSUME Typed, Written, [Next]_vars PROVE Written'
<1> SUFFICES ASSUME NEW s \in Sources, bundle'[s] # 0
             PROVE  /\ s \in FilesOf(s[1])
                    /\ pc'[Writer(s)'] \in {"promote", "settle", "SUCCEEDED", "FAILED"}
  BY DEF Written
<1>1. CASE bundle'[s] = bundle[s]
  <2>1. Writer(s)' = Writer(s) /\ Writer(s) \in Runs
    BY <1>1, WriterIsRun DEF Writer
  <2>. QED BY <1>1, <2>1, Moves DEF Written, Working
<1>2. ASSUME NEW r \in Runs, Promote(r), s = NextOutput(r)
      PROVE  s \in FilesOf(s[1]) /\ pc'[Writer(s)'] \in {"promote", "settle"}
  <2>1. Writer(s)' = r
    BY <1>2, PromoteWrites DEF Writer, Runs
  <2>. QED BY <1>2, <2>1, PromoteWrites
<1>. QED BY <1>1, <1>2, FileMoves, PromoteWrites

\* A promoting run has written what lies behind it; what a run that succeeded
\* has written gave way to later runs only.
Promoted ==
  \A r \in Runs :
    /\ pc[r] = "promote" =>
         \A i \in 1 .. pos[r] - 1 : bundle[<<r[1], Outputs[r[1]][i]>>] = r[2]
    /\ pc[r] \in {"settle", "SUCCEEDED"} => \A s \in FilesOf(r[1]) : r[2] <= bundle[s]

LEMMA FilesAreSources ==
  ASSUME NEW l \in Layers, NEW s \in FilesOf(l)
  PROVE  s \in Sources /\ s[1] = l /\ \E i \in 1 .. Len(Outputs[l]) : s = <<l, Outputs[l][i]>>
<1>1. Outputs[l] \in Seq(Files)
  BY LayerAssumption DEF LayerAssumption
<1>. QED BY <1>1 DEF FilesOf, Sources

LEMMA StepPromoted ==
  ASSUME Typed, Ordered, Written, Promoted, [Next]_vars PROVE Promoted'
<1> SUFFICES ASSUME NEW r \in Runs
             PROVE  /\ pc'[r] = "promote" =>
                         \A i \in 1 .. pos'[r] - 1 : bundle'[<<r[1], Outputs[r[1]][i]>>] = r[2]
                    /\ pc'[r] \in {"settle", "SUCCEEDED"} =>
                         \A s \in FilesOf(r[1]) : r[2] <= bundle'[s]
  BY DEF Promoted
<1>a. r[1] \in Layers /\ r[2] \in Nat
  BY LayerAssumption DEF LayerAssumption, Runs, Attempts
<1>1. ASSUME pc'[r] = "promote"
      PROVE  \A i \in 1 .. pos'[r] - 1 : bundle'[<<r[1], Outputs[r[1]][i]>>] = r[2]
  <2>1. CASE Promote(r)
    <3>1. /\ pos[r] \in 1 .. Len(Outputs[r[1]]) /\ pos'[r] = pos[r] + 1
          /\ bundle'[NextOutput(r)] = r[2]
          /\ \A s \in Sources : s # NextOutput(r) => bundle'[s] = bundle[s]
      BY <1>1, <2>1, PromoteWrites
    <3>2. \A i \in 1 .. pos[r] - 1 : bundle[<<r[1], Outputs[r[1]][i]>>] = r[2]
      BY <2>1, PromoteWrites DEF Promoted
    <3>3. TAKE i \in 1 .. pos'[r] - 1
    <3>4. Len(Outputs[r[1]]) \in Nat
      BY <1>a, Lists
    <3>5. i \in 1 .. pos[r] /\ i \in 1 .. Len(Outputs[r[1]])
      BY <3>1, <3>4
    <3>6. <<r[1], Outputs[r[1]][i]>> \in Sources
      BY <1>a, <3>5, Lists DEF Sources
    <3>7. CASE i = pos[r]
      BY <3>1, <3>7 DEF NextOutput
    <3>8. CASE i # pos[r]
      <4>1. i \in 1 .. pos[r] - 1
        BY <3>1, <3>4, <3>5, <3>8
      <4>. QED BY <4>1, <3>1, <3>2, <3>6
    <3>. QED BY <3>7, <3>8
  <2>2. CASE Stage(r)
    <3>1. pos'[r] = 1
      BY <2>2 DEF Stage, Typed, Types
    <3>. QED BY <3>1
  <2>3. CASE ~Promote(r) /\ ~Stage(r)
    <3>1. pc[r] = "promote"
      BY <1>1, <2>3, Moves
    <3>2. pos'[r] = pos[r]
      BY <2>3, <3>1, PositionMoves DEF Read
    <3>3. TAKE i \in 1 .. pos'[r] - 1
    <3>4. pos[r] \in Nat /\ pos[r] <= Len(Outputs[r[1]]) /\ Len(Outputs[r[1]]) \in Nat
      BY <1>a, <3>1, Lists DEF Typed, Types, InRange
    <3>5. i \in 1 .. Len(Outputs[r[1]])
      BY <3>2, <3>4
    <3>6. <<r[1], Outputs[r[1]][i]>> \in Sources
      BY <1>a, <3>5, Lists DEF Sources
    <3>7. ASSUME NEW q \in Runs, Promote(q) PROVE NextOutput(q)[1] # r[1]
      <4>1. q # r /\ pc[q] = "promote"
        BY <2>3, <3>7, PromoteWrites
      <4>. QED BY <3>1, <3>7, <4>1, OneWorks, PromoteWrites DEF Working
    <3>8. bundle'[<<r[1], Outputs[r[1]][i]>>] = bundle[<<r[1], Outputs[r[1]][i]>>]
      BY <3>6, <3>7, FileMoves, PromoteWrites
    <3>. QED BY <3>1, <3>2, <3>8 DEF Promoted
  <2>. QED BY <2>1, <2>2, <2>3
<1>2. ASSUME pc'[r] \in {"settle", "SUCCEEDED"}, NEW s \in FilesOf(r[1]) PROVE r[2] <= bundle'[s]
  <2>1. s \in Sources
    BY <1>a, FilesAreSources
  <2>2. CASE pc[r] \in {"settle", "SUCCEEDED"}
    <3>1. r[2] <= bundle[s]
      BY <2>2 DEF Promoted
    <3>. QED BY <1>a, <2>1, <3>1, FilesGrow
  <2>3. CASE pc[r] \notin {"settle", "SUCCEEDED"}
    <3>1. Promote(r) /\ pc'[r] = "settle"
      BY <1>2, <2>3, Moves
    <3>2. PICK i \in 1 .. Len(Outputs[r[1]]) : s = <<r[1], Outputs[r[1]][i]>>
      BY <1>a, FilesAreSources
    <3>3. CASE s = NextOutput(r)
      BY <1>a, <3>1, <3>3, PromoteWrites
    <3>4. CASE s # NextOutput(r)
      <4>1. Len(Outputs[r[1]]) \in Nat /\ pos[r] = Len(Outputs[r[1]])
        BY <1>a, <3>1, Lists, PromoteWrites
      <4>2. i # pos[r]
        BY <3>2, <3>4 DEF NextOutput
      <4>3. i \in 1 .. pos[r] - 1
        BY <3>2, <4>1, <4>2
      <4>4. bundle[s] = r[2] /\ bundle'[s] = bundle[s]
        BY <2>1, <3>1, <3>2, <3>4, <4>3, PromoteWrites DEF Promoted
      <4>. QED BY <1>a, <4>4
    <3>. QED BY <3>3, <3>4
  <2>. QED BY <2>2, <2>3
<1>. QED BY <1>1, <1>2

-----------------------------------------------------------------------------
(* Gold: a layer that is published whole and once.                            *)

Once(l) ==
  Published(l) =>
    /\ \A s \in FilesOf(l) : bundle[s] = bundle[ManifestOf(l)]
    /\ \A r \in Runs : r[1] = l => pc[r] \notin {"read", "promote"}

SealedOnce == \A l \in Sealed : Once(l)

LEMMA ManifestIsSource == ASSUME NEW l \in Layers PROVE ManifestOf(l) \in Sources
BY LayerAssumption DEF LayerAssumption, ManifestOf, Sources

\* A file that changes is one of a layer not yet published.
LEMMA PublishedStays ==
  ASSUME Typed, SealedOnce, [Next]_vars, NEW s \in Sources, s[1] \in Sealed, Published(s[1])
  PROVE  bundle'[s] = bundle[s]
<1>1. ASSUME NEW r \in Runs, Promote(r) PROVE r[1] # s[1]
  BY <1>1, PromoteWrites DEF SealedOnce, Once
<1>. QED BY <1>1, FileMoves, PromoteWrites

LEMMA StepOnce ==
  ASSUME Typed, Ordered, Promoted, SealedOnce, [Next]_vars PROVE SealedOnce'
<1> SUFFICES ASSUME NEW l \in Sealed, Published(l)'
             PROVE  /\ \A s \in FilesOf(l) : bundle'[s] = bundle'[ManifestOf(l)]
                    /\ \A r \in Runs : r[1] = l => pc'[r] \notin {"read", "promote"}
  BY DEF SealedOnce, Once
<1>a. l \in Layers /\ ManifestOf(l) \in Sources /\ ManifestOf(l)[1] = l
  BY LayerAssumption, ManifestIsSource DEF LayerAssumption, ManifestOf
<1>1. CASE Published(l)
  <2>1. \A s \in Sources : s[1] = l => bundle'[s] = bundle[s]
    BY <1>1, PublishedStays
  <2>2. \A s \in FilesOf(l) : bundle'[s] = bundle'[ManifestOf(l)]
    BY <1>1, <1>a, <2>1, FilesAreSources DEF SealedOnce, Once
  <2>3. ASSUME NEW r \in Runs, r[1] = l PROVE pc'[r] \notin {"read", "promote"}
    <3>1. pc[r] \notin {"read", "promote"}
      BY <1>1, <2>3 DEF SealedOnce, Once
    <3>2. ~Prerequisites(r[1])
      BY <1>1, <2>3 DEF Prerequisites, Published
    <3>. QED BY <3>1, <3>2, Moves
  <2>. QED BY <2>2, <2>3
<1>2. CASE ~Published(l)
  <2>1. PICK r \in Runs : Promote(r)
    BY <1>2, FileMoves DEF Published, Exists
  <2>2. NextOutput(r) = ManifestOf(l) /\ r[1] = l
    BY <1>2, <1>a, <2>1, PromoteWrites DEF Published, Exists, ManifestOf, NextOutput
  <2>3. pos[r] = Len(Outputs[l]) /\ pc'[r] = "settle"
    BY <1>a, <2>1, <2>2, PromoteWrites, Lists DEF NextOutput, ManifestOf
  <2>4. ASSUME NEW s \in FilesOf(l) PROVE bundle'[s] = r[2]
    <3>1. PICK i \in 1 .. Len(Outputs[l]) : s = <<l, Outputs[l][i]>>
      BY <1>a, FilesAreSources
    <3>2. CASE s = NextOutput(r)
      BY <2>1, <3>2, PromoteWrites
    <3>3. CASE s # NextOutput(r)
      <4>1. i # pos[r]
        BY <2>2, <3>1, <3>3 DEF NextOutput
      <4>2. Len(Outputs[l]) \in Nat
        BY <1>a, Lists
      <4>3. i \in 1 .. pos[r] - 1
        BY <2>3, <3>1, <4>1, <4>2
      <4>4. bundle[s] = r[2] /\ s \in Sources
        BY <1>a, <2>1, <2>2, <3>1, <4>3, PromoteWrites, FilesAreSources DEF Promoted
      <4>. QED BY <2>1, <3>3, <4>4, PromoteWrites
    <3>. QED BY <3>2, <3>3
  <2>5. bundle'[ManifestOf(l)] = r[2]
    BY <2>1, <2>2, PromoteWrites
  <2>6. ASSUME NEW q \in Runs, q[1] = l PROVE pc'[q] \notin {"read", "promote"}
    <3>1. CASE q = r
      BY <2>3, <3>1
    <3>2. CASE q # r
      BY <2>1, <2>2, <2>6, <3>2, PromoteWrites, OneWorks DEF Working
    <3>. QED BY <3>1, <3>2
  <2>. QED BY <2>4, <2>5, <2>6
<1>. QED BY <1>1, <1>2

-----------------------------------------------------------------------------
(* Later runs read later inputs.                                              *)

Fresh == \A r \in Runs : pc[r] = "none" => \A s \in Sources : seen[r][s] = 0
SeenIsPast == \A r \in Runs, s \in Sources : seen[r][s] <= bundle[s]

LEMMA ReadSees ==
  ASSUME Typed, NEW r \in Runs, Read(r)
  PROVE  /\ pc[r] = "read" /\ UNCHANGED bundle
         /\ \A q \in Runs : q # r => seen'[q] = seen[q]
         /\ \A s \in Sources : seen'[r][s] = seen[r][s] \/ seen'[r][s] = bundle[s]
<1>1. Reads[r[1]][pos[r]] \in Sources
  BY Lists DEF Read, Typed, Types, Runs
<1>. QED BY <1>1 DEF Read, Typed, Types

LEMMA StepSeen ==
  ASSUME Typed, Ordered, Written, Fresh, SeenIsPast, NoOlderInput, [Next]_vars
  PROVE  Fresh' /\ SeenIsPast' /\ NoOlderInput'
<1>a. \A r \in Runs, s \in Sources :
        seen[r][s] \in Nat /\ seen'[r][s] \in Nat /\ bundle[s] \in Nat /\ bundle'[s] \in Nat
  BY StepTyped, LayerAssumption DEF LayerAssumption, Typed, Types
<1>1. CASE UNCHANGED seen
  <2>1. Fresh'
    BY <1>1, Moves DEF Fresh, Working
  <2>2. ASSUME NEW r \in Runs, NEW s \in Sources PROVE seen'[r][s] <= bundle'[s]
    <3>1. seen[r][s] <= bundle[s] /\ bundle[s] <= bundle'[s]
      BY FilesGrow DEF SeenIsPast
    <3>. QED BY <1>1, <1>a, <3>1
  <2>3. NoOlderInput'
    BY <1>1 DEF NoOlderInput, Earlier
  <2>. QED BY <2>1, <2>2, <2>3 DEF SeenIsPast
<1>2. ASSUME NEW p \in Runs, Read(p) PROVE Fresh' /\ SeenIsPast' /\ NoOlderInput'
  <2>1. Fresh'
    <3>1. SUFFICES ASSUME NEW r \in Runs, pc'[r] = "none", NEW s \in Sources
                   PROVE  seen'[r][s] = 0
      BY DEF Fresh
    <3>2. pc[r] = "none"
      BY <3>1, Moves
    <3>. QED BY <1>2, <3>2, ReadSees DEF Fresh
  <2>2. SeenIsPast'
    <3>1. SUFFICES ASSUME NEW r \in Runs, NEW s \in Sources PROVE seen'[r][s] <= bundle[s]
      BY <1>2, ReadSees DEF SeenIsPast
    <3>2. seen'[r][s] = seen[r][s] \/ seen'[r][s] = bundle[s]
      BY <1>2, ReadSees
    <3>. QED BY <1>a, <3>2 DEF SeenIsPast
  <2>3. NoOlderInput'
    <3>1. SUFFICES ASSUME NEW q \in Runs, NEW r \in Runs, Earlier(q, r),
                          NEW s \in Sources, seen'[r][s] # 0
                   PROVE  seen'[q][s] <= seen'[r][s]
      BY DEF NoOlderInput, Earlier
    <3>2. q # r
      BY <3>1, LayerAssumption DEF LayerAssumption, Earlier, Runs, Attempts
    <3>3. CASE p = q
      <4>1. pc[r] = "none"
        BY <1>2, <3>1, <3>3, ReadSees DEF Ordered, IsOver
      <4>. QED BY <1>2, <3>1, <3>2, <3>3, <4>1, ReadSees DEF Fresh
    <3>4. CASE p = r
      <4>1. seen'[q][s] = seen[q][s] /\ seen[q][s] <= bundle[s]
        BY <1>2, <3>2, <3>4, ReadSees DEF SeenIsPast
      <4>2. seen'[r][s] = seen[r][s] \/ seen'[r][s] = bundle[s]
        BY <1>2, <3>4, ReadSees
      <4>. QED BY <3>1, <4>1, <4>2 DEF NoOlderInput
    <3>5. CASE p # q /\ p # r
      BY <1>2, <3>1, <3>5, ReadSees DEF NoOlderInput
    <3>. QED BY <3>3, <3>4, <3>5
  <2>. QED BY <2>1, <2>2, <2>3
<1>. QED BY <1>1, <1>2, ReadMoves

-----------------------------------------------------------------------------
(* Files are there to be read, however many runs of a layer are active.       *)

\* A file that exists is never removed.
LEMMA FilesRemain ==
  ASSUME Typed, [Next]_vars, NEW s \in Sources, bundle[s] # 0
  PROVE  bundle'[s] # 0
<1>1. ASSUME NEW r \in Runs, Promote(r) PROVE bundle'[s] # 0
  <2>1. r[2] # 0
    BY LayerAssumption DEF LayerAssumption, Runs, Attempts
  <2>. QED BY <1>1, <2>1, PromoteWrites
<1>. QED BY <1>1, FileMoves

Provided(l) == \A k \in Needs(l) : Published(k)

\* The manifest comes last, and only where the layers below have theirs.
Complete ==
  /\ \A r \in Runs : pc[r] = "promote" =>
       \A i \in 1 .. pos[r] - 1 : bundle[<<r[1], Outputs[r[1]][i]>>] # 0
  /\ \A l \in Layers : Published(l) => Provided(l) /\ \A s \in FilesOf(l) : bundle[s] # 0
  /\ \A r \in Runs : pc[r] \in {"read", "promote"} => Provided(r[1])

LEMMA PublicationRemains ==
  ASSUME Typed, [Next]_vars
  PROVE  /\ \A l \in Layers : Published(l) => Published(l)'
         /\ \A l \in Layers : Provided(l) => Provided(l)'
<1>1. ASSUME NEW l \in Layers, Published(l) PROVE Published(l)'
  BY <1>1, FilesRemain, LayerAssumption DEF LayerAssumption, Published, Exists, ManifestOf, Sources
<1>. QED BY <1>1 DEF Provided, Needs

LEMMA StepComplete == ASSUME Typed, Complete, [Next]_vars PROVE Complete'
<1>1. ASSUME NEW r \in Runs, pc'[r] = "promote"
      PROVE  \A i \in 1 .. pos'[r] - 1 : bundle'[<<r[1], Outputs[r[1]][i]>>] # 0
  <2>a. r[1] \in Layers /\ r[2] # 0 /\ Len(Outputs[r[1]]) \in Nat
    BY Lists, LayerAssumption DEF LayerAssumption, Runs, Attempts
  <2>b. \A i \in 1 .. Len(Outputs[r[1]]) : <<r[1], Outputs[r[1]][i]>> \in Sources
    BY <2>a, Lists DEF Sources
  <2>c. pos'[r] \in Nat /\ pos'[r] <= Len(Outputs[r[1]])
    BY <1>1, StepTyped DEF Typed, Types, InRange
  <2> TAKE i \in 1 .. pos'[r] - 1
  <2>d. <<r[1], Outputs[r[1]][i]>> \in Sources
    BY <2>a, <2>b, <2>c
  <2>1. CASE Promote(r)
    <3>1. pos[r] \in Nat /\ pos'[r] = pos[r] + 1 /\ bundle'[NextOutput(r)] = r[2]
      BY <1>1, <2>1, PromoteWrites DEF Typed, Types
    <3>2. CASE i = pos[r]
      BY <2>a, <3>1, <3>2 DEF NextOutput
    <3>3. CASE i # pos[r]
      <4>1. i \in 1 .. pos[r] - 1 /\ pc[r] = "promote"
        BY <2>1, <3>1, <3>3, PromoteWrites
      <4>. QED BY <2>d, <4>1, FilesRemain DEF Complete
    <3>. QED BY <3>2, <3>3
  <2>2. CASE Stage(r)
    <3>1. pos'[r] = 1
      BY <2>2 DEF Stage, Typed, Types
    <3>. QED BY <3>1
  <2>3. CASE ~Promote(r) /\ ~Stage(r)
    <3>1. pc[r] = "promote"
      BY <1>1, <2>3, Moves
    <3>2. pos'[r] = pos[r]
      BY <2>3, <3>1, PositionMoves DEF Read
    <3>. QED BY <2>d, <3>1, <3>2, FilesRemain DEF Complete
  <2>. QED BY <2>1, <2>2, <2>3
<1>2. ASSUME NEW l \in Layers, Published(l)'
      PROVE  Provided(l)' /\ \A s \in FilesOf(l) : bundle'[s] # 0
  <2>a. \A s \in FilesOf(l) : s \in Sources
    BY FilesAreSources
  <2>1. CASE Published(l)
    BY <2>1, <2>a, FilesRemain, PublicationRemains DEF Complete
  <2>2. CASE ~Published(l)
    <3>a. ManifestOf(l) \in Sources /\ ManifestOf(l)[1] = l /\ ManifestOf(l)[2] = Manifest
      BY LayerAssumption DEF LayerAssumption, ManifestOf, Sources
    <3>1. PICK r \in Runs : Promote(r)
      BY <1>2, <2>2, FileMoves DEF Published, Exists
    <3>2. NextOutput(r) = ManifestOf(l) /\ r[1] = l
      BY <1>2, <2>2, <3>a, <3>1, PromoteWrites DEF Published, Exists
    <3>3. pos[r] = Len(Outputs[l]) /\ pos[r] \in Nat /\ pc[r] = "promote"
      BY <3>a, <3>1, <3>2, PromoteWrites, Lists DEF NextOutput, ManifestOf, Typed, Types
    <3>4. Provided(l)'
      BY <3>2, <3>3, PublicationRemains DEF Complete
    <3>5. ASSUME NEW s \in FilesOf(l) PROVE bundle'[s] # 0
      <4>1. PICK i \in 1 .. Len(Outputs[l]) : s = <<l, Outputs[l][i]>>
        BY FilesAreSources
      <4>2. CASE i = pos[r]
        <5>1. s = NextOutput(r)
          BY <3>2, <4>1, <4>2 DEF NextOutput
        <5>2. r[2] # 0
          BY LayerAssumption DEF LayerAssumption, Runs, Attempts
        <5>. QED BY <3>1, <5>1, <5>2, PromoteWrites
      <4>3. CASE i # pos[r]
        <5>1. i \in 1 .. pos[r] - 1
          BY <3>3, <4>1, <4>3
        <5>2. bundle[s] # 0
          BY <3>2, <3>3, <4>1, <5>1 DEF Complete
        <5>. QED BY <2>a, <5>2, FilesRemain
      <4>. QED BY <4>2, <4>3
    <3>. QED BY <3>4, <3>5
  <2>. QED BY <2>1, <2>2
<1>3. ASSUME NEW r \in Runs, pc'[r] \in {"read", "promote"}
      PROVE  Provided(r[1])'
  <2>a. r[1] \in Layers
    BY DEF Runs
  <2>1. CASE pc[r] \in {"read", "promote"}
    BY <2>1, <2>a, PublicationRemains DEF Complete
  <2>2. CASE pc[r] \notin {"read", "promote"}
    <3>1. Prerequisites(r[1])
      BY <1>3, <2>2, Moves
    <3>2. Provided(r[1])
      BY <3>1 DEF Prerequisites, Usable, Provided, Published
    <3>. QED BY <2>a, <3>2, PublicationRemains
  <2>. QED BY <2>1, <2>2
<1>. QED BY <1>1, <1>2, <1>3 DEF Complete

\* Whatever a run opens once its prerequisites were there, exists.
LEMMA InputsExist ==
  ASSUME Complete, NEW r \in Runs, pc[r] = "read", NEW i \in 1 .. Len(Reads[r[1]])
  PROVE  bundle[Reads[r[1]][i]] # 0
<1> DEFINE layer == Reads[r[1]][i][1]
<1>a. r[1] \in Layers /\ Reads[r[1]] \in Seq(Sources)
  BY LayerAssumption DEF LayerAssumption, Runs
<1>b. i \in DOMAIN Reads[r[1]] /\ layer \in Layers
  BY <1>a DEF Sources
<1>1. /\ Reads[r[1]][i] \in FilesOf(layer)
      /\ layer \in Needs(r[1]) \/ \E k \in Needs(r[1]) : layer \in Needs(k)
  BY <1>a, <1>b, ReadsAssumption DEF ReadsAssumption
<1>2. Provided(r[1])
  BY DEF Complete
<1>3. Published(layer)
  BY <1>1, <1>2 DEF Complete, Provided, Needs
<1>. QED BY <1>1, <1>3, <1>b DEF Complete

LEMMA StepReads ==
  ASSUME Typed, Complete, ReadersFindFiles, [Next]_vars PROVE ReadersFindFiles'
<1> SUFFICES ASSUME NEW r \in Runs, pc'[r] = "read", NEW i \in 1 .. pos'[r] - 1
             PROVE  seen'[r][Reads[r[1]][i]] # 0
  BY DEF ReadersFindFiles
<1>a. r[1] \in Layers /\ Len(Reads[r[1]]) \in Nat
  BY Lists DEF Runs
<1>b. pos[r] \in Nat
  BY DEF Typed, Types
<1>1. CASE pc[r] = "check"
  <2>1. pos'[r] = pos[r] /\ pos[r] = 1
    BY <1>1, PositionMoves DEF Read, Stage, Promote, Typed, InRange
  <2>. QED BY <2>1
<1>2. CASE pc[r] = "read" /\ Read(r)
  <2>1. pos[r] <= Len(Reads[r[1]]) /\ pos'[r] = pos[r] + 1
    BY <1>2 DEF Read, Typed, Types
  <2>2. i \in 1 .. Len(Reads[r[1]])
    BY <1>a, <1>b, <2>1
  <2>3. Reads[r[1]][i] \in Sources /\ bundle[Reads[r[1]][i]] # 0
    BY <1>a, <1>2, <2>2, Lists, InputsExist
  <2>4. CASE i = pos[r]
    <3>1. seen'[r][Reads[r[1]][i]] = bundle[Reads[r[1]][i]]
      BY <1>2, <2>3, <2>4 DEF Read, Typed, Types
    <3>. QED BY <2>3, <3>1
  <2>5. CASE i # pos[r]
    <3>1. i \in 1 .. pos[r] - 1
      BY <1>b, <2>1, <2>5
    <3>2. seen[r][Reads[r[1]][i]] # 0
      BY <1>2, <3>1 DEF ReadersFindFiles
    <3>. QED BY <1>2, <2>3, <3>2, ReadSees
  <2>. QED BY <2>4, <2>5
<1>3. CASE pc[r] = "read" /\ ~Read(r)
  <2>1. pos'[r] = pos[r]
    BY <1>3, PositionMoves DEF Stage, Promote, Typed, Types
  <2>2. seen'[r] = seen[r]
    BY <1>3, ReadMoves, ReadSees
  <2>. QED BY <1>3, <2>1, <2>2 DEF ReadersFindFiles
<1>. QED BY <1>1, <1>2, <1>3, Moves

\* A stage that passed its prerequisites finds every file it opens, however
\* many runs rewrite the layers it reads, and wherever they stop.
THEOREM FilesAreFound == Spec => []ReadersFindFiles
<1> DEFINE FoundInv == Typed /\ Complete /\ ReadersFindFiles
<1>1. Init => FoundInv
  <2> SUFFICES ASSUME Init PROVE FoundInv
    OBVIOUS
  <2>1. Typed
    BY LayerAssumption, Lists DEF LayerAssumption, Init, Typed, Types, InRange, Runs, Sources, Attempts
  <2>2. \A l \in Layers : ManifestOf(l) \in Sources
    BY LayerAssumption DEF LayerAssumption, ManifestOf, Sources
  <2>3. Complete /\ ReadersFindFiles
    BY <2>2 DEF Init, Complete, ReadersFindFiles, Published, Exists
  <2>. QED BY <2>1, <2>3
<1>2. FoundInv /\ [Next]_vars => FoundInv'
  BY StepTyped, StepComplete, StepReads
<1>3. FoundInv => ReadersFindFiles
  OBVIOUS
<1>. QED BY <1>1, <1>2, <1>3, PTL DEF Spec

-----------------------------------------------------------------------------
(* The theorems, for a layer with at most one active run.                     *)

SerialInv ==
  /\ Typed /\ Ordered /\ Written /\ Promoted /\ SealedOnce
  /\ Fresh /\ SeenIsPast /\ NoOlderInput

LEMMA SerialInvariant == ASSUME Serial PROVE Spec => []SerialInv
<1>1. Init => SerialInv
  <2> SUFFICES ASSUME Init PROVE SerialInv
    OBVIOUS
  <2>1. Typed
    BY LayerAssumption, Lists DEF LayerAssumption, Init, Typed, Types, InRange, Runs, Sources, Attempts
  <2>2. Ordered /\ Promoted /\ Fresh /\ NoOlderInput
    BY DEF Init, Ordered, Promoted, Fresh, NoOlderInput
  <2>3. Written /\ SeenIsPast
    BY DEF Init, Written, SeenIsPast
  <2>4. SealedOnce
    BY LayerAssumption, ManifestIsSource
    DEF LayerAssumption, Init, SealedOnce, Once, Published, Exists
  <2>. QED BY <2>1, <2>2, <2>3, <2>4 DEF SerialInv
<1>2. SerialInv /\ [Next]_vars => SerialInv'
  BY StepTyped, StepOrdered, StepWritten, StepPromoted, StepOnce, StepSeen DEF SerialInv
<1>. QED BY <1>1, <1>2, PTL DEF Spec

\* A published gold bundle is whole, wherever earlier publications stopped.
THEOREM GoldIsWhole == ASSUME Serial PROVE Spec => []SealedIsWhole
<1>1. SerialInv => SealedIsWhole
  BY DEF SerialInv, SealedOnce, Once, SealedIsWhole
<1>. QED BY <1>1, SerialInvariant, PTL

\* No run, retry or recovery changes a published gold bundle.
THEOREM GoldIsFinal == ASSUME Serial PROVE Spec => SealedIsFinal
<1>1. SerialInv /\ [Next]_vars =>
        [\A s \in Sources : s[1] \in Sealed /\ Published(s[1]) => bundle'[s] = bundle[s]]_vars
  BY PublishedStays DEF SerialInv
<1>. QED BY <1>1, SerialInvariant, PTL DEF Spec, SealedIsFinal

\* Runs that succeeded never mix in one bundle.
THEOREM SuccessesDoNotMix == ASSUME Serial PROVE Spec => []OnlyFailuresMix
<1>1. SerialInv => OnlyFailuresMix
  <2> SUFFICES ASSUME SerialInv, NEW s \in Sources, NEW t \in Sources, s[1] = t[1],
                      WroteAndSucceeded(s), WroteAndSucceeded(t)
               PROVE  bundle[s] = bundle[t]
    BY DEF OnlyFailuresMix
  <2> USE DEF SerialInv, WroteAndSucceeded, Exists
  <2>1. bundle[s] \in Nat /\ bundle[t] \in Nat
    BY LayerAssumption DEF LayerAssumption, Typed, Types
  <2>2. Writer(s) \in Runs /\ Writer(t) \in Runs
    BY WriterIsRun
  <2>3. s \in FilesOf(t[1]) /\ t \in FilesOf(s[1])
    BY DEF Written
  <2>4. bundle[s] <= bundle[t] /\ bundle[t] <= bundle[s]
    BY <2>2, <2>3 DEF Promoted, Writer
  <2>. QED BY <2>1, <2>4
<1>. QED BY <1>1, SerialInvariant, PTL

\* A later run of a stage never worked from an older input.
THEOREM InputsNeverGoBack == ASSUME Serial PROVE Spec => []NoOlderInput
<1>1. SerialInv => NoOlderInput
  BY DEF SerialInv
<1>. QED BY <1>1, SerialInvariant, PTL
=============================================================================
