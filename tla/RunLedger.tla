------------------------------ MODULE RunLedger ------------------------------
(***************************************************************************)
(* What the pipeline promises about the runs of one unit of work, a unit   *)
(* being one stage of one batch: a ledger per unit, one entry per attempt, *)
(* oldest first.  Only the last entry of a ledger may still change, it     *)
(* changes PENDING -> RUNNING -> SUCCEEDED | FAILED, and a new attempt is   *)
(* entered only when the last one is over.  Nothing is said here of        *)
(* threads, locks, tables or restarts: PipelineService implements this.    *)
(***************************************************************************)
EXTENDS Naturals, Sequences

CONSTANT Units

VARIABLE ledger      \* [Units -> Seq(status)]

Entry == {"PENDING", "RUNNING", "SUCCEEDED", "FAILED"}
Over  == {"SUCCEEDED", "FAILED"}

LedgerTypeOK == ledger \in [Units -> Seq(Entry)]

LedgerInit == ledger = [u \in Units |-> <<>>]

LastEntry(u) == ledger[u][Len(ledger[u])]

SetLast(u, status) ==
  ledger' = [ledger EXCEPT ![u] = [@ EXCEPT ![Len(@)] = status]]

\* A run is accepted for u: the next attempt, and only after the last one.
Submit(u) ==
  /\ ledger[u] # <<>> => LastEntry(u) \in Over
  /\ ledger' = [ledger EXCEPT ![u] = Append(@, "PENDING")]

Begin(u) ==
  /\ ledger[u] # <<>>
  /\ LastEntry(u) = "PENDING"
  /\ SetLast(u, "RUNNING")

\* The executor reports a result, or a restart declares the attempt failed.
Finish(u) ==
  /\ ledger[u] # <<>>
  /\ LastEntry(u) = "RUNNING"
  /\ \E status \in Over : SetLast(u, status)

LedgerNext == \E u \in Units : Submit(u) \/ Begin(u) \/ Finish(u)

LedgerSpec == LedgerInit /\ [][LedgerNext]_ledger
=============================================================================
