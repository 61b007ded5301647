------------------------------ MODULE RunStatus ------------------------------
(***************************************************************************)
(* The status of a run or a step in the metadata database, and what the    *)
(* repository lets a transaction do to it.                                 *)
(***************************************************************************)

Terminal == {"SUCCEEDED", "FAILED", "PARTIAL", "CANCELLED"}
Status   == {"PENDING", "RUNNING"} \cup Terminal
Row      == Status \cup {"ABSENT"}    \* ABSENT: no such row

AllowedTransitions ==
  [s \in Status |-> CASE s = "PENDING" -> {"RUNNING", "CANCELLED"}
                      [] s = "RUNNING" -> Terminal
                      [] OTHER         -> {}]

\* Bug: the status a row has is not looked at.
CanTransitionUnchecked(current, target) == current \in Status
\* validate_status_transition: a row moves along the table or stays put.
CanTransition(current, target) ==
  current \in Status /\ (current = target \/ target \in AllowedTransitions[current])

\* INSERT ... ON CONFLICT DO NOTHING: an existing row is left as it is.
Insert(row) == IF row = "ABSENT" THEN "PENDING" ELSE row
=============================================================================
