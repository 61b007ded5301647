----------------------------- MODULE MCJobRunner -----------------------------
EXTENDS JobRunner

\* job_collect and the like: one command, its items counted; more or fewer of
\* them may be printed than the total says, and the total may be zero.
Item(n) == [commands |-> 1, total |-> n, batch |-> FALSE, stop |-> TRUE]

\* job_submit and job_validate_submission: a command for each batch.
Batches(n) == [commands |-> n, total |-> n, batch |-> TRUE, stop |-> FALSE]

\* What start_queue does by default.
Stopping(n) == [Batches(n) EXCEPT !.stop = TRUE]

MCRequests == {Item(0), Item(2), Batches(1), Batches(3), Stopping(3)}
=============================================================================
