------------------------------- MODULE JobRunner -------------------------------
(***************************************************************************)
(* The console's JobRunner: requests start queues of container commands,   *)
(* a lock around the status lets one queue in, and the queue's thread runs *)
(* its commands one after the other and writes its progress and verdict    *)
(* into the one status all pages show.  Commands run in containers, which  *)
(* survive the console that started them.                                  *)
(***************************************************************************)
EXTENDS Naturals, Sequences, FiniteSets

CONSTANTS
  Requests,        \* what pages ask for: see the assumption
  MaxJobs,         \* bound: queues let in
  MaxLines,        \* bound: item lines a command prints
  MaxSpawnFaults,  \* bound: threads that could not be started
  MaxCrashes       \* bound: deaths of the console

\* commands: length of the queue; total: what progress is measured against;
\* batch: whether commands or the items they print are counted; stop: whether
\* the queue ends with the first failure.
ASSUME RequestsAssumption ==
  Requests \subseteq [commands : Nat \ {0}, total : Nat, batch : BOOLEAN, stop : BOOLEAN]
\* Batches are counted against the number of commands.
ASSUME BatchesAssumption == \A r \in Requests : r.batch => r.total = r.commands
ASSUME BoundsAssumption ==
  MaxJobs \in Nat /\ MaxLines \in Nat /\ MaxSpawnFaults \in Nat /\ MaxCrashes \in Nat

Jobs     == 1 .. MaxJobs
Outcomes == {"ok", "error", "unstarted"}
WorkerPC == {"none", "next", "launch", "run", "reap", "stop", "gone"}

VARIABLES
  status,     \* the JobStatus: state, whose it is, counted lines, progress
  request,    \* per job let in: what was asked for
  pc,         \* per job: where its thread is
  ended,      \* per job: how its commands ended
  exit,       \* per job: exit of the command that ended last
  containers, \* commands that run, as <<job, index>>
  spawnFaults, crashes

vars == <<status, request, pc, ended, exit, containers, spawnFaults, crashes>>

JobTypeOK ==
  /\ status \in [state : {"idle", "running", "succeeded", "failed"}, job : 0 .. MaxJobs,
                 log : Nat, done : Nat]
  /\ request \in Seq(Requests) /\ Len(request) <= MaxJobs
  /\ pc \in [Jobs -> WorkerPC] /\ ended \in [Jobs -> Seq(Outcomes)]
  /\ exit \in [Jobs -> {"ok", "error"}]
  /\ containers \subseteq Jobs \X Nat
  /\ spawnFaults \in Nat /\ crashes \in Nat

Init ==
  /\ status = [state |-> "idle", job |-> 0, log |-> 0, done |-> 0]
  /\ request = <<>>
  /\ pc = [j \in Jobs |-> "none"]
  /\ ended = [j \in Jobs |-> <<>>]
  /\ exit = [j \in Jobs |-> "ok"]
  /\ containers = {}
  /\ spawnFaults = 0 /\ crashes = 0

-----------------------------------------------------------------------------
Working(j)     == pc[j] \notin {"none", "gone"}
Current(j)     == Len(ended[j]) + 1                \* the command it is at
Succeeded(j)   == \A i \in DOMAIN ended[j] : ended[j][i] = "ok"
Goto(j, label) == pc' = [pc EXCEPT ![j] = label]
Least(a, b)    == IF a < b THEN a ELSE b

\* _refresh_progress_locked, after lines were logged or the state was set.
Refreshed(state, log) ==
  LET total == request[status.job].total IN
  [status EXCEPT !.state = state, !.log = log,
                 !.done = IF state = "succeeded" /\ total > 0 THEN total ELSE Least(log, total)]

Log(lines)     == status' = Refreshed(status.state, status.log + lines)
Conclude(verdict) == status' = Refreshed(verdict, status.log)
Counted(j)     == IF request[j].batch THEN 1 ELSE 0   \* a BATCH_DONE line

-----------------------------------------------------------------------------
\* start_queue: the lock covers the test and the new status; the thread is
\* started afterwards.
\* Bug: the state is not looked at.
FreeAssumed == TRUE
Free == status.state # "running"

Enter(r) ==
  /\ Free /\ Len(request) < MaxJobs
  /\ request' = Append(request, r)
  /\ status' = [state |-> "running", job |-> Len(request'), log |-> 0, done |-> 0]

Start(r) ==
  /\ Enter(r)
  /\ Goto(Len(request'), "next")
  /\ UNCHANGED <<ended, exit, containers, spawnFaults, crashes>>

\* "can't start new thread": the page shows the error, the status stays.
SpawnFails(r) ==
  /\ Enter(r)
  /\ spawnFaults < MaxSpawnFaults /\ spawnFaults' = spawnFaults + 1
  /\ UNCHANGED <<pc, ended, exit, containers, crashes>>

-----------------------------------------------------------------------------
(* _run_queue.                                                             *)

NextCommand(j) ==
  /\ pc[j] = "next" /\ Current(j) <= request[j].commands
  /\ Goto(j, "launch")
  /\ UNCHANGED <<status, request, ended, exit, containers, spawnFaults, crashes>>

Launch(j) ==
  /\ pc[j] = "launch"
  /\ containers' = containers \cup {<<j, Current(j)>>}
  /\ Goto(j, "run")
  /\ UNCHANGED <<status, request, ended, exit, spawnFaults, crashes>>

AfterFailure(j) == IF request[j].stop THEN "stop" ELSE "next"

\* Popen raises.
\* Bug: the command that did not start is not logged as done.
LaunchFailsUnlogged(j) ==
  /\ pc[j] = "launch"
  /\ ended' = [ended EXCEPT ![j] = Append(@, "unstarted")]
  /\ Goto(j, AfterFailure(j))
  /\ UNCHANGED <<status, request, exit, containers, spawnFaults, crashes>>
\* Bug: the exception ends the thread.
LaunchFailsUncaught(j) ==
  /\ pc[j] = "launch"
  /\ ended' = [ended EXCEPT ![j] = Append(@, "unstarted")]
  /\ Goto(j, "gone")
  /\ UNCHANGED <<status, request, exit, containers, spawnFaults, crashes>>
LaunchFails(j) ==
  /\ pc[j] = "launch"
  /\ ended' = [ended EXCEPT ![j] = Append(@, "unstarted")]
  /\ Log(Counted(j))
  /\ Goto(j, AfterFailure(j))
  /\ UNCHANGED <<request, exit, containers, spawnFaults, crashes>>

\* A line of output about an item is counted.
PrintItem(j) ==
  /\ pc[j] = "run" /\ ~request[j].batch /\ status.log < MaxLines
  /\ Log(1)
  /\ UNCHANGED <<request, pc, ended, exit, containers, spawnFaults, crashes>>

CommandExits(j, how) ==
  /\ pc[j] = "run"
  /\ containers' = containers \ {<<j, Current(j)>>}
  /\ exit' = [exit EXCEPT ![j] = how]
  /\ Goto(j, "reap")
  /\ UNCHANGED <<status, request, ended, spawnFaults, crashes>>

Reap(j) ==
  /\ pc[j] = "reap"
  /\ ended' = [ended EXCEPT ![j] = Append(@, exit[j])]
  /\ Log(Counted(j))
  /\ Goto(j, IF exit[j] = "ok" THEN "next" ELSE AfterFailure(j))
  /\ UNCHANGED <<request, exit, containers, spawnFaults, crashes>>

\* Bug: the thread returns before the verdict is set.
StopSilently(j) ==
  /\ pc[j] = "stop"
  /\ Goto(j, "gone")
  /\ UNCHANGED <<status, request, ended, exit, containers, spawnFaults, crashes>>
Stop(j) ==
  /\ pc[j] = "stop"
  /\ Conclude("failed")
  /\ Goto(j, "gone")
  /\ UNCHANGED <<request, ended, exit, containers, spawnFaults, crashes>>

\* Bug: only the last command is looked at.
VerdictOfLast(j) == IF exit[j] = "ok" THEN "succeeded" ELSE "failed"
Verdict(j) == IF Succeeded(j) THEN "succeeded" ELSE "failed"

Finish(j) ==
  /\ pc[j] = "next" /\ Current(j) > request[j].commands
  /\ Conclude(Verdict(j))
  /\ Goto(j, "gone")
  /\ UNCHANGED <<request, ended, exit, containers, spawnFaults, crashes>>

\* The console ends and starts anew: its threads and its status are gone.
Restart ==
  /\ crashes < MaxCrashes /\ crashes' = crashes + 1
  /\ status' = [state |-> "idle", job |-> 0, log |-> 0, done |-> 0]
  /\ pc' = [j \in Jobs |-> IF j \in DOMAIN request THEN "gone" ELSE "none"]
  /\ UNCHANGED <<request, ended, exit, containers, spawnFaults>>

OrphanExits(j) ==
  /\ pc[j] = "gone" /\ <<j, Current(j)>> \in containers
  /\ containers' = containers \ {<<j, Current(j)>>}
  /\ UNCHANGED <<status, request, pc, ended, exit, spawnFaults, crashes>>

RunQueue(j) ==
  \/ NextCommand(j) \/ Launch(j) \/ LaunchFails(j) \/ PrintItem(j)
  \/ \E how \in {"ok", "error"} : CommandExits(j, how)
  \/ Reap(j) \/ Stop(j) \/ Finish(j)

Next ==
  \/ \E r \in Requests : Start(r) \/ SpawnFails(r)
  \/ \E j \in Jobs : RunQueue(j) \/ OrphanExits(j)
  \/ Restart

Spec == Init /\ [][Next]_vars

\* A queue's thread goes on while its console lives, and a command ends: the
\* crawler and the parser bound their waits and their retries.
FairSpec == Spec /\ \A j \in Jobs : WF_vars(RunQueue(j))

-----------------------------------------------------------------------------
(* Properties.                                                             *)

\* One command of a console runs at a time, however pages start and
\* double-start jobs; others run only where an earlier console died over them
\* (README.md: one job at a time).
OneCommand ==
  /\ Cardinality({c \in containers : Working(c[1])}) <= 1
  /\ crashes = 0 => \A c \in containers : Working(c[1])

\* The verdict shown is the verdict on all commands of the job it is shown for,
\* not on the last one or on another job's.
VerdictIsTrue ==
  LET j == status.job IN
  /\ status.state = "succeeded" => Len(ended[j]) = request[j].commands /\ Succeeded(j)
  /\ status.state = "failed" => ~Succeeded(j)

\* The progress of a queue of batches is the number of batches that are over,
\* those that could not be started included; a job that succeeded is complete.
ProgressIsTrue ==
  LET j == status.job IN
  status.state # "idle" =>
    /\ request[j].batch => status.done = Least(Len(ended[j]), request[j].total)
    /\ status.state = "succeeded" /\ request[j].total > 0 => status.done = request[j].total

\* "A job is already running" is said only while a thread works on it, or where
\* its thread could never be started: no failure inside the queue ends the
\* thread without a verdict.
RunningHasWorker ==
  status.state = "running" => Working(status.job) \/ (pc[status.job] = "none" /\ spawnFaults > 0)

\* Every job gets its verdict, whichever of its commands fail or do not start,
\* while its console lives: a job left running would refuse all later ones.
JobSettles ==
  \A j \in Jobs :
    status.state = "running" /\ status.job = j /\ Working(j)
      ~> status.job # j \/ status.state # "running"
=============================================================================
