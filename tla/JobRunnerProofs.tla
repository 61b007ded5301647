---------------------------- MODULE JobRunnerProofs ----------------------------
(***************************************************************************)
(* Theorems about JobRunner for all requests and bounds.                   *)
(***************************************************************************)
EXTENDS JobRunner, FiniteSetTheorems, TLAPS

\* The jobs not let in yet did nothing.
FutureInv == \A j \in Jobs : j > Len(request) => pc[j] = "none" /\ ended[j] = <<>>

\* A thread that works is that of the job the status tells of, which runs.
WorkerInv ==
  /\ \A j \in Jobs : Working(j) => status.state = "running" /\ status.job = j
  /\ status.state # "idle" => status.job \in DOMAIN request
  /\ RunningHasWorker

\* Where a thread stands in its queue.
PlaceInv ==
  \A j \in Jobs :
    /\ pc[j] = "next" => Len(ended[j]) <= request[j].commands
    /\ pc[j] \in {"launch", "run", "reap"} => Len(ended[j]) < request[j].commands
    /\ pc[j] = "stop" => ~Succeeded(j)

\* A thread that works has a container only while it waits for it.
ContainerInv ==
  \A c \in containers :
    /\ Working(c[1]) => pc[c[1]] = "run" /\ c = <<c[1], Current(c[1])>>
    /\ pc[c[1]] # "none"
    /\ crashes = 0 => Working(c[1])

QueueInv == JobTypeOK /\ FutureInv /\ WorkerInv /\ PlaceInv /\ ContainerInv /\ VerdictIsTrue

LEMMA QueueInit == Init => QueueInv
  <1> SUFFICES ASSUME Init
               PROVE  QueueInv
    OBVIOUS
  <1>1. JobTypeOK
    BY BoundsAssumption DEF Init, JobTypeOK, WorkerPC, Outcomes
  <1>2. FutureInv /\ WorkerInv /\ PlaceInv /\ ContainerInv /\ VerdictIsTrue
    BY DEF Init, FutureInv, WorkerInv, PlaceInv, ContainerInv, VerdictIsTrue, Working, RunningHasWorker
  <1>3. QED
    BY <1>1, <1>2 DEF QueueInv

\* A request that is let in is the newest job; nobody works.
LEMMA Entering ==
  ASSUME QueueInv, NEW r \in Requests, Enter(r)
  PROVE  /\ request' \in Seq(Requests) /\ Len(request') = Len(request) + 1 /\ Len(request') \in Jobs
         /\ \A j \in DOMAIN request : request'[j] = request[j]
         /\ DOMAIN request \subseteq DOMAIN request'
         /\ status' = [state |-> "running", job |-> Len(request'), log |-> 0, done |-> 0]
         /\ pc[Len(request')] = "none" /\ ended[Len(request')] = <<>>
         /\ \A j \in Jobs : ~Working(j)
  <1>1. /\ request' \in Seq(Requests) /\ Len(request') = Len(request) + 1 /\ Len(request') \in Jobs
        /\ \A j \in DOMAIN request : request'[j] = request[j]
        /\ DOMAIN request \subseteq DOMAIN request'
    <2>1. request' = Append(request, r) /\ Len(request) < MaxJobs /\ request \in Seq(Requests)
      BY DEF Enter, QueueInv, JobTypeOK
    <2>2. request' \in Seq(Requests) /\ Len(request') = Len(request) + 1
      BY <2>1
    <2>3. /\ \A j \in DOMAIN request : request'[j] = request[j]
          /\ DOMAIN request \subseteq DOMAIN request'
      BY <2>1, <2>2
    <2>4. Len(request') \in Jobs
      BY <2>1, <2>2, BoundsAssumption DEF Jobs
    <2>5. QED
      BY <2>2, <2>3, <2>4
  <1>2. pc[Len(request')] = "none" /\ ended[Len(request')] = <<>>
    BY <1>1 DEF QueueInv, JobTypeOK, FutureInv
  <1>3. \A j \in Jobs : ~Working(j)
    BY DEF Enter, Free, QueueInv, WorkerInv
  <1>4. QED
    BY <1>1, <1>2, <1>3 DEF Enter

\* What is asked for has at least one command.
LEMMA RequestFacts ==
  ASSUME JobTypeOK, NEW j \in DOMAIN request
  PROVE  request[j].commands \in Nat \ {0} /\ request[j].total \in Nat
  BY RequestsAssumption DEF JobTypeOK

LEMMA EnterPreserves ==
  ASSUME QueueInv, NEW r \in Requests, Start(r) \/ SpawnFails(r)
  PROVE  QueueInv'
  <1> DEFINE n == Len(request')
  <1>1. Enter(r)
    BY DEF Start, SpawnFails
  <1>2. /\ request' \in Seq(Requests) /\ n = Len(request) + 1 /\ n \in Jobs /\ n \in DOMAIN request'
        /\ \A j \in DOMAIN request : request'[j] = request[j]
        /\ DOMAIN request \subseteq DOMAIN request'
        /\ status' = [state |-> "running", job |-> n, log |-> 0, done |-> 0]
        /\ pc[n] = "none" /\ ended[n] = <<>>
        /\ \A j \in Jobs : ~Working(j)
    BY <1>1, Entering DEF QueueInv, JobTypeOK
  <1>3. ended' = ended /\ exit' = exit /\ containers' = containers /\ crashes' = crashes
    BY DEF Start, SpawnFails
  <1>4. \/ pc' = [pc EXCEPT ![n] = "next"] /\ spawnFaults' = spawnFaults
        \/ pc' = pc /\ spawnFaults' = spawnFaults + 1
    BY DEF Start, SpawnFails, Goto
  <1> HIDE DEF n
  <1>5. JobTypeOK'
    <2>1. n \in 0 .. MaxJobs /\ Len(request') <= MaxJobs
      BY <1>2, BoundsAssumption DEF Jobs, n
    <2>2. pc' \in [Jobs -> WorkerPC] /\ spawnFaults' \in Nat
      <3>1. pc \in [Jobs -> WorkerPC] /\ spawnFaults \in Nat
        BY DEF QueueInv, JobTypeOK
      <3>2. [pc EXCEPT ![n] = "next"] \in [Jobs -> WorkerPC]
        BY <3>1 DEF WorkerPC
      <3>3. QED
        BY <1>4, <3>1, <3>2
    <2>3. QED
      BY <1>2, <1>3, <2>1, <2>2 DEF QueueInv, JobTypeOK
  <1>6. FutureInv'
    <2>1. ASSUME NEW j \in Jobs, j > Len(request')
          PROVE  j > Len(request) /\ j # n
      BY <1>2, <2>1 DEF QueueInv, JobTypeOK, Jobs, n
    <2>2. QED
      BY <1>2, <1>3, <1>4, <2>1 DEF QueueInv, JobTypeOK, FutureInv
  <1>7. WorkerInv' /\ VerdictIsTrue'
    BY <1>2, <1>3, <1>4 DEF QueueInv, JobTypeOK, WorkerInv, Working, RunningHasWorker, VerdictIsTrue
  <1>8. PlaceInv'
    <2>1. request'[n].commands \in Nat \ {0}
      BY <1>2, <1>5, RequestsAssumption DEF JobTypeOK
    <2>2. ASSUME NEW j \in Jobs, j # n
          PROVE  pc'[j] = pc[j] /\ pc[j] \in {"none", "gone"}
      BY <1>2, <1>4, <2>2 DEF QueueInv, JobTypeOK, Working
    <2>3. pc'[n] \in {"none", "next"} /\ Len(ended'[n]) = 0
      BY <1>2, <1>3, <1>4 DEF QueueInv, JobTypeOK
    <2>4. QED
      BY <2>1, <2>2, <2>3 DEF PlaceInv
  <1>9. ContainerInv'
    <2>1. \A c \in containers : c[1] \in Jobs /\ pc[c[1]] # "none" /\ crashes # 0 /\ c[1] # n
      BY <1>2 DEF QueueInv, JobTypeOK, ContainerInv
    <2>2. \A c \in containers : pc'[c[1]] = pc[c[1]]
      BY <1>4, <2>1 DEF QueueInv, JobTypeOK
    <2>3. QED
      BY <1>2, <1>3, <2>1, <2>2 DEF ContainerInv, Working
  <1>10. QED
    BY <1>5, <1>6, <1>7, <1>8, <1>9 DEF QueueInv

-----------------------------------------------------------------------------
\* A refreshed status keeps its job and its type.
LEMMA RefreshedStatus ==
  ASSUME JobTypeOK, status.job \in DOMAIN request, NEW lines \in Nat,
         NEW state \in {"idle", "running", "succeeded", "failed"}
  PROVE  /\ Refreshed(state, lines) \in
              [state : {"idle", "running", "succeeded", "failed"}, job : 0 .. MaxJobs,
               log : Nat, done : Nat]
         /\ Refreshed(state, lines).state = state /\ Refreshed(state, lines).job = status.job
  <1>1. request[status.job].total \in Nat
    BY RequestFacts
  <1>2. Least(lines, request[status.job].total) \in Nat
    BY <1>1 DEF Least
  <1>3. QED
    BY <1>1, <1>2 DEF Refreshed, JobTypeOK

\* The thread that works works on the job shown, which runs.
LEMMA TheWorker ==
  ASSUME QueueInv, NEW j \in Jobs, Working(j)
  PROVE  /\ status.state = "running" /\ status.job = j /\ j \in DOMAIN request
         /\ \A k \in Jobs : k # j => ~Working(k)
  BY DEF QueueInv, WorkerInv

\* A step of the thread that leaves the status, the requests and the outcomes.
LEMMA ContainerSteps ==
  ASSUME QueueInv, NEW j \in Jobs,
         NextCommand(j) \/ Launch(j) \/ \E how \in {"ok", "error"} : CommandExits(j, how)
  PROVE  QueueInv'
  <1>1. /\ status' = status /\ request' = request /\ ended' = ended
        /\ spawnFaults' = spawnFaults /\ crashes' = crashes
    BY DEF NextCommand, Launch, CommandExits
  <1>2. \/ /\ pc[j] = "next" /\ pc' = [pc EXCEPT ![j] = "launch"] /\ containers' = containers
           /\ Current(j) <= request[j].commands /\ exit' = exit
        \/ /\ pc[j] = "launch" /\ pc' = [pc EXCEPT ![j] = "run"] /\ exit' = exit
           /\ containers' = containers \cup {<<j, Current(j)>>}
        \/ /\ pc[j] = "run" /\ pc' = [pc EXCEPT ![j] = "reap"]
           /\ containers' = containers \ {<<j, Current(j)>>}
           /\ \E how \in {"ok", "error"} : exit' = [exit EXCEPT ![j] = how]
    BY DEF NextCommand, Launch, CommandExits, Goto
  <1>3. Working(j)
    BY <1>2 DEF Working
  <1>4. /\ status.state = "running" /\ status.job = j /\ j \in DOMAIN request
        /\ \A k \in Jobs : k # j => ~Working(k)
    BY <1>3, TheWorker
  <1>5. request[j].commands \in Nat /\ Len(ended[j]) \in Nat
    BY <1>4, RequestFacts DEF QueueInv, JobTypeOK
  <1>6. /\ pc' \in [Jobs -> WorkerPC] /\ pc'[j] \in {"launch", "run", "reap"}
        /\ \A k \in Jobs : k # j => pc'[k] = pc[k]
    <2>1. pc \in [Jobs -> WorkerPC]
      BY DEF QueueInv, JobTypeOK
    <2>2. QED
      BY <1>2, <2>1 DEF WorkerPC
  <1>7. \A k \in Jobs : Working(k)' <=> Working(k)
    BY <1>3, <1>6 DEF Working
  <1>8. JobTypeOK'
    <2>1. exit' \in [Jobs -> {"ok", "error"}] /\ containers' \subseteq Jobs \X Nat
      BY <1>2, <1>5 DEF QueueInv, JobTypeOK, Current
    <2>2. QED
      BY <1>1, <1>6, <2>1 DEF QueueInv, JobTypeOK
  <1>9. FutureInv'
    BY <1>1, <1>4, <1>6 DEF QueueInv, JobTypeOK, FutureInv
  <1>10. WorkerInv' /\ VerdictIsTrue'
    <2>1. status'.state = "running" /\ status'.job = j
      BY <1>1, <1>4
    <2>2. pc'[j] \notin {"none", "gone"} /\ \A k \in Jobs : k # j => pc'[k] \in {"none", "gone"}
      BY <1>4, <1>6 DEF Working
    <2>3. WorkerInv'
      BY <1>1, <1>4, <2>1, <2>2 DEF WorkerInv, RunningHasWorker, Working
    <2>4. QED
      BY <2>1, <2>3 DEF VerdictIsTrue
  <1>11. PlaceInv'
    <2>1. Len(ended[j]) < request[j].commands
      BY <1>2, <1>5 DEF QueueInv, PlaceInv, Current
    <2>2. ASSUME NEW k \in Jobs, k # j
          PROVE  pc'[k] = pc[k]
      BY <1>6, <2>2
    <2>3. QED
      BY <1>1, <1>6, <2>1, <2>2 DEF QueueInv, PlaceInv, Succeeded
  <1>12. ContainerInv'
    <2>1. ASSUME NEW c \in containers', c \in containers, c[1] # j
          PROVE  /\ ~Working(c[1])' /\ pc'[c[1]] # "none"
                 /\ crashes' # 0
      BY <1>1, <1>4, <1>6, <1>7, <2>1 DEF QueueInv, JobTypeOK, ContainerInv
    <2>2. ASSUME NEW c \in containers', c \in containers, c[1] = j
          PROVE  FALSE
      <3>1. pc[j] = "run" /\ c = <<j, Current(j)>>
        BY <1>3, <2>2 DEF QueueInv, ContainerInv
      <3>2. QED
        BY <1>2, <2>2, <3>1
    <2>3. ASSUME NEW c \in containers', c \notin containers
          PROVE  pc'[j] = "run" /\ c = <<j, Current(j)>>
      BY <1>2, <2>3 DEF QueueInv, JobTypeOK
    <2>4. ASSUME NEW c \in containers'
          PROVE  /\ Working(c[1])' => pc'[c[1]] = "run" /\ c = <<c[1], Current(c[1])'>>
                 /\ pc'[c[1]] # "none"
                 /\ crashes' = 0 => Working(c[1])'
      <3>1. CASE c \in containers
        BY <2>1, <2>2, <3>1
      <3>2. CASE c \notin containers
        <4>1. pc'[j] = "run" /\ c = <<j, Current(j)>> /\ c[1] = j
          BY <2>3, <3>2
        <4>2. Current(j)' = Current(j)
          BY <1>1 DEF Current
        <4>3. QED
          BY <4>1, <4>2 DEF Working
      <3>3. QED
        BY <3>1, <3>2
    <2>5. QED
      BY <2>4 DEF ContainerInv
  <1>13. QED
    BY <1>8, <1>9, <1>10, <1>11, <1>12 DEF QueueInv

\* A command that did not start or is over is noted among the outcomes.
LEMMA OutcomeSteps ==
  ASSUME QueueInv, NEW j \in Jobs, LaunchFails(j) \/ Reap(j)
  PROVE  QueueInv'
  <1> DEFINE how == IF pc[j] = "launch" THEN "unstarted" ELSE exit[j]
             after == IF how = "ok" THEN "next" ELSE AfterFailure(j)
  <1>1. /\ request' = request /\ exit' = exit /\ containers' = containers
        /\ spawnFaults' = spawnFaults /\ crashes' = crashes
        /\ pc[j] \in {"launch", "reap"}
        /\ ended' = [ended EXCEPT ![j] = Append(@, how)]
        /\ pc' = [pc EXCEPT ![j] = after]
        /\ status' = Refreshed(status.state, status.log + Counted(j))
    BY DEF LaunchFails, Reap, Goto, Log
  <1>2. Working(j)
    BY <1>1 DEF Working
  <1>3. /\ status.state = "running" /\ status.job = j /\ j \in DOMAIN request
        /\ \A k \in Jobs : k # j => ~Working(k)
    BY <1>2, TheWorker
  <1>4. how \in Outcomes /\ after \in {"next", "stop"} /\ (after = "stop" => how # "ok")
    BY DEF QueueInv, JobTypeOK, Outcomes, AfterFailure
  <1> HIDE DEF how, after
  <1>5. /\ ended' \in [Jobs -> Seq(Outcomes)] /\ ended'[j] = Append(ended[j], how)
        /\ ended[j] \in Seq(Outcomes) /\ Len(ended'[j]) = Len(ended[j]) + 1
        /\ \A k \in Jobs : k # j => ended'[k] = ended[k]
    <2>1. ended \in [Jobs -> Seq(Outcomes)]
      BY DEF QueueInv, JobTypeOK
    <2>2. ended[j] \in Seq(Outcomes) /\ Append(ended[j], how) \in Seq(Outcomes)
      BY <1>4, <2>1
    <2>3. Len(Append(ended[j], how)) = Len(ended[j]) + 1
      BY <2>2
    <2>4. QED
      BY <1>1, <2>1, <2>2, <2>3
  <1>6. /\ pc' \in [Jobs -> WorkerPC] /\ pc'[j] = after
        /\ \A k \in Jobs : k # j => pc'[k] = pc[k]
    <2>1. pc \in [Jobs -> WorkerPC]
      BY DEF QueueInv, JobTypeOK
    <2>2. QED
      BY <1>1, <1>4, <2>1 DEF WorkerPC
  <1>7. \A k \in Jobs : Working(k)' <=> Working(k)
    BY <1>2, <1>4, <1>6 DEF Working
  <1>8. /\ status' \in [state : {"idle", "running", "succeeded", "failed"}, job : 0 .. MaxJobs,
                        log : Nat, done : Nat]
        /\ status'.state = "running" /\ status'.job = j
    <2>1. status.log + Counted(j) \in Nat
      <3>1. status.log \in Nat
        BY DEF QueueInv, JobTypeOK
      <3>2. Counted(j) \in Nat
        BY DEF Counted
      <3>3. QED
        BY <3>1, <3>2
    <2>2. /\ JobTypeOK /\ status.job \in DOMAIN request
          /\ status.state \in {"idle", "running", "succeeded", "failed"}
      BY <1>3 DEF QueueInv
    <2>3. QED
      BY <1>1, <1>3, <2>1, <2>2, RefreshedStatus
  <1>9. JobTypeOK'
    BY <1>1, <1>5, <1>6, <1>8 DEF QueueInv, JobTypeOK
  <1>10. FutureInv'
    BY <1>1, <1>3, <1>5, <1>6 DEF QueueInv, JobTypeOK, FutureInv
  <1>11. WorkerInv' /\ VerdictIsTrue'
    BY <1>1, <1>2, <1>3, <1>7, <1>8 DEF WorkerInv, RunningHasWorker, VerdictIsTrue
  <1>12. PlaceInv'
    <2>1. Len(ended[j]) < request[j].commands /\ request[j].commands \in Nat /\ Len(ended[j]) \in Nat
      <3>1. request[j].commands \in Nat /\ Len(ended[j]) \in Nat
        BY <1>3, <1>5, RequestFacts DEF QueueInv
      <3>2. Len(ended[j]) < request[j].commands
        BY <1>1 DEF QueueInv, PlaceInv
      <3>3. QED
        BY <3>1, <3>2
    <2>2. after = "stop" => ~Succeeded(j)'
      <3>1. Len(ended[j]) + 1 \in DOMAIN ended'[j] /\ ended'[j][Len(ended[j]) + 1] = how
        BY <1>4, <1>5
      <3>2. QED
        BY <1>4, <3>1 DEF Succeeded
    <2>3. ASSUME NEW k \in Jobs, k # j
          PROVE  pc'[k] = pc[k] /\ ended'[k] = ended[k]
      BY <1>5, <1>6, <2>3
    <2>4. ASSUME NEW k \in Jobs
          PROVE  /\ pc'[k] = "next" => Len(ended'[k]) <= request'[k].commands
                 /\ pc'[k] \in {"launch", "run", "reap"} => Len(ended'[k]) < request'[k].commands
                 /\ pc'[k] = "stop" => ~Succeeded(k)'
      <3>1. CASE k = j
        BY <1>1, <1>4, <1>5, <1>6, <2>1, <2>2, <3>1
      <3>2. CASE k # j
        BY <1>1, <2>3, <3>2 DEF QueueInv, PlaceInv, Succeeded
      <3>3. QED
        BY <3>1, <3>2
    <2>5. QED
      BY <2>4 DEF PlaceInv
  <1>13. ContainerInv'
    <2>1. \A c \in containers : c[1] \in Jobs /\ c[1] # j /\ ~Working(c[1]) /\ pc[c[1]] # "none" /\ crashes # 0
      BY <1>1, <1>2, <1>3 DEF QueueInv, JobTypeOK, ContainerInv
    <2>2. QED
      BY <1>1, <1>6, <1>7, <2>1 DEF ContainerInv
  <1>14. QED
    BY <1>9, <1>10, <1>11, <1>12, <1>13 DEF QueueInv

LEMMA PrintPreserves ==
  ASSUME QueueInv, NEW j \in Jobs, PrintItem(j)
  PROVE  QueueInv'
  <1>1. /\ request' = request /\ pc' = pc /\ ended' = ended /\ exit' = exit /\ containers' = containers
        /\ spawnFaults' = spawnFaults /\ crashes' = crashes
        /\ status' = Refreshed(status.state, status.log + 1) /\ pc[j] = "run"
    BY DEF PrintItem, Log
  <1>2. status.state = "running" /\ status.job = j /\ j \in DOMAIN request /\ status.log + 1 \in Nat
    <2>1. Working(j) /\ status.log \in Nat
      BY <1>1 DEF Working, QueueInv, JobTypeOK
    <2>2. QED
      BY <2>1, TheWorker
  <1>3. /\ status' \in [state : {"idle", "running", "succeeded", "failed"}, job : 0 .. MaxJobs,
                        log : Nat, done : Nat]
        /\ status'.state = status.state /\ status'.job = status.job
    BY <1>1, <1>2, RefreshedStatus DEF QueueInv
  <1>4. JobTypeOK' /\ FutureInv' /\ PlaceInv' /\ ContainerInv'
    <2>1. JobTypeOK'
      BY <1>1, <1>3 DEF QueueInv, JobTypeOK
    <2>2. FutureInv' /\ PlaceInv'
      BY <1>1 DEF QueueInv, FutureInv, PlaceInv, Succeeded
    <2>3. ContainerInv'
      BY <1>1 DEF QueueInv, ContainerInv, Working, Current
    <2>4. QED
      BY <2>1, <2>2, <2>3
  <1>5. WorkerInv' /\ VerdictIsTrue'
    BY <1>1, <1>2, <1>3 DEF QueueInv, WorkerInv, RunningHasWorker, VerdictIsTrue, Working, Succeeded
  <1>6. QED
    BY <1>4, <1>5 DEF QueueInv

\* The thread ends with a verdict on its whole queue.
LEMMA VerdictSteps ==
  ASSUME QueueInv, NEW j \in Jobs, Stop(j) \/ Finish(j)
  PROVE  QueueInv'
  <1> DEFINE verdict == IF pc[j] = "stop" THEN "failed" ELSE Verdict(j)
  <1>1. /\ request' = request /\ ended' = ended /\ exit' = exit /\ containers' = containers
        /\ spawnFaults' = spawnFaults /\ crashes' = crashes
        /\ status' = Refreshed(verdict, status.log) /\ pc' = [pc EXCEPT ![j] = "gone"]
        /\ pc[j] = "stop" \/ (pc[j] = "next" /\ Current(j) > request[j].commands)
    BY DEF Stop, Finish, Conclude, Goto
  <1>2. Working(j)
    BY <1>1 DEF Working
  <1>3. /\ status.state = "running" /\ status.job = j /\ j \in DOMAIN request
        /\ \A k \in Jobs : k # j => ~Working(k)
    BY <1>2, TheWorker
  <1>4. /\ verdict \in {"succeeded", "failed"}
        /\ verdict = "succeeded" => Len(ended[j]) = request[j].commands /\ Succeeded(j)
        /\ verdict = "failed" => ~Succeeded(j)
    <2>1. Len(ended[j]) \in Nat /\ request[j].commands \in Nat
      BY <1>3, RequestFacts DEF QueueInv, JobTypeOK
    <2>2. QED
      BY <1>1, <2>1 DEF QueueInv, PlaceInv, Current, Verdict
  <1> HIDE DEF verdict
  <1>5. /\ status' \in [state : {"idle", "running", "succeeded", "failed"}, job : 0 .. MaxJobs,
                        log : Nat, done : Nat]
        /\ status'.state = verdict /\ status'.job = j
    <2>1. /\ JobTypeOK /\ status.job \in DOMAIN request /\ status.log \in Nat
          /\ verdict \in {"idle", "running", "succeeded", "failed"}
      BY <1>3, <1>4 DEF QueueInv, JobTypeOK
    <2>2. QED
      BY <1>1, <1>3, <1>4, <2>1, RefreshedStatus
  <1>6. /\ pc' \in [Jobs -> WorkerPC] /\ pc'[j] = "gone" /\ \A k \in Jobs : k # j => pc'[k] = pc[k]
    <2>1. pc \in [Jobs -> WorkerPC]
      BY DEF QueueInv, JobTypeOK
    <2>2. QED
      BY <1>1, <2>1 DEF WorkerPC
  <1>7. \A k \in Jobs : ~Working(k)'
    BY <1>3, <1>6 DEF Working
  <1>8. JobTypeOK'
    BY <1>1, <1>5, <1>6 DEF QueueInv, JobTypeOK
  <1>9. FutureInv'
    BY <1>1, <1>3, <1>6 DEF QueueInv, JobTypeOK, FutureInv
  <1>10. WorkerInv' /\ VerdictIsTrue'
    BY <1>1, <1>3, <1>4, <1>5, <1>7 DEF WorkerInv, RunningHasWorker, VerdictIsTrue, Succeeded
  <1>11. PlaceInv'
    BY <1>1, <1>6 DEF QueueInv, PlaceInv, Succeeded
  <1>12. ContainerInv'
    <2>1. \A c \in containers : c[1] \in Jobs /\ pc'[c[1]] # "none" /\ (crashes = 0 => Working(c[1]))
      BY <1>6 DEF QueueInv, JobTypeOK, ContainerInv
    <2>2. \A c \in containers : crashes # 0
      <3>1. ASSUME NEW c \in containers, crashes = 0
            PROVE  FALSE
        <4>1. c[1] = j
          BY <1>3, <2>1, <3>1
        <4>2. QED
          BY <1>1, <1>2, <3>1, <4>1 DEF QueueInv, ContainerInv
      <3>2. QED
        BY <3>1
    <2>3. QED
      BY <1>1, <1>7, <2>1, <2>2 DEF ContainerInv
  <1>13. QED
    BY <1>8, <1>9, <1>10, <1>11, <1>12 DEF QueueInv

\* A console that starts anew knows no job and has no thread.
LEMMA RestartPreserves == QueueInv /\ Restart => QueueInv'
  <1> SUFFICES ASSUME QueueInv, Restart
               PROVE  QueueInv'
    OBVIOUS
  <1>1. /\ request' = request /\ ended' = ended /\ exit' = exit /\ containers' = containers
        /\ spawnFaults' = spawnFaults /\ crashes' = crashes + 1
        /\ status' = [state |-> "idle", job |-> 0, log |-> 0, done |-> 0]
        /\ pc' = [j \in Jobs |-> IF j \in DOMAIN request THEN "gone" ELSE "none"]
    BY DEF Restart
  <1>2. crashes \in Nat /\ crashes' \in Nat /\ crashes' # 0
    BY <1>1 DEF QueueInv, JobTypeOK
  <1>3. \A j \in Jobs : pc'[j] \in {"none", "gone"} /\ (j > Len(request) => pc'[j] = "none")
    BY <1>1 DEF QueueInv, JobTypeOK, Jobs
  <1>4. JobTypeOK'
    <2>1. pc' \in [Jobs -> WorkerPC]
      BY <1>1 DEF WorkerPC
    <2>2. status' \in [state : {"idle", "running", "succeeded", "failed"}, job : 0 .. MaxJobs,
                       log : Nat, done : Nat]
      BY <1>1, BoundsAssumption
    <2>3. QED
      BY <1>1, <1>2, <2>1, <2>2 DEF QueueInv, JobTypeOK
  <1>5. FutureInv'
    BY <1>1, <1>3 DEF QueueInv, FutureInv
  <1>6. WorkerInv' /\ VerdictIsTrue'
    BY <1>1, <1>3 DEF WorkerInv, RunningHasWorker, Working, VerdictIsTrue
  <1>7. PlaceInv'
    BY <1>3 DEF PlaceInv
  <1>8. ContainerInv'
    <2>1. \A c \in containers : c[1] \in Jobs /\ pc[c[1]] # "none"
      BY DEF QueueInv, JobTypeOK, ContainerInv
    <2>2. \A c \in containers : c[1] \in DOMAIN request
      BY <2>1 DEF QueueInv, JobTypeOK, FutureInv, Jobs
    <2>3. QED
      BY <1>1, <1>2, <1>3, <2>1, <2>2 DEF ContainerInv, Working
  <1>9. QED
    BY <1>4, <1>5, <1>6, <1>7, <1>8 DEF QueueInv

\* A command no thread waits for takes only its container away.
LEMMA OrphanPreserves ==
  ASSUME QueueInv, NEW j \in Jobs, OrphanExits(j)
  PROVE  QueueInv'
  <1>1. /\ status' = status /\ request' = request /\ pc' = pc /\ ended' = ended /\ exit' = exit
        /\ spawnFaults' = spawnFaults /\ crashes' = crashes
        /\ containers' = containers \ {<<j, Current(j)>>}
    BY DEF OrphanExits
  <1>2. JobTypeOK' /\ FutureInv' /\ PlaceInv'
    BY <1>1 DEF QueueInv, JobTypeOK, FutureInv, PlaceInv, Succeeded
  <1>3. WorkerInv' /\ VerdictIsTrue'
    BY <1>1 DEF QueueInv, WorkerInv, RunningHasWorker, Working, VerdictIsTrue, Succeeded
  <1>4. ContainerInv'
    BY <1>1 DEF QueueInv, ContainerInv, Working, Current
  <1>5. QED
    BY <1>2, <1>3, <1>4 DEF QueueInv

LEMMA StutterPreserves == QueueInv /\ UNCHANGED vars => QueueInv'
  <1> SUFFICES ASSUME QueueInv, UNCHANGED vars
               PROVE  QueueInv'
    OBVIOUS
  <1>1. JobTypeOK' /\ FutureInv' /\ PlaceInv'
    BY DEF vars, QueueInv, JobTypeOK, FutureInv, PlaceInv, Succeeded
  <1>2. WorkerInv' /\ VerdictIsTrue' /\ ContainerInv'
    BY DEF vars, QueueInv, WorkerInv, RunningHasWorker, Working, VerdictIsTrue, Succeeded, ContainerInv, Current
  <1>3. QED
    BY <1>1, <1>2 DEF QueueInv

LEMMA QueueStep == QueueInv /\ [Next]_vars => QueueInv'
  <1> SUFFICES ASSUME QueueInv, [Next]_vars
               PROVE  QueueInv'
    OBVIOUS
  <1>1. CASE \E r \in Requests : Start(r) \/ SpawnFails(r)
    BY <1>1, EnterPreserves
  <1>2. ASSUME NEW j \in Jobs, RunQueue(j)
        PROVE  QueueInv'
    <2>1. CASE NextCommand(j) \/ Launch(j) \/ \E how \in {"ok", "error"} : CommandExits(j, how)
      BY <2>1, ContainerSteps
    <2>2. CASE LaunchFails(j) \/ Reap(j)
      BY <2>2, OutcomeSteps
    <2>3. CASE PrintItem(j)
      BY <2>3, PrintPreserves
    <2>4. CASE Stop(j) \/ Finish(j)
      BY <2>4, VerdictSteps
    <2>5. QED
      BY <1>2, <2>1, <2>2, <2>3, <2>4 DEF RunQueue
  <1>3. CASE \E j \in Jobs : OrphanExits(j)
    BY <1>3, OrphanPreserves
  <1>4. CASE Restart
    BY <1>4, RestartPreserves
  <1>5. CASE UNCHANGED vars
    BY <1>5, StutterPreserves
  <1>6. QED
    BY <1>1, <1>2, <1>3, <1>4, <1>5 DEF Next

LEMMA QueueInvariant == Spec => []QueueInv
  BY QueueInit, QueueStep, PTL DEF Spec

\* The commands waited for are at most one: the current one of the job shown.
LEMMA OneWaitedFor == QueueInv => OneCommand
  <1> SUFFICES ASSUME QueueInv
               PROVE  OneCommand
    OBVIOUS
  <1> DEFINE mine == {c \in containers : Working(c[1])}
             only == <<status.job, Current(status.job)>>
  <1>1. mine \subseteq {only}
    BY DEF QueueInv, JobTypeOK, WorkerInv, ContainerInv
  <1>2. IsFiniteSet({only}) /\ Cardinality({only}) = 1
    BY FS_Singleton
  <1>3. Cardinality(mine) <= 1
    BY <1>1, <1>2, FS_Subset
  <1>4. crashes = 0 => \A c \in containers : Working(c[1])
    BY DEF QueueInv, ContainerInv
  <1>5. QED
    BY <1>3, <1>4 DEF OneCommand

-----------------------------------------------------------------------------
(* Progress.                                                               *)

\* The log a page's progress is counted from has a line for each outcome.
ProgressInv ==
  status.state # "idle" =>
    LET j == status.job
        total == request[j].total IN
    /\ request[j].batch => status.log = Len(ended[j])
    /\ status.done = IF status.state = "succeeded" /\ total > 0 THEN total
                                                                ELSE Least(status.log, total)

\* A refreshed status shows what its log says.
LEMMA RefreshedProgress ==
  ASSUME JobTypeOK, status.job \in DOMAIN request, NEW lines \in Nat, NEW state,
         status' = Refreshed(state, lines), request' = request,
         request[status.job].batch => lines = Len(ended'[status.job])
  PROVE  ProgressInv'
  <1>1. /\ status'.job = status.job /\ status'.state = state /\ status'.log = lines
        /\ status'.done = IF state = "succeeded" /\ request[status.job].total > 0
                          THEN request[status.job].total ELSE Least(lines, request[status.job].total)
    BY DEF Refreshed, JobTypeOK
  <1>2. QED
    BY <1>1 DEF ProgressInv, Least

LEMMA ProgressStep ==
  ASSUME QueueInv, ProgressInv, [Next]_vars
  PROVE  ProgressInv'
  <1>1. ASSUME NEW r \in Requests, Start(r) \/ SpawnFails(r)
        PROVE  ProgressInv'
    <2> DEFINE n == Len(request')
    <2>1. Enter(r) /\ ended' = ended
      BY <1>1 DEF Start, SpawnFails
    <2>2. /\ status' = [state |-> "running", job |-> n, log |-> 0, done |-> 0]
          /\ ended[n] = <<>> /\ request' \in Seq(Requests) /\ n \in 1 .. n
      BY <2>1, Entering DEF Jobs
    <2>3. request'[n].total \in Nat
      <3>1. request'[n] \in Requests
        BY <2>2
      <3>2. QED
        BY <3>1, RequestsAssumption
    <2>4. status'.job = n /\ status'.log = 0 /\ status'.done = 0 /\ status'.state = "running"
          /\ Len(ended'[n]) = 0
      BY <2>1, <2>2
    <2>5. Least(0, request'[n].total) = 0
      BY <2>3 DEF Least
    <2> HIDE DEF n
    <2>6. QED
      BY <2>4, <2>5 DEF ProgressInv, Least
  <1>2. ASSUME NEW j \in Jobs, LaunchFails(j) \/ Reap(j) \/ PrintItem(j) \/ Stop(j) \/ Finish(j)
        PROVE  ProgressInv'
    <2>1. Working(j)
      BY <1>2 DEF Working, LaunchFails, Reap, PrintItem, Stop, Finish
    <2>2. status.state = "running" /\ status.job = j /\ j \in DOMAIN request
      BY <2>1, TheWorker
    <2>3. JobTypeOK /\ status.log \in Nat /\ ended[j] \in Seq(Outcomes)
      BY DEF QueueInv, JobTypeOK
    <2>4. request[j].batch => status.log = Len(ended[j])
      BY <2>2 DEF ProgressInv
    <2>5. CASE LaunchFails(j) \/ Reap(j)
      <3>1. /\ status' = Refreshed(status.state, status.log + Counted(j)) /\ request' = request
            /\ \E how : ended' = [ended EXCEPT ![j] = Append(@, how)]
        BY <2>5 DEF LaunchFails, Reap, Log
      <3>2. Len(ended'[j]) = Len(ended[j]) + 1
        BY <2>3, <3>1 DEF QueueInv, JobTypeOK
      <3>3. status.log + Counted(j) \in Nat
        BY <2>3 DEF Counted
      <3>4. request[j].batch => status.log + Counted(j) = Len(ended'[j])
        BY <2>4, <3>2 DEF Counted
      <3>5. QED
        BY <2>2, <2>3, <3>1, <3>3, <3>4, RefreshedProgress
    <2>6. CASE PrintItem(j)
      <3>1. /\ status' = Refreshed(status.state, status.log + 1) /\ request' = request
            /\ ~request[j].batch
        BY <2>6 DEF PrintItem, Log
      <3>2. QED
        BY <2>2, <2>3, <3>1, RefreshedProgress
    <2>7. CASE Stop(j) \/ Finish(j)
      <3>1. /\ \E verdict : status' = Refreshed(verdict, status.log)
            /\ request' = request /\ ended' = ended
        BY <2>7 DEF Stop, Finish, Conclude
      <3>2. QED
        BY <2>2, <2>3, <2>4, <3>1, RefreshedProgress
    <2>8. QED
      BY <1>2, <2>5, <2>6, <2>7
  <1>3. CASE Restart
    BY <1>3 DEF Restart, ProgressInv
  <1>4. ASSUME UNCHANGED <<status, request, ended>>
        PROVE  ProgressInv'
    BY <1>4 DEF ProgressInv
  <1>5. ASSUME NEW j \in Jobs, \/ NextCommand(j) \/ Launch(j) \/ OrphanExits(j)
                               \/ \E how \in {"ok", "error"} : CommandExits(j, how)
        PROVE  ProgressInv'
    BY <1>4, <1>5 DEF NextCommand, Launch, OrphanExits, CommandExits
  <1>6. CASE UNCHANGED vars
    BY <1>4, <1>6 DEF vars
  <1>7. QED
    BY <1>1, <1>2, <1>3, <1>5, <1>6 DEF Next, RunQueue

\* A queue that succeeded has run every command it counts its progress against.
LEMMA ProgressShown ==
  ASSUME QueueInv, ProgressInv
  PROVE  ProgressIsTrue
  <1> SUFFICES ASSUME status.state # "idle"
               PROVE  LET j == status.job IN
                      /\ request[j].batch => status.done = Least(Len(ended[j]), request[j].total)
                      /\ status.state = "succeeded" /\ request[j].total > 0 => status.done = request[j].total
    BY DEF ProgressIsTrue
  <1> DEFINE j == status.job
  <1>1. j \in DOMAIN request
    BY DEF QueueInv, WorkerInv
  <1>2. request[j] \in Requests
    BY <1>1 DEF QueueInv, JobTypeOK
  <1>3. request[j].batch => request[j].total = request[j].commands
    BY <1>2, BatchesAssumption
  <1>4. request[j].total \in Nat
    BY <1>2, RequestsAssumption
  <1>5. status.state = "succeeded" => Len(ended[j]) = request[j].commands
    BY DEF QueueInv, VerdictIsTrue
  <1>6. /\ request[j].batch => status.log = Len(ended[j])
        /\ status.done = IF status.state = "succeeded" /\ request[j].total > 0
                         THEN request[j].total ELSE Least(status.log, request[j].total)
    BY DEF ProgressInv
  <1> HIDE DEF j
  <1>7. request[j].batch /\ status.state = "succeeded"
          => Least(Len(ended[j]), request[j].total) = request[j].total
    BY <1>3, <1>4, <1>5 DEF Least
  <1>8. QED
    BY <1>6, <1>7 DEF j

-----------------------------------------------------------------------------
\* The verdict the pages show is the verdict on every command of the queue of
\* the job it is shown for (runner.py, _run_queue), for queues of any length,
\* requests that overlap, threads that do not start and consoles that die.
THEOREM VerdictTrue == Spec => []VerdictIsTrue
  <1>1. QueueInv => VerdictIsTrue
    BY DEF QueueInv
  <1>2. QED
    BY <1>1, QueueInvariant, PTL

\* The progress pages show of a queue of batches is the number of batches that
\* are over, and a job that succeeded is complete (_refresh_progress_locked).
THEOREM ProgressTrue == Spec => []ProgressIsTrue
  <1>1. Init => ProgressInv
    BY DEF Init, ProgressInv
  <1>2. QED
    BY <1>1, QueueInvariant, ProgressStep, ProgressShown, PTL DEF Spec

\* However many pages start jobs, a console waits for one command at a time, and
\* while no console died none runs that nobody waits for (start_queue's lock).
THEOREM OneCommandAtATime == Spec => []OneCommand
  BY OneWaitedFor, QueueInvariant, PTL

\* The page that says a job runs has a thread that works on it, or one that
\* could not be started (start_queue, _run_queue).
THEOREM RunningIsWorkedOn == Spec => []RunningHasWorker
  <1>1. QueueInv => RunningHasWorker
    BY DEF QueueInv, WorkerInv
  <1>2. QED
    BY <1>1, QueueInvariant, PTL

\* The console's status, the requests let in and what became of their commands
\* keep their types (runner.py, JobRunner).
THEOREM QueueTyped == Spec => []JobTypeOK
  <1>1. QueueInv => JobTypeOK
    BY DEF QueueInv
  <1>2. QED
    BY <1>1, QueueInvariant, PTL
=============================================================================
