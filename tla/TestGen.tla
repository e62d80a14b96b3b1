------------------------------- MODULE TestGen ------------------------------
(***************************************************************************)
(* The test generation service: a bounded pool of workers, a cached clone  *)
(* of the repository that the workers share behind a mutex, and, in every  *)
(* worker, the loop that lets a model write tests, measures the coverage,  *)
(* keeps or rolls back the iteration, and at last pushes a branch and      *)
(* opens a pull request.  All jobs are for the same repository.  Coverage  *)
(* is counted in units of the tolerance (0.1 points).                      *)
(***************************************************************************)
EXTENDS Integers, FiniteSets, Sequences, FiniteSetsExt

CONSTANTS
  Jobs, NoJob,
  Paths,              \* the files a model may write
  Tracked,            \* those of them that are files of the repository
  Workers,            \* capacity of workerSemaphore
  MaxIterations,      \* per job: config.MaxIterations
  Writes,             \* per job: the paths its model may name
  MaxCoverage,        \* coverage is 0 .. MaxCoverage
  TargetCoverage, Tolerance, ConvergenceThreshold, ConvergenceWindow,
  MaxFaults           \* bound on failed writes of a row and jobs out of time

ASSUME TestGenAssumption ==
  /\ NoJob \notin Jobs /\ Tracked \subseteq Paths
  /\ Writes \in [Jobs -> SUBSET Paths]
  /\ Workers \in Nat \ {0} /\ MaxIterations \in [Jobs -> Nat \ {0}]
  /\ MaxCoverage \in Nat /\ TargetCoverage \in Nat /\ Tolerance \in Nat
  /\ ConvergenceThreshold \in Int /\ ConvergenceWindow \in Nat \ {0} /\ MaxFaults \in Nat

VARIABLES
  stage,        \* per job: where its worker is
  row,          \* per job: status of its row of test_gens
  work,         \* per job: its working directory and the variables of the loop
  pushed,       \* per job: the tree on the branch it pushed, or none
  expired,      \* jobs whose MaxJobWallTime is over
  cache,        \* the cached clone: absent, partial, whole
  mutex,        \* the job that holds the repository's clone mutex, or NoJob
  service,      \* up, stopping, closed (the listener too), down
  left,         \* jobs that left a container running (history)
  interrupted,  \* a clone was killed (history)
  faults

vars == <<stage, row, work, pushed, expired, cache, mutex, service, left, interrupted, faults>>

Absent == -1
Own == 0           \* as the repository has it; k > 0: as iteration k wrote it
NoTree == [p \in Paths |-> Absent]
OwnTree == [p \in Paths |-> IF p \in Tracked THEN Own ELSE Absent]

(* A worker's variables: copy is what cp found in the cache, tests[k] is    *)
(* the part of TestsCreated that iteration k appended, gained[n] whether    *)
(* the n-th accepted iteration gained at least the threshold.               *)
NoWork == [copy |-> "none", tree |-> NoTree, tests |-> <<>>, written |-> {},
           current |-> 0, best |-> 0, gained |-> <<>>, iteration |-> 0]

Init ==
  /\ stage = [j \in Jobs |-> "new"]
  /\ row = [j \in Jobs |-> "none"]
  /\ work = [j \in Jobs |-> NoWork]
  /\ pushed = [j \in Jobs |-> NoTree]
  /\ expired = {} /\ left = {}
  /\ cache = "absent" /\ mutex = NoJob
  /\ service = "up" /\ interrupted = FALSE /\ faults = 0

Active == {j \in Jobs : stage[j] \notin {"new", "refused", "end"}}

(* jobCtx is done: nothing that runs under it can start any more.           *)
Done(j) == j \in expired \/ service # "up"

Goes(j, s) == service # "down" /\ stage' = [stage EXCEPT ![j] = s]

-----------------------------------------------------------------------------
(* handleCreateTestGen                                                      *)

Request(j) ==
  /\ service \in {"up", "stopping"} /\ stage[j] = "new"
  /\ Goes(j, IF Cardinality(Active) < Workers THEN "accepted" ELSE "refused")
  /\ UNCHANGED <<row, work, pushed, expired, cache, mutex, service, left, interrupted, faults>>

-----------------------------------------------------------------------------
(* ProcessTestGen: the row and the clients                                  *)

(* The row is pending before anything is done; without it the job is over.  *)
CreateTestGen(j) ==
  /\ stage[j] = "accepted"
  /\ \/ Goes(j, "lock") /\ row' = [row EXCEPT ![j] = "pending"] /\ UNCHANGED faults
     \/ Goes(j, "end") /\ faults < MaxFaults /\ faults' = faults + 1 /\ UNCHANGED row
  /\ UNCHANGED <<work, pushed, expired, cache, mutex, service, left, interrupted>>

(* updateFailedResult and the return: the error of the write is dropped.    *)
Fail(j) ==
  /\ Goes(j, "end")
  /\ work' = [work EXCEPT ![j] = NoWork]
  /\ \/ row' = [row EXCEPT ![j] = "failed"] /\ UNCHANGED faults
     \/ row' = row /\ faults < MaxFaults /\ faults' = faults + 1

(* llm.NewClient refuses the provider or the key.                           *)
BadClient(j) ==
  /\ stage[j] = "lock"
  /\ Fail(j)
  /\ UNCHANGED <<pushed, expired, cache, mutex, service, left, interrupted>>

-----------------------------------------------------------------------------
(* cloneRepo                                                                *)

MutantMayLock(j) == TRUE
MayLock(j) == mutex = NoJob

(* Under the mutex: a directory that is there is fetched and reset, with    *)
(* the errors dropped (a partial one may stay partial); otherwise a clone   *)
(* begins, unless the context is already done.                              *)
Lock(j) ==
  /\ stage[j] = "lock" /\ MayLock(j)
  /\ IF cache = "absent"
     THEN IF Done(j) THEN Fail(j) /\ UNCHANGED <<cache, mutex>>
          ELSE /\ Goes(j, "clone") /\ cache' = "partial" /\ mutex' = j
               /\ UNCHANGED <<row, work, faults>>
     ELSE /\ Goes(j, "copy") /\ mutex' = j
          /\ cache' \in {cache} \cup (IF Done(j) THEN {} ELSE {"whole"})
          /\ UNCHANGED <<row, work, faults>>
  /\ UNCHANGED <<pushed, expired, service, left, interrupted>>

MutantUnlocked == mutex
Unlocked == NoJob

CloneSucceeds(j) ==
  /\ stage[j] = "clone"
  /\ Goes(j, "copy") /\ cache' = "whole"
  /\ UNCHANGED <<row, work, pushed, expired, mutex, service, left, interrupted, faults>>

(* git clone removes what it made when it fails, and leaves it when it is   *)
(* killed (CloneTimeoutSeconds, the job's time, or the shutdown).           *)
CloneFails(j) ==
  /\ stage[j] = "clone"
  /\ \/ cache' = "absent" /\ UNCHANGED interrupted
     \/ cache' = "partial" /\ interrupted' = TRUE
  /\ Fail(j) /\ mutex' = Unlocked
  /\ UNCHANGED <<pushed, expired, service, left>>

(* cp -r, the unlock, DetectTestFramework, and docker run for the baseline. *)
Copy(j) ==
  /\ stage[j] = "copy" /\ ~Done(j)
  /\ mutex' = Unlocked
  /\ Goes(j, "baseline")
  /\ work' = [work EXCEPT ![j].copy = cache,
                          ![j].tree = IF cache = "whole" THEN OwnTree ELSE NoTree]
  /\ UNCHANGED <<row, pushed, expired, cache, service, left, interrupted, faults>>

(* The copy fails, or no framework is found in it.                          *)
CopyFails(j) ==
  /\ stage[j] = "copy"
  /\ mutex' = Unlocked
  /\ Fail(j)
  /\ UNCHANGED <<pushed, expired, cache, service, left, interrupted>>

-----------------------------------------------------------------------------
(* RunWithCoverage                                                          *)

MutantLeaves(j) == Done(j)

(* A run that produced no report: the tests did not compile or wrote no     *)
(* coverage file, or the run was stopped.  A run that is out of time is     *)
(* killed and removed; when the shutdown cancels the context, the docker    *)
(* client dies, docker rm refuses the running container, and it stays.      *)
Leaves(j) == service # "up" /\ j \notin expired

NoReport(j) == left' \in {left} \cup (IF Leaves(j) THEN {left \cup {j}} ELSE {})

Baseline(j) ==
  /\ stage[j] = "baseline"
  /\ \E c \in 0 .. MaxCoverage :
       /\ work' = [work EXCEPT ![j].current = c, ![j].best = c, ![j].iteration = 1]
       /\ Goes(j, "generate")
  /\ UNCHANGED <<row, pushed, expired, cache, mutex, service, left, interrupted, faults>>

BaselineFails(j) ==
  /\ stage[j] = "baseline"
  /\ NoReport(j) /\ Fail(j)
  /\ UNCHANGED <<pushed, expired, cache, mutex, service, interrupted>>

-----------------------------------------------------------------------------
(* The loop                                                                 *)

(* callLLMWithRetry, parseTestGenResponse, and the files that are written.  *)
Generate(j) ==
  /\ stage[j] = "generate" /\ ~Done(j)
  /\ \E files \in SUBSET Writes[j] :
       work' = [work EXCEPT
         ![j].written = files,
         ![j].tree = [p \in Paths |-> IF p \in files THEN work[j].iteration ELSE @[p]]]
  /\ Goes(j, "measure")
  /\ UNCHANGED <<row, pushed, expired, cache, mutex, service, left, interrupted, faults>>

(* The retries are used up, the error is not one to retry, or the answer    *)
(* is no list of files: the job fails, whatever earlier iterations reached. *)
GenerateFails(j) ==
  /\ stage[j] = "generate"
  /\ Fail(j)
  /\ UNCHANGED <<pushed, expired, cache, mutex, service, left, interrupted>>

MutantRestored(j) ==
  [p \in Paths |-> IF p \in work[j].written THEN Absent ELSE work[j].tree[p]]

(* The files of the iteration are removed; git checkout -- . restores every *)
(* tracked file, also one that an earlier iteration rewrote (unless the     *)
(* context is done); TestsCreated is cut back.                              *)
Restored(j) ==
  [p \in Paths |-> IF p \in Tracked /\ work[j].copy = "whole" /\ ~Done(j) THEN Own
                   ELSE IF p \in work[j].written THEN Absent ELSE work[j].tree[p]]

MutantRolledBack(j) == [work[j] EXCEPT !.written = {}, !.tests = Append(@, {})]
RolledBack(j) == [work[j] EXCEPT !.tree = Restored(j), !.written = {}, !.tests = Append(@, {})]

(* A branch only if TestsCreated is not empty.                              *)
Leave(j) ==
  IF \E k \in DOMAIN work'[j].tests : work'[j].tests[k] # {} THEN "publish" ELSE "save"

MutantContinue(j, w) ==
  /\ work' = [work EXCEPT ![j] = [w EXCEPT !.iteration = w.iteration + 1]]
  /\ Goes(j, IF w.iteration <= MaxIterations[j] THEN "generate" ELSE Leave(j))

(* The next turn of the loop, or the end of it.                             *)
Continue(j, w) ==
  /\ work' = [work EXCEPT ![j] = [w EXCEPT !.iteration = w.iteration + 1]]
  /\ Goes(j, IF w.iteration < MaxIterations[j] THEN "generate" ELSE Leave(j))

Break(j, w) == work' = [work EXCEPT ![j] = w] /\ Goes(j, Leave(j))

MeasureFails(j) ==
  /\ stage[j] = "measure"
  /\ NoReport(j)
  /\ Continue(j, RolledBack(j))
  /\ UNCHANGED <<row, pushed, expired, cache, mutex, service, interrupted, faults>>

MutantDecreased(w, c) == c < w.current - Tolerance
Decreased(w, c) == c < w.best - Tolerance

(* checkConvergence: the target is met, or the window gained too little.    *)
Converged(w) ==
  \/ w.best >= TargetCoverage
  \/ /\ Len(w.gained) >= ConvergenceWindow
     /\ \A n \in Len(w.gained) - ConvergenceWindow + 1 .. Len(w.gained) : ~w.gained[n]

Accepted(w, c) ==
  [w EXCEPT !.tests = Append(@, w.written), !.written = {}, !.current = c, !.best = Max({@, c}),
            !.gained = Append(@, c - w.current >= ConvergenceThreshold)]

Measure(j) ==
  /\ stage[j] = "measure"
  /\ \E c \in 0 .. MaxCoverage :
       IF Decreased(work[j], c) THEN Break(j, RolledBack(j))
       ELSE LET w == Accepted(work[j], c)
            IN  IF Converged(w) THEN Break(j, w) ELSE Continue(j, w)
  /\ UNCHANGED <<row, pushed, expired, cache, mutex, service, left, interrupted, faults>>

-----------------------------------------------------------------------------
(* The branch, the pull request and the result                              *)

(* createBranchAndPR: checkout -b, add, commit, push.                       *)
Publish(j) ==
  /\ stage[j] = "publish" /\ ~Done(j)
  /\ pushed' = [pushed EXCEPT ![j] = work[j].tree]
  /\ Goes(j, "save")
  /\ UNCHANGED <<row, work, expired, cache, mutex, service, left, interrupted, faults>>

(* One of the four commands fails: no branch, and the job goes on.          *)
PublishFails(j) ==
  /\ stage[j] = "publish"
  /\ Goes(j, "save")
  /\ UNCHANGED <<row, work, pushed, expired, cache, mutex, service, left, interrupted, faults>>

(* UpdateTestGenResult: done, with or without a branch; the directory goes. *)
Save(j) ==
  /\ stage[j] = "save"
  /\ Goes(j, "end")
  /\ \/ row' = [row EXCEPT ![j] = "done"] /\ UNCHANGED faults
     \/ row' = row /\ faults < MaxFaults /\ faults' = faults + 1
  /\ work' = [work EXCEPT ![j] = NoWork]
  /\ UNCHANGED <<pushed, expired, cache, mutex, service, left, interrupted>>

-----------------------------------------------------------------------------
(* Time, shutdown                                                           *)

Expire(j) ==
  /\ j \in Active \ expired /\ service # "down"
  /\ expired' = expired \cup {j}
  /\ faults < MaxFaults /\ faults' = faults + 1
  /\ UNCHANGED <<stage, row, work, pushed, cache, mutex, service, left, interrupted>>

(* SIGTERM: the workers' context is cancelled; then the listener closes,    *)
(* and main waits for the workers or for sixty seconds, whichever is first. *)
Stop ==
  /\ \/ service = "up" /\ service' = "stopping"
     \/ service = "stopping" /\ service' = "closed"
     \/ service \in {"stopping", "closed"} /\ service' = "down"
  /\ UNCHANGED <<stage, row, work, pushed, expired, cache, mutex, left, interrupted, faults>>

WorkerStep(j) ==
  \/ CreateTestGen(j) \/ Lock(j) \/ CloneSucceeds(j) \/ CloneFails(j) \/ Copy(j) \/ CopyFails(j)
  \/ Baseline(j) \/ BaselineFails(j) \/ Generate(j) \/ GenerateFails(j) \/ Measure(j)
  \/ MeasureFails(j) \/ Publish(j) \/ PublishFails(j) \/ Save(j)

Next ==
  \/ \E j \in Jobs : Request(j) \/ BadClient(j) \/ WorkerStep(j) \/ Expire(j)
  \/ Stop

Spec == Init /\ [][Next]_vars

(* A worker goes on while the process runs; nobody has to stop the service. *)
FairSpec == Spec /\ \A j \in Jobs : WF_vars(WorkerStep(j))

-----------------------------------------------------------------------------

Stages == {"new", "refused", "accepted", "lock", "clone", "copy", "baseline", "generate",
           "measure", "publish", "save", "end"}
Contents == {Absent, Own} \cup UNION {1 .. MaxIterations[j] : j \in Jobs}

(* The type of the state of the workers and of the cached clone.            *)
TypeOK ==
  /\ stage \in [Jobs -> Stages]
  /\ row \in [Jobs -> {"none", "pending", "failed", "done"}]
  /\ \A j \in Jobs :
       /\ work[j].copy \in {"none", "partial", "whole"}
       /\ work[j].tree \in [Paths -> Contents] /\ work[j].written \subseteq Paths
       /\ work[j].current \in 0 .. MaxCoverage /\ work[j].best \in 0 .. MaxCoverage
       /\ work[j].iteration \in 0 .. MaxIterations[j] + 1
       /\ Len(work[j].tests) <= work[j].iteration
       /\ Len(work[j].gained) <= Len(work[j].tests)
  /\ pushed \in [Jobs -> [Paths -> Contents]]
  /\ expired \subseteq Jobs /\ left \subseteq Jobs
  /\ cache \in {"absent", "partial", "whole"}
  /\ mutex \in Jobs \cup {NoJob}
  /\ service \in {"up", "stopping", "closed", "down"}
  /\ interrupted \in BOOLEAN /\ faults \in 0 .. MaxFaults

(* No job works on half a repository, unless some clone was killed before:  *)
(* cloneRepo copies the cache under the mutex under which it is cloned, so  *)
(* that a second job for the repository never copies a clone in progress.   *)
(* (A killed clone stays in the cache for every later job: the next one     *)
(* finds the directory and drops the errors of fetch and reset.)            *)
CopyIsWhole == \A j \in Jobs : work[j].copy = "partial" => interrupted

(* Nothing of an iteration that was rolled back is ever pushed: a file on   *)
(* the branch is the repository's own or was written by an iteration that   *)
(* still lists it in TestsCreated.                                          *)
PushedIsAccepted ==
  \A j \in Jobs, p \in Paths :
    stage[j] = "save" /\ pushed[j][p] > Own =>
      pushed[j][p] \in DOMAIN work[j].tests /\ p \in work[j].tests[pushed[j][p]]

(* The branch deletes no file of the repository, although a rollback does   *)
(* remove the ones that the model overwrote: git checkout brings them back, *)
(* and where it cannot (jobCtx is done) the push cannot run either.         *)
NothingDeleted ==
  \A j \in Jobs : pushed[j] # NoTree /\ work[j].copy = "whole" =>
    \A p \in Tracked : pushed[j][p] # Absent

(* FinalCoverage, the best coverage ever measured, is within the tolerance  *)
(* of the last iteration that was kept: a series of small losses cannot     *)
(* take the tests away from the coverage that the row and the title of the  *)
(* pull request report.                                                     *)
FinalCoverageHolds == \A j \in Jobs : work[j].best <= work[j].current + Tolerance

(* Only the shutdown leaves a container behind: a run that is out of time   *)
(* is killed before it is removed.                                          *)
LeftByShutdown == left # {} => service # "up"

(* A job whose row was created leaves pending, if the service is not        *)
(* killed and no write of the row fails; in particular no failure keeps     *)
(* the clone mutex.                                                         *)
JobSettles ==
  \A j \in Jobs :
    row[j] = "pending" ~> row[j] # "pending" \/ service = "down" \/ faults > Cardinality(expired)

(* The shared clone and the containers in every state: nobody works on half *)
(* a clone, and only a shutdown leaves a container.                         *)
WorkInv == TypeOK /\ CopyIsWhole /\ LeftByShutdown

(* What a job publishes: accepted tests, no deletion, and a coverage that   *)
(* the branch has.                                                          *)
PublishInv == PushedIsAccepted /\ NothingDeleted /\ FinalCoverageHolds
=============================================================================
