----------------------------- MODULE ReviewJobs -----------------------------
(***************************************************************************)
(* The two worker services: pr-review reviews a pull request, ci-diagnosis *)
(* explains a failed check.  Both answer a request with 202, work on it in *)
(* a goroutine out of a bounded pool, keep a row of status, and post the   *)
(* result at GitHub: a review writes its final status after the post, a    *)
(* diagnosis before it.  A fix that a diagnosis proposes is approved by    *)
(* the user through another request.                                       *)
(***************************************************************************)
EXTENDS Integers, FiniteSets

CONSTANTS
  Jobs,           \* requests, each at most once
  ServiceOf,      \* the service a request is for
  PoolSize,       \* capacity of workerPool and of workerSemaphore
  Stopping,       \* programs that are told to stop in this instance
  MaxFaults       \* bound on failed statements and requests, and on crashes

Services == {"review", "diagnosis"}

ASSUME JobsAssumption ==
  /\ IsFiniteSet(Jobs) /\ ServiceOf \in [Jobs -> Services]
  /\ PoolSize \in Nat \ {0} /\ Stopping \subseteq Services \cup {"router"} /\ MaxFaults \in Nat

VARIABLES
  worker,     \* per job: where its goroutine is
  row,        \* status of the row of each job
  noted,      \* the reviews whose comments are stored
  posted,     \* the jobs whose result is at GitHub
  approval,   \* per job: the request that approves the fix
  pool,       \* per service: length of the channel
  server,     \* per service: up, stopping, drained, down
  faults

jobVars == <<worker, row, noted, posted, approval, pool, server, faults>>

JobInit ==
  /\ worker = [j \in Jobs |-> "none"]
  /\ row = [j \in Jobs |-> "none"]
  /\ noted = {} /\ posted = {}
  /\ approval = [j \in Jobs |-> "none"]
  /\ pool = [s \in Services |-> 0]
  /\ server = [s \in Services |-> "up"]
  /\ faults = 0

Working == {"create", "think", "write", "post", "settle", "partial"}

(* The workers that hold the WaitGroup of a service.                        *)
Active(s) == {j \in Jobs : ServiceOf[j] = s /\ worker[j] \in Working}

Fault == faults < MaxFaults /\ faults' = faults + 1

(* The goroutine goes on; at its end the deferred calls free the place in   *)
(* the pool and tell the WaitGroup.                                         *)
Moves(j, pc) ==
  /\ worker' = [worker EXCEPT ![j] = pc]
  /\ pool' = IF pc = "gone" THEN [pool EXCEPT ![ServiceOf[j]] = @ - 1] ELSE pool

(* The status is written, or the statement fails, which is logged: the row  *)
(* keeps its status.                                                        *)
Writes(j, status) ==
  \/ row' = [row EXCEPT ![j] = status] /\ UNCHANGED faults
  \/ UNCHANGED row /\ Fault

(* Once main has closed the database every statement fails.  Only a worker  *)
(* that starts after that, and an approval, can meet it.                    *)
WritesIfOpen(j, status) ==
  IF server[ServiceOf[j]] = "drained" THEN UNCHANGED <<row, faults>> ELSE Writes(j, status)

(* The statements of the two stores that the handlers and workers use.      *)
CreateReview(j) == WritesIfOpen(j, "processing")
CreateDiagnosis(j) == WritesIfOpen(j, "processing")
UpdateReviewResult(j, status) == Writes(j, status)
UpdateDiagnosisResult(j, status) == Writes(j, status)
UpdateDiagnosisStatus(j, status) == WritesIfOpen(j, status)
GetDiagnosis(j) == row[j]

(* The comments of a review, one by one; a failure of that is logged.       *)
CreateComments(j) ==
  \/ noted' = noted \cup {j} /\ UNCHANGED faults
  \/ UNCHANGED noted /\ Fault

-----------------------------------------------------------------------------
(* The handler of POST /reviews and of POST /diagnoses                      *)

(* The request finds a place.  The listener may have been closed since it   *)
(* was accepted: Shutdown runs beside the wait for the workers.             *)
HandleCreate(j) ==
  LET s == ServiceOf[j] IN
  /\ server[s] # "down" /\ worker[j] = "none" /\ pool[s] < PoolSize
  /\ pool' = [pool EXCEPT ![s] = @ + 1]
  /\ worker' = [worker EXCEPT ![j] = "create"]
  /\ UNCHANGED <<row, noted, posted, approval, server, faults>>

(* 503: the queue is full.                                                  *)
QueueIsFull(j) == server[ServiceOf[j]] # "down" /\ pool[ServiceOf[j]] = PoolSize

-----------------------------------------------------------------------------
(* ProcessReview and ProcessDiagnosis                                       *)

CreateRowLeaks(j) ==
  /\ worker[j] = "create"
  /\ WritesIfOpen(j, "processing")
  /\ worker' = [worker EXCEPT ![j] = IF row'[j] = "processing" THEN "think" ELSE "gone"]
  /\ UNCHANGED <<noted, posted, approval, pool, server>>

(* Without a row the worker gives up.                                       *)
CreateRow(j) ==
  /\ worker[j] = "create"
  /\ IF ServiceOf[j] = "review" THEN CreateReview(j) ELSE CreateDiagnosis(j)
  /\ Moves(j, IF row'[j] = "processing" THEN "think" ELSE "gone")
  /\ UNCHANGED <<noted, posted, approval, server>>

(* The diff, what is known of the repository and the answer of the LLM; an  *)
(* answer that cannot be parsed becomes the summary.                        *)
Review(j) ==
  /\ worker[j] = "think" /\ ServiceOf[j] = "review"
  /\ CreateComments(j)
  /\ Moves(j, "post")
  /\ UNCHANGED <<row, posted, approval, server>>

(* The logs, the commits, past failures and the answer of the LLM.          *)
Diagnose(j) ==
  /\ worker[j] = "think" /\ ServiceOf[j] = "diagnosis"
  /\ Moves(j, "write")
  /\ UNCHANGED <<row, noted, posted, approval, server, faults>>

(* GitHub or the LLM does not answer within the context's time.             *)
ThinkFails(j) ==
  /\ worker[j] = "think" /\ Fault
  /\ row' = [row EXCEPT ![j] = "error"]
  /\ Moves(j, "gone")
  /\ UNCHANGED <<noted, posted, approval, server>>

Posts(j, pcIfPosted, pcIfNot) ==
  \/ posted' = posted \cup {j} /\ Moves(j, pcIfPosted) /\ UNCHANGED faults
  \/ Fault /\ posted' \in {posted, posted \cup {j}} /\ Moves(j, pcIfNot)

(* Posted, or refused, or posted with an answer that is lost.               *)
PostReview(j) ==
  /\ worker[j] = "post" /\ ServiceOf[j] = "review"
  /\ Posts(j, "settle", "partial")
  /\ UNCHANGED <<row, noted, approval, server>>

PostThenWrites(j) ==
  /\ worker[j] = "post" /\ ServiceOf[j] = "diagnosis"
  /\ posted' = posted \cup {j} /\ Moves(j, "gone")
  /\ Writes(j, "completed")
  /\ UNCHANGED <<noted, approval, server>>

PostDiagnosisComment(j) ==
  /\ worker[j] = "post" /\ ServiceOf[j] = "diagnosis"
  /\ Posts(j, "gone", "gone")
  /\ UNCHANGED <<row, noted, approval, server>>

SettleSwallows(j) ==
  /\ worker[j] \in {"settle", "partial"}
  /\ Writes(j, "completed")
  /\ Moves(j, "gone")
  /\ UNCHANGED <<noted, posted, approval, server>>

(* The final status, after the post.                                        *)
SettleReview(j) ==
  /\ worker[j] \in {"settle", "partial"}
  /\ UpdateReviewResult(j, IF worker[j] = "settle" THEN "completed" ELSE "posted_partial")
  /\ Moves(j, "gone")
  /\ UNCHANGED <<noted, posted, approval, server>>

(* parseDiagnosisResponse: a fix that is safe waits for the user.           *)
Verdicts == {"completed", "awaiting_approval"}

SettleOnlyFixes(j, status) ==
  /\ worker[j] = "write"
  /\ IF status = "completed" THEN UNCHANGED <<row, faults>> ELSE Writes(j, status)
  /\ Moves(j, "post") \/ Moves(j, "gone")
  /\ UNCHANGED <<noted, posted, approval, server>>

(* The final status, before the comment.  A check without a pull request    *)
(* has nowhere to put the comment.                                          *)
SettleDiagnosis(j, status) ==
  /\ worker[j] = "write"
  /\ UpdateDiagnosisResult(j, status)
  /\ Moves(j, "post") \/ Moves(j, "gone")
  /\ UNCHANGED <<noted, posted, approval, server>>

-----------------------------------------------------------------------------
(* POST /diagnoses/{id}/approve-fix reads the row and then writes it        *)
(* without a condition.                                                     *)

ApproveRead(j) ==
  /\ ServiceOf[j] = "diagnosis" /\ approval[j] = "none"
  /\ server["diagnosis"] \in {"up", "stopping"} /\ GetDiagnosis(j) = "awaiting_approval"
  /\ approval' = [approval EXCEPT ![j] = "read"]
  /\ UNCHANGED <<worker, row, noted, posted, pool, server, faults>>

ApproveWrite(j) ==
  /\ approval[j] = "read"
  /\ UpdateDiagnosisStatus(j, "fix_approved")
  /\ approval' = [approval EXCEPT ![j] = IF row'[j] = "fix_approved" THEN "approved" ELSE "none"]
  /\ UNCHANGED <<worker, noted, posted, pool, server>>

-----------------------------------------------------------------------------
(* Shutdown and death.  A program that starts again reads no row: what was  *)
(* being processed stays so, and nothing else depends on the old process.   *)

Serves(s, next) ==
  /\ server' = [server EXCEPT ![s] = next]
  /\ UNCHANGED <<worker, row, noted, posted, approval, pool, faults>>

Shutdown(s) == s \in Stopping /\ server[s] = "up" /\ Serves(s, "stopping")

(* "all workers finished": the WaitGroup is at zero and the database is     *)
(* closed.                                                                  *)
WorkersFinished(s) == server[s] = "stopping" /\ Active(s) = {} /\ Serves(s, "drained")

Dies(s) ==
  /\ worker' = [j \in Jobs |-> IF j \in Active(s) THEN "gone" ELSE worker[j]]
  /\ pool' = [pool EXCEPT ![s] = 0]
  /\ approval' = [j \in Jobs |-> IF s = "diagnosis" /\ approval[j] = "read"
                                  THEN "none" ELSE approval[j]]
  /\ server' = [server EXCEPT ![s] = "down"]
  /\ UNCHANGED <<row, noted, posted>>

(* main returns.                                                            *)
Exit(s) == server[s] = "drained" /\ Dies(s) /\ UNCHANGED faults

(* The process dies, or the time for the workers is over.                   *)
Crash(s) == server[s] # "down" /\ Fault /\ Dies(s)

-----------------------------------------------------------------------------
Work(j) ==
  \/ CreateRow(j) \/ Review(j) \/ Diagnose(j) \/ ThinkFails(j)
  \/ PostReview(j) \/ PostDiagnosisComment(j) \/ SettleReview(j)
  \/ \E status \in Verdicts : SettleDiagnosis(j, status)

Approve(j) == ApproveRead(j) \/ ApproveWrite(j)

Lives(s) == Shutdown(s) \/ WorkersFinished(s) \/ Exit(s) \/ Crash(s)

JobNext ==
  \/ \E j \in Jobs : Work(j) \/ Approve(j)
  \/ \E s \in Services : Lives(s)

-----------------------------------------------------------------------------
JobTypeOK ==
  /\ worker \in [Jobs -> Working \cup {"none", "gone"}]
  /\ row \in [Jobs -> {"none", "processing", "completed", "posted_partial", "error",
                        "awaiting_approval", "fix_approved"}]
  /\ noted \subseteq Jobs /\ posted \subseteq Jobs
  /\ approval \in [Jobs -> {"none", "read", "approved"}]
  /\ \A s \in Services : /\ pool[s] = Cardinality(Active(s)) /\ pool[s] <= PoolSize
                          /\ server[s] \in {"up", "stopping", "drained", "down"}
  /\ faults \in 0 .. MaxFaults

(* A review says completed only when it is at GitHub, and its comments are  *)
(* stored before the pull request shows them, so that feedback finds them   *)
(* (ProcessReview, l. 111-126), unless a statement failed.                  *)
CompletedIsPosted ==
  \A j \in Jobs : ServiceOf[j] = "review" =>
    /\ row[j] = "completed" => j \in posted
    /\ j \in posted /\ faults = 0 => j \in noted

(* Once the user has been told that the fix is approved, the row says so    *)
(* for good, although the worker of the diagnosis may still be at work and  *)
(* neither write has a condition (handleApproveFix, ProcessDiagnosis).      *)
ApprovalStands ==
  [][\A j \in Jobs : approval[j] = "approved" => row'[j] = "fix_approved"]_jobVars
=============================================================================
