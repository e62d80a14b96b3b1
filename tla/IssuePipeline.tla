---------------------------- MODULE IssuePipeline ----------------------------
(***************************************************************************)
(* The issue pipeline of the bot (bot/issue_pipeline): every process polls *)
(* the pending rows of issue_pipelines, claims them by writing 'running',  *)
(* and runs each in two goroutines: executePipeline does the work, up to   *)
(* the pull request at GitHub, executeWithTimeout waits for it or for the  *)
(* timeout.  One job is the pair of goroutines of one claim.               *)
(*                                                                         *)
(* The service takes the function that executes the work as a parameter    *)
(* (ExecuteFunc).  Records has TRUE if that function may leave the result  *)
(* in the session row that executePipeline has inserted and reads again,   *)
(* FALSE if it may not: the function that main passes does not, because    *)
(* ExecuteInContainer inserts a row of its own.                            *)
(***************************************************************************)
EXTENDS Integers, Sequences, SequencesExt, FiniteSets

CONSTANTS
  Pipelines,        \* ids of rows
  Procs,            \* processes that run the service
  MaxConcurrent,    \* maxConcurrent
  MaxFaults,        \* bound on failed statements and requests, and on crashes
  Stops,            \* processes that may be stopped
  Records           \* see above

ASSUME PipelineAssumption ==
  /\ MaxConcurrent \in Nat \ {0} /\ MaxFaults \in Nat
  /\ Stops \subseteq Procs /\ Records \subseteq BOOLEAN

VARIABLES
  status,     \* status of each row, none before it is inserted
  pr,         \* the rows whose pr_number is set
  told,       \* the rows whose error_message says that there is no branch
  queue,      \* the pending rows, ORDER BY created_at
  poll,       \* the poll of each process
  sem,        \* length of the channel semaphore
  running,    \* the counter running
  job,        \* per process and row: the two goroutines
  service,    \* up, stopping, draining, stopped, down
  opened,     \* pull requests opened at GitHub for a row
  faults

rows == <<status, pr, told, queue>>
slots == <<sem, running>>
vars == <<rows, poll, slots, job, service, opened, faults>>

Idle == [pc |-> "idle", list |-> <<>>]
Free == [outer |-> "none", inner |-> "none", sent |-> "none", own |-> "none"]

Init ==
  /\ status = [p \in Pipelines |-> "none"]
  /\ pr = {} /\ told = {}
  /\ queue = <<>>
  /\ poll = [q \in Procs |-> Idle]
  /\ sem = [q \in Procs |-> 0]
  /\ running = [q \in Procs |-> 0]
  /\ job = [q \in Procs |-> [p \in Pipelines |-> Free]]
  /\ service = [q \in Procs |-> "up"]
  /\ opened = [p \in Pipelines |-> 0]
  /\ faults = 0

Fault == faults < MaxFaults /\ faults' = faults + 1

(* timeoutCtx is done.                                                      *)
Over(q, p) == job[q][p].outer # "wait" \/ service[q] # "up"

(* Both goroutines have ended.                                              *)
Ended(j) == j.outer = "gone" /\ j.inner = "gone"

Becomes(q, p, new) ==
  job' = [job EXCEPT ![q][p] = IF Ended(new) THEN [Free EXCEPT !.outer = "gone", !.inner = "gone"]
                               ELSE new]

Leaves(q, p, pc) == Becomes(q, p, [job[q][p] EXCEPT !.outer = pc, !.sent = "none"])

(* executePipeline returns and its result is sent to executeWithTimeout.    *)
Returns(q, p, result) ==
  Becomes(q, p, [Free EXCEPT !.outer = job[q][p].outer, !.inner = "gone",
                             !.sent = IF job[q][p].outer = "wait" THEN result ELSE "none"])

-----------------------------------------------------------------------------
(* Rows                                                                     *)

CreateIssuePipeline(p) ==
  /\ status[p] = "none"
  /\ status' = [status EXCEPT ![p] = "pending"]
  /\ queue' = Append(queue, p)
  /\ UNCHANGED <<pr, told, poll, slots, job, service, opened, faults>>

(* An unconditional write; told is the error_message "No branch created".   *)
UpdateIssuePipelineStatus(p, noBranch) ==
  /\ status' = [status EXCEPT ![p] = "error"]
  /\ told' = IF noBranch THEN told \cup {p} ELSE told \ {p}
  /\ UNCHANGED <<pr, queue>>

(* The write, or its failure, which is logged at most.                      *)
MarkFailure(p, noBranch) ==
  \/ UpdateIssuePipelineStatus(p, noBranch) /\ UNCHANGED faults
  \/ UNCHANGED rows /\ Fault

WriteError(p) == MarkFailure(p, FALSE)

-----------------------------------------------------------------------------
(* poll                                                                     *)

FirstRows(limit) == SubSeq(queue, 1, IF Len(queue) < limit THEN Len(queue) ELSE limit)

(* GetPendingIssuePipelines; a poll that finds nothing, or fails, changes   *)
(* nothing.                                                                 *)
Poll(q) ==
  /\ service[q] = "up" /\ poll[q].pc = "idle"
  /\ running[q] < MaxConcurrent /\ queue # <<>>
  /\ poll' = [poll EXCEPT ![q] = [pc |-> "claim", list |-> FirstRows(MaxConcurrent - running[q])]]
  /\ UNCHANGED <<rows, slots, job, service, opened, faults>>

(* The loop over the rows goes on, or the poll ends.                        *)
NextRow(q) ==
  poll' = [poll EXCEPT ![q] = IF Len(@.list) = 1 THEN Idle
                              ELSE [pc |-> "claim", list |-> Tail(@.list)]]

PollEnds(q) ==
  /\ poll[q].pc = "claim" /\ service[q] # "up"
  /\ poll' = [poll EXCEPT ![q] = Idle]
  /\ UNCHANGED <<rows, slots, job, service, opened, faults>>

ClaimMatchesId(p) == TRUE

(* The WHERE clause of the claim.                                           *)
ClaimMatches(p) == status[p] = "pending"

Claimed(p) ==
  /\ status' = [status EXCEPT ![p] = "running"]
  /\ queue' = RemoveFirst(queue, p)
  /\ UNCHANGED <<pr, told>>

(* A claim that fails may have been executed all the same: the row is       *)
(* running and nobody runs it.                                              *)
ClaimPipeline(q) ==
  /\ poll[q].pc = "claim" /\ service[q] = "up"
  /\ LET p == Head(poll[q].list) IN
       \/ /\ ClaimMatches(p) /\ Claimed(p)
          /\ poll' = [poll EXCEPT ![q].pc = "acquire"]
          /\ UNCHANGED faults
       \/ ~ClaimMatches(p) /\ NextRow(q) /\ UNCHANGED <<rows, faults>>
       \/ Fault /\ NextRow(q) /\ UNCHANGED rows
       \/ ClaimMatches(p) /\ Claimed(p) /\ Fault /\ NextRow(q)
  /\ UNCHANGED <<slots, job, service, opened>>

StartUncounted(q) ==
  /\ poll[q].pc = "acquire" /\ sem[q] < MaxConcurrent
  /\ job' = [job EXCEPT ![q][Head(poll[q].list)] =
               [Free EXCEPT !.outer = "wait", !.inner = "prepare"]]
  /\ sem' = [sem EXCEPT ![q] = @ + 1]
  /\ NextRow(q)
  /\ UNCHANGED <<rows, running, service, opened, faults>>

(* The semaphore has room.  SlotAvailable says that it always has, so the   *)
(* default branch of the select has no action.                              *)
StartExecution(q) ==
  /\ poll[q].pc = "acquire" /\ sem[q] < MaxConcurrent
  /\ job' = [job EXCEPT ![q][Head(poll[q].list)] =
               [Free EXCEPT !.outer = "wait", !.inner = "prepare"]]
  /\ sem' = [sem EXCEPT ![q] = @ + 1]
  /\ running' = [running EXCEPT ![q] = @ + 1]
  /\ NextRow(q)
  /\ UNCHANGED <<rows, service, opened, faults>>

-----------------------------------------------------------------------------
(* executePipeline                                                          *)

(* The data are read, a session row is inserted and linked, the keys are    *)
(* decrypted.                                                               *)
Prepare(q, p) ==
  /\ job[q][p].inner = "prepare" /\ ~Over(q, p)
  /\ Becomes(q, p, [job[q][p] EXCEPT !.inner = "execute", !.own = "pending"])
  /\ UNCHANGED <<rows, poll, slots, service, opened, faults>>

(* executeFn returns without an error: the agent has pushed a branch and    *)
(* its session is done, or it has failed.                                   *)
Execute(q, p, result) ==
  /\ job[q][p].inner = "execute"
  /\ \E recorded \in Records :
       Becomes(q, p, [job[q][p] EXCEPT !.inner = "read", !.own = IF recorded THEN result ELSE @])
  /\ UNCHANGED <<rows, poll, slots, service, opened, faults>>

(* Missing data, a failed insert or decryption, an error of executeFn, or   *)
(* the end of the context: the row says error and the error is returned.    *)
ExecuteFails(q, p) ==
  /\ job[q][p].inner \in {"prepare", "execute"}
  /\ WriteError(p)
  /\ Returns(q, p, "err")
  /\ UNCHANGED <<poll, slots, service, opened>>

(* GetSessionByID of the row that executePipeline inserted.                 *)
ReadSession(q, p) ==
  /\ job[q][p].inner = "read" /\ job[q][p].own = "done"
  /\ Becomes(q, p, [job[q][p] EXCEPT !.inner = "pull"])
  /\ UNCHANGED <<rows, poll, slots, service, opened, faults>>

(* The session is not done: a comment on the issue and the status error.    *)
NoBranch(q, p) ==
  /\ job[q][p].inner = "read" /\ job[q][p].own # "done"
  /\ MarkFailure(p, job[q][p].own # "error")
  /\ Returns(q, p, "nil")
  /\ UNCHANGED <<poll, slots, service, opened>>

Opens(p) == opened' = [opened EXCEPT ![p] = @ + 1]

(* getDefaultBranch and createPullRequest, under finishCtx, which neither   *)
(* the timeout nor the stop ends.                                           *)
CreatePullRequest(q, p) ==
  /\ job[q][p].inner = "pull"
  /\ Opens(p)
  /\ Becomes(q, p, [job[q][p] EXCEPT !.inner = "finish"])
  /\ UNCHANGED <<rows, poll, slots, service, faults>>

(* The session cannot be read, or GitHub refuses, or its answer is lost     *)
(* after the pull request was opened.                                       *)
PullRequestFails(q, p) ==
  /\ job[q][p].inner \in {"read", "pull"} /\ Fault
  /\ UpdateIssuePipelineStatus(p, FALSE)
  /\ UNCHANGED opened \/ (job[q][p].inner = "pull" /\ Opens(p))
  /\ Returns(q, p, "err")
  /\ UNCHANGED <<poll, slots, service>>

FinishUnlessFailed(q, p) ==
  /\ job[q][p].inner = "finish"
  /\ \/ /\ status' = [status EXCEPT ![p] = IF @ = "running" THEN "done" ELSE @]
        /\ pr' = IF status[p] = "running" THEN pr \cup {p} ELSE pr
        /\ UNCHANGED <<told, queue, faults>>
     \/ UNCHANGED rows /\ Fault
  /\ Returns(q, p, "nil")
  /\ UNCHANGED <<poll, slots, service, opened>>

(* The comment, the UPDATE to 'done', whose error is only logged, and the   *)
(* notification.  error_message keeps its value.                            *)
Finish(q, p) ==
  /\ job[q][p].inner = "finish"
  /\ \/ /\ status' = [status EXCEPT ![p] = "done"]
        /\ pr' = pr \cup {p}
        /\ UNCHANGED <<told, queue, faults>>
     \/ UNCHANGED rows /\ Fault
  /\ Returns(q, p, "nil")
  /\ UNCHANGED <<poll, slots, service, opened>>

-----------------------------------------------------------------------------
(* executeWithTimeout                                                       *)

TimeoutOnlyOnStop(q, p) ==
  /\ job[q][p].outer = "wait" /\ (job[q][p].sent = "err" \/ service[q] # "up")
  /\ WriteError(p)
  /\ Leaves(q, p, "leave")
  /\ UNCHANGED <<poll, slots, service, opened>>

(* An error was received, or timeoutCtx is done: after thirty minutes,      *)
(* which may be at any time here, or by the stop of the service.  The       *)
(* select may prefer this to a result that has arrived.                     *)
ExecutionTimeout(q, p) ==
  /\ job[q][p].outer = "wait"
  /\ WriteError(p)
  /\ Leaves(q, p, "leave")
  /\ UNCHANGED <<poll, slots, service, opened>>

Received(q, p) == job[q][p].outer = "leave" \/ (job[q][p].outer = "wait" /\ job[q][p].sent = "nil")

ReleaseCountFirst(q, p) ==
  /\ \/ /\ Received(q, p) /\ Leaves(q, p, "count")
        /\ running' = [running EXCEPT ![q] = @ - 1] /\ UNCHANGED sem
     \/ /\ job[q][p].outer = "count" /\ Leaves(q, p, "gone")
        /\ sem' = [sem EXCEPT ![q] = @ - 1] /\ UNCHANGED running
  /\ UNCHANGED <<rows, poll, service, opened, faults>>

(* The deferred function: the semaphore first, then the counter.            *)
Release(q, p) ==
  /\ \/ /\ Received(q, p) /\ Leaves(q, p, "count")
        /\ sem' = [sem EXCEPT ![q] = @ - 1] /\ UNCHANGED running
     \/ /\ job[q][p].outer = "count" /\ Leaves(q, p, "gone")
        /\ running' = [running EXCEPT ![q] = @ - 1] /\ UNCHANGED sem
  /\ UNCHANGED <<rows, poll, service, opened, faults>>

-----------------------------------------------------------------------------
(* Shutdown, death and start                                                *)

Forgotten(q) ==
  /\ job' = [job EXCEPT ![q] = [p \in Pipelines |-> Free]]
  /\ poll' = [poll EXCEPT ![q] = Idle]
  /\ sem' = [sem EXCEPT ![q] = 0]
  /\ running' = [running EXCEPT ![q] = 0]
  /\ service' = [service EXCEPT ![q] = "down"]

Serves(q, next) ==
  /\ service' = [service EXCEPT ![q] = next]
  /\ UNCHANGED <<rows, poll, slots, job, opened, faults>>

(* main cancels the context that every poll and execution derives from.     *)
Stop(q) == q \in Stops /\ service[q] = "up" /\ Serves(q, "stopping")

StopUnpolled(q) ==
  /\ service[q] = "stopping"
  /\ Serves(q, IF running[q] > 0 THEN "draining" ELSE "stopped")

(* Stop waits for the poller, then reads the counter and waits for the      *)
(* executions if it is not zero.                                            *)
StopReads(q) ==
  /\ service[q] = "stopping" /\ poll[q].pc = "idle"
  /\ Serves(q, IF running[q] > 0 THEN "draining" ELSE "stopped")

Drained(q) == service[q] = "draining" /\ running[q] = 0 /\ Serves(q, "stopped")

(* main returns: goroutines of executePipeline that go on die with it.      *)
Exit(q) ==
  /\ service[q] = "stopped"
  /\ Forgotten(q)
  /\ UNCHANGED <<rows, opened, faults>>

(* The process dies, or main's fifteen seconds for Stop are over.           *)
Crash(q) ==
  /\ service[q] # "down" /\ Fault
  /\ Forgotten(q)
  /\ UNCHANGED <<rows, opened>>

(* No row is reset: what was running stays so.                              *)
Restart(q) == service[q] = "down" /\ Serves(q, "up")

-----------------------------------------------------------------------------
Execution(q, p) ==
  \/ Prepare(q, p) \/ ExecuteFails(q, p)
  \/ \E r \in {"done", "error"} : Execute(q, p, r)

Finishing(q, p) ==
  \/ ReadSession(q, p) \/ NoBranch(q, p)
  \/ CreatePullRequest(q, p) \/ PullRequestFails(q, p) \/ Finish(q, p)

Supervision(q, p) == ExecutionTimeout(q, p) \/ Release(q, p)

Polling(q) == Poll(q) \/ PollEnds(q) \/ ClaimPipeline(q) \/ StartExecution(q)

Stopping(q) == StopReads(q) \/ Drained(q)

Next ==
  \/ \E p \in Pipelines : CreateIssuePipeline(p)
  \/ \E q \in Procs : \/ Polling(q) \/ Stopping(q)
                       \/ Stop(q) \/ Exit(q) \/ Crash(q) \/ Restart(q)
                       \/ \E p \in Pipelines :
                            Execution(q, p) \/ Finishing(q, p) \/ Supervision(q, p)

Spec == Init /\ [][Next]_vars

(* The ticker polls, goroutines run and time passes.  An execution may hang *)
(* for ever, and nothing creates a row, stops or restarts a process.        *)
Fairness ==
  \A q \in Procs :
    /\ WF_vars(Polling(q)) /\ WF_vars(Stopping(q))
    /\ \A p \in Pipelines : WF_vars(Finishing(q, p)) /\ WF_vars(Supervision(q, p))

FairSpec == Spec /\ Fairness

-----------------------------------------------------------------------------
TypeOK ==
  /\ status \in [Pipelines -> {"none", "pending", "running", "done", "error"}]
  /\ pr \subseteq Pipelines /\ told \subseteq Pipelines
  /\ \A q \in Procs :
       /\ poll[q].pc \in {"idle", "claim", "acquire"}
       /\ sem[q] \in 0 .. MaxConcurrent /\ running[q] \in 0 .. MaxConcurrent
       /\ service[q] \in {"up", "stopping", "draining", "stopped", "down"}
       /\ \A p \in Pipelines :
            /\ job[q][p].outer \in {"none", "wait", "leave", "count", "gone"}
            /\ job[q][p].inner \in {"none", "prepare", "execute", "read", "pull", "finish", "gone"}
            /\ job[q][p].sent \in {"none", "nil", "err"}
  /\ faults \in 0 .. MaxFaults

(* A claimed row finds a place in the semaphore (poll, l. 144), although    *)
(* the number of places comes from another counter and both are given back  *)
(* by other goroutines: no row is marked with "Failed to acquire execution  *)
(* slot".                                                                   *)
SlotAvailable == \A q \in Procs : poll[q].pc = "acquire" => sem[q] < MaxConcurrent

(* Two processes that read the same pending row, timeouts, stops and        *)
(* restarts never lead to two pull requests for one row (claimPipeline).    *)
OnePullRequest == \A p \in Pipelines : opened[p] <= 1

(* When Stop has returned, no poll is under way, no supervising goroutine   *)
(* is left, and no row that this process executed is still running.         *)
StoppedIsIdle ==
  \A q \in Procs : service[q] = "stopped" =>
    /\ poll[q].pc = "idle"
    /\ \A p \in Pipelines : /\ job[q][p].outer \in {"none", "gone"}
                             /\ faults = 0 /\ job[q][p].outer = "gone" => status[p] # "running"

(* A pull request that executePipeline has opened is recorded in the row    *)
(* once the goroutine has ended, even if the timeout wrote 'error' in       *)
(* between; what the row records was opened (l. 388-397), and a row with    *)
(* the message "No branch created" records none (l. 412-414).               *)
PullRequestRecorded ==
  \A p \in Pipelines :
    /\ p \in pr => opened[p] > 0 /\ p \notin told
    /\ status[p] = "done" => p \in pr
    /\ \A q \in Procs : faults = 0 /\ opened[p] > 0 /\ job[q][p].inner = "gone" => p \in pr

(* While some process is up, a pending row is taken, although executions    *)
(* may hang: the timeout frees their places.                                *)
PendingIsTaken ==
  \A p \in Pipelines :
    status[p] = "pending" ~> (status[p] # "pending" \/ \A q \in Procs : service[q] # "up")

(* A row that is running is settled, by the result, the timeout or the stop *)
(* of its process, unless a statement failed or a process died.             *)
RunningSettles ==
  \A p \in Pipelines : status[p] = "running" ~> (status[p] \in {"done", "error"} \/ faults > 0)

(* What holds of rows, polls and goroutines in every state: a place for     *)
(* every claimed row, one pull request for each, and nothing at work behind *)
(* a Stop that has returned.                                                *)
PipelineInv == TypeOK /\ SlotAvailable /\ OnePullRequest /\ StoppedIsIdle
=============================================================================
