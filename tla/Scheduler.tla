------------------------------ MODULE Scheduler ------------------------------
(***************************************************************************)
(* The cron scheduler of the bot (bot/scheduler): every process polls the  *)
(* due rows of agent_schedules, claims them by moving next_run_at, and     *)
(* runs each claim in a goroutine of its own (executeWithTimeout) beside   *)
(* the goroutine that does the work (executeSchedule).                     *)
(*                                                                         *)
(* Time is kept relative: wait[s] is what is left until next_run_at, due   *)
(* the active rows whose next_run_at is over, in its order.  A row that is *)
(* rewritten gets a next_run_at in the future, so the claim's comparison   *)
(* with the value that was read succeeds exactly if the row was not        *)
(* rewritten since.                                                        *)
(***************************************************************************)
EXTENDS Integers, Sequences, SequencesExt, FiniteSets

CONSTANTS
  Schedules,
  Procs,            \* processes that run the scheduler
  Jobs,             \* goroutines: bound on executions at one time
  MaxConcurrent,    \* maxConcurrent
  Period,           \* interval of the cron expressions, in ticks of the clock
  ClaimExtension,   \* claimExtensionMs
  Timeout,          \* executionTimeout
  FailureLimit,     \* failures after which a schedule is disabled
  MaxFaults,        \* bound on failed statements and crashes
  Toggles,          \* schedules that the dashboard may switch
  Stops             \* processes that may be stopped

ASSUME SchedulerAssumption ==
  /\ MaxConcurrent \in Nat \ {0} /\ FailureLimit \in Nat \ {0}
  /\ Timeout \in Nat \ {0} /\ ClaimExtension \in Nat \ {0}
  /\ Period \in Nat /\ Period > ClaimExtension
  /\ MaxFaults \in Nat /\ IsFiniteSet(Schedules)
  /\ Toggles \subseteq Schedules /\ Stops \subseteq Procs

VARIABLES
  clock,      \* time within the period; the cron expressions fire at 0
  active,     \* is_active
  wait,       \* time until next_run_at, 0 if it is over
  due,        \* active rows whose next_run_at is over, ORDER BY next_run_at
  failures,   \* failure_count, up to FailureLimit
  poll,       \* poll of each process: pc, slots, rows left, rows not rewritten
  sem,        \* length of the channel semaphore
  running,    \* the counter running
  job,        \* the goroutines of an execution
  service,    \* up, stopping, draining, stopped, down
  faults

rows == <<active, wait, due, failures>>
slots == <<sem, running>>
vars == <<clock, rows, poll, slots, job, service, faults>>

Idle == [pc |-> "idle", slots |-> 0, list |-> <<>>, fresh |-> {}]
Free == [sched |-> "none", proc |-> "none", outer |-> "free", inner |-> "free",
         age |-> 0, own |-> "none", sent |-> "none"]

Init ==
  /\ clock = Period - 1
  /\ active = [s \in Schedules |-> TRUE]
  /\ wait = [s \in Schedules |-> 1]
  /\ due = <<>>
  /\ failures = [s \in Schedules |-> 0]
  /\ poll = [p \in Procs |-> Idle]
  /\ sem = [p \in Procs |-> 0]
  /\ running = [p \in Procs |-> 0]
  /\ job = [j \in Jobs |-> Free]
  /\ service = [p \in Procs |-> "up"]
  /\ faults = 0

Fault == faults < MaxFaults /\ faults' = faults + 1
Least(m, n) == IF m < n THEN m ELSE n

(* timeoutCtx is done: the time is over, executeWithTimeout has gone on, or *)
(* the scheduler was stopped.                                               *)
Over(j) == job[j].age >= Timeout \/ job[j].outer # "wait" \/ service[job[j].proc] # "up"

(* A job is over when both goroutines have ended.                           *)
Becomes(j, new) ==
  job' = [job EXCEPT ![j] = IF new.outer = "done" /\ new.inner = "gone" THEN Free ELSE new]

(* executeSchedule returns; the result is sent to executeWithTimeout, whose *)
(* select may still prefer the timeout.                                     *)
Returns(j, result) ==
  Becomes(j, [job[j] EXCEPT !.inner = "gone", !.sent = result, !.own = "none"])

Leaves(j, pc) == Becomes(j, [job[j] EXCEPT !.outer = pc, !.age = 0, !.sent = "none"])

-----------------------------------------------------------------------------
(* Rows                                                                     *)

(* The next multiple of the period, after now.                              *)
ComputeNextRunAt == Period - clock

Touched(s) == [p \in Procs |-> [poll[p] EXCEPT !.fresh = @ \ {s}]]

Reschedule(s, delay) ==
  /\ wait' = [wait EXCEPT ![s] = delay]
  /\ due' = RemoveFirst(due, s)

UpdateScheduleAfterRun(s, result) ==
  /\ Reschedule(s, ComputeNextRunAt)
  /\ failures' = [failures EXCEPT ![s] =
                    IF result = "error" THEN Least(failures[s] + 1, FailureLimit) ELSE 0]
  /\ poll' = Touched(s)
  /\ UNCHANGED active

(* An UpdateScheduleAfterRun whose error is only logged.                    *)
LostUpdate == UNCHANGED <<rows, poll>>

(* is_active = false; next_run_at keeps its value.                          *)
SwitchOff(s) ==
  /\ active' = [active EXCEPT ![s] = FALSE]
  /\ due' = RemoveFirst(due, s)
  /\ UNCHANGED <<wait, poll>>

(* Switching on gives a new next_run_at.                                    *)
SwitchOn(s) ==
  /\ active' = [active EXCEPT ![s] = TRUE]
  /\ Reschedule(s, ComputeNextRunAt)
  /\ poll' = Touched(s)

(* ToggleSchedule by the dashboard.                                         *)
ToggleSchedule(s) ==
  /\ s \in Toggles
  /\ (active[s] /\ SwitchOff(s)) \/ (~active[s] /\ SwitchOn(s))
  /\ UNCHANGED <<clock, failures, slots, job, service, faults>>

(* A tick of the clock.  Rows that become due are queued, in any order if   *)
(* they become due together.                                                *)
Tick ==
  /\ clock' = (clock + 1) % Period
  /\ wait' = [s \in Schedules |-> IF wait[s] = 0 THEN 0 ELSE wait[s] - 1]
  /\ \E late \in SetToSeqs({s \in Schedules : active[s] /\ wait[s] = 1}) : due' = due \o late
  /\ job' = [j \in Jobs |-> IF job[j].outer = "wait"
                            THEN [job[j] EXCEPT !.age = Least(@ + 1, Timeout)] ELSE job[j]]
  /\ UNCHANGED <<active, failures, poll, slots, service, faults>>

-----------------------------------------------------------------------------
(* poll                                                                     *)

Claiming(list, n) == [pc |-> "claim", slots |-> n, list |-> list, fresh |-> ToSet(list)]

PollNewestFirst(p) ==
  /\ service[p] = "up" /\ poll[p].pc = "idle" /\ running[p] < MaxConcurrent
  /\ due # <<>>
  /\ poll' = [poll EXCEPT ![p] = Claiming(Reverse(due), MaxConcurrent - running[p])]
  /\ UNCHANGED <<clock, rows, slots, job, service, faults>>

PollOneMore(p) ==
  /\ service[p] = "up" /\ poll[p].pc = "idle" /\ running[p] <= MaxConcurrent
  /\ due # <<>>
  /\ poll' = [poll EXCEPT ![p] = Claiming(due, MaxConcurrent - running[p] + 1)]
  /\ UNCHANGED <<clock, rows, slots, job, service, faults>>

(* GetDueSchedules; a poll that finds nothing, or fails, changes nothing.   *)
Poll(p) ==
  /\ service[p] = "up" /\ poll[p].pc = "idle" /\ running[p] < MaxConcurrent
  /\ due # <<>>
  /\ poll' = [poll EXCEPT ![p] = Claiming(due, MaxConcurrent - running[p])]
  /\ UNCHANGED <<clock, rows, slots, job, service, faults>>

PollEnds(p) ==
  /\ poll[p].pc = "claim" /\ service[p] # "up"
  /\ poll' = [poll EXCEPT ![p] = Idle]
  /\ UNCHANGED <<clock, rows, slots, job, service, faults>>

(* The next row, unless i >= slots: a row that was not claimed counts too.  *)
NextRow(pl, p) ==
  [pl EXCEPT ![p] = IF Len(@.list) = 1 \/ @.slots = 1 THEN Idle
                    ELSE [pc |-> "claim", slots |-> @.slots - 1, list |-> Tail(@.list),
                          fresh |-> @.fresh \ {Head(@.list)}]]

ClaimMatchesId(s, p) == active[s]

(* The WHERE clause of the claim: next_run_at is the one that was read.     *)
ClaimMatches(s, p) == s \in poll[p].fresh /\ active[s]

(* A claim that fails may have been executed all the same.                  *)
ClaimSchedule(p) ==
  /\ poll[p].pc = "claim" /\ service[p] = "up"
  /\ LET s == Head(poll[p].list) IN
       \/ /\ ClaimMatches(s, p)
          /\ Reschedule(s, ClaimExtension)
          /\ poll' = [Touched(s) EXCEPT ![p].pc = "acquire"]
          /\ UNCHANGED <<active, failures, faults>>
       \/ /\ ~ClaimMatches(s, p)
          /\ poll' = NextRow(poll, p)
          /\ UNCHANGED <<rows, faults>>
       \/ /\ Fault
          /\ poll' = NextRow(poll, p)
          /\ UNCHANGED rows
       \/ /\ ClaimMatches(s, p) /\ Fault
          /\ Reschedule(s, ClaimExtension)
          /\ poll' = NextRow(Touched(s), p)
          /\ UNCHANGED <<active, failures>>
  /\ UNCHANGED <<clock, slots, job, service>>

(* The semaphore has room: an execution starts.  SlotAvailable says that it *)
(* always has, so the default branch of the select, which records a failure *)
(* for the claimed row, is not reached and has no action.                   *)
StartExecution(p) ==
  /\ poll[p].pc = "acquire" /\ sem[p] < MaxConcurrent
  /\ \E j \in Jobs : job[j] = Free
  /\ LET j == CHOOSE j \in Jobs : job[j] = Free
     IN job' = [job EXCEPT ![j] = [Free EXCEPT !.sched = Head(poll[p].list), !.proc = p,
                                               !.outer = "wait", !.inner = "prepare"]]
  /\ sem' = [sem EXCEPT ![p] = @ + 1]
  /\ running' = [running EXCEPT ![p] = @ + 1]
  /\ poll' = NextRow(poll, p)
  /\ UNCHANGED <<clock, rows, service, faults>>

-----------------------------------------------------------------------------
(* executeSchedule                                                          *)

(* Its own session row is inserted, the data are read and decrypted.        *)
Prepare(j) ==
  /\ job[j].inner = "prepare" /\ ~Over(j)
  /\ Becomes(j, [job[j] EXCEPT !.inner = "execute", !.own = "pending"])
  /\ UNCHANGED <<clock, rows, poll, slots, service, faults>>

(* executeFn returns without an error: the session that ExecuteInContainer  *)
(* has inserted for itself is settled, the one of executeSchedule is not.   *)
Execute(j) ==
  /\ job[j].inner = "execute"
  /\ Becomes(j, [job[j] EXCEPT !.inner = "read"])
  /\ UNCHANGED <<clock, rows, poll, slots, service, faults>>

(* One of its steps fails, by itself, with the database or with the         *)
(* context; the row of the schedule is updated if that statement succeeds.  *)
ExecuteFails(j) ==
  /\ \/ /\ job[j].inner \in {"prepare", "execute"}
        /\ UpdateScheduleAfterRun(job[j].sched, "error") /\ UNCHANGED faults
     \/ /\ job[j].inner = "read" /\ Fault
        /\ UpdateScheduleAfterRun(job[j].sched, "error")
     \/ /\ job[j].inner \in {"prepare", "execute", "read"} /\ Fault
        /\ LostUpdate
  /\ Returns(j, "err")
  /\ UNCHANGED <<clock, slots, service>>

(* The status is read from the session row that executeSchedule inserted.   *)
FinishedStatus(j) == IF job[j].own = "done" THEN "done" ELSE "error"

Finish(j) ==
  /\ job[j].inner = "read"
  /\ \/ UpdateScheduleAfterRun(job[j].sched, FinishedStatus(j)) /\ UNCHANGED faults
     \/ LostUpdate /\ Fault
  /\ Returns(j, "nil")
  /\ UNCHANGED <<clock, slots, service>>

-----------------------------------------------------------------------------
(* executeWithTimeout                                                       *)

(* An error was received or the time is over: markFailure.                  *)
MarkFailure(j) ==
  /\ job[j].outer = "wait" /\ (job[j].sent = "err" \/ Over(j))
  /\ \/ /\ UpdateScheduleAfterRun(job[j].sched, "error") /\ UNCHANGED faults
        /\ Leaves(j, "disable")
     \/ LostUpdate /\ Fault /\ Leaves(j, "leave")
  /\ UNCHANGED <<clock, slots, service>>

Disable(j) ==
  /\ job[j].outer = "disable"
  /\ \/ failures[job[j].sched] >= FailureLimit /\ SwitchOff(job[j].sched) /\ UNCHANGED faults
     \/ failures[job[j].sched] < FailureLimit /\ UNCHANGED <<active, wait, due, poll, faults>>
     \/ Fault /\ UNCHANGED <<active, wait, due, poll>>
  /\ Leaves(j, "leave")
  /\ UNCHANGED <<clock, failures, slots, service>>

ReleaseSlotTwice(j) ==
  /\ job[j].outer \in {"disable", "leave"} \/ (job[j].outer = "wait" /\ job[j].sent = "nil")
  /\ Leaves(j, IF job[j].outer = "disable" THEN "leave" ELSE "count")
  /\ sem' = [sem EXCEPT ![job[j].proc] = @ - 1]
  /\ UNCHANGED <<clock, rows, poll, running, service, faults>>

(* The deferred function: the semaphore first, then the counter.            *)
ReleaseSlot(j) ==
  /\ job[j].outer = "leave" \/ (job[j].outer = "wait" /\ job[j].sent = "nil")
  /\ Leaves(j, "count")
  /\ sem' = [sem EXCEPT ![job[j].proc] = @ - 1]
  /\ UNCHANGED <<clock, rows, poll, running, service, faults>>

ReleaseCount(j) ==
  /\ job[j].outer = "count"
  /\ Leaves(j, "done")
  /\ running' = [running EXCEPT ![job[j].proc] = @ - 1]
  /\ UNCHANGED <<clock, rows, poll, sem, service, faults>>

-----------------------------------------------------------------------------
(* Shutdown, death and start                                                *)

Forgotten(p) ==
  /\ job' = [j \in Jobs |-> IF job[j].proc = p THEN Free ELSE job[j]]
  /\ poll' = [poll EXCEPT ![p] = Idle]
  /\ sem' = [sem EXCEPT ![p] = 0]
  /\ running' = [running EXCEPT ![p] = 0]
  /\ service' = [service EXCEPT ![p] = "down"]

Serves(p, next) ==
  /\ service' = [service EXCEPT ![p] = next]
  /\ UNCHANGED <<clock, rows, poll, slots, job, faults>>

(* main cancels the context that every poll and execution derives from.     *)
Stop(p) == p \in Stops /\ service[p] = "up" /\ Serves(p, "stopping")

(* Scheduler.Stop reads the counter and waits only if it is not zero.       *)
StopReads(p) ==
  /\ service[p] = "stopping"
  /\ Serves(p, IF running[p] > 0 THEN "draining" ELSE "stopped")

Drained(p) == service[p] = "draining" /\ running[p] = 0 /\ Serves(p, "stopped")

(* main returns, or its timeouts end the wait.                              *)
Exit(p) ==
  /\ service[p] \in {"stopping", "draining", "stopped"}
  /\ Forgotten(p)
  /\ UNCHANGED <<clock, rows, faults>>

Crash(p) ==
  /\ service[p] = "up" /\ Fault
  /\ Forgotten(p)
  /\ UNCHANGED <<clock, rows>>

Restart(p) == service[p] = "down" /\ Serves(p, "up")

-----------------------------------------------------------------------------
Execution(j) ==
  Prepare(j) \/ Execute(j) \/ ExecuteFails(j) \/ Finish(j)

Supervision(j) == MarkFailure(j) \/ Disable(j) \/ ReleaseSlot(j) \/ ReleaseCount(j)

Polling(p) == Poll(p) \/ PollEnds(p) \/ ClaimSchedule(p) \/ StartExecution(p)

Next ==
  \/ Tick
  \/ \E s \in Schedules : ToggleSchedule(s)
  \/ \E p \in Procs : \/ Polling(p)
                       \/ Stop(p) \/ StopReads(p) \/ Drained(p) \/ Exit(p)
                       \/ Crash(p) \/ Restart(p)
  \/ \E j \in Jobs : Execution(j) \/ Supervision(j)

Spec == Init /\ [][Next]_vars

(* Time passes, the ticker polls and goroutines run; an execution ends by   *)
(* itself or by its container's timeout.  Nothing restarts a process.       *)
Fairness ==
  /\ WF_vars(Tick)
  /\ \A p \in Procs : WF_vars(Polling(p))
  /\ \A j \in Jobs : WF_vars(Execution(j)) /\ WF_vars(Supervision(j))

FairSpec == Spec /\ Fairness

-----------------------------------------------------------------------------
(* Types of rows, polls and jobs; the semaphore and the counter stay within *)
(* MaxConcurrent although they are released by other goroutines.            *)
TypeOK ==
  /\ clock \in 0 .. Period - 1
  /\ active \in [Schedules -> BOOLEAN]
  /\ wait \in [Schedules -> 0 .. Period]
  /\ due \in Seq(Schedules)
  /\ failures \in [Schedules -> 0 .. FailureLimit]
  /\ poll \in [Procs -> [pc : {"idle", "claim", "acquire"}, slots : 0 .. MaxConcurrent,
                         list : Seq(Schedules), fresh : SUBSET Schedules]]
  /\ sem \in [Procs -> 0 .. MaxConcurrent]
  /\ running \in [Procs -> 0 .. MaxConcurrent]
  /\ job \in [Jobs -> [sched : Schedules \cup {"none"}, proc : Procs \cup {"none"},
                       outer : {"free", "wait", "disable", "leave", "count", "done"},
                       inner : {"free", "prepare", "execute", "read", "gone"},
                       age : 0 .. Timeout, own : {"none", "pending", "done"},
                       sent : {"none", "nil", "err"}]]
  /\ service \in [Procs -> {"up", "stopping", "draining", "stopped", "down"}]
  /\ faults \in 0 .. MaxFaults

(* A claimed row always finds a free slot: the places of a poll are counted *)
(* from the counter, executions take the semaphore, and the two are updated *)
(* in separate steps.  Otherwise the run would be dropped and recorded as a *)
(* failure without having been tried (the default branch of poll).          *)
SlotAvailable == \A p \in Procs : poll[p].pc = "acquire" => sem[p] < MaxConcurrent

(* Processes that have read the same due row do not both claim it: a claim  *)
(* succeeds only on an active row whose next_run_at is still over.          *)
ClaimedIsDue ==
  [][\A p \in Procs : poll[p].pc = "claim" /\ poll'[p].pc = "acquire" =>
       LET s == Head(poll[p].list) IN active[s] /\ wait[s] = 0]_vars

Starts(s) == \E p \in Procs : sem'[p] > sem[p] /\ Head(poll[p].list) = s

(* A schedule that stays active runs again and again, although the process  *)
(* that claimed it may crash before it records anything: the claim ends.    *)
(* A process that stops and starts for ever may take every claim with it.   *)
Flaps(p) == []<>(service[p] = "up") /\ []<>(service[p] # "up")
RunsAgain ==
  \A s \in Schedules : \/ []<><<Starts(s)>>_vars \/ []<>~active[s]
                       \/ []<>(\A p \in Procs : service[p] # "up")
                       \/ \E p \in Procs : Flaps(p)

(* Types, bounds of the two counts of executions, and a place for every row *)
(* that was claimed.                                                        *)
SchedulerInv == TypeOK /\ SlotAvailable
=============================================================================
