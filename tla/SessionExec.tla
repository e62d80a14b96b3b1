----------------------------- MODULE SessionExec -----------------------------
(***************************************************************************)
(* The execution of a session by the container orchestrator of the bot     *)
(* (bot/orchestrator): ExecuteInContainer, the goroutines it starts, the   *)
(* cancel watcher, the clarification dialogue and the reconciliation at    *)
(* start-up, with Docker and the dashboard as environment.                 *)
(*                                                                         *)
(* One step is one SQL statement, one Docker call or one critical section  *)
(* of the timer.  Time is abstracted: a timer, a deadline or a threshold   *)
(* that is pending may be over at any moment.                              *)
(***************************************************************************)
EXTENDS Integers, Sequences

CONSTANTS
  Sessions,       \* ids of the sessions rows
  Interactive,    \* those whose provider is in interactiveProviders
  MaxAsk,         \* maxClarificationsPerSession
  MaxFaults,      \* bound on failed statements and calls, ended contexts, crashes
  Cancels,        \* sessions that the dashboard may cancel
  Answers         \* sessions whose questions the dashboard may answer

ASSUME SessionAssumption ==
  /\ Interactive \subseteq Sessions
  /\ Cancels \subseteq Sessions /\ Answers \subseteq Sessions
  /\ MaxAsk \in Nat /\ MaxFaults \in Nat

VARIABLES
  row,        \* sessions.status, "absent" before the insert
  clar,       \* statuses of the session's clarifications, by asked_at
  container,  \* the container of the session, as Docker sees it
  gone,       \* ended containers that AutoRemove has removed
  exec,       \* where ExecuteInContainer is
  seen,       \* the status its last read returned, "none" for an error
  registry,   \* SessionRegistry: sessions with a container of this process
  timer,      \* ContainerTimer and the goroutine that waits for it
  reader,     \* the goroutine that reads the attached output
  stall,      \* the goroutine that looks for questions
  asked,      \* clarificationCount
  question,   \* the last lines of output look like a question
  expired,    \* sessions whose request context has ended
  up,         \* is the process running
  stuck,      \* rows that start-up has yet to reconcile
  faults,
  \* history
  inTime      \* cancelled before the final read of the status

rows == <<row, clar>>
docker == <<container, gone>>
goroutines == <<exec, seen, registry, timer, reader, stall, asked, question>>
process == <<expired, up, stuck, faults>>
history == <<inTime>>
vars == <<rows, docker, goroutines, process, history>>

Terminal == {"done", "error", "cancelled"}
Ended    == {"zero", "nonzero"}
Timer == [set: BOOLEAN,        \* ct.timer is not nil
          due: BOOLEAN,        \* it has not expired
          calls: Nat,          \* expired, the callback waits for the mutex
          cancelled: BOOLEAN,
          closed: BOOLEAN,     \* the channel done is closed
          kills: BOOLEAN]      \* the goroutine that waits for done is there
NoTimer  == [set |-> FALSE, due |-> FALSE, calls |-> 0, cancelled |-> FALSE,
             closed |-> FALSE, kills |-> FALSE]

Init ==
  /\ row = [s \in Sessions |-> "absent"]
  /\ clar = [s \in Sessions |-> <<>>]
  /\ container = [s \in Sessions |-> "none"]
  /\ gone = {}
  /\ exec = [s \in Sessions |-> "none"]
  /\ seen = [s \in Sessions |-> "none"]
  /\ registry = {}
  /\ timer = [s \in Sessions |-> NoTimer]
  /\ reader = [s \in Sessions |-> "none"]
  /\ stall = [s \in Sessions |-> "none"]
  /\ asked = [s \in Sessions |-> 0]
  /\ question = [s \in Sessions |-> FALSE]
  /\ expired = {}
  /\ up = TRUE
  /\ stuck = {}
  /\ faults = 0
  /\ inTime = {}

Fault == faults < MaxFaults /\ faults' = faults + 1

-----------------------------------------------------------------------------
(* Docker                                                                   *)

(* ContainerKill: no effect (an error) unless the container runs.           *)
Kill(s) ==
  container' = IF container[s] = "running" THEN [container EXCEPT ![s] = "nonzero"]
               ELSE container

(* The agent ends, or dies, by itself.                                      *)
ContainerExits(s, code) ==
  /\ container[s] = "running"
  /\ container' = [container EXCEPT ![s] = code]
  /\ UNCHANGED <<rows, gone, goroutines, process, history>>

AutoRemove(s) ==
  /\ container[s] \in Ended /\ s \notin gone
  /\ gone' = gone \cup {s}
  /\ UNCHANGED <<rows, container, goroutines, process, history>>

-----------------------------------------------------------------------------
(* ContainerTimer                                                           *)

NewContainerTimer == [set |-> TRUE, due |-> TRUE, calls |-> 0, cancelled |-> FALSE,
                      closed |-> FALSE, kills |-> TRUE]

ResumeForgotten(t) == IF t.cancelled \/ ~t.set THEN t ELSE [t EXCEPT !.due = TRUE]

Pause(t)  == IF t.cancelled \/ ~t.set THEN t ELSE [t EXCEPT !.set = FALSE, !.due = FALSE]
Resume(t) == IF t.cancelled \/ t.set THEN t ELSE [t EXCEPT !.set = TRUE, !.due = TRUE]
CancelTimer(t) == [t EXCEPT !.cancelled = TRUE, !.set = FALSE, !.due = FALSE]
Expire(t) == [t EXCEPT !.due = FALSE, !.calls = t.calls + 1]
Call(t)   == [t EXCEPT !.calls = t.calls - 1, !.closed = t.closed \/ ~t.cancelled]

TimerExpires(s) ==
  /\ timer[s].due
  /\ timer' = [timer EXCEPT ![s] = Expire(timer[s])]
  /\ UNCHANGED <<rows, docker, exec, seen, registry, reader, stall, asked, question,
                 process, history>>

(* What is left when the process is gone.                                   *)
Dies ==
  /\ up' = FALSE
  /\ exec' = [s \in Sessions |-> IF exec[s] = "none" THEN "none" ELSE "ended"]
  /\ stall' = [s \in Sessions |-> IF stall[s] = "none" THEN "none" ELSE "ended"]
  /\ reader' = [s \in Sessions |-> IF reader[s] = "none" THEN "none" ELSE "eof"]
  /\ timer' = [s \in Sessions |-> NoTimer]
  /\ question' = [s \in Sessions |-> FALSE]
  /\ registry' = {}
  /\ stuck' = {}
  /\ UNCHANGED <<rows, docker, seen, asked, expired, history>>

(* The callback closes done, unless the timer was cancelled.  It does not   *)
(* know whether it has done so before: closing it again is a panic.         *)
TimerCallback(s) ==
  /\ timer[s].calls > 0
  /\ IF timer[s].closed /\ ~timer[s].cancelled
     THEN Dies /\ faults' = faults + 1
     ELSE /\ timer' = [timer EXCEPT ![s] = Call(timer[s])]
          /\ UNCHANGED <<rows, docker, exec, seen, registry, reader, stall, asked,
                         question, process, history>>

TimerKills(s) ==
  /\ timer[s].closed /\ timer[s].kills
  /\ timer' = [timer EXCEPT ![s] = [timer[s] EXCEPT !.kills = FALSE]]
  /\ Kill(s)
  /\ UNCHANGED <<rows, gone, exec, seen, registry, reader, stall, asked, question,
                 process, history>>

-----------------------------------------------------------------------------
(* ExecuteInContainer                                                       *)

(* A statement under the request's context: it writes, or it fails.         *)
Write(s, newRow) ==
  \/ s \notin expired /\ row' = newRow /\ UNCHANGED faults
  \/ s \in expired /\ UNCHANGED <<row, faults>>
  \/ s \notin expired /\ UNCHANGED row /\ Fault

UpdateSessionResult(s, result) == Write(s, [row EXCEPT ![s] = result])

UpdateSessionResultIfNotTerminal(s, result) ==
  Write(s, IF row[s] \in Terminal THEN row ELSE [row EXCEPT ![s] = result])

(* ExecuteInContainer returns: its deferred calls.                          *)
Returns(s) ==
  /\ exec' = [exec EXCEPT ![s] = "ended"]
  /\ registry' = registry \ {s}
  /\ timer' = [timer EXCEPT ![s] = CancelTimer(timer[s])]

(* The requests that pass the validation of repository and provider.        *)
CreateSession(s) ==
  /\ up /\ stuck = {} /\ row[s] = "absent"
  /\ row' = [row EXCEPT ![s] = "running"]
  /\ exec' = [exec EXCEPT ![s] = "create"]
  /\ UNCHANGED <<clar, docker, seen, registry, timer, reader, stall, asked, question,
                 process, history>>

ContainerCreate(s) ==
  /\ exec[s] = "create"
  /\ \/ /\ s \notin expired
        /\ container' = [container EXCEPT ![s] = "created"]
        /\ exec' = [exec EXCEPT ![s] = "start"]
        /\ registry' = registry \cup {s}
        /\ UNCHANGED <<row, timer, faults>>
     \/ /\ UpdateSessionResult(s, "error")
        /\ Returns(s)
        /\ UNCHANGED container
  /\ UNCHANGED <<clar, gone, seen, reader, stall, asked, question, expired,
                 up, stuck, history>>

(* ContainerStart, and for an interactive provider ContainerAttach.         *)
ContainerStart(s) ==
  /\ exec[s] = "start"
  /\ \/ /\ s \notin expired
        /\ container' = [container EXCEPT ![s] = "running"]
        /\ timer' = [timer EXCEPT ![s] = NewContainerTimer]
        /\ \/ /\ s \in Interactive
              /\ exec' = [exec EXCEPT ![s] = "handle"]
              /\ reader' = [reader EXCEPT ![s] = "reading"]
              /\ stall' = [stall EXCEPT ![s] = "watch"]
              /\ UNCHANGED faults
           \/ /\ s \notin Interactive
              /\ exec' = [exec EXCEPT ![s] = "handle"]
              /\ UNCHANGED <<reader, stall, faults>>
           \/ /\ Fault   \* ContainerAttach or ContainerLogs
              /\ exec' = [exec EXCEPT ![s] = "wait"]
              /\ UNCHANGED <<reader, stall>>
        /\ UNCHANGED <<row, registry>>
     \/ /\ UpdateSessionResult(s, "error")
        /\ Returns(s)
        /\ UNCHANGED <<container, reader, stall>>
  /\ UNCHANGED <<clar, gone, seen, asked, question, expired, up, stuck, history>>

(* handleNonInteractiveContainer returns when the output ends, which it     *)
(* does with the container or with the context; handleInteractiveContainer  *)
(* when both of its goroutines have ended.                                  *)
HandlerReturns(s) ==
  /\ exec[s] = "handle"
  /\ \/ /\ s \notin Interactive /\ (container[s] \in Ended \/ s \in expired)
        /\ UNCHANGED faults
     \/ s \notin Interactive /\ Fault
     \/ s \in Interactive /\ reader[s] = "eof" /\ stall[s] = "ended" /\ UNCHANGED faults
  /\ exec' = [exec EXCEPT ![s] = "wait"]
  /\ UNCHANGED <<rows, docker, seen, registry, timer, reader, stall, asked, question,
                 expired, up, stuck, history>>

(* ContainerWait: an error if the container has been removed meanwhile, if  *)
(* the context is over, or if Docker fails (the write may fail with it).    *)
ContainerWait(s) ==
  /\ exec[s] = "wait"
  /\ \/ /\ container[s] \in Ended /\ s \notin gone
        /\ exec' = [exec EXCEPT ![s] = "read"]
        /\ timer' = [timer EXCEPT ![s] = CancelTimer(timer[s])]
        /\ UNCHANGED <<row, registry, faults>>
     \/ /\ s \in gone \/ s \in expired
        /\ UpdateSessionResult(s, "error")
        /\ Returns(s)
     \/ /\ Fault
        /\ row' \in {row, [row EXCEPT ![s] = "error"]}
        /\ Returns(s)
  /\ UNCHANGED <<clar, docker, seen, reader, stall, asked, question, expired,
                 up, stuck, history>>

GetSessionByID(s) ==
  /\ exec[s] = "read"
  /\ exec' = [exec EXCEPT ![s] = "finish"]
  /\ \/ s \notin expired /\ seen' = [seen EXCEPT ![s] = row[s]] /\ UNCHANGED faults
     \/ s \in expired /\ UNCHANGED <<seen, faults>>
     \/ s \notin expired /\ Fault /\ UNCHANGED seen
  /\ UNCHANGED <<rows, docker, registry, timer, reader, stall, asked, question,
                 expired, up, stuck, history>>

FinalStatusOfExit(s) == IF container[s] = "zero" THEN "done" ELSE "error"
FinalStatusIgnoresExit(s) == IF seen[s] = "cancelling" THEN "cancelled" ELSE "done"

FinalStatus(s) ==
  CASE seen[s] = "cancelling" -> "cancelled"
    [] seen[s] = "waiting_for_clarification" -> "error"
    [] OTHER -> IF container[s] = "zero" THEN "done" ELSE "error"

Finish(s) ==
  /\ exec[s] = "finish"
  /\ UpdateSessionResultIfNotTerminal(s, FinalStatus(s))
  /\ Returns(s)
  /\ UNCHANGED <<clar, docker, seen, reader, stall, asked, question, expired,
                 up, stuck, history>>

-----------------------------------------------------------------------------
(* handleInteractiveContainer                                               *)

(* Output arrives; its last lines look like a question, or do not.          *)
Output(s, q) ==
  /\ reader[s] = "reading" /\ container[s] = "running"
  /\ question' = [question EXCEPT ![s] = q]
  /\ UNCHANGED <<rows, docker, exec, seen, registry, timer, reader, stall, asked,
                 process, history>>

ReaderEnds(s) ==
  /\ reader[s] = "reading"
  /\ \/ container[s] \in Ended /\ UNCHANGED faults
     \/ Fault
  /\ reader' = [reader EXCEPT ![s] = "eof"]
  /\ UNCHANGED <<rows, docker, exec, seen, registry, timer, stall, asked, question,
                 expired, up, stuck, history>>

(* A tick finds the output stalled at a question.  The tick may be chosen   *)
(* although the output has ended or the context is over.                    *)
CreateClarification(s) ==
  /\ stall[s] = "watch" /\ asked[s] < MaxAsk /\ question[s]
  /\ asked' = [asked EXCEPT ![s] = asked[s] + 1]
  /\ \/ /\ s \notin expired
        /\ clar' = [clar EXCEPT ![s] = Append(clar[s], "pending")]
        /\ stall' = [stall EXCEPT ![s] = "asked"]
        /\ UNCHANGED faults
     \/ s \in expired /\ UNCHANGED <<clar, stall, faults>>
     \/ s \notin expired /\ Fault /\ UNCHANGED <<clar, stall>>
  /\ UNCHANGED <<row, docker, exec, seen, registry, timer, reader, question, expired,
                 up, stuck, history>>

PauseTimer(s) ==
  /\ stall[s] = "asked"
  /\ stall' = [stall EXCEPT ![s] = "waiting"]
  /\ timer' = [timer EXCEPT ![s] = Pause(timer[s])]
  /\ UNCHANGED <<rows, docker, exec, seen, registry, reader, asked, question, process,
                 history>>

LastAsked(s) == clar[s][Len(clar[s])]
SetLast(s, v) == [clar EXCEPT ![s] = [clar[s] EXCEPT ![Len(clar[s])] = v]]

(* awaitClarificationAnswer, the answer is there: it is written to the      *)
(* container's input, whether or not anybody reads it.                      *)
AnswerArrives(s) ==
  /\ stall[s] = "waiting" /\ s \notin expired /\ LastAsked(s) = "answered"
  /\ stall' = [stall EXCEPT ![s] = "resume"]
  /\ UNCHANGED <<rows, docker, exec, seen, registry, timer, reader, asked, question,
                 process, history>>

AwaitLeavesPending(s) ==
  /\ stall[s] = "waiting"
  /\ \/ s \notin expired /\ UNCHANGED <<clar, faults>>
     \/ LastAsked(s) = "expired" /\ UNCHANGED <<clar, faults>>
     \/ s \in expired /\ UNCHANGED <<clar, faults>>
     \/ s \notin expired /\ Fault /\ UNCHANGED clar
  /\ stall' = [stall EXCEPT ![s] = "ended"]
  /\ Kill(s)
  /\ UNCHANGED <<row, gone, exec, seen, registry, timer, reader, asked, question,
                 expired, up, stuck, history>>

AwaitWithoutDeadline(s) ==
  /\ stall[s] = "waiting"
  /\ \/ LastAsked(s) = "expired" /\ UNCHANGED <<clar, faults>>
     \/ s \in expired /\ UNCHANGED <<clar, faults>>
     \/ s \notin expired /\ Fault /\ UNCHANGED clar
  /\ stall' = [stall EXCEPT ![s] = "ended"]
  /\ Kill(s)
  /\ UNCHANGED <<row, gone, exec, seen, registry, timer, reader, asked, question,
                 expired, up, stuck, history>>

(* It gives up: the deadline is over and the clarification expired, without *)
(* looking at it again; it was expired by the watcher; it cannot be read;   *)
(* or the context is over.  The container is killed.                        *)
AwaitGivesUp(s) ==
  /\ stall[s] = "waiting"
  /\ \/ s \notin expired /\ clar' = SetLast(s, "expired") /\ UNCHANGED faults
     \/ LastAsked(s) = "expired" /\ UNCHANGED <<clar, faults>>
     \/ s \in expired /\ UNCHANGED <<clar, faults>>
     \/ s \notin expired /\ Fault /\ UNCHANGED clar
  /\ stall' = [stall EXCEPT ![s] = "ended"]
  /\ Kill(s)
  /\ UNCHANGED <<row, gone, exec, seen, registry, timer, reader, asked, question,
                 expired, up, stuck, history>>

ResumeTimer(s) ==
  /\ stall[s] = "resume"
  /\ stall' = [stall EXCEPT ![s] = "watch"]
  /\ timer' = [timer EXCEPT ![s] = Resume(timer[s])]
  /\ question' = [question EXCEPT ![s] = FALSE]
  /\ UNCHANGED <<rows, docker, exec, seen, registry, reader, asked, process, history>>

WatchEnds(s) ==
  /\ stall[s] = "watch"
  /\ reader[s] = "eof" \/ s \in expired
  /\ stall' = [stall EXCEPT ![s] = "ended"]
  /\ UNCHANGED <<rows, docker, exec, seen, registry, timer, reader, asked, question,
                 process, history>>

-----------------------------------------------------------------------------
(* runCancelWatcher, the dashboard, the chat                                *)

WatcherKills(s) ==
  /\ up /\ s \in registry /\ row[s] = "cancelling"
  /\ container[s] = "running"
  /\ Kill(s)
  /\ UNCHANGED <<rows, gone, goroutines, process, history>>

ExpireStaleClarifications(s) ==
  /\ up /\ clar[s] # <<>> /\ LastAsked(s) = "pending" /\ stall[s] # "asked"
  /\ clar' = SetLast(s, "expired")
  /\ UNCHANGED <<row, docker, goroutines, process, history>>

(* CancelSession of the data layer: no condition on the status.             *)
CancelSession(s) ==
  /\ s \in Cancels /\ row[s] \notin {"absent", "cancelling"}
  /\ row' = [row EXCEPT ![s] = "cancelling"]
  /\ inTime' = IF exec[s] \in {"create", "start", "handle", "wait", "read"}
               THEN inTime \cup {s} ELSE inTime
  /\ UNCHANGED <<clar, docker, goroutines, process>>

(* AnswerClarification: no condition on the clarification's status.         *)
AnswerClarification(s) ==
  /\ clar' = SetLast(s, "answered")
  /\ row' = IF row[s] = "waiting_for_clarification"
                  /\ \A i \in DOMAIN clar'[s] : clar'[s][i] # "pending"
            THEN [row EXCEPT ![s] = "running"] ELSE row

DashboardAnswers(s) ==
  /\ s \in Answers /\ clar[s] # <<>> /\ LastAsked(s) # "answered"
  /\ AnswerClarification(s)
  /\ UNCHANGED <<docker, goroutines, process, history>>

-----------------------------------------------------------------------------
(* The request's context ends: shutdown, or the caller's timeout.           *)
ContextEnds(s) ==
  /\ up /\ exec[s] \notin {"none", "ended"} /\ s \notin expired
  /\ Fault
  /\ expired' = expired \cup {s}
  /\ UNCHANGED <<rows, docker, goroutines, up, stuck, history>>

Crash == up /\ Fault /\ Dies

RestartSelectsAll ==
  /\ ~up
  /\ up' = TRUE
  /\ \E S \in SUBSET {s \in Sessions : row[s] # "absent"} : stuck' = S
  /\ UNCHANGED <<rows, docker, goroutines, expired, faults, history>>

(* ReconcileStuckSessions selects the rows that are old enough and then     *)
(* writes them one by one; an error is logged and the next row follows.     *)
Restart ==
  /\ ~up
  /\ up' = TRUE
  /\ \E S \in SUBSET {s \in Sessions :
                        row[s] \in {"running", "waiting_for_clarification"}} : stuck' = S
  /\ UNCHANGED <<rows, docker, goroutines, expired, faults, history>>

Reconcile(s) ==
  /\ up /\ s \in stuck
  /\ stuck' = stuck \ {s}
  /\ \/ row' = [row EXCEPT ![s] = "error"] /\ UNCHANGED faults
     \/ Fault /\ UNCHANGED row
  /\ UNCHANGED <<clar, docker, goroutines, expired, up, history>>

-----------------------------------------------------------------------------
ExecStep(s) ==
  \/ ContainerCreate(s) \/ ContainerStart(s) \/ HandlerReturns(s)
  \/ ContainerWait(s) \/ GetSessionByID(s) \/ Finish(s)

StallStep(s) ==
  \/ CreateClarification(s) \/ PauseTimer(s) \/ AnswerArrives(s)
  \/ AwaitGivesUp(s) \/ ResumeTimer(s) \/ WatchEnds(s)

TimerStep(s) == TimerExpires(s) \/ TimerCallback(s) \/ TimerKills(s)

DockerStep(s) == AutoRemove(s) \/ \E code \in Ended : ContainerExits(s, code)

UserStep(s) == CancelSession(s) \/ DashboardAnswers(s)

Next ==
  \/ \E s \in Sessions :
       \/ CreateSession(s) \/ ExecStep(s) \/ StallStep(s) \/ TimerStep(s)
       \/ DockerStep(s) \/ UserStep(s)
       \/ ReaderEnds(s) \/ \E q \in BOOLEAN : Output(s, q)
       \/ WatcherKills(s) \/ ExpireStaleClarifications(s)
       \/ ContextEnds(s) \/ Reconcile(s)
  \/ Crash \/ Restart

Spec == Init /\ [][Next]_vars

(* Goroutines are scheduled, tickers tick, timers expire, Docker closes the *)
(* output of an ended container and removes it.  Nothing makes an agent end *)
(* by itself, a user act, a call fail, or the process start again.          *)
Fairness ==
  \A s \in Sessions :
    /\ WF_vars(ExecStep(s) /\ UNCHANGED faults) /\ WF_vars(ReaderEnds(s))
    /\ WF_vars(PauseTimer(s))
    /\ WF_vars((AnswerArrives(s) \/ AwaitGivesUp(s)) /\ UNCHANGED faults)
    /\ WF_vars(ResumeTimer(s)) /\ WF_vars(WatchEnds(s))
    /\ WF_vars(TimerExpires(s)) /\ WF_vars(TimerCallback(s)) /\ WF_vars(TimerKills(s))
    /\ WF_vars(WatcherKills(s))

FairSpec == Spec /\ Fairness
-----------------------------------------------------------------------------
(* Properties                                                               *)

ExecPc == {"none", "create", "start", "handle", "wait", "read", "finish", "ended"}
RowStatus == {"absent", "running", "cancelling", "waiting_for_clarification"} \cup Terminal

(* Type correctness of rows, containers and goroutines.                     *)
TypeOK ==
  /\ row \in [Sessions -> RowStatus]
  /\ clar \in [Sessions -> Seq({"pending", "answered", "expired"})]
  /\ container \in [Sessions -> {"none", "created", "running"} \cup Ended]
  /\ gone \subseteq Sessions
  /\ exec \in [Sessions -> ExecPc]
  /\ seen \in [Sessions -> RowStatus \cup {"none"}]
  /\ registry \subseteq Sessions
  /\ timer \in [Sessions -> Timer]
  /\ reader \in [Sessions -> {"none", "reading", "eof"}]
  /\ stall \in [Sessions -> {"none", "watch", "asked", "waiting", "resume", "ended"}]
  /\ asked \in [Sessions -> Nat]
  /\ question \in [Sessions -> BOOLEAN]
  /\ expired \subseteq Sessions
  /\ up \in BOOLEAN
  /\ stuck \subseteq Sessions
  /\ faults \in Nat
  /\ inTime \subseteq Sessions

(* The execution keeps the promise of SessionLife: created once, no result  *)
(* overwritten by another although most result writes are unconditional,    *)
(* and done only if the container ended with zero, through every failure,   *)
(* crash and restart.                                                       *)
Life == INSTANCE SessionLife WITH row <- row, container <- container
ImplementsLife == Life!Spec

(* A cancellation that was written before ExecuteInContainer's final read   *)
(* wins: the session is not reported done afterwards, although the watcher, *)
(* the exit of the agent and the answer to a question run beside it.  (When *)
(* that read fails the cancellation is overlooked.)                         *)
CancelWins == faults = 0 => \A s \in inTime : row[s] # "done"

(* While nothing has failed, a running container can be cancelled (it is    *)
(* registered) and will be stopped: its timer runs, or its expiry is being  *)
(* handled, or the goroutine that paused the timer waits for an answer,     *)
(* with a deadline.                                                         *)
ContainerIsWatched ==
  faults = 0 => \A s \in Sessions : container[s] = "running" =>
    /\ s \in registry
    /\ \/ timer[s].due \/ timer[s].calls > 0
       \/ timer[s].closed /\ timer[s].kills
       \/ stall[s] \in {"waiting", "resume"}

(* While nothing has failed, a pending clarification is the last one of its *)
(* session and the goroutine that asked it waits for it: no question is     *)
(* left open when its agent is given up.                                    *)
PendingIsAwaited ==
  faults = 0 => \A s \in Sessions : \A i \in DOMAIN clar[s] :
    clar[s][i] = "pending" => i = Len(clar[s]) /\ stall[s] \in {"asked", "waiting"}

(* Nobody is forgotten: while nothing has failed, every running container   *)
(* will be stopped and every open question is waited for.                   *)
WatchInv == ContainerIsWatched /\ PendingIsAwaited


(* Every execution settles its session, however often the agent asks and    *)
(* whoever answers, unless the process dies or a call fails.                *)
SessionEnds ==
  \A s \in Sessions :
    exec[s] \notin {"none", "ended"} ~> row[s] \in Terminal \/ ~up \/ faults > 0

-----------------------------------------------------------------------------
(* The inductive invariants behind ImplementsLife and CancelWins.           *)

LivePc == {"create", "start", "handle", "wait", "read", "finish"}

(* The row, the container and the position of ExecuteInContainer agree; the *)
(* rows that start-up is about to give up belong to executions that died.   *)
ExecInv ==
  \A s \in Sessions :
    /\ exec[s] = "none" <=> row[s] = "absent"
    /\ row[s] # "waiting_for_clarification"
    /\ exec[s] \in LivePc => up /\ row[s] \in {"running", "cancelling"}
    /\ s \in stuck => exec[s] = "ended" /\ row[s] \in {"running", "cancelling"}
    /\ exec[s] \in {"none", "create"} => container[s] = "none"
    /\ exec[s] = "start" => container[s] = "created"
    /\ exec[s] \in {"read", "finish"} => container[s] \in Ended
    /\ row[s] = "done" => container[s] = "zero"

(* While nothing has failed, a cancellation written in time stays in the    *)
(* row, and then in what ExecuteInContainer has read, until it is recorded. *)
CancelInv ==
  faults = 0 =>
    /\ expired = {}
    /\ \A s \in inTime :
         /\ row[s] \in {"cancelling", "cancelled", "error"}
         /\ exec[s] \in LivePc => row[s] = "cancelling"
         /\ exec[s] = "finish" => seen[s] = "cancelling"

(* What every step of an execution preserves.                               *)
SessionInv == TypeOK /\ ExecInv /\ CancelInv
=============================================================================
