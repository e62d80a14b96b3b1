----------------------------- MODULE Delegation -----------------------------
(***************************************************************************)
(* The delegated-task queue of the bot: agents hand work to other agents   *)
(* (bot/delegation), the rows live in Postgres (go-shared), and a worker   *)
(* in every bot process polls them, claims them and runs each in a         *)
(* goroutine of its own.                                                   *)
(*                                                                         *)
(* One step of the model is one SQL statement, or one stretch of Go code   *)
(* between two of them.  The rows of one user are modelled: every query    *)
(* below filters on user_id, or on an agent that belongs to one user.      *)
(***************************************************************************)
EXTENDS Integers, Sequences, FiniteSets

CONSTANTS
  Tasks,         \* ids of the delegated_tasks rows that may be inserted
  Agents,        \* agent ids; ORDER BY to_agent_id is their numeric order
  Workers,       \* bot processes that poll the queue
  Words,         \* contents of task descriptions, up to what is sanitized away
  NoTask,        \* SQL NULL / no task in hand
  FromAgent,     \* the delegating agent of a task
  ToAgent,       \* to_agent_id of a task
  Priority,      \* priority of a task
  Description,   \* description of a task
  Role,          \* role of an agent
  MaxDepth,      \* max_delegation_depth of an agent
  OldSessions,   \* session rows that exist when the behaviour starts
  MaxTasks,      \* maxTasksPerUser
  MaxSessions,   \* maxConcurrentSessionsPerUser
  MaxAgentsPerPoll, \* maxAgentsPerPoll
  MaxRows,       \* bound on session rows
  MaxFaults,     \* bound on database errors, timeouts and process crashes
  Cancels,       \* tasks that the dashboard may cancel
  Others,        \* tasks whose description is also asked for outside the queue
  DelegateFrom,  \* sessions (and 0, for none) that delegate
  Summaries      \* may a context summary be non-empty, may it be empty

-----------------------------------------------------------------------------
(* Texts.  SanitizeTask keeps letters, digits, spaces and , . ! ? - only.   *)
(* raw: the text has a character SanitizeTask removes; context: the text    *)
(* carries the "Context from delegating agent:\n" prefix.                   *)
Texts == [words: Words, context: BOOLEAN, raw: BOOLEAN]

SanitizeTask(x) == [x EXCEPT !.raw = FALSE]

(* The prefix always holds colons and newlines.                             *)
DelegationPrefix(x, summary) ==
  [words |-> x.words, context |-> summary, raw |-> x.raw \/ summary]

ActiveSession   == {"pending", "running", "waiting_for_clarification", "cancelling"}
TerminalSession == {"done", "error", "cancelled"}
SessionRow ==
  [agent: Agents, task: Texts, status: ActiveSession \cup TerminalSession,
   repo: BOOLEAN,              \* it names a repository
   for: Tasks \cup {NoTask}]   \* the task that executes it (history)

ActiveTask   == {"pending", "claimed", "running"}
TerminalTask == {"done", "failed", "cancelled"}
TaskStatus   == {"absent"} \cup ActiveTask \cup TerminalTask

RunPc == {"none", "start", "exec", "container", "lookup", "link", "complete",
          "failing", "resolving", "ended"}
WorkerState ==
  [up: {"up", "stopping", "down"},
   at: {"idle", "loop", "claim", "check", "failing"},  \* position of the poll loop
   todo: SUBSET Agents,                                \* agents left in this poll
   task: Tasks \cup {NoTask}]                          \* task in the loop's hand
RunState == [pc: RunPc, sid: Nat, verdict: TerminalSession \cup {"none"}]

ASSUME DelegationAssumption ==
  /\ Agents \subseteq Nat /\ Agents # {}
  /\ NoTask \notin Tasks
  /\ FromAgent \in [Tasks -> Agents] /\ ToAgent \in [Tasks -> Agents]
  /\ Priority \in [Tasks -> Nat]
  /\ Description \in [Tasks -> [words: Words, context: {FALSE}, raw: BOOLEAN]]
  /\ Role \in [Agents -> {"lead", "senior", "junior"}]
  /\ MaxDepth \in [Agents -> Nat]
  /\ OldSessions \in Seq(SessionRow)
  /\ \A i \in DOMAIN OldSessions :
       OldSessions[i].for = NoTask /\ OldSessions[i].task.raw = FALSE
  /\ MaxTasks \in Nat /\ MaxSessions \in Nat /\ MaxAgentsPerPoll \in Nat
  /\ MaxRows \in Nat /\ MaxFaults \in Nat
  /\ Cancels \subseteq Tasks /\ Others \subseteq Tasks
  /\ DelegateFrom \subseteq Nat /\ Summaries \subseteq BOOLEAN

-----------------------------------------------------------------------------
VARIABLES
  \* delegated_tasks
  status,     \* status; "absent" before the row is inserted
  blockedBy,  \* blocked_by, as a set
  child,      \* child_session_id, 0 for NULL
  parent,     \* parent_session_id, 0 for NULL
  summary,    \* the stored context has a summary
  repo,       \* the stored context or the parent session names a repository
  created,    \* rows in created_at order
  \* sessions, in created_at order
  sessions,
  \* callers of Delegate and CancelTask
  deleg,      \* where the Delegate call for a task is
  wanted,     \* the BlockedBy it was given
  cancel,     \* where the CancelTask call for a task is
  seen,       \* the child_session_id it has read
  \* worker processes
  worker,     \* per process: up, poll position, agents left, task in hand
  run,        \* per process and task: the goroutine of runDelegatedTask
  faults,     \* errors and crashes so far
  \* history
  settled,    \* tasks whose row has held a terminal status
  late        \* blockers whose dependents were released before the task came

taskVars == <<status, blockedBy, child, parent, summary, repo, created>>
callVars == <<deleg, wanted, cancel, seen>>
history == <<settled, late>>
vars == <<taskVars, sessions, callVars, worker, run, faults, history>>

Idle == [up |-> "up", at |-> "idle", todo |-> {}, task |-> NoTask]
NoRun == [pc |-> "none", sid |-> 0, verdict |-> "none"]

Init ==
  /\ status = [t \in Tasks |-> "absent"]
  /\ blockedBy = [t \in Tasks |-> {}]
  /\ child = [t \in Tasks |-> 0]
  /\ parent = [t \in Tasks |-> 0]
  /\ summary = [t \in Tasks |-> FALSE]
  /\ repo = [t \in Tasks |-> FALSE]
  /\ created = <<>>
  /\ sessions = OldSessions
  /\ deleg = [t \in Tasks |-> "none"]
  /\ wanted = [t \in Tasks |-> {}]
  /\ cancel = [t \in Tasks |-> "none"]
  /\ seen = [t \in Tasks |-> 0]
  /\ worker = [w \in Workers |-> Idle]
  /\ run = [w \in Workers |-> [t \in Tasks |-> NoRun]]
  /\ faults = 0
  /\ settled = {}
  /\ late = [t \in Tasks |-> {}]

-----------------------------------------------------------------------------
(* Shared statements                                                        *)

Fault == faults < MaxFaults /\ faults' = faults + 1

Rows == {t \in Tasks : status[t] # "absent"}

(* UpdateDelegatedTaskStatus and CompleteTask: no condition on the status   *)
(* the row has.                                                             *)
SetStatus(t, s) ==
  /\ status' = [status EXCEPT ![t] = s]
  /\ settled' = IF s \in TerminalTask THEN settled \cup {t} ELSE settled
  /\ late' = late

ResolveDependenciesOfClaimed(t) ==
  blockedBy' = [u \in Tasks |->
    IF status[u] = "claimed" THEN blockedBy[u] \ {t} ELSE blockedBy[u]]

(* ResolveDependencies: array_remove on the rows that are still pending.    *)
ResolveDependencies(t) ==
  blockedBy' = [u \in Tasks |->
    IF status[u] = "pending" THEN blockedBy[u] \ {t} ELSE blockedBy[u]]

CountAllSessions == Len(sessions)

CountActiveSessions ==
  Cardinality({i \in DOMAIN sessions : sessions[i].status \in ActiveSession})

(* UpdateSessionResultIfNotTerminal.                                        *)
FinishSession(i, s) ==
  sessions' = IF sessions[i].status \in TerminalSession THEN sessions
              ELSE [sessions EXCEPT ![i].status = s]

-----------------------------------------------------------------------------
(* Delegate: validation, then a count of the active rows, then the insert.  *)

RoleCanDelegateTo ==
  [lead |-> {"senior", "junior"}, senior |-> {"junior"}, junior |-> {}]

(* ValidateDelegation, for the agents of a task.                            *)
ValidateDelegation(t) ==
  /\ FromAgent[t] # ToAgent[t]
  /\ Role[ToAgent[t]] \in RoleCanDelegateTo[Role[FromAgent[t]]]

(* ValidateDelegationDepth.  The chain query starts at the row whose child  *)
(* is the delegating session s; that row's child is s itself, which the     *)
(* visited map already holds, so a non-empty chain is always refused as     *)
(* circular and the comparison with maxDepth is reached only for an empty   *)
(* one.                                                                     *)
ValidateDelegationDepth(t, s) ==
  /\ MaxDepth[FromAgent[t]] # 0
  /\ \A u \in Rows : child[u] # s

(* DetectCyclesInBlockedBy: a cycle among the active rows that can be       *)
(* reached from the new task through blocked_by.                            *)
BlocksIn(S) == [t \in S |-> blockedBy[t] \cap S]
CycleFrom(B) ==
  LET active == {t \in Rows : status[t] \in ActiveTask}
      Closed(S) == B \cap active \subseteq S /\ \A t \in S : BlocksIn(active)[t] \subseteq S
  IN  \E C \in SUBSET active :
        /\ C # {}
        /\ \A t \in C : BlocksIn(active)[t] \cap C # {}
        /\ \A S \in SUBSET active : Closed(S) => C \subseteq S

(* Without a delegating session the context is the description and no       *)
(* repository.  With one it is the repository and what is known of the      *)
(* session's output: the output, cut, the name of its branch, or a summary, *)
(* fresh or cached, for which the output stands in when anything fails.     *)
(* There may be no output at all.                                           *)
BuildDelegationContext(t, s) ==
  /\ \E hasSummary \in IF s = 0 THEN {TRUE} ELSE Summaries :
       summary' = [summary EXCEPT ![t] = hasSummary]
  /\ repo' = [repo EXCEPT ![t] = s # 0 /\ sessions[s].repo]

(* Everything up to BuildDelegationContext, and its result.                 *)
Delegate(t, s, B) ==
  /\ status[t] = "absent" /\ deleg[t] = "none"
  /\ ValidateDelegation(t)
  /\ s # 0 => ValidateDelegationDepth(t, s)
  /\ B # {} => ~CycleFrom(B)
  /\ deleg' = [deleg EXCEPT ![t] = "count"]
  /\ wanted' = [wanted EXCEPT ![t] = B]
  /\ parent' = [parent EXCEPT ![t] = s]
  /\ BuildDelegationContext(t, s)
  /\ UNCHANGED <<status, blockedBy, child, created, sessions, cancel, seen, worker,
                 run, faults, history>>

(* The dependents of b have been released (history).                        *)
Released(b) == cancel[b] = "ended" \/ \E w \in Workers : run[w][b].pc = "ended"

ActiveCount == Cardinality({t \in Tasks : status[t] \in ActiveTask})

(* EnqueueTask, the count: refused at the limit.                            *)
EnqueueCount(t) ==
  /\ deleg[t] = "count"
  /\ deleg' = [deleg EXCEPT ![t] = IF ActiveCount >= MaxTasks THEN "refused" ELSE "insert"]
  /\ UNCHANGED <<taskVars, sessions, wanted, cancel, seen, worker, run, faults, history>>

(* CreateDelegatedTask: parent_session_id is unique in the table.           *)
EnqueueInsert(t) ==
  /\ deleg[t] = "insert"
  /\ IF parent[t] # 0 /\ \E u \in Rows : parent[u] = parent[t]
     THEN /\ deleg' = [deleg EXCEPT ![t] = "refused"]
          /\ UNCHANGED <<status, blockedBy, created, late>>
     ELSE /\ deleg' = [deleg EXCEPT ![t] = "inserted"]
          /\ status' = [status EXCEPT ![t] = "pending"]
          /\ blockedBy' = [blockedBy EXCEPT ![t] = wanted[t]]
          /\ created' = Append(created, t)
          /\ late' = [late EXCEPT ![t] = {b \in wanted[t] : Released(b)}]
  /\ UNCHANGED <<child, parent, summary, repo, sessions, wanted, cancel, seen, worker,
                 run, faults, settled>>

-----------------------------------------------------------------------------
(* CancelTask: the row is read, its status written, the child session it    *)
(* named asked to stop, the dependents released.                            *)

CancelRead(t) ==
  /\ t \in Cancels /\ cancel[t] = "none"
  /\ status[t] \in ActiveTask
  /\ cancel' = [cancel EXCEPT ![t] = "write"]
  /\ seen' = [seen EXCEPT ![t] = child[t]]
  /\ UNCHANGED <<taskVars, sessions, deleg, wanted, worker, run, faults, history>>

CancelWrite(t) ==
  /\ cancel[t] = "write"
  /\ SetStatus(t, "cancelled")
  /\ cancel' = [cancel EXCEPT ![t] = "child"]
  /\ UNCHANGED <<blockedBy, child, parent, summary, repo, created, sessions,
                 deleg, wanted, seen, worker, run, faults>>

CancelChild(t) ==
  /\ cancel[t] = "child"
  /\ cancel' = [cancel EXCEPT ![t] = "resolve"]
  /\ sessions' =
       IF seen[t] # 0 /\ sessions[seen[t]].status \in ActiveSession \ {"cancelling"}
       THEN [sessions EXCEPT ![seen[t]].status = "cancelling"] ELSE sessions
  /\ UNCHANGED <<taskVars, deleg, wanted, seen, worker, run, faults, history>>

CancelResolve(t) ==
  /\ cancel[t] = "resolve"
  /\ cancel' = [cancel EXCEPT ![t] = "ended"]
  /\ ResolveDependencies(t)
  /\ UNCHANGED <<status, child, parent, summary, repo, created, sessions, deleg,
                 wanted, seen, worker, run, faults, history>>

(* A statement of EnqueueTask or CancelTask fails: the call returns.        *)
CallFails(t) ==
  /\ Fault
  /\ \/ /\ deleg[t] \in {"count", "insert"}
        /\ deleg' = [deleg EXCEPT ![t] = "refused"]
        /\ UNCHANGED cancel
     \/ /\ cancel[t] \in {"write", "resolve"}
        /\ cancel' = [cancel EXCEPT ![t] = "failed"]
        /\ UNCHANGED deleg
  /\ UNCHANGED <<taskVars, sessions, wanted, seen, worker, run, history>>

-----------------------------------------------------------------------------
(* processTaskQueue, the poll loop of a worker                              *)

AgentsWithWork == {ToAgent[t] : t \in {u \in Tasks : status[u] = "pending" /\ blockedBy[u] = {}}}
FirstAgents(S) == {a \in S : Cardinality({b \in S : b < a}) < MaxAgentsPerPoll}
NextAgent(S) == CHOOSE a \in S : \A b \in S : a <= b

Continue(w) ==
  LET rest == worker[w].todo \ {NextAgent(worker[w].todo)}
  IN  worker' = [worker EXCEPT ![w] =
        [up |-> worker[w].up, at |-> IF rest = {} THEN "idle" ELSE "loop",
         todo |-> rest, task |-> NoTask]]

Poll(w) ==
  /\ worker[w].up = "up" /\ worker[w].at = "idle"
  /\ FirstAgents(AgentsWithWork) # {}
  /\ worker' = [worker EXCEPT ![w] =
       [up |-> "up", at |-> "loop", todo |-> FirstAgents(AgentsWithWork), task |-> NoTask]]
  /\ UNCHANGED <<taskVars, sessions, callVars, run, faults, history>>

(* canStartNewSession; its query fails once Stop has cancelled the context. *)
CanStartNewSession(w) ==
  /\ worker[w].at = "loop"
  /\ IF worker[w].up = "up" /\ CountActiveSessions < MaxSessions
     THEN worker' = [worker EXCEPT ![w].at = "claim"]
     ELSE Continue(w)
  /\ UNCHANGED <<taskVars, sessions, callVars, run, faults, history>>

ClaimableUnfinished(a) ==
  {t \in Tasks : /\ ToAgent[t] = a /\ status[t] \in ActiveTask
                 /\ \A b \in blockedBy[t] : status[b] \in {"absent", "done"}}
ClaimableAnyBlockers(a) ==
  {t \in Tasks : ToAgent[t] = a /\ status[t] = "pending"}
ClaimableFailed(a) ==
  {t \in Tasks : /\ ToAgent[t] = a /\ status[t] \in {"pending", "failed"}
                 /\ \A b \in blockedBy[t] : status[b] \in {"absent", "done"}}

(* Claimable rows of an agent: pending, and no blocker exists that is not   *)
(* done.  ClaimNextTask takes the first by priority, then by age, in one    *)
(* statement that locks the row.                                            *)
Claimable(a) ==
  {t \in Tasks : /\ ToAgent[t] = a /\ status[t] = "pending"
                 /\ \A b \in blockedBy[t] : status[b] \in {"absent", "done"}}
Position(t) == CHOOSE i \in DOMAIN created : created[i] = t
Precedes(t, u) ==
  \/ Priority[t] > Priority[u]
  \/ Priority[t] = Priority[u] /\ Position(t) <= Position(u)

ClaimNextTask(w) ==
  /\ worker[w].at = "claim"
  /\ LET a == NextAgent(worker[w].todo)
     IN  \/ /\ Claimable(a) = {} \/ worker[w].up # "up"
            /\ Continue(w)
            /\ UNCHANGED <<status, history>>
         \/ \E t \in Claimable(a) :
              /\ worker[w].up = "up"
              /\ \A u \in Claimable(a) : Precedes(t, u)
              /\ SetStatus(t, "claimed")
              /\ worker' = [worker EXCEPT ![w] =
                   [up |-> "up", at |-> "check", todo |-> worker[w].todo, task |-> t]]
  /\ UNCHANGED <<blockedBy, child, parent, summary, repo, created, sessions,
                 callVars, run, faults>>

(* The checks on agent, API key, GitHub connection and context may fail for *)
(* reasons outside this model; the missing repository is in it.             *)
CheckTask(w) ==
  /\ worker[w].at = "check"
  /\ LET t == worker[w].task
     IN  \/ /\ repo[t]
            /\ run' = [run EXCEPT ![w][t] = [NoRun EXCEPT !.pc = "start"]]
            /\ Continue(w)
         \/ /\ run' = [run EXCEPT ![w][t] = [NoRun EXCEPT !.pc = "failing"]]
            /\ worker' = [worker EXCEPT ![w].at = "failing"]
  /\ UNCHANGED <<taskVars, sessions, callVars, faults, history>>

(* OnTaskFailed runs inside the loop, which goes on when it returns.        *)
CheckFailed(w) ==
  /\ worker[w].at = "failing"
  /\ run[w][worker[w].task].pc = "ended"
  /\ Continue(w)
  /\ UNCHANGED <<taskVars, sessions, callVars, run, faults, history>>

(* The count or the claim fails, or the poll is over its 30 s.              *)
PollFails(w) ==
  /\ worker[w].at \in {"loop", "claim"}
  /\ Fault
  /\ Continue(w)
  /\ UNCHANGED <<taskVars, sessions, callVars, run, history>>

-----------------------------------------------------------------------------
(* runDelegatedTask, the goroutine of a claimed task                        *)

Goto(w, t, pc) == run' = [run EXCEPT ![w][t].pc = pc]

SetRunning(w, t) ==
  /\ run[w][t].pc = "start"
  /\ SetStatus(t, "running")
  /\ Goto(w, t, "exec")
  /\ UNCHANGED <<blockedBy, child, parent, summary, repo, created, sessions,
                 callVars, worker, faults>>

Prompt(t) == DelegationPrefix(Description[t], summary[t])

(* ExecuteInContainer: refused before it has a session, or a session row    *)
(* with the sanitized text and a container.                                 *)
Execute(w, t) ==
  /\ run[w][t].pc = "exec"
  /\ \/ /\ Goto(w, t, "failing")
        /\ UNCHANGED sessions
     \/ /\ Len(sessions) < MaxRows
        /\ sessions' = Append(sessions,
             [agent |-> ToAgent[t], task |-> SanitizeTask(Prompt(t)),
              status |-> "running", repo |-> TRUE, for |-> t])
        /\ run' = [run EXCEPT ![w][t] =
             [pc |-> "container", sid |-> Len(sessions) + 1, verdict |-> "none"]]
  /\ UNCHANGED <<taskVars, callVars, worker, faults, history>>

(* The container ends: executeFn returns nil, or an error with the session  *)
(* marked "error".                                                          *)
ContainerEnds(w, t, outcome) ==
  /\ run[w][t].pc = "container"
  /\ FinishSession(run[w][t].sid, outcome)
  /\ \/ Goto(w, t, "lookup")
     \/ outcome = "error" /\ Goto(w, t, "failing")
  /\ UNCHANGED <<taskVars, callVars, worker, faults, history>>

MatchesAnyText(t) ==
  {i \in DOMAIN sessions : /\ sessions[i].agent = ToAgent[t]
                           /\ sessions[i].status \in TerminalSession}

(* The session is looked up again by its text, newest first.                *)
Matches(t) ==
  {i \in DOMAIN sessions : /\ sessions[i].agent = ToAgent[t]
                           /\ sessions[i].task = Prompt(t)
                           /\ sessions[i].status \in TerminalSession}

FindSessionReturns(w, t) ==
  /\ run[w][t].pc = "lookup"
  /\ \/ Matches(t) = {} /\ Goto(w, t, "ended")
     \/ \E i \in Matches(t) :
          /\ \A j \in Matches(t) : j <= i
          /\ run' = [run EXCEPT ![w][t] =
               [pc |-> "link", sid |-> i, verdict |-> sessions[i].status]]
  /\ UNCHANGED <<taskVars, sessions, callVars, worker, faults, history>>

FindSession(w, t) ==
  /\ run[w][t].pc = "lookup"
  /\ \/ Matches(t) = {} /\ Goto(w, t, "failing")
     \/ \E i \in Matches(t) :
          /\ \A j \in Matches(t) : j <= i
          /\ run' = [run EXCEPT ![w][t] =
               [pc |-> "link", sid |-> i, verdict |-> sessions[i].status]]
  /\ UNCHANGED <<taskVars, sessions, callVars, worker, faults, history>>

AfterLink(w, t) == IF run[w][t].verdict = "done" THEN "complete" ELSE "failing"

(* UpdateDelegatedTaskChild: child_session_id is unique; an error is only   *)
(* logged.                                                                  *)
LinkChild(w, t) ==
  /\ run[w][t].pc = "link"
  /\ child' = IF \E u \in Tasks \ {t} : child[u] = run[w][t].sid THEN child
              ELSE [child EXCEPT ![t] = run[w][t].sid]
  /\ Goto(w, t, AfterLink(w, t))
  /\ UNCHANGED <<status, blockedBy, parent, summary, repo, created, sessions,
                 callVars, worker, faults, history>>

(* OnTaskComplete and OnTaskFailed: the status, then the dependents.        *)
CompleteTask(w, t) ==
  /\ run[w][t].pc = "complete"
  /\ SetStatus(t, "done")
  /\ Goto(w, t, "resolving")
  /\ UNCHANGED <<blockedBy, child, parent, summary, repo, created, sessions,
                 callVars, worker, faults>>

OnTaskFailed(w, t) ==
  /\ run[w][t].pc = "failing"
  /\ SetStatus(t, "failed")
  /\ Goto(w, t, "resolving")
  /\ UNCHANGED <<blockedBy, child, parent, summary, repo, created, sessions,
                 callVars, worker, faults>>

Resolve(w, t) ==
  /\ run[w][t].pc = "resolving"
  /\ ResolveDependencies(t)
  /\ Goto(w, t, "ended")
  /\ UNCHANGED <<status, child, parent, summary, repo, created, sessions,
                 callVars, worker, faults, history>>

(* A statement fails.  The lookup reports that as a missing session, the    *)
(* link is only logged; the status write, the usage query, OnTaskComplete,  *)
(* OnTaskFailed and ResolveDependencies return.  So does everything once    *)
(* the two-hour context ends while the container runs.  OnTaskFailed in the *)
(* poll loop may use the context that Stop has cancelled.                   *)
StatementFails(w, t) ==
  /\ run[w][t].pc \in {"start", "container", "lookup", "link", "complete", "failing", "resolving"}
  /\ \/ Fault
     \/ /\ worker[w].up = "stopping" /\ worker[w].at = "failing" /\ worker[w].task = t
        /\ UNCHANGED faults
  /\ Goto(w, t, CASE run[w][t].pc = "lookup" -> "failing"
                   [] run[w][t].pc = "link"   -> AfterLink(w, t)
                   [] OTHER                   -> "ended")
  /\ UNCHANGED <<taskVars, sessions, callVars, worker, history>>

-----------------------------------------------------------------------------
(* Processes and the rest of the system                                     *)

(* Goroutines of runDelegatedTask (the task in the poll loop is not one).   *)
Goroutines(w) ==
  {t \in Tasks : run[w][t].pc \notin {"none", "ended"} /\ worker[w].task # t}

(* The process is gone, and with it every step of it that was under way.    *)
Gone(w) ==
  /\ worker' = [worker EXCEPT ![w] = [Idle EXCEPT !.up = "down"]]
  /\ run' = [run EXCEPT ![w] = [t \in Tasks |->
       IF run[w][t].pc = "none" THEN NoRun ELSE [run[w][t] EXCEPT !.pc = "ended"]]]

(* Stop cancels the poll context and waits for the goroutines, not for the  *)
(* poll loop.                                                               *)
Stop(w) ==
  /\ worker[w].up = "up"
  /\ Fault
  /\ worker' = [worker EXCEPT ![w].up = "stopping"]
  /\ UNCHANGED <<taskVars, sessions, callVars, run, history>>

Exit(w) ==
  /\ worker[w].up = "stopping" /\ Goroutines(w) = {}
  /\ Gone(w)
  /\ UNCHANGED <<taskVars, sessions, callVars, faults, history>>

(* A crash, or the shutdown deadline of main.                               *)
Crash(w) ==
  /\ worker[w].up # "down"
  /\ Fault
  /\ Gone(w)
  /\ UNCHANGED <<taskVars, sessions, callVars, history>>

(* Start-up: ReconcileStuckSessions marks the running sessions that are at  *)
(* least 30 s old; the registry of the new process is empty.  Nothing       *)
(* touches delegated_tasks.                                                 *)
Restart(w) ==
  /\ worker[w].up = "down"
  /\ worker' = [worker EXCEPT ![w] = Idle]
  /\ \E old \in SUBSET {i \in DOMAIN sessions :
                          sessions[i].status \in {"running", "waiting_for_clarification"}} :
       sessions' = [i \in DOMAIN sessions |->
         IF i \in old THEN [sessions[i] EXCEPT !.status = "error"] ELSE sessions[i]]
  /\ UNCHANGED <<taskVars, callVars, run, faults, history>>

(* Sessions that come from elsewhere (a chat, a schedule) with the text of  *)
(* a description.                                                           *)
OtherSessionStarts(t) ==
  /\ t \in Others /\ Len(sessions) < MaxRows
  /\ sessions' = Append(sessions,
       [agent |-> ToAgent[t], task |-> SanitizeTask(Description[t]),
        status |-> "running", repo |-> TRUE, for |-> NoTask])
  /\ UNCHANGED <<taskVars, callVars, worker, run, faults, history>>

OtherSessionEnds(i, outcome) ==
  /\ sessions[i].for = NoTask /\ sessions[i].status \in ActiveSession
  /\ sessions' = [sessions EXCEPT ![i].status = outcome]
  /\ UNCHANGED <<taskVars, callVars, worker, run, faults, history>>

-----------------------------------------------------------------------------
CallerStep(t) ==
  \/ \E s \in DelegateFrom \cap (0 .. Len(sessions)) : \E B \in SUBSET Rows : Delegate(t, s, B)
  \/ EnqueueCount(t)
  \/ EnqueueInsert(t)
  \/ CancelRead(t)
  \/ CancelWrite(t)
  \/ CancelChild(t)
  \/ CancelResolve(t)
  \/ CallFails(t)

PollStep(w) ==
  Poll(w) \/ CanStartNewSession(w) \/ ClaimNextTask(w) \/ CheckTask(w) \/ CheckFailed(w)

RunStep(w, t) ==
  \/ SetRunning(w, t)
  \/ Execute(w, t)
  \/ \E outcome \in TerminalSession : ContainerEnds(w, t, outcome)
  \/ FindSession(w, t)
  \/ LinkChild(w, t)
  \/ CompleteTask(w, t)
  \/ OnTaskFailed(w, t)
  \/ Resolve(w, t)

ProcessStep(w) == Stop(w) \/ Exit(w) \/ Crash(w) \/ Restart(w)

OtherStep ==
  \/ \E t \in Tasks : OtherSessionStarts(t)
  \/ \E i \in DOMAIN sessions : \E outcome \in TerminalSession : OtherSessionEnds(i, outcome)

Next ==
  \/ \E t \in Tasks : CallerStep(t)
  \/ \E w \in Workers : PollStep(w)
  \/ \E w \in Workers, t \in Tasks : RunStep(w, t)
  \/ \E w \in Workers, t \in Tasks : StatementFails(w, t)
  \/ \E w \in Workers : PollFails(w) \/ ProcessStep(w)
  \/ OtherStep

Spec == Init /\ [][Next]_vars

(* The ticker fires every 10 s, goroutines are scheduled, containers end    *)
(* within the container timeout, and calls that started go on.  Nothing     *)
(* makes a caller call, a fault happen, or a stopped process start again.   *)
Fairness ==
  /\ \A t \in Tasks : /\ WF_vars(EnqueueCount(t)) /\ WF_vars(EnqueueInsert(t))
                      /\ WF_vars(CancelWrite(t)) /\ WF_vars(CancelChild(t))
                      /\ WF_vars(CancelResolve(t))
  /\ \A w \in Workers : WF_vars(PollStep(w)) /\ WF_vars(Exit(w))
  /\ \A w \in Workers, t \in Tasks : WF_vars(RunStep(w, t))
  /\ WF_vars(\E i \in DOMAIN sessions : \E o \in TerminalSession : OtherSessionEnds(i, o))

FairSpec == Spec /\ Fairness
-----------------------------------------------------------------------------
(* Properties                                                               *)

(* Type correctness of the rows, the calls and the processes.               *)
TypeOK ==
  /\ status \in [Tasks -> TaskStatus]
  /\ blockedBy \in [Tasks -> SUBSET Tasks]
  /\ child \in [Tasks -> Nat] /\ parent \in [Tasks -> Nat]
  /\ summary \in [Tasks -> BOOLEAN] /\ repo \in [Tasks -> BOOLEAN]
  /\ created \in Seq(Tasks)
  /\ sessions \in Seq(SessionRow)
  /\ deleg \in [Tasks -> {"none", "count", "insert", "inserted", "refused"}]
  /\ wanted \in [Tasks -> SUBSET Tasks]
  /\ cancel \in [Tasks -> {"none", "write", "child", "resolve", "ended", "failed"}]
  /\ seen \in [Tasks -> Nat]
  /\ worker \in [Workers -> WorkerState]
  /\ run \in [Workers -> [Tasks -> RunState]]
  /\ faults \in Nat
  /\ settled \in SUBSET Tasks
  /\ late \in [Tasks -> SUBSET Tasks]

(* No delegated task is executed twice: however polls of several processes, *)
(* crashes, restarts, cancellations and the unconditional status writes of  *)
(* runDelegatedTask interleave, at most one session row is ever created for *)
(* a task (ClaimNextTask is the only gate).                                 *)
ExecutedOnce ==
  \A i, j \in DOMAIN sessions :
    sessions[i].for # NoTask /\ sessions[i].for = sessions[j].for => i = j

Executing(b) == \E w \in Workers : run[w][b].pc \in {"start", "exec", "container"}

(* A task that is claimed or running has every blocker its caller named     *)
(* finished: unless somebody cancelled the blocker, its row is done or      *)
(* failed and no goroutine is still executing it.  Three pieces of code     *)
(* have to agree on this: the poll query, the NOT EXISTS of ClaimNextTask   *)
(* and ResolveDependencies, which runs after the status has been written.   *)
BlockersFinished ==
  \A t \in Tasks : status[t] \in {"claimed", "running"} =>
    \A b \in wanted[t] :
      cancel[b] = "none" => status[b] \in {"done", "failed"} /\ ~Executing(b)

(* A terminal status is final while nobody cancels the task: the writes of  *)
(* UpdateDelegatedTaskStatus and CompleteTask carry no condition, only the  *)
(* order of the goroutine's steps keeps a later one from overwriting it.    *)
TerminalIsFinal ==
  [][\A t \in Tasks : status[t] \in TerminalTask /\ cancel[t] = "none"
       => status'[t] = status[t]]_vars

(* A task is marked done only if a session of its target agent with exactly *)
(* its prompt ended as done; the lookup of runDelegatedTask goes by text,   *)
(* not by the id of the session it started.                                 *)
DoneIsWitnessed ==
  \A t \in Tasks : status[t] = "done" =>
    \E i \in DOMAIN sessions : /\ sessions[i].agent = ToAgent[t]
                               /\ sessions[i].task = Prompt(t)
                               /\ sessions[i].status = "done"

(* No wake-up is lost: while no statement fails, a pending task that still  *)
(* waits for a blocker whose completion has been processed was inserted     *)
(* after that processing.  (Those late ones wait for ever: blocked_by is    *)
(* only ever shortened by ResolveDependencies.)                             *)
NoLostWakeup ==
  faults = 0 => \A t \in Tasks : status[t] = "pending" =>
    \A b \in blockedBy[t] : Released(b) => b \in late[t]

(* A claimed task reaches a terminal status when no statement fails: each   *)
(* early return of the poll loop and of runDelegatedTask settles the row.   *)
ClaimedSettles ==
  \A t \in Tasks : status[t] \in {"claimed", "running"} ~> status[t] \in TerminalTask

(* A pending task without blockers leaves the queue: another agent's tasks, *)
(* other sessions at the limit or a task of higher priority delay it only.  *)
UnblockedIsClaimed ==
  \A t \in Tasks : status[t] = "pending" /\ blockedBy[t] = {} ~> status[t] # "pending"

-----------------------------------------------------------------------------
(* The inductive invariant behind ExecutedOnce, BlockersFinished and        *)
(* TerminalIsFinal.                                                         *)

Holds(w, t) == worker[w].at = "check" /\ worker[w].task = t
LivePc == {"start", "exec", "container", "lookup", "link", "complete", "failing"}
Live(w, t) == Holds(w, t) \/ run[w][t].pc \in LivePc
Taken(w, t) == Holds(w, t) \/ run[w][t].pc # "none"
Finished(b) ==
  status[b] \in {"done", "failed"} /\ \A w \in Workers : ~Live(w, b)

(* A row exists from its insert on, and only then can it be cancelled.      *)
RowInv ==
  \A t \in Tasks :
    /\ status[t] = "absent" <=> deleg[t] # "inserted"
    /\ cancel[t] # "none" => status[t] # "absent"
    /\ status[t] = "absent" => blockedBy[t] = {}
    /\ \A b \in wanted[t] : status[b] # "absent"
    /\ blockedBy[t] \subseteq wanted[t]

(* A task is taken once in its life, by one process, and never while its    *)
(* row is pending.                                                          *)
TakenInv ==
  \A t \in Tasks, w \in Workers :
    /\ status[t] \in {"absent", "pending"} => ~Taken(w, t)
    /\ Holds(w, t) => run[w][t].pc = "none"
    /\ \A v \in Workers : Taken(w, t) /\ Taken(v, t) => v = w

(* A session row for a task exists only after its one execution began.      *)
SessionInv ==
  \A i \in DOMAIN sessions : sessions[i].for # NoTask =>
    /\ status[sessions[i].for] \notin {"absent", "pending"}
    /\ \A w \in Workers :
         ~Holds(w, sessions[i].for) /\ run[w][sessions[i].for].pc \notin {"start", "exec"}

(* While nobody cancels it, a task that a process works on is claimed or    *)
(* running, and one whose dependents are being released is done or failed.  *)
WorkInv ==
  \A t \in Tasks, w \in Workers : cancel[t] = "none" =>
    /\ Live(w, t) => status[t] \in {"claimed", "running"}
    /\ run[w][t].pc = "resolving" => status[t] \in {"done", "failed"}

(* A blocker leaves blocked_by only when it is finished or cancelled, and a *)
(* task that was taken has finished or cancelled blockers only.             *)
BlockerInv ==
  \A t \in Tasks : \A b \in wanted[t] : cancel[b] = "none" =>
    /\ status[t] # "absent" /\ b \notin blockedBy[t] => Finished(b)
    /\ status[t] \in {"claimed", "running"} => Finished(b)
    /\ \A w \in Workers : Taken(w, t) => Finished(b)

(* The conjunction of the above: what every step of the queue preserves.    *)
QueueInv ==
  /\ TypeOK /\ RowInv /\ TakenInv /\ SessionInv /\ ExecutedOnce /\ WorkInv /\ BlockerInv

=============================================================================
