------------------------- MODULE Delegation_proofs -------------------------
(***************************************************************************)
(* Proofs about the delegated-task queue, for every number of tasks,       *)
(* agents, processes and faults.                                           *)
(***************************************************************************)
EXTENDS Delegation, TLAPS

-----------------------------------------------------------------------------
(* Facts about the shapes of the state                                      *)

(* The parts of the assumption that the type proof needs.                   *)
LEMMA ConstantTypes ==
  /\ ToAgent \in [Tasks -> Agents]
  /\ NoTask \notin Tasks
  /\ Description \in [Tasks -> Texts]
  /\ DelegateFrom \subseteq Nat /\ Summaries \subseteq BOOLEAN
  BY DelegationAssumption DEF Texts

(* A function on 1..n is a sequence: what Restart makes of the rows.        *)
LEMMA MapIsSeq ==
  ASSUME NEW S, NEW T, NEW s \in Seq(S), NEW f \in [DOMAIN s -> T]
  PROVE  f \in Seq(T)
  OBVIOUS

(* Every write to the sessions table keeps its columns.                     *)
LEMMA SessionUpdate ==
  ASSUME NEW S \in Seq(SessionRow), NEW i \in Nat,
         NEW st \in ActiveSession \cup TerminalSession
  PROVE  [S EXCEPT ![i].status = st] \in Seq(SessionRow)
<1>1. CASE i \in DOMAIN S
  <2> DEFINE r == S[i]
  <2>1. r \in SessionRow
    BY <1>1
  <2> HIDE DEF r
  <2>2. [r EXCEPT !.status = st] \in SessionRow
    BY <2>1 DEF SessionRow
  <2>3. [S EXCEPT ![i] = [r EXCEPT !.status = st]] \in Seq(SessionRow)
    BY <1>1, <2>2
  <2> QED
    BY <2>3 DEF r
<1>2. CASE i \notin DOMAIN S
  <2>1. \A x : [S EXCEPT ![i] = x] = S
    BY <1>2
  <2> QED
    BY <2>1
<1> QED
  BY <1>1, <1>2

LEMMA GotoType ==
  ASSUME run \in [Workers -> [Tasks -> RunState]], NEW w \in Workers, NEW t \in Tasks,
         NEW pc \in RunPc, Goto(w, t, pc)
  PROVE  run' \in [Workers -> [Tasks -> RunState]]
<1> DEFINE r == run[w][t]
<1>1. r \in RunState
  OBVIOUS
<1> HIDE DEF r
<1>2. [r EXCEPT !.pc = pc] \in RunState
  BY <1>1 DEF RunState
<1> QED
  BY <1>2 DEF Goto, r

LEMMA SetStatusType ==
  ASSUME TypeOK, NEW t \in Tasks, NEW s \in TaskStatus, SetStatus(t, s)
  PROVE  /\ status' \in [Tasks -> TaskStatus]
         /\ settled' \in SUBSET Tasks
         /\ late' \in [Tasks -> SUBSET Tasks]
  BY DEF SetStatus, TypeOK

LEMMA ResolveType ==
  ASSUME TypeOK, NEW t \in Tasks, ResolveDependencies(t)
  PROVE  blockedBy' \in [Tasks -> SUBSET Tasks]
  BY DEF ResolveDependencies, TypeOK

LEMMA RunAt ==
  ASSUME run \in [Workers -> [Tasks -> RunState]], NEW w \in Workers, NEW t,
         NEW r \in RunState
  PROVE  [run EXCEPT ![w][t] = r] \in [Workers -> [Tasks -> RunState]]
<1>1. [run[w] EXCEPT ![t] = r] \in [Tasks -> RunState]
  OBVIOUS
<1> QED
  BY <1>1

LEMMA WorkerAt ==
  ASSUME worker \in [Workers -> WorkerState], NEW w \in Workers,
         NEW at \in {"idle", "loop", "claim", "check", "failing"}
  PROVE  [worker EXCEPT ![w].at = at] \in [Workers -> WorkerState]
<1> DEFINE r == worker[w]
<1>1. r \in WorkerState
  OBVIOUS
<1> HIDE DEF r
<1>2. [r EXCEPT !.at = at] \in WorkerState
  BY <1>1 DEF WorkerState
<1> QED
  BY <1>2 DEF r

(* Continue only moves the poll position.                                   *)
LEMMA ContinueType ==
  ASSUME TypeOK, NEW w \in Workers, Continue(w)
  PROVE  worker' \in [Workers -> WorkerState]
<1> DEFINE rest == worker[w].todo \ {NextAgent(worker[w].todo)}
<1>1. rest \in SUBSET Agents /\ worker[w].up \in {"up", "stopping", "down"}
  BY DEF TypeOK, WorkerState
<1>2. [up |-> worker[w].up, at |-> IF rest = {} THEN "idle" ELSE "loop",
       todo |-> rest, task |-> NoTask] \in WorkerState
  BY <1>1 DEF WorkerState
<1> QED
  BY <1>2 DEF TypeOK, Continue

-----------------------------------------------------------------------------
(* Type correctness, one lemma per part of the system                       *)

LEMMA CallerTypeOK ==
  ASSUME TypeOK, NEW t \in Tasks, CallerStep(t)
  PROVE  TypeOK'
<1>1. CASE \E s \in DelegateFrom \cap (0 .. Len(sessions)) : \E B \in SUBSET Rows :
             Delegate(t, s, B)
  <2>1. PICK s \in DelegateFrom \cap (0 .. Len(sessions)), B \in SUBSET Rows : Delegate(t, s, B)
    BY <1>1
  <2>2. B \in SUBSET Tasks /\ s \in Nat
    BY ConstantTypes DEF Rows
  <2>3. (s # 0 /\ sessions[s].repo) \in BOOLEAN
    OBVIOUS
  <2>4. PICK h \in BOOLEAN : summary' = [summary EXCEPT ![t] = h]
    BY <2>1, ConstantTypes DEF Delegate, BuildDelegationContext
  <2> QED
    BY <2>1, <2>2, <2>3, <2>4 DEF Delegate, BuildDelegationContext, TypeOK, history
<1>2. CASE EnqueueCount(t)
  BY <1>2 DEF EnqueueCount, TypeOK, taskVars, history
<1>3. CASE EnqueueInsert(t)
  <2>1. CASE UNCHANGED <<status, blockedBy, created, late>>
    BY <1>3, <2>1 DEF EnqueueInsert, TypeOK
  <2>2. CASE /\ status' = [status EXCEPT ![t] = "pending"]
             /\ blockedBy' = [blockedBy EXCEPT ![t] = wanted[t]]
             /\ created' = Append(created, t)
             /\ late' = [late EXCEPT ![t] = {b \in wanted[t] : Released(b)}]
    <3> DEFINE L == {b \in wanted[t] : Released(b)}
    <3>1. L \in SUBSET Tasks /\ wanted[t] \in SUBSET Tasks
      BY DEF TypeOK
    <3> HIDE DEF L
    <3>2. late' \in [Tasks -> SUBSET Tasks]
      BY <2>2, <3>1 DEF TypeOK, L
    <3>3. created' \in Seq(Tasks)
      BY <2>2 DEF TypeOK
    <3>4. status' \in [Tasks -> TaskStatus] /\ blockedBy' \in [Tasks -> SUBSET Tasks]
      BY <2>2, <3>1 DEF TypeOK, TaskStatus, ActiveTask
    <3>5. deleg' \in [Tasks -> {"none", "count", "insert", "inserted", "refused"}]
      BY <1>3 DEF EnqueueInsert, TypeOK
    <3> QED
      BY <1>3, <3>2, <3>3, <3>4, <3>5 DEF EnqueueInsert, TypeOK
  <2> QED
    BY <1>3, <2>1, <2>2 DEF EnqueueInsert
<1>4. CASE CancelRead(t)
  BY <1>4 DEF CancelRead, TypeOK, taskVars, history
<1>5. CASE CancelWrite(t)
  <2>1. "cancelled" \in TaskStatus
    BY DEF TaskStatus, TerminalTask
  <2> QED
    BY <1>5, <2>1, SetStatusType DEF CancelWrite, TypeOK
<1>6. CASE CancelChild(t)
  <2>1. sessions' \in Seq(SessionRow)
    BY <1>6, SessionUpdate DEF CancelChild, TypeOK, ActiveSession
  <2> QED
    BY <1>6, <2>1 DEF CancelChild, TypeOK, taskVars, history
<1>7. CASE CancelResolve(t)
  <2>1. blockedBy' \in [Tasks -> SUBSET Tasks]
    BY <1>7, ResolveType DEF CancelResolve
  <2> QED
    BY <1>7, <2>1 DEF CancelResolve, TypeOK, history
<1>8. CASE CallFails(t)
  <2>1. deleg' = deleg \/ deleg' = [deleg EXCEPT ![t] = "refused"]
    BY <1>8 DEF CallFails
  <2>2. deleg' \in [Tasks -> {"none", "count", "insert", "inserted", "refused"}]
    BY <2>1 DEF TypeOK
  <2>3. cancel' = cancel \/ cancel' = [cancel EXCEPT ![t] = "failed"]
    BY <1>8 DEF CallFails
  <2>4. cancel' \in [Tasks -> {"none", "write", "child", "resolve", "ended", "failed"}]
    BY <2>3 DEF TypeOK
  <2>5. faults' \in Nat
    BY <1>8 DEF CallFails, Fault, TypeOK
  <2> QED
    BY <1>8, <2>2, <2>4, <2>5 DEF CallFails, TypeOK, taskVars, history
<1> QED
  BY <1>1, <1>2, <1>3, <1>4, <1>5, <1>6, <1>7, <1>8 DEF CallerStep

LEMMA PollTypeOK ==
  ASSUME TypeOK, NEW w \in Workers, PollStep(w)
  PROVE  TypeOK'
<1>1. CASE Poll(w)
  <2>1. FirstAgents(AgentsWithWork) \subseteq Agents
    BY ConstantTypes DEF FirstAgents, AgentsWithWork
  <2>2. worker' \in [Workers -> WorkerState]
    BY <1>1, <2>1 DEF Poll, TypeOK, WorkerState
  <2> QED
    BY <1>1, <2>2 DEF Poll, TypeOK, taskVars, callVars, history
<1>2. CASE CanStartNewSession(w)
  <2>2. worker' \in [Workers -> WorkerState]
    BY <1>2, WorkerAt, ContinueType DEF CanStartNewSession, TypeOK
  <2> QED
    BY <1>2, <2>2 DEF CanStartNewSession, TypeOK, taskVars, callVars, history
<1>3. CASE ClaimNextTask(w)
  <2>1. CASE Continue(w) /\ UNCHANGED <<status, history>>
    <3>1. worker' \in [Workers -> WorkerState]
      BY <2>1, ContinueType
    <3> QED
      BY <1>3, <2>1, <3>1 DEF ClaimNextTask, TypeOK, callVars, history
  <2>2. ASSUME NEW t \in Tasks, SetStatus(t, "claimed"),
               worker' = [worker EXCEPT ![w] =
                 [up |-> "up", at |-> "check", todo |-> worker[w].todo, task |-> t]]
        PROVE  TypeOK'
    <3>1. worker' \in [Workers -> WorkerState]
      BY <2>2 DEF TypeOK, WorkerState
    <3>2. "claimed" \in TaskStatus
      BY DEF TaskStatus, ActiveTask
    <3> QED
      BY <1>3, <2>2, <3>1, <3>2, SetStatusType DEF ClaimNextTask, TypeOK, callVars
  <2> QED
    BY <1>3, <2>1, <2>2 DEF ClaimNextTask, Claimable
<1>4. CASE CheckTask(w)
  <2>1. \/ Continue(w)
        \/ worker' = [worker EXCEPT ![w].at = "failing"]
    BY <1>4 DEF CheckTask
  <2>2. worker' \in [Workers -> WorkerState]
    BY <2>1, WorkerAt, ContinueType, ZenonT(40) DEF TypeOK
  <2>3. PICK r \in RunState : run' = [run EXCEPT ![w][worker[w].task] = r]
    BY <1>4 DEF CheckTask, NoRun, RunState, RunPc
  <2>4. run' \in [Workers -> [Tasks -> RunState]]
    BY <2>3, RunAt DEF TypeOK
  <2> QED
    BY <1>4, <2>2, <2>4 DEF CheckTask, TypeOK, taskVars, callVars, history
<1>5. CASE CheckFailed(w)
  BY <1>5, ContinueType DEF CheckFailed, TypeOK, taskVars, callVars, history
<1> QED
  BY <1>1, <1>2, <1>3, <1>4, <1>5 DEF PollStep

(* The four steps of a goroutine that write a status.                       *)
LEMMA RunTypeOK ==
  ASSUME TypeOK, NEW w \in Workers, NEW t \in Tasks, RunStep(w, t)
  PROVE  TypeOK'
<1> USE DEF TypeOK
<1>0. /\ {"running", "done", "failed"} \subseteq TaskStatus
      /\ {"exec", "failing", "lookup", "complete", "resolving", "ended"} \subseteq RunPc
  BY DEF TaskStatus, ActiveTask, TerminalTask, RunPc
<1>1. CASE SetRunning(w, t)
  BY <1>0, <1>1, GotoType, SetStatusType DEF SetRunning, callVars
<1>2. CASE Execute(w, t)
  <2>1. CASE Goto(w, t, "failing") /\ UNCHANGED sessions
    BY <1>0, <1>2, <2>1, GotoType DEF Execute, taskVars, callVars, history
  <2>2. CASE /\ sessions' = Append(sessions,
                  [agent |-> ToAgent[t], task |-> SanitizeTask(Prompt(t)),
                   status |-> "running", repo |-> TRUE, for |-> t])
             /\ run' = [run EXCEPT ![w][t] =
                  [pc |-> "container", sid |-> Len(sessions) + 1, verdict |-> "none"]]
    <3>1. SanitizeTask(Prompt(t)) \in Texts
      BY ConstantTypes DEF SanitizeTask, Prompt, DelegationPrefix, Texts
    <3>2. [agent |-> ToAgent[t], task |-> SanitizeTask(Prompt(t)),
           status |-> "running", repo |-> TRUE, for |-> t] \in SessionRow
      BY <3>1, ConstantTypes DEF SessionRow, ActiveSession
    <3>3. sessions' \in Seq(SessionRow)
      BY <2>2, <3>2
    <3>4. [pc |-> "container", sid |-> Len(sessions) + 1, verdict |-> "none"] \in RunState
      BY DEF RunState, RunPc
    <3>5. run' \in [Workers -> [Tasks -> RunState]]
      BY <2>2, <3>4, RunAt
    <3> QED
      BY <1>2, <3>3, <3>5 DEF Execute, taskVars, callVars, history
  <2> QED
    BY <1>2, <2>1, <2>2 DEF Execute
<1>3. ASSUME NEW outcome \in TerminalSession, ContainerEnds(w, t, outcome)
      PROVE  TypeOK'
  <2>1. sessions' \in Seq(SessionRow)
    <3>1. run[w][t].sid \in Nat
      BY DEF RunState
    <3> QED
      BY <1>3, <3>1, SessionUpdate DEF ContainerEnds, FinishSession
  <2>2. run' \in [Workers -> [Tasks -> RunState]]
    BY <1>0, <1>3, GotoType DEF ContainerEnds
  <2> QED
    BY <1>3, <2>1, <2>2 DEF ContainerEnds, taskVars, callVars, history
<1>4. CASE FindSession(w, t)
  <2>1. run' \in [Workers -> [Tasks -> RunState]]
    <3>1. CASE Goto(w, t, "failing")
      BY <1>0, <3>1, GotoType
    <3>2. ASSUME NEW i \in Matches(t),
                 run' = [run EXCEPT ![w][t] =
                   [pc |-> "link", sid |-> i, verdict |-> sessions[i].status]]
          PROVE  run' \in [Workers -> [Tasks -> RunState]]
      <4>1. i \in Nat /\ sessions[i].status \in TerminalSession
        BY <3>2 DEF Matches
      <4>2. [pc |-> "link", sid |-> i, verdict |-> sessions[i].status] \in RunState
        BY <4>1 DEF RunState, RunPc
      <4> QED
        BY <3>2, <4>2, RunAt
    <3> QED
      BY <1>4, <3>1, <3>2 DEF FindSession
  <2> QED
    BY <1>4, <2>1 DEF FindSession, taskVars, callVars, history
<1>5. CASE LinkChild(w, t)
  <2>1. AfterLink(w, t) \in RunPc
    BY <1>0 DEF AfterLink
  <2>2. run' \in [Workers -> [Tasks -> RunState]]
    BY <1>5, <2>1, GotoType DEF LinkChild
  <2>3. run[w][t].sid \in Nat
    BY DEF RunState
  <2>4. child' \in [Tasks -> Nat]
    BY <1>5, <2>3 DEF LinkChild
  <2> QED
    BY <1>5, <2>2, <2>4 DEF LinkChild, callVars, history
<1>6. CASE CompleteTask(w, t)
  BY <1>0, <1>6, GotoType, SetStatusType DEF CompleteTask, callVars
<1>7. CASE OnTaskFailed(w, t)
  BY <1>0, <1>7, GotoType, SetStatusType DEF OnTaskFailed, callVars
<1>8. CASE Resolve(w, t)
  BY <1>0, <1>8, GotoType, ResolveType DEF Resolve, callVars, history
<1> QED
  BY <1>1, <1>2, <1>3, <1>4, <1>5, <1>6, <1>7, <1>8 DEF RunStep

LEMMA StatementFailsTypeOK ==
  ASSUME TypeOK, NEW w \in Workers, NEW t \in Tasks, StatementFails(w, t)
  PROVE  TypeOK'
<1>1. PICK pc \in RunPc : Goto(w, t, pc)
  BY DEF StatementFails, AfterLink, RunPc
<1>2. run' \in [Workers -> [Tasks -> RunState]]
  BY <1>1, GotoType DEF TypeOK
<1>3. faults' \in Nat
  BY DEF StatementFails, Fault, TypeOK
<1> QED
  BY <1>2, <1>3 DEF StatementFails, TypeOK, taskVars, callVars, history

LEMMA GoneType ==
  ASSUME TypeOK, NEW w \in Workers, Gone(w)
  PROVE  /\ worker' \in [Workers -> WorkerState]
         /\ run' \in [Workers -> [Tasks -> RunState]]
<1>1. [Idle EXCEPT !.up = "down"] \in WorkerState
  BY DEF Idle, WorkerState
<1>2. ASSUME NEW r \in RunState
      PROVE  [r EXCEPT !.pc = "ended"] \in RunState /\ NoRun \in RunState
  BY DEF RunState, RunPc, NoRun
<1>3. [t \in Tasks |-> IF run[w][t].pc = "none" THEN NoRun
                       ELSE [run[w][t] EXCEPT !.pc = "ended"]] \in [Tasks -> RunState]
  BY <1>2 DEF TypeOK
<1> QED
  BY <1>1, <1>3 DEF Gone, TypeOK

LEMMA ProcessTypeOK ==
  ASSUME TypeOK, NEW w \in Workers, PollFails(w) \/ ProcessStep(w)
  PROVE  TypeOK'
<1> USE DEF TypeOK
<1>1. CASE PollFails(w)
  BY <1>1, ContinueType DEF PollFails, Fault, taskVars, callVars, history
<1>2. CASE Stop(w)
  <2> DEFINE r == worker[w]
  <2>1. r \in WorkerState
    OBVIOUS
  <2> HIDE DEF r
  <2>2. [r EXCEPT !.up = "stopping"] \in WorkerState
    BY <2>1 DEF WorkerState
  <2>3. worker' \in [Workers -> WorkerState]
    BY <1>2, <2>2 DEF Stop, r
  <2> QED
    BY <1>2, <2>3 DEF Stop, Fault, taskVars, callVars, history
<1>3. CASE Exit(w)
  BY <1>3, GoneType DEF Exit, taskVars, callVars, history
<1>4. CASE Crash(w)
  BY <1>4, GoneType DEF Crash, Fault, taskVars, callVars, history
<1>5. CASE Restart(w)
  <2>1. worker' \in [Workers -> WorkerState]
    BY <1>5 DEF Restart, Idle, WorkerState
  <2>2. \A r \in SessionRow : [r EXCEPT !.status = "error"] \in SessionRow
    BY DEF SessionRow, TerminalSession
  <2>3. \A i \in DOMAIN sessions : sessions[i] \in SessionRow
    OBVIOUS
  <2>4. ASSUME NEW i \in DOMAIN sessions
        PROVE  [sessions[i] EXCEPT !.status = "error"] \in SessionRow
    BY <2>2, <2>3
  <2>5. PICK old : sessions' = [i \in DOMAIN sessions |->
           IF i \in old THEN [sessions[i] EXCEPT !.status = "error"] ELSE sessions[i]]
    BY <1>5 DEF Restart
  <2>6. sessions' \in [DOMAIN sessions -> SessionRow]
    BY <2>3, <2>4, <2>5
  <2>7. sessions' \in Seq(SessionRow)
    BY <2>6, MapIsSeq
  <2> QED
    BY <1>5, <2>1, <2>7 DEF Restart, taskVars, callVars, history
<1> QED
  BY <1>1, <1>2, <1>3, <1>4, <1>5 DEF ProcessStep

LEMMA OtherTypeOK ==
  ASSUME TypeOK, OtherStep
  PROVE  TypeOK'
<1> USE DEF TypeOK
<1>1. ASSUME NEW t \in Tasks, OtherSessionStarts(t)
      PROVE  TypeOK'
  <2> DEFINE d == Description[t]
  <2>0. d \in Texts
    BY ConstantTypes
  <2> HIDE DEF d
  <2>1. SanitizeTask(d) \in Texts
    BY <2>0 DEF SanitizeTask, Texts
  <2>2. [agent |-> ToAgent[t], task |-> SanitizeTask(Description[t]),
         status |-> "running", repo |-> TRUE, for |-> NoTask] \in SessionRow
    BY <2>1, ConstantTypes DEF SessionRow, ActiveSession, d
  <2>3. sessions' \in Seq(SessionRow)
    BY <1>1, <2>2 DEF OtherSessionStarts
  <2> QED
    BY <1>1, <2>3 DEF OtherSessionStarts, taskVars, callVars, history
<1>2. ASSUME NEW i \in DOMAIN sessions, NEW outcome \in TerminalSession,
             OtherSessionEnds(i, outcome)
      PROVE  TypeOK'
  <2>1. i \in Nat
    OBVIOUS
  <2>2. sessions' \in Seq(SessionRow)
    BY <1>2, <2>1, SessionUpdate DEF OtherSessionEnds
  <2> QED
    BY <1>2, <2>2 DEF OtherSessionEnds, taskVars, callVars, history
<1> QED
  BY <1>1, <1>2 DEF OtherStep

LEMMA InitTypeOK == Init => TypeOK
<1> SUFFICES ASSUME Init PROVE TypeOK
  OBVIOUS
<1>1. Idle \in WorkerState /\ NoRun \in RunState
  BY DEF Idle, WorkerState, NoRun, RunState, RunPc
<1>2. sessions \in Seq(SessionRow)
  BY DelegationAssumption DEF Init
<1>3. status \in [Tasks -> TaskStatus] /\ created \in Seq(Tasks)
  BY DEF Init, TaskStatus
<1> QED
  BY <1>1, <1>2, <1>3 DEF Init, TypeOK

LEMMA NextTypeOK == TypeOK /\ [Next]_vars => TypeOK'
<1> SUFFICES ASSUME TypeOK, [Next]_vars PROVE TypeOK'
  OBVIOUS
<1>1. CASE Next
  BY <1>1, CallerTypeOK, PollTypeOK, RunTypeOK, StatementFailsTypeOK, ProcessTypeOK,
     OtherTypeOK DEF Next
<1>2. CASE UNCHANGED vars
  BY <1>2 DEF vars, taskVars, callVars, history, TypeOK
<1> QED
  BY <1>1, <1>2

(* Type correctness of the task queue: every row, call, poll and goroutine  *)
(* keeps its shape in every reachable state.                                *)
THEOREM TypeCorrect == Spec => []TypeOK
<1>1. Init => TypeOK
  BY InitTypeOK
<1>2. TypeOK /\ [Next]_vars => TypeOK'
  BY NextTypeOK
<1> QED
  BY <1>1, <1>2, PTL DEF Spec

-----------------------------------------------------------------------------
(***************************************************************************)
(* Safety of the delegated-task queue: no task is executed twice, no task  *)
(* is worked on before its blockers have finished, and a terminal status   *)
(* is final.  All three follow from QueueInv, which every step preserves.  *)
(* Most steps only move one process onwards; Quiet says what such a step   *)
(* may do and QuietInv covers them together.                               *)
(***************************************************************************)

Early(w, t) == Holds(w, t) \/ run[w][t].pc \in {"start", "exec"}

(* Nothing is claimed, inserted, released or started: processes move on.    *)
Quiet ==
  /\ status' = status /\ wanted' = wanted /\ blockedBy' = blockedBy
  /\ \A u \in Tasks :
       /\ deleg'[u] = "inserted" <=> deleg[u] = "inserted"
       /\ cancel'[u] = "none" => cancel[u] = "none"
       /\ cancel'[u] # "none" => status[u] # "absent"
  /\ \A v \in Workers, u \in Tasks :
       /\ Taken(v, u)' => Taken(v, u)
       /\ Live(v, u)' => Live(v, u)
       /\ Early(v, u)' => Early(v, u)
       /\ Holds(v, u)' => Holds(v, u) /\ run'[v][u] = run[v][u]
       /\ run'[v][u].pc = "resolving" => run[v][u].pc = "resolving"
  /\ \A i \in DOMAIN sessions' : sessions'[i].for # NoTask =>
       i \in DOMAIN sessions /\ sessions'[i].for = sessions[i].for

LEMMA ForType ==
  ASSUME TypeOK, NEW i \in DOMAIN sessions
  PROVE  sessions[i].for \in Tasks \cup {NoTask}
<1>1. sessions[i] \in SessionRow
  BY DEF TypeOK
<1> QED
  BY <1>1 DEF SessionRow

LEMMA QuietInv ==
  ASSUME QueueInv, TypeOK', Quiet
  PROVE  QueueInv'
<1>1. \A i \in DOMAIN sessions : sessions[i].for \in Tasks \cup {NoTask}
  BY ForType DEF QueueInv
<1>2. RowInv'
  BY DEF QueueInv, RowInv, Quiet, TypeOK
<1>3. TakenInv'
  BY DEF QueueInv, TakenInv, Quiet
<1>4. SessionInv'
  BY <1>1 DEF QueueInv, SessionInv, Quiet, Early
<1>5. ExecutedOnce'
  BY DEF QueueInv, ExecutedOnce, Quiet
<1>6. WorkInv'
  BY DEF QueueInv, WorkInv, Quiet
<1>7. BlockerInv'
  <2>1. ASSUME NEW b \in Tasks, Finished(b)
        PROVE  Finished(b)'
    BY <2>1 DEF Finished, Quiet
  <2> QED
    BY <2>1 DEF QueueInv, BlockerInv, Quiet, TypeOK
<1> QED
  BY <1>2, <1>3, <1>4, <1>5, <1>6, <1>7 DEF QueueInv

-----------------------------------------------------------------------------
(* What the shared updates of run and worker do to one process and task     *)

LEMMA RunEffect ==
  ASSUME TypeOK, NEW w \in Workers, NEW t \in Tasks, NEW r,
         run' = [run EXCEPT ![w][t] = r]
  PROVE  \A v \in Workers, u \in Tasks :
           run'[v][u] = IF v = w /\ u = t THEN r ELSE run[v][u]
  BY DEF TypeOK

(* CheckTask starts a goroutine, or fails the task in the loop.             *)
LEMMA CheckEffect ==
  ASSUME TypeOK, NEW w \in Workers, NEW STATE t, NEW pc,
         run' = [run EXCEPT ![w][t] = [NoRun EXCEPT !.pc = pc]]
  PROVE  \A v \in Workers, u \in Tasks : run'[v][u] = run[v][u] \/ run'[v][u].pc = pc
<1> DEFINE r == [NoRun EXCEPT !.pc = pc]
<1>1. r.pc = pc
  BY DEF NoRun
<1> HIDE DEF r
<1>2. run' = [run EXCEPT ![w][t] = r]
  BY DEF r
<1>3. ASSUME NEW v \in Workers, NEW u \in Tasks
      PROVE  run'[v][u] = run[v][u] \/ run'[v][u] = r
  BY <1>2 DEF TypeOK
<1> QED
  BY <1>1, <1>3

LEMMA GotoEffect ==
  ASSUME TypeOK, NEW w \in Workers, NEW t \in Tasks, NEW pc, Goto(w, t, pc)
  PROVE  \A v \in Workers, u \in Tasks :
           /\ ~(v = w /\ u = t) => run'[v][u] = run[v][u]
           /\ run'[w][t].pc = pc
  <1>1. run[w][t] \in RunState
    BY DEF TypeOK
  <1>2. [run[w][t] EXCEPT !.pc = pc].pc = pc
    BY <1>1 DEF RunState
  <1> QED
    BY <1>2 DEF Goto, TypeOK

LEMMA ContinueEffect ==
  ASSUME TypeOK, NEW w \in Workers, Continue(w)
  PROVE  /\ \A v \in Workers : v # w => worker'[v] = worker[v]
         /\ worker'[w].at # "check"
  BY DEF Continue, TypeOK

-----------------------------------------------------------------------------
(* Steps that are quiet                                                     *)

(* A goroutine moves from one position to a later one.                      *)
LEMMA GotoQuiet ==
  ASSUME TypeOK, NEW w \in Workers, NEW t \in Tasks, NEW pc, Goto(w, t, pc),
         run[w][t].pc \in LivePc \cup {"resolving"}, ~Holds(w, t),
         pc \in (LivePc \ {"start", "exec"}) \cup {"ended"},
         pc # "ended" => run[w][t].pc \in LivePc,
         UNCHANGED <<status, wanted, blockedBy, deleg, cancel, worker>>,
         \A u \in Tasks : cancel[u] # "none" => status[u] # "absent",
         \A i \in DOMAIN sessions' : sessions'[i].for # NoTask =>
           i \in DOMAIN sessions /\ sessions'[i].for = sessions[i].for
  PROVE  Quiet
<1>1. ASSUME NEW v \in Workers, NEW u \in Tasks
      PROVE  /\ Taken(v, u)' => Taken(v, u)
             /\ Live(v, u)' => Live(v, u)
             /\ Early(v, u)' => Early(v, u)
             /\ Holds(v, u)' => Holds(v, u) /\ run'[v][u] = run[v][u]
             /\ run'[v][u].pc = "resolving" => run[v][u].pc = "resolving"
  BY GotoEffect DEF Taken, Live, Early, Holds, LivePc
<1> QED
  BY <1>1 DEF Quiet

(* Writes to status columns leave the owner of each session alone.          *)
LEMMA StatusKeepsFor ==
  ASSUME NEW S \in Seq(SessionRow), NEW i, NEW st, NEW j \in DOMAIN S
  PROVE  /\ DOMAIN [S EXCEPT ![i].status = st] = DOMAIN S
         /\ [S EXCEPT ![i].status = st][j].for = S[j].for
<1>1. S[j] \in SessionRow
  OBVIOUS
<1> DEFINE r == S[j]
<1> HIDE DEF r
<1>2. [r EXCEPT !.status = st].for = r.for
  BY <1>1 DEF SessionRow, r
<1> QED
  BY <1>2 DEF r

LEMMA PollQuiet ==
  ASSUME QueueInv, NEW w \in Workers,
         \/ Poll(w) \/ CanStartNewSession(w) \/ CheckTask(w) \/ CheckFailed(w) \/ PollFails(w)
         \/ ClaimNextTask(w) /\ Continue(w) /\ status' = status
  PROVE  Quiet
<1> USE DEF QueueInv
<1>1. /\ UNCHANGED <<status, wanted, blockedBy, deleg, cancel, sessions>>
      /\ \A v \in Workers : v # w => worker'[v] = worker[v]
  BY ContinueEffect DEF Poll, CanStartNewSession, CheckTask, CheckFailed, PollFails,
     ClaimNextTask, taskVars, callVars, TypeOK
<1>2. worker'[w].at # "check"
  <2>1. CASE Poll(w)
    BY <2>1 DEF Poll, TypeOK
  <2>2. CASE CanStartNewSession(w)
    <3>1. worker[w] \in WorkerState
      BY DEF TypeOK
    <3>2. [worker[w] EXCEPT !.at = "claim"].at = "claim"
      BY <3>1 DEF WorkerState
    <3> QED
      BY <2>2, <3>2, ContinueEffect DEF CanStartNewSession, TypeOK
  <2>3. CASE CheckTask(w)
    <3>1. worker[w] \in WorkerState
      BY DEF TypeOK
    <3>2. [worker[w] EXCEPT !.at = "failing"].at = "failing"
      BY <3>1 DEF WorkerState
    <3>3. Continue(w) \/ worker' = [worker EXCEPT ![w].at = "failing"]
      BY <2>3 DEF CheckTask
    <3> QED
      BY <3>2, <3>3, ContinueEffect DEF TypeOK
  <2> QED
    BY <2>1, <2>2, <2>3, ContinueEffect DEF CheckFailed, PollFails
<1>3. \/ run' = run
      \/ /\ worker[w].at = "check"
         /\ \/ run' = [run EXCEPT ![w][worker[w].task] = [NoRun EXCEPT !.pc = "start"]]
            \/ run' = [run EXCEPT ![w][worker[w].task] = [NoRun EXCEPT !.pc = "failing"]]
  BY DEF Poll, CanStartNewSession, CheckTask, CheckFailed, PollFails, ClaimNextTask
<1>4. ASSUME NEW v \in Workers, NEW u \in Tasks
      PROVE  \/ run'[v][u] = run[v][u]
             \/ v = w /\ Holds(w, u) /\ run'[v][u].pc \in {"start", "failing"}
  BY <1>3 DEF TypeOK, Holds, NoRun
<1>5. ASSUME NEW v \in Workers, NEW u \in Tasks
      PROVE  /\ Taken(v, u)' => Taken(v, u)
             /\ Live(v, u)' => Live(v, u)
             /\ Early(v, u)' => Early(v, u)
             /\ Holds(v, u)' => Holds(v, u) /\ run'[v][u] = run[v][u]
             /\ run'[v][u].pc = "resolving" => run[v][u].pc = "resolving"
  BY <1>1, <1>2, <1>4 DEF Taken, Live, Early, Holds
<1> QED
  BY <1>1, <1>5 DEF Quiet, RowInv

(* A goroutine is not also in the hand of a poll loop.                      *)
LEMMA RunNotHeld ==
  ASSUME QueueInv, NEW w \in Workers, NEW t \in Tasks, run[w][t].pc # "none"
  PROVE  ~Holds(w, t)
  BY DEF QueueInv, TakenInv

LEMMA RunQuiet ==
  ASSUME QueueInv, NEW w \in Workers, NEW t \in Tasks,
         \/ Execute(w, t) /\ Goto(w, t, "failing") /\ sessions' = sessions
         \/ \E outcome \in TerminalSession : ContainerEnds(w, t, outcome)
         \/ FindSession(w, t) \/ LinkChild(w, t) \/ StatementFails(w, t)
  PROVE  Quiet
<1> USE DEF QueueInv
<1>1. /\ UNCHANGED <<status, wanted, blockedBy, deleg, cancel, worker>>
      /\ \A u \in Tasks : cancel[u] # "none" => status[u] # "absent"
  BY DEF Execute, ContainerEnds, FindSession, LinkChild, StatementFails, taskVars, callVars,
     RowInv
<1>2. \A i \in DOMAIN sessions' : sessions'[i].for # NoTask =>
        i \in DOMAIN sessions /\ sessions'[i].for = sessions[i].for
  <2>1. ASSUME NEW outcome, ContainerEnds(w, t, outcome)
        PROVE  \/ sessions' = sessions
               \/ sessions' = [sessions EXCEPT ![run[w][t].sid].status = outcome]
    BY <2>1 DEF ContainerEnds, FinishSession
  <2>2. ASSUME NEW k, NEW st, sessions' = [sessions EXCEPT ![k].status = st]
        PROVE  \A i \in DOMAIN sessions' : sessions'[i].for # NoTask =>
                 i \in DOMAIN sessions /\ sessions'[i].for = sessions[i].for
    BY <2>2, StatusKeepsFor DEF TypeOK
  <2> QED
    BY <2>1, <2>2 DEF Execute, FindSession, LinkChild, StatementFails
<1>3. ~Holds(w, t) /\ run[w][t].pc \in LivePc \cup {"resolving"}
  BY RunNotHeld DEF Execute, ContainerEnds, FindSession, LinkChild, StatementFails, LivePc
<1>4. CASE \E pc \in (LivePc \ {"start", "exec"}) \cup {"ended"} :
             Goto(w, t, pc) /\ (pc # "ended" => run[w][t].pc \in LivePc)
  BY <1>1, <1>2, <1>3, <1>4, GotoQuiet
<1>5. CASE FindSession(w, t) /\ \E i : run' = [run EXCEPT ![w][t] =
             [pc |-> "link", sid |-> i, verdict |-> sessions[i].status]]
  <2>1. ASSUME NEW v \in Workers, NEW u \in Tasks
        PROVE  \/ run'[v][u] = run[v][u]
               \/ v = w /\ u = t /\ run'[v][u].pc = "link"
    BY <1>5 DEF TypeOK
  <2>2. run[w][t].pc = "lookup"
    BY <1>5 DEF FindSession
  <2>3. ASSUME NEW v \in Workers, NEW u \in Tasks
        PROVE  /\ Taken(v, u)' => Taken(v, u)
               /\ Live(v, u)' => Live(v, u)
               /\ Early(v, u)' => Early(v, u)
               /\ Holds(v, u)' => Holds(v, u) /\ run'[v][u] = run[v][u]
               /\ run'[v][u].pc = "resolving" => run[v][u].pc = "resolving"
    BY <1>1, <1>3, <2>1, <2>2 DEF Taken, Live, Early, Holds, LivePc
  <2> QED
    BY <1>1, <1>2, <2>3 DEF Quiet
<1> QED
  <2>1. CASE Execute(w, t) /\ Goto(w, t, "failing")
    BY <1>4, <2>1 DEF Execute, LivePc
  <2>2. CASE \E outcome \in TerminalSession : ContainerEnds(w, t, outcome)
    BY <1>4, <2>2 DEF ContainerEnds, LivePc
  <2>3. CASE FindSession(w, t)
    BY <1>4, <1>5, <2>3 DEF FindSession, LivePc
  <2>4. CASE LinkChild(w, t)
    BY <1>4, <2>4 DEF LinkChild, AfterLink, LivePc
  <2>5. CASE StatementFails(w, t)
    BY <1>4, <2>5 DEF StatementFails, AfterLink, LivePc
  <2> QED
    BY <2>1, <2>2, <2>3, <2>4, <2>5

LEMMA ProcessQuiet ==
  ASSUME QueueInv, NEW w \in Workers, ProcessStep(w)
  PROVE  Quiet
<1> USE DEF QueueInv
<1>1. UNCHANGED <<status, wanted, blockedBy, deleg, cancel>>
  BY DEF ProcessStep, Stop, Exit, Crash, Restart, taskVars, callVars
<1>2. \A i \in DOMAIN sessions' : sessions'[i].for # NoTask =>
        i \in DOMAIN sessions /\ sessions'[i].for = sessions[i].for
  <2>1. CASE Restart(w)
    <3>1. PICK old : sessions' = [i \in DOMAIN sessions |->
             IF i \in old THEN [sessions[i] EXCEPT !.status = "error"] ELSE sessions[i]]
      BY <2>1 DEF Restart
    <3>2. \A i \in DOMAIN sessions : sessions[i] \in SessionRow
      BY DEF TypeOK
    <3>3. \A r \in SessionRow : [r EXCEPT !.status = "error"].for = r.for
      BY DEF SessionRow
    <3>4. ASSUME NEW i \in DOMAIN sessions
          PROVE  [sessions[i] EXCEPT !.status = "error"].for = sessions[i].for
      BY <3>2, <3>3
    <3> QED
      BY <3>1, <3>4
  <2> QED
    BY <2>1 DEF ProcessStep, Stop, Exit, Crash
<1>3. ASSUME NEW v \in Workers
      PROVE  \/ worker'[v].at = worker[v].at /\ worker'[v].task = worker[v].task
             \/ worker'[v].at = "idle"
  <2>1. CASE Stop(w)
    <3>1. \A r \in WorkerState : LET x == [r EXCEPT !.up = "stopping"]
                                IN  x.at = r.at /\ x.task = r.task
      BY DEF WorkerState
    <3>2. worker[w] \in WorkerState
      BY DEF TypeOK
    <3> QED
      BY <2>1, <3>1, <3>2 DEF Stop, TypeOK
  <2>2. CASE Gone(w)
    BY <2>2 DEF Gone, Idle, TypeOK
  <2>3. CASE Restart(w)
    BY <2>3 DEF Restart, Idle, TypeOK
  <2> QED
    BY <2>1, <2>2, <2>3 DEF ProcessStep, Exit, Crash
<1>4. ASSUME NEW v \in Workers, NEW u \in Tasks
      PROVE  \/ run'[v][u] = run[v][u]
             \/ run'[v][u].pc = "none" /\ worker'[v].at = "idle"
             \/ run'[v][u].pc = "ended" /\ run[v][u].pc # "none" /\ worker'[v].at = "idle"
  <2>1. CASE Gone(w)
    <3>1. \A r \in RunState : [r EXCEPT !.pc = "ended"].pc = "ended"
      BY DEF RunState
    <3>2. run[w][u] \in RunState
      BY DEF TypeOK
    <3>3. [run[w][u] EXCEPT !.pc = "ended"].pc = "ended"
      BY <3>1, <3>2
    <3>4. CASE v = w
      <4>1. run'[v][u] = IF run[w][u].pc = "none" THEN NoRun ELSE [run[w][u] EXCEPT !.pc = "ended"]
        BY <2>1, <3>4 DEF Gone, TypeOK
      <4>2. worker'[v].at = "idle"
        BY <2>1, <3>4 DEF Gone, Idle, TypeOK
      <4> QED
        BY <3>3, <3>4, <4>1, <4>2 DEF NoRun
    <3>5. CASE v # w
      BY <2>1, <3>5 DEF Gone, TypeOK
    <3> QED
      BY <3>4, <3>5
  <2> QED
    BY <2>1 DEF ProcessStep, Stop, Exit, Crash, Restart
<1>5. ASSUME NEW v \in Workers, NEW u \in Tasks
      PROVE  /\ Taken(v, u)' => Taken(v, u)
             /\ Live(v, u)' => Live(v, u)
             /\ Early(v, u)' => Early(v, u)
             /\ Holds(v, u)' => Holds(v, u) /\ run'[v][u] = run[v][u]
             /\ run'[v][u].pc = "resolving" => run[v][u].pc = "resolving"
  BY <1>3, <1>4 DEF Taken, Live, Early, Holds, LivePc
<1> QED
  BY <1>1, <1>2, <1>5 DEF Quiet, RowInv

(* An insert that leaves the status column alone inserted no row.           *)
LEMMA NoRowInserted ==
  ASSUME QueueInv, NEW t \in Tasks, EnqueueInsert(t), status' = status
  PROVE  UNCHANGED <<late, blockedBy>> /\ deleg' = [deleg EXCEPT ![t] = "refused"]
<1>1. status \in [Tasks -> TaskStatus] /\ deleg[t] # "inserted"
  BY DEF QueueInv, TypeOK, EnqueueInsert
<1>2. status[t] = "absent"
  BY <1>1 DEF QueueInv, RowInv
<1>3. [status EXCEPT ![t] = "pending"][t] = "pending"
  BY <1>1
<1>4. status' # [status EXCEPT ![t] = "pending"]
  BY <1>2, <1>3
<1> QED
  BY <1>4 DEF EnqueueInsert

LEMMA CallerQuiet ==
  ASSUME QueueInv, NEW t \in Tasks,
         \/ EnqueueCount(t) \/ CancelRead(t) \/ CancelChild(t) \/ CallFails(t)
         \/ EnqueueInsert(t) /\ status' = status
  PROVE  Quiet
<1> USE DEF QueueInv
<1>1. /\ UNCHANGED <<status, wanted, blockedBy, worker, run>>
      /\ \A u \in Tasks :
           /\ deleg'[u] = "inserted" <=> deleg[u] = "inserted"
           /\ cancel'[u] = "none" => cancel[u] = "none"
           /\ cancel'[u] # "none" => status[u] # "absent"
  <2>1. CASE EnqueueCount(t)
    BY <2>1 DEF EnqueueCount, taskVars, TypeOK, RowInv
  <2>2. CASE CancelRead(t)
    BY <2>2 DEF CancelRead, taskVars, TypeOK, RowInv, ActiveTask
  <2>3. CASE EnqueueInsert(t) /\ status' = status
    <3>1. /\ UNCHANGED <<status, wanted, blockedBy, worker, run, cancel>>
          /\ deleg[t] = "insert" /\ deleg' = [deleg EXCEPT ![t] = "refused"]
      BY <2>3, NoRowInserted DEF EnqueueInsert
    <3>2. \A u \in Tasks : deleg'[u] = "inserted" <=> deleg[u] = "inserted"
      BY <3>1 DEF TypeOK
    <3> QED
      BY <3>1, <3>2 DEF RowInv
  <2>4. CASE CancelChild(t)
    BY <2>4 DEF CancelChild, taskVars, TypeOK, RowInv
  <2>5. CASE CallFails(t)
    BY <2>5 DEF CallFails, taskVars, TypeOK, RowInv
  <2> QED
    BY <2>1, <2>2, <2>3, <2>4, <2>5
<1>2. /\ \A v \in Workers, u \in Tasks :
           /\ Taken(v, u)' <=> Taken(v, u)
           /\ Live(v, u)' <=> Live(v, u)
           /\ Early(v, u)' <=> Early(v, u)
           /\ Holds(v, u)' <=> Holds(v, u)
      /\ run' = run
  BY <1>1 DEF Taken, Live, Early, Holds
<1>3. \A i \in DOMAIN sessions' : sessions'[i].for # NoTask =>
        i \in DOMAIN sessions /\ sessions'[i].for = sessions[i].for
  <2>1. ASSUME NEW k, NEW st, sessions' = [sessions EXCEPT ![k].status = st]
        PROVE  \A i \in DOMAIN sessions' : sessions'[i].for # NoTask =>
                 i \in DOMAIN sessions /\ sessions'[i].for = sessions[i].for
    BY <2>1, StatusKeepsFor DEF TypeOK
  <2>2. \/ sessions' = sessions
        \/ sessions' = [sessions EXCEPT ![seen[t]].status = "cancelling"]
    BY DEF EnqueueCount, CancelRead, CancelChild, CallFails, EnqueueInsert
  <2> QED
    BY <2>1, <2>2
<1> QED
  BY <1>1, <1>2, <1>3 DEF Quiet

LEMMA OtherQuiet ==
  ASSUME QueueInv, OtherStep
  PROVE  Quiet
<1> USE DEF QueueInv
<1>1. UNCHANGED <<status, wanted, blockedBy, deleg, cancel, worker, run>>
  BY DEF OtherStep, OtherSessionStarts, OtherSessionEnds, taskVars, callVars
<1>2. \A i \in DOMAIN sessions' : sessions'[i].for # NoTask =>
        i \in DOMAIN sessions /\ sessions'[i].for = sessions[i].for
  <2>1. ASSUME NEW t \in Tasks, OtherSessionStarts(t)
        PROVE  \A i \in DOMAIN sessions' : sessions'[i].for # NoTask =>
                 i \in DOMAIN sessions /\ sessions'[i].for = sessions[i].for
    BY <2>1 DEF OtherSessionStarts, TypeOK
  <2>2. ASSUME NEW k, NEW st, OtherSessionEnds(k, st)
        PROVE  \A i \in DOMAIN sessions' : sessions'[i].for # NoTask =>
                 i \in DOMAIN sessions /\ sessions'[i].for = sessions[i].for
    BY <2>2, StatusKeepsFor DEF OtherSessionEnds, TypeOK
  <2> QED
    BY <2>1, <2>2 DEF OtherStep
<1> QED
  BY <1>1, <1>2 DEF Quiet, Taken, Live, Early, Holds, RowInv

-----------------------------------------------------------------------------
(* Steps that are not quiet, one lemma each                                 *)

Columns ==
  /\ status \in [Tasks -> TaskStatus]
  /\ blockedBy \in [Tasks -> SUBSET Tasks] /\ wanted \in [Tasks -> SUBSET Tasks]
  /\ DOMAIN deleg = Tasks /\ DOMAIN cancel = Tasks

LEMMA ColumnsOK ==
  ASSUME TypeOK PROVE Columns
  BY DEF TypeOK, Columns

LEMMA DelegateInv ==
  ASSUME QueueInv, TypeOK', NEW t \in Tasks, NEW s, NEW B \in SUBSET Rows,
         Delegate(t, s, B)
  PROVE  QueueInv'
<1> USE DEF QueueInv
<1>0. Columns
  BY ColumnsOK
<1>1. /\ UNCHANGED <<status, blockedBy, sessions, cancel, worker, run>>
      /\ wanted' = [wanted EXCEPT ![t] = B]
      /\ deleg' = [deleg EXCEPT ![t] = "count"]
      /\ status[t] = "absent"
  BY DEF Delegate
<1>2. RowInv'
  BY <1>0, <1>1 DEF RowInv, Rows, Columns
<1>3. TakenInv' /\ WorkInv' /\ SessionInv' /\ ExecutedOnce'
  BY <1>1 DEF TakenInv, WorkInv, SessionInv, ExecutedOnce, Taken, Live, Holds
<1>4. BlockerInv'
  <2>1. \A b \in Tasks : Finished(b)' <=> Finished(b)
    BY <1>1 DEF Finished, Live, Holds
  <2>2. \A u \in Tasks, w \in Workers : Taken(w, u)' <=> Taken(w, u)
    BY <1>1 DEF Taken, Holds
  <2>3. \A w \in Workers : ~Taken(w, t)
    BY <1>1 DEF TakenInv
  <2> QED
    BY <1>0, <1>1, <2>1, <2>2, <2>3 DEF BlockerInv, Columns
<1> QED
  BY <1>2, <1>3, <1>4

LEMMA EnqueueInsertInv ==
  ASSUME QueueInv, TypeOK', NEW t \in Tasks, EnqueueInsert(t), status' # status
  PROVE  QueueInv'
<1> USE DEF QueueInv
<1>0. Columns
  BY ColumnsOK
<1>1. /\ UNCHANGED <<wanted, sessions, cancel, worker, run>>
      /\ status' = [status EXCEPT ![t] = "pending"]
      /\ blockedBy' = [blockedBy EXCEPT ![t] = wanted[t]]
      /\ deleg' = [deleg EXCEPT ![t] = "inserted"]
      /\ status[t] = "absent"
  BY DEF EnqueueInsert, RowInv
<1>2. RowInv'
  BY <1>0, <1>1 DEF RowInv, Columns
<1>3. \A w \in Workers : ~Taken(w, t)
  BY <1>1 DEF TakenInv
<1>4. TakenInv'
  BY <1>0, <1>1, <1>3 DEF TakenInv, Taken, Holds, Columns
<1>5. WorkInv'
  BY <1>0, <1>1, <1>3 DEF WorkInv, Taken, Live, LivePc, Holds, Columns
<1>6. SessionInv' /\ ExecutedOnce'
  <2>1. \A i \in DOMAIN sessions : sessions[i].for \in Tasks \cup {NoTask}
    BY ForType
  <2> QED
    BY <1>0, <1>1, <2>1 DEF SessionInv, ExecutedOnce, Holds, Columns
<1>7. BlockerInv'
  <2>1. \A b \in Tasks : Finished(b) => Finished(b)'
    BY <1>0, <1>1 DEF Finished, Live, Holds, Columns
  <2>2. \A u \in Tasks, w \in Workers : Taken(w, u)' <=> Taken(w, u)
    BY <1>1 DEF Taken, Holds
  <2> QED
    BY <1>0, <1>1, <1>3, <2>1, <2>2 DEF BlockerInv, Columns
<1> QED
  BY <1>2, <1>4, <1>5, <1>6, <1>7

LEMMA CancelWriteInv ==
  ASSUME QueueInv, TypeOK', NEW t \in Tasks, CancelWrite(t)
  PROVE  QueueInv'
<1> USE DEF QueueInv
<1>0. Columns
  BY ColumnsOK
<1>1. /\ UNCHANGED <<wanted, blockedBy, deleg, sessions, worker, run>>
      /\ status' = [status EXCEPT ![t] = "cancelled"]
      /\ cancel' = [cancel EXCEPT ![t] = "child"]
      /\ cancel[t] = "write" /\ status[t] # "absent"
  BY DEF CancelWrite, SetStatus, RowInv
<1>2. RowInv'
  BY <1>0, <1>1 DEF RowInv, Columns
<1>3. TakenInv'
  BY <1>0, <1>1 DEF TakenInv, Taken, Holds, Columns
<1>4. WorkInv'
  BY <1>0, <1>1 DEF WorkInv, Live, Holds, Columns
<1>5. SessionInv' /\ ExecutedOnce'
  <2>1. \A i \in DOMAIN sessions : sessions[i].for \in Tasks \cup {NoTask}
    BY ForType
  <2> QED
    BY <1>0, <1>1, <2>1 DEF SessionInv, ExecutedOnce, Holds, Columns
<1>6. BlockerInv'
  <2>1. \A b \in Tasks : b # t /\ Finished(b) => Finished(b)'
    BY <1>0, <1>1 DEF Finished, Live, Holds, Columns
  <2>2. \A u \in Tasks, w \in Workers : Taken(w, u)' <=> Taken(w, u)
    BY <1>1 DEF Taken, Holds
  <2> QED
    BY <1>0, <1>1, <2>1, <2>2 DEF BlockerInv, Columns
<1> QED
  BY <1>2, <1>3, <1>4, <1>5, <1>6

LEMMA CancelResolveInv ==
  ASSUME QueueInv, TypeOK', NEW t \in Tasks, CancelResolve(t)
  PROVE  QueueInv'
<1> USE DEF QueueInv
<1>0. Columns
  BY ColumnsOK
<1>1. /\ UNCHANGED <<status, wanted, deleg, sessions, worker, run>>
      /\ \A u \in Tasks :
           blockedBy'[u] \subseteq blockedBy[u] /\ blockedBy[u] \subseteq blockedBy'[u] \cup {t}
      /\ cancel' = [cancel EXCEPT ![t] = "ended"]
      /\ cancel[t] = "resolve" /\ status[t] # "absent"
  BY DEF CancelResolve, ResolveDependencies, RowInv
<1>2. RowInv'
  BY <1>0, <1>1 DEF RowInv, Columns
<1>3. TakenInv' /\ WorkInv'
  BY <1>0, <1>1 DEF TakenInv, WorkInv, Taken, Live, Holds, Columns
<1>4. SessionInv' /\ ExecutedOnce'
  BY <1>1 DEF SessionInv, ExecutedOnce, Holds
<1>5. BlockerInv'
  <2>1. \A b \in Tasks : Finished(b) => Finished(b)'
    BY <1>1 DEF Finished, Live, Holds
  <2>2. \A u \in Tasks, w \in Workers : Taken(w, u)' <=> Taken(w, u)
    BY <1>1 DEF Taken, Holds
  <2> QED
    BY <1>0, <1>1, <2>1, <2>2 DEF BlockerInv, Columns
<1> QED
  BY <1>2, <1>3, <1>4, <1>5

(* The claim: no blocker of a claimable row exists that is not done, so     *)
(* every one of them is finished, or was cancelled.                         *)
LEMMA ClaimInv ==
  ASSUME QueueInv, TypeOK', NEW w \in Workers, ClaimNextTask(w), status' # status
  PROVE  QueueInv'
<1> USE DEF QueueInv
<1>0. Columns
  BY ColumnsOK
<1>1. PICK t \in Tasks :
        /\ status[t] = "pending"
        /\ \A b \in blockedBy[t] : status[b] \in {"absent", "done"}
        /\ SetStatus(t, "claimed")
        /\ worker' = [worker EXCEPT ![w] =
             [up |-> "up", at |-> "check", todo |-> worker[w].todo, task |-> t]]
  BY DEF ClaimNextTask, Claimable
<1>2. /\ UNCHANGED <<wanted, blockedBy, deleg, cancel, sessions, run>>
      /\ status' = [status EXCEPT ![t] = "claimed"]
      /\ worker[w].at = "claim"
  BY <1>1 DEF ClaimNextTask, SetStatus, callVars
<1>3. \A v \in Workers : ~Taken(v, t)
  BY <1>1 DEF TakenInv
<1>4. ASSUME NEW v \in Workers, NEW u \in Tasks
      PROVE  Holds(v, u)' <=> Holds(v, u) \/ (v = w /\ u = t)
  BY <1>1, <1>2 DEF Holds, TypeOK
<1>5. RowInv'
  BY <1>0, <1>1, <1>2 DEF RowInv, Columns
<1>6. TakenInv'
  BY <1>0, <1>1, <1>2, <1>3, <1>4 DEF TakenInv, Taken, Columns
<1>7. WorkInv'
  BY <1>0, <1>1, <1>2, <1>3, <1>4 DEF WorkInv, Live, Taken, LivePc, Columns
<1>8. SessionInv' /\ ExecutedOnce'
  <2>1. \A i \in DOMAIN sessions : sessions[i].for \in Tasks \cup {NoTask}
    BY ForType
  <2> QED
    BY <1>0, <1>1, <1>2, <1>4, <2>1 DEF SessionInv, ExecutedOnce, Columns
<1>9. BlockerInv'
  <2>1. \A b \in Tasks : Finished(b) => Finished(b)'
    BY <1>0, <1>1, <1>2, <1>4 DEF Finished, Live, Columns
  <2>2. ASSUME NEW b \in wanted[t], cancel[b] = "none"
        PROVE  Finished(b)
    <3>1. b \in Tasks /\ status[b] # "absent"
      BY <1>0 DEF RowInv, Columns
    <3>2. CASE b \notin blockedBy[t]
      BY <1>1, <2>2, <3>2 DEF BlockerInv
    <3>3. CASE b \in blockedBy[t]
      BY <1>1, <2>2, <3>1, <3>3 DEF WorkInv, Finished
    <3> QED
      BY <3>2, <3>3
  <2>3. ASSUME NEW u \in Tasks, u # t, NEW v \in Workers
        PROVE  Taken(v, u)' <=> Taken(v, u)
    BY <1>2, <1>4, <2>3 DEF Taken
  <2> QED
    BY <1>0, <1>1, <1>2, <2>1, <2>2, <2>3 DEF BlockerInv, Columns
<1> QED
  BY <1>5, <1>6, <1>7, <1>8, <1>9

LEMMA SetRunningInv ==
  ASSUME QueueInv, TypeOK', NEW w \in Workers, NEW t \in Tasks, SetRunning(w, t)
  PROVE  QueueInv'
<1> USE DEF QueueInv
<1>0. Columns
  BY ColumnsOK
<1>1. /\ UNCHANGED <<wanted, blockedBy, deleg, cancel, sessions, worker>>
      /\ status' = [status EXCEPT ![t] = "running"]
      /\ run[w][t].pc = "start" /\ Goto(w, t, "exec")
  BY DEF SetRunning, SetStatus, callVars
<1>2. Live(w, t) /\ Taken(w, t)
  BY <1>1 DEF Live, Taken, LivePc
<1>3. status[t] \notin {"absent", "pending"}
  BY <1>2 DEF TakenInv
<1>4. ASSUME NEW v \in Workers, NEW u \in Tasks
      PROVE  /\ Holds(v, u)' <=> Holds(v, u)
             /\ Live(v, u)' <=> Live(v, u)
             /\ Taken(v, u)' <=> Taken(v, u)
             /\ Early(v, u)' <=> Early(v, u)
             /\ run'[v][u].pc = "resolving" <=> run[v][u].pc = "resolving"
             /\ run'[v][u].pc = "none" <=> run[v][u].pc = "none"
  BY <1>1, GotoEffect DEF Holds, Live, Taken, Early, LivePc
<1>5. RowInv'
  BY <1>0, <1>1, <1>3 DEF RowInv, Columns
<1>6. TakenInv'
  BY <1>0, <1>1, <1>4 DEF TakenInv, Columns
<1>7. WorkInv'
  <2>1. \A v \in Workers : run[v][t].pc # "resolving"
    BY <1>1, <1>2 DEF TakenInv, Taken
  <2>2. status'[t] = "running" /\ \A u \in Tasks : u # t => status'[u] = status[u]
    BY <1>1 DEF TypeOK
  <2>3. ASSUME NEW v \in Workers, NEW u \in Tasks, cancel[u] = "none"
        PROVE  /\ Live(v, u)' => status'[u] \in {"claimed", "running"}
               /\ run'[v][u].pc = "resolving" => status'[u] \in {"done", "failed"}
    BY <1>4, <2>1, <2>2, <2>3 DEF WorkInv
  <2> QED
    BY <1>1, <2>3 DEF WorkInv
<1>8. SessionInv' /\ ExecutedOnce'
  <2>1. \A i \in DOMAIN sessions : sessions[i].for \in Tasks \cup {NoTask}
    BY ForType
  <2> QED
    BY <1>0, <1>1, <1>4, <2>1 DEF SessionInv, ExecutedOnce, Early, Columns
<1>9. BlockerInv'
  <2>1. \A b \in Tasks : Finished(b) => b # t /\ Finished(b)'
    BY <1>0, <1>1, <1>2, <1>4 DEF Finished, Columns
  <2>2. \A b \in wanted[t] : cancel[b] = "none" => Finished(b)
    BY <1>2 DEF BlockerInv
  <2> QED
    BY <1>0, <1>1, <1>3, <1>4, <2>1, <2>2 DEF BlockerInv, Columns
<1> QED
  BY <1>5, <1>6, <1>7, <1>8, <1>9

(* The session row: nobody else holds the task, and it has none before.     *)
LEMMA ExecuteInv ==
  ASSUME QueueInv, TypeOK', NEW w \in Workers, NEW t \in Tasks, Execute(w, t),
         sessions' # sessions
  PROVE  QueueInv'
<1> USE DEF QueueInv
<1>0. Columns
  BY ColumnsOK
<1> DEFINE row == [agent |-> ToAgent[t], task |-> SanitizeTask(Prompt(t)),
                   status |-> "running", repo |-> TRUE, for |-> t]
<1>1. /\ UNCHANGED <<status, wanted, blockedBy, deleg, cancel, worker>>
      /\ run[w][t].pc = "exec"
      /\ sessions' = Append(sessions, row)
      /\ run' = [run EXCEPT ![w][t] =
           [pc |-> "container", sid |-> Len(sessions) + 1, verdict |-> "none"]]
  BY DEF Execute, taskVars, callVars
<1>2. Live(w, t) /\ Taken(w, t)
  BY <1>1 DEF Live, Taken, LivePc
<1>3. ASSUME NEW v \in Workers, NEW u \in Tasks
      PROVE  run'[v][u] = IF v = w /\ u = t
               THEN [pc |-> "container", sid |-> Len(sessions) + 1, verdict |-> "none"]
               ELSE run[v][u]
  BY <1>1 DEF TypeOK
<1>4. ASSUME NEW v \in Workers, NEW u \in Tasks
      PROVE  /\ Holds(v, u)' <=> Holds(v, u)
             /\ Live(v, u)' <=> Live(v, u)
             /\ Taken(v, u)' <=> Taken(v, u)
             /\ Early(v, u)' => Early(v, u) /\ ~(v = w /\ u = t)
             /\ run'[v][u].pc = "resolving" <=> run[v][u].pc = "resolving"
             /\ run'[v][u].pc = "none" <=> run[v][u].pc = "none"
  <2>1. ~Holds(w, t)
    BY <1>1 DEF TakenInv
  <2> QED
    BY <1>1, <1>3, <2>1 DEF Holds, Live, Taken, Early, LivePc
<1>5. RowInv'
  BY <1>1 DEF RowInv
<1>6. TakenInv'
  BY <1>1, <1>4 DEF TakenInv
<1>7. WorkInv'
  BY <1>1, <1>4 DEF WorkInv
<1>8. \A i \in DOMAIN sessions' :
        \/ i \in DOMAIN sessions /\ sessions'[i] = sessions[i] /\ sessions[i].for # t
        \/ i = Len(sessions) + 1 /\ sessions'[i].for = t
  <2>1. \A i \in DOMAIN sessions : sessions[i].for # t
    BY <1>1, ConstantTypes DEF SessionInv
  <2> QED
    BY <1>1, <2>1 DEF TypeOK
<1>9. SessionInv'
  <2>1. \A i \in DOMAIN sessions : sessions[i].for \in Tasks \cup {NoTask}
    BY ForType
  <2>2. status[t] \notin {"absent", "pending"} /\ \A v \in Workers : ~Early(v, t)'
    BY <1>2, <1>4 DEF TakenInv, Early, Taken
  <2> QED
    BY <1>1, <1>4, <1>8, <2>1, <2>2 DEF SessionInv, Early
<1>10. ExecutedOnce'
  BY <1>8 DEF ExecutedOnce
<1>11. BlockerInv'
  <2>1. \A b \in Tasks : Finished(b) => Finished(b)'
    BY <1>1, <1>4 DEF Finished
  <2> QED
    BY <1>0, <1>1, <1>4, <2>1 DEF BlockerInv, Columns
<1> QED
  BY <1>5, <1>6, <1>7, <1>9, <1>10, <1>11

(* OnTaskComplete or OnTaskFailed writes the status of a task in work.      *)
LEMMA FinishInv ==
  ASSUME QueueInv, TypeOK', NEW w \in Workers, NEW t \in Tasks,
         CompleteTask(w, t) \/ OnTaskFailed(w, t)
  PROVE  QueueInv'
<1> USE DEF QueueInv
<1>0. Columns
  BY ColumnsOK
<1>1. /\ UNCHANGED <<wanted, blockedBy, deleg, cancel, sessions, worker>>
      /\ \/ status' = [status EXCEPT ![t] = "done"]
         \/ status' = [status EXCEPT ![t] = "failed"]
      /\ run[w][t].pc \in {"complete", "failing"} /\ Goto(w, t, "resolving")
  BY DEF CompleteTask, OnTaskFailed, SetStatus, callVars
<1>2. Live(w, t) /\ Taken(w, t) /\ ~Holds(w, t)
  BY <1>1, RunNotHeld DEF Live, Taken, LivePc
<1>3. status[t] \notin {"absent", "pending"} /\ status'[t] \in {"done", "failed"}
  BY <1>0, <1>1, <1>2 DEF TakenInv, Columns
<1>4. ASSUME NEW v \in Workers, NEW u \in Tasks
      PROVE  /\ Holds(v, u)' <=> Holds(v, u)
             /\ Live(v, u)' <=> Live(v, u) /\ u # t
             /\ Taken(v, u)' <=> Taken(v, u)
             /\ Early(v, u)' => Early(v, u)
             /\ run'[v][u].pc = "resolving" => run[v][u].pc = "resolving" \/ u = t
             /\ run'[v][u].pc = "none" <=> run[v][u].pc = "none"
  <2>1. v # w => ~Taken(v, t)
    BY <1>2 DEF TakenInv
  <2> QED
    BY <1>1, <1>2, <2>1, GotoEffect DEF Holds, Live, Taken, Early, LivePc
<1>5. RowInv'
  BY <1>0, <1>1, <1>3 DEF RowInv, Columns
<1>6. TakenInv'
  BY <1>0, <1>1, <1>4 DEF TakenInv, Columns
<1>7. WorkInv'
  <2>1. ASSUME NEW v \in Workers, NEW u \in Tasks, cancel[u] = "none"
        PROVE  /\ Live(v, u)' => status'[u] \in {"claimed", "running"}
               /\ run'[v][u].pc = "resolving" => status'[u] \in {"done", "failed"}
    BY <1>0, <1>1, <1>3, <1>4, <2>1 DEF WorkInv, Columns
  <2> QED
    BY <1>1, <2>1 DEF WorkInv
<1>8. SessionInv' /\ ExecutedOnce'
  <2>1. \A i \in DOMAIN sessions : sessions[i].for \in Tasks \cup {NoTask}
    BY ForType
  <2>2. \A u \in Tasks : u # t => status'[u] = status[u]
    BY <1>1 DEF TypeOK
  <2>3. sessions' = sessions
    BY <1>1
  <2>4. SessionInv'
    BY <1>3, <1>4, <2>1, <2>2, <2>3 DEF SessionInv, Early
  <2> QED
    BY <2>3, <2>4 DEF ExecutedOnce
<1>9. BlockerInv'
  <2>1. \A b \in Tasks : Finished(b) => b # t /\ Finished(b)'
    BY <1>0, <1>1, <1>2, <1>4 DEF Finished, Columns
  <2> QED
    BY <1>0, <1>1, <1>3, <1>4, <2>1 DEF BlockerInv, Columns
<1> QED
  BY <1>5, <1>6, <1>7, <1>8, <1>9

(* Dependents are released after the status was written, by the process     *)
(* that alone had the task: it is finished, or somebody cancelled it.       *)
LEMMA ResolveInv ==
  ASSUME QueueInv, TypeOK', NEW w \in Workers, NEW t \in Tasks, Resolve(w, t)
  PROVE  QueueInv'
<1> USE DEF QueueInv
<1>0. Columns
  BY ColumnsOK
<1>1. /\ UNCHANGED <<status, wanted, deleg, cancel, sessions, worker>>
      /\ \A u \in Tasks :
           blockedBy'[u] \subseteq blockedBy[u] /\ blockedBy[u] \subseteq blockedBy'[u] \cup {t}
      /\ run[w][t].pc = "resolving" /\ Goto(w, t, "ended")
  BY DEF Resolve, ResolveDependencies, callVars
<1>2. Taken(w, t) /\ ~Holds(w, t)
  BY <1>1, RunNotHeld DEF Taken
<1>3. ASSUME NEW v \in Workers, NEW u \in Tasks
      PROVE  /\ Holds(v, u)' <=> Holds(v, u)
             /\ Live(v, u)' <=> Live(v, u)
             /\ Taken(v, u)' <=> Taken(v, u)
             /\ Early(v, u)' => Early(v, u)
             /\ run'[v][u].pc = "resolving" => run[v][u].pc = "resolving"
             /\ run'[v][u].pc = "none" <=> run[v][u].pc = "none"
  BY <1>1, <1>2, GotoEffect DEF Holds, Live, Taken, Early, LivePc
<1>4. cancel[t] = "none" => Finished(t)
  <2>1. \A v \in Workers : ~Live(v, t)
    BY <1>1, <1>2 DEF TakenInv, Taken, Live, LivePc
  <2> QED
    BY <1>1, <2>1 DEF WorkInv, Finished
<1>5. RowInv'
  BY <1>0, <1>1 DEF RowInv, Columns
<1>6. TakenInv'
  BY <1>1, <1>3 DEF TakenInv
<1>7. WorkInv'
  BY <1>1, <1>3 DEF WorkInv
<1>8. SessionInv' /\ ExecutedOnce'
  <2>1. \A i \in DOMAIN sessions : sessions[i].for \in Tasks \cup {NoTask}
    BY ForType
  <2> QED
    BY <1>1, <1>3, <2>1 DEF SessionInv, ExecutedOnce, Early
<1>9. BlockerInv'
  <2>1. \A b \in Tasks : Finished(b) => Finished(b)'
    BY <1>1, <1>3 DEF Finished
  <2> QED
    BY <1>0, <1>1, <1>3, <1>4, <2>1 DEF BlockerInv, Columns
<1> QED
  BY <1>5, <1>6, <1>7, <1>8, <1>9

-----------------------------------------------------------------------------
(* The theorems                                                             *)

LEMMA InitInv == Init => QueueInv
<1> SUFFICES ASSUME Init PROVE QueueInv
  OBVIOUS
<1>1. TypeOK
  BY InitTypeOK
<1>2. \A i \in DOMAIN sessions : sessions[i].for = NoTask
  BY DelegationAssumption DEF Init
<1>3. SessionInv /\ ExecutedOnce
  BY <1>2 DEF SessionInv, ExecutedOnce
<1>4. RowInv /\ TakenInv /\ WorkInv /\ BlockerInv
  BY DEF Init, RowInv, TakenInv, WorkInv, BlockerInv, Taken, Live, LivePc, Holds, Idle, NoRun
<1> QED
  BY <1>1, <1>3, <1>4 DEF QueueInv

LEMMA NextInv == QueueInv /\ [Next]_vars => QueueInv'
<1> SUFFICES ASSUME QueueInv, [Next]_vars PROVE QueueInv'
  OBVIOUS
<1>1. TypeOK'
  BY NextTypeOK DEF QueueInv
<1>2. ASSUME NEW t \in Tasks, CallerStep(t)
      PROVE  QueueInv'
  BY <1>1, <1>2, DelegateInv, CallerQuiet, QuietInv, EnqueueInsertInv, CancelWriteInv,
     CancelResolveInv DEF CallerStep
<1>3. ASSUME NEW w \in Workers, PollStep(w) \/ PollFails(w)
      PROVE  QueueInv'
  <2>1. CASE ClaimNextTask(w) /\ status' = status
    <3>1. Continue(w)
      BY <2>1 DEF ClaimNextTask, Claimable, SetStatus, QueueInv, TypeOK
    <3> QED
      BY <1>1, <2>1, <3>1, PollQuiet, QuietInv
  <2>2. CASE ClaimNextTask(w) /\ status' # status
    BY <1>1, <2>2, ClaimInv
  <2> QED
    BY <1>1, <1>3, <2>1, <2>2, PollQuiet, QuietInv DEF PollStep
<1>4. ASSUME NEW w \in Workers, NEW t \in Tasks, RunStep(w, t) \/ StatementFails(w, t)
      PROVE  QueueInv'
  <2>1. CASE Execute(w, t) /\ sessions' = sessions
    <3>1. Goto(w, t, "failing")
      BY <2>1 DEF Execute, QueueInv, TypeOK
    <3> QED
      BY <1>1, <2>1, <3>1, RunQuiet, QuietInv
  <2>2. CASE Execute(w, t) /\ sessions' # sessions
    BY <1>1, <2>2, ExecuteInv
  <2> QED
    BY <1>1, <1>4, <2>1, <2>2, SetRunningInv, FinishInv, ResolveInv, RunQuiet, QuietInv DEF RunStep
<1>5. ASSUME NEW w \in Workers, ProcessStep(w)
      PROVE  QueueInv'
  BY <1>1, <1>5, ProcessQuiet, QuietInv
<1>6. CASE OtherStep
  BY <1>1, <1>6, OtherQuiet, QuietInv
<1>7. CASE UNCHANGED vars
  <2>1. UNCHANGED <<status, wanted, blockedBy, deleg, cancel, worker, run, sessions>>
    BY <1>7 DEF vars, taskVars, callVars
  <2> QED
    BY <1>1, <2>1 DEF QueueInv, RowInv, TakenInv, SessionInv, ExecutedOnce, WorkInv, BlockerInv,
       Taken, Live, Holds, Finished
<1> QED
  BY <1>2, <1>3, <1>4, <1>5, <1>6, <1>7 DEF Next

(* The invariant of the task queue, for every number of processes, tasks,   *)
(* faults and cancellations: who may hold a task, what its row says then,   *)
(* and what its blockers look like.                                         *)
THEOREM QueueCorrect == Spec => []QueueInv
<1>1. Init => QueueInv
  BY InitInv
<1>2. QueueInv /\ [Next]_vars => QueueInv'
  BY NextInv
<1> QED
  BY <1>1, <1>2, PTL DEF Spec

(* No delegated task is executed twice, whatever the polls, crashes,        *)
(* restarts and cancellations do.                                           *)
THEOREM ExecutedOnceCorrect == Spec => []ExecutedOnce
<1>1. QueueInv => ExecutedOnce
  BY DEF QueueInv
<1> QED
  BY <1>1, QueueCorrect, PTL

(* A claimed or running task has only finished or cancelled blockers.       *)
THEOREM BlockersFinishedCorrect == Spec => []BlockersFinished
<1>1. QueueInv => BlockersFinished
  BY DEF QueueInv, BlockerInv, TypeOK, BlockersFinished, Finished, Live, Executing, LivePc
<1> QED
  BY <1>1, QueueCorrect, PTL

(* The unconditional status writes never change the terminal status of a    *)
(* task nobody cancels.                                                     *)
THEOREM TerminalIsFinalCorrect == Spec => TerminalIsFinal
<1> DEFINE Final == \A t \in Tasks : status[t] \in TerminalTask /\ cancel[t] = "none"
                      => status'[t] = status[t]
<1>1. ASSUME QueueInv, Next PROVE Final
  <2> USE DEF QueueInv
  <2> SUFFICES ASSUME NEW u \in Tasks, status[u] \in TerminalTask, cancel[u] = "none"
               PROVE  status'[u] = status[u]
    OBVIOUS
  <2>1. ASSUME NEW t \in Tasks, CallerStep(t)
        PROVE  status'[u] = status[u]
    <3>1. \/ status' = status
          \/ deleg[t] = "insert" /\ status' = [status EXCEPT ![t] = "pending"]
          \/ cancel[t] = "write" /\ status' = [status EXCEPT ![t] = "cancelled"]
      BY <2>1 DEF CallerStep, Delegate, EnqueueCount, EnqueueInsert, CancelRead, CancelWrite,
         CancelChild, CancelResolve, CallFails, SetStatus, taskVars
    <3>2. CASE deleg[t] = "insert" /\ status' = [status EXCEPT ![t] = "pending"]
      <4>1. status[t] = "absent"
        BY <1>1, <3>2 DEF RowInv
      <4>2. u # t
        BY <4>1 DEF TerminalTask
      <4> QED
        BY <1>1, <3>2, <4>2 DEF TypeOK
    <3>3. CASE cancel[t] = "write" /\ status' = [status EXCEPT ![t] = "cancelled"]
      BY <1>1, <3>3 DEF TypeOK
    <3> QED
      BY <3>1, <3>2, <3>3
  <2>2. ASSUME NEW w \in Workers, PollStep(w)
        PROVE  status'[u] = status[u]
    <3>1. CASE ClaimNextTask(w)
      <4>1. \/ status' = status
            \/ \E t \in Tasks : status[t] = "pending" /\ status' = [status EXCEPT ![t] = "claimed"]
        BY <3>1 DEF ClaimNextTask, Claimable, SetStatus
      <4> QED
        BY <1>1, <4>1 DEF TypeOK, TerminalTask
    <3> QED
      BY <2>2, <3>1 DEF PollStep, Poll, CanStartNewSession, CheckTask, CheckFailed, taskVars
  <2>3. ASSUME NEW w \in Workers, NEW t \in Tasks, RunStep(w, t)
        PROVE  status'[u] = status[u]
    <3>1. CASE SetRunning(w, t) \/ CompleteTask(w, t) \/ OnTaskFailed(w, t)
      <4>1. Live(w, t) /\ \E s : status' = [status EXCEPT ![t] = s]
        BY <3>1 DEF SetRunning, CompleteTask, OnTaskFailed, SetStatus, Live, LivePc
      <4>2. u # t
        BY <1>1, <4>1 DEF WorkInv, TerminalTask
      <4> QED
        BY <1>1, <4>1, <4>2 DEF TypeOK
    <3> QED
      BY <2>3, <3>1 DEF RunStep, Execute, ContainerEnds, FindSession, LinkChild, Resolve, taskVars
  <2> QED
    BY <1>1, <2>1, <2>2, <2>3 DEF Next, StatementFails, PollFails, ProcessStep, Stop, Exit, Crash,
       Restart, OtherStep, OtherSessionStarts, OtherSessionEnds, taskVars
<1>2. QueueInv /\ [Next]_vars => [Final]_vars
  BY <1>1
<1> QED
  BY <1>2, QueueCorrect, PTL DEF Spec, TerminalIsFinal

-----------------------------------------------------------------------------
(* No wake-up is lost.  While nothing has failed every process is up, and a *)
(* task is released only by the statement that removes it from the rows     *)
(* that still wait.                                                         *)

WakeInv ==
  faults = 0 =>
    /\ \A w \in Workers : worker[w].up = "up"
    /\ \A t \in Tasks : status[t] = "pending" =>
         \A b \in blockedBy[t] : Released(b) => b \in late[t]

(* No row is inserted, and a blocker that is released stops blocking.       *)
Waking ==
  /\ faults' = 0 => faults = 0
  /\ faults' = 0 => \A v \in Workers : worker'[v].up = worker[v].up
  /\ late' = late
  /\ \A u \in Tasks :
       /\ status'[u] = "pending" => status[u] = "pending"
       /\ blockedBy'[u] \subseteq blockedBy[u]
  /\ faults' = 0 => \A b \in Tasks : Released(b)' /\ ~Released(b) =>
       \A u \in Tasks : status'[u] = "pending" => b \notin blockedBy'[u]

LEMMA WakingInv ==
  ASSUME QueueInv, TypeOK', WakeInv, Waking
  PROVE  WakeInv'
<1> SUFFICES ASSUME faults' = 0
             PROVE  /\ \A w \in Workers : worker'[w].up = "up"
                    /\ \A t \in Tasks : status'[t] = "pending" =>
                         \A b \in blockedBy'[t] : Released(b)' => b \in late'[t]
  BY DEF WakeInv
<1>1. faults = 0
  BY DEF Waking
<1>2. \A w \in Workers : worker'[w].up = "up"
  BY <1>1 DEF WakeInv, Waking
<1>3. ASSUME NEW t \in Tasks, status'[t] = "pending", NEW b \in blockedBy'[t], Released(b)'
      PROVE  b \in late'[t]
  <2>1. b \in blockedBy[t] /\ b \in Tasks /\ status[t] = "pending"
    BY <1>3 DEF Waking, QueueInv, TypeOK
  <2>2. Released(b)
    BY <1>3, <2>1 DEF Waking
  <2> QED
    BY <1>1, <2>1, <2>2 DEF WakeInv, Waking
<1> QED
  BY <1>2, <1>3

LEMMA CallerWakes ==
  ASSUME QueueInv, NEW t \in Tasks, CallerStep(t), status' = status \/ ~EnqueueInsert(t)
  PROVE  Waking
<1> USE DEF QueueInv
<1>1. /\ worker' = worker /\ run' = run
      /\ faults' = 0 => faults = 0
      /\ \A u \in Tasks : status'[u] = "pending" => status[u] = "pending"
  BY DEF CallerStep, Delegate, EnqueueCount, EnqueueInsert, CancelRead, CancelWrite, CancelChild,
     CancelResolve, CallFails, Fault, SetStatus, taskVars, TypeOK
<1>2. late' = late
  <2>1. CASE EnqueueInsert(t)
    BY <2>1, NoRowInserted
  <2> QED
    BY <2>1 DEF CallerStep, Delegate, EnqueueCount, CancelRead, CancelWrite, CancelChild,
       CancelResolve, CallFails, SetStatus, history
<1>3. CASE CancelResolve(t)
  <2>1. \A u \in Tasks : /\ blockedBy'[u] \subseteq blockedBy[u]
                         /\ status[u] = "pending" => t \notin blockedBy'[u]
    BY <1>3 DEF CancelResolve, ResolveDependencies
  <2>2. \A b \in Tasks : Released(b)' => Released(b) \/ b = t
    BY <1>1, <1>3 DEF CancelResolve, Released, TypeOK
  <2> QED
    BY <1>1, <1>2, <2>1, <2>2 DEF Waking
<1>4. CASE ~CancelResolve(t)
  <2>1. blockedBy' = blockedBy
    <3>1. CASE EnqueueInsert(t)
      BY <3>1, NoRowInserted
    <3> QED
      BY <1>4, <3>1 DEF CallerStep, Delegate, EnqueueCount, CancelRead, CancelWrite, CancelChild,
         CallFails, taskVars
  <2>2. \A b \in Tasks : cancel'[b] = "ended" => cancel[b] = "ended"
    BY <1>4 DEF CallerStep, Delegate, EnqueueCount, EnqueueInsert, CancelRead, CancelWrite,
       CancelChild, CallFails, TypeOK
  <2> QED
    BY <1>1, <1>2, <2>1, <2>2 DEF Waking, Released
<1> QED
  BY <1>3, <1>4

(* An insert records the blockers that were released before it.             *)
LEMMA InsertWakes ==
  ASSUME QueueInv, WakeInv, NEW t \in Tasks, EnqueueInsert(t), status' # status
  PROVE  WakeInv'
<1> USE DEF QueueInv
<1>1. /\ UNCHANGED <<worker, run, cancel, faults>>
      /\ status' = [status EXCEPT ![t] = "pending"]
      /\ blockedBy' = [blockedBy EXCEPT ![t] = wanted[t]]
      /\ late' = [late EXCEPT ![t] = {b \in wanted[t] : Released(b)}]
  BY DEF EnqueueInsert
<1>2. \A b : Released(b)' <=> Released(b)
  BY <1>1 DEF Released
<1>3. /\ blockedBy'[t] = wanted[t] /\ late'[t] = {b \in wanted[t] : Released(b)}
      /\ \A u \in Tasks : u # t => /\ blockedBy'[u] = blockedBy[u] /\ late'[u] = late[u]
                                   /\ status'[u] = status[u]
  BY <1>1 DEF TypeOK
<1> QED
  BY <1>1, <1>2, <1>3 DEF WakeInv

(* The poll loop starts goroutines; none of its steps ends one.             *)
LEMMA PollWakes ==
  ASSUME QueueInv, NEW w \in Workers, PollStep(w) \/ PollFails(w)
  PROVE  Waking
<1> USE DEF QueueInv
<1>1. /\ UNCHANGED <<blockedBy, cancel, late>>
      /\ faults' = 0 => faults = 0
  BY DEF PollStep, Poll, CanStartNewSession, ClaimNextTask, CheckTask, CheckFailed, PollFails,
     Fault, SetStatus, taskVars, callVars, history, TypeOK
<1>2. \A u \in Tasks : status'[u] = "pending" => status[u] = "pending"
  BY DEF PollStep, Poll, CanStartNewSession, ClaimNextTask, CheckTask, CheckFailed, PollFails,
     SetStatus, taskVars, Claimable, TypeOK
<1>3. \A v \in Workers : worker'[v].up = worker[v].up
  <2>1. worker[w] \in WorkerState
    BY DEF TypeOK
  <2>2. ASSUME NEW a \in {"claim", "failing"}, worker' = [worker EXCEPT ![w].at = a]
        PROVE  \A v \in Workers : worker'[v].up = worker[v].up
    <3>1. [worker[w] EXCEPT !.at = a].up = worker[w].up
      BY <2>1 DEF WorkerState
    <3> QED
      BY <2>2, <3>1 DEF TypeOK
  <2>3. ASSUME Continue(w)
        PROVE  \A v \in Workers : worker'[v].up = worker[v].up
    BY <2>3 DEF Continue, TypeOK
  <2>4. ASSUME worker[w].up = "up", NEW a, NEW d, NEW k,
               worker' = [worker EXCEPT ![w] = [up |-> "up", at |-> a, todo |-> d, task |-> k]]
        PROVE  \A v \in Workers : worker'[v].up = worker[v].up
    BY <2>4 DEF TypeOK
  <2> QED
    BY <2>2, <2>3, <2>4 DEF PollStep, Poll, CanStartNewSession, ClaimNextTask, CheckTask,
       CheckFailed, PollFails
<1>4. \A v \in Workers, u \in Tasks : run'[v][u].pc = "ended" => run[v][u].pc = "ended"
  <2>1. \/ run' = run
        \/ /\ worker[w].at = "check"
           /\ \/ run' = [run EXCEPT ![w][worker[w].task] = [NoRun EXCEPT !.pc = "start"]]
              \/ run' = [run EXCEPT ![w][worker[w].task] = [NoRun EXCEPT !.pc = "failing"]]
    BY DEF PollStep, Poll, CanStartNewSession, CheckTask, CheckFailed, PollFails, ClaimNextTask
  <2>2. CASE run' = run
    BY <2>2
  <2>3. ASSUME NEW pc \in {"start", "failing"},
               run' = [run EXCEPT ![w][worker[w].task] = [NoRun EXCEPT !.pc = pc]]
        PROVE  \A v \in Workers, u \in Tasks : run'[v][u] = run[v][u] \/ run'[v][u].pc = pc
    BY <2>3, CheckEffect
  <2> QED
    BY <2>1, <2>2, <2>3
<1> QED
  BY <1>1, <1>2, <1>3, <1>4 DEF Waking, Released

(* A goroutine ends with the statement that releases the dependents, unless *)
(* something failed or the process is stopping.                             *)
LEMMA RunWakes ==
  ASSUME QueueInv, WakeInv, NEW w \in Workers, NEW t \in Tasks,
         RunStep(w, t) \/ StatementFails(w, t)
  PROVE  Waking
<1> USE DEF QueueInv
<1>1. /\ UNCHANGED <<worker, cancel, late>>
      /\ faults' = 0 => faults = 0
  BY DEF RunStep, SetRunning, Execute, ContainerEnds, FindSession, LinkChild, CompleteTask,
     OnTaskFailed, Resolve, StatementFails, Fault, SetStatus, callVars, history, TypeOK
<1>2. \A u \in Tasks : status'[u] = "pending" => status[u] = "pending"
  BY DEF RunStep, SetRunning, Execute, ContainerEnds, FindSession, LinkChild, CompleteTask,
     OnTaskFailed, Resolve, StatementFails, SetStatus, taskVars, TypeOK
<1>3. CASE Resolve(w, t)
  <2>1. \A u \in Tasks : /\ blockedBy'[u] \subseteq blockedBy[u]
                         /\ status'[u] = "pending" => t \notin blockedBy'[u]
    BY <1>3 DEF Resolve, ResolveDependencies
  <2>2. \A b \in Tasks : Released(b)' => Released(b) \/ b = t
    <3>1. Goto(w, t, "ended")
      BY <1>3 DEF Resolve
    <3> QED
      BY <1>1, <3>1, GotoEffect DEF Released
  <2> QED
    BY <1>1, <1>2, <2>1, <2>2 DEF Waking
<1>4. CASE StatementFails(w, t)
  <2>1. faults' # 0
    BY <1>4 DEF StatementFails, WakeInv, Fault, TypeOK
  <2>2. blockedBy' = blockedBy
    BY <1>4 DEF StatementFails, taskVars
  <2> QED
    BY <1>1, <1>2, <2>1, <2>2 DEF Waking
<1>5. CASE RunStep(w, t) /\ ~Resolve(w, t)
  <2>1. blockedBy' = blockedBy
    BY <1>5 DEF RunStep, SetRunning, Execute, ContainerEnds, FindSession, LinkChild, CompleteTask,
       OnTaskFailed, taskVars
  <2>2. \/ \E pc \in RunPc \ {"ended"} : Goto(w, t, pc)
        \/ \E r \in RunState : r.pc \in {"container", "link"} /\ run' = [run EXCEPT ![w][t] = r]
    <3>1. CASE FindSession(w, t)
      <4>1. ASSUME NEW i \in Matches(t)
            PROVE  [pc |-> "link", sid |-> i, verdict |-> sessions[i].status] \in RunState
        BY DEF Matches, RunState, RunPc, TypeOK
      <4> QED
        BY <3>1, <4>1 DEF FindSession, RunPc
    <3>2. CASE Execute(w, t)
      <4>1. [pc |-> "container", sid |-> Len(sessions) + 1, verdict |-> "none"] \in RunState
        BY DEF RunState, RunPc, TypeOK
      <4> QED
        BY <3>2, <4>1 DEF Execute, RunPc
    <3> QED
      BY <1>5, <3>1, <3>2 DEF RunStep, SetRunning, ContainerEnds, LinkChild, AfterLink,
         CompleteTask, OnTaskFailed, RunPc
  <2>3. \A v \in Workers, u \in Tasks : run'[v][u].pc = "ended" => run[v][u].pc = "ended"
    BY <2>2, GotoEffect, RunEffect
  <2> QED
    BY <1>1, <1>2, <2>1, <2>3 DEF Waking, Released
<1> QED
  BY <1>3, <1>4, <1>5

(* Processes stop, crash and restart only after something has failed.       *)
LEMMA ProcessWakes ==
  ASSUME QueueInv, WakeInv, NEW w \in Workers, ProcessStep(w)
  PROVE  Waking
<1> USE DEF QueueInv
<1>1. /\ UNCHANGED <<status, blockedBy, late>>
      /\ faults' # 0
  BY DEF ProcessStep, Stop, Exit, Crash, Restart, Fault, WakeInv, taskVars, history, TypeOK
<1> QED
  BY <1>1 DEF Waking

(* While nothing fails, a pending row waits for a released blocker only if  *)
(* it was inserted after the release.                                       *)
THEOREM NoWakeupLost == Spec => []NoLostWakeup
<1>1. Init => WakeInv
  BY DEF Init, WakeInv, Idle
<1>2. QueueInv /\ WakeInv /\ [Next]_vars => WakeInv'
  <2> SUFFICES ASSUME QueueInv, WakeInv, [Next]_vars PROVE WakeInv'
    OBVIOUS
  <2>1. TypeOK'
    BY NextTypeOK DEF QueueInv
  <2>2. ASSUME NEW t \in Tasks, CallerStep(t)
        PROVE  WakeInv'
    <3>1. CASE EnqueueInsert(t) /\ status' # status
      BY <3>1, InsertWakes
    <3>2. CASE status' = status \/ ~EnqueueInsert(t)
      BY <2>1, <2>2, <3>2, CallerWakes, WakingInv
    <3> QED
      BY <3>1, <3>2
  <2>3. CASE OtherStep \/ UNCHANGED vars
    <3>1. UNCHANGED <<status, blockedBy, cancel, run, worker, faults, late>>
      BY <2>3 DEF OtherStep, OtherSessionStarts, OtherSessionEnds, vars, taskVars, callVars,
         history
    <3> QED
      BY <3>1 DEF WakeInv, Released
  <2> QED
    BY <2>1, <2>2, <2>3, PollWakes, RunWakes, ProcessWakes, WakingInv DEF Next
<1>3. WakeInv => NoLostWakeup
  BY DEF WakeInv, NoLostWakeup
<1> QED
  BY <1>1, <1>2, <1>3, QueueCorrect, PTL DEF Spec

-----------------------------------------------------------------------------
(* A done row has a witness.  The verdict that a goroutine carries from its *)
(* lookup by text to CompleteTask stays justified, since no write touches   *)
(* the agent or the text of a session, or a session that is done.           *)

Witness(t) ==
  \E i \in DOMAIN sessions : /\ sessions[i].agent = ToAgent[t]
                             /\ sessions[i].task = Prompt(t)
                             /\ sessions[i].status = "done"

(* The goroutine has found a session of the task that is done.              *)
FoundDone(r) == (r.pc = "link" /\ r.verdict = "done") \/ r.pc = "complete"

WitnessInv ==
  \A t \in Tasks :
    /\ status[t] = "done" => Witness(t)
    /\ \A w \in Workers : FoundDone(run[w][t]) => Witness(t)

(* What no write to the sessions table undoes.                              *)
KeepsDone ==
  \A i \in DOMAIN sessions :
    /\ i \in DOMAIN sessions'
    /\ sessions'[i].agent = sessions[i].agent /\ sessions'[i].task = sessions[i].task
    /\ sessions[i].status = "done" => sessions'[i].status = "done"

LEMMA StatusKeepsDone ==
  ASSUME TypeOK, NEW i, NEW st,
         sessions' = [sessions EXCEPT ![i].status = st],
         i \in DOMAIN sessions => sessions[i].status # "done"
  PROVE  KeepsDone
<1>1. ASSUME NEW j \in DOMAIN sessions
      PROVE  /\ j \in DOMAIN sessions'
             /\ sessions'[j].agent = sessions[j].agent
             /\ sessions'[j].task = sessions[j].task
             /\ sessions[j].status = "done" => sessions'[j].status = "done"
  <2>1. sessions[j] \in SessionRow
    BY DEF TypeOK
  <2>2. \A r \in SessionRow : /\ [r EXCEPT !.status = st].agent = r.agent
                              /\ [r EXCEPT !.status = st].task = r.task
    BY DEF SessionRow
  <2>3. /\ [sessions[j] EXCEPT !.status = st].agent = sessions[j].agent
        /\ [sessions[j] EXCEPT !.status = st].task = sessions[j].task
    BY <2>1, <2>2
  <2> QED
    BY <2>3 DEF TypeOK
<1> QED
  BY <1>1 DEF KeepsDone

LEMMA AppendKeepsDone ==
  ASSUME TypeOK, NEW r, sessions' = Append(sessions, r)
  PROVE  KeepsDone
  BY DEF TypeOK, KeepsDone

LEMMA RowsKeepDone ==
  ASSUME TypeOK, [Next]_vars
  PROVE  KeepsDone
<1>1. CASE sessions' = sessions
  BY <1>1 DEF KeepsDone
<1>2. ASSUME NEW t \in Tasks, CallerStep(t)
      PROVE  KeepsDone
  <2>1. \/ sessions' = sessions
        \/ /\ sessions[seen[t]].status \in ActiveSession \ {"cancelling"}
           /\ sessions' = [sessions EXCEPT ![seen[t]].status = "cancelling"]
    BY <1>2 DEF CallerStep, Delegate, EnqueueCount, EnqueueInsert, CancelRead, CancelWrite,
       CancelChild, CancelResolve, CallFails
  <2> QED
    BY <1>1, <2>1, StatusKeepsDone DEF ActiveSession
<1>3. ASSUME NEW w \in Workers, NEW t \in Tasks, RunStep(w, t)
      PROVE  KeepsDone
  <2>1. ASSUME NEW outcome, ContainerEnds(w, t, outcome)
        PROVE  KeepsDone
    BY <1>1, <2>1, StatusKeepsDone DEF ContainerEnds, FinishSession, TerminalSession
  <2>2. CASE Execute(w, t)
    BY <1>1, <2>2, AppendKeepsDone DEF Execute
  <2> QED
    BY <1>1, <1>3, <2>1, <2>2 DEF RunStep, SetRunning, FindSession, LinkChild, CompleteTask,
       OnTaskFailed, Resolve
<1>4. ASSUME NEW w \in Workers, Restart(w)
      PROVE  KeepsDone
  <2>1. PICK old \in SUBSET {i \in DOMAIN sessions :
               sessions[i].status \in {"running", "waiting_for_clarification"}} :
          sessions' = [i \in DOMAIN sessions |->
            IF i \in old THEN [sessions[i] EXCEPT !.status = "error"] ELSE sessions[i]]
    BY <1>4 DEF Restart
  <2>2. \A r \in SessionRow : /\ [r EXCEPT !.status = "error"].agent = r.agent
                              /\ [r EXCEPT !.status = "error"].task = r.task
    BY DEF SessionRow
  <2>3. \A i \in DOMAIN sessions :
          /\ [sessions[i] EXCEPT !.status = "error"].agent = sessions[i].agent
          /\ [sessions[i] EXCEPT !.status = "error"].task = sessions[i].task
    BY <2>2 DEF TypeOK
  <2> QED
    BY <2>1, <2>3 DEF KeepsDone
<1>5. CASE OtherStep
  <2>1. ASSUME NEW k, NEW st, OtherSessionEnds(k, st)
        PROVE  KeepsDone
    BY <2>1, StatusKeepsDone DEF OtherSessionEnds, ActiveSession
  <2>2. ASSUME NEW t, OtherSessionStarts(t)
        PROVE  KeepsDone
    BY <2>2, AppendKeepsDone DEF OtherSessionStarts
  <2> QED
    BY <1>5, <2>1, <2>2 DEF OtherStep
<1> QED
  BY <1>1, <1>2, <1>3, <1>4, <1>5 DEF Next, PollStep, Poll, CanStartNewSession, ClaimNextTask,
     CheckTask, CheckFailed, StatementFails, PollFails, ProcessStep, Stop, Exit, Crash, vars

(* The prompt of a task is fixed once its row exists.                       *)
LEMMA WitnessStays ==
  ASSUME TypeOK, [Next]_vars, NEW t \in Tasks, status[t] # "absent", Witness(t)
  PROVE  Witness(t)'
<1>1. summary'[t] = summary[t]
  <2>1. ASSUME NEW u \in Tasks, CallerStep(u)
        PROVE  summary'[t] = summary[t]
    <3>1. CASE \E s, B : Delegate(u, s, B)
      BY <3>1 DEF Delegate, BuildDelegationContext, TypeOK
    <3> QED
      BY <2>1, <3>1 DEF CallerStep, EnqueueCount, EnqueueInsert, CancelRead, CancelWrite,
         CancelChild, CancelResolve, CallFails, taskVars
  <2>2. CASE ~\E u \in Tasks : CallerStep(u)
    <3>1. summary' = summary
      BY <2>2, ZenonT(40)
      DEF Next, PollStep, Poll, CanStartNewSession, ClaimNextTask, CheckTask, CheckFailed,
         RunStep, SetRunning, Execute, ContainerEnds, FindSession, LinkChild, CompleteTask,
         OnTaskFailed, Resolve, StatementFails, PollFails, ProcessStep, Stop, Exit, Crash, Restart,
         OtherStep, OtherSessionStarts, OtherSessionEnds, taskVars, vars
    <3> QED
      BY <3>1
  <2> QED
    BY <2>1, <2>2
<1>2. Prompt(t)' = Prompt(t)
  BY <1>1 DEF Prompt
<1> QED
  BY <1>2, RowsKeepDone DEF Witness, KeepsDone

(* Who may make a row done, or a goroutine believe that its session is.     *)
LEMMA DoneOrigin ==
  ASSUME QueueInv, [Next]_vars, NEW u \in Tasks
  PROVE  /\ status'[u] = "done" => status[u] = "done" \/ \E w \in Workers : FoundDone(run[w][u])
         /\ \A v \in Workers : FoundDone(run'[v][u]) =>
              FoundDone(run[v][u]) \/ (Witness(u) /\ Taken(v, u))
<1> USE DEF QueueInv
<1>1. ASSUME NEW t \in Tasks, CallerStep(t)
      PROVE  (status'[u] = "done" => status[u] = "done") /\ run' = run
  BY <1>1 DEF CallerStep, Delegate, EnqueueCount, EnqueueInsert, CancelRead, CancelWrite,
     CancelChild, CancelResolve, CallFails, SetStatus, taskVars, TypeOK
<1>2. ASSUME NEW w \in Workers, PollStep(w) \/ PollFails(w)
      PROVE  /\ status'[u] = "done" => status[u] = "done"
             /\ \A v \in Workers : FoundDone(run'[v][u]) => FoundDone(run[v][u])
  <2>1. status'[u] = "done" => status[u] = "done"
    BY <1>2 DEF PollStep, Poll, CanStartNewSession, ClaimNextTask, CheckTask, CheckFailed,
       PollFails, SetStatus, taskVars, TypeOK
  <2>2. \/ run' = run
        \/ /\ worker[w].at = "check"
           /\ \/ run' = [run EXCEPT ![w][worker[w].task] = [NoRun EXCEPT !.pc = "start"]]
              \/ run' = [run EXCEPT ![w][worker[w].task] = [NoRun EXCEPT !.pc = "failing"]]
    BY <1>2 DEF PollStep, Poll, CanStartNewSession, CheckTask, CheckFailed, PollFails,
       ClaimNextTask
  <2>3. ASSUME NEW v \in Workers
        PROVE  run'[v][u] = run[v][u] \/ run'[v][u].pc \in {"start", "failing"}
    <3>1. CASE run' = run
      BY <3>1
    <3>2. CASE run' = [run EXCEPT ![w][worker[w].task] = [NoRun EXCEPT !.pc = "start"]]
      <4>1. run'[v][u] = run[v][u] \/ run'[v][u].pc = "start"
        BY <3>2, CheckEffect
      <4> QED
        BY <4>1
    <3>3. CASE run' = [run EXCEPT ![w][worker[w].task] = [NoRun EXCEPT !.pc = "failing"]]
      <4>1. run'[v][u] = run[v][u] \/ run'[v][u].pc = "failing"
        BY <3>3, CheckEffect
      <4> QED
        BY <4>1
    <3> QED
      BY <2>2, <3>1, <3>2, <3>3
  <2> QED
    BY <2>1, <2>3 DEF FoundDone
<1>3. ASSUME NEW w \in Workers, NEW t \in Tasks, RunStep(w, t)
      PROVE  status'[u] = "done" => status[u] = "done" \/ FoundDone(run[w][u])
  BY <1>3 DEF RunStep, SetRunning, Execute, ContainerEnds, FindSession, LinkChild, CompleteTask,
     OnTaskFailed, Resolve, SetStatus, taskVars, TypeOK, FoundDone
<1>4. ASSUME NEW w \in Workers, NEW t \in Tasks, RunStep(w, t) \/ StatementFails(w, t),
             NEW v \in Workers, FoundDone(run'[v][u])
      PROVE  FoundDone(run[v][u]) \/ (Witness(u) /\ Taken(v, u))
  <2>1. CASE FindSession(w, t) /\ ~Goto(w, t, "failing")
    <3>1. run[w][t].pc = "lookup"
      BY <2>1 DEF FindSession
    <3>2. PICK i \in Matches(t) : run' = [run EXCEPT ![w][t] =
                   [pc |-> "link", sid |-> i, verdict |-> sessions[i].status]]
      BY <2>1 DEF FindSession
    <3>3. run'[v][u] = IF v = w /\ u = t
            THEN [pc |-> "link", sid |-> i, verdict |-> sessions[i].status] ELSE run[v][u]
      BY <3>2 DEF TypeOK
    <3> QED
      BY <1>4, <3>1, <3>2, <3>3 DEF FoundDone, Witness, Matches, Taken
  <2>2. CASE Execute(w, t) /\ ~Goto(w, t, "failing")
    <3>1. run' = [run EXCEPT ![w][t] =
             [pc |-> "container", sid |-> Len(sessions) + 1, verdict |-> "none"]]
      BY <2>2 DEF Execute
    <3>2. run'[v][u] = IF v = w /\ u = t
            THEN [pc |-> "container", sid |-> Len(sessions) + 1, verdict |-> "none"]
            ELSE run[v][u]
      BY <3>1 DEF TypeOK
    <3> QED
      BY <1>4, <3>2 DEF FoundDone
  <2>3. ASSUME NEW pc, Goto(w, t, pc), pc # "link", pc = "complete" => FoundDone(run[w][t])
        PROVE  FoundDone(run[v][u])
    BY <1>4, <2>3, GotoEffect DEF FoundDone
  <2>4. \/ \E pc : Goto(w, t, pc) /\ pc # "link" /\ (pc = "complete" => FoundDone(run[w][t]))
        \/ FindSession(w, t) /\ ~Goto(w, t, "failing")
        \/ Execute(w, t) /\ ~Goto(w, t, "failing")
    BY <1>4 DEF RunStep, SetRunning, Execute, ContainerEnds, FindSession, LinkChild, AfterLink,
       CompleteTask, OnTaskFailed, Resolve, StatementFails, FoundDone
  <2>5. CASE \E pc : Goto(w, t, pc) /\ pc # "link" /\ (pc = "complete" => FoundDone(run[w][t]))
    <3>1. PICK pc : Goto(w, t, pc) /\ pc # "link" /\ (pc = "complete" => FoundDone(run[w][t]))
      BY <2>5
    <3> QED
      BY <2>3, <3>1
  <2> QED
    BY <2>1, <2>2, <2>4, <2>5
<1>5. ASSUME NEW w \in Workers, ProcessStep(w)
      PROVE  /\ status' = status
             /\ \A v \in Workers : FoundDone(run'[v][u]) => FoundDone(run[v][u])
  <2>1. CASE Gone(w)
    <3>1. \A r \in RunState : [r EXCEPT !.pc = "ended"].pc = "ended"
      BY DEF RunState
    <3>2. run[w][u] \in RunState
      BY DEF TypeOK
    <3>3. run'[w][u].pc \in {"none", "ended"}
      BY <2>1, <3>1, <3>2 DEF Gone, TypeOK, NoRun
    <3>4. \A v \in Workers : v # w => run'[v] = run[v]
      BY <2>1 DEF Gone, TypeOK
    <3>5. status' = status
      BY <1>5 DEF ProcessStep, Stop, Exit, Crash, Restart, taskVars
    <3> QED
      BY <3>3, <3>4, <3>5 DEF FoundDone
  <2>2. CASE ~Gone(w)
    <3>1. status' = status /\ run' = run
      BY <1>5, <2>2 DEF ProcessStep, Stop, Exit, Crash, Restart, taskVars
    <3> QED
      BY <3>1 DEF FoundDone
  <2> QED
    BY <2>1, <2>2
<1>6. CASE OtherStep \/ UNCHANGED vars
  <2>1. status' = status /\ run' = run
    BY <1>6 DEF OtherStep, OtherSessionStarts, OtherSessionEnds, vars, taskVars
  <2> QED
    BY <2>1 DEF FoundDone
<1>7. ASSUME NEW w \in Workers, NEW t \in Tasks, StatementFails(w, t)
      PROVE  status' = status
  BY <1>7 DEF StatementFails, taskVars
<1> QED
  <2>1. ASSUME NEW t \in Tasks, CallerStep(t)
        PROVE  \A v \in Workers : FoundDone(run'[v][u]) => FoundDone(run[v][u])
    BY <1>1, <2>1 DEF FoundDone
  <2>2. \/ \E t \in Tasks : CallerStep(t)
        \/ \E w \in Workers : PollStep(w) \/ PollFails(w)
        \/ \E w \in Workers, t \in Tasks : RunStep(w, t)
        \/ \E w \in Workers, t \in Tasks : StatementFails(w, t)
        \/ \E w \in Workers : ProcessStep(w)
        \/ OtherStep \/ UNCHANGED vars
    BY DEF Next
  <2>3. ASSUME NEW w \in Workers, NEW t \in Tasks, RunStep(w, t) \/ StatementFails(w, t)
        PROVE  \A v \in Workers : FoundDone(run'[v][u]) =>
                 FoundDone(run[v][u]) \/ (Witness(u) /\ Taken(v, u))
    BY <1>4, <2>3
  <2>4. ASSUME NEW w \in Workers, NEW t \in Tasks, StatementFails(w, t)
        PROVE  status'[u] = status[u]
    BY <1>7, <2>4
  <2>5. CASE \E t \in Tasks : CallerStep(t)
    BY <1>1, <2>1, <2>5
  <2>6. CASE \E w \in Workers : PollStep(w) \/ PollFails(w)
    BY <1>2, <2>6
  <2>7. CASE \E w \in Workers, t \in Tasks : RunStep(w, t)
    BY <1>3, <2>3, <2>7
  <2>8. CASE \E w \in Workers, t \in Tasks : StatementFails(w, t)
    BY <2>3, <2>4, <2>8
  <2>9. CASE \E w \in Workers : ProcessStep(w)
    BY <1>5, <2>9
  <2> QED
    BY <1>6, <2>2, <2>5, <2>6, <2>7, <2>8, <2>9

(* A task is done only if a session of its agent with exactly its prompt is *)
(* done.                                                                    *)
THEOREM DoneHasWitness == Spec => []DoneIsWitnessed
<1>1. Init => WitnessInv
  BY DEF Init, WitnessInv, FoundDone, NoRun
<1>2. QueueInv /\ WitnessInv /\ [Next]_vars => WitnessInv'
  <2> SUFFICES ASSUME QueueInv, WitnessInv, [Next]_vars, NEW t \in Tasks
               PROVE  /\ status'[t] = "done" => Witness(t)'
                      /\ \A w \in Workers : FoundDone(run'[w][t]) => Witness(t)'
    BY DEF WitnessInv
  <2>1. ASSUME NEW w \in Workers, FoundDone(run[w][t]) \/ Taken(w, t)
        PROVE  status[t] # "absent"
    BY <2>1 DEF FoundDone, Taken, QueueInv, TakenInv
  <2>2. Witness(t) /\ status[t] # "absent" => Witness(t)'
    BY WitnessStays DEF QueueInv
  <2> QED
    BY <2>1, <2>2, DoneOrigin DEF WitnessInv
<1>3. WitnessInv => DoneIsWitnessed
  BY DEF WitnessInv, DoneIsWitnessed, Witness
<1> QED
  BY <1>1, <1>2, <1>3, QueueCorrect, PTL DEF Spec
=============================================================================
