--------------------------- MODULE Sessions_proofs ---------------------------
(* Proofs about the run of a session (SessionExec) and the stream of its    *)
(* output (Relay), for any sets of sessions, viewers and persistence        *)
(* workers and any bounds.                                                  *)
(*                                                                          *)
(* SessionExec: type correctness, and the inductive invariant that gives    *)
(* the refinement of SessionLife and the precedence of cancellations.       *)
(* Relay: the inductive invariant that gives the count of the viewers and   *)
(* what each of them gets.                                                  *)
EXTENDS SessionExec, Relay, FiniteSetTheorems, SequenceTheorems, WellFoundedInduction, TLAPS

-----------------------------------------------------------------------------
(* Types of the operators                                                   *)

(* The operations of ContainerTimer return timers.                          *)
LEMMA TimerOps ==
  /\ NoTimer \in Timer /\ NewContainerTimer \in Timer
  /\ \A t \in Timer : /\ Pause(t) \in Timer /\ Resume(t) \in Timer
                      /\ CancelTimer(t) \in Timer /\ Expire(t) \in Timer
                      /\ t.calls > 0 => Call(t) \in Timer
                      /\ [t EXCEPT !.kills = FALSE] \in Timer
<1>1. NoTimer \in Timer BY DEF Timer, NoTimer
<1>2. NewContainerTimer \in Timer BY DEF Timer, NewContainerTimer
<1>3. ASSUME NEW t \in Timer
      PROVE  /\ Pause(t) \in Timer /\ Resume(t) \in Timer
             /\ CancelTimer(t) \in Timer /\ Expire(t) \in Timer
             /\ t.calls > 0 => Call(t) \in Timer
             /\ [t EXCEPT !.kills = FALSE] \in Timer
  <2>1. Pause(t) \in Timer BY DEF Timer, Pause
  <2>2. Resume(t) \in Timer BY DEF Timer, Resume
  <2>3. CancelTimer(t) \in Timer BY DEF Timer, CancelTimer
  <2>4. Expire(t) \in Timer
    <3> DEFINE n == t.calls + 1
    <3>1. n \in Nat BY DEF Timer
    <3>2. Expire(t) = [t EXCEPT !.due = FALSE, !.calls = n] BY DEF Expire
    <3> HIDE DEF n
    <3> QED BY <3>1, <3>2 DEF Timer
  <2>5. ASSUME t.calls > 0 PROVE Call(t) \in Timer
    <3> DEFINE c == t.closed \/ ~t.cancelled
               n == t.calls - 1
    <3>1. c \in BOOLEAN BY DEF Timer
    <3>2. n \in Nat BY <2>5 DEF Timer
    <3>3. Call(t) = [t EXCEPT !.calls = n, !.closed = c] BY DEF Call
    <3> HIDE DEF c, n
    <3> QED BY <3>1, <3>2, <3>3 DEF Timer
  <2>6. [t EXCEPT !.kills = FALSE] \in Timer BY DEF Timer
  <2> QED BY <2>1, <2>2, <2>3, <2>4, <2>5, <2>6
<1> QED BY <1>1, <1>2, <1>3

ClarStatus == {"pending", "answered", "expired"}

(* Overwriting the last clarification's status keeps them statuses.         *)
LEMMA SetLastType ==
  ASSUME TypeOK, NEW s \in Sessions, NEW v \in ClarStatus
  PROVE  SetLast(s, v) \in [Sessions -> Seq(ClarStatus)]
<1> DEFINE q == clar[s]
<1>1. q \in Seq(ClarStatus) /\ clar \in [Sessions -> Seq(ClarStatus)]
  BY DEF TypeOK, ClarStatus
<1>2. [q EXCEPT ![Len(q)] = v] \in Seq(ClarStatus)
  <2> HIDE DEF q
  <2>1. CASE Len(q) \in 1 .. Len(q)
    BY <1>1, <2>1, ExceptSeq
  <2>2. CASE Len(q) \notin 1 .. Len(q)
    <3>1. Len(q) \notin DOMAIN q
      BY <1>1, <2>2
    <3>2. [q EXCEPT ![Len(q)] = v] = q
      BY <1>1, <3>1
    <3> QED BY <1>1, <3>2
  <2> QED BY <2>1, <2>2
<1> QED BY <1>1, <1>2 DEF SetLast

(* Asking appends a status.                                                 *)
LEMMA AskType ==
  ASSUME TypeOK, NEW s \in Sessions
  PROVE  [clar EXCEPT ![s] = Append(clar[s], "pending")] \in [Sessions -> Seq(ClarStatus)]
<1>1. clar \in [Sessions -> Seq(ClarStatus)] BY DEF TypeOK, ClarStatus
<1>2. Append(clar[s], "pending") \in Seq(ClarStatus) BY <1>1 DEF ClarStatus
<1> QED BY <1>1, <1>2

-----------------------------------------------------------------------------
(* Type correctness                                                         *)

LEMMA TypeInit == Init => TypeOK
BY TimerOps, EmptySeq DEF Init, TypeOK, RowStatus, ExecPc

(* The goroutine's return from ExecuteInContainer keeps the types of what   *)
(* its deferred calls touch.                                                *)
LEMMA ReturnsTypes ==
  ASSUME TypeOK, NEW s \in Sessions, Returns(s)
  PROVE  /\ exec' \in [Sessions -> ExecPc]
         /\ registry' \subseteq Sessions
         /\ timer' \in [Sessions -> Timer]
<1>1. exec' \in [Sessions -> ExecPc] BY DEF Returns, TypeOK, ExecPc
<1>2. registry' \subseteq Sessions BY DEF Returns, TypeOK
<1>3. timer[s] \in Timer BY DEF TypeOK
<1>4. timer' \in [Sessions -> Timer] BY <1>3, TimerOps DEF Returns, TypeOK
<1> QED BY <1>1, <1>2, <1>4

(* A statement writes a status or fails.                                    *)
LEMMA WriteTypes ==
  ASSUME TypeOK, NEW s \in Sessions, NEW newRow \in [Sessions -> RowStatus],
         Write(s, newRow)
  PROVE  row' \in [Sessions -> RowStatus] /\ faults' \in Nat
BY DEF Write, Fault, TypeOK

(* UpdateSessionResult, likewise.                                           *)
LEMMA UpdateTypes ==
  ASSUME TypeOK, NEW s \in Sessions, NEW v \in Terminal
  PROVE  /\ UpdateSessionResult(s, v)
              => row' \in [Sessions -> RowStatus] /\ faults' \in Nat
         /\ UpdateSessionResultIfNotTerminal(s, v)
              => row' \in [Sessions -> RowStatus] /\ faults' \in Nat
<1>1. row \in [Sessions -> RowStatus] /\ [row EXCEPT ![s] = v] \in [Sessions -> RowStatus]
  BY DEF TypeOK, RowStatus
<1> DEFINE r == IF row[s] \in Terminal THEN row ELSE [row EXCEPT ![s] = v]
<1>2. r \in [Sessions -> RowStatus] BY <1>1
<1>3. UpdateSessionResult(s, v) => Write(s, [row EXCEPT ![s] = v])
  BY DEF UpdateSessionResult
<1>4. UpdateSessionResultIfNotTerminal(s, v) => Write(s, r)
  BY DEF UpdateSessionResultIfNotTerminal
<1> HIDE DEF r
<1> QED BY <1>1, <1>2, <1>3, <1>4, WriteTypes

LEMMA FinalStatusType ==
  ASSUME NEW s \in Sessions PROVE FinalStatus(s) \in Terminal
<1>1. seen[s] = "cancelling" => FinalStatus(s) = "cancelled" BY DEF FinalStatus
<1>2. seen[s] # "cancelling" => FinalStatus(s) \in {"error", "done"} BY DEF FinalStatus
<1> QED BY <1>1, <1>2 DEF Terminal

(* The end of the process.                                                  *)
LEMMA DiesTypes ==
  ASSUME TypeOK, Dies, faults' \in Nat
  PROVE  TypeOK'
<1>1. exec' \in [Sessions -> ExecPc] BY DEF Dies, TypeOK, ExecPc
<1>2. stall' \in [Sessions -> {"none", "watch", "asked", "waiting", "resume", "ended"}]
  BY DEF Dies, TypeOK
<1>3. reader' \in [Sessions -> {"none", "reading", "eof"}] BY DEF Dies, TypeOK
<1>4. timer' \in [Sessions -> Timer] BY TimerOps DEF Dies
<1>5. question' \in [Sessions -> BOOLEAN] /\ up' \in BOOLEAN BY DEF Dies
<1>6. registry' \subseteq Sessions /\ stuck' \subseteq Sessions
  BY DEF Dies
<1>7. UNCHANGED <<row, clar, container, gone, seen, asked, expired, inTime>>
  BY DEF Dies, rows, docker, history
<1> QED BY <1>1, <1>2, <1>3, <1>4, <1>5, <1>6, <1>7 DEF TypeOK

(* A step of ExecuteInContainer keeps the types.                            *)
LEMMA ExecTypes ==
  ASSUME TypeOK, NEW s \in Sessions,
         ExecStep(s) \/ CreateSession(s)
  PROVE  TypeOK'
<1>1. CASE CreateSession(s)
  <2>1. row' \in [Sessions -> RowStatus]
    BY <1>1 DEF CreateSession, TypeOK, RowStatus, Terminal
  <2>2. exec' \in [Sessions -> ExecPc]
    BY <1>1 DEF CreateSession, TypeOK, ExecPc
  <2>3. UNCHANGED <<clar, container, gone, seen, registry, timer, reader, stall, asked, question, expired, up, stuck, faults, inTime>>
    BY <1>1 DEF CreateSession, rows, docker, goroutines, process, history
  <2> QED BY <2>1, <2>2, <2>3 DEF TypeOK, ClarStatus
<1>2. CASE ContainerCreate(s)
  <2>1. row' \in [Sessions -> RowStatus]
    BY <1>2, UpdateTypes DEF ContainerCreate, TypeOK, RowStatus, Terminal
  <2>2. container' \in [Sessions -> {"none", "created", "running"} \cup Ended]
    BY <1>2 DEF ContainerCreate, TypeOK, Ended
  <2>3. exec' \in [Sessions -> ExecPc]
    <3>1. CASE Returns(s) BY <3>1, ReturnsTypes
    <3>2. CASE exec' = [exec EXCEPT ![s] = "start"] BY <3>2 DEF TypeOK, ExecPc
    <3> QED BY <1>2, <3>1, <3>2 DEF ContainerCreate
  <2>4. registry' \subseteq Sessions
    BY <1>2, ReturnsTypes DEF ContainerCreate, TypeOK
  <2>5. timer' \in [Sessions -> Timer]
    BY <1>2, ReturnsTypes DEF ContainerCreate, TypeOK
  <2>6. faults' \in Nat
    BY <1>2, UpdateTypes DEF ContainerCreate, TypeOK, Terminal
  <2>7. UNCHANGED <<clar, gone, seen, reader, stall, asked, question, expired, up, stuck, inTime>>
    BY <1>2 DEF ContainerCreate, rows, docker, goroutines, process, history
  <2> QED BY <2>1, <2>2, <2>3, <2>4, <2>5, <2>6, <2>7 DEF TypeOK, ClarStatus
<1>3. CASE ContainerStart(s)
  <2>1. row' \in [Sessions -> RowStatus]
    BY <1>3, UpdateTypes DEF ContainerStart, TypeOK, RowStatus, Terminal
  <2>2. container' \in [Sessions -> {"none", "created", "running"} \cup Ended]
    BY <1>3 DEF ContainerStart, TypeOK, Ended
  <2>3. exec' \in [Sessions -> ExecPc]
    <3>1. CASE Returns(s) BY <3>1, ReturnsTypes
    <3>2. CASE exec' = [exec EXCEPT ![s] = "handle"] BY <3>2 DEF TypeOK, ExecPc
    <3>3. CASE exec' = [exec EXCEPT ![s] = "wait"] BY <3>3 DEF TypeOK, ExecPc
    <3> QED BY <1>3, <3>1, <3>2, <3>3 DEF ContainerStart
  <2>4. registry' \subseteq Sessions
    BY <1>3, ReturnsTypes DEF ContainerStart, TypeOK
  <2>6. timer' \in [Sessions -> Timer]
    <3>1. CASE Returns(s) BY <3>1, ReturnsTypes
    <3>2. CASE timer' = [timer EXCEPT ![s] = NewContainerTimer] BY <3>2, TimerOps DEF TypeOK
    <3> QED BY <1>3, <3>1, <3>2 DEF ContainerStart
  <2>7. reader' \in [Sessions -> {"none", "reading", "eof"}]
    BY <1>3 DEF ContainerStart, TypeOK
  <2>8. stall' \in [Sessions -> {"none", "watch", "asked", "waiting", "resume", "ended"}]
    BY <1>3 DEF ContainerStart, TypeOK
  <2>9. faults' \in Nat
    BY <1>3, UpdateTypes DEF ContainerStart, Fault, TypeOK, Terminal
  <2>10. UNCHANGED <<clar, gone, seen, asked, question, expired, up, stuck, inTime>>
    BY <1>3 DEF ContainerStart, rows, docker, goroutines, process, history
  <2> QED BY <2>1, <2>2, <2>3, <2>4, <2>6, <2>7, <2>8, <2>9, <2>10 DEF TypeOK, ClarStatus
<1>4. CASE HandlerReturns(s)
  <2>1. exec' \in [Sessions -> ExecPc]
    BY <1>4 DEF HandlerReturns, TypeOK, ExecPc
  <2>2. faults' \in Nat
    BY <1>4 DEF HandlerReturns, Fault, TypeOK
  <2>3. UNCHANGED <<row, clar, container, gone, seen, registry, timer, reader, stall, asked, question, expired, up, stuck, inTime>>
    BY <1>4 DEF HandlerReturns, rows, docker, goroutines, process, history
  <2> QED BY <2>1, <2>2, <2>3 DEF TypeOK, ClarStatus
<1>5. CASE ContainerWait(s)
  <2>1. row' \in [Sessions -> RowStatus] /\ faults' \in Nat
    <3>1. CASE UpdateSessionResult(s, "error") BY <3>1, UpdateTypes DEF Terminal
    <3>2. CASE UNCHANGED <<row, faults>> BY <3>2 DEF TypeOK
    <3>3. CASE Fault /\ row' \in {row, [row EXCEPT ![s] = "error"]}
      <4>1. row \in [Sessions -> RowStatus] /\ [row EXCEPT ![s] = "error"] \in [Sessions -> RowStatus]
        BY DEF TypeOK, RowStatus, Terminal
      <4>2. faults' \in Nat BY <3>3 DEF Fault, TypeOK
      <4> QED BY <3>3, <4>1, <4>2
    <3> QED BY <1>5, <3>1, <3>2, <3>3 DEF ContainerWait
  <2>2. exec' \in [Sessions -> ExecPc]
    <3>1. CASE Returns(s) BY <3>1, ReturnsTypes
    <3>2. CASE exec' = [exec EXCEPT ![s] = "read"] BY <3>2 DEF TypeOK, ExecPc
    <3> QED BY <1>5, <3>1, <3>2 DEF ContainerWait
  <2>3. registry' \subseteq Sessions
    BY <1>5, ReturnsTypes DEF ContainerWait, TypeOK
  <2>4. timer[s] \in Timer BY DEF TypeOK
  <2>5. timer' \in [Sessions -> Timer]
    <3>1. CASE Returns(s) BY <3>1, ReturnsTypes
    <3>2. CASE timer' = [timer EXCEPT ![s] = CancelTimer(timer[s])]
      BY <2>4, <3>2, TimerOps DEF TypeOK
    <3> QED BY <1>5, <3>1, <3>2 DEF ContainerWait
  <2>7. UNCHANGED <<clar, container, gone, seen, reader, stall, asked, question, expired, up, stuck, inTime>>
    BY <1>5 DEF ContainerWait, rows, docker, goroutines, process, history
  <2> QED BY <2>1, <2>2, <2>3, <2>5, <2>7 DEF TypeOK, ClarStatus
<1>6. CASE GetSessionByID(s)
  <2>1. exec' \in [Sessions -> ExecPc]
    BY <1>6 DEF GetSessionByID, TypeOK, ExecPc
  <2>2. seen' \in [Sessions -> RowStatus \cup {"none"}]
    BY <1>6 DEF GetSessionByID, TypeOK, RowStatus, Terminal
  <2>3. faults' \in Nat
    BY <1>6 DEF GetSessionByID, Fault, TypeOK
  <2>4. UNCHANGED <<row, clar, container, gone, registry, timer, reader, stall, asked, question, expired, up, stuck, inTime>>
    BY <1>6 DEF GetSessionByID, rows, docker, goroutines, process, history
  <2> QED BY <2>1, <2>2, <2>3, <2>4 DEF TypeOK, ClarStatus
<1>7. CASE Finish(s)
  <2>1. row' \in [Sessions -> RowStatus]
    BY <1>7, UpdateTypes, FinalStatusType DEF Finish, TypeOK, RowStatus, Terminal
  <2>2. exec' \in [Sessions -> ExecPc]
    BY <1>7, ReturnsTypes DEF Finish, TypeOK, ExecPc
  <2>3. registry' \subseteq Sessions
    BY <1>7, ReturnsTypes DEF Finish, TypeOK
  <2>4. timer' \in [Sessions -> Timer]
    BY <1>7, ReturnsTypes DEF Finish, TypeOK
  <2>5. faults' \in Nat
    BY <1>7, UpdateTypes, FinalStatusType DEF Finish, TypeOK, Terminal
  <2>6. UNCHANGED <<clar, container, gone, seen, reader, stall, asked, question, expired, up, stuck, inTime>>
    BY <1>7 DEF Finish, rows, docker, goroutines, process, history
  <2> QED BY <2>1, <2>2, <2>3, <2>4, <2>5, <2>6 DEF TypeOK, ClarStatus
<1> QED
  BY <1>1, <1>2, <1>3, <1>4, <1>5, <1>6, <1>7 DEF ExecStep

(* A step of the goroutine that looks for questions keeps the types.        *)
LEMMA StallTypes ==
  ASSUME TypeOK, NEW s \in Sessions,
         StallStep(s)
  PROVE  TypeOK'
<1>1. CASE CreateClarification(s)
  <2>1. clar' \in [Sessions -> Seq(ClarStatus)]
    <3>1. CASE UNCHANGED clar BY <3>1 DEF TypeOK, ClarStatus
    <3>2. CASE clar' = [clar EXCEPT ![s] = Append(clar[s], "pending")] BY <3>2, AskType
    <3> QED BY <1>1, <3>1, <3>2 DEF CreateClarification
  <2>2. stall' \in [Sessions -> {"none", "watch", "asked", "waiting", "resume", "ended"}]
    BY <1>1 DEF CreateClarification, TypeOK
  <2>3. asked' \in [Sessions -> Nat]
    BY <1>1 DEF CreateClarification, TypeOK
  <2>4. faults' \in Nat
    BY <1>1 DEF CreateClarification, Fault, TypeOK
  <2>5. UNCHANGED <<row, container, gone, exec, seen, registry, timer, reader, question, expired, up, stuck, inTime>>
    BY <1>1 DEF CreateClarification, rows, docker, goroutines, process, history
  <2> QED BY <2>1, <2>2, <2>3, <2>4, <2>5 DEF TypeOK, ClarStatus
<1>2. CASE PauseTimer(s)
  <2>1. timer[s] \in Timer BY DEF TypeOK
  <2>2. timer' \in [Sessions -> Timer]
    BY <1>2, <2>1, TimerOps DEF PauseTimer, TypeOK
  <2>3. stall' \in [Sessions -> {"none", "watch", "asked", "waiting", "resume", "ended"}]
    BY <1>2 DEF PauseTimer, TypeOK
  <2>4. UNCHANGED <<row, clar, container, gone, exec, seen, registry, reader, asked, question, expired, up, stuck, faults, inTime>>
    BY <1>2 DEF PauseTimer, rows, docker, goroutines, process, history
  <2> QED BY <2>2, <2>3, <2>4 DEF TypeOK, ClarStatus
<1>3. CASE AnswerArrives(s)
  <2>1. stall' \in [Sessions -> {"none", "watch", "asked", "waiting", "resume", "ended"}]
    BY <1>3 DEF AnswerArrives, TypeOK
  <2>2. UNCHANGED <<row, clar, container, gone, exec, seen, registry, timer, reader, asked, question, expired, up, stuck, faults, inTime>>
    BY <1>3 DEF AnswerArrives, rows, docker, goroutines, process, history
  <2> QED BY <2>1, <2>2 DEF TypeOK, ClarStatus
<1>4. CASE AwaitGivesUp(s)
  <2>1. clar' \in [Sessions -> Seq(ClarStatus)]
    BY <1>4, SetLastType DEF AwaitGivesUp, TypeOK, ClarStatus
  <2>2. container' \in [Sessions -> {"none", "created", "running"} \cup Ended]
    BY <1>4 DEF AwaitGivesUp, Kill, TypeOK, Ended
  <2>3. stall' \in [Sessions -> {"none", "watch", "asked", "waiting", "resume", "ended"}]
    BY <1>4 DEF AwaitGivesUp, TypeOK
  <2>4. faults' \in Nat
    BY <1>4 DEF AwaitGivesUp, Fault, TypeOK
  <2>5. UNCHANGED <<row, gone, exec, seen, registry, timer, reader, asked, question, expired, up, stuck, inTime>>
    BY <1>4 DEF AwaitGivesUp, rows, docker, goroutines, process, history
  <2> QED BY <2>1, <2>2, <2>3, <2>4, <2>5 DEF TypeOK, ClarStatus
<1>5. CASE ResumeTimer(s)
  <2>1. timer[s] \in Timer BY DEF TypeOK
  <2>2. timer' \in [Sessions -> Timer]
    BY <1>5, <2>1, TimerOps DEF ResumeTimer, TypeOK
  <2>3. stall' \in [Sessions -> {"none", "watch", "asked", "waiting", "resume", "ended"}]
    BY <1>5 DEF ResumeTimer, TypeOK
  <2>4. question' \in [Sessions -> BOOLEAN]
    BY <1>5 DEF ResumeTimer, TypeOK
  <2>5. UNCHANGED <<row, clar, container, gone, exec, seen, registry, reader, asked, expired, up, stuck, faults, inTime>>
    BY <1>5 DEF ResumeTimer, rows, docker, goroutines, process, history
  <2> QED BY <2>2, <2>3, <2>4, <2>5 DEF TypeOK, ClarStatus
<1>6. CASE WatchEnds(s)
  <2>1. stall' \in [Sessions -> {"none", "watch", "asked", "waiting", "resume", "ended"}]
    BY <1>6 DEF WatchEnds, TypeOK
  <2>2. UNCHANGED <<row, clar, container, gone, exec, seen, registry, timer, reader, asked, question, expired, up, stuck, faults, inTime>>
    BY <1>6 DEF WatchEnds, rows, docker, goroutines, process, history
  <2> QED BY <2>1, <2>2 DEF TypeOK, ClarStatus
<1> QED
  BY <1>1, <1>2, <1>3, <1>4, <1>5, <1>6 DEF StallStep

(* A step of the timer, of Docker, of a user or of the watcher keeps the types. *)
LEMMA OtherTypes ==
  ASSUME TypeOK, NEW s \in Sessions,
         TimerStep(s) \/ DockerStep(s) \/ UserStep(s) \/ ReaderEnds(s) \/ (\E q \in BOOLEAN : Output(s, q))
            \/ WatcherKills(s) \/ ExpireStaleClarifications(s) \/ ContextEnds(s) \/ Reconcile(s)
  PROVE  TypeOK'
<1>1. CASE TimerExpires(s)
  <2>1. timer[s] \in Timer BY DEF TypeOK
  <2>2. timer' \in [Sessions -> Timer]
    BY <1>1, <2>1, TimerOps DEF TimerExpires, TypeOK
  <2>3. UNCHANGED <<row, clar, container, gone, exec, seen, registry, reader, stall, asked, question, expired, up, stuck, faults, inTime>>
    BY <1>1 DEF TimerExpires, rows, docker, goroutines, process, history
  <2> QED BY <2>2, <2>3 DEF TypeOK, ClarStatus
<1>2. CASE TimerCallback(s)
  <2>1. timer[s] \in Timer /\ timer[s].calls > 0 /\ faults + 1 \in Nat BY <1>2 DEF TimerCallback, TypeOK
  <2>2. CASE timer[s].closed /\ ~timer[s].cancelled
    BY <1>2, <2>1, <2>2, DiesTypes DEF TimerCallback
  <2>3. CASE ~(timer[s].closed /\ ~timer[s].cancelled)
    <3>1. timer' \in [Sessions -> Timer]
      BY <1>2, <2>1, <2>3, TimerOps DEF TimerCallback, TypeOK
    <3>2. UNCHANGED <<row, clar, container, gone, exec, seen, registry, reader, stall, asked, question, expired, up, stuck, faults, inTime>>
      BY <1>2, <2>3 DEF TimerCallback, rows, docker, process, history
    <3> QED BY <3>1, <3>2 DEF TypeOK
  <2> QED BY <2>2, <2>3
<1>3. CASE TimerKills(s)
  <2>1. container' \in [Sessions -> {"none", "created", "running"} \cup Ended]
    BY <1>3 DEF TimerKills, Kill, TypeOK, Ended
  <2>2. timer[s] \in Timer BY DEF TypeOK
  <2>3. timer' \in [Sessions -> Timer]
    BY <1>3, <2>2, TimerOps DEF TimerKills, TypeOK
  <2>4. UNCHANGED <<row, clar, gone, exec, seen, registry, reader, stall, asked, question, expired, up, stuck, faults, inTime>>
    BY <1>3 DEF TimerKills, rows, docker, goroutines, process, history
  <2> QED BY <2>1, <2>3, <2>4 DEF TypeOK, ClarStatus
<1>4. CASE AutoRemove(s)
  <2>1. gone' \subseteq Sessions
    BY <1>4 DEF AutoRemove, TypeOK
  <2>2. UNCHANGED <<row, clar, container, exec, seen, registry, timer, reader, stall, asked, question, expired, up, stuck, faults, inTime>>
    BY <1>4 DEF AutoRemove, rows, docker, goroutines, process, history
  <2> QED BY <2>1, <2>2 DEF TypeOK, ClarStatus
<1>5. CASE \E code \in Ended : ContainerExits(s, code)
  <2>1. container' \in [Sessions -> {"none", "created", "running"} \cup Ended]
    BY <1>5 DEF ContainerExits, TypeOK, Ended
  <2>2. UNCHANGED <<row, clar, gone, exec, seen, registry, timer, reader, stall, asked, question, expired, up, stuck, faults, inTime>>
    BY <1>5 DEF ContainerExits, rows, docker, goroutines, process, history
  <2> QED BY <2>1, <2>2 DEF TypeOK, ClarStatus
<1>6. CASE CancelSession(s)
  <2>1. row' \in [Sessions -> RowStatus]
    BY <1>6 DEF CancelSession, TypeOK, RowStatus, Terminal
  <2>2. inTime' \subseteq Sessions
    BY <1>6 DEF CancelSession, TypeOK
  <2>3. UNCHANGED <<clar, container, gone, exec, seen, registry, timer, reader, stall, asked, question, expired, up, stuck, faults>>
    BY <1>6 DEF CancelSession, rows, docker, goroutines, process, history
  <2> QED BY <2>1, <2>2, <2>3 DEF TypeOK, ClarStatus
<1>7. CASE DashboardAnswers(s)
  <2>1. row' \in [Sessions -> RowStatus]
    BY <1>7 DEF DashboardAnswers, AnswerClarification, TypeOK, RowStatus, Terminal
  <2>2. clar' \in [Sessions -> Seq(ClarStatus)]
    BY <1>7, SetLastType DEF DashboardAnswers, AnswerClarification, TypeOK, ClarStatus
  <2>3. UNCHANGED <<container, gone, exec, seen, registry, timer, reader, stall, asked, question, expired, up, stuck, faults, inTime>>
    BY <1>7 DEF DashboardAnswers, AnswerClarification, rows, docker, goroutines, process, history
  <2> QED BY <2>1, <2>2, <2>3 DEF TypeOK, ClarStatus
<1>8. CASE ReaderEnds(s)
  <2>1. reader' \in [Sessions -> {"none", "reading", "eof"}]
    BY <1>8 DEF ReaderEnds, TypeOK
  <2>2. faults' \in Nat
    BY <1>8 DEF ReaderEnds, Fault, TypeOK
  <2>3. UNCHANGED <<row, clar, container, gone, exec, seen, registry, timer, stall, asked, question, expired, up, stuck, inTime>>
    BY <1>8 DEF ReaderEnds, rows, docker, goroutines, process, history
  <2> QED BY <2>1, <2>2, <2>3 DEF TypeOK, ClarStatus
<1>9. CASE \E q \in BOOLEAN : Output(s, q)
  <2>1. question' \in [Sessions -> BOOLEAN]
    BY <1>9 DEF Output, TypeOK
  <2>2. UNCHANGED <<row, clar, container, gone, exec, seen, registry, timer, reader, stall, asked, expired, up, stuck, faults, inTime>>
    BY <1>9 DEF Output, rows, docker, goroutines, process, history
  <2> QED BY <2>1, <2>2 DEF TypeOK, ClarStatus
<1>10. CASE WatcherKills(s)
  <2>1. container' \in [Sessions -> {"none", "created", "running"} \cup Ended]
    BY <1>10 DEF WatcherKills, Kill, TypeOK, Ended
  <2>2. UNCHANGED <<row, clar, gone, exec, seen, registry, timer, reader, stall, asked, question, expired, up, stuck, faults, inTime>>
    BY <1>10 DEF WatcherKills, rows, docker, goroutines, process, history
  <2> QED BY <2>1, <2>2 DEF TypeOK, ClarStatus
<1>11. CASE ExpireStaleClarifications(s)
  <2>1. clar' \in [Sessions -> Seq(ClarStatus)]
    BY <1>11, SetLastType DEF ExpireStaleClarifications, TypeOK, ClarStatus
  <2>2. UNCHANGED <<row, container, gone, exec, seen, registry, timer, reader, stall, asked, question, expired, up, stuck, faults, inTime>>
    BY <1>11 DEF ExpireStaleClarifications, rows, docker, goroutines, process, history
  <2> QED BY <2>1, <2>2 DEF TypeOK, ClarStatus
<1>12. CASE ContextEnds(s)
  <2>1. expired' \subseteq Sessions
    BY <1>12 DEF ContextEnds, TypeOK
  <2>2. faults' \in Nat
    BY <1>12 DEF ContextEnds, Fault, TypeOK
  <2>3. UNCHANGED <<row, clar, container, gone, exec, seen, registry, timer, reader, stall, asked, question, up, stuck, inTime>>
    BY <1>12 DEF ContextEnds, rows, docker, goroutines, process, history
  <2> QED BY <2>1, <2>2, <2>3 DEF TypeOK, ClarStatus
<1>13. CASE Reconcile(s)
  <2>1. row' \in [Sessions -> RowStatus]
    BY <1>13 DEF Reconcile, TypeOK, RowStatus, Terminal
  <2>2. stuck' \subseteq Sessions /\ faults' \in Nat
    BY <1>13 DEF Reconcile, Fault, TypeOK
  <2>3. UNCHANGED <<clar, container, gone, exec, seen, registry, timer, reader, stall, asked, question, expired, up, inTime>>
    BY <1>13 DEF Reconcile, rows, docker, goroutines, process, history
  <2> QED BY <2>1, <2>2, <2>3 DEF TypeOK, ClarStatus
<1> QED
  BY <1>1, <1>2, <1>3, <1>4, <1>5, <1>6, <1>7, <1>8, <1>9, <1>10, <1>11, <1>12, <1>13 DEF TimerStep, DockerStep, UserStep

(* Every row, container, goroutine and timer keeps its type in every        *)
(* behaviour of the orchestrator.                                           *)
THEOREM SessionTypes == Spec => []TypeOK
<1>1. ASSUME TypeOK, [Next]_vars PROVE TypeOK'
  <2>1. CASE \E s \in Sessions :
               \/ CreateSession(s) \/ ExecStep(s) \/ StallStep(s) \/ TimerStep(s)
               \/ DockerStep(s) \/ UserStep(s)
               \/ ReaderEnds(s) \/ \E q \in BOOLEAN : Output(s, q)
               \/ WatcherKills(s) \/ ExpireStaleClarifications(s)
               \/ ContextEnds(s) \/ Reconcile(s)
    BY <1>1, <2>1, ExecTypes, StallTypes, OtherTypes
  <2>2. CASE Crash
    BY <1>1, <2>2, DiesTypes DEF Crash, Fault, TypeOK
  <2>3. CASE Restart
    <3>1. stuck' \subseteq Sessions /\ up' \in BOOLEAN BY <2>3 DEF Restart
    <3>2. UNCHANGED <<row, clar, container, gone, exec, seen, registry, timer, reader, stall, asked, question, expired, faults, inTime>>
      BY <2>3 DEF Restart, rows, docker, goroutines, history
    <3> QED BY <1>1, <3>1, <3>2 DEF TypeOK
  <2>4. CASE UNCHANGED vars
    BY <1>1, <2>4 DEF TypeOK, vars, rows, docker, goroutines, process, history
  <2> QED BY <1>1, <2>1, <2>2, <2>3, <2>4 DEF Next
<1> QED BY <1>1, TypeInit, PTL DEF Spec


-----------------------------------------------------------------------------
(* The inductive invariant SessionInv, what it implies for cancellations,   *)
(* and that an execution implements SessionLife.                            *)
(*                                                                          *)
(* Most steps touch neither the rows nor the position of an execution: they *)
(* are Quiet.  The others move one execution forward, settle one row, or    *)
(* end and restart the process.                                             *)

ControlVars == <<row, exec, seen, stuck, up, inTime, expired>>

(* A step that leaves rows and executions alone; a container may end.       *)
Quiet ==
  /\ UNCHANGED ControlVars
  /\ faults' \in {faults, faults + 1}
  /\ \/ UNCHANGED container
     \/ \E s \in Sessions, c \in Ended :
          container[s] = "running" /\ container' = [container EXCEPT ![s] = c]

LifeStep == Life!Next \/ UNCHANGED <<row, container>>

Keeps == ExecInv' /\ CancelInv' /\ LifeStep

(* A quiet step preserves the invariant and is a step of SessionLife.       *)
LEMMA QuietKeeps ==
  ASSUME SessionInv, Quiet
  PROVE  Keeps
<1>1. UNCHANGED <<row, exec, seen, stuck, up, inTime, expired>>
  BY DEF Quiet, ControlVars
<1>2. container \in [Sessions -> {"none", "created", "running"} \cup Ended] /\ faults \in Nat
  BY DEF SessionInv, TypeOK
<1>3. \A s \in Sessions : \/ container'[s] = container[s]
                          \/ container[s] = "running" /\ container'[s] \in Ended
  BY <1>2 DEF Quiet
<1>4. ExecInv'
  BY <1>1, <1>3 DEF SessionInv, ExecInv, LivePc, Ended
<1>5. CancelInv'
  <2>1. faults' = 0 => faults = 0 BY <1>2 DEF Quiet
  <2> QED BY <1>1, <2>1 DEF SessionInv, CancelInv, LivePc
<1>6. LifeStep
  <2>1. CASE UNCHANGED container BY <1>1, <2>1 DEF LifeStep
  <2>2. CASE \E s \in Sessions, c \in Ended :
               container[s] = "running" /\ container' = [container EXCEPT ![s] = c]
    <3>1. PICK s \in Sessions, c \in Ended :
            container[s] = "running" /\ container' = [container EXCEPT ![s] = c]
      BY <2>2
    <3>2. Life!Moves(s) BY <1>1, <3>1 DEF Life!Moves, Life!Ended, Ended
    <3> QED BY <3>2 DEF LifeStep, Life!Next
  <2> QED BY <2>1, <2>2 DEF Quiet
<1> QED BY <1>4, <1>5, <1>6 DEF Keeps

(* ContainerKill ends a running container or does nothing.                  *)
LEMMA KillIsQuiet ==
  ASSUME NEW s \in Sessions, Kill(s), UNCHANGED ControlVars,
         faults' \in {faults, faults + 1}
  PROVE  Quiet
<1>1. CASE container[s] = "running" BY <1>1 DEF Kill, Quiet, Ended
<1>2. CASE container[s] # "running" BY <1>2 DEF Kill, Quiet
<1> QED BY <1>1, <1>2

(* Answering a clarification does not touch the row: nothing ever sets it   *)
(* to waiting_for_clarification.                                            *)
LEMMA AnswerLeavesRow ==
  ASSUME SessionInv, NEW s \in Sessions, AnswerClarification(s)
  PROVE  UNCHANGED row
BY DEF SessionInv, ExecInv, AnswerClarification

(* The goroutines beside ExecuteInContainer take quiet steps.               *)
LEMMA StallIsQuiet ==
  ASSUME NEW s \in Sessions, StallStep(s)
  PROVE  Quiet
<1> USE DEF ControlVars, rows, docker, process, history
<1>1. CASE CreateClarification(s) BY <1>1 DEF CreateClarification, Fault, Quiet
<1>2. CASE PauseTimer(s) BY <1>2 DEF PauseTimer, Quiet
<1>3. CASE AnswerArrives(s) BY <1>3 DEF AnswerArrives, Quiet
<1>4. CASE AwaitGivesUp(s) BY <1>4, KillIsQuiet DEF AwaitGivesUp, Fault
<1>5. CASE ResumeTimer(s) BY <1>5 DEF ResumeTimer, Quiet
<1>6. CASE WatchEnds(s) BY <1>6 DEF WatchEnds, Quiet
<1> QED BY <1>1, <1>2, <1>3, <1>4, <1>5, <1>6 DEF StallStep

(* So do the timer (unless it panics), Docker, the watcher, the output and  *)
(* the answers.                                                             *)
LEMMA EnvironmentIsQuiet ==
  ASSUME SessionInv, NEW s \in Sessions,
         \/ TimerExpires(s) \/ TimerKills(s)
         \/ TimerCallback(s) /\ ~(timer[s].closed /\ ~timer[s].cancelled)
         \/ DockerStep(s) \/ DashboardAnswers(s)
         \/ ReaderEnds(s) \/ (\E q \in BOOLEAN : Output(s, q))
         \/ WatcherKills(s) \/ ExpireStaleClarifications(s)
  PROVE  Quiet
<1> USE DEF ControlVars, rows, docker, goroutines, process, history
<1>1. CASE TimerExpires(s) BY <1>1 DEF TimerExpires, Quiet
<1>2. CASE TimerKills(s) BY <1>2, KillIsQuiet DEF TimerKills
<1>3. CASE TimerCallback(s) /\ ~(timer[s].closed /\ ~timer[s].cancelled)
  BY <1>3 DEF TimerCallback, Quiet
<1>4. CASE AutoRemove(s) BY <1>4 DEF AutoRemove, Quiet
<1>5. CASE \E code \in Ended : ContainerExits(s, code) BY <1>5 DEF ContainerExits, Quiet
<1>6. CASE DashboardAnswers(s) BY <1>6, AnswerLeavesRow DEF DashboardAnswers, Quiet
<1>7. CASE ReaderEnds(s) BY <1>7 DEF ReaderEnds, Fault, Quiet
<1>8. CASE \E q \in BOOLEAN : Output(s, q) BY <1>8 DEF Output, Quiet
<1>9. CASE WatcherKills(s) BY <1>9, KillIsQuiet DEF WatcherKills
<1>10. CASE ExpireStaleClarifications(s) BY <1>10 DEF ExpireStaleClarifications, Quiet
<1> QED BY <1>1, <1>2, <1>3, <1>4, <1>5, <1>6, <1>7, <1>8, <1>9, <1>10 DEF DockerStep

-----------------------------------------------------------------------------
(* The steps that write a row or move an execution                          *)

(* ExecuteInContainer records a result and returns, or fails to record it.  *)
LEMMA SettleKeeps ==
  ASSUME SessionInv, NEW s \in Sessions, NEW v \in Terminal,
         exec[s] \in LivePc,
         \/ Write(s, [row EXCEPT ![s] = v])
         \/ Fault /\ row' \in {row, [row EXCEPT ![s] = v]},
         Returns(s), UNCHANGED <<container, seen, stuck, up, inTime, expired>>,
         v = "done" => exec[s] = "finish" /\ container[s] = "zero",
         v = "done" /\ faults = 0 => s \notin inTime
  PROVE  Keeps
<1>1. /\ row \in [Sessions -> RowStatus] /\ exec \in [Sessions -> ExecPc]
      /\ faults \in Nat /\ container \in [Sessions -> {"none", "created", "running"} \cup Ended]
  BY DEF SessionInv, TypeOK
<1>2. exec' = [exec EXCEPT ![s] = "ended"] BY DEF Returns
<1>3. row[s] \in {"running", "cancelling"} /\ s \notin stuck
  BY DEF SessionInv, ExecInv, LivePc
<1>4. /\ row' \in {row, [row EXCEPT ![s] = v]}
      /\ faults' = 0 => faults = 0 /\ (s \notin expired => row' = [row EXCEPT ![s] = v])
  BY <1>1 DEF Write, Fault
<1>5. ExecInv'
  BY <1>1, <1>2, <1>3, <1>4 DEF SessionInv, ExecInv, LivePc, Terminal, Ended
<1>6. CancelInv'
  <2>0. inTime \subseteq Sessions BY DEF SessionInv, TypeOK
  <2> SUFFICES ASSUME faults' = 0, NEW t \in inTime
               PROVE  /\ expired = {}
                      /\ row'[t] \in {"cancelling", "cancelled", "error"}
                      /\ exec'[t] \in LivePc => row'[t] = "cancelling"
                      /\ exec'[t] = "finish" => seen[t] = "cancelling"
    BY <1>4 DEF SessionInv, CancelInv
  <2>1. expired = {} /\ row' = [row EXCEPT ![s] = v]
    BY <1>4 DEF SessionInv, CancelInv
  <2>2. CASE t = s
    BY <1>1, <1>2, <1>4, <2>1, <2>2 DEF LivePc, Terminal
  <2>3. CASE t # s
    BY <1>1, <1>2, <1>4, <2>0, <2>1, <2>3 DEF SessionInv, CancelInv
  <2> QED BY <2>1, <2>2, <2>3
<1>7. LifeStep
  <2>1. CASE row' = row BY <2>1 DEF LifeStep
  <2>2. CASE row' = [row EXCEPT ![s] = v]
    <3>1. Life!Settle(s, v) BY <1>3, <2>2 DEF Life!Settle
    <3> QED BY <3>1 DEF LifeStep, Life!Next, Life!Terminal, Terminal
  <2> QED BY <1>4, <2>1, <2>2
<1> QED BY <1>5, <1>6, <1>7 DEF Keeps

(* A step that moves a living execution from one position to another, with  *)
(* the container in the state that position needs.                          *)
LEMMA MoveKeeps ==
  ASSUME SessionInv, NEW s \in Sessions, NEW p \in {"start", "handle", "wait", "read"},
         exec[s] \in LivePc \ {"finish"}, exec' = [exec EXCEPT ![s] = p],
         UNCHANGED <<row, seen, stuck, up, inTime, expired>>,
         faults' \in {faults, faults + 1},
         container' \in [Sessions -> {"none", "created", "running"} \cup Ended],
         \A t \in Sessions \ {s} : container'[t] = container[t],
         p = "start" => container'[s] = "created",
         p = "read" => container'[s] \in Ended
  PROVE  ExecInv' /\ CancelInv'
<1>1. /\ row \in [Sessions -> RowStatus] /\ exec \in [Sessions -> ExecPc]
      /\ faults \in Nat /\ seen \in [Sessions -> RowStatus \cup {"none"}]
  BY DEF SessionInv, TypeOK
<1>2. ExecInv' BY <1>1 DEF SessionInv, ExecInv, LivePc, Ended
<1>3. faults' = 0 => faults = 0 BY <1>1
<1>4. CancelInv' BY <1>1, <1>3 DEF SessionInv, CancelInv, LivePc
<1> QED BY <1>2, <1>4

(* Every step of ExecuteInContainer preserves the invariant and is a step   *)
(* of SessionLife.                                                          *)
LEMMA ExecKeeps ==
  ASSUME SessionInv, NEW s \in Sessions, ExecStep(s) \/ CreateSession(s)
  PROVE  Keeps
<1>0. /\ row \in [Sessions -> RowStatus] /\ exec \in [Sessions -> ExecPc]
      /\ faults \in Nat /\ seen \in [Sessions -> RowStatus \cup {"none"}]
      /\ container \in [Sessions -> {"none", "created", "running"} \cup Ended]
      /\ inTime \subseteq Sessions
  BY DEF SessionInv, TypeOK
<1> DEFINE Error == /\ UpdateSessionResult(s, "error") /\ Returns(s)
                    /\ UNCHANGED <<container, seen, stuck, up, inTime, expired>>
<1>1. ASSUME Error, exec[s] \in LivePc PROVE Keeps
  BY <1>1, SettleKeeps DEF UpdateSessionResult, Terminal
<1>2. CASE CreateSession(s)
  <2>1. /\ row[s] = "absent" /\ up /\ stuck = {}
        /\ row' = [row EXCEPT ![s] = "running"] /\ exec' = [exec EXCEPT ![s] = "create"]
        /\ UNCHANGED <<container, seen, stuck, up, inTime, expired, faults>>
    BY <1>2 DEF CreateSession, docker, process, history
  <2>2. exec[s] = "none" /\ container[s] = "none" BY <2>1 DEF SessionInv, ExecInv
  <2>3. ExecInv' BY <1>0, <2>1, <2>2 DEF SessionInv, ExecInv, LivePc, Ended
  <2>4. CancelInv' BY <1>0, <2>1, <2>2 DEF SessionInv, CancelInv, LivePc
  <2>5. Life!Create(s) BY <2>1 DEF Life!Create
  <2> QED BY <2>3, <2>4, <2>5 DEF Keeps, LifeStep, Life!Next
<1>3. CASE ContainerCreate(s)
  <2>1. exec[s] = "create" BY <1>3 DEF ContainerCreate
  <2>2. CASE Returns(s) /\ UpdateSessionResult(s, "error") /\ UNCHANGED container
    BY <1>1, <1>3, <2>1, <2>2 DEF ContainerCreate, LivePc, history
  <2>3. CASE /\ container' = [container EXCEPT ![s] = "created"]
             /\ exec' = [exec EXCEPT ![s] = "start"] /\ UNCHANGED <<row, faults>>
    <3>1. container[s] = "none" BY <2>1 DEF SessionInv, ExecInv
    <3>2. ExecInv' /\ CancelInv'
      BY <1>0, <1>3, <2>1, <2>3, MoveKeeps DEF ContainerCreate, LivePc, history
    <3>3. Life!Moves(s) BY <2>3, <3>1 DEF Life!Moves
    <3> QED BY <3>2, <3>3 DEF Keeps, LifeStep, Life!Next
  <2> QED BY <1>3, <2>2, <2>3 DEF ContainerCreate
<1>4. CASE ContainerStart(s)
  <2>1. exec[s] = "start" BY <1>4 DEF ContainerStart
  <2>2. CASE Returns(s) /\ UpdateSessionResult(s, "error") /\ UNCHANGED container
    BY <1>1, <1>4, <2>1, <2>2 DEF ContainerStart, LivePc, history
  <2>3. CASE /\ container' = [container EXCEPT ![s] = "running"]
             /\ \E p \in {"handle", "wait"} : exec' = [exec EXCEPT ![s] = p]
             /\ UNCHANGED row /\ faults' \in {faults, faults + 1}
    <3>1. container[s] = "created" BY <2>1 DEF SessionInv, ExecInv
    <3>2. ExecInv' /\ CancelInv'
      BY <1>0, <1>4, <2>1, <2>3, MoveKeeps DEF ContainerStart, LivePc, history
    <3>3. Life!Moves(s) BY <2>3, <3>1 DEF Life!Moves
    <3> QED BY <3>2, <3>3 DEF Keeps, LifeStep, Life!Next
  <2> QED BY <1>4, <2>2, <2>3 DEF ContainerStart, Fault
<1>5. CASE HandlerReturns(s)
  <2>1. /\ exec[s] = "handle" /\ exec' = [exec EXCEPT ![s] = "wait"]
        /\ faults' \in {faults, faults + 1}
        /\ UNCHANGED <<row, container, seen, stuck, up, inTime, expired>>
    BY <1>5 DEF HandlerReturns, Fault, rows, docker, history
  <2>2. ExecInv' /\ CancelInv' BY <1>0, <2>1, MoveKeeps DEF LivePc
  <2> QED BY <2>1, <2>2 DEF Keeps, LifeStep
<1>6. CASE ContainerWait(s)
  <2>1. exec[s] = "wait" /\ UNCHANGED <<container, seen, stuck, up, inTime, expired>>
    BY <1>6 DEF ContainerWait, docker, history
  <2>2. CASE Returns(s) /\ UpdateSessionResult(s, "error")
    BY <1>1, <2>1, <2>2 DEF LivePc
  <2>4. CASE Returns(s) /\ Fault /\ row' \in {row, [row EXCEPT ![s] = "error"]}
    BY <2>1, <2>4, SettleKeeps DEF LivePc, Terminal
  <2>3. CASE /\ container[s] \in Ended /\ exec' = [exec EXCEPT ![s] = "read"]
             /\ UNCHANGED <<row, faults>>
    <3>1. ExecInv' /\ CancelInv' BY <1>0, <2>1, <2>3, MoveKeeps DEF LivePc
    <3> QED BY <2>1, <2>3, <3>1 DEF Keeps, LifeStep
  <2> QED BY <1>6, <2>2, <2>3, <2>4 DEF ContainerWait
<1>7. CASE GetSessionByID(s)
  <2>1. /\ exec[s] = "read" /\ exec' = [exec EXCEPT ![s] = "finish"]
        /\ UNCHANGED <<row, container, stuck, up, inTime, expired>>
        /\ seen' \in {seen, [seen EXCEPT ![s] = row[s]]}
        /\ faults' \in {faults, faults + 1}
        /\ faults' = 0 => faults = 0 /\ (s \notin expired => seen' = [seen EXCEPT ![s] = row[s]])
    BY <1>0, <1>7 DEF GetSessionByID, Fault, rows, docker, history
  <2>2. ExecInv' BY <1>0, <2>1 DEF SessionInv, ExecInv, LivePc, Ended
  <2>3. CancelInv' BY <1>0, <2>1 DEF SessionInv, CancelInv, LivePc
  <2> QED BY <2>1, <2>2, <2>3 DEF Keeps, LifeStep
<1>8. CASE Finish(s)
  <2> DEFINE v == FinalStatus(s)
  <2>1. /\ exec[s] = "finish" /\ Returns(s) /\ UpdateSessionResultIfNotTerminal(s, v)
        /\ UNCHANGED <<container, seen, stuck, up, inTime, expired>>
    BY <1>8 DEF Finish, docker, history
  <2>2. v \in Terminal BY FinalStatusType
  <2>3. v = "done" => container[s] = "zero" BY DEF FinalStatus
  <2>4. v = "done" /\ faults = 0 => s \notin inTime
    <3>1. faults = 0 /\ s \in inTime => seen[s] = "cancelling"
      BY <2>1 DEF SessionInv, CancelInv
    <3>2. seen[s] = "cancelling" => v = "cancelled" BY DEF FinalStatus
    <3> QED BY <3>1, <3>2
  <2> HIDE DEF v
  <2>5. row[s] \notin Terminal BY <2>1 DEF SessionInv, ExecInv, LivePc, Terminal
  <2>6. Write(s, [row EXCEPT ![s] = v])
    BY <2>1, <2>5 DEF UpdateSessionResultIfNotTerminal
  <2> QED BY <2>1, <2>2, <2>3, <2>4, <2>6, SettleKeeps DEF LivePc
<1> QED BY <1>2, <1>3, <1>4, <1>5, <1>6, <1>7, <1>8 DEF ExecStep

(* The dashboard's cancellation and the end of a request's context.         *)
LEMMA CancelKeeps ==
  ASSUME SessionInv, NEW s \in Sessions, CancelSession(s) \/ ContextEnds(s)
  PROVE  Keeps
<1>0. /\ row \in [Sessions -> RowStatus] /\ faults \in Nat /\ inTime \subseteq Sessions
  BY DEF SessionInv, TypeOK
<1>1. CASE CancelSession(s)
  <2>1. /\ row[s] # "absent" /\ row' = [row EXCEPT ![s] = "cancelling"]
        /\ inTime' \in {inTime, inTime \cup {s}}
        /\ exec[s] = "finish" => inTime' = inTime
        /\ UNCHANGED <<container, exec, seen, stuck, up, expired, faults>>
    BY <1>1 DEF CancelSession, docker, goroutines, process
  <2>2. ExecInv' BY <1>0, <2>1 DEF SessionInv, ExecInv, LivePc, Ended
  <2>3. CancelInv' BY <1>0, <2>1 DEF SessionInv, CancelInv, LivePc
  <2>4. Life!AskToStop(s) BY <2>1 DEF Life!AskToStop
  <2> QED BY <2>2, <2>3, <2>4 DEF Keeps, LifeStep, Life!Next
<1>2. CASE ContextEnds(s)
  <2>1. UNCHANGED <<row, container, exec, seen, stuck, up, inTime>> /\ faults' = faults + 1
    BY <1>2 DEF ContextEnds, Fault, rows, docker, goroutines, history
  <2>2. ExecInv' BY <2>1 DEF SessionInv, ExecInv
  <2>3. CancelInv' BY <1>0, <2>1 DEF CancelInv
  <2> QED BY <2>1, <2>2, <2>3 DEF Keeps, LifeStep
<1> QED BY <1>1, <1>2

(* The end of the process, by a crash or by the timer's panic, its start    *)
(* and the reconciliation of the rows it left.                              *)
LEMMA ProcessKeeps ==
  ASSUME SessionInv,
         \/ Dies /\ faults' = faults + 1
         \/ Restart \/ \E s \in Sessions : Reconcile(s)
  PROVE  Keeps
<1>0. /\ row \in [Sessions -> RowStatus] /\ faults \in Nat /\ exec \in [Sessions -> ExecPc]
  BY DEF SessionInv, TypeOK
<1>1. CASE Dies /\ faults' = faults + 1
  <2>1. /\ exec' = [s \in Sessions |-> IF exec[s] = "none" THEN "none" ELSE "ended"]
        /\ stuck' = {} /\ UNCHANGED <<row, container, seen, inTime>>
    BY <1>1 DEF Dies, rows, docker, history
  <2>2. ExecInv' BY <1>0, <2>1 DEF SessionInv, ExecInv, LivePc
  <2>3. CancelInv' BY <1>0, <1>1 DEF CancelInv
  <2> QED BY <2>1, <2>2, <2>3 DEF Keeps, LifeStep
<1>2. CASE Restart
  <2>1. /\ ~up /\ up'
        /\ stuck' \subseteq {s \in Sessions :
                               row[s] \in {"running", "waiting_for_clarification"}}
        /\ UNCHANGED <<row, container, exec, seen, inTime, expired, faults>>
    BY <1>2 DEF Restart, rows, docker, goroutines, history
  <2>2. \A s \in Sessions : exec[s] \in {"none", "ended"}
    BY <1>0, <2>1 DEF SessionInv, ExecInv, LivePc, ExecPc
  <2>3. ExecInv' BY <2>1, <2>2 DEF SessionInv, ExecInv, LivePc
  <2>4. CancelInv' BY <2>1 DEF SessionInv, CancelInv
  <2> QED BY <2>1, <2>3, <2>4 DEF Keeps, LifeStep
<1>3. ASSUME NEW s \in Sessions, Reconcile(s) PROVE Keeps
  <2>1. /\ s \in stuck /\ stuck' = stuck \ {s}
        /\ row' \in {row, [row EXCEPT ![s] = "error"]}
        /\ faults' \in {faults, faults + 1}
        /\ UNCHANGED <<container, exec, seen, up, inTime, expired>>
    BY <1>3 DEF Reconcile, Fault, docker, goroutines, history
  <2>2. exec[s] = "ended" /\ row[s] \in {"running", "cancelling"}
    BY <2>1 DEF SessionInv, ExecInv
  <2>3. ExecInv' BY <1>0, <2>1, <2>2 DEF SessionInv, ExecInv, LivePc
  <2>4. CancelInv'
    <3>1. faults' = 0 => faults = 0 BY <1>0, <2>1
    <3>2. inTime \subseteq Sessions BY DEF SessionInv, TypeOK
    <3>3. CASE row' = row BY <2>1, <3>1, <3>3 DEF SessionInv, CancelInv
    <3>4. CASE row' = [row EXCEPT ![s] = "error"]
      BY <1>0, <2>1, <2>2, <3>1, <3>2, <3>4 DEF SessionInv, CancelInv, LivePc
    <3> QED BY <2>1, <3>3, <3>4
  <2>5. CASE row' = [row EXCEPT ![s] = "error"]
    <3>1. Life!Settle(s, "error") BY <2>1, <2>2, <2>5 DEF Life!Settle
    <3>2. Life!Next BY <3>1 DEF Life!Next, Life!Terminal
    <3> QED BY <2>3, <2>4, <3>2 DEF Keeps, LifeStep
  <2>6. CASE row' = row BY <2>1, <2>3, <2>4, <2>6 DEF Keeps, LifeStep
  <2> QED BY <2>1, <2>5, <2>6
<1> QED BY <1>1, <1>2, <1>3

-----------------------------------------------------------------------------
(* The theorems                                                             *)

(* The invariant is preserved by every step, and every step is a step of    *)
(* SessionLife or leaves row and container alone.                           *)
LEMMA StepKeeps ==
  ASSUME SessionInv, [Next]_vars
  PROVE  Keeps
<1>1. CASE \E s \in Sessions : CreateSession(s) \/ ExecStep(s)
  BY <1>1, ExecKeeps
<1>2. CASE \E s \in Sessions : StallStep(s)
  BY <1>2, StallIsQuiet, QuietKeeps
<1>3. CASE \E s \in Sessions : TimerStep(s)
  <2>1. PICK s \in Sessions : TimerStep(s) BY <1>3
  <2>2. CASE TimerCallback(s) /\ timer[s].closed /\ ~timer[s].cancelled
    BY <2>2, ProcessKeeps DEF TimerCallback
  <2>3. CASE ~(TimerCallback(s) /\ timer[s].closed /\ ~timer[s].cancelled)
    BY <2>1, <2>3, EnvironmentIsQuiet, QuietKeeps DEF TimerStep
  <2> QED BY <2>2, <2>3
<1>4. CASE \E s \in Sessions :
             \/ DockerStep(s) \/ DashboardAnswers(s)
             \/ ReaderEnds(s) \/ (\E q \in BOOLEAN : Output(s, q))
             \/ WatcherKills(s) \/ ExpireStaleClarifications(s)
  BY <1>4, EnvironmentIsQuiet, QuietKeeps
<1>5. CASE \E s \in Sessions : CancelSession(s) \/ ContextEnds(s)
  BY <1>5, CancelKeeps
<1>6. CASE Restart \/ \E s \in Sessions : Reconcile(s)
  BY <1>6, ProcessKeeps
<1>7. CASE Crash
  BY <1>7, ProcessKeeps DEF Crash, Fault
<1>8. CASE UNCHANGED vars
  <2>1. Quiet
    BY <1>8 DEF vars, rows, docker, goroutines, process, history, Quiet, ControlVars
  <2> QED BY <2>1, QuietKeeps
<1> QED BY <1>1, <1>2, <1>3, <1>4, <1>5, <1>6, <1>7, <1>8 DEF Next, UserStep

(* The state of a session's row, its container and its execution agree in   *)
(* every behaviour of the orchestrator, crashes and restarts included.      *)
THEOREM SessionCorrect == Spec => []SessionInv
<1>1. Init => SessionInv
  <2>1. ASSUME Init PROVE ExecInv /\ CancelInv
    BY <2>1 DEF Init, ExecInv, CancelInv, LivePc
  <2> QED BY <2>1, TypeInit DEF SessionInv
<1>2. SessionInv /\ [Next]_vars /\ TypeOK' => SessionInv'
  BY StepKeeps DEF Keeps, SessionInv
<1> QED BY <1>1, <1>2, SessionTypes, PTL DEF Spec

(* A cancellation written before the final read of the status is not        *)
(* overridden by the result of the container, if nothing failed.            *)
THEOREM CancelWinsCorrect == Spec => []CancelWins
<1>1. SessionInv => CancelWins BY DEF SessionInv, CancelInv, CancelWins
<1> QED BY <1>1, SessionCorrect, PTL

(* Every execution implements SessionLife: a session is created once, gets  *)
(* a final status only from running or cancelling, and is done only when    *)
(* its container ended with exit code zero.                                 *)
THEOREM LifeCorrect == Spec => ImplementsLife
<1>1. Init => Life!Init BY DEF Init, Life!Init
<1>2. SessionInv /\ [Next]_vars => [Life!Next]_<<row, container>>
  BY StepKeeps DEF Keeps, LifeStep
<1> QED BY <1>1, <1>2, SessionCorrect, PTL DEF Spec, ImplementsLife, Life!Spec

-----------------------------------------------------------------------------
(* Nobody is forgotten                                                      *)

(* A running container belongs to an execution that still waits for it: it  *)
(* is registered, its timer is not cancelled, and a timer that is paused    *)
(* has the goroutine that paused it.                                        *)
Watched(s) ==
  /\ exec[s] \in {"none", "create", "start"} => stall[s] = "none"
  /\ exec[s] = "start" => s \in registry
  /\ s \in gone => container[s] \in Ended
  /\ container[s] = "running" =>
       /\ exec[s] \in {"handle", "wait"} /\ s \in registry
       /\ timer[s].kills /\ ~timer[s].cancelled
       /\ stall[s] \in {"waiting", "resume"} => ~timer[s].set
       /\ \/ timer[s].due \/ timer[s].calls > 0 \/ timer[s].closed
          \/ stall[s] \in {"waiting", "resume"}
  /\ \A i \in DOMAIN clar[s] :
       clar[s][i] = "pending" => i = Len(clar[s]) /\ stall[s] \in {"asked", "waiting"}

AllWatched == faults = 0 => \A s \in Sessions : Watched(s)

(* A step of one session, given that the session stays watched.             *)
LEMMA WatchUpdate ==
  ASSUME \A i \in Sessions : Watched(i), NEW s \in Sessions, Watched(s)',
         \A i \in Sessions \ {s} :
           /\ exec'[i] = exec[i] /\ stall'[i] = stall[i] /\ container'[i] = container[i]
           /\ timer'[i] = timer[i] /\ clar'[i] = clar[i]
           /\ i \in registry' <=> i \in registry
           /\ i \in gone' <=> i \in gone
  PROVE  \A i \in Sessions : Watched(i)'
<1> TAKE i \in Sessions
<1>1. CASE i = s BY <1>1
<1>2. CASE i # s
  <2>1. Watched(i) OBVIOUS
  <2> QED BY <1>2, <2>1 DEF Watched
<1> QED BY <1>1, <1>2

(* What the operations of ContainerTimer do.                                *)
LEMMA TimerFacts ==
  ASSUME NEW t \in Timer
  PROVE  /\ t.calls \in Nat
         /\ ~t.cancelled => /\ ~Pause(t).set /\ ~Pause(t).cancelled
                            /\ Pause(t).kills = t.kills
                            /\ ~Resume(t).cancelled /\ Resume(t).kills = t.kills
                            /\ ~t.set => Resume(t).due
         /\ /\ Expire(t).calls = t.calls + 1 /\ Expire(t).kills = t.kills
            /\ Expire(t).cancelled = t.cancelled /\ Expire(t).set = t.set
         /\ /\ Call(t).kills = t.kills /\ Call(t).cancelled = t.cancelled
            /\ Call(t).set = t.set /\ Call(t).due = t.due
            /\ ~t.cancelled => Call(t).closed
<1>1. t.calls \in Nat BY DEF Timer
<1>2. ~t.cancelled => /\ ~Pause(t).set /\ ~Pause(t).cancelled /\ Pause(t).kills = t.kills
  BY DEF Timer, Pause
<1>3. ~t.cancelled => /\ ~Resume(t).cancelled /\ Resume(t).kills = t.kills
                      /\ ~t.set => Resume(t).due
  BY DEF Timer, Resume
<1>4. /\ Expire(t).calls = t.calls + 1 /\ Expire(t).kills = t.kills
      /\ Expire(t).cancelled = t.cancelled /\ Expire(t).set = t.set
  BY DEF Timer, Expire
<1>5. /\ Call(t).kills = t.kills /\ Call(t).cancelled = t.cancelled
      /\ Call(t).set = t.set /\ Call(t).due = t.due
      /\ ~t.cancelled => Call(t).closed
  BY DEF Timer, Call
<1> QED BY <1>1, <1>2, <1>3, <1>4, <1>5

(* Nothing that has failed: the context lasts, and no fault is counted.     *)
LEMMA NoFault ==
  ASSUME SessionInv, faults = 0, faults' = 0
  PROVE  TypeOK /\ expired = {} /\ ~Fault
<1>1. expired = {} BY DEF SessionInv, CancelInv
<1> QED BY <1>1 DEF SessionInv, Fault

LEMMA ExecWatched ==
  ASSUME SessionInv, \A i \in Sessions : Watched(i), faults = 0, faults' = 0,
         NEW s \in Sessions, CreateSession(s) \/ ExecStep(s)
  PROVE  \A i \in Sessions : Watched(i)'
<1>0. TypeOK /\ expired = {} /\ ~Fault BY NoFault
<1>1. Watched(s) OBVIOUS
<1>2. timer[s] \in Timer BY <1>0 DEF TypeOK
<1>3. CASE CreateSession(s)
  <2>1. /\ row[s] = "absent" /\ exec' = [exec EXCEPT ![s] = "create"]
        /\ UNCHANGED <<stall, container, timer, clar, registry, gone>>
    BY <1>3 DEF CreateSession, docker
  <2>2. exec[s] = "none" BY <2>1 DEF SessionInv, ExecInv
  <2>3. exec'[s] = "create" /\ \A i \in Sessions \ {s} : exec'[i] = exec[i]
    BY <1>0, <2>1 DEF TypeOK
  <2>4. Watched(s)' BY <1>1, <2>1, <2>2, <2>3 DEF Watched
  <2> QED BY <2>1, <2>3, <2>4, WatchUpdate
<1>4. CASE ContainerCreate(s)
  <2>1. /\ exec[s] = "create" /\ UNCHANGED <<stall, clar, gone>>
        /\ \/ /\ container' = [container EXCEPT ![s] = "created"]
              /\ exec' = [exec EXCEPT ![s] = "start"]
              /\ registry' = registry \cup {s} /\ UNCHANGED timer
           \/ Returns(s) /\ UNCHANGED container
    BY <1>4 DEF ContainerCreate
  <2>2. container[s] = "none" /\ s \notin gone /\ stall[s] = "none"
    BY <1>1, <2>1 DEF SessionInv, ExecInv, Watched, Ended
  <2>3. /\ exec'[s] \in {"start", "ended"} /\ (exec'[s] = "start" => s \in registry')
        /\ container'[s] \in {"none", "created"}
        /\ \A i \in Sessions \ {s} :
             /\ exec'[i] = exec[i] /\ container'[i] = container[i] /\ timer'[i] = timer[i]
             /\ i \in registry' <=> i \in registry
    BY <1>0, <2>1, <2>2 DEF TypeOK, Returns
  <2>4. Watched(s)' BY <1>1, <2>1, <2>2, <2>3 DEF Watched
  <2> QED BY <2>1, <2>3, <2>4, WatchUpdate
<1>5. CASE ContainerStart(s)
  <2>1. exec[s] = "start" /\ UNCHANGED <<clar, gone>> BY <1>5 DEF ContainerStart
  <2>2. container[s] = "created" /\ s \notin gone /\ stall[s] = "none" /\ s \in registry
    BY <1>1, <2>1 DEF SessionInv, ExecInv, Watched, Ended
  <2>3. \A i \in DOMAIN clar[s] : clar[s][i] # "pending" BY <1>1, <2>2 DEF Watched
  <2>4. CASE /\ container' = [container EXCEPT ![s] = "running"]
             /\ timer' = [timer EXCEPT ![s] = NewContainerTimer]
             /\ exec' = [exec EXCEPT ![s] = "handle"]
             /\ stall' = [stall EXCEPT ![s] = "watch"] \/ UNCHANGED stall
             /\ UNCHANGED registry
    <3>1. /\ container'[s] = "running" /\ timer'[s] = NewContainerTimer
          /\ exec'[s] = "handle" /\ stall'[s] \in {"watch", "none"}
          /\ \A i \in Sessions \ {s} :
               /\ exec'[i] = exec[i] /\ container'[i] = container[i] /\ timer'[i] = timer[i]
               /\ stall'[i] = stall[i]
      BY <1>0, <2>2, <2>4 DEF TypeOK
    <3>2. /\ NewContainerTimer.kills /\ ~NewContainerTimer.cancelled /\ NewContainerTimer.due
      BY DEF NewContainerTimer
    <3>3. Watched(s)' BY <2>1, <2>2, <2>3, <2>4, <3>1, <3>2 DEF Watched
    <3> QED BY <2>1, <2>4, <3>1, <3>3, WatchUpdate
  <2>5. CASE Returns(s) /\ UNCHANGED <<container, stall>>
    <3>1. /\ exec'[s] = "ended"
          /\ \A i \in Sessions \ {s} :
               /\ exec'[i] = exec[i] /\ timer'[i] = timer[i]
               /\ i \in registry' <=> i \in registry
      BY <1>0, <2>5 DEF TypeOK, Returns
    <3>2. Watched(s)' BY <1>1, <2>1, <2>2, <2>5, <3>1 DEF Watched
    <3> QED BY <2>1, <2>5, <3>1, <3>2, WatchUpdate
  <2> QED BY <1>0, <1>5, <2>4, <2>5 DEF ContainerStart
<1>6. CASE HandlerReturns(s)
  <2>1. /\ exec[s] = "handle" /\ exec' = [exec EXCEPT ![s] = "wait"]
        /\ UNCHANGED <<stall, container, timer, clar, registry, gone>>
    BY <1>6 DEF HandlerReturns, rows, docker
  <2>2. exec'[s] = "wait" /\ \A i \in Sessions \ {s} : exec'[i] = exec[i]
    BY <1>0, <2>1 DEF TypeOK
  <2>3. Watched(s)' BY <1>1, <2>1, <2>2 DEF Watched
  <2> QED BY <2>1, <2>2, <2>3, WatchUpdate
<1>7. CASE ContainerWait(s)
  <2>1. /\ exec[s] = "wait" /\ UNCHANGED <<stall, container, clar, gone>>
        /\ \/ /\ container[s] \in Ended /\ exec' = [exec EXCEPT ![s] = "read"]
              /\ timer' = [timer EXCEPT ![s] = CancelTimer(timer[s])] /\ UNCHANGED registry
           \/ s \in gone /\ Returns(s)
    BY <1>0, <1>7 DEF ContainerWait, docker
  <2>2. container[s] \in Ended /\ container[s] # "running" BY <1>1, <2>1 DEF Watched, Ended
  <2>3. /\ exec'[s] \in {"read", "ended"}
        /\ \A i \in Sessions \ {s} :
             /\ exec'[i] = exec[i] /\ timer'[i] = timer[i]
             /\ i \in registry' <=> i \in registry
    BY <1>0, <2>1 DEF TypeOK, Returns
  <2>4. Watched(s)' BY <1>1, <2>1, <2>2, <2>3 DEF Watched
  <2> QED BY <2>1, <2>3, <2>4, WatchUpdate
<1>8. CASE GetSessionByID(s)
  <2>1. /\ exec[s] = "read" /\ exec' = [exec EXCEPT ![s] = "finish"]
        /\ UNCHANGED <<stall, container, timer, clar, registry, gone>>
    BY <1>8 DEF GetSessionByID, rows, docker
  <2>2. container[s] # "running" BY <2>1 DEF SessionInv, ExecInv, Ended
  <2>3. exec'[s] = "finish" /\ \A i \in Sessions \ {s} : exec'[i] = exec[i]
    BY <1>0, <2>1 DEF TypeOK
  <2>4. Watched(s)' BY <1>1, <2>1, <2>2, <2>3 DEF Watched
  <2> QED BY <2>1, <2>3, <2>4, WatchUpdate
<1>9. CASE Finish(s)
  <2>1. exec[s] = "finish" /\ Returns(s) /\ UNCHANGED <<stall, container, clar, gone>>
    BY <1>9 DEF Finish, docker
  <2>2. container[s] # "running" BY <2>1 DEF SessionInv, ExecInv, Ended
  <2>3. /\ exec'[s] = "ended"
        /\ \A i \in Sessions \ {s} :
             /\ exec'[i] = exec[i] /\ timer'[i] = timer[i]
             /\ i \in registry' <=> i \in registry
    BY <1>0, <2>1 DEF TypeOK, Returns
  <2>4. Watched(s)' BY <1>1, <2>1, <2>2, <2>3 DEF Watched
  <2> QED BY <2>1, <2>3, <2>4, WatchUpdate
<1> QED BY <1>3, <1>4, <1>5, <1>6, <1>7, <1>8, <1>9 DEF ExecStep

(* An answer or an expiry leaves no question open.                          *)
LEMMA SetLastSettles ==
  ASSUME TypeOK, NEW s \in Sessions, Watched(s), NEW v, v # "pending", clar' = SetLast(s, v)
  PROVE  /\ \A i \in DOMAIN clar'[s] : clar'[s][i] # "pending"
         /\ \A i \in Sessions \ {s} : clar'[i] = clar[i]
<1> DEFINE q == clar[s]
           r == [q EXCEPT ![Len(q)] = v]
<1>1. clar \in [Sessions -> Seq(ClarStatus)] BY DEF TypeOK, ClarStatus
<1>2. clar'[s] = r /\ \A i \in Sessions \ {s} : clar'[i] = clar[i] BY <1>1 DEF SetLast
<1>3. \A i \in DOMAIN q : q[i] = "pending" => i = Len(q) BY DEF Watched
<1>4. \A i \in DOMAIN r : r[i] # "pending" BY <1>3
<1> QED BY <1>2, <1>4

LEMMA StallWatched ==
  ASSUME SessionInv, \A i \in Sessions : Watched(i), faults = 0, faults' = 0,
         NEW s \in Sessions, StallStep(s)
  PROVE  \A i \in Sessions : Watched(i)'
<1>0. TypeOK /\ expired = {} /\ ~Fault BY NoFault
<1>1. Watched(s) OBVIOUS
<1>2. timer[s] \in Timer BY <1>0 DEF TypeOK
<1>3. CASE CreateClarification(s)
  <2>1. /\ stall[s] = "watch" /\ clar' = [clar EXCEPT ![s] = Append(clar[s], "pending")]
        /\ stall' = [stall EXCEPT ![s] = "asked"]
        /\ UNCHANGED <<exec, container, timer, registry, gone>>
    BY <1>0, <1>3 DEF CreateClarification, docker
  <2>2. /\ clar'[s] = Append(clar[s], "pending") /\ stall'[s] = "asked"
        /\ \A i \in Sessions \ {s} : clar'[i] = clar[i] /\ stall'[i] = stall[i]
    BY <1>0, <2>1 DEF TypeOK
  <2>3. clar[s] \in Seq(ClarStatus) /\ "pending" \in ClarStatus BY <1>0 DEF TypeOK, ClarStatus
  <2>4. \A i \in DOMAIN clar[s] : clar[s][i] # "pending" BY <1>1, <2>1 DEF Watched
  <2>5. /\ Len(clar'[s]) = Len(clar[s]) + 1 /\ DOMAIN clar'[s] = 1 .. Len(clar[s]) + 1
        /\ \A i \in 1 .. Len(clar[s]) : clar'[s][i] = clar[s][i]
        /\ DOMAIN clar[s] = 1 .. Len(clar[s]) /\ Len(clar[s]) \in Nat
    BY <2>2, <2>3, AppendProperties, LenProperties
  <2>6. \A i \in DOMAIN clar'[s] : clar'[s][i] = "pending" => i = Len(clar'[s])
    BY <2>4, <2>5
  <2>7. Watched(s)' BY <1>1, <2>1, <2>2, <2>6 DEF Watched
  <2> QED BY <2>1, <2>2, <2>7, WatchUpdate
<1>4. CASE PauseTimer(s)
  <2>1. /\ stall[s] = "asked" /\ stall' = [stall EXCEPT ![s] = "waiting"]
        /\ timer' = [timer EXCEPT ![s] = Pause(timer[s])]
        /\ UNCHANGED <<exec, container, clar, registry, gone>>
    BY <1>4 DEF PauseTimer, rows, docker
  <2>2. /\ stall'[s] = "waiting" /\ timer'[s] = Pause(timer[s])
        /\ \A i \in Sessions \ {s} : stall'[i] = stall[i] /\ timer'[i] = timer[i]
    BY <1>0, <2>1 DEF TypeOK
  <2>3. Watched(s)' BY <1>1, <1>2, <2>1, <2>2, TimerFacts DEF Watched
  <2> QED BY <2>1, <2>2, <2>3, WatchUpdate
<1>5. CASE AnswerArrives(s)
  <2>1. /\ stall[s] = "waiting" /\ LastAsked(s) = "answered" /\ stall' = [stall EXCEPT ![s] = "resume"]
        /\ UNCHANGED <<exec, container, timer, clar, registry, gone>>
    BY <1>5 DEF AnswerArrives, rows, docker
  <2>2. stall'[s] = "resume" /\ \A i \in Sessions \ {s} : stall'[i] = stall[i]
    BY <1>0, <2>1 DEF TypeOK
  <2>3. \A i \in DOMAIN clar[s] : clar[s][i] # "pending" BY <1>1, <2>1 DEF Watched, LastAsked
  <2>4. Watched(s)' BY <1>1, <2>1, <2>2, <2>3 DEF Watched
  <2> QED BY <2>1, <2>2, <2>4, WatchUpdate
<1>6. CASE AwaitGivesUp(s)
  <2>1. /\ stall[s] = "waiting" /\ stall' = [stall EXCEPT ![s] = "ended"] /\ Kill(s)
        /\ clar' = SetLast(s, "expired") \/ (LastAsked(s) = "expired" /\ UNCHANGED clar)
        /\ UNCHANGED <<exec, timer, registry, gone>>
    BY <1>0, <1>6 DEF AwaitGivesUp
  <2>2. stall'[s] = "ended" /\ \A i \in Sessions \ {s} : stall'[i] = stall[i]
    BY <1>0, <2>1 DEF TypeOK
  <2>3. /\ container'[s] # "running" /\ (s \in gone => container'[s] \in Ended)
        /\ \A i \in Sessions \ {s} : container'[i] = container[i]
    BY <1>0, <1>1, <2>1 DEF TypeOK, Kill, Watched, Ended
  <2>4. /\ \A i \in DOMAIN clar'[s] : clar'[s][i] # "pending"
        /\ \A i \in Sessions \ {s} : clar'[i] = clar[i]
    <3>1. CASE clar' = SetLast(s, "expired") BY <1>0, <1>1, <3>1, SetLastSettles
    <3>2. CASE LastAsked(s) = "expired" /\ UNCHANGED clar BY <1>1, <3>2 DEF Watched, LastAsked
    <3> QED BY <2>1, <3>1, <3>2
  <2>5. Watched(s)' BY <1>1, <2>1, <2>2, <2>3, <2>4 DEF Watched
  <2> QED BY <2>1, <2>2, <2>3, <2>4, <2>5, WatchUpdate
<1>7. CASE ResumeTimer(s)
  <2>1. /\ stall[s] = "resume" /\ stall' = [stall EXCEPT ![s] = "watch"]
        /\ timer' = [timer EXCEPT ![s] = Resume(timer[s])]
        /\ UNCHANGED <<exec, container, clar, registry, gone>>
    BY <1>7 DEF ResumeTimer, rows, docker
  <2>2. /\ stall'[s] = "watch" /\ timer'[s] = Resume(timer[s])
        /\ \A i \in Sessions \ {s} : stall'[i] = stall[i] /\ timer'[i] = timer[i]
    BY <1>0, <2>1 DEF TypeOK
  <2>3. Watched(s)' BY <1>1, <1>2, <2>1, <2>2, TimerFacts DEF Watched
  <2> QED BY <2>1, <2>2, <2>3, WatchUpdate
<1>8. CASE WatchEnds(s)
  <2>1. /\ stall[s] = "watch" /\ stall' = [stall EXCEPT ![s] = "ended"]
        /\ UNCHANGED <<exec, container, timer, clar, registry, gone>>
    BY <1>8 DEF WatchEnds, rows, docker
  <2>2. stall'[s] = "ended" /\ \A i \in Sessions \ {s} : stall'[i] = stall[i]
    BY <1>0, <2>1 DEF TypeOK
  <2>3. Watched(s)' BY <1>1, <2>1, <2>2 DEF Watched
  <2> QED BY <2>1, <2>2, <2>3, WatchUpdate
<1> QED BY <1>3, <1>4, <1>5, <1>6, <1>7, <1>8 DEF StallStep

LEMMA TimerWatched ==
  ASSUME SessionInv, \A i \in Sessions : Watched(i), faults = 0, faults' = 0,
         NEW s \in Sessions, TimerStep(s)
  PROVE  \A i \in Sessions : Watched(i)'
<1>0. TypeOK /\ expired = {} /\ ~Fault BY NoFault
<1>1. Watched(s) OBVIOUS
<1>2. timer[s] \in Timer BY <1>0 DEF TypeOK
<1>3. CASE TimerExpires(s)
  <2>1. /\ timer' = [timer EXCEPT ![s] = Expire(timer[s])]
        /\ UNCHANGED <<exec, stall, container, clar, registry, gone>>
    BY <1>3 DEF TimerExpires, rows, docker
  <2>2. timer'[s] = Expire(timer[s]) /\ \A i \in Sessions \ {s} : timer'[i] = timer[i]
    BY <1>0, <2>1 DEF TypeOK
  <2>3. /\ timer'[s].calls > 0 /\ timer'[s].kills = timer[s].kills
        /\ timer'[s].cancelled = timer[s].cancelled /\ timer'[s].set = timer[s].set
    BY <1>2, <2>2, TimerFacts
  <2>4. Watched(s)' BY <1>1, <2>1, <2>3 DEF Watched
  <2> QED BY <2>1, <2>2, <2>4, WatchUpdate
<1>4. CASE TimerCallback(s)
  <2>1. /\ timer' = [timer EXCEPT ![s] = Call(timer[s])]
        /\ UNCHANGED <<exec, stall, container, clar, registry, gone>>
    BY <1>4 DEF TimerCallback, rows, docker
  <2>2. timer'[s] = Call(timer[s]) /\ \A i \in Sessions \ {s} : timer'[i] = timer[i]
    BY <1>0, <2>1 DEF TypeOK
  <2>3. /\ timer'[s].kills = timer[s].kills /\ timer'[s].cancelled = timer[s].cancelled
        /\ timer'[s].set = timer[s].set /\ (~timer[s].cancelled => timer'[s].closed)
    BY <1>2, <2>2, TimerFacts
  <2>4. Watched(s)' BY <1>1, <2>1, <2>3 DEF Watched
  <2> QED BY <2>1, <2>2, <2>4, WatchUpdate
<1>5. CASE TimerKills(s)
  <2>1. /\ timer' = [timer EXCEPT ![s] = [timer[s] EXCEPT !.kills = FALSE]] /\ Kill(s)
        /\ UNCHANGED <<exec, stall, clar, registry, gone>>
    BY <1>5 DEF TimerKills, rows
  <2>2. \A i \in Sessions \ {s} : timer'[i] = timer[i] BY <1>0, <2>1 DEF TypeOK
  <2>3. /\ container'[s] # "running" /\ (s \in gone => container'[s] \in Ended)
        /\ \A i \in Sessions \ {s} : container'[i] = container[i]
    BY <1>0, <1>1, <2>1 DEF TypeOK, Kill, Watched, Ended
  <2>4. Watched(s)' BY <1>1, <2>1, <2>3 DEF Watched
  <2> QED BY <2>1, <2>2, <2>3, <2>4, WatchUpdate
<1> QED BY <1>3, <1>4, <1>5 DEF TimerStep

LEMMA OtherWatched ==
  ASSUME SessionInv, \A i \in Sessions : Watched(i), faults = 0, faults' = 0,
         NEW s \in Sessions,
         \/ DockerStep(s) \/ UserStep(s) \/ ReaderEnds(s) \/ \E q \in BOOLEAN : Output(s, q)
         \/ WatcherKills(s) \/ ExpireStaleClarifications(s) \/ Reconcile(s)
  PROVE  \A i \in Sessions : Watched(i)'
<1>0. TypeOK /\ expired = {} /\ ~Fault BY NoFault
<1>1. Watched(s) OBVIOUS
<1>2. CASE AutoRemove(s)
  <2>1. /\ container[s] \in Ended /\ gone' = gone \cup {s}
        /\ UNCHANGED <<exec, stall, container, timer, clar, registry>>
    BY <1>2 DEF AutoRemove, rows, goroutines
  <2>2. Watched(s)' BY <1>1, <2>1 DEF Watched
  <2> QED BY <2>1, <2>2, WatchUpdate
<1>3. CASE WatcherKills(s) \/ \E code \in Ended : ContainerExits(s, code)
  <2>1. UNCHANGED <<exec, stall, timer, clar, registry, gone>>
    BY <1>3 DEF WatcherKills, ContainerExits, rows, goroutines
  <2>2. container'[s] \in Ended /\ \A i \in Sessions \ {s} : container'[i] = container[i]
    BY <1>0, <1>3 DEF TypeOK, WatcherKills, ContainerExits, Kill, Ended
  <2>3. container'[s] # "running" BY <2>2 DEF Ended
  <2>4. Watched(s)' BY <1>1, <2>1, <2>2, <2>3 DEF Watched
  <2> QED BY <2>1, <2>2, <2>4, WatchUpdate
<1>4. CASE CancelSession(s) \/ ReaderEnds(s) \/ Reconcile(s) \/ \E q \in BOOLEAN : Output(s, q)
  <2>1. UNCHANGED <<exec, stall, container, timer, clar, registry, gone>>
    BY <1>4 DEF CancelSession, ReaderEnds, Reconcile, Output, rows, docker, goroutines
  <2>2. Watched(s)' BY <1>1, <2>1 DEF Watched
  <2> QED BY <2>1, <2>2, WatchUpdate
<1>5. CASE DashboardAnswers(s) \/ ExpireStaleClarifications(s)
  <2>1. UNCHANGED <<exec, stall, container, timer, registry, gone>>
    BY <1>5 DEF DashboardAnswers, ExpireStaleClarifications, docker, goroutines
  <2>2. clar' = SetLast(s, "answered") \/ clar' = SetLast(s, "expired")
    BY <1>5 DEF DashboardAnswers, AnswerClarification, ExpireStaleClarifications
  <2>3. /\ \A i \in DOMAIN clar'[s] : clar'[s][i] # "pending"
        /\ \A i \in Sessions \ {s} : clar'[i] = clar[i]
    BY <1>0, <1>1, <2>2, SetLastSettles
  <2>4. Watched(s)' BY <1>1, <2>1, <2>3 DEF Watched
  <2> QED BY <2>1, <2>3, <2>4, WatchUpdate
<1> QED BY <1>2, <1>3, <1>4, <1>5 DEF DockerStep, UserStep

LEMMA WatchKept ==
  ASSUME SessionInv, AllWatched, [Next]_vars
  PROVE  AllWatched'
<1>0. faults \in Nat BY DEF SessionInv, TypeOK
<1> SUFFICES ASSUME faults' = 0 PROVE \A i \in Sessions : Watched(i)' BY DEF AllWatched
<1>1. faults = 0
  <2>1. faults' >= faults
    BY <1>0, Z3 DEF Next, vars, process, CreateSession, ExecStep, ContainerCreate, ContainerStart,
           HandlerReturns, ContainerWait, GetSessionByID, Finish, StallStep, CreateClarification,
           PauseTimer, AnswerArrives, AwaitGivesUp, ResumeTimer, WatchEnds, TimerStep,
           TimerExpires, TimerCallback, TimerKills, DockerStep, AutoRemove, ContainerExits,
           UserStep, CancelSession, DashboardAnswers, ReaderEnds, Output, WatcherKills,
           ExpireStaleClarifications, ContextEnds, Reconcile, Crash, Restart, Fault, Write,
           UpdateSessionResult, UpdateSessionResultIfNotTerminal
  <2> QED BY <1>0, <2>1
<1>2. \A i \in Sessions : Watched(i) BY <1>1 DEF AllWatched
<1>3. ~Fault BY <1>1 DEF Fault
<1>4. ASSUME NEW s \in Sessions, CreateSession(s) \/ ExecStep(s) \/ StallStep(s) \/ TimerStep(s)
      PROVE  \A i \in Sessions : Watched(i)'
  BY <1>1, <1>2, <1>4, ExecWatched, StallWatched, TimerWatched
<1>5. ASSUME NEW s \in Sessions,
             \/ DockerStep(s) \/ UserStep(s) \/ ReaderEnds(s) \/ \E q \in BOOLEAN : Output(s, q)
             \/ WatcherKills(s) \/ ExpireStaleClarifications(s) \/ Reconcile(s)
      PROVE  \A i \in Sessions : Watched(i)'
  BY <1>1, <1>2, <1>5, OtherWatched
<1>6. ASSUME NEW s \in Sessions, ContextEnds(s) PROVE FALSE BY <1>3, <1>6 DEF ContextEnds
<1>7. CASE Crash BY <1>3, <1>7 DEF Crash
<1>8. CASE Restart \/ UNCHANGED vars
  <2>1. UNCHANGED <<exec, stall, container, timer, clar, registry, gone>>
    BY <1>8 DEF Restart, vars, rows, docker, goroutines
  <2> QED BY <1>2, <2>1 DEF Watched
<1> QED BY <1>4, <1>5, <1>6, <1>7, <1>8 DEF Next

(* While nothing has failed, a running container is registered and has a    *)
(* timer, an expiry or a waiting goroutine that will stop it, and an open   *)
(* question has the goroutine that asked it (ContainerTimer,                *)
(* handleInteractiveContainer).                                             *)
THEOREM WatchCorrect == Spec => []WatchInv
<1>1. Init => AllWatched
  <2> SUFFICES ASSUME Init, NEW s \in Sessions PROVE Watched(s) BY DEF AllWatched
  <2>1. /\ exec[s] = "none" /\ stall[s] = "none" /\ s \notin gone /\ container[s] = "none"
        /\ clar[s] = <<>>
    BY DEF Init
  <2>2. DOMAIN clar[s] = {} BY <2>1
  <2> QED BY <2>1, <2>2 DEF Watched
<1>2. SessionInv /\ AllWatched /\ [Next]_vars => AllWatched' BY WatchKept
<1>3. SessionInv /\ AllWatched => WatchInv
  <2> SUFFICES ASSUME SessionInv, AllWatched, faults = 0
               PROVE  /\ \A s \in Sessions : container[s] = "running" =>
                           /\ s \in registry
                           /\ \/ timer[s].due \/ timer[s].calls > 0
                              \/ timer[s].closed /\ timer[s].kills
                              \/ stall[s] \in {"waiting", "resume"}
                      /\ \A s \in Sessions : \A i \in DOMAIN clar[s] : clar[s][i] = "pending" =>
                           i = Len(clar[s]) /\ stall[s] \in {"asked", "waiting"}
    BY DEF WatchInv, ContainerIsWatched, PendingIsAwaited
  <2>1. \A s \in Sessions : Watched(s) BY DEF AllWatched
  <2> QED BY <2>1 DEF Watched
<1> QED BY <1>1, <1>2, <1>3, SessionCorrect, PTL DEF Spec

-----------------------------------------------------------------------------
(* The relay: the inductive invariant.                                      *)

(* What is in the socket: the output that was written and not yet read, in  *)
(* the order of writing.                                                    *)
WireInv ==
  \A s \in Streamed :
    /\ Read(s) \in 0 .. Len(sent[s])
    /\ Pending(s) = Read(s) + 1 .. Len(sent[s])
    /\ \A i, j \in DOMAIN wire[s] :
         i < j /\ wire[s][i] # 0 /\ wire[s][j] # 0 => wire[s][i] < wire[s][j]

(* Only the ingest handler publishes output, and it publishes what it read  *)
(* last; it publishes to viewers that have subscribed.                      *)
PubInv ==
  \A s \in Streamed, t \in Threads :
    LET p == pub[s][t] IN
    /\ p.kind = "data" => t = "ingest" /\ p.pc = "send" /\ p.n > 0 /\ p.n = Read(s)
    /\ p.mark \subseteq p.to
    /\ (p.pc = "send" => p.kind # "none") /\ (p.kind # "data" => p.n = 0)
    /\ \A c \in p.mark : client[c].drops
    /\ \A c \in p.to : client[c].of = s /\ client[c].pc \in {"live", "leaving", "closed"}

(* The rows on their way into the database, and those in it: every output   *)
(* is there once.                                                           *)
Pipe(h) == batch[h] \o queue[h]
PipeInv ==
  /\ IsFiniteSet(store)
  /\ \A p, q \in store :
       /\ SameNumber(p, q) => p = q
       /\ p.of = q.of /\ p.n = q.n /\ p.n > 0 => p = q
  /\ \A h \in Shards : \A i \in DOMAIN Pipe(h) :
       LET r == Pipe(h)[i] IN
       /\ ShardOf[r.of] = h
       /\ \A q \in store : q.of = r.of /\ q.n = r.n => r.n = 0
       /\ \A j \in DOMAIN Pipe(h) : Pipe(h)[j].of = r.of /\ Pipe(h)[j].n = r.n /\ r.n > 0 => i = j

(* The rows of output, in the database or on their way there.               *)
Log(s) == {r \in store \cup UNION {ToSet(Pipe(h)) : h \in Shards} : r.of = s /\ r.n > 0}

(* Rows hold output that was read and not output that is being published,   *)
(* and while numbers are not used again they are in the order of output.    *)
RowInv ==
  \A s \in Streamed :
    LET p == pub[s]["ingest"] IN
    /\ p.kind = "data" => p.seq <= high[s]
    /\ \A r \in Log(s) :
         /\ r.n <= Read(s) /\ r.seq <= high[s]
         /\ p.kind = "data" => r.n < p.n
         /\ p.kind = "data" /\ ~reused[s] => r.seq < p.seq
         /\ \A q \in Log(s) : r.n < q.n /\ ~reused[s] => r.seq < q.seq

(* The stages of a viewer.                                                  *)
Stage(v) ==
  /\ v.pc # "away" => v.of \in Streamed
  /\ v.pc = "away" => v.got = <<>>
  /\ v.pc \in {"away", "subscribe"} => v.buf = <<>> /\ v.from = 0 /\ ~v.done
  /\ v.pc = "closed" => v.done
  /\ v.pc = "subscribe" => \A i \in DOMAIN v.got : ~v.got[i].live
StageInv == \A c \in Clients : Stage(client[c])

(* What a viewer has, as a sequence, and the places in it that hold output. *)
Places(q) == {i \in DOMAIN q : IsOutput(q[i])}
Lives(q) == {i \in Places(q) : q[i].live}
Single(q) == \A i, j \in Places(q) : q[i].n = q[j].n => i = j
Rising(q, I) == \A i, j \in I : i < j => q[i].n < q[j].n
Numbers(q, I) == {q[i].n : i \in I}

(* The viewers that the output in the ingest handler's hands is still       *)
(* going to.                                                                *)
Sending(s) == IF pub[s]["ingest"].kind = "data" THEN pub[s]["ingest"].to ELSE {}

(* A viewer has output that was read, and not the output it is about to be  *)
(* sent, which was read after it subscribed; what it has, it has once, in   *)
(* order while numbers are not used again, and from its subscription on     *)
(* completely.                                                              *)
View(c) ==
  LET q == Stream(c)
      s == client[c].of IN
  /\ Single(q)
  /\ s \in Streamed =>
       /\ client[c].from <= Read(s)
       /\ c \in Sending(s) => client[c].from < pub[s]["ingest"].n
       /\ \A x \in Numbers(q, Places(q)) :
            x <= Read(s) /\ (c \in Sending(s) => x < pub[s]["ingest"].n)
       /\ ~reused[s] => Rising(q, Places(q))
       /\ c \in subs[s] /\ ~client[c].drops /\ breaks = 0 =>
            /\ Numbers(q, Lives(q)) =
                 client[c].from + 1 .. Read(s) - (IF c \in Sending(s) THEN 1 ELSE 0)
            /\ Rising(q, Lives(q))
ViewsInv == \A c \in Clients : View(c)

(* The subscribers are finitely many, even when the viewers are not.        *)
Subscribers == UNION {subs[s] : s \in Streamed}
CountInv == ConnectionsCounted /\ IsFiniteSet(Subscribers)

IInv ==
  /\ RelayTypeOK /\ WireInv /\ PubInv /\ PipeInv /\ RowInv /\ StageInv /\ CountInv /\ ViewsInv

-----------------------------------------------------------------------------
(* Sets of numbers, sorted rows, sequences of chunks.                       *)

(* A set of numbers that is not empty has a least one.                      *)
LEMMA LeastNumber ==
  ASSUME NEW I \in SUBSET Nat, I # {}
  PROVE  \E x \in I : \A y \in I : x <= y
<1>1. PICK x \in I : \A y \in I : ~(<<y, x>> \in OpToRel(<, Nat))
  BY NatLessThanWellFounded, WFMin
<1>2. \A y \in Nat : y < x => <<y, x>> \in OpToRel(<, Nat) BY DEF OpToRel
<1>3. \A y \in I : ~(y < x) BY <1>1, <1>2
<1>4. \A y \in I : x <= y BY <1>3
<1> QED BY <1>4

LEMMA MinOfTwo ==
  ASSUME NEW a \in Nat, NEW b \in Nat
  PROVE  Min({a, b}) \in Nat /\ Min({a, b}) <= b
<1>1. PICK x \in {a, b} : \A y \in {a, b} : x <= y
  <2>1. {a, b} \in SUBSET Nat /\ {a, b} # {} OBVIOUS
  <2> QED BY <2>1, LeastNumber
<1>2. Min({a, b}) \in {a, b} /\ \A y \in {a, b} : Min({a, b}) <= y BY <1>1 DEF Min
<1> QED BY <1>2

(* How Read follows from what is in the socket.                             *)
LEMMA ReadMin ==
  ASSUME NEW L \in Nat, NEW r \in 0 .. L
  PROVE  (IF r + 1 .. L = {} THEN L ELSE Min(r + 1 .. L) - 1) = r
<1>1. CASE r = L
  <2>1. r + 1 .. L = {} BY <1>1
  <2> QED BY <1>1, <2>1
<1>2. CASE r # L
  <2>1. r + 1 \in r + 1 .. L /\ \A y \in r + 1 .. L : r + 1 <= y BY <1>2
  <2>2. Min(r + 1 .. L) \in r + 1 .. L /\ \A y \in r + 1 .. L : Min(r + 1 .. L) <= y
    BY <2>1 DEF Min
  <2>3. Min(r + 1 .. L) = r + 1
    <3> DEFINE x == Min(r + 1 .. L)
    <3>1. x \in r + 1 .. L /\ x <= r + 1 BY <2>1, <2>2
    <3> HIDE DEF x
    <3>2. x = r + 1 BY <3>1
    <3> QED BY <3>2 DEF x
  <2> QED BY <2>1, <2>3
<1> QED BY <1>1, <1>2

(* Rows with different numbers can be sorted.                               *)
Sorts(q, R) ==
  /\ q \in [1 .. Cardinality(R) -> R]
  /\ \A i, j \in 1 .. Cardinality(R) : i < j => q[i].seq < q[j].seq
Numbered(R) == IsFiniteSet(R) /\ \A p, q \in R : p.seq = q.seq => p = q

LEMMA SortExtends ==
  ASSUME NEW R \in SUBSET Row, Numbered(R), R # {},
         \A S \in SUBSET Row : Numbered(S) /\ Cardinality(S) + 1 = Cardinality(R) =>
           \E q : Sorts(q, S)
  PROVE  \E q : Sorts(q, R)
<1>1. PICK m \in R : \A r \in R : m.seq <= r.seq
  <2> DEFINE N == {r.seq : r \in R}
  <2>1. N \in SUBSET Nat /\ N # {} BY DEF Row
  <2>2. PICK x \in N : \A y \in N : x <= y BY <2>1, LeastNumber
  <2> QED BY <2>2
<1> DEFINE S == R \ {m}
           n == Cardinality(R)
<1>2. /\ IsFiniteSet(S) /\ Cardinality(S) = n - 1 /\ n \in Nat /\ n # 0
  BY FS_RemoveElement, FS_CardinalityType, FS_EmptySet DEF Numbered
<1>3. Numbered(S) BY <1>2 DEF Numbered
<1>4. PICK q : Sorts(q, S) BY <1>2, <1>3
<1>5. q \in [1 .. n - 1 -> S] /\ \A i, j \in 1 .. n - 1 : i < j => q[i].seq < q[j].seq
  BY <1>2, <1>4 DEF Sorts
<1> DEFINE f == [i \in 1 .. n |-> IF i = 1 THEN m ELSE q[i - 1]]
<1> HIDE DEF n
<1>6. f \in [1 .. n -> R]
  <2>1. \A i \in 1 .. n : i # 1 => i - 1 \in 1 .. n - 1 BY <1>2
  <2> QED BY <1>5, <2>1
<1>7. ASSUME NEW i \in 1 .. n, NEW j \in 1 .. n, i < j
      PROVE  f[i].seq < f[j].seq
  <2>1. j # 1 /\ j - 1 \in 1 .. n - 1 BY <1>2, <1>7
  <2>2. f[j] = q[j - 1] /\ q[j - 1] \in S BY <1>5, <2>1
  <2>3. CASE i = 1
    <3>1. f[i] = m /\ m.seq <= f[j].seq /\ m.seq # f[j].seq
      BY <1>1, <2>2, <2>3 DEF Numbered
    <3>2. m.seq \in Nat /\ f[j].seq \in Nat BY <2>2 DEF Row
    <3> QED BY <3>1, <3>2
  <2>4. CASE i # 1
    <3>1. i - 1 \in 1 .. n - 1 /\ i - 1 < j - 1 BY <1>2, <1>7, <2>4
    <3>2. q[i - 1].seq < q[j - 1].seq BY <1>5, <2>1, <3>1
    <3> QED BY <2>2, <2>4, <3>2
  <2> QED BY <2>3, <2>4
<1>8. Sorts(f, R) BY <1>6, <1>7 DEF Sorts, n
<1> QED BY <1>8

LEMMA SortExists ==
  ASSUME NEW R \in SUBSET Row, Numbered(R)
  PROVE  \E q : Sorts(q, R)
<1> DEFINE Bad(n) == \E S \in SUBSET Row : Numbered(S) /\ Cardinality(S) = n /\ ~\E q : Sorts(q, S)
           T == {n \in Nat : Bad(n)}
<1> SUFFICES ASSUME T # {} PROVE FALSE
  <2>1. Cardinality(R) \in Nat BY FS_CardinalityType DEF Numbered
  <2> QED BY <2>1
<1>1. T \in SUBSET Nat OBVIOUS
<1> HIDE DEF T
<1>2. PICK n \in T : \A k \in T : n <= k BY <1>1, LeastNumber
<1>3. n \in Nat /\ Bad(n) BY <1>2 DEF T
<1>4. PICK S \in SUBSET Row : Numbered(S) /\ Cardinality(S) = n /\ ~\E q : Sorts(q, S) BY <1>3
<1>5. CASE S = {}
  <2>1. Cardinality(S) = 0 BY <1>5, FS_EmptySet
  <2>2. Sorts([i \in 1 .. 0 |-> 0], S) BY <2>1 DEF Sorts
  <2> QED BY <1>4, <2>2
<1>6. CASE S # {}
  <2>1. ASSUME NEW U \in SUBSET Row, Numbered(U), Cardinality(U) + 1 = Cardinality(S)
        PROVE  \E q : Sorts(q, U)
    <3>1. Cardinality(U) \in Nat BY <2>1, FS_CardinalityType DEF Numbered
    <3>2. Cardinality(U) \notin T BY <1>2, <1>3, <1>4, <2>1, <3>1
    <3> QED BY <2>1, <3>1, <3>2 DEF T
  <2> QED BY <1>4, <1>6, <2>1, SortExtends
<1> QED BY <1>5, <1>6

LEMMA SortedFacts ==
  ASSUME NEW R \in SUBSET Row, Numbered(R)
  PROVE  Sorts(Sorted(R), R)
<1>1. PICK q : Sorts(q, R) BY SortExists
<1> QED BY <1>1 DEF Sorts, Sorted

(* The history: rows of the session, in the order of their numbers.         *)
FromRows(h, s) ==
  \E f \in [DOMAIN h -> store] :
    /\ \A i \in DOMAIN h : f[i].of = s /\ h[i] = [kind |-> "data", n |-> f[i].n, live |-> FALSE]
    /\ \A i, j \in DOMAIN h : i < j => f[i].seq < f[j].seq

LEMMA HistoryFacts ==
  ASSUME RelayTypeOK, PipeInv, NEW s \in Streamed, NEW after \in Nat
  PROVE  History(s, after) \in Seq(Chunk) /\ FromRows(History(s, after), s)
<1> DEFINE found == {r \in store : r.of = s /\ r.seq > after}
           k == Min({HistoryLimit, Cardinality(found)})
           h == History(s, after)
<1>1. found \in SUBSET Row /\ IsFiniteSet(found) BY FS_Subset DEF RelayTypeOK, RowTypes, PipeInv
<1>2. Numbered(found)
  <2>1. \A p, q \in found : p.seq = q.seq => p = q BY DEF PipeInv, SameNumber
  <2> QED BY <1>1, <2>1 DEF Numbered
<1>3. Sorts(Sorted(found), found) BY <1>1, <1>2, SortedFacts
<1>4. k \in Nat /\ k <= Cardinality(found) /\ Cardinality(found) \in Nat
  <2>1. HistoryLimit \in Nat /\ Cardinality(found) \in Nat BY <1>1, RelayAssumption, FS_CardinalityType
  <2> QED BY <2>1, MinOfTwo
<1>5. h = [i \in 1 .. k |-> [kind |-> "data", n |-> Sorted(found)[i].n, live |-> FALSE]]
  BY DEF History
<1> HIDE DEF h, k
<1> DEFINE f == [i \in 1 .. k |-> Sorted(found)[i]]
<1>6. \A i \in 1 .. k : i \in 1 .. Cardinality(found) BY <1>4
<1>7. \A i \in 1 .. k : Sorted(found)[i] \in found BY <1>3, <1>6 DEF Sorts
<1>8. \A i, j \in 1 .. k : i < j => Sorted(found)[i].seq < Sorted(found)[j].seq
  BY <1>3, <1>6 DEF Sorts
<1> HIDE DEF found
<1>9. \A i \in 1 .. k : Sorted(found)[i] \in store /\ Sorted(found)[i].of = s /\ Sorted(found)[i].n \in Nat
  BY <1>1, <1>7 DEF found, Row
<1>10. \A i \in 1 .. k : h[i] \in Chunk BY <1>5, <1>9 DEF Chunk
<1>11. h \in Seq(Chunk) /\ DOMAIN h = 1 .. k
  <2>1. h \in [1 .. k -> Chunk] BY <1>5, <1>10
  <2> QED BY <1>4, <2>1
<1>12. f \in [1 .. k -> store] BY <1>9
<1>13. \A i \in 1 .. k : f[i].of = s /\ h[i] = [kind |-> "data", n |-> f[i].n, live |-> FALSE]
  BY <1>5, <1>9
<1>14. \A i, j \in 1 .. k : i < j => f[i].seq < f[j].seq BY <1>8
<1> HIDE DEF f
<1>15. FromRows(h, s) BY <1>11, <1>12, <1>13, <1>14 DEF FromRows
<1> QED BY <1>11, <1>15 DEF h

-----------------------------------------------------------------------------
(* A viewer's sequence grows at its end, or loses an element that is no     *)
(* output.                                                                  *)

(* r is q without elements that are no output.                              *)
Thinned(r, q) ==
  \E f \in [DOMAIN r -> DOMAIN q] :
    /\ \A i \in DOMAIN r : r[i] = q[f[i]]
    /\ \A i, j \in DOMAIN r : i < j => f[i] < f[j]
    /\ \A k \in Places(q) : \E i \in DOMAIN r : f[i] = k

LEMMA ThinnedFacts ==
  ASSUME NEW q \in Seq(Chunk), NEW r \in Seq(Chunk), Thinned(r, q)
  PROVE  /\ Numbers(r, Places(r)) = Numbers(q, Places(q))
         /\ Numbers(r, Lives(r)) = Numbers(q, Lives(q))
         /\ Single(q) => Single(r)
         /\ Rising(q, Places(q)) => Rising(r, Places(r))
         /\ Rising(q, Lives(q)) => Rising(r, Lives(r))
<1>1. PICK f \in [DOMAIN r -> DOMAIN q] :
        /\ \A i \in DOMAIN r : r[i] = q[f[i]]
        /\ \A i, j \in DOMAIN r : i < j => f[i] < f[j]
        /\ \A k \in Places(q) : \E i \in DOMAIN r : f[i] = k
  BY DEF Thinned
<1>2. DOMAIN r \subseteq Nat /\ DOMAIN q \subseteq Nat OBVIOUS
<1>3. \A i \in Places(r) : f[i] \in Places(q) BY <1>1 DEF Places
<1>4. \A k \in Places(q) : \E i \in Places(r) : f[i] = k BY <1>1 DEF Places
<1>5. \A i \in Lives(r) : f[i] \in Lives(q) BY <1>1, <1>3 DEF Lives, Places
<1>6. \A k \in Lives(q) : \E i \in Lives(r) : f[i] = k BY <1>1, <1>4 DEF Lives, Places
<1>7. Numbers(r, Places(r)) = Numbers(q, Places(q)) BY <1>1, <1>3, <1>4 DEF Numbers, Places
<1>8. Numbers(r, Lives(r)) = Numbers(q, Lives(q)) BY <1>1, <1>5, <1>6 DEF Numbers, Lives, Places
<1>9. ASSUME Single(q) PROVE Single(r)
  <2> SUFFICES ASSUME NEW i \in Places(r), NEW j \in Places(r), r[i].n = r[j].n PROVE i = j
    BY DEF Single
  <2>1. i \in DOMAIN r /\ j \in DOMAIN r /\ i \in Nat /\ j \in Nat BY <1>2 DEF Places
  <2>2. f[i] = f[j] BY <1>1, <1>3, <1>9, <2>1 DEF Single
  <2>3. ~(i < j) /\ ~(j < i) BY <1>1, <1>2, <2>1, <2>2
  <2> QED BY <2>1, <2>3
<1>10. ASSUME Rising(q, Places(q)) PROVE Rising(r, Places(r))
  BY <1>1, <1>3, <1>10 DEF Rising, Places
<1>11. ASSUME Rising(q, Lives(q)) PROVE Rising(r, Lives(r))
  BY <1>1, <1>5, <1>11 DEF Rising, Lives, Places
<1> QED BY <1>7, <1>8, <1>9, <1>10, <1>11

(* The loop of handleWebSocket moves the head of the channel.               *)
LEMMA MovedFacts ==
  ASSUME NEW g \in Seq(Chunk), NEW b \in Seq(Chunk), b # <<>>
  PROVE  LET m == Head(b)
             a == IF IsOutput(m) THEN Append(g, m) ELSE g IN
         /\ m \in Chunk /\ Tail(b) \in Seq(Chunk) /\ a \in Seq(Chunk)
         /\ Thinned(a \o Tail(b), g \o b)
<1> DEFINE m == Head(b)
           a == IF IsOutput(m) THEN Append(g, m) ELSE g
           q == g \o b
           r == a \o Tail(b)
           G == Len(g)
           B == Len(b)
<1>1. /\ G \in Nat /\ B \in Nat /\ B >= 1 /\ m \in Chunk /\ m = b[1] /\ Tail(b) \in Seq(Chunk)
      /\ Len(Tail(b)) = B - 1 /\ \A i \in 1 .. B - 1 : Tail(b)[i] = b[i + 1]
  BY HeadTailProperties
<1>2. a \in Seq(Chunk) BY <1>1
<1>3. /\ q \in Seq(Chunk) /\ Len(q) = G + B
      /\ \A i \in 1 .. G + B : q[i] = IF i <= G THEN g[i] ELSE b[i - G]
  BY ConcatProperties
<1>4. /\ r \in Seq(Chunk) /\ Len(r) = Len(a) + (B - 1)
      /\ \A i \in 1 .. Len(a) + (B - 1) : r[i] = IF i <= Len(a) THEN a[i] ELSE Tail(b)[i - Len(a)]
  BY <1>1, <1>2, ConcatProperties
<1>a. (IsOutput(m) => a = Append(g, m)) /\ (~IsOutput(m) => a = g) OBVIOUS
<1>b. DOMAIN r = 1 .. Len(r) /\ DOMAIN q = 1 .. Len(q) BY <1>3, <1>4
<1> HIDE DEF q, r, a
<1>5. CASE IsOutput(m)
  <2>1. a = Append(g, m) BY <1>5, <1>a
  <2>2. Len(a) = G + 1 /\ a[G + 1] = m /\ \A i \in 1 .. G : a[i] = g[i] BY <1>1, <2>1
  <2> HIDE DEF G, B, m
  <2>3. Len(r) = G + B BY <1>1, <1>4, <2>2
  <2>4. ASSUME NEW i \in 1 .. G + B PROVE r[i] = q[i]
    <3>1. CASE i <= G
      <4>1. i \in 1 .. G /\ i <= G + 1 /\ i \in 1 .. Len(a) + (B - 1) BY <1>1, <2>2, <3>1
      <4>2. r[i] = a[i] /\ q[i] = g[i] BY <1>3, <1>4, <2>2, <3>1, <4>1
      <4> QED BY <2>2, <4>1, <4>2
    <3>2. CASE i = G + 1 BY <1>1, <1>3, <1>4, <2>2, <2>3, <3>2
    <3>3. CASE i > G + 1
      <4>1. r[i] = Tail(b)[i - (G + 1)] BY <1>1, <1>4, <2>2, <2>3, <3>3
      <4>2. i - (G + 1) \in 1 .. B - 1 /\ (i - (G + 1)) + 1 = i - G BY <1>1, <3>3
      <4>3. Tail(b)[i - (G + 1)] = b[i - G] BY <1>1, <4>2
      <4>4. q[i] = b[i - G] BY <1>1, <1>3, <3>3
      <4> QED BY <4>1, <4>3, <4>4
    <3> QED BY <1>1, <3>1, <3>2, <3>3
  <2> DEFINE f == [i \in 1 .. G + B |-> i]
  <2>5. DOMAIN r = 1 .. G + B /\ DOMAIN q = 1 .. G + B BY <1>3, <1>b, <2>3
  <2>6. f \in [DOMAIN r -> DOMAIN q] /\ \A i \in DOMAIN r : f[i] = i BY <2>5
  <2> HIDE DEF f
  <2>7. /\ \A i \in DOMAIN r : r[i] = q[f[i]]
        /\ \A i, j \in DOMAIN r : i < j => f[i] < f[j]
        /\ \A k \in Places(q) : \E i \in DOMAIN r : f[i] = k
    BY <2>4, <2>5, <2>6 DEF Places
  <2>8. Thinned(r, q) BY <2>6, <2>7 DEF Thinned
  <2> QED BY <1>1, <1>2, <2>8 DEF r, q, a, m
<1>6. CASE ~IsOutput(m)
  <2>1. a = g /\ Len(a) = G BY <1>6, <1>a
  <2> HIDE DEF G, B, m
  <2>2. Len(r) = G + B - 1 /\ DOMAIN r = 1 .. G + B - 1 /\ DOMAIN q = 1 .. G + B
    BY <1>1, <1>3, <1>4, <1>b, <2>1
  <2> DEFINE f == [i \in 1 .. G + B - 1 |-> IF i <= G THEN i ELSE i + 1]
  <2>3. f \in [DOMAIN r -> DOMAIN q] /\ \A i \in DOMAIN r : f[i] = IF i <= G THEN i ELSE i + 1
    BY <1>1, <2>2
  <2> HIDE DEF f
  <2>4. ASSUME NEW i \in DOMAIN r PROVE r[i] = q[f[i]]
    <3>1. CASE i <= G BY <1>1, <1>3, <1>4, <2>1, <2>2, <2>3, <3>1
    <3>2. CASE i > G
      <4>1. r[i] = Tail(b)[i - G] BY <1>1, <1>4, <2>1, <2>2, <3>2
      <4>2. i - G \in 1 .. B - 1 BY <1>1, <2>2, <3>2
      <4>3. Tail(b)[i - G] = b[(i - G) + 1] BY <1>1, <4>2
      <4>4. q[i + 1] = b[(i + 1) - G] BY <1>1, <1>3, <2>2, <3>2
      <4>5. (i - G) + 1 = (i + 1) - G /\ f[i] = i + 1 BY <1>1, <2>2, <2>3, <3>2
      <4> QED BY <4>1, <4>3, <4>4, <4>5
    <3> QED BY <1>1, <2>2, <3>1, <3>2
  <2>5. q[G + 1] = m BY <1>1, <1>3
  <2>6. ASSUME NEW k \in Places(q) PROVE \E i \in DOMAIN r : f[i] = k
    <3>1. k \in 1 .. G + B /\ k # G + 1 BY <1>6, <2>2, <2>5 DEF Places
    <3>2. CASE k <= G
      <4>1. k \in DOMAIN r BY <1>1, <2>2, <3>1, <3>2
      <4>2. f[k] = k BY <2>3, <3>2, <4>1
      <4> QED BY <4>1, <4>2
    <3>3. CASE k > G
      <4>1. k - 1 \in DOMAIN r /\ ~(k - 1 <= G) /\ (k - 1) + 1 = k BY <1>1, <2>2, <3>1, <3>3
      <4>2. f[k - 1] = (k - 1) + 1 BY <2>3, <4>1
      <4> QED BY <4>1, <4>2
    <3> QED BY <1>1, <3>1, <3>2, <3>3
  <2>7. \A i, j \in DOMAIN r : i < j => f[i] < f[j]
    <3> SUFFICES ASSUME NEW i \in DOMAIN r, NEW j \in DOMAIN r, i < j PROVE f[i] < f[j] OBVIOUS
    <3>1. i \in Nat /\ j \in Nat /\ f[i] = (IF i <= G THEN i ELSE i + 1) /\ f[j] = (IF j <= G THEN j ELSE j + 1)
      BY <2>2, <2>3
    <3> QED BY <1>1, <3>1
  <2>8. Thinned(r, q) BY <2>3, <2>4, <2>6, <2>7 DEF Thinned
  <2> QED BY <1>1, <1>2, <2>8 DEF r, q, a, m
<1> QED BY <1>5, <1>6

(* Publish appends to the channel.                                          *)
Grown(r, q, m) ==
  /\ Len(r) = Len(q) + 1 /\ r[Len(q) + 1] = m
  /\ \A i \in 1 .. Len(q) : r[i] = q[i]

LEMMA AppendedFacts ==
  ASSUME NEW S, NEW g \in Seq(S), NEW b \in Seq(S), NEW m \in S
  PROVE  /\ g \o b \in Seq(S) /\ g \o Append(b, m) \in Seq(S)
         /\ Grown(g \o Append(b, m), g \o b, m)
<1> DEFINE a == Append(b, m)
           q == g \o b
           r == g \o a
           G == Len(g)
           B == Len(b)
<1>1. /\ G \in Nat /\ B \in Nat /\ a \in Seq(S) /\ Len(a) = B + 1
      /\ a[B + 1] = m /\ \A i \in 1 .. B : a[i] = b[i]
  OBVIOUS
<1>2. /\ q \in Seq(S) /\ Len(q) = G + B
      /\ \A i \in 1 .. G + B : q[i] = IF i <= G THEN g[i] ELSE b[i - G]
  BY ConcatProperties
<1>3. /\ r \in Seq(S) /\ Len(r) = G + Len(a)
      /\ \A i \in 1 .. G + Len(a) : r[i] = IF i <= G THEN g[i] ELSE a[i - G]
  BY <1>1, ConcatProperties
<1> HIDE DEF a, q, r, G, B
<1>4. Len(r) = Len(q) + 1 BY <1>1, <1>2, <1>3
<1>5. r[Len(q) + 1] = m
  <2>1. Len(q) + 1 \in 1 .. G + Len(a) /\ ~(Len(q) + 1 <= G) /\ (Len(q) + 1) - G = B + 1
    BY <1>1, <1>2
  <2>2. r[Len(q) + 1] = a[(Len(q) + 1) - G] BY <1>3, <2>1
  <2> QED BY <1>1, <2>1, <2>2
<1>6. ASSUME NEW i \in 1 .. Len(q) PROVE r[i] = q[i]
  <2>1. i \in 1 .. G + B /\ i \in 1 .. G + Len(a) BY <1>1, <1>2
  <2>2. CASE i <= G BY <1>2, <1>3, <2>1, <2>2
  <2>3. CASE ~(i <= G)
    <3>1. i - G \in 1 .. B BY <1>1, <2>1, <2>3
    <3>2. q[i] = b[i - G] /\ r[i] = a[i - G] BY <1>2, <1>3, <2>1, <2>3
    <3> QED BY <1>1, <3>1, <3>2
  <2> QED BY <2>2, <2>3
<1>7. Grown(r, q, m) BY <1>4, <1>5, <1>6 DEF Grown
<1> QED BY <1>2, <1>3, <1>7 DEF r, q, a

LEMMA GrownFacts ==
  ASSUME NEW q \in Seq(Chunk), NEW r \in Seq(Chunk), NEW m \in Chunk, Grown(r, q, m)
  PROVE  /\ ~IsOutput(m) =>
              /\ Numbers(r, Places(r)) = Numbers(q, Places(q))
              /\ Numbers(r, Lives(r)) = Numbers(q, Lives(q))
              /\ Single(q) => Single(r)
              /\ Rising(q, Places(q)) => Rising(r, Places(r))
              /\ Rising(q, Lives(q)) => Rising(r, Lives(r))
         /\ IsOutput(m) /\ m.live /\ (\A x \in Numbers(q, Places(q)) : x < m.n) =>
              /\ Numbers(r, Places(r)) = Numbers(q, Places(q)) \cup {m.n}
              /\ Numbers(r, Lives(r)) = Numbers(q, Lives(q)) \cup {m.n}
              /\ Single(q) => Single(r)
              /\ Rising(q, Places(q)) => Rising(r, Places(r))
              /\ Rising(q, Lives(q)) => Rising(r, Lives(r))
<1> DEFINE L == Len(q)
<1>1. /\ L \in Nat /\ DOMAIN q = 1 .. L /\ DOMAIN r = 1 .. L + 1 /\ r[L + 1] = m
      /\ \A i \in 1 .. L : r[i] = q[i]
  BY DEF Grown
<1> HIDE DEF L
<1>2. \A i \in Places(q) : i \in 1 .. L /\ i \in Nat /\ i # L + 1 /\ i < L + 1 /\ ~(L + 1 < i) /\ r[i] = q[i]
  BY <1>1 DEF Places
<1>3. \A i \in Places(r) : i \in Places(q) \/ i = L + 1
  BY <1>1 DEF Places
<1>4. Places(q) \subseteq Places(r) BY <1>1, <1>2 DEF Places
<1>5. CASE ~IsOutput(m)
  <2>1. Places(r) = Places(q) BY <1>1, <1>3, <1>4, <1>5 DEF Places
  <2>2. Lives(r) = Lives(q) BY <1>2, <2>1 DEF Lives
  <2>3. Lives(q) \subseteq Places(q) BY DEF Lives
  <2>4. /\ Numbers(r, Places(r)) = Numbers(q, Places(q))
        /\ Numbers(r, Lives(r)) = Numbers(q, Lives(q))
    BY <1>2, <2>1, <2>2, <2>3 DEF Numbers
  <2>5. Single(q) => Single(r) BY <1>2, <2>1 DEF Single
  <2>6. /\ Rising(q, Places(q)) => Rising(r, Places(r))
        /\ Rising(q, Lives(q)) => Rising(r, Lives(r))
    BY <1>2, <2>1, <2>2, <2>3 DEF Rising
  <2> QED BY <1>5, <2>4, <2>5, <2>6
<1>6. CASE IsOutput(m) /\ m.live /\ \A x \in Numbers(q, Places(q)) : x < m.n
  <2>1. Places(r) = Places(q) \cup {L + 1} BY <1>1, <1>3, <1>4, <1>6 DEF Places
  <2>2. Lives(r) = Lives(q) \cup {L + 1} BY <1>1, <1>2, <1>6, <2>1 DEF Lives
  <2>3. Lives(q) \subseteq Places(q) BY DEF Lives
  <2>4. \A i \in Places(q) : q[i].n < m.n /\ q[i].n # m.n
    <3> TAKE i \in Places(q)
    <3>0. q[i] \in Chunk BY <1>1, <1>2
    <3>1. q[i].n \in Nat /\ m.n \in Nat BY <3>0 DEF Chunk
    <3>2. q[i].n < m.n BY <1>6 DEF Numbers
    <3> QED BY <3>1, <3>2
  <2>5. Numbers(r, Places(r)) = Numbers(q, Places(q)) \cup {m.n} BY <1>1, <1>2, <2>1 DEF Numbers
  <2>6. Numbers(r, Lives(r)) = Numbers(q, Lives(q)) \cup {m.n} BY <1>1, <1>2, <2>2, <2>3 DEF Numbers
  <2>7. Single(q) => Single(r) BY <1>1, <1>2, <2>1, <2>4 DEF Single
  <2>8. ~(L + 1 < L + 1) BY <1>1
  <2>9. Rising(q, Places(q)) => Rising(r, Places(r)) BY <1>1, <1>2, <2>1, <2>4, <2>8 DEF Rising
  <2>10. Rising(q, Lives(q)) => Rising(r, Lives(r)) BY <1>1, <1>2, <2>2, <2>3, <2>4, <2>8 DEF Rising
  <2> QED BY <1>6, <2>5, <2>6, <2>7, <2>9, <2>10
<1> QED BY <1>5, <1>6

-----------------------------------------------------------------------------
(* What the invariant says, and what keeps its parts.                       *)

LEMMA StreamTypes ==
  ASSUME RelayTypeOK, NEW c \in Clients
  PROVE  /\ client[c] \in ViewerState /\ client[c].got \in Seq(Chunk) /\ client[c].buf \in Seq(Chunk)
         /\ Stream(c) \in Seq(Chunk) /\ Numbers(Stream(c), Places(Stream(c))) \subseteq Nat
<1>1. client[c] \in ViewerState BY DEF RelayTypeOK
<1>2. client[c].got \in Seq(Chunk) /\ client[c].buf \in Seq(Chunk) BY <1>1 DEF ViewerState
<1>3. Stream(c) \in Seq(Chunk) BY <1>2, ConcatProperties DEF Stream
<1>4. \A q \in Seq(Chunk) : \A i \in Places(q) : q[i].n \in Nat
  <2> TAKE q \in Seq(Chunk)
  <2> TAKE i \in Places(q)
  <2>1. i \in 1 .. Len(q) BY DEF Places
  <2>2. q[i] \in Chunk BY <2>1
  <2> QED BY <2>2 DEF Chunk
<1>5. Numbers(Stream(c), Places(Stream(c))) \subseteq Nat BY <1>3, <1>4 DEF Numbers
<1> QED BY <1>1, <1>2, <1>3, <1>5

LEMMA ViewMeans ==
  ASSUME IInv
  PROVE  NoDuplicates /\ ReceivedInOrder /\ LiveIsComplete /\ ConnectionsCounted /\ RelayTypeOK
<1>1. \A c \in Clients : View(c) BY DEF IInv, ViewsInv
<1>2. \A c \in Clients : Outputs(c) = Places(Stream(c)) BY DEF Outputs, Places
<1>3. NoDuplicates BY <1>1, <1>2 DEF NoDuplicates, View, Single
<1>4. ReceivedInOrder BY <1>1, <1>2 DEF ReceivedInOrder, View, Rising, Increasing
<1>5. ConnectionsCounted /\ RelayTypeOK BY DEF IInv, CountInv
<1>6. LiveIsComplete
  <2> SUFFICES ASSUME NEW s \in Streamed, NEW c \in subs[s], ~client[c].drops, breaks = 0
               PROVE  LET live == {i \in Outputs(c) : Stream(c)[i].live}
                          sending == IF pub[s]["ingest"].kind = "data" /\ c \in pub[s]["ingest"].to
                                     THEN 1 ELSE 0 IN
                      /\ {Stream(c)[i].n : i \in live} = client[c].from + 1 .. Read(s) - sending
                      /\ Increasing(c, live)
    BY DEF LiveIsComplete
  <2>1. c \in Clients /\ client[c].of = s BY <1>5 DEF ConnectionsCounted
  <2>2. /\ Numbers(Stream(c), Lives(Stream(c))) =
             client[c].from + 1 .. Read(s) - (IF c \in Sending(s) THEN 1 ELSE 0)
        /\ Rising(Stream(c), Lives(Stream(c)))
    BY <1>1, <2>1 DEF View
  <2>3. Lives(Stream(c)) = {i \in Outputs(c) : Stream(c)[i].live} BY <1>2, <2>1 DEF Lives
  <2>4. c \in Sending(s) <=> pub[s]["ingest"].kind = "data" /\ c \in pub[s]["ingest"].to
    BY DEF Sending
  <2> QED BY <2>2, <2>3, <2>4 DEF Numbers, Rising, Increasing
<1> QED BY <1>3, <1>4, <1>5, <1>6

(* r has the output that q has.                                             *)
Alike(r, q) ==
  /\ Numbers(r, Places(r)) = Numbers(q, Places(q))
  /\ Numbers(r, Lives(r)) = Numbers(q, Lives(q))
  /\ Single(q) => Single(r)
  /\ Rising(q, Places(q)) => Rising(r, Places(r))
  /\ Rising(q, Lives(q)) => Rising(r, Lives(r))

(* The numbers of a session, and the counter's history, only grow.          *)
Onward ==
  \A s \in Streamed :
    /\ Read(s) \in Nat /\ Read(s)' \in Nat /\ Read(s) <= Read(s)'
    /\ high[s] <= high'[s] /\ (~reused'[s] => ~reused[s])

LEMMA ViewStep ==
  ASSUME RelayTypeOK, NEW c \in Clients, View(c), Onward,
         Alike(Stream(c)', Stream(c)), client'[c].of = client[c].of,
         client'[c].from = client[c].from,
         client[c].of \in Streamed =>
           LET s == client[c].of IN
           /\ c \in Sending(s)' => c \in Sending(s) /\ pub'[s]["ingest"].n = pub[s]["ingest"].n
           /\ c \in subs'[s] /\ ~client'[c].drops /\ breaks' = 0 =>
                /\ c \in subs[s] /\ ~client[c].drops /\ breaks = 0 /\ Read(s)' = Read(s)
                /\ c \in Sending(s) => c \in Sending(s)'
  PROVE  View(c)'
<1> DEFINE s == client[c].of
           q == Stream(c)
           r == Stream(c)'
<1>1. Single(r) BY DEF View, Alike
<1>2. SUFFICES ASSUME s \in Streamed
               PROVE  /\ client'[c].from <= Read(s)'
                      /\ c \in Sending(s)' => client'[c].from < pub'[s]["ingest"].n
                      /\ \A x \in Numbers(r, Places(r)) :
                           x <= Read(s)' /\ (c \in Sending(s)' => x < pub'[s]["ingest"].n)
                      /\ ~reused'[s] => Rising(r, Places(r))
                      /\ c \in subs'[s] /\ ~client'[c].drops /\ breaks' = 0 =>
                           /\ Numbers(r, Lives(r)) =
                                client'[c].from + 1 .. Read(s)' - (IF c \in Sending(s)' THEN 1 ELSE 0)
                           /\ Rising(r, Lives(r))
  BY <1>1 DEF View
<1>3. Numbers(r, Places(r)) = Numbers(q, Places(q)) /\ Numbers(q, Places(q)) \subseteq Nat
  BY StreamTypes DEF Alike
<1>4. ASSUME NEW x \in Numbers(r, Places(r))
      PROVE  x <= Read(s)' /\ (c \in Sending(s)' => x < pub'[s]["ingest"].n)
  <2>1. x \in Nat /\ x <= Read(s) /\ (c \in Sending(s) => x < pub[s]["ingest"].n)
    BY <1>2, <1>3 DEF View
  <2>2. Read(s) \in Nat /\ Read(s)' \in Nat /\ Read(s) <= Read(s)' BY <1>2 DEF Onward
  <2>3. x <= Read(s)' BY <2>1, <2>2
  <2> QED BY <1>2, <2>1, <2>3
<1>5. ~reused'[s] => Rising(r, Places(r)) BY <1>2 DEF View, Alike, Onward
<1>6. ASSUME c \in subs'[s] /\ ~client'[c].drops /\ breaks' = 0
      PROVE  /\ Numbers(r, Lives(r)) =
                  client'[c].from + 1 .. Read(s)' - (IF c \in Sending(s)' THEN 1 ELSE 0)
             /\ Rising(r, Lives(r))
  <2>1. /\ Numbers(q, Lives(q)) =
             client[c].from + 1 .. Read(s) - (IF c \in Sending(s) THEN 1 ELSE 0)
        /\ Rising(q, Lives(q))
    BY <1>2, <1>6 DEF View
  <2>2. /\ Read(s)' = Read(s) /\ client'[c].from = client[c].from
        /\ c \in Sending(s) <=> c \in Sending(s)'
    BY <1>2, <1>6
  <2> QED BY <2>1, <2>2 DEF Alike
<1>7. /\ client'[c].from <= Read(s)'
      /\ c \in Sending(s)' => client'[c].from < pub'[s]["ingest"].n
  <2>1. client[c].from \in Nat BY StreamTypes DEF ViewerState
  <2>2. Read(s) \in Nat /\ Read(s)' \in Nat /\ Read(s) <= Read(s)' BY <1>2 DEF Onward
  <2>3. client[c].from <= Read(s) /\ (c \in Sending(s) => client[c].from < pub[s]["ingest"].n)
    BY <1>2 DEF View
  <2>4. client'[c].from <= Read(s)' BY <2>1, <2>2, <2>3
  <2> QED BY <1>2, <2>3, <2>4
<1> QED BY <1>4, <1>5, <1>6, <1>7

LEMMA AlikeItself ==
  ASSUME NEW q
  PROVE  Alike(q, q)
BY DEF Alike

LEMMA ReadTypes ==
  ASSUME RelayTypeOK, WireInv, NEW s \in Streamed
  PROVE  Read(s) \in Nat /\ Len(sent[s]) \in Nat /\ Read(s) <= Len(sent[s])
<1>1. sent[s] \in Seq(Seq(Nat)) BY DEF RelayTypeOK, ConnTypes
<1> QED BY <1>1 DEF WireInv

LEMMA WireSame ==
  ASSUME WireInv, UNCHANGED <<wire, sent>>
  PROVE  WireInv' /\ \A s \in Streamed : Read(s)' = Read(s)
<1>1. \A s \in Streamed : Pending(s)' = Pending(s) BY DEF Pending
<1>2. \A s \in Streamed : Read(s)' = Read(s) BY <1>1 DEF Read
<1> QED BY <1>1, <1>2 DEF WireInv

(* Steps that leave the counters alone, and those that leave the socket.    *)
NumbersSame == \A s \in Streamed : high'[s] = high[s] /\ reused'[s] = reused[s]

LEMMA OnwardSame ==
  ASSUME RelayTypeOK, WireInv, UNCHANGED <<wire, sent>>, NumbersSame
  PROVE  Onward
<1>1. \A s \in Streamed : Read(s)' = Read(s) /\ Read(s) \in Nat BY WireSame, ReadTypes
<1>2. \A s \in Streamed : high[s] \in Nat BY DEF RelayTypeOK, HubTypes
<1> QED BY <1>1, <1>2 DEF Onward, NumbersSame

Subscribed == {"live", "leaving", "closed"}

LEMMA PubKeeps ==
  ASSUME RelayTypeOK, PubInv, pub' = pub, \A s \in Streamed : Read(s)' = Read(s),
         \A c \in Clients :
           /\ client[c].pc \in Subscribed =>
                client'[c].pc \in Subscribed /\ client'[c].of = client[c].of
           /\ client[c].drops => client'[c].drops
  PROVE  PubInv'
<1>1. \A s \in Streamed, t \in Threads : pub[s][t].to \subseteq Clients /\ pub[s][t].mark \subseteq Clients
  BY DEF RelayTypeOK, PubState
<1> SUFFICES ASSUME NEW s \in Streamed, NEW t \in Threads
             PROVE  LET p == pub'[s][t] IN
                    /\ p.kind = "data" => t = "ingest" /\ p.pc = "send" /\ p.n > 0 /\ p.n = Read(s)'
                    /\ p.mark \subseteq p.to
                    /\ (p.pc = "send" => p.kind # "none") /\ (p.kind # "data" => p.n = 0)
                    /\ \A c \in p.mark : client'[c].drops
                    /\ \A c \in p.to : client'[c].of = s /\ client'[c].pc \in Subscribed
  BY DEF PubInv, Subscribed
<1> DEFINE p == pub[s][t]
<1>2. /\ p.kind = "data" => t = "ingest" /\ p.pc = "send" /\ p.n > 0 /\ p.n = Read(s)
      /\ p.mark \subseteq p.to
      /\ (p.pc = "send" => p.kind # "none") /\ (p.kind # "data" => p.n = 0)
      /\ \A c \in p.mark : client[c].drops
      /\ \A c \in p.to : client[c].of = s /\ client[c].pc \in Subscribed
  BY DEF PubInv, Subscribed
<1> QED BY <1>1, <1>2

LEMMA PipeKeeps ==
  ASSUME PipeInv, store' = store, \A h \in Shards : Pipe(h)' = Pipe(h)
  PROVE  PipeInv' /\ \A s \in Streamed : Log(s)' = Log(s)
<1>1. PipeInv' BY DEF PipeInv, SameNumber
<1>2. UNION {ToSet(Pipe(h)') : h \in Shards} = UNION {ToSet(Pipe(h)) : h \in Shards} OBVIOUS
<1> QED BY <1>1, <1>2 DEF Log, ToSet

LEMMA LogTypes ==
  ASSUME RelayTypeOK, NEW s \in Streamed, NEW r \in Log(s)
  PROVE  r \in Row /\ r.n \in Nat /\ r.seq \in Nat
<1>1. CASE r \in store BY <1>1 DEF RelayTypeOK, RowTypes, Row
<1>2. CASE r \notin store
  <2>1. PICK h \in Shards : r \in ToSet(Pipe(h)) BY <1>2 DEF Log
  <2>2. batch[h] \in Seq(Row) /\ queue[h] \in Seq(Row) BY DEF RelayTypeOK, RowTypes
  <2>3. Pipe(h) \in Seq(Row) BY <2>2, ConcatProperties DEF Pipe
  <2>4. \A i \in DOMAIN Pipe(h) : Pipe(h)[i] \in Row BY <2>3
  <2>5. r \in Row BY <2>1, <2>4 DEF ToSet
  <2> QED BY <2>5 DEF Row
<1> QED BY <1>1, <1>2

(* The ingest handler goes on publishing the output it has, or has none.    *)
NothingNew ==
  \A s \in Streamed :
    pub'[s]["ingest"].kind = "data" =>
      /\ pub[s]["ingest"].kind = "data"
      /\ pub'[s]["ingest"].n = pub[s]["ingest"].n /\ pub'[s]["ingest"].seq = pub[s]["ingest"].seq

LEMMA RowKeeps ==
  ASSUME RelayTypeOK, HubTypes', RowInv, Onward, NothingNew,
         \A s \in Streamed : Log(s)' \subseteq Log(s)
  PROVE  RowInv'
<1> SUFFICES ASSUME NEW s \in Streamed
             PROVE  LET p == pub'[s]["ingest"] IN
                    /\ p.kind = "data" => p.seq <= high'[s]
                    /\ \A r \in Log(s)' :
                         /\ r.n <= Read(s)' /\ r.seq <= high'[s]
                         /\ p.kind = "data" => r.n < p.n
                         /\ p.kind = "data" /\ ~reused'[s] => r.seq < p.seq
                         /\ \A q \in Log(s)' : r.n < q.n /\ ~reused'[s] => r.seq < q.seq
  BY DEF RowInv
<1> DEFINE p == pub[s]["ingest"]
<1>1. high[s] \in Nat /\ high'[s] \in Nat /\ high[s] <= high'[s] BY DEF RelayTypeOK, HubTypes, Onward
<1>2. Read(s) \in Nat /\ Read(s)' \in Nat /\ Read(s) <= Read(s)' BY DEF Onward
<1>3. pub[s]["ingest"] \in PubState BY DEF RelayTypeOK, Threads
<1>4. pub'[s]["ingest"].kind = "data" => pub'[s]["ingest"].seq <= high'[s]
  <2>1. p.seq \in Nat BY <1>3 DEF PubState
  <2>2. p.kind = "data" => p.seq <= high[s] BY DEF RowInv
  <2> QED BY <1>1, <2>1, <2>2 DEF NothingNew
<1>5. ASSUME NEW r \in Log(s)'
      PROVE  r.n <= Read(s)' /\ r.seq <= high'[s]
  <2>1. r \in Log(s) /\ r.n \in Nat /\ r.seq \in Nat BY <1>5, LogTypes
  <2>2. r.n <= Read(s) /\ r.seq <= high[s] BY <2>1 DEF RowInv
  <2> QED BY <1>1, <1>2, <2>1, <2>2
<1>6. ASSUME NEW r \in Log(s)'
      PROVE  LET x == pub'[s]["ingest"] IN
             /\ x.kind = "data" => r.n < x.n
             /\ x.kind = "data" /\ ~reused'[s] => r.seq < x.seq
             /\ \A q \in Log(s)' : r.n < q.n /\ ~reused'[s] => r.seq < q.seq
  <2>1. Log(s)' \subseteq Log(s) /\ r \in Log(s) BY <1>6
  <2>2. /\ p.kind = "data" => r.n < p.n
        /\ p.kind = "data" /\ ~reused[s] => r.seq < p.seq
        /\ \A q \in Log(s) : r.n < q.n /\ ~reused[s] => r.seq < q.seq
    BY <2>1 DEF RowInv
  <2>3. ~reused'[s] => ~reused[s] BY DEF Onward
  <2> QED BY <2>1, <2>2, <2>3 DEF NothingNew
<1> QED BY <1>4, <1>5, <1>6

(* Nobody's view changes where clients are left alone and no output is      *)
(* taken up or handed on.                                                   *)
LEMMA ViewsKeep ==
  ASSUME RelayTypeOK, ViewsInv, Onward, UNCHANGED <<client, subs>>,
         breaks' = 0 => breaks = 0 /\ \A s \in Streamed : Read(s)' = Read(s),
         \A s \in Streamed : /\ Sending(s)' = Sending(s)
                             /\ Sending(s) # {} => pub'[s]["ingest"].n = pub[s]["ingest"].n
  PROVE  ViewsInv'
<1> SUFFICES ASSUME NEW c \in Clients PROVE View(c)' BY DEF ViewsInv
<1>1. View(c) BY DEF ViewsInv
<1>2. Stream(c)' = Stream(c) BY DEF Stream
<1>3. Alike(Stream(c)', Stream(c)) BY <1>2, AlikeItself
<1> QED BY <1>1, <1>3, ViewStep

-----------------------------------------------------------------------------
(* The socket.                                                              *)

(* Of one session: r is what was read, w is in the socket, L was written.   *)
WireOf(w, L, r) ==
  /\ r \in 0 .. L /\ ToSet(w) \ {0} = r + 1 .. L
  /\ \A i, j \in DOMAIN w : i < j /\ w[i] # 0 /\ w[j] # 0 => w[i] < w[j]

LEMMA WireMeans ==
  ASSUME RelayTypeOK, WireInv, NEW s \in Streamed
  PROVE  /\ wire[s] \in Seq(Nat) /\ Len(sent[s]) \in Nat /\ Read(s) \in Nat
         /\ WireOf(wire[s], Len(sent[s]), Read(s))
<1>1. wire[s] \in Seq(Nat) /\ sent[s] \in Seq(Seq(Nat)) BY DEF RelayTypeOK, ConnTypes
<1> QED BY <1>1 DEF WireInv, WireOf, Pending

LEMMA WireBecomes ==
  ASSUME NEW s \in Streamed, NEW r, Len(sent'[s]) \in Nat, WireOf(wire'[s], Len(sent'[s]), r)
  PROVE  /\ Read(s)' = r /\ Read(s)' \in 0 .. Len(sent'[s])
         /\ Pending(s)' = Read(s)' + 1 .. Len(sent'[s])
         /\ \A i, j \in DOMAIN wire'[s] :
              i < j /\ wire'[s][i] # 0 /\ wire'[s][j] # 0 => wire'[s][i] < wire'[s][j]
<1>1. Pending(s)' = r + 1 .. Len(sent'[s]) /\ r \in 0 .. Len(sent'[s]) BY DEF Pending, WireOf
<1>2. Read(s)' = r BY <1>1, ReadMin DEF Read
<1> QED BY <1>1, <1>2 DEF WireOf

LEMMA AppendSet ==
  ASSUME NEW S, NEW w \in Seq(S), NEW x \in S
  PROVE  ToSet(Append(w, x)) = ToSet(w) \cup {x}
<1> DEFINE L == Len(w)
           v == Append(w, x)
<1>1. L \in Nat /\ DOMAIN w = 1 .. L /\ DOMAIN v = 1 .. L + 1 /\ v[L + 1] = x /\ \A i \in 1 .. L : v[i] = w[i]
  OBVIOUS
<1> HIDE DEF L, v
<1>2. 1 .. L + 1 = (1 .. L) \cup {L + 1} BY <1>1
<1>3. ToSet(v) = ToSet(w) \cup {x} BY <1>1, <1>2 DEF ToSet
<1> QED BY <1>3 DEF v

LEMMA WireAppended ==
  ASSUME NEW w \in Seq(Nat), NEW L \in Nat, NEW r, WireOf(w, L, r), NEW x \in {0, L + 1}
  PROVE  WireOf(Append(w, x), IF x = 0 THEN L ELSE L + 1, r)
<1> DEFINE v == Append(w, x)
           k == Len(w)
<1>1. ToSet(v) = ToSet(w) \cup {x} BY AppendSet
<1>2. ToSet(v) \ {0} = r + 1 .. (IF x = 0 THEN L ELSE L + 1)
  <2>1. r \in 0 .. L /\ ToSet(w) \ {0} = r + 1 .. L BY DEF WireOf
  <2>2. CASE x = 0 BY <1>1, <2>1, <2>2
  <2>3. CASE x # 0
    <3>1. x = L + 1 BY <2>3
    <3>2. r + 1 .. L + 1 = (r + 1 .. L) \cup {L + 1} BY <2>1
    <3>3. ToSet(v) \ {0} = (ToSet(w) \ {0}) \cup {x} BY <1>1, <2>3
    <3> QED BY <2>1, <2>3, <3>1, <3>2, <3>3
  <2> QED BY <2>2, <2>3
<1>3. k \in Nat /\ DOMAIN w = 1 .. k /\ DOMAIN v = 1 .. k + 1 /\ v[k + 1] = x /\ \A i \in 1 .. k : v[i] = w[i]
  OBVIOUS
<1> HIDE DEF v, k
<1>4. ASSUME NEW i \in DOMAIN v, NEW j \in DOMAIN v, i < j, v[i] # 0, v[j] # 0
      PROVE  v[i] < v[j]
  <2>1. i \in 1 .. k /\ v[i] = w[i] BY <1>3, <1>4
  <2>2. CASE j = k + 1
    <3>1. v[j] = L + 1 BY <1>3, <1>4, <2>2
    <3>2. w[i] \in ToSet(w) \ {0} BY <1>3, <1>4, <2>1 DEF ToSet
    <3>3. w[i] \in r + 1 .. L /\ r \in 0 .. L BY <3>2 DEF WireOf
    <3> QED BY <2>1, <3>1, <3>3
  <2>3. CASE j # k + 1
    <3>1. j \in 1 .. k /\ v[j] = w[j] BY <1>3, <1>4, <2>3
    <3> QED BY <1>3, <1>4, <2>1, <3>1 DEF WireOf
  <2> QED BY <2>2, <2>3
<1>5. r \in 0 .. (IF x = 0 THEN L ELSE L + 1)
  <2>1. r \in 0 .. L BY DEF WireOf
  <2> QED BY <2>1
<1> QED BY <1>2, <1>4, <1>5 DEF WireOf, v

LEMMA WireRead ==
  ASSUME NEW w \in Seq(Nat), NEW L \in Nat, NEW r, WireOf(w, L, r), w # <<>>
  PROVE  /\ Head(w) = 0 \/ Head(w) = r + 1
         /\ Tail(w) \in Seq(Nat) /\ WireOf(Tail(w), L, IF Head(w) = 0 THEN r ELSE r + 1)
<1> DEFINE v == Tail(w)
           k == Len(w)
           m == Head(w)
<1>1. /\ k \in Nat /\ k >= 1 /\ m \in Nat /\ m = w[1] /\ v \in Seq(Nat)
      /\ Len(v) = k - 1 /\ \A i \in 1 .. k - 1 : v[i] = w[i + 1]
  BY HeadTailProperties
<1>2. DOMAIN w = 1 .. k /\ DOMAIN v = 1 .. k - 1 BY <1>1
<1> HIDE DEF v, k, m
<1>3. r \in 0 .. L /\ ToSet(w) \ {0} = r + 1 .. L BY DEF WireOf
<1>4. ASSUME NEW i \in DOMAIN v, NEW j \in DOMAIN v, i < j, v[i] # 0, v[j] # 0
      PROVE  v[i] < v[j]
  <2>0. i \in 1 .. k - 1 /\ j \in 1 .. k - 1 BY <1>2
  <2>a. k \in Nat BY <1>1
  <2>b. i + 1 \in 1 .. k /\ j + 1 \in 1 .. k /\ i + 1 < j + 1 BY <1>4, <2>0, <2>a
  <2>1. i + 1 \in DOMAIN w /\ j + 1 \in DOMAIN w /\ i + 1 < j + 1 BY <1>2, <2>b
  <2>2. v[i] = w[i + 1] /\ v[j] = w[j + 1] BY <1>1, <1>2
  <2> QED BY <1>4, <2>1, <2>2 DEF WireOf
<1>5. ToSet(w) = ToSet(v) \cup {m}
  <2>1. ASSUME NEW i \in DOMAIN w PROVE w[i] \in ToSet(v) \cup {m}
    <3>1. CASE i = 1 BY <1>1, <3>1
    <3>2. CASE i # 1
      <4>1. i - 1 \in 1 .. k - 1 /\ (i - 1) + 1 = i BY <1>1, <1>2, <3>2
      <4>2. v[i - 1] = w[i] BY <1>1, <4>1
      <4> QED BY <1>2, <4>1, <4>2 DEF ToSet
    <3> QED BY <3>1, <3>2
  <2>2. ASSUME NEW i \in DOMAIN v PROVE v[i] \in ToSet(w)
    <3>1. i \in 1 .. k - 1 /\ i + 1 \in 1 .. k BY <1>1, <1>2
    <3>2. i + 1 \in DOMAIN w /\ v[i] = w[i + 1] BY <1>1, <1>2, <3>1
    <3> QED BY <3>2 DEF ToSet
  <2>3. m \in ToSet(w) BY <1>1, <1>2 DEF ToSet
  <2> QED BY <2>1, <2>2, <2>3 DEF ToSet
<1>6. CASE m = 0
  <2>1. ToSet(v) \ {0} = r + 1 .. L BY <1>3, <1>5, <1>6
  <2> QED BY <1>1, <1>3, <1>4, <1>6, <2>1 DEF WireOf, m, v
<1>7. CASE m # 0
  <2>1. ASSUME NEW x \in ToSet(v), x # 0 PROVE m < x
    <3>1. PICK i \in DOMAIN v : v[i] = x BY <2>1 DEF ToSet
    <3>2. 1 \in DOMAIN w /\ i + 1 \in DOMAIN w /\ 1 < i + 1 /\ w[i + 1] = x BY <1>1, <1>2, <3>1
    <3> QED BY <1>1, <1>7, <2>1, <3>2 DEF WireOf
  <2>a. m \in r + 1 .. L BY <1>3, <1>5, <1>7
  <2>2. m \in r + 1 .. L /\ r + 1 \in r + 1 .. L BY <1>3, <2>a
  <2>3. m = r + 1
    <3>1. r + 1 \in ToSet(v) \cup {m} /\ r + 1 # 0 BY <1>3, <1>5, <2>2
    <3>2. ~(m < r + 1) BY <1>3, <2>2
    <3> QED BY <2>1, <3>1, <3>2
  <2>4. ToSet(v) \ {0} = (r + 1) + 1 .. L
    <3>1. ~(m < m) BY <1>1
    <3>2. m \notin ToSet(v) BY <1>7, <2>1, <3>1
    <3>3. ToSet(v) \ {0} = (r + 1 .. L) \ {r + 1} BY <1>3, <1>5, <1>7, <2>3, <3>2
    <3>4. (r + 1 .. L) \ {r + 1} = (r + 1) + 1 .. L BY <1>3
    <3> QED BY <3>3, <3>4
  <2>5. r + 1 \in 0 .. L BY <1>3, <2>2
  <2> QED BY <1>1, <1>4, <1>7, <2>3, <2>4, <2>5 DEF WireOf, m, v
<1> QED BY <1>6, <1>7 DEF m

(* A step on the socket of one session.                                     *)
LEMMA WireOfOne ==
  ASSUME RelayTypeOK, WireInv, ConnTypes', NEW s \in Streamed, NEW r,
         \A u \in Streamed : u # s => wire'[u] = wire[u] /\ sent'[u] = sent[u],
         WireOf(wire'[s], Len(sent'[s]), r)
  PROVE  /\ WireInv' /\ Read(s)' = r
         /\ \A u \in Streamed : u # s => Read(u)' = Read(u)
<1>1. \A u \in Streamed : Len(sent'[u]) \in Nat
  <2> TAKE u \in Streamed
  <2>1. sent'[u] \in Seq(Seq(Nat)) BY DEF ConnTypes
  <2> QED BY <2>1
<1>2. \A u \in Streamed : u # s => WireOf(wire'[u], Len(sent'[u]), Read(u)) BY WireMeans
<1>3. \A u \in Streamed : WireOf(wire'[u], Len(sent'[u]), IF u = s THEN r ELSE Read(u)) BY <1>2
<1>4. ASSUME NEW u \in Streamed
      PROVE  /\ Read(u)' = (IF u = s THEN r ELSE Read(u)) /\ Read(u)' \in 0 .. Len(sent'[u])
             /\ Pending(u)' = Read(u)' + 1 .. Len(sent'[u])
             /\ \A i, j \in DOMAIN wire'[u] :
                  i < j /\ wire'[u][i] # 0 /\ wire'[u][j] # 0 => wire'[u][i] < wire'[u][j]
  <2> DEFINE x == IF u = s THEN r ELSE Read(u)
  <2>1. WireOf(wire'[u], Len(sent'[u]), x) /\ Len(sent'[u]) \in Nat BY <1>1, <1>3
  <2> HIDE DEF x
  <2>2. /\ Read(u)' = x /\ Read(u)' \in 0 .. Len(sent'[u])
        /\ Pending(u)' = Read(u)' + 1 .. Len(sent'[u])
        /\ \A i, j \in DOMAIN wire'[u] :
             i < j /\ wire'[u][i] # 0 /\ wire'[u][j] # 0 => wire'[u][i] < wire'[u][j]
    BY <2>1, WireBecomes
  <2> QED BY <2>2 DEF x
<1>5. WireInv' BY <1>4 DEF WireInv
<1> QED BY <1>4, <1>5

(* Sockets that break are empty.                                            *)
LEMMA WireCut ==
  ASSUME RelayTypeOK, WireInv, sent' = sent,
         \A u \in Streamed : wire'[u] = wire[u] \/ wire'[u] = <<>>
  PROVE  /\ WireInv' /\ \A u \in Streamed : Read(u) <= Read(u)' /\ Read(u)' \in Nat /\ Read(u) \in Nat
<1> SUFFICES ASSUME NEW u \in Streamed
             PROVE  /\ Read(u) <= Read(u)' /\ Read(u)' \in Nat /\ Read(u) \in Nat
                    /\ Read(u)' \in 0 .. Len(sent'[u])
                    /\ Pending(u)' = Read(u)' + 1 .. Len(sent'[u])
                    /\ \A i, j \in DOMAIN wire'[u] :
                         i < j /\ wire'[u][i] # 0 /\ wire'[u][j] # 0 => wire'[u][i] < wire'[u][j]
  BY DEF WireInv
<1>1. /\ wire[u] \in Seq(Nat) /\ Len(sent[u]) \in Nat /\ Read(u) \in Nat
      /\ WireOf(wire[u], Len(sent[u]), Read(u))
  BY WireMeans
<1>2. PICK r \in Nat : Read(u) <= r /\ WireOf(wire'[u], Len(sent'[u]), r)
  <2>1. CASE wire'[u] = wire[u] BY <1>1, <2>1
  <2>2. CASE wire'[u] = <<>>
    <3>1. Read(u) <= Len(sent[u]) BY <1>1 DEF WireOf
    <3>2. DOMAIN <<>> = {} OBVIOUS
    <3>3. ToSet(<<>>) = {} BY <3>2 DEF ToSet
    <3>4. Len(sent[u]) + 1 .. Len(sent[u]) = {} BY <1>1
    <3>5. WireOf(<<>>, Len(sent[u]), Len(sent[u])) BY <1>1, <3>2, <3>3, <3>4 DEF WireOf
    <3> QED BY <1>1, <2>2, <3>1, <3>5
  <2> QED BY <2>1, <2>2
<1>3. /\ Read(u)' = r /\ Read(u)' \in 0 .. Len(sent'[u])
      /\ Pending(u)' = Read(u)' + 1 .. Len(sent'[u])
      /\ \A i, j \in DOMAIN wire'[u] :
           i < j /\ wire'[u][i] # 0 /\ wire'[u][j] # 0 => wire'[u][i] < wire'[u][j]
  BY <1>1, <1>2, WireBecomes
<1> QED BY <1>1, <1>2, <1>3

-----------------------------------------------------------------------------
(* Steps that leave the viewers and the rows alone.                         *)

viewVars == <<client, subs, active, elsewhere, store, queue, batch>>

LEMMA CountKeeps ==
  ASSUME CountInv, UNCHANGED <<client, subs, active, elsewhere>>
  PROVE  CountInv'
<1>1. Subscribers' = Subscribers BY DEF Subscribers
<1> QED BY <1>1 DEF CountInv, ConnectionsCounted

LEMMA StageKeeps ==
  ASSUME StageInv, UNCHANGED client
  PROVE  StageInv'
BY DEF StageInv

LEMMA ViewersLeftAlone ==
  ASSUME IInv, RelayTypeOK', WireInv', Onward, PubInv', NothingNew, UNCHANGED viewVars,
         breaks' = 0 => breaks = 0 /\ \A s \in Streamed : Read(s)' = Read(s),
         \A s \in Streamed : /\ Sending(s)' = Sending(s)
                             /\ Sending(s) # {} => pub'[s]["ingest"].n = pub[s]["ingest"].n
  PROVE  IInv'
<1> USE DEF viewVars
<1>1. CountInv' /\ StageInv' BY CountKeeps, StageKeeps DEF IInv
<1>2. \A h \in Shards : Pipe(h)' = Pipe(h) BY DEF Pipe
<1>3. PipeInv' /\ \A s \in Streamed : Log(s)' = Log(s) BY <1>2, PipeKeeps DEF IInv
<1>4. RowInv' BY <1>3, RowKeeps DEF IInv, RelayTypeOK
<1>5. ViewsInv' BY ViewsKeep DEF IInv
<1> QED BY <1>1, <1>3, <1>4, <1>5 DEF IInv

(* ... and the hub.                                                         *)
LEMMA HubLeftAlone ==
  ASSUME IInv, RelayTypeOK', WireInv', \A s \in Streamed : Read(s)' = Read(s), UNCHANGED viewVars,
         UNCHANGED <<high, reused, pub>>, breaks' = 0 => breaks = 0
  PROVE  IInv'
<1>1. \A s \in Streamed : Read(s) \in Nat /\ high[s] \in Nat
  BY ReadTypes DEF IInv, RelayTypeOK, HubTypes
<1>2. Onward BY <1>1 DEF Onward
<1>3. PubInv' BY PubKeeps DEF IInv, viewVars
<1>4. NothingNew BY DEF NothingNew
<1>5. \A s \in Streamed : Sending(s)' = Sending(s) BY DEF Sending
<1> QED BY <1>2, <1>3, <1>4, <1>5, ViewersLeftAlone

LEMMA OnlyConnection ==
  ASSUME IInv, RelayTypeOK', UNCHANGED viewVars, UNCHANGED <<wire, sent, high, reused, pub>>,
         breaks' = 0 => breaks = 0
  PROVE  IInv'
<1>1. WireInv' /\ \A s \in Streamed : Read(s)' = Read(s) BY WireSame DEF IInv
<1> QED BY <1>1, HubLeftAlone

-----------------------------------------------------------------------------
(* The bot's side.                                                          *)

LEMMA TrimTypes ==
  ASSUME NEW q \in Seq(Nat)
  PROVE  Trim(q) \in Seq(Nat)
<1> DEFINE n == Len(q)
<1>1. n \in Nat /\ BufferLimit \in Nat \ {0} BY ConnectionAssumption
<1>2. CASE n > BufferLimit
  <2>1. /\ n - BufferLimit + 1 \in 1 .. n
    BY <1>1, <1>2
  <2>2. \A i \in n - BufferLimit + 1 .. n : q[i] \in Nat
    <3> TAKE i \in n - BufferLimit + 1 .. n
    <3>1. i \in 1 .. n BY <1>1, <2>1
    <3> QED BY <3>1
  <2>3. SubSeq(q, n - BufferLimit + 1, n) \in Seq(Nat)
    BY <1>1, <2>1, <2>2, SubSeqProperties
  <2> QED BY <1>2, <2>3 DEF Trim
<1>3. CASE ~(n > BufferLimit) BY <1>3 DEF Trim
<1> QED BY <1>2, <1>3

LEMMA FeedTypes ==
  ASSUME RelayTypeOK, ConnTypes',
         UNCHANGED <<hubVars, client, ingest, pub, idleTimer, workerVars>>
  PROVE  RelayTypeOK'
BY DEF RelayTypeOK, HubTypes, RowTypes, hubVars, workerVars

LEMMA ArrivesFacts ==
  ASSUME RelayTypeOK, WireInv, NEW s \in Streamed, NEW data \in Seq(Nat), Arrives(s, data) \/ IsLost(s)
  PROVE  /\ sent' \in [Streamed -> Seq(Seq(Nat))] /\ wire' \in [Streamed -> Seq(Nat)]
         /\ \A u \in Streamed : u # s => wire'[u] = wire[u] /\ sent'[u] = sent[u]
         /\ WireOf(wire'[s], Len(sent'[s]), Read(s))
<1>1. /\ sent \in [Streamed -> Seq(Seq(Nat))] /\ wire \in [Streamed -> Seq(Nat)]
  BY DEF RelayTypeOK, ConnTypes
<1>2. /\ wire[s] \in Seq(Nat) /\ sent[s] \in Seq(Seq(Nat)) /\ Len(sent[s]) \in Nat
      /\ WireOf(wire[s], Len(sent[s]), Read(s))
  BY <1>1, WireMeans
<1>3. CASE Arrives(s, data)
  <2> DEFINE L == Len(sent[s])
             v == Append(sent[s], data)
             w == Append(wire[s], L + 1)
  <2>1. sent' = [sent EXCEPT ![s] = v] /\ wire' = [wire EXCEPT ![s] = w] BY <1>3 DEF Arrives
  <2>2. v \in Seq(Seq(Nat)) /\ w \in Seq(Nat) /\ Len(v) = L + 1 BY <1>2
  <2>3. WireOf(w, L + 1, Read(s))
    <3>1. L + 1 \in {0, L + 1} /\ L + 1 # 0 BY <1>2
    <3>2. WireOf(w, IF L + 1 = 0 THEN L ELSE L + 1, Read(s)) BY <1>2, <3>1, WireAppended
    <3> QED BY <3>1, <3>2
  <2> HIDE DEF v, w, L
  <2>4. sent'[s] = v /\ wire'[s] = w BY <1>1, <2>1
  <2>5. \A u \in Streamed : u # s => wire'[u] = wire[u] /\ sent'[u] = sent[u] BY <1>1, <2>1
  <2>6. sent' \in [Streamed -> Seq(Seq(Nat))] /\ wire' \in [Streamed -> Seq(Nat)] BY <1>1, <2>1, <2>2
  <2> QED BY <2>2, <2>3, <2>4, <2>5, <2>6
<1>4. CASE IsLost(s) BY <1>1, <1>2, <1>4 DEF IsLost
<1> QED BY <1>3, <1>4

(* Something was written to the socket, or not.                             *)
LEMMA Written ==
  ASSUME IInv, NEW s \in Streamed, ConnTypes', breaks' = breaks,
         UNCHANGED <<hubVars, client, ingest, pub, idleTimer, workerVars>>,
         \A u \in Streamed : u # s => wire'[u] = wire[u] /\ sent'[u] = sent[u],
         WireOf(wire'[s], Len(sent'[s]), Read(s))
  PROVE  IInv'
<1>1. RelayTypeOK' BY FeedTypes DEF IInv
<1>2. WireInv' /\ \A u \in Streamed : Read(u)' = Read(u) BY WireOfOne DEF IInv
<1> QED BY <1>1, <1>2, HubLeftAlone DEF hubVars, workerVars, viewVars

LEMMA ConnFields ==
  ASSUME RelayTypeOK, NEW s \in Streamed
  PROVE  /\ conn \in [Streamed -> ConnState] /\ held \in [Streamed -> SUBSET Seq(Nat)]
         /\ request \in [Streamed -> SUBSET {"status", "end"}] /\ breaks \in 0 .. MaxBreaks
         /\ MaxBreaks \in Nat /\ MaxPush \in Nat /\ MaxStatus \in Nat
         /\ conn[s] \in ConnState /\ conn[s].chunks \in Seq(Nat) /\ conn[s].last \in Seq(Nat)
         /\ conn[s].pushed \in 0 .. MaxPush /\ conn[s].said \in 0 .. MaxStatus
         /\ sent \in [Streamed -> Seq(Seq(Nat))] /\ wire \in [Streamed -> Seq(Nat)]
BY ConnectionAssumption DEF RelayTypeOK, ConnTypes, ConnState

LEMMA FeedKeeps ==
  ASSUME IInv, NEW s \in Streamed, Feed(s)
  PROVE  IInv'
<1> USE DEF connVars
<1>0. UNCHANGED <<hubVars, client, ingest, pub, idleTimer, workerVars>> BY DEF Feed
<1>1. RelayTypeOK /\ WireInv BY DEF IInv
<1>2. /\ conn \in [Streamed -> ConnState] /\ held \in [Streamed -> SUBSET Seq(Nat)]
      /\ request \in [Streamed -> SUBSET {"status", "end"}] /\ breaks \in 0 .. MaxBreaks
      /\ MaxBreaks \in Nat /\ MaxPush \in Nat /\ MaxStatus \in Nat
      /\ conn[s] \in ConnState /\ conn[s].chunks \in Seq(Nat) /\ conn[s].last \in Seq(Nat)
      /\ conn[s].pushed \in 0 .. MaxPush /\ conn[s].said \in 0 .. MaxStatus
      /\ sent \in [Streamed -> Seq(Seq(Nat))] /\ wire \in [Streamed -> Seq(Nat)]
  BY <1>1, ConnFields
<1>a. <<>> \in Seq(Nat) OBVIOUS
<1>3. ASSUME ConnTypes', UNCHANGED <<wire, sent>>, breaks' = 0 => breaks = 0
      PROVE  IInv'
  <2>1. RelayTypeOK' BY <1>0, <1>1, <1>3, FeedTypes
  <2> QED BY <1>0, <1>3, <2>1, OnlyConnection DEF hubVars, workerVars, viewVars
<1>4. CASE Push(s)
  <2> DEFINE x == Trim(Append(conn[s].chunks, conn[s].pushed + 1))
  <2>1. conn[s].pushed + 1 \in 0 .. MaxPush /\ conn[s].pushed + 1 \in Nat BY <1>2, <1>4 DEF Push
  <2>2. Append(conn[s].chunks, conn[s].pushed + 1) \in Seq(Nat) BY <1>2, <2>1
  <2>3. x \in Seq(Nat) BY <2>2, TrimTypes
  <2>4. conn' = [conn EXCEPT ![s].pushed = conn[s].pushed + 1, ![s].chunks = x] BY <1>4 DEF Push
  <2> HIDE DEF x
  <2>5. conn' \in [Streamed -> ConnState] BY <1>2, <2>1, <2>3, <2>4 DEF ConnState
  <2>6. UNCHANGED <<held, sent, wire, request, breaks>> BY <1>4 DEF Push
  <2>7. ConnTypes' BY <1>2, <2>5, <2>6 DEF ConnTypes
  <2> QED BY <1>3, <2>6, <2>7
<1>5. CASE Flush(s)
  <2>1. conn' = [conn EXCEPT ![s].chunks = <<>>] /\ UNCHANGED <<sent, wire, request, breaks>>
        /\ held' = [held EXCEPT ![s] = @ \cup {conn[s].chunks}]
    BY <1>5 DEF Flush
  <2>2. conn' \in [Streamed -> ConnState] BY <1>2, <1>a, <2>1 DEF ConnState
  <2>3. held' \in [Streamed -> SUBSET Seq(Nat)] BY <1>2, <2>1
  <2>4. ConnTypes' BY <1>2, <2>1, <2>2, <2>3 DEF ConnTypes
  <2> QED BY <1>3, <2>1, <2>4
<1>6. CASE Close(s)
  <2>1. conn' = [conn EXCEPT ![s].closed = TRUE, ![s].close = "data",
                             ![s].last = conn[s].chunks, ![s].chunks = <<>>]
        /\ UNCHANGED <<held, sent, wire, request, breaks>>
    BY <1>6 DEF Close
  <2>2. conn' \in [Streamed -> ConnState] BY <1>2, <1>a, <2>1 DEF ConnState
  <2>4. ConnTypes' BY <1>2, <2>1, <2>2 DEF ConnTypes
  <2> QED BY <1>3, <2>1, <2>4
<1>7. CASE CloseHangsUp(s)
  <2>1. conn' = [conn EXCEPT ![s].close = "done", ![s].ws = "nil"] /\ UNCHANGED <<held, sent, wire>>
    BY <1>7 DEF CloseHangsUp
  <2>2. conn' \in [Streamed -> ConnState] BY <1>2, <1>a, <2>1 DEF ConnState
  <2>3. request' \in [Streamed -> SUBSET {"status", "end"}] /\ breaks' \in 0 .. MaxBreaks
        /\ (breaks' = 0 => breaks = 0)
    <3>1. /\ request' = request \/ request' = [request EXCEPT ![s] = @ \ {"end"}]
          /\ breaks' = breaks \/ (breaks < MaxBreaks /\ breaks' = breaks + 1)
      BY <1>7 DEF CloseHangsUp, Break
    <3>2. request' \in [Streamed -> SUBSET {"status", "end"}] BY <1>2, <3>1
    <3>3. breaks' \in 0 .. MaxBreaks /\ (breaks' = 0 => breaks = 0) BY <1>2, <3>1
    <3> QED BY <3>2, <3>3
  <2>4. ConnTypes' BY <1>2, <2>1, <2>2, <2>3 DEF ConnTypes
  <2> QED BY <1>3, <2>1, <2>3, <2>4
<1>8. ASSUME NEW data \in held[s], FlushWrites(s, data) PROVE IInv'
  <2>1. /\ held' = [held EXCEPT ![s] = @ \ {data}] /\ (Arrives(s, data) \/ IsLost(s))
        /\ UNCHANGED <<conn, request, breaks>> /\ data \in Seq(Nat)
    BY <1>2, <1>8 DEF FlushWrites
  <2>2. /\ sent' \in [Streamed -> Seq(Seq(Nat))] /\ wire' \in [Streamed -> Seq(Nat)]
        /\ \A u \in Streamed : u # s => wire'[u] = wire[u] /\ sent'[u] = sent[u]
        /\ WireOf(wire'[s], Len(sent'[s]), Read(s))
    BY <1>1, <2>1, ArrivesFacts
  <2>3. held' \in [Streamed -> SUBSET Seq(Nat)] BY <1>2, <2>1
  <2>4. ConnTypes' BY <1>2, <2>1, <2>2, <2>3 DEF ConnTypes
  <2> QED BY <1>0, <2>1, <2>2, <2>4, Written
<1>9. CASE CloseWrites(s)
  <2>1. /\ conn' = [conn EXCEPT ![s].close = "posted", ![s].last = <<>>]
        /\ request' = [request EXCEPT ![s] = @ \cup {"end"}] /\ UNCHANGED <<held, breaks>>
    BY <1>9 DEF CloseWrites
  <2>2. /\ sent' \in [Streamed -> Seq(Seq(Nat))] /\ wire' \in [Streamed -> Seq(Nat)]
        /\ \A u \in Streamed : u # s => wire'[u] = wire[u] /\ sent'[u] = sent[u]
        /\ WireOf(wire'[s], Len(sent'[s]), Read(s))
    <3>1. CASE UNCHANGED <<sent, wire>> BY <1>1, <1>2, <3>1, WireMeans
    <3>2. CASE Arrives(s, conn[s].last) \/ IsLost(s)
      <4>1. conn[s].last \in Seq(Nat) BY <1>2
      <4> QED BY <1>1, <3>2, <4>1, ArrivesFacts
    <3> QED BY <1>9, <3>1, <3>2 DEF CloseWrites
  <2>3. conn' \in [Streamed -> ConnState] BY <1>2, <1>a, <2>1 DEF ConnState
  <2>4. request' \in [Streamed -> SUBSET {"status", "end"}] BY <1>2, <2>1
  <2>5. ConnTypes' BY <1>2, <2>1, <2>2, <2>3, <2>4 DEF ConnTypes
  <2> QED BY <1>0, <2>1, <2>2, <2>5, Written
<1>10. CASE PushStatus(s)
  <2>1. conn' = [conn EXCEPT ![s].said = @ + 1] /\ UNCHANGED <<held, sent, breaks>>
        /\ conn[s].said < MaxStatus
    BY <1>10 DEF PushStatus
  <2>2. conn' \in [Streamed -> ConnState]
    <3>1. conn[s].said + 1 \in 0 .. MaxStatus BY <1>2, <2>1
    <3> QED BY <1>2, <2>1, <3>1 DEF ConnState
  <2>3. CASE conn[s].ws = "up"
    <3> DEFINE w == Append(wire[s], 0)
    <3>1. wire' = [wire EXCEPT ![s] = w] /\ request' = request BY <1>10, <2>3 DEF PushStatus
    <3>2. wire[s] \in Seq(Nat) /\ w \in Seq(Nat) /\ Len(sent[s]) \in Nat
      /\ WireOf(wire[s], Len(sent[s]), Read(s)) BY <1>1, <1>2, WireMeans
    <3>3. WireOf(w, Len(sent[s]), Read(s))
      <4>1. WireOf(w, IF 0 = 0 THEN Len(sent[s]) ELSE Len(sent[s]) + 1, Read(s))
        BY <3>2, WireAppended
      <4> QED BY <4>1
    <3> HIDE DEF w
    <3>4. /\ wire' \in [Streamed -> Seq(Nat)] /\ wire'[s] = w
          /\ \A u \in Streamed : u # s => wire'[u] = wire[u]
      BY <1>2, <3>1, <3>2
    <3>5. ConnTypes' BY <1>2, <2>1, <2>2, <3>1, <3>4 DEF ConnTypes
    <3>6. WireOf(wire'[s], Len(sent'[s]), Read(s)) BY <2>1, <3>3, <3>4
    <3>7. \A u \in Streamed : u # s => wire'[u] = wire[u] /\ sent'[u] = sent[u] BY <2>1, <3>4
    <3> QED BY <1>0, <2>1, <3>5, <3>6, <3>7, Written
  <2>4. CASE conn[s].ws # "up"
    <3>1. request' = [request EXCEPT ![s] = @ \cup {"status"}] /\ wire' = wire
      BY <1>10, <2>4 DEF PushStatus
    <3>2. request' \in [Streamed -> SUBSET {"status", "end"}] BY <1>2, <3>1
    <3>3. ConnTypes' BY <1>2, <2>1, <2>2, <3>1, <3>2 DEF ConnTypes
    <3> QED BY <1>3, <2>1, <3>1, <3>3
  <2> QED BY <2>3, <2>4
<1> QED BY <1>4, <1>5, <1>6, <1>7, <1>8, <1>9, <1>10 DEF Feed

-----------------------------------------------------------------------------
(* The numbers, and publishChunk.                                           *)

LEMMA MaxOfTwo ==
  ASSUME NEW a \in Nat, NEW b \in Nat
  PROVE  Max({a, b}) \in Nat /\ a <= Max({a, b}) /\ b <= Max({a, b})
<1>1. \E x \in {a, b} : \A y \in {a, b} : x >= y
  <2>1. CASE a >= b BY <2>1
  <2>2. CASE b >= a BY <2>2
  <2> QED BY <2>1, <2>2
<1>2. Max({a, b}) \in {a, b} /\ \A y \in {a, b} : Max({a, b}) >= y BY <1>1 DEF Max
<1> QED BY <1>2

LEMMA NextSequenceFacts ==
  ASSUME RelayTypeOK, NEW s \in Streamed, NextSequence(s)
  PROVE  /\ counter' \in [Streamed -> Nat] /\ high' \in [Streamed -> Nat]
         /\ reused' \in [Streamed -> BOOLEAN]
         /\ counter[s] + 1 \in Nat /\ counter[s] + 1 <= high'[s]
         /\ ~reused'[s] => high[s] < counter[s] + 1
         /\ \A u \in Streamed : high[u] <= high'[u] /\ (~reused'[u] => ~reused[u])
<1>1. /\ counter \in [Streamed -> Nat] /\ high \in [Streamed -> Nat] /\ reused \in [Streamed -> BOOLEAN]
  BY DEF RelayTypeOK, HubTypes
<1> DEFINE k == counter[s] + 1
           m == Max({high[s], k})
           b == reused[s] \/ k <= high[s]
<1>2. k \in Nat /\ m \in Nat /\ high[s] <= m /\ k <= m BY <1>1, MaxOfTwo
<1>3. /\ counter' = [counter EXCEPT ![s] = k] /\ high' = [high EXCEPT ![s] = m]
      /\ reused' = [reused EXCEPT ![s] = b]
  BY DEF NextSequence
<1>4. reused'[s] = b BY <1>1, <1>3
<1>5. ASSUME ~reused'[s] PROVE ~reused[s] /\ high[s] < k
  <2>1. ~reused[s] /\ ~(k <= high[s]) BY <1>4, <1>5, Zenon
  <2>2. high[s] \in Nat BY <1>1
  <2> QED BY <1>2, <2>1, <2>2
<1>6. reused' \in [Streamed -> BOOLEAN] BY <1>1, <1>3
<1>7. \A u \in Streamed : u # s => high'[u] = high[u] /\ reused'[u] = reused[u] BY <1>1, <1>3
<1> HIDE DEF m, k, b
<1>8. high'[s] = m /\ counter' \in [Streamed -> Nat] /\ high' \in [Streamed -> Nat] BY <1>1, <1>2, <1>3
<1>9. ASSUME NEW u \in Streamed PROVE high[u] <= high'[u] /\ (~reused'[u] => ~reused[u])
  <2>1. CASE u = s BY <1>2, <1>5, <1>8, <2>1
  <2>2. CASE u # s
    <3>1. high[u] \in Nat BY <1>1
    <3> QED BY <1>7, <2>2, <3>1
  <2> QED BY <2>1, <2>2
<1> QED BY <1>2, <1>5, <1>6, <1>8, <1>9 DEF k

LEMMA PublishChunkFacts ==
  ASSUME RelayTypeOK, NEW s \in Streamed, NEW t \in Threads, NEW kind \in {"data", "status", "end"},
         NEW n \in Nat, PublishChunk(s, t, kind, n)
  PROVE  /\ HubTypes' /\ pub' \in [Streamed -> [Threads -> PubState]]
         /\ pub[s][t].pc # "send" /\ UNCHANGED <<subs, active, elsewhere>>
         /\ pub'[s][t] = [pc |-> "send", kind |-> kind, n |-> n, seq |-> counter[s] + 1,
                          to |-> subs[s], mark |-> {}]
         /\ \A u \in Streamed, x \in Threads : u # s \/ x # t => pub'[u][x] = pub[u][x]
         /\ \A u \in Streamed : high[u] <= high'[u] /\ (~reused'[u] => ~reused[u])
         /\ counter[s] + 1 \in Nat /\ counter[s] + 1 <= high'[s]
         /\ ~reused'[s] => high[s] < counter[s] + 1
<1> DEFINE p == [pc |-> "send", kind |-> kind, n |-> n, seq |-> counter[s] + 1,
                 to |-> subs[s], mark |-> {}]
<1>1. /\ counter' \in [Streamed -> Nat] /\ high' \in [Streamed -> Nat]
      /\ reused' \in [Streamed -> BOOLEAN]
      /\ counter[s] + 1 \in Nat /\ counter[s] + 1 <= high'[s]
      /\ ~reused'[s] => high[s] < counter[s] + 1
      /\ \A u \in Streamed : high[u] <= high'[u] /\ (~reused'[u] => ~reused[u])
  BY NextSequenceFacts DEF PublishChunk
<1>2. pub[s][t].pc # "send" /\ UNCHANGED <<subs, active, elsewhere>> BY DEF PublishChunk
<1>3. pub \in [Streamed -> [Threads -> PubState]] /\ subs[s] \in SUBSET Clients
  BY DEF RelayTypeOK, HubTypes
<1>4. p \in PubState BY <1>1, <1>3 DEF PubState
<1>5. pub' = [pub EXCEPT ![s][t] = p] BY DEF PublishChunk
<1> HIDE DEF p
<1>6. /\ pub' \in [Streamed -> [Threads -> PubState]] /\ pub'[s][t] = p
      /\ \A u \in Streamed, x \in Threads : u # s \/ x # t => pub'[u][x] = pub[u][x]
  BY <1>3, <1>4, <1>5
<1>7. HubTypes' BY <1>1, <1>2 DEF RelayTypeOK, HubTypes
<1> QED BY <1>1, <1>2, <1>6, <1>7 DEF p

LEMMA SubscriberFacts ==
  ASSUME IInv, NEW s \in Streamed, NEW c \in subs[s]
  PROVE  /\ c \in Clients /\ client[c].of = s /\ client[c].pc \in {"live", "leaving"}
         /\ ~client[c].done
BY DEF IInv, CountInv, ConnectionsCounted

LEMMA PublishPub ==
  ASSUME IInv, NEW s \in Streamed, NEW t \in Threads, NEW kind \in {"data", "status", "end"},
         NEW n \in Nat, PublishChunk(s, t, kind, n), UNCHANGED client,
         \A u \in Streamed : Read(u)' = Read(u) \/ (u = s /\ t = "ingest"),
         kind = "data" => t = "ingest" /\ n > 0 /\ n = Read(s)', kind # "data" => n = 0
  PROVE  PubInv'
<1>1. /\ pub[s][t].pc # "send"
      /\ pub'[s][t] = [pc |-> "send", kind |-> kind, n |-> n, seq |-> counter[s] + 1,
                       to |-> subs[s], mark |-> {}]
      /\ \A u \in Streamed, x \in Threads : u # s \/ x # t => pub'[u][x] = pub[u][x]
  BY PublishChunkFacts DEF IInv
<1> SUFFICES ASSUME NEW u \in Streamed, NEW x \in Threads
             PROVE  LET p == pub'[u][x] IN
                    /\ p.kind = "data" => x = "ingest" /\ p.pc = "send" /\ p.n > 0 /\ p.n = Read(u)'
                    /\ p.mark \subseteq p.to
                    /\ (p.pc = "send" => p.kind # "none") /\ (p.kind # "data" => p.n = 0)
                    /\ \A c \in p.mark : client'[c].drops
                    /\ \A c \in p.to : client'[c].of = u /\ client'[c].pc \in Subscribed
  BY DEF PubInv, Subscribed
<1>2. CASE u = s /\ x = t
  <2>1. \A c \in subs[s] : client[c].of = s /\ client[c].pc \in Subscribed
    BY SubscriberFacts DEF Subscribed
  <2> QED BY <1>1, <1>2, <2>1
<1>3. CASE u # s \/ x # t
  <2> DEFINE p == pub[u][x]
  <2>1. pub'[u][x] = p BY <1>1, <1>3
  <2>2. /\ p.kind = "data" => x = "ingest" /\ p.pc = "send" /\ p.n > 0 /\ p.n = Read(u)
        /\ p.mark \subseteq p.to
        /\ (p.pc = "send" => p.kind # "none") /\ (p.kind # "data" => p.n = 0)
        /\ \A c \in p.mark : client[c].drops
        /\ \A c \in p.to : client[c].of = u /\ client[c].pc \in Subscribed
    BY DEF PubInv, Subscribed, IInv
  <2>3. p.kind = "data" => Read(u)' = Read(u)
    <3>1. p.kind = "data" => x = "ingest" BY <2>2
    <3> QED BY <1>3, <3>1
  <2> QED BY <2>1, <2>2, <2>3
<1> QED BY <1>2, <1>3

(* A status or an end.                                                      *)
LEMMA PublishOther ==
  ASSUME IInv, NEW s \in Streamed, NEW t \in Threads, NEW kind \in {"status", "end"},
         PublishChunk(s, t, kind, 0), UNCHANGED <<client, workerVars, breaks>>,
         RelayTypeOK', WireInv', \A u \in Streamed : Read(u)' = Read(u)
  PROVE  IInv'
<1>1. /\ pub[s][t].pc # "send" /\ UNCHANGED <<subs, active, elsewhere>>
      /\ pub'[s][t] = [pc |-> "send", kind |-> kind, n |-> 0, seq |-> counter[s] + 1,
                       to |-> subs[s], mark |-> {}]
      /\ \A u \in Streamed, x \in Threads : u # s \/ x # t => pub'[u][x] = pub[u][x]
      /\ \A u \in Streamed : high[u] <= high'[u] /\ (~reused'[u] => ~reused[u])
  <2>1. kind \in {"data", "status", "end"} /\ 0 \in Nat OBVIOUS
  <2> QED BY <2>1, PublishChunkFacts DEF IInv
<1>2. PubInv'
  <2>1. kind \in {"data", "status", "end"} /\ 0 \in Nat /\ kind # "data" OBVIOUS
  <2> QED BY <2>1, PublishPub
<1>3. Onward
  <2>1. \A u \in Streamed : Read(u) \in Nat BY ReadTypes DEF IInv
  <2> QED BY <1>1, <2>1 DEF Onward
<1>4. "ingest" \in Threads BY DEF Threads
<1>5. t = "ingest" => pub[s]["ingest"].kind # "data" /\ pub'[s]["ingest"].kind # "data"
  BY <1>1, <1>4 DEF IInv, PubInv
<1>6. \A u \in Streamed : u # s \/ t # "ingest" => pub'[u]["ingest"] = pub[u]["ingest"]
  BY <1>1, <1>4
<1>7. NothingNew BY <1>5, <1>6 DEF NothingNew
<1>8. \A u \in Streamed : Sending(u)' = Sending(u) BY <1>5, <1>6 DEF Sending
<1>9. \A u \in Streamed : Sending(u) # {} => pub'[u]["ingest"].n = pub[u]["ingest"].n
  BY <1>5, <1>6 DEF Sending
<1>10. UNCHANGED viewVars BY <1>1 DEF viewVars, workerVars
<1> QED BY <1>2, <1>3, <1>7, <1>8, <1>9, <1>10, ViewersLeftAlone

(* Output: the next piece, which the subscribers are about to be sent.      *)
LEMMA PublishData ==
  ASSUME IInv, NEW s \in Streamed, NEW n \in Nat, PublishChunk(s, "ingest", "data", n),
         UNCHANGED <<client, workerVars, breaks>>, RelayTypeOK', WireInv',
         n = Read(s) + 1, Read(s)' = n, \A u \in Streamed : u # s => Read(u)' = Read(u)
  PROVE  IInv'
<1>0. "ingest" \in Threads BY DEF Threads
<1>1. /\ pub[s]["ingest"].pc # "send" /\ UNCHANGED <<subs, active, elsewhere>>
      /\ pub'[s]["ingest"] = [pc |-> "send", kind |-> "data", n |-> n, seq |-> counter[s] + 1,
                              to |-> subs[s], mark |-> {}]
      /\ \A u \in Streamed, x \in Threads : u # s \/ x # "ingest" => pub'[u][x] = pub[u][x]
      /\ \A u \in Streamed : high[u] <= high'[u] /\ (~reused'[u] => ~reused[u])
      /\ counter[s] + 1 \in Nat /\ counter[s] + 1 <= high'[s]
      /\ ~reused'[s] => high[s] < counter[s] + 1
  BY <1>0, PublishChunkFacts DEF IInv
<1>2. \A u \in Streamed : Read(u) \in Nat BY ReadTypes DEF IInv
<1>3. n > 0 BY <1>2
<1>4. PubInv' BY <1>0, <1>3, PublishPub
<1>5. Onward
  <2> SUFFICES ASSUME NEW u \in Streamed
               PROVE  Read(u) \in Nat /\ Read(u)' \in Nat /\ Read(u) <= Read(u)'
    BY <1>1 DEF Onward
  <2>1. CASE u = s BY <1>2, <2>1
  <2>2. CASE u # s BY <1>2, <2>2
  <2> QED BY <2>1, <2>2
<1>6. pub[s]["ingest"].kind # "data" BY <1>0, <1>1 DEF IInv, PubInv
<1>7. CountInv' /\ StageInv' BY <1>1, CountKeeps, StageKeeps DEF IInv
<1>8. \A h \in Shards : Pipe(h)' = Pipe(h) BY DEF Pipe, workerVars
<1>9. PipeInv' /\ \A u \in Streamed : Log(u)' = Log(u) BY <1>8, PipeKeeps DEF IInv, workerVars
<1>10. RowInv'
  <2> SUFFICES ASSUME NEW u \in Streamed
               PROVE  LET p == pub'[u]["ingest"] IN
                      /\ p.kind = "data" => p.seq <= high'[u]
                      /\ \A r \in Log(u) :
                           /\ r.n <= Read(u)' /\ r.seq <= high'[u]
                           /\ p.kind = "data" => r.n < p.n
                           /\ p.kind = "data" /\ ~reused'[u] => r.seq < p.seq
                           /\ \A q \in Log(u) : r.n < q.n /\ ~reused'[u] => r.seq < q.seq
    BY <1>9 DEF RowInv
  <2> DEFINE p == pub[u]["ingest"]
  <2>1. /\ p.kind = "data" => p.seq <= high[u]
        /\ \A r \in Log(u) :
             /\ r.n <= Read(u) /\ r.seq <= high[u]
             /\ p.kind = "data" => r.n < p.n
             /\ p.kind = "data" /\ ~reused[u] => r.seq < p.seq
             /\ \A q \in Log(u) : r.n < q.n /\ ~reused[u] => r.seq < q.seq
    BY DEF IInv, RowInv
  <2>2. /\ high[u] \in Nat /\ high'[u] \in Nat /\ high[u] <= high'[u]
        /\ Read(u) \in Nat /\ Read(u)' \in Nat /\ Read(u) <= Read(u)' /\ (~reused'[u] => ~reused[u])
    BY <1>5 DEF IInv, RelayTypeOK, HubTypes, Onward
  <2>3. ASSUME NEW r \in Log(u)
        PROVE  /\ r.n \in Nat /\ r.seq \in Nat /\ r.n <= Read(u)' /\ r.seq <= high'[u]
               /\ \A q \in Log(u) : r.n < q.n /\ ~reused'[u] => r.seq < q.seq
    <3>1. r.n \in Nat /\ r.seq \in Nat BY LogTypes DEF IInv
    <3>2. r.n <= Read(u) /\ r.seq <= high[u] BY <2>1
    <3>3. r.n <= Read(u)' /\ r.seq <= high'[u] BY <2>2, <3>1, <3>2
    <3> QED BY <2>1, <2>2, <3>1, <3>3
  <2>4. CASE u = s
    <3>1. pub'[u]["ingest"].n = n /\ pub'[u]["ingest"].seq = counter[s] + 1 BY <1>1, <2>4
    <3>2. ASSUME NEW r \in Log(u) PROVE r.n < n /\ (~reused'[u] => r.seq < counter[s] + 1)
      <4>1. r.n \in Nat /\ r.n <= Read(s) /\ r.seq \in Nat /\ r.seq <= high[s] BY <2>1, <2>3, <2>4
      <4>2. r.n < n BY <1>2, <4>1
      <4>3. ~reused'[s] => r.seq < counter[s] + 1
        <5>1. SUFFICES ASSUME ~reused'[s] PROVE r.seq < counter[s] + 1 OBVIOUS
        <5>2. high[s] < counter[s] + 1 /\ counter[s] + 1 \in Nat BY <1>1, <5>1
        <5> QED BY <2>2, <2>4, <4>1, <5>2
      <4> QED BY <2>4, <4>2, <4>3
    <3> QED BY <1>1, <2>3, <2>4, <3>1, <3>2
  <2>5. CASE u # s
    <3>1. pub'[u]["ingest"] = p BY <1>0, <1>1, <2>5
    <3>2. p.kind = "data" => p.seq <= high'[u]
      <4>1. p.seq \in Nat BY <1>0 DEF IInv, RelayTypeOK, PubState
      <4> QED BY <2>1, <2>2, <4>1
    <3> QED BY <2>1, <2>2, <2>3, <3>1, <3>2
  <2> QED BY <2>4, <2>5
<1>11. ViewsInv'
  <2> SUFFICES ASSUME NEW c \in Clients PROVE View(c)' BY DEF ViewsInv
  <2>1. View(c) BY DEF IInv, ViewsInv
  <2>2. Stream(c)' = Stream(c) BY DEF Stream
  <2> DEFINE q == Stream(c)
  <2>3. CASE client[c].of # s
    <3>1. Alike(Stream(c)', Stream(c)) BY <2>2, AlikeItself
    <3>2. \A u \in Streamed : u # s => pub'[u]["ingest"] = pub[u]["ingest"] BY <1>0, <1>1
    <3>3. \A u \in Streamed : u # s => Sending(u)' = Sending(u) BY <3>2 DEF Sending
    <3> QED BY <1>1, <1>5, <2>1, <2>3, <3>1, <3>2, <3>3, ViewStep DEF IInv
  <2>4. CASE client[c].of = s
    <3>1. Sending(s) = {} /\ Sending(s)' = subs[s] BY <1>1, <1>6 DEF Sending
    <3>2. /\ Single(q) /\ (\A x \in Numbers(q, Places(q)) : x <= Read(s))
          /\ client[c].from <= Read(s)
          /\ ~reused[s] => Rising(q, Places(q))
          /\ c \in subs[s] /\ ~client[c].drops /\ breaks = 0 =>
               /\ Numbers(q, Lives(q)) = client[c].from + 1 .. Read(s) - 0
               /\ Rising(q, Lives(q))
      BY <2>1, <2>4, <3>1 DEF View
    <3>3. \A x \in Numbers(q, Places(q)) : x <= Read(s)' /\ x < n
      <4> TAKE x \in Numbers(q, Places(q))
      <4>1. x \in Nat BY StreamTypes DEF IInv
      <4>2. x <= Read(s) BY <3>2
      <4> QED BY <1>2, <4>1, <4>2
    <3>4. Read(s) - 0 = Read(s)' - 1 BY <1>2
    <3>5. pub'[s]["ingest"].n = n /\ subs' = subs BY <1>1
    <3>6. ~reused'[s] => ~reused[s] BY <1>1
    <3>7. client'[c] = client[c] OBVIOUS
    <3>8. c \in subs[s] /\ ~client[c].drops /\ breaks = 0 =>
            /\ Numbers(q, Lives(q)) = client[c].from + 1 .. Read(s)' - (IF c \in Sending(s)' THEN 1 ELSE 0)
            /\ Rising(q, Lives(q))
      BY <3>1, <3>2, <3>4
    <3>9. client[c].from <= Read(s)' /\ client[c].from < n
      <4>1. client[c].from \in Nat BY StreamTypes DEF ViewerState, IInv
      <4> QED BY <1>2, <3>2, <4>1
    <3> HIDE DEF q
    <3> QED BY <2>2, <2>4, <3>2, <3>3, <3>5, <3>6, <3>7, <3>8, <3>9 DEF View, q
  <2> QED BY <2>3, <2>4
<1> QED BY <1>4, <1>7, <1>9, <1>10, <1>11 DEF IInv

-----------------------------------------------------------------------------
(* The handlers.                                                            *)

LEMMA HandlerTypes ==
  ASSUME RelayTypeOK
  PROVE  /\ client \in [Clients -> ViewerState]
         /\ ingest \in [Streamed -> {"none", "reading", "ending", "done"}]
         /\ pub \in [Streamed -> [Threads -> PubState]]
         /\ idleTimer \in [Streamed -> [inMap : BOOLEAN, armed : BOOLEAN]]
         /\ ConnTypes /\ HubTypes /\ RowTypes
BY DEF RelayTypeOK

LEMMA ConnectKeeps ==
  ASSUME IInv, NEW s \in Streamed, Connect(s)
  PROVE  IInv'
<1> USE DEF Connect, NewRelayConnection
<1>1. RelayTypeOK /\ WireInv BY DEF IInv
<1>2. /\ conn \in [Streamed -> ConnState] /\ conn[s] \in ConnState /\ breaks \in 0 .. MaxBreaks
      /\ MaxBreaks \in Nat
  BY <1>1, ConnFields
<1>3. /\ conn' = [conn EXCEPT ![s].ws = "up"] \/
         conn' = [conn EXCEPT ![s].ws = "nil", ![s].closed = TRUE, ![s].close = "done"]
      /\ breaks' = breaks \/ (breaks < MaxBreaks /\ breaks' = breaks + 1)
  BY DEF Break
<1>4. conn' \in [Streamed -> ConnState]
  <2>1. CASE conn' = [conn EXCEPT ![s].ws = "up"] BY <1>2, <2>1 DEF ConnState
  <2>2. CASE conn' = [conn EXCEPT ![s].ws = "nil", ![s].closed = TRUE, ![s].close = "done"]
    BY <1>2, <2>2 DEF ConnState
  <2> QED BY <1>3, <2>1, <2>2
<1>5. breaks' \in 0 .. MaxBreaks /\ (breaks' = 0 => breaks = 0) BY <1>2, <1>3
<1>6. ConnTypes' BY <1>1, <1>4, <1>5 DEF RelayTypeOK, ConnTypes
<1>7. ingest' \in [Streamed -> {"none", "reading", "ending", "done"}] BY <1>1, HandlerTypes
<1>8. RelayTypeOK' BY <1>1, <1>6, <1>7 DEF RelayTypeOK, HubTypes, RowTypes, hubVars, workerVars
<1> QED BY <1>5, <1>8, OnlyConnection DEF hubVars, workerVars, viewVars

LEMMA CleanupOrphanedKeeps ==
  ASSUME IInv, NEW s \in Streamed, CleanupOrphaned(s)
  PROVE  IInv'
<1> USE DEF CleanupOrphaned, CleanupSequence, connVars
<1>1. counter' \in [Streamed -> Nat] BY DEF IInv, RelayTypeOK, HubTypes
<1>2. RelayTypeOK' BY <1>1 DEF IInv, RelayTypeOK, ConnTypes, HubTypes, RowTypes, workerVars
<1> QED BY <1>2, OnlyConnection DEF workerVars, viewVars

LEMMA InactivityKeeps ==
  ASSUME IInv, NEW s \in Streamed, InactivityExpires(s)
  PROVE  IInv'
<1>1. /\ pub \in [Streamed -> [Threads -> PubState]] /\ RelayTypeOK
      /\ idleTimer \in [Streamed -> [inMap : BOOLEAN, armed : BOOLEAN]]
  BY HandlerTypes DEF IInv
<1>2. /\ pub' = [pub EXCEPT ![s]["timer"].pc = "fired"] /\ pub[s]["timer"].pc = "idle"
      /\ idleTimer' = [idleTimer EXCEPT ![s].armed = FALSE]
      /\ UNCHANGED <<connVars, wire, request, breaks, hubVars, client, ingest, workerVars>>
  BY DEF InactivityExpires
<1>3. "timer" \in Threads /\ "ingest" \in Threads BY DEF Threads
<1>4. /\ pub' \in [Streamed -> [Threads -> PubState]]
      /\ \A u \in Streamed, x \in Threads :
           /\ pub'[u][x].kind = pub[u][x].kind /\ pub'[u][x].n = pub[u][x].n
           /\ pub'[u][x].seq = pub[u][x].seq /\ pub'[u][x].to = pub[u][x].to
           /\ pub'[u][x].mark = pub[u][x].mark
           /\ pub'[u][x].pc = "send" => pub[u][x].pc = "send"
           /\ x # "timer" => pub'[u][x] = pub[u][x]
  <2>1. ASSUME NEW u \in Streamed, NEW x \in Threads
        PROVE  pub'[u][x] = IF u = s /\ x = "timer" THEN [pub[s]["timer"] EXCEPT !.pc = "fired"]
                            ELSE pub[u][x]
    BY <1>1, <1>2, <1>3
  <2>3. \A u \in Streamed, x \in Threads : pub[u][x] \in PubState BY <1>1
  <2>2. pub' \in [Streamed -> [Threads -> PubState]]
    <3> DEFINE p == [pub[s]["timer"] EXCEPT !.pc = "fired"]
    <3>1. p \in PubState BY <1>3, <2>3 DEF PubState
    <3>2. pub' = [pub EXCEPT ![s]["timer"] = p] BY <1>2
    <3> HIDE DEF p
    <3> QED BY <1>1, <1>3, <3>1, <3>2
  <2>4. ASSUME NEW p \in PubState
        PROVE  LET r == [p EXCEPT !.pc = "fired"] IN
               /\ r.kind = p.kind /\ r.n = p.n /\ r.seq = p.seq /\ r.to = p.to /\ r.mark = p.mark
               /\ r.pc = "fired"
    BY DEF PubState
  <2>5. ASSUME NEW u \in Streamed, NEW x \in Threads
        PROVE  /\ pub'[u][x].kind = pub[u][x].kind /\ pub'[u][x].n = pub[u][x].n
               /\ pub'[u][x].seq = pub[u][x].seq /\ pub'[u][x].to = pub[u][x].to
               /\ pub'[u][x].mark = pub[u][x].mark
               /\ pub'[u][x].pc = "send" => pub[u][x].pc = "send"
               /\ x # "timer" => pub'[u][x] = pub[u][x]
    <3>1. CASE u = s /\ x = "timer"
      <4>1. pub'[u][x] = [pub[u][x] EXCEPT !.pc = "fired"] BY <2>1, <3>1
      <4> QED BY <2>3, <2>4, <3>1, <4>1
    <3>2. CASE ~(u = s /\ x = "timer")
      <4>1. pub'[u][x] = pub[u][x] BY <2>1, <3>2
      <4> QED BY <4>1
    <3> QED BY <3>1, <3>2
  <2> QED BY <2>2, <2>5
<1>5. idleTimer' \in [Streamed -> [inMap : BOOLEAN, armed : BOOLEAN]] BY <1>1, <1>2
<1>6. RelayTypeOK'
  BY <1>1, <1>2, <1>4, <1>5
  DEF RelayTypeOK, ConnTypes, HubTypes, RowTypes, connVars, hubVars, workerVars
<1>7. WireInv' /\ (\A u \in Streamed : Read(u)' = Read(u)) /\ Onward
  BY <1>1, <1>2, WireSame, OnwardSame DEF IInv, connVars, hubVars, NumbersSame
<1>8. PubInv'
  <2> SUFFICES ASSUME NEW u \in Streamed, NEW x \in Threads
               PROVE  LET p == pub'[u][x] IN
                      /\ p.kind = "data" => x = "ingest" /\ p.pc = "send" /\ p.n > 0 /\ p.n = Read(u)'
                      /\ p.mark \subseteq p.to
                      /\ (p.pc = "send" => p.kind # "none") /\ (p.kind # "data" => p.n = 0)
                      /\ \A c \in p.mark : client'[c].drops
                      /\ \A c \in p.to : client'[c].of = u /\ client'[c].pc \in Subscribed
    BY DEF PubInv, Subscribed
  <2> DEFINE p == pub[u][x]
  <2>1. /\ p.kind = "data" => x = "ingest" /\ p.pc = "send" /\ p.n > 0 /\ p.n = Read(u)
        /\ p.mark \subseteq p.to
        /\ (p.pc = "send" => p.kind # "none") /\ (p.kind # "data" => p.n = 0)
        /\ \A c \in p.mark : client[c].drops
        /\ \A c \in p.to : client[c].of = u /\ client[c].pc \in Subscribed
    BY DEF PubInv, Subscribed, IInv
  <2>2. x = "ingest" => pub'[u][x] = p BY <1>4
  <2> QED BY <1>2, <1>4, <1>7, <2>1, <2>2
<1>9. NothingNew BY <1>3, <1>4 DEF NothingNew
<1>10. \A u \in Streamed : Sending(u)' = Sending(u) BY <1>3, <1>4 DEF Sending
<1> QED BY <1>2, <1>3, <1>4, <1>6, <1>7, <1>8, <1>9, <1>10, ViewersLeftAlone
  DEF viewVars, hubVars, workerVars

LEMMA IngestBreaksKeeps ==
  ASSUME IInv, NEW s \in Streamed, IngestBreaks(s)
  PROVE  IInv'
<1> USE DEF IngestBreaks
<1>1. RelayTypeOK /\ WireInv BY DEF IInv
<1>2. /\ conn \in [Streamed -> ConnState] /\ conn[s] \in ConnState /\ breaks \in 0 .. MaxBreaks
      /\ MaxBreaks \in Nat /\ wire \in [Streamed -> Seq(Nat)]
  BY <1>1, ConnFields
<1>3. breaks' \in 0 .. MaxBreaks /\ breaks' # 0 BY <1>2 DEF Break
<1>4. conn' \in [Streamed -> ConnState]
  <2> DEFINE c == [conn[s] EXCEPT !.ws = IF @ = "up" THEN "down" ELSE @]
  <2>1. c \in ConnState BY <1>2 DEF ConnState
  <2>2. conn' = [conn EXCEPT ![s] = c] OBVIOUS
  <2> HIDE DEF c
  <2> QED BY <1>2, <2>1, <2>2
<1>5. /\ wire' \in [Streamed -> Seq(Nat)] /\ wire'[s] = <<>>
      /\ \A u \in Streamed : u # s => wire'[u] = wire[u]
  <2>1. <<>> \in Seq(Nat) OBVIOUS
  <2> QED BY <1>2, <2>1
<1>6. ConnTypes' BY <1>1, <1>3, <1>4, <1>5 DEF RelayTypeOK, ConnTypes
<1>7. RelayTypeOK' BY <1>1, <1>6 DEF RelayTypeOK, HubTypes, RowTypes, hubVars, workerVars
<1>8. /\ WireInv' /\ \A u \in Streamed : Read(u) <= Read(u)' /\ Read(u)' \in Nat /\ Read(u) \in Nat
  <2>1. \A u \in Streamed : wire'[u] = wire[u] \/ wire'[u] = <<>> BY <1>5
  <2> QED BY <1>1, <2>1, WireCut
<1>9. Onward
  <2>1. \A u \in Streamed : high[u] \in Nat BY <1>1 DEF RelayTypeOK, HubTypes
  <2> QED BY <1>8, <2>1 DEF Onward, hubVars
<1>10. \A u \in Streamed : u # s => Read(u)' = Read(u) BY <1>5 DEF Read, Pending
<1>11. PubInv'
  <2> SUFFICES ASSUME NEW u \in Streamed, NEW x \in Threads
               PROVE  LET p == pub[u][x] IN
                      /\ p.kind = "data" => x = "ingest" /\ p.pc = "send" /\ p.n > 0 /\ p.n = Read(u)'
                      /\ p.mark \subseteq p.to
                      /\ (p.pc = "send" => p.kind # "none") /\ (p.kind # "data" => p.n = 0)
                      /\ \A c \in p.mark : client[c].drops
                      /\ \A c \in p.to : client[c].of = u /\ client[c].pc \in Subscribed
    BY DEF PubInv, Subscribed
  <2> DEFINE p == pub[u][x]
  <2>1. /\ p.kind = "data" => x = "ingest" /\ p.pc = "send" /\ p.n > 0 /\ p.n = Read(u)
        /\ p.mark \subseteq p.to
        /\ (p.pc = "send" => p.kind # "none") /\ (p.kind # "data" => p.n = 0)
        /\ \A c \in p.mark : client[c].drops
        /\ \A c \in p.to : client[c].of = u /\ client[c].pc \in Subscribed
    BY DEF PubInv, Subscribed, IInv
  <2>2. p.kind = "data" => u # s BY <2>1
  <2> QED BY <1>10, <2>1, <2>2
<1>12. NothingNew BY DEF NothingNew
<1>13. \A u \in Streamed : Sending(u)' = Sending(u) BY DEF Sending
<1> QED BY <1>3, <1>7, <1>8, <1>9, <1>11, <1>12, <1>13, ViewersLeftAlone
  DEF viewVars, hubVars, workerVars

LEMMA PublishingTypes ==
  ASSUME RelayTypeOK, ConnTypes', HubTypes', pub' \in [Streamed -> [Threads -> PubState]],
         ingest' \in [Streamed -> {"none", "reading", "ending", "done"}],
         idleTimer' \in [Streamed -> [inMap : BOOLEAN, armed : BOOLEAN]],
         UNCHANGED <<client, workerVars>>
  PROVE  RelayTypeOK'
BY DEF RelayTypeOK, RowTypes, workerVars

(* A status or an end, where the socket is left alone.                      *)
LEMMA PublishAlone ==
  ASSUME IInv, NEW s \in Streamed, NEW t \in Threads, NEW kind \in {"status", "end"},
         PublishChunk(s, t, kind, 0), UNCHANGED <<connVars, wire, request, breaks, client, workerVars>>,
         ingest' \in [Streamed -> {"none", "reading", "ending", "done"}],
         idleTimer' \in [Streamed -> [inMap : BOOLEAN, armed : BOOLEAN]]
  PROVE  IInv'
<1>1. HubTypes' /\ pub' \in [Streamed -> [Threads -> PubState]]
  <2>1. kind \in {"data", "status", "end"} /\ 0 \in Nat OBVIOUS
  <2> QED BY <2>1, PublishChunkFacts DEF IInv
<1>2. ConnTypes' BY DEF IInv, RelayTypeOK, ConnTypes, connVars
<1>3. RelayTypeOK' BY <1>1, <1>2, PublishingTypes DEF IInv
<1>4. WireInv' /\ \A u \in Streamed : Read(u)' = Read(u) BY WireSame DEF IInv, connVars
<1> QED BY <1>3, <1>4, PublishOther

LEMMA IngestEndsKeeps ==
  ASSUME IInv, NEW s \in Streamed, IngestEnds(s)
  PROVE  IInv'
<1> USE DEF IngestEnds
<1>1. /\ ingest \in [Streamed -> {"none", "reading", "ending", "done"}]
      /\ idleTimer \in [Streamed -> [inMap : BOOLEAN, armed : BOOLEAN]]
  BY HandlerTypes DEF IInv
<1>2. ingest' \in [Streamed -> {"none", "reading", "ending", "done"}] BY <1>1
<1>3. "ingest" \in Threads BY DEF Threads
<1> QED BY <1>1, <1>2, <1>3, PublishAlone

LEMMA HandleEndKeeps ==
  ASSUME IInv, NEW s \in Streamed, HandleEnd(s)
  PROVE  IInv'
<1> USE DEF HandleEnd
<1>1. /\ ingest \in [Streamed -> {"none", "reading", "ending", "done"}]
      /\ idleTimer \in [Streamed -> [inMap : BOOLEAN, armed : BOOLEAN]]
  BY HandlerTypes DEF IInv
<1>2. idleTimer' \in [Streamed -> [inMap : BOOLEAN, armed : BOOLEAN]] BY <1>1
<1>3. "end" \in Threads BY DEF Threads
<1> QED BY <1>1, <1>2, <1>3, PublishAlone

LEMMA TimerEndsKeeps ==
  ASSUME IInv, NEW s \in Streamed, TimerEndsSession(s)
  PROVE  IInv'
<1> USE DEF TimerEndsSession
<1>1. /\ ingest \in [Streamed -> {"none", "reading", "ending", "done"}]
      /\ idleTimer \in [Streamed -> [inMap : BOOLEAN, armed : BOOLEAN]]
  BY HandlerTypes DEF IInv
<1>2. idleTimer' \in [Streamed -> [inMap : BOOLEAN, armed : BOOLEAN]] BY <1>1
<1>3. "timer" \in Threads BY DEF Threads
<1> QED BY <1>1, <1>2, <1>3, PublishAlone

LEMMA HandleStatusKeeps ==
  ASSUME IInv, NEW s \in Streamed, HandleStatus(s)
  PROVE  IInv'
<1> USE DEF HandleStatus
<1>1. /\ ingest \in [Streamed -> {"none", "reading", "ending", "done"}]
      /\ idleTimer \in [Streamed -> [inMap : BOOLEAN, armed : BOOLEAN]]
  BY HandlerTypes DEF IInv
<1>2. CASE PublishChunk(s, "status", "status", 0) /\ UNCHANGED request
  <2>1. "status" \in Threads BY DEF Threads
  <2> QED BY <1>1, <1>2, <2>1, PublishAlone
<1>3. CASE request' = [request EXCEPT ![s] = @ \ {"status"}] /\ UNCHANGED <<pub, hubVars>>
  <2>1. request' \in [Streamed -> SUBSET {"status", "end"}] BY <1>3 DEF IInv, RelayTypeOK, ConnTypes
  <2>2. ConnTypes' BY <2>1 DEF IInv, RelayTypeOK, ConnTypes, connVars
  <2>3. RelayTypeOK' BY <1>3, <2>2, FeedTypes DEF IInv
  <2> QED BY <1>3, <2>3, OnlyConnection DEF connVars, hubVars, workerVars, viewVars
<1> QED BY <1>2, <1>3

LEMMA IngestReadKeeps ==
  ASSUME IInv, NEW s \in Streamed, IngestRead(s)
  PROVE  IInv'
<1> USE DEF IngestRead
<1>1. /\ ingest' \in [Streamed -> {"none", "reading", "ending", "done"}]
      /\ idleTimer' \in [Streamed -> [inMap : BOOLEAN, armed : BOOLEAN]]
      /\ RelayTypeOK /\ WireInv
  BY HandlerTypes DEF IInv
<1> DEFINE m == Head(wire[s])
           r == IF m = 0 THEN Read(s) ELSE Read(s) + 1
<1>2. /\ wire[s] \in Seq(Nat) /\ Len(sent[s]) \in Nat /\ Read(s) \in Nat /\ wire[s] # <<>>
      /\ WireOf(wire[s], Len(sent[s]), Read(s)) /\ wire \in [Streamed -> Seq(Nat)]
  BY <1>1, WireMeans, ConnFields
<1>3. /\ m = 0 \/ m = Read(s) + 1
      /\ Tail(wire[s]) \in Seq(Nat) /\ WireOf(Tail(wire[s]), Len(sent[s]), r)
  BY <1>2, WireRead
<1>4. /\ wire' \in [Streamed -> Seq(Nat)] /\ wire'[s] = Tail(wire[s])
      /\ \A u \in Streamed : u # s => wire'[u] = wire[u]
  BY <1>2, <1>3
<1>5. UNCHANGED <<connVars, request, breaks, client, ingest, idleTimer, workerVars>> OBVIOUS
<1>6. ConnTypes' BY <1>1, <1>4, <1>5 DEF RelayTypeOK, ConnTypes, connVars
<1> HIDE DEF m, r
<1>7. /\ WireInv' /\ Read(s)' = r
      /\ \A u \in Streamed : u # s => Read(u)' = Read(u)
  <2>1. \A u \in Streamed : u # s => wire'[u] = wire[u] /\ sent'[u] = sent[u] BY <1>4, <1>5 DEF connVars
  <2>2. WireOf(wire'[s], Len(sent'[s]), r) BY <1>3, <1>4, <1>5 DEF connVars
  <2> QED BY <1>1, <1>6, <2>1, <2>2, WireOfOne
<1>8. "ingest" \in Threads BY DEF Threads
<1>9. CASE m # 0 /\ PublishChunk(s, "ingest", "data", m)
  <2>1. m \in Nat /\ m = Read(s) + 1 /\ r = m BY <1>2, <1>3, <1>9 DEF r
  <2>2. HubTypes' /\ pub' \in [Streamed -> [Threads -> PubState]]
    BY <1>1, <1>8, <1>9, <2>1, PublishChunkFacts
  <2>3. RelayTypeOK' BY <1>1, <1>5, <1>6, <2>2, PublishingTypes
  <2> QED BY <1>5, <1>7, <1>9, <2>1, <2>3, PublishData
<1>10. CASE m = 0
  <2>1. \A u \in Streamed : Read(u)' = Read(u) BY <1>7, <1>10 DEF r
  <2>2. CASE PublishChunk(s, "ingest", "status", 0)
    <3>1. HubTypes' /\ pub' \in [Streamed -> [Threads -> PubState]]
      BY <1>1, <1>8, <2>2, PublishChunkFacts
    <3>2. RelayTypeOK' BY <1>1, <1>5, <1>6, <3>1, PublishingTypes
    <3> QED BY <1>5, <1>7, <1>8, <2>1, <2>2, <3>2, PublishOther
  <2>3. CASE UNCHANGED <<pub, hubVars>>
    <3>1. RelayTypeOK' BY <1>1, <1>5, <1>6, <2>3, FeedTypes
    <3> QED BY <1>5, <1>7, <2>1, <2>3, <3>1, HubLeftAlone DEF viewVars, hubVars, workerVars
  <2> QED BY <1>9, <1>10, <2>2, <2>3 DEF m
<1> QED BY <1>9, <1>10 DEF m

LEMMA HandlersKeep ==
  ASSUME IInv, NEW s \in Streamed, Handlers(s)
  PROVE  IInv'
BY ConnectKeeps, IngestReadKeeps, IngestEndsKeeps, IngestBreaksKeeps, HandleStatusKeeps,
   HandleEndKeeps, InactivityKeeps, TimerEndsKeeps, CleanupOrphanedKeeps DEF Handlers

-----------------------------------------------------------------------------
(* Publish, channel by channel.                                             *)

(* A goroutine has dealt with viewer c, or is about to tell it of a drop.   *)
HandsOn(s, t, c) ==
  /\ UNCHANGED <<connVars, wire, request, breaks, hubVars, ingest, idleTimer, workerVars>>
  /\ c \in pub[s][t].to
  /\ \A d \in Clients : d # c => client'[d] = client[d]
  /\ client'[c].pc = client[c].pc /\ client'[c].of = client[c].of
  /\ client'[c].from = client[c].from /\ client'[c].done = client[c].done
  /\ client'[c].got = client[c].got /\ (client[c].drops => client'[c].drops)
  /\ \A u \in Streamed, x \in Threads : u # s \/ x # t => pub'[u][x] = pub[u][x]
  /\ LET p == pub[s][t]
         q == pub'[s][t] IN
     /\ q.pc = p.pc /\ q.kind = p.kind /\ q.n = p.n /\ q.seq = p.seq
     /\ q.to = p.to \/ q.to = p.to \ {c}
     /\ q.mark \subseteq q.to /\ \A d \in q.mark : d = c /\ client'[c].drops

LEMMA HandsOnKeeps ==
  ASSUME IInv, NEW s \in Streamed, NEW t \in Threads, NEW c \in Clients,
         RelayTypeOK', HandsOn(s, t, c), View(c)'
  PROVE  IInv'
<1> USE DEF HandsOn
<1>0. RelayTypeOK /\ "ingest" \in Threads BY DEF IInv, Threads
<1>1. WireInv' /\ (\A u \in Streamed : Read(u)' = Read(u)) /\ Onward
  BY <1>0, WireSame, OnwardSame DEF IInv, connVars, hubVars, NumbersSame
<1>2. \A u \in Streamed, x \in Threads :
        LET p == pub[u][x] IN
        /\ p.kind = "data" => x = "ingest" /\ p.pc = "send" /\ p.n > 0 /\ p.n = Read(u)
        /\ p.mark \subseteq p.to /\ p.to \subseteq Clients
        /\ (p.pc = "send" => p.kind # "none") /\ (p.kind # "data" => p.n = 0)
        /\ \A d \in p.mark : client[d].drops
        /\ \A d \in p.to : client[d].of = u /\ client[d].pc \in Subscribed
  BY <1>0 DEF IInv, PubInv, Subscribed, RelayTypeOK, PubState
<1>3. \A d \in Clients : /\ client'[d].pc = client[d].pc /\ client'[d].of = client[d].of
                         /\ client'[d].done = client[d].done /\ (client[d].drops => client'[d].drops)
                         /\ client'[d].from = client[d].from /\ client'[d].got = client[d].got
  OBVIOUS
<1>4. PubInv'
  <2> SUFFICES ASSUME NEW u \in Streamed, NEW x \in Threads
               PROVE  LET p == pub'[u][x] IN
                      /\ p.kind = "data" => x = "ingest" /\ p.pc = "send" /\ p.n > 0 /\ p.n = Read(u)'
                      /\ p.mark \subseteq p.to
                      /\ (p.pc = "send" => p.kind # "none") /\ (p.kind # "data" => p.n = 0)
                      /\ \A d \in p.mark : client'[d].drops
                      /\ \A d \in p.to : client'[d].of = u /\ client'[d].pc \in Subscribed
    BY DEF PubInv, Subscribed
  <2>1. CASE u # s \/ x # t
    <3>1. pub'[u][x] = pub[u][x] BY <2>1
    <3> QED BY <1>1, <1>2, <1>3, <3>1
  <2>2. CASE u = s /\ x = t
    <3>1. pub'[s][t].to \subseteq pub[s][t].to OBVIOUS
    <3>2. \A d \in pub'[s][t].to : client'[d].of = s /\ client'[d].pc \in Subscribed
      BY <1>2, <1>3, <3>1
    <3>3. \A d \in pub'[s][t].mark : client'[d].drops OBVIOUS
    <3> QED BY <1>1, <1>2, <2>2, <3>2, <3>3
  <2> QED BY <2>1, <2>2
<1>5. NothingNew BY <1>0 DEF NothingNew
<1>6. \A h \in Shards : Pipe(h)' = Pipe(h) BY DEF Pipe, workerVars
<1>7. PipeInv' /\ \A u \in Streamed : Log(u)' = Log(u) BY <1>6, PipeKeeps DEF IInv, workerVars
<1>8. RowInv' BY <1>0, <1>1, <1>5, <1>7, RowKeeps DEF IInv, RelayTypeOK
<1>9. client[c].pc \in Subscribed BY <1>2
<1>10. StageInv'
  <2> SUFFICES ASSUME NEW d \in Clients PROVE Stage(client'[d]) BY DEF StageInv
  <2>0. Stage(client[d]) BY DEF IInv, StageInv
  <2>1. CASE d = c BY <1>3, <1>9, <2>0, <2>1 DEF Stage, Subscribed
  <2>2. CASE d # c BY <2>0, <2>2
  <2> QED BY <2>1, <2>2
<1>11. CountInv'
  <2>1. UNCHANGED <<subs, active, elsewhere>> BY DEF hubVars
  <2>2. Subscribers' = Subscribers BY <2>1 DEF Subscribers
  <2> QED BY <1>3, <2>1, <2>2 DEF IInv, CountInv, ConnectionsCounted
<1>12. ASSUME NEW d \in Clients, d # c PROVE View(d)'
  <2>1. View(d) BY DEF IInv, ViewsInv
  <2>2. Stream(d)' = Stream(d) BY <1>12 DEF Stream
  <2>3. Alike(Stream(d)', Stream(d)) BY <2>2, AlikeItself
  <2>4. \A u \in Streamed : /\ d \in Sending(u)' <=> d \in Sending(u)
                            /\ pub'[u]["ingest"].n = pub[u]["ingest"].n
    BY <1>0, <1>12 DEF Sending
  <2>5. client'[d] = client[d] BY <1>12
  <2>6. subs' = subs /\ breaks' = breaks BY DEF hubVars
  <2> QED BY <1>0, <1>1, <2>1, <2>3, <2>4, <2>5, <2>6, ViewStep
<1>13. ViewsInv' BY <1>12 DEF ViewsInv
<1> QED BY <1>1, <1>4, <1>7, <1>8, <1>10, <1>11, <1>13 DEF IInv

LEMMA ClientBecomes ==
  ASSUME RelayTypeOK, NEW c \in Clients, NEW v \in ViewerState, client' = [client EXCEPT ![c] = v]
  PROVE  /\ client' \in [Clients -> ViewerState] /\ client'[c] = v
         /\ \A d \in Clients : d # c => client'[d] = client[d]
<1>1. client \in [Clients -> ViewerState] BY DEF RelayTypeOK
<1> QED BY <1>1

LEMMA BufFields ==
  ASSUME NEW v \in ViewerState, NEW b \in Seq(Chunk)
  PROVE  LET w == [v EXCEPT !.buf = b] IN
         /\ w \in ViewerState /\ w.pc = v.pc /\ w.of = v.of /\ w.from = v.from /\ w.got = v.got
         /\ w.drops = v.drops /\ w.done = v.done /\ w.buf = b
BY DEF ViewerState

LEMMA DropFields ==
  ASSUME NEW v \in ViewerState
  PROVE  LET w == [v EXCEPT !.drops = TRUE] IN
         /\ w \in ViewerState /\ w.pc = v.pc /\ w.of = v.of /\ w.from = v.from /\ w.got = v.got
         /\ w.drops = TRUE /\ w.done = v.done /\ w.buf = v.buf
BY DEF ViewerState

LEMMA HandsOnTypes ==
  ASSUME RelayTypeOK, pub' \in [Streamed -> [Threads -> PubState]], client' \in [Clients -> ViewerState],
         UNCHANGED <<connVars, wire, request, breaks, hubVars, ingest, idleTimer, workerVars>>
  PROVE  RelayTypeOK'
BY DEF RelayTypeOK, ConnTypes, HubTypes, RowTypes, connVars, hubVars, workerVars

(* What the step does to c's own view: its channel is left alone, or gets   *)
(* a chunk that is no output, or the output itself.                         *)
LEMMA HandedView ==
  ASSUME IInv, NEW s \in Streamed, NEW t \in Threads, NEW c \in Clients, HandsOn(s, t, c), Onward,
         \A u \in Streamed : Read(u)' = Read(u),
         \/ client'[c].buf = client[c].buf
         \/ \E m \in Chunk : ~IsOutput(m) /\ client'[c].buf = Append(client[c].buf, m),
         pub[s][t].kind = "data" /\ pub'[s][t].to # pub[s][t].to => client[c].done \/ client'[c].drops
  PROVE  View(c)'
<1> USE DEF HandsOn
<1>0. RelayTypeOK /\ "ingest" \in Threads BY DEF IInv, Threads
<1>1. View(c) /\ client[c].of = s BY DEF IInv, ViewsInv, PubInv
<1>2. Alike(Stream(c)', Stream(c))
  <2>1. client[c].got \in Seq(Chunk) /\ client[c].buf \in Seq(Chunk) /\ Stream(c) \in Seq(Chunk)
    BY <1>0, StreamTypes
  <2>2. CASE client'[c].buf = client[c].buf
    <3>1. Stream(c)' = Stream(c) BY <2>2 DEF Stream
    <3> QED BY <3>1, AlikeItself
  <2>3. ASSUME NEW m \in Chunk, ~IsOutput(m), client'[c].buf = Append(client[c].buf, m)
        PROVE  Alike(Stream(c)', Stream(c))
    <3>1. Stream(c)' = client[c].got \o Append(client[c].buf, m) BY <2>3 DEF Stream
    <3>2. Grown(Stream(c)', Stream(c), m) /\ Stream(c)' \in Seq(Chunk)
      BY <2>1, <3>1, AppendedFacts DEF Stream
    <3> QED BY <2>1, <2>3, <3>2, GrownFacts DEF Alike
  <2> QED BY <2>2, <2>3
<1>3. c \in Sending(s)' => c \in Sending(s) /\ pub'[s]["ingest"].n = pub[s]["ingest"].n
  <2>1. pub'[s]["ingest"].kind = pub[s]["ingest"].kind /\ pub'[s]["ingest"].n = pub[s]["ingest"].n
        /\ (c \in pub'[s]["ingest"].to => c \in pub[s]["ingest"].to)
    <3>1. CASE t = "ingest" BY <3>1
    <3>2. CASE t # "ingest" BY <1>0, <3>2
    <3> QED BY <3>1, <3>2
  <2> QED BY <2>1 DEF Sending
<1>4. c \in subs'[s] /\ ~client'[c].drops => (c \in Sending(s) => c \in Sending(s)')
  <2> SUFFICES ASSUME c \in subs'[s], ~client'[c].drops, c \in Sending(s) PROVE c \in Sending(s)'
    OBVIOUS
  <2>1. pub[s]["ingest"].kind = "data" /\ c \in pub[s]["ingest"].to BY DEF Sending
  <2>2. CASE t # "ingest"
    <3>1. pub'[s]["ingest"] = pub[s]["ingest"] BY <1>0, <2>2
    <3> QED BY <2>1, <3>1 DEF Sending
  <2>3. CASE t = "ingest"
    <3>1. c \in subs[s] BY DEF hubVars
    <3>2. ~client[c].done BY <3>1, SubscriberFacts
    <3>3. pub'[s][t].to = pub[s][t].to BY <2>1, <2>3, <3>2
    <3> QED BY <2>1, <2>3, <3>3 DEF Sending
  <2> QED BY <2>2, <2>3
<1>5. subs' = subs /\ breaks' = breaks BY DEF hubVars
<1> QED BY <1>0, <1>1, <1>2, <1>3, <1>4, <1>5, ViewStep

LEMMA HandedOutput ==
  ASSUME IInv, NEW s \in Streamed, NEW c \in Clients, HandsOn(s, "ingest", c), Onward,
         \A u \in Streamed : Read(u)' = Read(u), pub[s]["ingest"].kind = "data",
         pub'[s]["ingest"].to = pub[s]["ingest"].to \ {c}, client'[c].drops = client[c].drops,
         client'[c].buf = Append(client[c].buf, [kind |-> "data", n |-> pub[s]["ingest"].n, live |-> TRUE])
  PROVE  View(c)'
<1> USE DEF HandsOn
<1> DEFINE q == Stream(c)
           r == Stream(c)'
           n == pub[s]["ingest"].n
           m == [kind |-> "data", n |-> n, live |-> TRUE]
<1>0. RelayTypeOK /\ "ingest" \in Threads BY DEF IInv, Threads
<1>1. n > 0 /\ n = Read(s) /\ n \in Nat /\ client[c].of = s
  BY <1>0, ReadTypes DEF IInv, PubInv
<1>2. m \in Chunk /\ IsOutput(m) /\ m.live /\ m.n = n BY <1>1 DEF Chunk, IsOutput
<1>3. client[c].got \in Seq(Chunk) /\ client[c].buf \in Seq(Chunk) /\ q \in Seq(Chunk)
      /\ Numbers(q, Places(q)) \subseteq Nat
  BY <1>0, StreamTypes
<1> HIDE DEF m
<1>4. r = client[c].got \o Append(client[c].buf, m) /\ q = client[c].got \o client[c].buf
  BY DEF Stream, m
<1>6. c \in Sending(s) /\ c \notin Sending(s)' BY DEF Sending
<1>7. View(c) BY DEF IInv, ViewsInv
<1>8. /\ Single(q) /\ (\A x \in Numbers(q, Places(q)) : x < n) /\ client[c].from < n
      /\ (~reused[s] => Rising(q, Places(q)))
      /\ c \in subs[s] /\ ~client[c].drops /\ breaks = 0 =>
           /\ Numbers(q, Lives(q)) = client[c].from + 1 .. Read(s) - 1
           /\ Rising(q, Lives(q))
  BY <1>1, <1>6, <1>7 DEF View
<1> HIDE DEF q, r, n
<1>5. Grown(r, q, m) /\ r \in Seq(Chunk) BY <1>2, <1>3, <1>4, AppendedFacts
<1>9. /\ Numbers(r, Places(r)) = Numbers(q, Places(q)) \cup {n}
      /\ Numbers(r, Lives(r)) = Numbers(q, Lives(q)) \cup {n}
      /\ Single(r)
      /\ Rising(q, Places(q)) => Rising(r, Places(r))
      /\ Rising(q, Lives(q)) => Rising(r, Lives(r))
  BY <1>2, <1>3, <1>5, <1>8, GrownFacts
<1>10. \A x \in Numbers(r, Places(r)) : x <= Read(s)'
  <2> TAKE x \in Numbers(r, Places(r))
  <2>1. x \in Nat /\ (x < n \/ x = n) BY <1>1, <1>3, <1>8, <1>9
  <2> QED BY <1>1, <2>1
<1>11. client[c].from \in Nat BY <1>0, StreamTypes DEF ViewerState
<1>12. client'[c].from <= Read(s)'
  <2>1. client'[c].from = client[c].from /\ Read(s)' = n BY <1>1
  <2> QED BY <1>1, <1>8, <1>11, <2>1
<1>13. (client[c].from + 1 .. Read(s) - 1) \cup {n} = client[c].from + 1 .. Read(s) - 0
  BY <1>1, <1>8, <1>11
<1>14. /\ client'[c].from = client[c].from /\ Read(s)' = Read(s) /\ subs' = subs /\ breaks' = breaks
       /\ reused' = reused /\ client'[c].of = s
  BY <1>1 DEF hubVars
<1>15. c \in subs'[s] /\ ~client'[c].drops /\ breaks' = 0 =>
         /\ Numbers(r, Lives(r)) = client'[c].from + 1 .. Read(s)' - (IF c \in Sending(s)' THEN 1 ELSE 0)
         /\ Rising(r, Lives(r))
  BY <1>6, <1>8, <1>9, <1>13, <1>14
<1> QED BY <1>6, <1>8, <1>9, <1>10, <1>12, <1>14, <1>15 DEF View, r

(* What Send and sendDropMarker do to the goroutine, and to the channel.    *)
PubTurns(s, t, q) == pub' = [pub EXCEPT ![s][t] = q]
Without(p, c) == [p EXCEPT !.mark = {}, !.to = @ \ {c}]

LEMMA PubTurned ==
  ASSUME RelayTypeOK, NEW s \in Streamed, NEW t \in Threads, NEW q \in PubState, PubTurns(s, t, q)
  PROVE  /\ pub' \in [Streamed -> [Threads -> PubState]] /\ pub'[s][t] = q
         /\ \A u \in Streamed, x \in Threads : u # s \/ x # t => pub'[u][x] = pub[u][x]
<1>1. pub \in [Streamed -> [Threads -> PubState]] BY DEF RelayTypeOK
<1>2. pub' = [pub EXCEPT ![s][t] = q] BY DEF PubTurns
<1> QED BY <1>1, <1>2

LEMMA TakenOff ==
  ASSUME RelayTypeOK, NEW s \in Streamed, NEW t \in Threads, NEW c \in Clients,
         NEW q, q = Without(pub[s][t], c), PubTurns(s, t, q)
  PROVE  /\ pub' \in [Streamed -> [Threads -> PubState]] /\ pub'[s][t] = q
         /\ \A u \in Streamed, x \in Threads : u # s \/ x # t => pub'[u][x] = pub[u][x]
         /\ LET p == pub[s][t] IN
            /\ q.pc = p.pc /\ q.kind = p.kind /\ q.n = p.n /\ q.seq = p.seq
            /\ q.to = p.to \ {c} /\ q.mark = {}
<1> DEFINE p == pub[s][t]
<1>1. p \in PubState BY DEF RelayTypeOK
<1>2. /\ q \in PubState
      /\ q.pc = p.pc /\ q.kind = p.kind /\ q.n = p.n /\ q.seq = p.seq
      /\ q.to = p.to \ {c} /\ q.mark = {}
  BY <1>1 DEF PubState, Without
<1>3. q \in PubState BY <1>2
<1> QED BY <1>2, <1>3, PubTurned

LEMMA Marked ==
  ASSUME RelayTypeOK, NEW s \in Streamed, NEW t \in Threads, NEW c \in Clients,
         NEW q, q = [pub[s][t] EXCEPT !.mark = {c}], PubTurns(s, t, q)
  PROVE  /\ pub' \in [Streamed -> [Threads -> PubState]] /\ pub'[s][t] = q
         /\ \A u \in Streamed, x \in Threads : u # s \/ x # t => pub'[u][x] = pub[u][x]
         /\ LET p == pub[s][t] IN
            /\ q.pc = p.pc /\ q.kind = p.kind /\ q.n = p.n /\ q.seq = p.seq
            /\ q.to = p.to /\ q.mark = {c}
<1> DEFINE p == pub[s][t]
<1>1. p \in PubState BY DEF RelayTypeOK
<1>2. /\ q \in PubState
      /\ q.pc = p.pc /\ q.kind = p.kind /\ q.n = p.n /\ q.seq = p.seq
      /\ q.to = p.to /\ q.mark = {c}
  BY <1>1 DEF PubState
<1>3. q \in PubState BY <1>2
<1> QED BY <1>2, <1>3, PubTurned

LEMMA BufGets ==
  ASSUME RelayTypeOK, NEW c \in Clients, NEW m \in Chunk,
         client' = [client EXCEPT ![c].buf = Append(@, m)]
  PROVE  /\ client' \in [Clients -> ViewerState]
         /\ \A d \in Clients : d # c => client'[d] = client[d]
         /\ LET v == client[c]
                w == client'[c] IN
            /\ w.pc = v.pc /\ w.of = v.of /\ w.from = v.from /\ w.got = v.got
            /\ w.drops = v.drops /\ w.done = v.done /\ w.buf = Append(v.buf, m)
<1> DEFINE v == client[c]
           b == Append(v.buf, m)
           w == [v EXCEPT !.buf = b]
<1>1. v \in ViewerState /\ v.buf \in Seq(Chunk) BY StreamTypes
<1>2. b \in Seq(Chunk) BY <1>1
<1>3. client' = [client EXCEPT ![c] = w] OBVIOUS
<1> HIDE DEF b
<1>4. /\ w \in ViewerState /\ w.pc = v.pc /\ w.of = v.of /\ w.from = v.from /\ w.got = v.got
      /\ w.drops = v.drops /\ w.done = v.done /\ w.buf = b
  BY <1>1, <1>2, BufFields
<1> HIDE DEF w
<1>5. /\ client' \in [Clients -> ViewerState] /\ client'[c] = w
      /\ \A d \in Clients : d # c => client'[d] = client[d]
  BY <1>3, <1>4, ClientBecomes
<1> QED BY <1>4, <1>5 DEF b

LEMMA SendKeeps ==
  ASSUME IInv, NEW s \in Streamed, NEW t \in Threads, NEW c \in Clients, Send(s, t, c)
  PROVE  IInv'
<1> DEFINE p == pub[s][t]
           m == [kind |-> p.kind, n |-> p.n, live |-> TRUE]
<1>0. RelayTypeOK /\ client \in [Clients -> ViewerState] BY DEF IInv, RelayTypeOK
<1>1. UNCHANGED <<connVars, wire, request, breaks, hubVars, ingest, idleTimer, workerVars>>
      /\ p.pc = "send" /\ p.mark = {} /\ c \in p.to
  BY DEF Send
<1>2. (\A u \in Streamed : Read(u)' = Read(u)) /\ Onward
  BY <1>0, <1>1, WireSame, OnwardSame DEF IInv, connVars, hubVars, NumbersSame
<1>3. \/ /\ client[c].done
         /\ pub' = [pub EXCEPT ![s][t].to = @ \ {c}]
         /\ UNCHANGED client
      \/ /\ pub' = [pub EXCEPT ![s][t].to = @ \ {c}]
         /\ client' = [client EXCEPT ![c].buf = Append(@, m)]
      \/ /\ pub' = [pub EXCEPT ![s][t].mark = {c}]
         /\ client' = [client EXCEPT ![c].drops = TRUE]
  BY DEF Send
<1>4. CASE client[c].done /\ pub' = [pub EXCEPT ![s][t].to = @ \ {c}] /\ UNCHANGED client
  <2>1. PICK q : q = Without(pub[s][t], c) OBVIOUS
  <2>2. PubTurns(s, t, q)
    <3>1. q = [pub[s][t] EXCEPT !.to = @ \ {c}] BY <1>0, <1>1, <2>1 DEF RelayTypeOK, PubState, Without
    <3> QED BY <1>4, <3>1 DEF PubTurns
  <2>3. /\ pub' \in [Streamed -> [Threads -> PubState]] /\ pub'[s][t] = q
        /\ \A u \in Streamed, x \in Threads : u # s \/ x # t => pub'[u][x] = pub[u][x]
        /\ q.pc = p.pc /\ q.kind = p.kind /\ q.n = p.n /\ q.seq = p.seq
        /\ q.to = p.to \ {c} /\ q.mark = {}
    <3>1. /\ pub' \in [Streamed -> [Threads -> PubState]] /\ pub'[s][t] = q
          /\ \A u \in Streamed, x \in Threads : u # s \/ x # t => pub'[u][x] = pub[u][x]
          /\ q.pc = p.pc /\ q.kind = p.kind /\ q.n = p.n /\ q.seq = p.seq
      BY <1>0, <2>1, <2>2, TakenOff
    <3>2. q.to = p.to \ {c} BY <1>0, <2>1, <2>2, TakenOff
    <3>3. q.mark = {} BY <1>0, <2>1, <2>2, TakenOff
    <3> QED BY <3>1, <3>2, <3>3
  <2>4. RelayTypeOK' BY <1>0, <1>1, <1>4, <2>3, HandsOnTypes
  <2>5. HandsOn(s, t, c) BY <1>1, <1>4, <2>3 DEF HandsOn
  <2>6. View(c)' BY <1>2, <1>4, <2>5, HandedView
  <2> QED BY <2>4, <2>5, <2>6, HandsOnKeeps
<1>5. CASE /\ pub' = [pub EXCEPT ![s][t].to = @ \ {c}]
           /\ client' = [client EXCEPT ![c].buf = Append(@, m)]
  <2>1. PICK q : q = Without(pub[s][t], c) OBVIOUS
  <2>2. PubTurns(s, t, q)
    <3>1. q = [pub[s][t] EXCEPT !.to = @ \ {c}] BY <1>0, <1>1, <2>1 DEF RelayTypeOK, PubState, Without
    <3> QED BY <1>5, <3>1 DEF PubTurns
  <2>3. /\ pub' \in [Streamed -> [Threads -> PubState]] /\ pub'[s][t] = q
        /\ \A u \in Streamed, x \in Threads : u # s \/ x # t => pub'[u][x] = pub[u][x]
        /\ q.pc = p.pc /\ q.kind = p.kind /\ q.n = p.n /\ q.seq = p.seq
        /\ q.to = p.to \ {c} /\ q.mark = {}
    <3>1. /\ pub' \in [Streamed -> [Threads -> PubState]] /\ pub'[s][t] = q
          /\ \A u \in Streamed, x \in Threads : u # s \/ x # t => pub'[u][x] = pub[u][x]
          /\ q.pc = p.pc /\ q.kind = p.kind /\ q.n = p.n /\ q.seq = p.seq
      BY <1>0, <2>1, <2>2, TakenOff
    <3>2. q.to = p.to \ {c} BY <1>0, <2>1, <2>2, TakenOff
    <3>3. q.mark = {} BY <1>0, <2>1, <2>2, TakenOff
    <3> QED BY <3>1, <3>2, <3>3
  <2>4. m \in Chunk
    <3>1. p \in PubState /\ p.kind # "none" BY <1>1 DEF IInv, PubInv, RelayTypeOK
    <3> QED BY <3>1 DEF PubState, Chunk
  <2>5. /\ client' \in [Clients -> ViewerState]
        /\ \A d \in Clients : d # c => client'[d] = client[d]
        /\ LET v == client[c]
               w == client'[c] IN
           /\ w.pc = v.pc /\ w.of = v.of /\ w.from = v.from /\ w.got = v.got
           /\ w.drops = v.drops /\ w.done = v.done /\ w.buf = Append(v.buf, m)
    <3> HIDE DEF m
    <3> QED BY <1>0, <1>5, <2>4, BufGets
  <2>6. RelayTypeOK' BY <1>0, <1>1, <2>3, <2>5, HandsOnTypes
  <2>7. HandsOn(s, t, c) BY <1>1, <2>3, <2>5 DEF HandsOn
  <2>8. View(c)'
    <3>1. CASE p.kind = "data"
      <4>1. t = "ingest" BY <3>1 DEF IInv, PubInv
      <4> QED BY <1>2, <2>3, <2>5, <2>7, <3>1, <4>1, HandedOutput
    <3>2. CASE p.kind # "data"
      <4>1. ~IsOutput(m) BY <3>2 DEF IsOutput
      <4>2. \E x \in Chunk : ~IsOutput(x) /\ client'[c].buf = Append(client[c].buf, x)
        BY <2>4, <2>5, <4>1
      <4> QED BY <1>2, <2>7, <3>2, <4>2, HandedView
    <3> QED BY <3>1, <3>2
  <2> QED BY <2>6, <2>7, <2>8, HandsOnKeeps
<1>6. CASE /\ pub' = [pub EXCEPT ![s][t].mark = {c}]
           /\ client' = [client EXCEPT ![c].drops = TRUE]
  <2>1. PICK q : q = [pub[s][t] EXCEPT !.mark = {c}] OBVIOUS
  <2>2. PubTurns(s, t, q) BY <1>6, <2>1 DEF PubTurns
  <2>3. /\ pub' \in [Streamed -> [Threads -> PubState]] /\ pub'[s][t] = q
        /\ \A u \in Streamed, x \in Threads : u # s \/ x # t => pub'[u][x] = pub[u][x]
        /\ q.pc = p.pc /\ q.kind = p.kind /\ q.n = p.n /\ q.seq = p.seq
        /\ q.to = p.to /\ q.mark = {c}
    BY <1>0, <2>1, <2>2, Marked
  <2>4. client' = [client EXCEPT ![c] = [client[c] EXCEPT !.drops = TRUE]] BY <1>6
  <2>5. PICK w : w = [client[c] EXCEPT !.drops = TRUE] OBVIOUS
  <2>6. LET v == client[c] IN
        /\ w \in ViewerState /\ w.pc = v.pc /\ w.of = v.of /\ w.from = v.from /\ w.got = v.got
        /\ w.drops = TRUE /\ w.done = v.done /\ w.buf = v.buf
    BY <1>0, <2>5, DropFields
  <2>7. /\ client' \in [Clients -> ViewerState] /\ client'[c] = w
        /\ \A d \in Clients : d # c => client'[d] = client[d]
    BY <1>0, <2>4, <2>5, <2>6, ClientBecomes
  <2>8. RelayTypeOK' BY <1>0, <1>1, <2>3, <2>7, HandsOnTypes
  <2>9. HandsOn(s, t, c) BY <1>1, <2>3, <2>6, <2>7 DEF HandsOn
  <2>10. View(c)' BY <1>2, <2>3, <2>6, <2>7, <2>9, HandedView
  <2> QED BY <2>8, <2>9, <2>10, HandsOnKeeps
<1> QED BY <1>3, <1>4, <1>5, <1>6

LEMMA SendDropMarkerKeeps ==
  ASSUME IInv, NEW s \in Streamed, NEW t \in Threads, NEW c \in Clients, SendDropMarker(s, t, c)
  PROVE  IInv'
<1> DEFINE p == pub[s][t]
           m == [kind |-> "dropped", n |-> 0, live |-> TRUE]
<1>0. RelayTypeOK /\ client \in [Clients -> ViewerState] BY DEF IInv, RelayTypeOK
<1>1. UNCHANGED <<connVars, wire, request, breaks, hubVars, ingest, idleTimer, workerVars>>
      /\ c \in p.mark /\ pub' = [pub EXCEPT ![s][t].mark = {}, ![s][t].to = @ \ {c}]
  BY DEF SendDropMarker
<1>2. (\A u \in Streamed : Read(u)' = Read(u)) /\ Onward
  BY <1>0, <1>1, WireSame, OnwardSame DEF IInv, connVars, hubVars, NumbersSame
<1>3. client' = client \/ client' = [client EXCEPT ![c].buf = Append(@, m)] BY DEF SendDropMarker
<1>4. c \in p.to /\ client[c].drops BY <1>1 DEF IInv, PubInv
<1>5. PICK q : q = Without(pub[s][t], c) OBVIOUS
<1>6. PubTurns(s, t, q)
  <2>1. pub \in [Streamed -> [Threads -> PubState]] /\ p \in PubState BY <1>0 DEF RelayTypeOK
  <2> QED BY <1>1, <1>5, <2>1 DEF PubTurns, Without
<1>7. /\ pub' \in [Streamed -> [Threads -> PubState]] /\ pub'[s][t] = q
      /\ \A u \in Streamed, x \in Threads : u # s \/ x # t => pub'[u][x] = pub[u][x]
      /\ q.pc = p.pc /\ q.kind = p.kind /\ q.n = p.n /\ q.seq = p.seq
  BY <1>0, <1>5, <1>6, TakenOff
<1>8. q.to = p.to \ {c} BY <1>0, <1>5, <1>6, TakenOff
<1>9. q.mark = {} BY <1>0, <1>5, <1>6, TakenOff
<1>10. CASE client' = client
  <2>1. RelayTypeOK' BY <1>0, <1>1, <1>7, <1>10, HandsOnTypes
  <2>2. HandsOn(s, t, c) BY <1>1, <1>4, <1>7, <1>8, <1>9, <1>10 DEF HandsOn
  <2>3. View(c)' BY <1>2, <1>4, <1>10, <2>2, HandedView
  <2> QED BY <2>1, <2>2, <2>3, HandsOnKeeps
<1>11. CASE client' = [client EXCEPT ![c].buf = Append(@, m)]
  <2>1. m \in Chunk /\ ~IsOutput(m) BY DEF Chunk, IsOutput
  <2>2. /\ client' \in [Clients -> ViewerState]
        /\ \A d \in Clients : d # c => client'[d] = client[d]
        /\ LET v == client[c]
               w == client'[c] IN
           /\ w.pc = v.pc /\ w.of = v.of /\ w.from = v.from /\ w.got = v.got
           /\ w.drops = v.drops /\ w.done = v.done /\ w.buf = Append(v.buf, m)
    <3> HIDE DEF m
    <3> QED BY <1>0, <1>11, <2>1, BufGets
  <2>3. RelayTypeOK' BY <1>0, <1>1, <1>7, <2>2, HandsOnTypes
  <2>4. HandsOn(s, t, c) BY <1>1, <1>4, <1>7, <1>8, <1>9, <2>2 DEF HandsOn
  <2>5. \E x \in Chunk : ~IsOutput(x) /\ client'[c].buf = Append(client[c].buf, x) BY <2>1, <2>2
  <2>6. View(c)' BY <1>2, <1>4, <2>2, <2>4, <2>5, HandedView
  <2> QED BY <2>3, <2>4, <2>6, HandsOnKeeps
<1> QED BY <1>3, <1>10, <1>11

-----------------------------------------------------------------------------
(* What follows Publish: a row goes into the queue.                         *)

LEMMA PipeTypes ==
  ASSUME RelayTypeOK, NEW h \in Shards
  PROVE  /\ batch[h] \in Seq(Row) /\ queue[h] \in Seq(Row) /\ Pipe(h) \in Seq(Row)
         /\ \A i \in DOMAIN Pipe(h) : Pipe(h)[i] \in Row /\ Pipe(h)[i].n \in Nat /\ i \in Nat
<1>1. batch[h] \in Seq(Row) /\ queue[h] \in Seq(Row) BY DEF RelayTypeOK, RowTypes
<1>2. Pipe(h) \in Seq(Row) BY <1>1, ConcatProperties DEF Pipe
<1>3. \A i \in DOMAIN Pipe(h) : Pipe(h)[i] \in Row /\ i \in Nat BY <1>2
<1> QED BY <1>1, <1>2, <1>3 DEF Row

LEMMA LogHolds ==
  ASSUME NEW s \in Streamed
  PROVE  /\ \A r \in store : r.of = s /\ r.n > 0 => r \in Log(s)
         /\ \A h \in Shards : \A i \in DOMAIN Pipe(h) :
              Pipe(h)[i].of = s /\ Pipe(h)[i].n > 0 => Pipe(h)[i] \in Log(s)
BY DEF Log, ToSet

LEMMA Enqueued ==
  ASSUME RelayTypeOK, PipeInv, NEW s \in Streamed, NEW job \in Row, job.of = s,
         EnqueuePersist(s, job), \A r \in Log(s) : job.n > 0 => r.n < job.n
  PROVE  /\ PipeInv' /\ RowTypes'
         /\ \A u \in Streamed : \A r \in Log(u)' : r \in Log(u) \/ (r = job /\ u = s)
<1> DEFINE h == ShardOf[s]
<1>0. h \in Shards BY RelayAssumption
<1>1. store' = store /\ batch' = batch BY DEF EnqueuePersist
<1>2. CASE Len(queue[h]) < QueueCap
  <2>1. queue' = [queue EXCEPT ![h] = Append(@, job)] /\ full' = full BY <1>2 DEF EnqueuePersist
  <2> HIDE DEF h
  <2>2. /\ queue \in [Shards -> Seq(Row)] /\ queue[h] \in Seq(Row) /\ batch[h] \in Seq(Row)
        /\ Pipe(h) \in Seq(Row)
    BY <1>0, PipeTypes DEF RelayTypeOK, RowTypes
  <2>3. queue' \in [Shards -> Seq(Row)] /\ queue'[h] = Append(queue[h], job)
        /\ \A g \in Shards : g # h => queue'[g] = queue[g]
    BY <1>0, <2>1, <2>2
  <2>4. RowTypes' BY <1>1, <2>1, <2>3 DEF RelayTypeOK, RowTypes
  <2>5. \A g \in Shards : g # h => Pipe(g)' = Pipe(g) BY <1>1, <2>3 DEF Pipe
  <2> DEFINE L == Len(Pipe(h))
  <2>6. Pipe(h)' = batch[h] \o Append(queue[h], job) BY <1>0, <1>1, <2>3 DEF Pipe
  <2>7. Grown(Pipe(h)', Pipe(h), job) /\ Pipe(h)' \in Seq(Row)
    BY <2>2, <2>6, AppendedFacts DEF Pipe
  <2>8. /\ L \in Nat /\ DOMAIN Pipe(h) = 1 .. L /\ DOMAIN Pipe(h)' = 1 .. L + 1
        /\ Pipe(h)'[L + 1] = job /\ \A i \in 1 .. L : Pipe(h)'[i] = Pipe(h)[i]
    BY <2>2, <2>7 DEF Grown
  <2> HIDE DEF L
  <2>9. \A i \in 1 .. L + 1 : i \in 1 .. L \/ i = L + 1 BY <2>8
  <2>10. ASSUME NEW u \in Streamed, NEW r \in Log(u)' PROVE r \in Log(u) \/ (r = job /\ u = s)
    <3>1. r.of = u /\ r.n > 0 BY <2>10 DEF Log
    <3>2. CASE r \in store BY <3>1, <3>2, LogHolds
    <3>3. CASE r \notin store
      <4>1. PICK g \in Shards : r \in ToSet(Pipe(g)') BY <1>1, <2>10, <3>3 DEF Log, ToSet
      <4>2. CASE g # h BY <2>5, <3>1, <4>1, <4>2, LogHolds DEF ToSet
      <4>3. CASE g = h
        <5>1. PICK i \in 1 .. L + 1 : r = Pipe(h)'[i] BY <2>8, <4>1, <4>3 DEF ToSet
        <5>2. CASE i = L + 1 BY <2>8, <3>1, <5>1, <5>2
        <5>3. CASE i \in 1 .. L
          <6>1. r = Pipe(h)[i] /\ i \in DOMAIN Pipe(h) BY <2>8, <5>1, <5>3
          <6> QED BY <1>0, <3>1, <6>1, LogHolds
        <5> QED BY <2>9, <5>2, <5>3
      <4> QED BY <4>2, <4>3
    <3> QED BY <3>2, <3>3
  <2>11. /\ \A q \in store : q.of = s /\ q.n = job.n => job.n = 0
         /\ \A i \in 1 .. L : ~(Pipe(h)[i].of = s /\ Pipe(h)[i].n = job.n /\ job.n > 0)
    <3>1. job.n \in Nat BY DEF Row
    <3>2. \A r \in Log(s) : ~(r.n = job.n /\ job.n > 0) BY <3>1
    <3>3. \A q \in store : q.of = s /\ q.n = job.n /\ job.n > 0 => FALSE BY <3>2, LogHolds
    <3>4. \A i \in 1 .. L : Pipe(h)[i].of = s /\ Pipe(h)[i].n = job.n /\ job.n > 0 => FALSE
      BY <1>0, <2>8, <3>2, LogHolds
    <3> QED BY <3>1, <3>3, <3>4
  <2>12. ASSUME NEW g \in Shards, NEW i \in DOMAIN Pipe(g)'
         PROVE  LET r == Pipe(g)'[i] IN
                /\ ShardOf[r.of] = g
                /\ \A q \in store : q.of = r.of /\ q.n = r.n => r.n = 0
                /\ \A j \in DOMAIN Pipe(g)' :
                     Pipe(g)'[j].of = r.of /\ Pipe(g)'[j].n = r.n /\ r.n > 0 => i = j
    <3>1. CASE g # h BY <2>5, <3>1 DEF PipeInv
    <3>2. CASE g = h /\ i = L + 1
      <4>1. Pipe(g)'[i] = job /\ ShardOf[job.of] = g BY <2>8, <3>2 DEF h
      <4>2. ASSUME NEW j \in DOMAIN Pipe(g)', Pipe(g)'[j].of = s, Pipe(g)'[j].n = job.n, job.n > 0
            PROVE  i = j
        <5>1. CASE j \in 1 .. L BY <2>8, <2>11, <3>2, <4>2, <5>1
        <5> QED BY <2>8, <2>9, <3>2, <5>1
      <4> QED BY <2>11, <4>1, <4>2
    <3>3. CASE g = h /\ i \in 1 .. L
      <4> DEFINE r == Pipe(h)[i]
      <4>1. Pipe(g)'[i] = r /\ i \in DOMAIN Pipe(h) BY <2>8, <3>3
      <4>2. /\ ShardOf[r.of] = h
            /\ \A q \in store : q.of = r.of /\ q.n = r.n => r.n = 0
            /\ \A j \in DOMAIN Pipe(h) : Pipe(h)[j].of = r.of /\ Pipe(h)[j].n = r.n /\ r.n > 0 => i = j
        BY <1>0, <4>1 DEF PipeInv
      <4>3. ASSUME NEW j \in DOMAIN Pipe(g)', Pipe(g)'[j].of = r.of, Pipe(g)'[j].n = r.n, r.n > 0
            PROVE  i = j
        <5>1. CASE j \in 1 .. L BY <2>8, <3>3, <4>2, <4>3, <5>1
        <5>2. CASE j = L + 1 BY <2>8, <2>11, <3>3, <4>3, <5>2
        <5> QED BY <2>8, <2>9, <3>3, <5>1, <5>2
      <4> QED BY <3>3, <4>1, <4>2, <4>3
    <3> QED BY <2>8, <2>9, <3>1, <3>2, <3>3
  <2>13. PipeInv' BY <1>1, <2>12 DEF PipeInv, SameNumber
  <2> QED BY <2>4, <2>10, <2>13
<1>3. CASE ~(Len(queue[h]) < QueueCap)
  <2>1. full' = TRUE /\ queue' = queue BY <1>3 DEF EnqueuePersist
  <2>2. RowTypes' BY <1>1, <2>1 DEF RelayTypeOK, RowTypes
  <2>3. \A g \in Shards : Pipe(g)' = Pipe(g) BY <1>1, <2>1 DEF Pipe
  <2> QED BY <1>1, <2>2, <2>3, PipeKeeps
<1> QED BY <1>2, <1>3

LEMMA PublishedKeeps ==
  ASSUME IInv, NEW s \in Streamed, NEW t \in Threads, Published(s, t)
  PROVE  IInv'
<1> DEFINE p == pub[s][t]
           job == [of |-> s, seq |-> p.seq, n |-> p.n]
<1>0. RelayTypeOK /\ "ingest" \in Threads BY DEF IInv, Threads
<1>1. /\ p.pc = "send" /\ p.to = {} /\ pub' = [pub EXCEPT ![s][t] = Idle]
      /\ request' = [request EXCEPT ![s] = @ \ {t}]
      /\ UNCHANGED <<connVars, wire, breaks, high, reused, subs, active, elsewhere, client>>
  BY DEF Published
<1>2. p \in PubState /\ Idle \in PubState /\ pub \in [Streamed -> [Threads -> PubState]]
  BY <1>0 DEF RelayTypeOK, Idle, PubState
<1>3. /\ pub' \in [Streamed -> [Threads -> PubState]] /\ pub'[s][t] = Idle
      /\ \A u \in Streamed, x \in Threads : u # s \/ x # t => pub'[u][x] = pub[u][x]
  BY <1>1, <1>2
<1>4. job \in Row /\ job.of = s /\ job.n = p.n /\ job.seq = p.seq BY <1>2 DEF PubState, Row
<1>5. /\ p.kind = "data" => t = "ingest" /\ p.n > 0 /\ p.n = Read(s)
      /\ p.kind # "data" => p.n = 0
  BY DEF IInv, PubInv
<1> HIDE DEF job
<1>6. ASSUME p.kind \in {"data", "end"}, EnqueuePersist(s, job)
      PROVE  /\ PipeInv' /\ RowTypes'
             /\ \A u \in Streamed : \A r \in Log(u)' : r \in Log(u) \/ (r = job /\ u = s)
  <2>1. \A r \in Log(s) : job.n > 0 => r.n < job.n
    <3>1. CASE p.kind = "data" BY <1>4, <1>5, <3>1 DEF IInv, RowInv
    <3>2. CASE p.kind # "data" BY <1>4, <1>5, <3>2
    <3> QED BY <3>1, <3>2
  <2> QED BY <1>0, <1>4, <1>6, <2>1, Enqueued DEF IInv
<1>7. \/ p.kind = "data" /\ EnqueuePersist(s, job) /\ UNCHANGED <<counter, ingest, idleTimer>>
      \/ p.kind = "status" /\ ResetSessionTimer(s) /\ UNCHANGED <<workerVars, counter, ingest>>
      \/ /\ p.kind = "end" /\ EnqueuePersist(s, job) /\ CleanupSequence(s)
         /\ ingest' = (IF t = "ingest" THEN [ingest EXCEPT ![s] = "done"] ELSE ingest)
         /\ UNCHANGED idleTimer
  BY DEF Published, job
<1>8. PipeInv' /\ RowTypes' /\ \A u \in Streamed : \A r \in Log(u)' : r \in Log(u) \/ (r = job /\ u = s)
  <2>1. CASE p.kind \in {"data", "end"} /\ EnqueuePersist(s, job) BY <1>6, <2>1
  <2>2. CASE UNCHANGED workerVars
    <3>1. \A h \in Shards : Pipe(h)' = Pipe(h) BY <2>2 DEF Pipe, workerVars
    <3>2. PipeInv' /\ \A u \in Streamed : Log(u)' = Log(u)
      BY <2>2, <3>1, PipeKeeps DEF IInv, workerVars
    <3>3. RowTypes' BY <1>0, <2>2 DEF RelayTypeOK, RowTypes, workerVars
    <3> QED BY <3>2, <3>3
  <2> QED BY <1>7, <2>1, <2>2
<1>9. /\ idleTimer' \in [Streamed -> [inMap : BOOLEAN, armed : BOOLEAN]]
      /\ ingest' \in [Streamed -> {"none", "reading", "ending", "done"}]
      /\ counter' \in [Streamed -> Nat]
  <2>1. /\ idleTimer \in [Streamed -> [inMap : BOOLEAN, armed : BOOLEAN]]
        /\ ingest \in [Streamed -> {"none", "reading", "ending", "done"}]
        /\ counter \in [Streamed -> Nat]
    BY <1>0 DEF RelayTypeOK, HubTypes
  <2>2. idleTimer' = idleTimer \/ idleTimer' = [idleTimer EXCEPT ![s] = [inMap |-> TRUE, armed |-> TRUE]]
    BY <1>7 DEF ResetSessionTimer
  <2>3. ingest' = ingest \/ ingest' = [ingest EXCEPT ![s] = "done"] BY <1>7
  <2>4. counter' = counter \/ counter' = [counter EXCEPT ![s] = 0] BY <1>7 DEF CleanupSequence
  <2>5. idleTimer' \in [Streamed -> [inMap : BOOLEAN, armed : BOOLEAN]]
    <3>1. [inMap |-> TRUE, armed |-> TRUE] \in [inMap : BOOLEAN, armed : BOOLEAN] OBVIOUS
    <3>2. CASE idleTimer' = idleTimer BY <2>1, <3>2
    <3>3. CASE idleTimer' = [idleTimer EXCEPT ![s] = [inMap |-> TRUE, armed |-> TRUE]]
      BY <2>1, <3>1, <3>3
    <3> QED BY <2>2, <3>2, <3>3
  <2> QED BY <2>1, <2>3, <2>4, <2>5
<1>10. RelayTypeOK'
  <2>1. request' \in [Streamed -> SUBSET {"status", "end"}] BY <1>0, <1>1 DEF RelayTypeOK, ConnTypes
  <2>2. ConnTypes' BY <1>0, <1>1, <2>1 DEF RelayTypeOK, ConnTypes, connVars
  <2>3. HubTypes' BY <1>0, <1>1, <1>9 DEF RelayTypeOK, HubTypes
  <2> QED BY <1>0, <1>1, <1>3, <1>8, <1>9, <2>2, <2>3 DEF RelayTypeOK
<1>11. WireInv' /\ (\A u \in Streamed : Read(u)' = Read(u)) /\ Onward
  BY <1>0, <1>1, WireSame, OnwardSame DEF IInv, connVars, NumbersSame
<1>12. PubInv'
  <2> SUFFICES ASSUME NEW u \in Streamed, NEW x \in Threads
               PROVE  LET y == pub'[u][x] IN
                      /\ y.kind = "data" => x = "ingest" /\ y.pc = "send" /\ y.n > 0 /\ y.n = Read(u)'
                      /\ y.mark \subseteq y.to
                      /\ (y.pc = "send" => y.kind # "none") /\ (y.kind # "data" => y.n = 0)
                      /\ \A c \in y.mark : client'[c].drops
                      /\ \A c \in y.to : client'[c].of = u /\ client'[c].pc \in Subscribed
    BY DEF PubInv, Subscribed
  <2>1. CASE u = s /\ x = t BY <1>3, <2>1 DEF Idle
  <2>2. CASE u # s \/ x # t
    <3>1. pub'[u][x] = pub[u][x] BY <1>3, <2>2
    <3> DEFINE y == pub[u][x]
    <3>2. /\ y.kind = "data" => x = "ingest" /\ y.pc = "send" /\ y.n > 0 /\ y.n = Read(u)
          /\ y.mark \subseteq y.to
          /\ (y.pc = "send" => y.kind # "none") /\ (y.kind # "data" => y.n = 0)
          /\ \A c \in y.mark : client[c].drops
          /\ \A c \in y.to : client[c].of = u /\ client[c].pc \in Subscribed
      BY DEF IInv, PubInv, Subscribed
    <3>3. client' = client /\ Read(u)' = Read(u) BY <1>1, <1>11
    <3> QED BY <3>1, <3>2, <3>3
  <2> QED BY <2>1, <2>2
<1>13. CountInv' /\ StageInv' BY <1>1, CountKeeps, StageKeeps DEF IInv
<1>14. \A u \in Streamed : u # s \/ t # "ingest" => pub'[u]["ingest"] = pub[u]["ingest"]
  BY <1>0, <1>3
<1>15. t = "ingest" => pub'[s]["ingest"].kind = "none" BY <1>3 DEF Idle
<1>16. ViewsInv'
  <2>1. ASSUME NEW u \in Streamed PROVE Sending(u)' = Sending(u)
    <3>1. CASE u # s \/ t # "ingest" BY <1>14, <3>1 DEF Sending
    <3>2. CASE u = s /\ t = "ingest"
      <4>1. Sending(s) = {} BY <1>1, <3>2 DEF Sending
      <4>2. Sending(s)' = {} BY <1>15, <3>2 DEF Sending
      <4> QED BY <3>2, <4>1, <4>2
    <3> QED BY <3>1, <3>2
  <2>2. \A u \in Streamed : Sending(u) # {} => pub'[u]["ingest"].n = pub[u]["ingest"].n
    BY <1>1, <1>14 DEF Sending
  <2> QED BY <1>0, <1>1, <1>11, <2>1, <2>2, ViewsKeep DEF IInv
<1>17. RowInv'
  <2> SUFFICES ASSUME NEW u \in Streamed
               PROVE  LET y == pub'[u]["ingest"] IN
                      /\ y.kind = "data" => y.seq <= high'[u]
                      /\ \A r \in Log(u)' :
                           /\ r.n <= Read(u)' /\ r.seq <= high'[u]
                           /\ y.kind = "data" => r.n < y.n
                           /\ y.kind = "data" /\ ~reused'[u] => r.seq < y.seq
                           /\ \A q \in Log(u)' : r.n < q.n /\ ~reused'[u] => r.seq < q.seq
    BY DEF RowInv
  <2> DEFINE y == pub[u]["ingest"]
  <2>1. /\ y.kind = "data" => y.seq <= high[u]
        /\ \A r \in Log(u) :
             /\ r.n <= Read(u) /\ r.seq <= high[u]
             /\ y.kind = "data" => r.n < y.n
             /\ y.kind = "data" /\ ~reused[u] => r.seq < y.seq
             /\ \A q \in Log(u) : r.n < q.n /\ ~reused[u] => r.seq < q.seq
    BY DEF IInv, RowInv
  <2>2. high' = high /\ reused' = reused /\ Read(u)' = Read(u) BY <1>1, <1>11
  <2>3. \A r \in Log(u)' : r \in Log(u) \/ (r = job /\ u = s /\ r.n > 0)
    <3>1. \A r \in Log(u)' : r.n > 0 BY DEF Log
    <3> QED BY <1>8, <3>1
  <2>4. CASE \A r \in Log(u)' : r \in Log(u)
    <3>1. pub'[u]["ingest"].kind = "data" => pub'[u]["ingest"] = y BY <1>14, <1>15
    <3> QED BY <2>1, <2>2, <2>4, <3>1
  <2>5. CASE ~(\A r \in Log(u)' : r \in Log(u))
    <3>1. u = s /\ job.n > 0 BY <2>3, <2>5
    <3>2. p.kind = "data" /\ t = "ingest" /\ job.n = Read(s) BY <1>4, <1>5, <3>1
    <3>3. p = y BY <3>1, <3>2
    <3>4. ASSUME NEW r \in Log(u)
          PROVE  r.n <= Read(u) /\ r.seq <= high[u] /\ r.n < job.n /\ (~reused[u] => r.seq < job.seq)
                 /\ r.n \in Nat /\ r.seq \in Nat
      BY <1>0, <1>4, <2>1, <3>2, <3>3, LogTypes
    <3>5. job.n <= Read(u) /\ job.seq <= high[u] /\ job.n \in Nat
      <4>1. Read(s) \in Nat BY <1>0, ReadTypes DEF IInv
      <4> QED BY <1>4, <2>1, <3>1, <3>2, <3>3, <4>1
    <3>6. pub'[u]["ingest"].kind # "data" BY <1>15, <3>1, <3>2
    <3>7. ASSUME NEW r \in Log(u)', NEW q \in Log(u)', r.n < q.n, ~reused[u]
          PROVE  r.seq < q.seq
      <4>1. CASE r \in Log(u) /\ q \in Log(u) BY <2>1, <3>7, <4>1
      <4>2. CASE r \in Log(u) /\ q = job BY <3>4, <3>7, <4>2
      <4>3. CASE r = job /\ q \in Log(u)
        <5>1. q.n < job.n /\ q.n \in Nat BY <3>4, <4>3
        <5> QED BY <3>5, <3>7, <4>3, <5>1
      <4>4. CASE r = job /\ q = job BY <3>5, <3>7, <4>4
      <4> QED BY <2>3, <4>1, <4>2, <4>3, <4>4
    <3>8. \A r \in Log(u)' : r.n <= Read(u)' /\ r.seq <= high'[u] BY <2>2, <2>3, <3>4, <3>5
    <3> QED BY <2>2, <3>6, <3>7, <3>8
  <2> QED BY <2>4, <2>5
<1> QED BY <1>8, <1>10, <1>11, <1>12, <1>13, <1>16, <1>17 DEF IInv

LEMMA PublishingKeeps ==
  ASSUME IInv, NEW s \in Streamed, NEW t \in Threads, Publishing(s, t)
  PROVE  IInv'
BY SendKeeps, SendDropMarkerKeeps, PublishedKeeps DEF Publishing

-----------------------------------------------------------------------------
(* The viewers.                                                             *)

(* A step of viewer c.                                                      *)
Alone(c) ==
  /\ UNCHANGED <<connVars, wire, request, breaks, counter, high, reused, elsewhere, ingest, pub,
                 idleTimer, workerVars>>
  /\ \A d \in Clients : d # c => client'[d] = client[d]
  /\ \A u \in Streamed : \A d \in Clients : d # c => (d \in subs'[u] <=> d \in subs[u])
  /\ client[c].pc \in Subscribed => client'[c].pc \in Subscribed /\ client'[c].of = client[c].of
  /\ client[c].drops => client'[c].drops

LEMMA AloneRead ==
  ASSUME IInv, NEW c \in Clients, Alone(c)
  PROVE  WireInv' /\ (\A u \in Streamed : Read(u)' = Read(u) /\ Read(u) \in Nat) /\ Onward
BY WireSame, OnwardSame, ReadTypes DEF IInv, Alone, connVars, NumbersSame

LEMMA AloneKeeps ==
  ASSUME IInv, NEW c \in Clients, Alone(c), RelayTypeOK', Stage(client'[c]), View(c)', CountInv'
  PROVE  IInv'
<1> USE DEF Alone
<1>0. RelayTypeOK BY DEF IInv
<1>1. WireInv' /\ (\A u \in Streamed : Read(u)' = Read(u)) /\ Onward BY AloneRead
<1>2. PubInv'
  <2>1. \A d \in Clients :
          /\ client[d].pc \in Subscribed =>
               client'[d].pc \in Subscribed /\ client'[d].of = client[d].of
          /\ client[d].drops => client'[d].drops
    OBVIOUS
  <2> QED BY <1>0, <1>1, <2>1, PubKeeps DEF IInv
<1>3. \A h \in Shards : Pipe(h)' = Pipe(h) BY DEF Pipe, workerVars
<1>4. PipeInv' /\ \A u \in Streamed : Log(u)' = Log(u) BY <1>3, PipeKeeps DEF IInv, workerVars
<1>5. NothingNew BY DEF NothingNew
<1>6. RowInv' BY <1>0, <1>1, <1>4, <1>5, RowKeeps DEF IInv, RelayTypeOK
<1>7. StageInv'
  <2>1. \A d \in Clients : d # c => Stage(client'[d]) BY DEF IInv, StageInv
  <2> QED BY <2>1 DEF StageInv
<1>8. ASSUME NEW d \in Clients, d # c PROVE View(d)'
  <2>1. View(d) BY DEF IInv, ViewsInv
  <2>2. client'[d] = client[d] BY <1>8
  <2>3. Stream(d)' = Stream(d) BY <2>2 DEF Stream
  <2>4. Alike(Stream(d)', Stream(d)) BY <2>3, AlikeItself
  <2>5. \A u \in Streamed : Sending(u)' = Sending(u) BY DEF Sending
  <2>6. \A u \in Streamed : d \in subs'[u] <=> d \in subs[u] BY <1>8
  <2> QED BY <1>0, <1>1, <2>1, <2>2, <2>4, <2>5, <2>6, ViewStep
<1>9. ViewsInv' BY <1>8 DEF ViewsInv
<1> QED BY <1>1, <1>2, <1>4, <1>6, <1>7, <1>9 DEF IInv

LEMMA AloneTypes ==
  ASSUME RelayTypeOK, NEW c \in Clients, Alone(c), client' \in [Clients -> ViewerState],
         subs' \in [Streamed -> SUBSET Clients], active' \in Nat
  PROVE  RelayTypeOK'
BY DEF RelayTypeOK, ConnTypes, HubTypes, RowTypes, connVars, workerVars, Alone

LEMMA SendingSubscribed ==
  ASSUME IInv, NEW s \in Streamed, NEW c \in Sending(s)
  PROVE  client[c].of = s /\ client[c].pc \in Subscribed /\ pub[s]["ingest"].n > 0
<1>1. "ingest" \in Threads BY DEF Threads
<1>2. c \in pub[s]["ingest"].to /\ pub[s]["ingest"].kind = "data" BY DEF Sending
<1> QED BY <1>1, <1>2 DEF IInv, PubInv, Subscribed

(* Of a viewer that has left nothing remains.                               *)
LEMMA GoneView ==
  ASSUME IInv, NEW c \in Clients, Alone(c), CountInv', client'[c].done, client'[c].from = 0,
         client'[c].got = <<>>, client'[c].buf = <<>>, client'[c].of = client[c].of
  PROVE  View(c)'
<1> DEFINE r == Stream(c)'
<1>1. r = <<>>
  <2>1. <<>> \o <<>> = <<>> OBVIOUS
  <2> QED BY <2>1 DEF Stream
<1>2. Places(r) = {} /\ Lives(r) = {}
  <2>1. DOMAIN <<>> = {} OBVIOUS
  <2> QED BY <1>1, <2>1 DEF Places, Lives
<1>3. Numbers(r, Places(r)) = {} BY <1>2 DEF Numbers
<1>4. Single(r) /\ Rising(r, Places(r)) /\ Rising(r, Lives(r)) BY <1>2 DEF Single, Rising
<1>5. \A u \in Streamed : c \notin subs'[u] BY DEF CountInv, ConnectionsCounted
<1>6. \A u \in Streamed : Read(u)' \in Nat BY AloneRead
<1>7. \A u \in Streamed : Sending(u)' = Sending(u) /\ pub' = pub BY DEF Alone, Sending
<1>8. \A u \in Streamed : c \in Sending(u) => 0 < pub[u]["ingest"].n
  <2> SUFFICES ASSUME NEW u \in Streamed, c \in Sending(u) PROVE 0 < pub[u]["ingest"].n OBVIOUS
  <2>1. pub[u]["ingest"].n > 0 BY SendingSubscribed
  <2>2. pub[u]["ingest"].n \in Nat BY DEF IInv, RelayTypeOK, PubState, Threads
  <2> QED BY <2>1, <2>2
<1>9. \A u \in Streamed : 0 <= Read(u)' BY <1>6
<1> HIDE DEF r
<1> QED BY <1>3, <1>4, <1>5, <1>7, <1>8, <1>9 DEF View, r

(* Whether a viewer counts.                                                 *)
Counts(v, u) == v.pc \in {"live", "leaving"} /\ v.of = u /\ ~v.done

LEMMA CountMeans ==
  ASSUME CountInv
  PROVE  \A u \in Streamed : \A d : d \in subs[u] <=> d \in Clients /\ Counts(client[d], u)
<1> TAKE u \in Streamed
<1>1. subs[u] = {d \in Clients : client[d].pc \in {"live", "leaving"} /\ client[d].of = u /\ ~client[d].done}
  BY DEF CountInv, ConnectionsCounted
<1> QED BY <1>1 DEF Counts

LEMMA CountSame ==
  ASSUME CountInv, UNCHANGED <<subs, active, elsewhere>>,
         \A u \in Streamed : \A d \in Clients : Counts(client'[d], u) <=> Counts(client[d], u)
  PROVE  CountInv'
<1>1. Subscribers' = Subscribers BY DEF Subscribers
<1>2. \A u \in Streamed : \A d : d \in subs'[u] <=> d \in Clients /\ Counts(client'[d], u) BY CountMeans
<1>3. \A u \in Streamed :
        subs'[u] = {d \in Clients : client'[d].pc \in {"live", "leaving"} /\ client'[d].of = u /\ ~client'[d].done}
  BY <1>2 DEF Counts
<1> QED BY <1>1, <1>3 DEF CountInv, ConnectionsCounted

LEMMA CountJoins ==
  ASSUME RelayTypeOK, CountInv, NEW c \in Clients, NEW s \in Streamed, elsewhere' = elsewhere,
         active < MaxConns, active' = active + 1, subs' = [subs EXCEPT ![s] = @ \cup {c}],
         \A u \in Streamed : ~Counts(client[c], u) /\ (Counts(client'[c], u) <=> u = s),
         \A d \in Clients : d # c => client'[d] = client[d]
  PROVE  CountInv'
<1>1. subs \in [Streamed -> SUBSET Clients] BY DEF RelayTypeOK, HubTypes
<1>2. subs'[s] = subs[s] \cup {c} /\ \A u \in Streamed : u # s => subs'[u] = subs[u] BY <1>1
<1>3. \A u \in Streamed : c \notin subs[u] BY CountMeans
<1>4. Subscribers' = Subscribers \cup {c} BY <1>2 DEF Subscribers
<1>5. c \notin Subscribers BY <1>3 DEF Subscribers
<1>6. IsFiniteSet(Subscribers) BY DEF CountInv
<1>7. IsFiniteSet(Subscribers') /\ Cardinality(Subscribers') = Cardinality(Subscribers) + 1
      /\ Cardinality(Subscribers) \in Nat
  BY <1>4, <1>5, <1>6, FS_AddElement, FS_CardinalityType
<1>8. active = elsewhere + Cardinality(Subscribers) /\ elsewhere \in Nat /\ MaxConns \in Nat
  BY RelayAssumption DEF CountInv, ConnectionsCounted, Subscribers, RelayTypeOK, HubTypes
<1>9. active' = elsewhere' + Cardinality(Subscribers') /\ active' <= MaxConns BY <1>7, <1>8
<1>10. ASSUME NEW u \in Streamed, NEW d PROVE d \in subs'[u] <=> d \in Clients /\ Counts(client'[d], u)
  <2>1. CASE d = c BY <1>2, <1>3, <2>1
  <2>2. CASE d # c
    <3>1. d \in subs'[u] <=> d \in subs[u] BY <1>2, <2>2
    <3> QED BY <2>2, <3>1, CountMeans
  <2> QED BY <2>1, <2>2
<1>11. \A u \in Streamed :
         subs'[u] = {d \in Clients : client'[d].pc \in {"live", "leaving"} /\ client'[d].of = u /\ ~client'[d].done}
  BY <1>10 DEF Counts
<1> QED BY <1>7, <1>9, <1>11 DEF CountInv, ConnectionsCounted, Subscribers

LEMMA CountLeaves ==
  ASSUME RelayTypeOK, CountInv, NEW c \in Clients, NEW s \in Streamed, elsewhere' = elsewhere,
         active' = active - 1, subs' = [subs EXCEPT ![s] = @ \ {c}], c \in subs[s],
         \A u \in Streamed : ~Counts(client'[c], u),
         \A d \in Clients : d # c => client'[d] = client[d]
  PROVE  CountInv' /\ active' \in Nat
<1>1. subs \in [Streamed -> SUBSET Clients] BY DEF RelayTypeOK, HubTypes
<1>2. subs'[s] = subs[s] \ {c} /\ \A u \in Streamed : u # s => subs'[u] = subs[u] BY <1>1
<1>3. \A u \in Streamed : c \in subs[u] => u = s BY CountMeans DEF Counts
<1>4. Subscribers' = Subscribers \ {c} BY <1>2, <1>3 DEF Subscribers
<1>5. c \in Subscribers BY DEF Subscribers
<1>6. IsFiniteSet(Subscribers) BY DEF CountInv
<1>7. IsFiniteSet(Subscribers') /\ Cardinality(Subscribers') = Cardinality(Subscribers) - 1
  BY <1>4, <1>5, <1>6, FS_RemoveElement
<1>a. Cardinality(Subscribers') \in Nat BY <1>7, FS_CardinalityType
<1>b. Cardinality(Subscribers) \in Nat BY <1>6, FS_CardinalityType
<1>8. active = elsewhere + Cardinality(Subscribers) /\ elsewhere \in Nat /\ MaxConns \in Nat
      /\ active <= MaxConns
  BY RelayAssumption DEF CountInv, ConnectionsCounted, Subscribers, RelayTypeOK, HubTypes
<1>9. active' = elsewhere' + Cardinality(Subscribers') /\ active' <= MaxConns /\ active' \in Nat
  BY <1>7, <1>8, <1>a, <1>b
<1>10. ASSUME NEW u \in Streamed, NEW d PROVE d \in subs'[u] <=> d \in Clients /\ Counts(client'[d], u)
  <2>1. CASE d = c BY <1>2, <1>3, <2>1
  <2>2. CASE d # c
    <3>1. d \in subs'[u] <=> d \in subs[u] BY <1>2, <2>2
    <3> QED BY <2>2, <3>1, CountMeans
  <2> QED BY <2>1, <2>2
<1>11. \A u \in Streamed :
         subs'[u] = {d \in Clients : client'[d].pc \in {"live", "leaving"} /\ client'[d].of = u /\ ~client'[d].done}
  BY <1>10 DEF Counts
<1> QED BY <1>7, <1>9, <1>11 DEF CountInv, ConnectionsCounted, Subscribers

LEMMA ArrivedView ==
  ASSUME IInv, NEW c \in Clients, NEW s \in Streamed, NEW after \in Nat, Alone(c), UNCHANGED subs,
         client[c].pc = "away", client'[c].of = s, client'[c].got = History(s, after),
         client'[c].buf = <<>>, client'[c].from = 0
  PROVE  View(c)'
<1> DEFINE r == Stream(c)'
           h == History(s, after)
<1>0. RelayTypeOK /\ PipeInv BY DEF IInv
<1>1. h \in Seq(Chunk) /\ FromRows(h, s) BY <1>0, HistoryFacts
<1> HIDE DEF h
<1>2. PICK f \in [DOMAIN h -> store] :
        /\ \A i \in DOMAIN h : f[i].of = s /\ h[i] = [kind |-> "data", n |-> f[i].n, live |-> FALSE]
        /\ \A i, j \in DOMAIN h : i < j => f[i].seq < f[j].seq
  BY <1>1 DEF FromRows
<1>3. r = h
  <2>1. r = h \o <<>> BY DEF Stream, h
  <2>2. h \o <<>> = h BY <1>1
  <2> QED BY <2>1, <2>2
<1> HIDE DEF r
<1>4. \A i \in DOMAIN h : /\ i \in Nat /\ f[i] \in store /\ f[i] \in Row /\ f[i].n \in Nat /\ f[i].seq \in Nat
                          /\ h[i].n = f[i].n
  BY <1>0, <1>1, <1>2 DEF RelayTypeOK, RowTypes, Row
<1>5. \A i \in Places(h) : i \in DOMAIN h /\ f[i].n > 0 /\ f[i] \in Log(s)
  BY <1>2, <1>4, LogHolds DEF Places, IsOutput
<1>6. \A i, j \in DOMAIN h : f[i].seq = f[j].seq => i = j
  <2> SUFFICES ASSUME NEW i \in DOMAIN h, NEW j \in DOMAIN h, f[i].seq = f[j].seq PROVE i = j OBVIOUS
  <2>1. f[i].seq \in Nat /\ i \in Nat /\ j \in Nat BY <1>4
  <2>2. ~(f[i].seq < f[j].seq) /\ ~(f[j].seq < f[i].seq) BY <2>1
  <2>3. ~(i < j) /\ ~(j < i) BY <1>2, <2>2
  <2> QED BY <2>1, <2>3
<1>7. \A i, j \in Places(h) : h[i].n = h[j].n => i = j
  <2> SUFFICES ASSUME NEW i \in Places(h), NEW j \in Places(h), h[i].n = h[j].n PROVE i = j OBVIOUS
  <2>1. i \in DOMAIN h /\ j \in DOMAIN h /\ f[i].n > 0 BY <1>5
  <2>2. f[i] \in store /\ f[j] \in store /\ f[i].of = f[j].of /\ f[i].n = f[j].n BY <1>2, <1>4, <2>1
  <2>3. f[i] = f[j] BY <1>0, <2>1, <2>2 DEF PipeInv
  <2> QED BY <1>6, <2>1, <2>3
<1>8. Single(r) BY <1>3, <1>7 DEF Single
<1>9. \A u \in Streamed : Read(u)' = Read(u) /\ Read(u) \in Nat BY AloneRead
<1>10. \A x \in Numbers(r, Places(r)) : x <= Read(s)'
  <2> TAKE x \in Numbers(r, Places(r))
  <2>1. PICK i \in Places(h) : x = h[i].n BY <1>3 DEF Numbers
  <2>2. i \in DOMAIN h /\ f[i] \in Log(s) BY <1>5
  <2>3. f[i].n <= Read(s) /\ x = f[i].n BY <1>4, <2>1, <2>2 DEF IInv, RowInv
  <2> QED BY <1>9, <2>3
<1>11. ~reused'[s] => Rising(r, Places(r))
  <2> SUFFICES ASSUME ~reused[s], NEW i \in Places(h), NEW j \in Places(h), i < j
               PROVE  h[i].n < h[j].n
    BY <1>3 DEF Rising, Alone
  <2>1. i \in DOMAIN h /\ j \in DOMAIN h /\ f[i] \in Log(s) /\ f[j] \in Log(s) BY <1>5
  <2>2. f[i].seq < f[j].seq /\ f[i].seq \in Nat /\ f[j].seq \in Nat BY <1>2, <1>4, <2>1
  <2>3. f[j].n < f[i].n => f[j].seq < f[i].seq BY <2>1 DEF IInv, RowInv
  <2>4. ~(f[j].n < f[i].n) BY <2>2, <2>3
  <2>5. i \in Nat /\ j \in Nat /\ h[i].n # h[j].n
    <3>1. i \in Nat /\ j \in Nat BY <1>4, <2>1
    <3>2. i # j BY <3>1
    <3> QED BY <1>7, <3>1, <3>2
  <2> QED BY <1>4, <2>1, <2>4, <2>5
<1>12. c \notin subs'[s]
  <2>1. c \notin subs[s] BY CountMeans DEF IInv, Counts
  <2> QED BY <2>1
<1>13. c \notin Sending(s)'
  <2>1. c \notin Sending(s) BY SendingSubscribed DEF Subscribed
  <2> QED BY <2>1 DEF Sending, Alone
<1>14. 0 <= Read(s)' BY <1>9
<1> QED BY <1>8, <1>10, <1>11, <1>12, <1>13, <1>14 DEF View, r

LEMMA ArriveKeeps ==
  ASSUME IInv, NEW c \in Clients, NEW s \in Streamed, NEW after \in {0, counter[s]}, Arrive(c, s, after)
  PROVE  IInv'
<1> DEFINE v == client[c]
           h == History(s, after)
<1>0. RelayTypeOK /\ PipeInv /\ client \in [Clients -> ViewerState] /\ v \in ViewerState
  BY DEF IInv, RelayTypeOK
<1>1. after \in Nat BY <1>0 DEF RelayTypeOK, HubTypes
<1>2. h \in Seq(Chunk) /\ \A i \in DOMAIN h : ~h[i].live
  <2>1. h \in Seq(Chunk) /\ FromRows(h, s) BY <1>0, <1>1, HistoryFacts
  <2> HIDE DEF h
  <2>2. PICK f \in [DOMAIN h -> store] :
          \A i \in DOMAIN h : f[i].of = s /\ h[i] = [kind |-> "data", n |-> f[i].n, live |-> FALSE]
    BY <2>1 DEF FromRows
  <2> QED BY <2>1, <2>2
<1>3. client' = [client EXCEPT ![c].pc = "subscribe", ![c].of = s, ![c].got = h] /\ v.pc = "away"
  BY DEF Arrive
<1>4. UNCHANGED <<connVars, wire, request, breaks, hubVars, ingest, pub, idleTimer, workerVars>>
  BY DEF Arrive
<1> HIDE DEF h
<1>5. /\ client' \in [Clients -> ViewerState]
      /\ client'[c].pc = "subscribe" /\ client'[c].of = s /\ client'[c].got = h
      /\ client'[c].buf = v.buf /\ client'[c].from = v.from /\ client'[c].drops = v.drops
      /\ client'[c].done = v.done
      /\ \A d \in Clients : d # c => client'[d] = client[d]
  BY <1>0, <1>2, <1>3 DEF ViewerState
<1>6. v.buf = <<>> /\ v.from = 0 /\ ~v.done BY <1>3 DEF IInv, StageInv, Stage
<1>7. Alone(c) BY <1>3, <1>4, <1>5 DEF Alone, Subscribed, hubVars
<1>8. RelayTypeOK' BY <1>0, <1>4, <1>5, <1>7, AloneTypes DEF RelayTypeOK, HubTypes, hubVars
<1>9. Stage(client'[c]) BY <1>2, <1>5, <1>6 DEF Stage
<1>10. View(c)' BY <1>1, <1>3, <1>4, <1>5, <1>6, <1>7, ArrivedView DEF h, hubVars
<1>11. CountInv'
  <2>1. \A u \in Streamed : \A d \in Clients : Counts(client'[d], u) <=> Counts(client[d], u)
    BY <1>3, <1>5 DEF Counts
  <2> QED BY <1>4, <2>1, CountSame DEF IInv, hubVars
<1> QED BY <1>7, <1>8, <1>9, <1>10, <1>11, AloneKeeps

LEMMA GoneFields ==
  ASSUME RelayTypeOK, NEW c \in Clients
  PROVE  LET g == Gone(c) IN
         /\ g \in ViewerState /\ g.pc = "closed" /\ g.done /\ g.from = 0 /\ g.buf = <<>> /\ g.got = <<>>
         /\ g.of = client[c].of /\ g.drops = client[c].drops
<1>1. client[c] \in ViewerState BY DEF RelayTypeOK
<1>2. <<>> \in Seq(Chunk) OBVIOUS
<1> QED BY <1>1, <1>2 DEF Gone, ViewerState

(* A viewer's handler returns.                                              *)
LEMMA GoneKeeps ==
  ASSUME IInv, NEW c \in Clients, client' = [client EXCEPT ![c] = Gone(c)],
         client[c].of \in Streamed,
         subs' \in [Streamed -> SUBSET Clients], active' \in Nat,
         \A u \in Streamed : \A d \in Clients : d # c => (d \in subs'[u] <=> d \in subs[u]),
         UNCHANGED <<connVars, wire, request, breaks, counter, high, reused, elsewhere,
                     ingest, pub, idleTimer, workerVars>>,
         CountInv'
  PROVE  IInv'
<1>0. RelayTypeOK BY DEF IInv
<1>1. LET g == Gone(c) IN
      /\ g \in ViewerState /\ g.pc = "closed" /\ g.done /\ g.from = 0 /\ g.buf = <<>> /\ g.got = <<>>
      /\ g.of = client[c].of /\ g.drops = client[c].drops
  BY <1>0, GoneFields
<1>2. /\ client' \in [Clients -> ViewerState] /\ client'[c] = Gone(c)
      /\ \A d \in Clients : d # c => client'[d] = client[d]
  BY <1>0, <1>1, ClientBecomes
<1>3. Alone(c) BY <1>1, <1>2 DEF Alone, Subscribed
<1>4. RelayTypeOK' BY <1>0, <1>2, <1>3, AloneTypes
<1>5. Stage(client'[c]) BY <1>1, <1>2 DEF Stage
<1>6. View(c)' BY <1>1, <1>2, <1>3, GoneView
<1> QED BY <1>3, <1>4, <1>5, <1>6, AloneKeeps

LEMMA SubscribedView ==
  ASSUME IInv, NEW c \in Clients, NEW s \in Streamed, Alone(c), client[c].pc = "subscribe",
         client[c].of = s, client'[c].of = s, client'[c].got = client[c].got,
         client'[c].buf = client[c].buf, client'[c].from = Read(s)
  PROVE  View(c)'
<1> DEFINE q == Stream(c)
<1>1. Stream(c)' = q BY DEF Stream
<1>2. View(c) BY DEF IInv, ViewsInv
<1>3. \A u \in Streamed : Read(u)' = Read(u) /\ Read(u) \in Nat BY AloneRead
<1>4. c \notin Sending(s) /\ Sending(s)' = Sending(s)
  BY SendingSubscribed DEF Subscribed, Sending, Alone
<1>5. Lives(q) = {}
  <2>1. /\ \A i \in DOMAIN client[c].got : ~client[c].got[i].live
        /\ client[c].buf = <<>>
    BY DEF IInv, StageInv, Stage
  <2>2. client[c].got \in Seq(Chunk) BY StreamTypes DEF IInv
  <2>3. q = client[c].got BY <2>1, <2>2 DEF Stream
  <2> QED BY <2>1, <2>3 DEF Lives, Places
<1>6. Numbers(q, Lives(q)) = {} /\ Rising(q, Lives(q)) BY <1>5 DEF Numbers, Rising
<1>7. Read(s) + 1 .. Read(s) - 0 = {} BY <1>3
<1>8. Read(s) <= Read(s)' BY <1>3
<1>9. reused' = reused BY DEF Alone
<1>10. /\ Single(q) /\ (\A x \in Numbers(q, Places(q)) : x <= Read(s))
       /\ ~reused[s] => Rising(q, Places(q))
  BY <1>2 DEF View
<1> HIDE DEF q
<1>11. Numbers(q, Lives(q)) = client'[c].from + 1 .. Read(s)' - (IF c \in Sending(s)' THEN 1 ELSE 0)
  BY <1>3, <1>4, <1>6, <1>7
<1> QED BY <1>1, <1>3, <1>4, <1>6, <1>8, <1>9, <1>10, <1>11 DEF View

LEMMA SubscribeKeeps ==
  ASSUME IInv, NEW c \in Clients, Subscribe(c)
  PROVE  IInv'
<1> DEFINE v == client[c]
           s == v.of
<1>0. RelayTypeOK /\ v \in ViewerState /\ CountInv /\ client \in [Clients -> ViewerState]
  BY DEF IInv, RelayTypeOK
<1>1. v.pc = "subscribe" BY DEF Subscribe
<1>2. s \in Streamed BY <1>1 DEF IInv, StageInv, Stage
<1>3. UNCHANGED <<connVars, wire, request, breaks, counter, high, reused, elsewhere,
                  ingest, pub, idleTimer, workerVars>>
  BY DEF Subscribe
<1>4. subs \in [Streamed -> SUBSET Clients] /\ active \in Nat BY <1>0 DEF RelayTypeOK, HubTypes
<1>5. CASE /\ active < MaxConns /\ active' = active + 1
           /\ subs' = [subs EXCEPT ![s] = @ \cup {c}]
           /\ client' = [client EXCEPT ![c].pc = "live", ![c].from = Read(s)]
  <2>1. Read(s) \in Nat BY <1>0, <1>2, ReadTypes DEF IInv
  <2>2. /\ client' \in [Clients -> ViewerState]
        /\ client'[c].pc = "live" /\ client'[c].of = v.of /\ client'[c].got = v.got
        /\ client'[c].buf = v.buf /\ client'[c].from = Read(s) /\ client'[c].drops = v.drops
        /\ client'[c].done = v.done
        /\ \A d \in Clients : d # c => client'[d] = client[d]
    <3> HIDE DEF s
    <3> QED BY <1>0, <1>5, <2>1 DEF ViewerState
  <2>3. /\ subs' \in [Streamed -> SUBSET Clients] /\ active' \in Nat
        /\ \A u \in Streamed : \A d \in Clients : d # c => (d \in subs'[u] <=> d \in subs[u])
    BY <1>2, <1>4, <1>5
  <2>4. Alone(c) BY <1>1, <1>3, <2>2, <2>3 DEF Alone, Subscribed
  <2>5. RelayTypeOK' BY <1>0, <2>2, <2>3, <2>4, AloneTypes
  <2>6. Stage(client'[c]) BY <1>2, <2>2 DEF Stage
  <2>7. View(c)' BY <1>1, <1>2, <2>2, <2>4, SubscribedView
  <2>8. ~v.done BY <1>1 DEF IInv, StageInv, Stage
  <2>9. \A u \in Streamed : ~Counts(client[c], u) /\ (Counts(client'[c], u) <=> u = s)
    BY <1>1, <2>2, <2>8 DEF Counts
  <2>10. CountInv' BY <1>0, <1>2, <1>3, <1>5, <2>2, <2>9, CountJoins
  <2> QED BY <2>4, <2>5, <2>6, <2>7, <2>10, AloneKeeps
<1>6. CASE client' = [client EXCEPT ![c] = Gone(c)] /\ UNCHANGED <<subs, active>>
  <2>1. /\ client'[c] = Gone(c) /\ Gone(c).pc = "closed"
        /\ \A d \in Clients : d # c => client'[d] = client[d]
    BY <1>0, <1>6, GoneFields
  <2>2. \A u \in Streamed : \A d \in Clients : Counts(client'[d], u) <=> Counts(client[d], u)
    BY <1>1, <2>1 DEF Counts
  <2>3. CountInv' BY <1>0, <1>3, <1>6, <2>2, CountSame
  <2> QED BY <1>2, <1>3, <1>4, <1>6, <2>3, GoneKeeps
<1> QED BY <1>5, <1>6 DEF Subscribe

(* The loop of handleWebSocket.                                             *)
LEMMA DeliveredFields ==
  ASSUME RelayTypeOK, NEW c \in Clients, Deliver(c)
  PROVE  LET v == client[c]
             w == client'[c] IN
         /\ client' \in [Clients -> ViewerState]
         /\ \A d \in Clients : d # c => client'[d] = client[d]
         /\ w.pc \in {"live", "leaving"} /\ w.of = v.of /\ w.from = v.from /\ w.drops = v.drops
         /\ w.done = v.done /\ Stream(c)' \in Seq(Chunk) /\ Thinned(Stream(c)', Stream(c))
<1> DEFINE v == client[c]
           m == Head(v.buf)
           a == IF IsOutput(m) THEN Append(v.got, m) ELSE v.got
           w == client'[c]
<1>1. v \in ViewerState /\ v.got \in Seq(Chunk) /\ v.buf \in Seq(Chunk) /\ client \in [Clients -> ViewerState]
  BY StreamTypes DEF RelayTypeOK
<1>2. v.pc = "live" /\ v.buf # <<>> BY DEF Deliver
<1>3. /\ m \in Chunk /\ Tail(v.buf) \in Seq(Chunk) /\ a \in Seq(Chunk)
      /\ Thinned(a \o Tail(v.buf), v.got \o v.buf)
  BY <1>1, <1>2, MovedFacts
<1>4. \E pc \in {"live", "leaving"} :
        client' = [client EXCEPT ![c] = [v EXCEPT !.buf = Tail(v.buf), !.got = a, !.pc = pc]]
  <2>1. CASE m.kind = "end"
    <3>1. client' = [client EXCEPT ![c] = [v EXCEPT !.buf = Tail(v.buf), !.got = a, !.pc = "leaving"]]
      BY <1>1, <2>1 DEF Deliver
    <3> QED BY <3>1
  <2>2. CASE m.kind # "end"
    <3>1. client' = [client EXCEPT ![c] = [v EXCEPT !.buf = Tail(v.buf), !.got = a]]
      BY <1>1, <2>2 DEF Deliver
    <3>2. [v EXCEPT !.buf = Tail(v.buf), !.got = a] = [v EXCEPT !.buf = Tail(v.buf), !.got = a, !.pc = "live"]
      BY <1>1, <1>2 DEF ViewerState
    <3> QED BY <3>1, <3>2
  <2> QED BY <2>1, <2>2
<1> HIDE DEF a
<1>a. PICK pc \in {"live", "leaving"} :
        client' = [client EXCEPT ![c] = [v EXCEPT !.buf = Tail(v.buf), !.got = a, !.pc = pc]]
  BY <1>4
<1> DEFINE x == [v EXCEPT !.buf = Tail(v.buf), !.got = a, !.pc = pc]
<1>b. /\ x \in ViewerState /\ x.pc = pc /\ x.of = v.of /\ x.from = v.from /\ x.drops = v.drops
      /\ x.done = v.done /\ x.buf = Tail(v.buf) /\ x.got = a
  BY <1>1, <1>3 DEF ViewerState
<1>c. client' = [client EXCEPT ![c] = x] BY <1>a
<1> HIDE DEF x
<1>5. /\ client' \in [Clients -> ViewerState] /\ w = x
      /\ \A d \in Clients : d # c => client'[d] = client[d]
  BY <1>b, <1>c, ClientBecomes
<1>6. /\ w.pc \in {"live", "leaving"} /\ w.of = v.of /\ w.from = v.from /\ w.drops = v.drops
      /\ w.done = v.done /\ w.buf = Tail(v.buf) /\ w.got = a
  BY <1>5, <1>b
<1>7. Stream(c)' = a \o Tail(v.buf) /\ Stream(c) = v.got \o v.buf BY <1>6 DEF Stream
<1>8. a \o Tail(v.buf) \in Seq(Chunk) BY <1>3
<1> QED BY <1>3, <1>5, <1>6, <1>7, <1>8

LEMMA DeliverKeeps ==
  ASSUME IInv, NEW c \in Clients, Deliver(c)
  PROVE  IInv'
<1> DEFINE v == client[c]
           w == client'[c]
<1>0. RelayTypeOK /\ v.pc = "live" /\ CountInv BY DEF IInv, Deliver
<1>1. /\ client' \in [Clients -> ViewerState]
      /\ \A d \in Clients : d # c => client'[d] = client[d]
      /\ w.pc \in {"live", "leaving"} /\ w.of = v.of /\ w.from = v.from /\ w.drops = v.drops
      /\ w.done = v.done /\ Stream(c)' \in Seq(Chunk) /\ Thinned(Stream(c)', Stream(c))
  BY <1>0, DeliveredFields
<1>2. UNCHANGED <<connVars, wire, request, breaks, hubVars, ingest, pub, idleTimer, workerVars>>
  BY DEF Deliver
<1>3. Alone(c) BY <1>1, <1>2 DEF Alone, Subscribed, hubVars
<1>4. RelayTypeOK' BY <1>0, <1>1, <1>2, <1>3, AloneTypes DEF RelayTypeOK, HubTypes, hubVars
<1>5. Stage(w)
  <2>1. v.of \in Streamed BY <1>0 DEF IInv, StageInv, Stage
  <2> QED BY <1>1, <2>1 DEF Stage
<1>6. Alike(Stream(c)', Stream(c))
  <2>1. Stream(c) \in Seq(Chunk) BY <1>0, StreamTypes
  <2> QED BY <1>1, <2>1, ThinnedFacts DEF Alike
<1>7. View(c)'
  <2>1. View(c) BY DEF IInv, ViewsInv
  <2>2. Onward /\ \A u \in Streamed : Read(u)' = Read(u) BY <1>3, AloneRead
  <2>3. \A u \in Streamed : Sending(u)' = Sending(u) BY <1>2 DEF Sending
  <2> QED BY <1>0, <1>1, <1>2, <1>6, <2>1, <2>2, <2>3, ViewStep DEF hubVars
<1>8. CountInv'
  <2>1. \A u \in Streamed : \A d \in Clients : Counts(client'[d], u) <=> Counts(client[d], u)
    BY <1>0, <1>1 DEF Counts
  <2> QED BY <1>0, <1>2, <2>1, CountSame DEF hubVars
<1> QED BY <1>3, <1>4, <1>5, <1>7, <1>8, AloneKeeps

(* cleanup of a viewer that is subscribed.                                  *)
LEMMA UnsubscribeFacts ==
  ASSUME IInv, NEW c \in Clients, client[c].pc \in {"live", "leaving"}, ~client[c].done, Unsubscribe(c)
  PROVE  LET s == client[c].of IN
         /\ s \in Streamed /\ c \in subs[s] /\ active' = active - 1
         /\ subs' = [subs EXCEPT ![s] = @ \ {c}] /\ subs' \in [Streamed -> SUBSET Clients]
         /\ \A u \in Streamed : \A d \in Clients : d # c => (d \in subs'[u] <=> d \in subs[u])
<1> DEFINE s == client[c].of
<1>1. s \in Streamed BY DEF IInv, StageInv, Stage
<1>2. c \in subs[s] BY <1>1, CountMeans DEF IInv, Counts
<1>3. subs \in [Streamed -> SUBSET Clients] BY DEF IInv, RelayTypeOK, HubTypes
<1>4. active' = active - 1 /\ subs' = [subs EXCEPT ![s] = @ \ {c}] BY <1>2 DEF Unsubscribe
<1> HIDE DEF s
<1>5. /\ subs' \in [Streamed -> SUBSET Clients]
      /\ \A u \in Streamed : \A d \in Clients : d # c => (d \in subs'[u] <=> d \in subs[u])
  BY <1>1, <1>3, <1>4
<1> QED BY <1>1, <1>2, <1>4, <1>5 DEF s

LEMMA ViewerGoesKeeps ==
  ASSUME IInv, NEW c \in Clients, ViewerGoes(c)
  PROVE  IInv'
<1> DEFINE v == client[c]
           s == v.of
           w == client'[c]
<1>0. RelayTypeOK /\ CountInv /\ v.pc = "live" /\ ~v.done /\ v \in ViewerState
      /\ client \in [Clients -> ViewerState]
  BY DEF IInv, ViewerGoes, RelayTypeOK
<1>1. /\ s \in Streamed /\ c \in subs[s] /\ active' = active - 1
      /\ subs' = [subs EXCEPT ![s] = @ \ {c}] /\ subs' \in [Streamed -> SUBSET Clients]
      /\ \A u \in Streamed : \A d \in Clients : d # c => (d \in subs'[u] <=> d \in subs[u])
  BY <1>0, UnsubscribeFacts DEF ViewerGoes
<1>2. UNCHANGED <<connVars, wire, request, breaks, counter, high, reused, elsewhere,
                  ingest, pub, idleTimer, workerVars>>
  BY DEF ViewerGoes
<1>3. /\ client' \in [Clients -> ViewerState]
      /\ \A d \in Clients : d # c => client'[d] = client[d]
      /\ w.pc = "live" /\ w.of = s /\ w.from = v.from /\ w.drops = v.drops
      /\ w.done /\ w.got = v.got /\ w.buf = v.buf
  <2>1. client' = [client EXCEPT ![c].done = TRUE] BY DEF ViewerGoes
  <2> QED BY <1>0, <2>1 DEF ViewerState
<1>4. Alone(c) BY <1>1, <1>2, <1>3 DEF Alone, Subscribed
<1>5. CountInv' /\ active' \in Nat
  <2>1. \A u \in Streamed : ~Counts(client'[c], u) BY <1>3 DEF Counts
  <2> QED BY <1>0, <1>1, <1>2, <1>3, <2>1, CountLeaves
<1>6. RelayTypeOK' BY <1>0, <1>1, <1>3, <1>4, <1>5, AloneTypes
<1>7. Stage(w) BY <1>1, <1>3 DEF Stage
<1>8. View(c)'
  <2>1. View(c) BY DEF IInv, ViewsInv
  <2>2. Onward /\ \A u \in Streamed : Read(u)' = Read(u) BY <1>4, AloneRead
  <2>3. \A u \in Streamed : Sending(u)' = Sending(u) BY <1>2 DEF Sending
  <2>4. Stream(c)' = Stream(c) BY <1>3 DEF Stream
  <2>5. Alike(Stream(c)', Stream(c)) BY <2>4, AlikeItself
  <2>6. c \notin subs'[s] BY <1>1, <1>3, <1>5, CountMeans DEF CountInv, ConnectionsCounted
  <2> QED BY <1>0, <1>2, <1>3, <2>1, <2>2, <2>3, <2>5, <2>6, ViewStep
<1> QED BY <1>4, <1>5, <1>6, <1>7, <1>8, AloneKeeps

LEMMA LeaveKeeps ==
  ASSUME IInv, NEW c \in Clients, Leave(c)
  PROVE  IInv'
<1> DEFINE v == client[c]
           s == v.of
<1>0. RelayTypeOK /\ CountInv /\ v.pc \in {"live", "leaving"} BY DEF IInv, Leave
<1>1. UNCHANGED <<connVars, wire, request, breaks, counter, high, reused, elsewhere,
                  ingest, pub, idleTimer, workerVars>>
  BY DEF Leave
<1>2. client' = [client EXCEPT ![c] = Gone(c)] BY DEF Leave
<1>3. Gone(c) \in ViewerState /\ Gone(c).pc = "closed" BY <1>0, GoneFields
<1>4. client'[c] = Gone(c) /\ \A d \in Clients : d # c => client'[d] = client[d]
  BY <1>0, <1>2, <1>3, ClientBecomes
<1>5. \A u \in Streamed : ~Counts(client'[c], u) BY <1>3, <1>4 DEF Counts
<1>6. subs \in [Streamed -> SUBSET Clients] /\ active \in Nat BY <1>0 DEF RelayTypeOK, HubTypes
<1>7. s \in Streamed BY <1>0 DEF IInv, StageInv, Stage
<1>8. CASE v.done
  <2>1. UNCHANGED <<subs, active>> BY <1>8 DEF Leave
  <2>2. \A u \in Streamed : \A d \in Clients : Counts(client'[d], u) <=> Counts(client[d], u)
    BY <1>4, <1>5, <1>8 DEF Counts
  <2>3. CountInv' BY <1>0, <1>1, <2>1, <2>2, CountSame
  <2> QED BY <1>1, <1>2, <1>6, <1>7, <2>1, <2>3, GoneKeeps
<1>9. CASE ~v.done
  <2>1. /\ s \in Streamed /\ c \in subs[s] /\ active' = active - 1
        /\ subs' = [subs EXCEPT ![s] = @ \ {c}] /\ subs' \in [Streamed -> SUBSET Clients]
        /\ \A u \in Streamed : \A d \in Clients : d # c => (d \in subs'[u] <=> d \in subs[u])
    BY <1>0, <1>9, UnsubscribeFacts DEF Leave
  <2>2. CountInv' /\ active' \in Nat BY <1>0, <1>1, <1>4, <1>5, <2>1, CountLeaves
  <2> QED BY <1>1, <1>2, <1>7, <2>1, <2>2, GoneKeeps
<1> QED BY <1>8, <1>9

LEMMA ViewerKeeps ==
  ASSUME IInv, NEW c \in Clients, Viewer(c)
  PROVE  IInv'
BY ArriveKeeps, SubscribeKeeps, DeliverKeeps, ViewerGoesKeeps, LeaveKeeps DEF Viewer

-----------------------------------------------------------------------------
(* Persistence.                                                             *)

LEMMA WorkerKeeps ==
  ASSUME IInv, RelayTypeOK', PipeInv', \A s \in Streamed : Log(s)' \subseteq Log(s),
         UNCHANGED <<connVars, wire, hubVars, client, pub>>, breaks' = 0 => breaks = 0
  PROVE  IInv'
<1> USE DEF connVars, hubVars
<1>1. RelayTypeOK /\ WireInv BY DEF IInv
<1>2. WireInv' /\ (\A s \in Streamed : Read(s)' = Read(s)) /\ Onward
  BY <1>1, WireSame, OnwardSame DEF NumbersSame
<1>3. PubInv' BY <1>1, <1>2, PubKeeps DEF IInv
<1>4. CountInv' /\ StageInv' BY CountKeeps, StageKeeps DEF IInv
<1>5. NothingNew BY DEF NothingNew
<1>6. RowInv' BY <1>1, <1>2, <1>5, RowKeeps DEF IInv, RelayTypeOK
<1>7. \A s \in Streamed : Sending(s)' = Sending(s) BY DEF Sending
<1>8. ViewsInv' BY <1>1, <1>2, <1>7, ViewsKeep DEF IInv
<1> QED BY <1>2, <1>3, <1>4, <1>6, <1>8 DEF IInv

LEMMA WorkerTypes ==
  ASSUME RelayTypeOK, RowTypes', breaks' \in 0 .. MaxBreaks,
         UNCHANGED <<connVars, wire, request, hubVars, client, ingest, pub, idleTimer>>
  PROVE  RelayTypeOK'
BY DEF RelayTypeOK, ConnTypes, HubTypes, connVars, hubVars

(* A row that is collected stays where it is in the pipe.                   *)
LEMMA CollectedRow ==
  ASSUME NEW b \in Seq(Row), NEW q \in Seq(Row), q # <<>>
  PROVE  Append(b, Head(q)) \o Tail(q) = b \o q
<1>1. Head(q) \in Row /\ Tail(q) \in Seq(Row) BY HeadTailProperties
<1>a. <<Head(q)>> \in Seq(Row) BY <1>1
<1>2. PICK x \in Seq(Row) : x = <<Head(q)>> BY <1>a
<1>3. Append(b, Head(q)) = b \o x BY <1>1, <1>2, AppendIsConcat
<1>4. x \o Tail(q) = q BY <1>1, <1>2
<1>5. PICK y \in Seq(Row) : y = Tail(q) BY <1>1
<1>6. (b \o x) \o y = b \o (x \o y) BY ConcatAssociative
<1> QED BY <1>3, <1>4, <1>5, <1>6

LEMMA CollectKeeps ==
  ASSUME IInv, NEW h \in Shards, Collect(h)
  PROVE  IInv'
<1> DEFINE b == batch[h]
           q == queue[h]
<1>0. RelayTypeOK BY DEF IInv
<1>1. b \in Seq(Row) /\ q \in Seq(Row) /\ q # <<>> BY <1>0, PipeTypes DEF Collect
<1>2. queue \in [Shards -> Seq(Row)] /\ batch \in [Shards -> Seq(Row)] /\ full \in BOOLEAN
      /\ store \subseteq Row
  BY <1>0 DEF RelayTypeOK, RowTypes
<1>3. Head(q) \in Row /\ Tail(q) \in Seq(Row) BY <1>1, HeadTailProperties
<1>4. Append(b, Head(q)) \in Seq(Row) BY <1>1, <1>3, AppendProperties
<1>5. /\ queue' = [queue EXCEPT ![h] = Tail(q)] /\ batch' = [batch EXCEPT ![h] = Append(b, Head(q))]
      /\ UNCHANGED <<connVars, wire, request, breaks, hubVars, client, ingest, pub, idleTimer,
                     store, full>>
  BY DEF Collect
<1>6. queue' \in [Shards -> Seq(Row)] /\ batch' \in [Shards -> Seq(Row)]
      /\ queue'[h] = Tail(q) /\ batch'[h] = Append(b, Head(q))
      /\ \A g \in Shards : g # h => queue'[g] = queue[g] /\ batch'[g] = batch[g]
  BY <1>2, <1>3, <1>4, <1>5
<1>7. Append(b, Head(q)) \o Tail(q) = b \o q BY <1>1, CollectedRow
<1> HIDE DEF b, q
<1>8. \A g \in Shards : Pipe(g)' = Pipe(g)
  <2>1. Pipe(h)' = Pipe(h) BY <1>6, <1>7 DEF Pipe, b, q
  <2>2. \A g \in Shards : g # h => Pipe(g)' = Pipe(g) BY <1>6 DEF Pipe
  <2> QED BY <2>1, <2>2
<1>9. PipeInv' /\ \A s \in Streamed : Log(s)' = Log(s) BY <1>5, <1>8, PipeKeeps DEF IInv
<1>10. RowTypes' BY <1>2, <1>5, <1>6 DEF RowTypes
<1>11. RelayTypeOK' BY <1>0, <1>5, <1>10, WorkerTypes DEF RelayTypeOK, ConnTypes
<1> QED BY <1>5, <1>9, <1>11, WorkerKeeps

(* A batch is gone, and of its rows N are stored.                           *)
Taken(h, N) ==
  /\ batch' = [batch EXCEPT ![h] = <<>>] /\ queue' = queue /\ store' = store \cup N
  /\ IsFiniteSet(N)
  /\ \A r \in N : \E i \in DOMAIN batch[h] :
       /\ r = batch[h][i] /\ \A q \in store : ~SameNumber(q, r)
       /\ \A j \in 1 .. (i - 1) : ~SameNumber(batch[h][j], r)

LEMMA PipeSplit ==
  ASSUME RelayTypeOK, NEW h \in Shards
  PROVE  LET b == batch[h]
             q == queue[h] IN
         /\ Len(b) \in Nat /\ Len(q) \in Nat /\ DOMAIN b = 1 .. Len(b) /\ DOMAIN q = 1 .. Len(q)
         /\ DOMAIN Pipe(h) = 1 .. Len(b) + Len(q)
         /\ \A i \in DOMAIN b : i \in DOMAIN Pipe(h) /\ Pipe(h)[i] = b[i]
         /\ \A i \in DOMAIN q : i + Len(b) \in DOMAIN Pipe(h) /\ Pipe(h)[i + Len(b)] = q[i]
<1> DEFINE b == batch[h]
           q == queue[h]
           p == b \o q
           B == Len(b)
           Q == Len(q)
<1>1. b \in Seq(Row) /\ q \in Seq(Row) BY PipeTypes
<1>2. /\ p \in Seq(Row) /\ Len(p) = B + Q
      /\ \A i \in 1 .. B + Q : p[i] = IF i <= B THEN b[i] ELSE q[i - B]
  BY <1>1, ConcatProperties
<1>3. B \in Nat /\ Q \in Nat /\ DOMAIN b = 1 .. B /\ DOMAIN q = 1 .. Q /\ DOMAIN p = 1 .. B + Q
  BY <1>1, <1>2
<1> HIDE DEF b, q, B, Q, p
<1>4. \A i \in 1 .. B : i \in 1 .. B + Q /\ p[i] = b[i] BY <1>2, <1>3
<1>5. \A i \in 1 .. Q : i + B \in 1 .. B + Q /\ p[i + B] = q[i]
  <2> TAKE i \in 1 .. Q
  <2>1. i + B \in 1 .. B + Q BY <1>3
  <2>2. PICK k \in 1 .. B + Q : k = i + B BY <2>1
  <2>3. ~(k <= B) /\ k - B = i BY <1>3, <2>2
  <2>4. p[k] = IF k <= B THEN b[k] ELSE q[k - B] BY <1>2, Zenon
  <2>5. p[k] = q[i] BY <2>3, <2>4, Zenon
  <2> QED BY <2>1, <2>2, <2>5
<1>6. Pipe(h) = p BY DEF Pipe, b, q, p
<1> QED BY <1>3, <1>4, <1>5, <1>6 DEF b, q, B, Q

LEMMA TakenFacts ==
  ASSUME RelayTypeOK, PipeInv, NEW h \in Shards, NEW N, Taken(h, N), full' = full
  PROVE  PipeInv' /\ RowTypes' /\ \A s \in Streamed : Log(s)' \subseteq Log(s)
<1> DEFINE b == batch[h]
           B == Len(b)
<1>1. /\ queue \in [Shards -> Seq(Row)] /\ batch \in [Shards -> Seq(Row)] /\ full \in BOOLEAN
      /\ store \subseteq Row
  BY DEF RelayTypeOK, RowTypes
<1>2. batch' \in [Shards -> Seq(Row)] /\ batch'[h] = <<>> /\ \A g \in Shards : g # h => batch'[g] = batch[g]
  <2>1. <<>> \in Seq(Row) OBVIOUS
  <2> QED BY <1>1, <2>1 DEF Taken
<1>3. queue' = queue /\ store' = store \cup N /\ IsFiniteSet(N) BY DEF Taken
<1>4. \A g \in Shards : g # h => Pipe(g)' = Pipe(g) BY <1>2, <1>3 DEF Pipe
<1>5. Pipe(h)' = queue[h]
  <2>1. Pipe(h)' = <<>> \o queue[h] BY <1>2, <1>3 DEF Pipe
  <2> QED BY <1>1, <2>1, ConcatEmptySeq
<1>6. /\ B \in Nat /\ DOMAIN b \subseteq DOMAIN Pipe(h) /\ DOMAIN b \subseteq Nat
      /\ DOMAIN queue[h] \subseteq Nat
      /\ \A i \in DOMAIN b : Pipe(h)[i] = b[i]
      /\ \A i \in DOMAIN queue[h] : i + B \in DOMAIN Pipe(h) /\ Pipe(h)[i + B] = queue[h][i]
  <2>1. /\ Len(b) \in Nat /\ Len(queue[h]) \in Nat /\ DOMAIN b = 1 .. Len(b)
        /\ DOMAIN queue[h] = 1 .. Len(queue[h])
        /\ \A i \in DOMAIN b : i \in DOMAIN Pipe(h) /\ Pipe(h)[i] = b[i]
        /\ \A i \in DOMAIN queue[h] :
             i + Len(b) \in DOMAIN Pipe(h) /\ Pipe(h)[i + Len(b)] = queue[h][i]
    BY PipeSplit, Zenon
  <2> QED BY <2>1
<1> HIDE DEF B
<1>7. ASSUME NEW r \in N
      PROVE  /\ r \in Row /\ ShardOf[r.of] = h /\ \A q \in store : ~SameNumber(q, r)
             /\ \A q \in store : q.of = r.of /\ q.n = r.n => r.n = 0
             /\ \E i \in DOMAIN b : r = b[i]
  <2>1. PICK i \in DOMAIN b : r = b[i] /\ \A q \in store : ~SameNumber(q, r) BY <1>7 DEF Taken
  <2>2. i \in DOMAIN Pipe(h) /\ Pipe(h)[i] = r BY <1>6, <2>1
  <2>3. r \in Row BY <2>2, PipeTypes
  <2> QED BY <2>1, <2>2, <2>3 DEF PipeInv
<1>8. ASSUME NEW r \in N, NEW q \in N
      PROVE  /\ SameNumber(r, q) => r = q
             /\ r.of = q.of /\ r.n = q.n /\ r.n > 0 => r = q
  <2>1. PICK i \in DOMAIN b : r = b[i] /\ \A j \in 1 .. (i - 1) : ~SameNumber(b[j], r) BY <1>8 DEF Taken
  <2>2. PICK k \in DOMAIN b : q = b[k] /\ \A j \in 1 .. (k - 1) : ~SameNumber(b[j], q) BY <1>8 DEF Taken
  <2>3. i \in Nat /\ k \in Nat /\ i >= 1 /\ k >= 1
    <3>1. DOMAIN b = 1 .. Len(b) /\ Len(b) \in Nat BY PipeSplit
    <3> QED BY <3>1
  <2>4. SameNumber(r, q) => i = k
    <3>1. SameNumber(r, q) => SameNumber(q, r) BY DEF SameNumber
    <3>2. i < k => i \in 1 .. (k - 1) BY <2>3
    <3>3. k < i => k \in 1 .. (i - 1) BY <2>3
    <3>4. SameNumber(r, q) => ~(i < k) /\ ~(k < i) BY <2>1, <2>2, <3>1, <3>2, <3>3
    <3> QED BY <2>3, <3>4
  <2>5. r.of = q.of /\ r.n = q.n /\ r.n > 0 => i = k BY <1>6, <2>1, <2>2 DEF PipeInv
  <2> QED BY <2>1, <2>2, <2>4, <2>5
<1>9. RowTypes' BY <1>1, <1>2, <1>3, <1>7 DEF RowTypes, Taken
<1>10. IsFiniteSet(store') BY <1>3, FS_Union DEF PipeInv
<1>11. ASSUME NEW p \in store', NEW q \in store'
       PROVE  /\ SameNumber(p, q) => p = q
              /\ p.of = q.of /\ p.n = q.n /\ p.n > 0 => p = q
  <2>1. CASE p \in store /\ q \in store BY <2>1 DEF PipeInv
  <2>2. CASE p \in N /\ q \in N BY <1>8, <2>2
  <2>3. CASE p \in store /\ q \in N
    <3>1. p.of = q.of /\ p.n = q.n => q.n = 0 BY <1>7, <2>3
    <3> QED BY <1>7, <2>3, <3>1
  <2>4. CASE p \in N /\ q \in store
    <3>1. q.of = p.of /\ q.n = p.n => p.n = 0 BY <1>7, <2>4
    <3>2. ~SameNumber(p, q) BY <1>7, <2>4 DEF SameNumber
    <3> QED BY <3>1, <3>2
  <2> QED BY <1>3, <2>1, <2>2, <2>3, <2>4
<1>12. ASSUME NEW g \in Shards, NEW i \in DOMAIN Pipe(g)'
       PROVE  LET r == Pipe(g)'[i] IN
              /\ ShardOf[r.of] = g
              /\ \A q \in store' : q.of = r.of /\ q.n = r.n => r.n = 0
              /\ \A j \in DOMAIN Pipe(g)' :
                   Pipe(g)'[j].of = r.of /\ Pipe(g)'[j].n = r.n /\ r.n > 0 => i = j
  <2>1. CASE g # h
    <3> DEFINE r == Pipe(g)[i]
    <3>1. Pipe(g)' = Pipe(g) BY <1>4, <2>1
    <3>2. /\ ShardOf[r.of] = g
          /\ \A q \in store : q.of = r.of /\ q.n = r.n => r.n = 0
          /\ \A j \in DOMAIN Pipe(g) : Pipe(g)[j].of = r.of /\ Pipe(g)[j].n = r.n /\ r.n > 0 => i = j
      BY <3>1 DEF PipeInv
    <3>3. \A q \in N : q.of # r.of BY <1>7, <2>1, <3>2
    <3> QED BY <1>3, <3>1, <3>2, <3>3
  <2>2. CASE g = h
    <3> DEFINE r == queue[h][i]
               k == i + B
    <3>1. i \in DOMAIN queue[h] /\ Pipe(g)'[i] = r BY <1>5, <2>2
    <3>2. k \in DOMAIN Pipe(h) /\ Pipe(h)[k] = r /\ i \in Nat BY <1>6, <3>1
    <3>3. /\ ShardOf[r.of] = h
          /\ \A q \in store : q.of = r.of /\ q.n = r.n => r.n = 0
          /\ \A j \in DOMAIN Pipe(h) : Pipe(h)[j].of = r.of /\ Pipe(h)[j].n = r.n /\ r.n > 0 => k = j
      BY <3>2 DEF PipeInv
    <3>4. ASSUME NEW q \in N, q.of = r.of, q.n = r.n PROVE r.n = 0
      <4>1. PICK j \in DOMAIN b : q = b[j] BY <1>7
      <4>2. j \in DOMAIN Pipe(h) /\ Pipe(h)[j] = q /\ j \in Nat BY <1>6, <4>1
      <4>3. r.n > 0 => k = j BY <3>3, <3>4, <4>2
      <4>4. j <= B /\ i >= 1
        <5>1. DOMAIN b = 1 .. B /\ DOMAIN queue[h] = 1 .. Len(queue[h]) /\ Len(queue[h]) \in Nat
          BY PipeSplit DEF B
        <5> QED BY <1>6, <3>1, <4>1, <5>1
      <4>5. k # j BY <1>6, <3>2, <4>2, <4>4
      <4>6. r.n \in Nat BY <3>2, PipeTypes
      <4> QED BY <4>3, <4>5, <4>6
    <3>5. ASSUME NEW j \in DOMAIN Pipe(g)', Pipe(g)'[j].of = r.of, Pipe(g)'[j].n = r.n, r.n > 0
          PROVE  i = j
      <4>1. j \in DOMAIN queue[h] /\ Pipe(g)'[j] = queue[h][j] BY <1>5, <2>2, <3>5
      <4>2. j + B \in DOMAIN Pipe(h) /\ Pipe(h)[j + B] = queue[h][j] /\ j \in Nat BY <1>6, <4>1
      <4>3. k = j + B BY <3>3, <3>5, <4>1, <4>2
      <4> QED BY <1>6, <3>2, <4>2, <4>3
    <3> HIDE DEF r
    <3> QED BY <1>3, <2>2, <3>1, <3>3, <3>4, <3>5
  <2> QED BY <2>1, <2>2
<1>13. PipeInv' BY <1>10, <1>11, <1>12 DEF PipeInv, SameNumber
<1>14. ASSUME NEW s \in Streamed, NEW r \in Log(s)' PROVE r \in Log(s)
  <2>1. r.of = s /\ r.n > 0 BY <1>14 DEF Log
  <2>2. CASE r \in store BY <2>1, <2>2, LogHolds
  <2>3. CASE r \in N
    <3>1. PICK i \in DOMAIN b : r = b[i] BY <1>7, <2>3
    <3>2. i \in DOMAIN Pipe(h) /\ Pipe(h)[i] = r BY <1>6, <3>1
    <3> QED BY <2>1, <3>2, LogHolds
  <2>4. CASE r \notin store'
    <3>1. PICK g \in Shards : r \in ToSet(Pipe(g)') BY <1>14, <2>4 DEF Log, ToSet
    <3>2. CASE g # h BY <1>4, <2>1, <3>1, <3>2, LogHolds DEF ToSet
    <3>3. CASE g = h
      <4>1. PICK i \in DOMAIN queue[h] : r = queue[h][i] BY <1>5, <3>1, <3>3 DEF ToSet
      <4>2. i + B \in DOMAIN Pipe(h) /\ Pipe(h)[i + B] = r BY <1>6, <4>1
      <4> QED BY <2>1, <4>2, LogHolds
    <3> QED BY <3>2, <3>3
  <2> QED BY <1>3, <2>2, <2>3, <2>4
<1> QED BY <1>9, <1>13, <1>14

LEMMA FlushBatchKeeps ==
  ASSUME IInv, NEW h \in Shards, FlushBatch(h)
  PROVE  IInv'
<1> DEFINE b == batch[h]
<1>0. RelayTypeOK /\ PipeInv BY DEF IInv
<1>1. /\ batch' = [batch EXCEPT ![h] = <<>>]
      /\ UNCHANGED <<connVars, wire, request, hubVars, client, ingest, pub, idleTimer, queue, full>>
  BY DEF FlushBatch
<1>2. breaks' \in 0 .. MaxBreaks /\ (breaks' = 0 => breaks = 0)
  <2>1. breaks \in 0 .. MaxBreaks /\ MaxBreaks \in Nat
    BY <1>0, ConnectionAssumption DEF RelayTypeOK, ConnTypes
  <2>2. breaks' = breaks \/ (breaks < MaxBreaks /\ breaks' = breaks + 1) BY DEF FlushBatch, Break
  <2> QED BY <2>1, <2>2
<1>3. IsFiniteSet(Inserted(b))
  <2> DEFINE I == {i \in DOMAIN b : /\ ~\E r \in store : SameNumber(r, b[i])
                                    /\ ~\E j \in 1 .. (i - 1) : SameNumber(b[j], b[i])}
             f == [i \in I |-> b[i]]
  <2>1. DOMAIN b = 1 .. Len(b) /\ Len(b) \in Nat BY <1>0, PipeSplit
  <2>2. IsFiniteSet(I)
    <3>1. IsFiniteSet(1 .. Len(b)) BY <2>1, FS_Interval
    <3>2. I \in SUBSET (1 .. Len(b)) BY <2>1
    <3> HIDE DEF I
    <3> QED BY <3>1, <3>2, FS_Subset
  <2>3. Inserted(b) = {b[i] : i \in I} BY DEF Inserted
  <2> HIDE DEF I
  <2>4. f \in Surjection(I, Inserted(b)) BY <2>3 DEF Surjection
  <2> QED BY <2>2, <2>4, FS_Surjection
<1>4. \E N : Taken(h, N)
  <2>1. CASE store' = store \cup Inserted(b)
    <3>1. \A r \in Inserted(b) : \E i \in DOMAIN b :
            /\ r = b[i] /\ \A q \in store : ~SameNumber(q, r)
            /\ \A j \in 1 .. (i - 1) : ~SameNumber(b[j], r)
      BY DEF Inserted
    <3> HIDE DEF b
    <3>2. Taken(h, Inserted(b)) BY <1>1, <1>3, <2>1, <3>1 DEF Taken, b
    <3> QED BY <3>2
  <2>2. CASE store' = store
    <3>1. store' = store \cup {} /\ IsFiniteSet({}) BY <2>2, FS_EmptySet
    <3>2. Taken(h, {}) BY <1>1, <3>1 DEF Taken
    <3> QED BY <3>2
  <2> QED BY <2>1, <2>2 DEF FlushBatch
<1>5. PICK N : Taken(h, N) BY <1>4
<1>6. PipeInv' /\ RowTypes' /\ \A s \in Streamed : Log(s)' \subseteq Log(s)
  BY <1>0, <1>1, <1>5, TakenFacts
<1>7. RelayTypeOK' BY <1>0, <1>1, <1>2, <1>6, WorkerTypes
<1> QED BY <1>1, <1>2, <1>6, <1>7, WorkerKeeps

-----------------------------------------------------------------------------
(* The beginning, and a relay that is started again.                        *)

(* Nobody is there and nothing is on its way.                               *)
Silent ==
  /\ pub = [s \in Streamed |-> [t \in Threads |-> Idle]]
  /\ subs = [s \in Streamed |-> {}]
  /\ queue = [h \in Shards |-> <<>>] /\ batch = [h \in Shards |-> <<>>]
  /\ active = elsewhere /\ active \in 0 .. MaxConns
  /\ \A c \in Clients :
       /\ client[c].pc \in {"away", "closed"} /\ Stage(client[c])
       /\ client[c].from = 0 /\ client[c].got = <<>> /\ client[c].buf = <<>>

LEMMA SilentCount ==
  ASSUME Silent
  PROVE  CountInv /\ StageInv
<1> USE DEF Silent
<1>1. \A s \in Streamed : subs[s] = {} OBVIOUS
<1>2. Subscribers = {} BY <1>1 DEF Subscribers
<1>3. IsFiniteSet(Subscribers) /\ Cardinality(Subscribers) = 0 BY <1>2, FS_EmptySet
<1>4. active \in Nat /\ active <= MaxConns BY RelayAssumption
<1>5. active = elsewhere + Cardinality(Subscribers) BY <1>3, <1>4
<1>6. \A s \in Streamed : \A c \in Clients : ~Counts(client[c], s) BY DEF Counts
<1>7. \A s \in Streamed :
        subs[s] = {c \in Clients : client[c].pc \in {"live", "leaving"} /\ client[c].of = s /\ ~client[c].done}
  BY <1>1, <1>6 DEF Counts
<1>8. CountInv BY <1>3, <1>4, <1>5, <1>7 DEF CountInv, ConnectionsCounted, Subscribers
<1>9. StageInv BY DEF StageInv
<1> QED BY <1>8, <1>9

LEMMA SilentPub ==
  ASSUME Silent
  PROVE  /\ PubInv
         /\ \A s \in Streamed : Sending(s) = {} /\ pub[s]["ingest"].kind = "none"
<1>1. \A s \in Streamed, t \in Threads : pub[s][t] = Idle BY DEF Silent
<1>2. /\ Idle.kind = "none" /\ Idle.pc = "idle" /\ Idle.n = 0 /\ Idle.to = {} /\ Idle.mark = {}
  BY DEF Idle
<1>3. PubInv BY <1>1, <1>2 DEF PubInv
<1>4. \A s \in Streamed : pub[s]["ingest"].kind = "none" BY <1>1, <1>2 DEF Threads
<1> QED BY <1>3, <1>4 DEF Sending

LEMMA SilentPipe ==
  ASSUME Silent
  PROVE  \A h \in Shards : Pipe(h) = <<>>
<1>1. \A h \in Shards : queue[h] = <<>> /\ batch[h] = <<>> BY DEF Silent
<1>2. <<>> \o <<>> = <<>> OBVIOUS
<1> QED BY <1>1, <1>2 DEF Pipe

LEMMA SilentViews ==
  ASSUME Silent, \A s \in Streamed : Read(s) \in Nat
  PROVE  ViewsInv
<1> SUFFICES ASSUME NEW c \in Clients PROVE View(c) BY DEF ViewsInv
<1> DEFINE q == Stream(c)
<1>1. q = <<>>
  <2>1. client[c].got = <<>> /\ client[c].buf = <<>> BY DEF Silent
  <2>2. <<>> \o <<>> = <<>> OBVIOUS
  <2> QED BY <2>1, <2>2 DEF Stream
<1>2. Places(q) = {} /\ Lives(q) = {}
  <2>1. DOMAIN <<>> = {} OBVIOUS
  <2> QED BY <1>1, <2>1 DEF Places, Lives
<1>3. Numbers(q, Places(q)) = {} BY <1>2 DEF Numbers
<1>4. Single(q) /\ Rising(q, Places(q)) /\ Rising(q, Lives(q)) BY <1>2 DEF Single, Rising
<1>5. \A u \in Streamed : c \notin subs[u] /\ c \notin Sending(u) BY SilentPub DEF Silent
<1>6. \A u \in Streamed : 0 <= Read(u) OBVIOUS
<1>7. client[c].from = 0 BY DEF Silent
<1> HIDE DEF q
<1> QED BY <1>3, <1>4, <1>5, <1>6, <1>7 DEF View, q

LEMMA InitKeeps ==
  ASSUME RelayInit
  PROVE  IInv
<1> USE DEF RelayInit, ConnInit
<1>0. <<>> \in Seq(Nat) /\ <<>> \in Seq(Seq(Nat)) /\ <<>> \in Seq(Chunk) /\ <<>> \in Seq(Row) OBVIOUS
<1>1. /\ MaxConns \in Nat \ {0} /\ MaxPush \in Nat /\ MaxStatus \in Nat /\ MaxBreaks \in Nat
  BY RelayAssumption, ConnectionAssumption
<1>2. ConnTypes
  <2>1. conn \in [Streamed -> ConnState] BY <1>0, <1>1 DEF ConnState
  <2>2. held \in [Streamed -> SUBSET Seq(Nat)] OBVIOUS
  <2>3. sent \in [Streamed -> Seq(Seq(Nat))] BY <1>0
  <2>4. wire \in [Streamed -> Seq(Nat)] BY <1>0
  <2>5. request \in [Streamed -> SUBSET {"status", "end"}] OBVIOUS
  <2>6. breaks \in 0 .. MaxBreaks BY <1>1
  <2> QED BY <2>1, <2>2, <2>3, <2>4, <2>5, <2>6 DEF ConnTypes
<1>3. HubTypes BY <1>1 DEF HubTypes
<1>4. RowTypes BY <1>0 DEF RowTypes
<1>5. Away \in ViewerState BY <1>0 DEF Away, ViewerState, NoSession
<1>6. Idle \in PubState BY DEF Idle, PubState
<1>7. RelayTypeOK BY <1>2, <1>3, <1>4, <1>5, <1>6 DEF RelayTypeOK
<1>8. Silent
  <2>1. Away.pc = "away" /\ Away.from = 0 /\ Away.got = <<>> /\ Away.buf = <<>> /\ ~Away.done BY DEF Away
  <2>2. Stage(Away) BY <2>1 DEF Stage
  <2>3. active \in 0 .. MaxConns /\ active = elsewhere BY <1>1
  <2> QED BY <2>1, <2>2, <2>3 DEF Silent
<1>9. \A s \in Streamed : wire[s] = <<>> /\ sent[s] = <<>> OBVIOUS
<1>10. \A s \in Streamed : Pending(s) = {} /\ Read(s) = 0 /\ Len(sent[s]) = 0
  <2>1. ToSet(<<>>) = {} BY DEF ToSet
  <2>2. \A s \in Streamed : Pending(s) = {} BY <1>9, <2>1 DEF Pending
  <2>3. Len(<<>>) = 0 OBVIOUS
  <2> QED BY <1>9, <2>2, <2>3 DEF Read
<1>11. WireInv
  <2>1. DOMAIN <<>> = {} /\ 0 + 1 .. 0 = {} /\ 0 \in 0 .. 0 OBVIOUS
  <2> QED BY <1>9, <1>10, <2>1 DEF WireInv
<1>12. \A h \in Shards : Pipe(h) = <<>> BY <1>8, SilentPipe
<1>13. PipeInv /\ \A s \in Streamed : Log(s) = {}
  <2>1. store = {} /\ IsFiniteSet({}) BY FS_EmptySet
  <2>2. DOMAIN <<>> = {} OBVIOUS
  <2>3. PipeInv BY <1>12, <2>1, <2>2 DEF PipeInv
  <2>4. \A h \in Shards : ToSet(Pipe(h)) = {} BY <1>12, <2>2 DEF ToSet
  <2>5. UNION {ToSet(Pipe(h)) : h \in Shards} = {} BY <2>4
  <2> QED BY <2>1, <2>3, <2>5 DEF Log
<1>14. PubInv /\ \A s \in Streamed : pub[s]["ingest"].kind = "none" BY <1>8, SilentPub
<1>15. RowInv BY <1>13, <1>14 DEF RowInv
<1>16. ViewsInv BY <1>8, <1>10, SilentViews
<1>17. CountInv /\ StageInv BY <1>8, SilentCount
<1> QED BY <1>7, <1>11, <1>13, <1>14, <1>15, <1>16, <1>17 DEF IInv

LEMMA SilentLater ==
  Silent' => /\ CountInv' /\ StageInv' /\ PubInv'
             /\ \A s \in Streamed : Sending(s)' = {} /\ pub'[s]["ingest"].kind = "none"
             /\ \A h \in Shards : Pipe(h)' = <<>>
             /\ (\A s \in Streamed : Read(s)' \in Nat) => ViewsInv'
<1> DEFINE P == \A s \in Streamed : Sending(s) = {} /\ pub[s]["ingest"].kind = "none"
           Q == \A h \in Shards : Pipe(h) = <<>>
           R == \A s \in Streamed : Read(s) \in Nat
<1>1. Silent => CountInv /\ StageInv /\ PubInv /\ P /\ Q /\ (R => ViewsInv)
  BY SilentCount, SilentPub, SilentPipe, SilentViews
<1>2. Silent' => CountInv' /\ StageInv' /\ PubInv' /\ P' /\ Q' /\ (R' => ViewsInv')
  <2> HIDE DEF P, Q, R
  <2> QED BY <1>1, PTL
<1> QED BY <1>2

LEMMA RestartKeeps ==
  ASSUME IInv, RelayRestart
  PROVE  IInv'
<1> USE DEF RelayRestart
<1>0. <<>> \in Seq(Nat) /\ <<>> \in Seq(Chunk) /\ <<>> \in Seq(Row) OBVIOUS
<1>1. RelayTypeOK /\ WireInv /\ PipeInv /\ RowInv BY DEF IInv
<1>2. /\ conn \in [Streamed -> ConnState] /\ held \in [Streamed -> SUBSET Seq(Nat)]
      /\ sent \in [Streamed -> Seq(Seq(Nat))] /\ breaks \in 0 .. MaxBreaks /\ MaxBreaks \in Nat
  BY <1>1, ConnectionAssumption DEF RelayTypeOK, ConnTypes
<1>3. breaks' \in 0 .. MaxBreaks /\ breaks' # 0
  <2>1. breaks < MaxBreaks /\ breaks' = breaks + 1 BY DEF Break
  <2> QED BY <1>2, <2>1
<1>4. ConnTypes'
  <2>1. conn' \in [Streamed -> ConnState]
    <3>1. conn' = [s \in Streamed |-> [conn[s] EXCEPT !.ws = IF @ = "up" THEN "down" ELSE @]] OBVIOUS
    <3>2. ASSUME NEW s \in Streamed
          PROVE  [conn[s] EXCEPT !.ws = IF @ = "up" THEN "down" ELSE @] \in ConnState
      <4>1. conn[s] \in ConnState BY <1>2
      <4> QED BY <4>1 DEF ConnState
    <3> QED BY <3>1, <3>2
  <2>2. wire' \in [Streamed -> Seq(Nat)] BY <1>0
  <2>3. request' \in [Streamed -> SUBSET {"status", "end"}] OBVIOUS
  <2>4. held' = held /\ sent' = sent OBVIOUS
  <2> QED BY <1>2, <1>3, <2>1, <2>2, <2>3, <2>4 DEF ConnTypes
<1>5. HubTypes' BY <1>1 DEF RelayTypeOK, HubTypes
<1>6. RowTypes'
  <2>1. queue' \in [Shards -> Seq(Row)] /\ batch' \in [Shards -> Seq(Row)] BY <1>0
  <2>2. store' \subseteq Row /\ full' \in BOOLEAN BY <1>1 DEF RelayTypeOK, RowTypes
  <2> QED BY <2>1, <2>2 DEF RowTypes
<1>7. Away \in ViewerState BY <1>0 DEF Away, ViewerState, NoSession
<1>8. Idle \in PubState BY DEF Idle, PubState
<1>9. ASSUME NEW c \in Clients
      PROVE  LET w == client'[c] IN
             /\ w \in ViewerState /\ w.pc \in {"away", "closed"} /\ Stage(w)
             /\ w.from = 0 /\ w.got = <<>> /\ w.buf = <<>>
  <2>1. CASE client[c].pc = "away"
    <3>1. client'[c] = Away BY <2>1
    <3>2. Away.pc = "away" /\ Away.from = 0 /\ Away.got = <<>> /\ Away.buf = <<>> /\ ~Away.done BY DEF Away
    <3> QED BY <1>7, <3>1, <3>2 DEF Stage
  <2>2. CASE client[c].pc # "away"
    <3>1. client'[c] = Gone(c) BY <2>2
    <3>2. LET g == Gone(c) IN
          /\ g \in ViewerState /\ g.pc = "closed" /\ g.done /\ g.from = 0 /\ g.buf = <<>> /\ g.got = <<>>
          /\ g.of = client[c].of
      BY <1>1, GoneFields
    <3>3. client[c].of \in Streamed BY <2>2 DEF IInv, StageInv, Stage
    <3> QED BY <3>1, <3>2, <3>3 DEF Stage
  <2> QED BY <2>1, <2>2
<1>10. RelayTypeOK'
  <2>1. client' \in [Clients -> ViewerState]
    <3>1. client' = [c \in Clients |-> client'[c]] OBVIOUS
    <3> QED BY <1>9, <3>1
  <2>2. ingest' \in [Streamed -> {"none", "reading", "ending", "done"}] BY <1>1 DEF RelayTypeOK
  <2>3. pub' \in [Streamed -> [Threads -> PubState]] BY <1>8
  <2>4. idleTimer' \in [Streamed -> [inMap : BOOLEAN, armed : BOOLEAN]] OBVIOUS
  <2> QED BY <1>4, <1>5, <1>6, <2>1, <2>2, <2>3, <2>4 DEF RelayTypeOK
<1>11. Silent'
  <2>1. active' = elsewhere' /\ active' \in 0 .. MaxConns BY RelayAssumption
  <2> QED BY <1>9, <2>1 DEF Silent
<1>12. WireInv' /\ \A u \in Streamed : Read(u) <= Read(u)' /\ Read(u)' \in Nat /\ Read(u) \in Nat
  <2>1. \A u \in Streamed : wire'[u] = wire[u] \/ wire'[u] = <<>> OBVIOUS
  <2> QED BY <1>1, <2>1, WireCut
<1>13. /\ CountInv' /\ StageInv' /\ PubInv' /\ ViewsInv'
       /\ \A s \in Streamed : Sending(s)' = {} /\ pub'[s]["ingest"].kind = "none"
       /\ \A h \in Shards : Pipe(h)' = <<>>
  BY <1>11, <1>12, SilentLater
<1>14. store' = store /\ DOMAIN <<>> = {} OBVIOUS
<1>15. PipeInv'
  <2>1. \A h \in Shards : DOMAIN Pipe(h)' = {} BY <1>13, <1>14
  <2> QED BY <1>1, <1>14, <2>1 DEF PipeInv, SameNumber
<1>16. \A s \in Streamed : Log(s)' \subseteq Log(s)
  <2>1. \A h \in Shards : ToSet(Pipe(h)') = {} BY <1>13, <1>14 DEF ToSet
  <2> SUFFICES ASSUME NEW s \in Streamed, NEW r \in Log(s)' PROVE r \in Log(s) OBVIOUS
  <2>2. r \in store /\ r.of = s /\ r.n > 0 BY <1>14, <2>1 DEF Log, ToSet
  <2> QED BY <2>2, LogHolds
<1>17. Onward
  <2>1. \A u \in Streamed : high[u] \in Nat /\ high'[u] = high[u] /\ reused'[u] = reused[u]
    BY <1>1 DEF RelayTypeOK, HubTypes
  <2> QED BY <1>12, <2>1 DEF Onward
<1>18. NothingNew BY <1>13 DEF NothingNew
<1>19. RowInv' BY <1>1, <1>5, <1>16, <1>17, <1>18, RowKeeps
<1> QED BY <1>10, <1>12, <1>13, <1>15, <1>19 DEF IInv

-----------------------------------------------------------------------------
(* Theorems.                                                                *)

LEMMA StutterKeeps ==
  ASSUME IInv, UNCHANGED relayVars
  PROVE  IInv'
<1> USE DEF relayVars, connVars, hubVars, workerVars
<1>1. RelayTypeOK' BY DEF IInv, RelayTypeOK, ConnTypes, HubTypes, RowTypes
<1> QED BY <1>1, OnlyConnection DEF viewVars

LEMMA NextKeeps ==
  ASSUME IInv, [RelayNext]_relayVars
  PROVE  IInv'
BY FeedKeeps, HandlersKeep, PublishingKeeps, ViewerKeeps, CollectKeeps, FlushBatchKeeps,
   RestartKeeps, StutterKeeps DEF RelayNext

LEMMA RelayInductive == RelaySpec => []IInv
<1>1. RelayInit => IInv BY InitKeeps
<1>2. IInv /\ [RelayNext]_relayVars => IInv' BY NextKeeps
<1> QED BY <1>1, <1>2, PTL DEF RelaySpec

(* The connection counter is the number of subscribers, each in the set of  *)
(* its session, and never above the limit, however the two cleanups of a    *)
(* handler, a refusal and a restart interleave; and the types of the state. *)
THEOREM RelayCorrect == RelaySpec => []RelayInv
<1>1. IInv => RelayInv BY ViewMeans DEF RelayInv
<1> QED BY <1>1, RelayInductive, PTL

(* A viewer never gets the same output twice, from the history of           *)
(* streamHistory and from its channel together.                             *)
THEOREM NoDuplicatesCorrect == RelaySpec => []NoDuplicates
<1>1. IInv => NoDuplicates BY ViewMeans
<1> QED BY <1>1, RelayInductive, PTL

(* From its subscription on a viewer has all output that was published, in  *)
(* order, or its drop counter says otherwise; and with the history before   *)
(* it in the order in which the relay received it, while no counter was     *)
(* forgotten and used again.                                                *)
THEOREM ViewCorrect == RelaySpec => []ViewInv
<1>1. IInv => ViewInv BY ViewMeans DEF ViewInv
<1> QED BY <1>1, RelayInductive, PTL
==============================================================================
