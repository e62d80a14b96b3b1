------------------------ MODULE IssuePipeline_proofs ------------------------
(* Proofs about IssuePipeline for any sets of rows and processes and any    *)
(* bounds: a claimed row is executed by one process at a time, so that one  *)
(* pull request is opened for it and recorded, and the semaphore and the    *)
(* counter are the numbers of goroutines that still hold them.              *)
EXTENDS IssuePipeline, FiniteSetTheorems, SequenceTheorems, WellFoundedInduction, TLAPS

Outer == {"none", "wait", "leave", "count", "gone"}
Inner == {"none", "prepare", "execute", "read", "pull", "finish", "gone"}
Jobs == [outer : Outer, inner : Inner, sent : {"none", "nil", "err"},
         own : {"none", "pending", "done", "error"}]

(* The types that the proofs use.                                           *)
Types ==
  /\ status \in [Pipelines -> {"none", "pending", "running", "done", "error"}]
  /\ pr \subseteq Pipelines /\ told \subseteq Pipelines
  /\ queue \in Seq(Pipelines)
  /\ poll \in [Procs -> [pc : {"idle", "claim", "acquire"}, list : Seq(Pipelines)]]
  /\ sem \in [Procs -> Int] /\ running \in [Procs -> Int]
  /\ job \in [Procs -> [Pipelines -> Jobs]]
  /\ service \in [Procs -> {"up", "stopping", "draining", "stopped", "down"}]
  /\ opened \in [Pipelines -> Nat]
  /\ faults \in 0 .. MaxFaults

(* q has claimed p and is about to start its execution.                     *)
Acquires(q, p) == poll[q].pc = "acquire" /\ Head(poll[q].list) = p

Unexecuted(p) == opened[p] = 0 /\ p \notin told /\ \A q \in Procs : job[q][p].outer = "none"

(* The two goroutines of one claim.                                         *)
Pair(q, p) ==
  /\ job[q][p].outer = "none" <=> job[q][p].inner = "none"
  /\ job[q][p].sent # "none" => job[q][p].inner = "gone" /\ job[q][p].outer = "wait"

PairInv == \A q \in Procs, p \in Pipelines : Pair(q, p)

(* A row that is pending, or claimed and not started, was never executed;   *)
(* one process at most is between its claim and its start.                  *)
ClaimInv ==
  \A p \in Pipelines :
    /\ status[p] \in {"none", "pending"} => Unexecuted(p)
    /\ \A q \in Procs : Acquires(q, p) =>
         /\ status[p] = "running" /\ Unexecuted(p)
         /\ \A r \in Procs : Acquires(r, p) => r = q

(* One process executes a row, and opens its pull request as the last step  *)
(* but one.                                                                 *)
Owner(q, p) ==
  /\ job[q][p].inner \in {"prepare", "execute", "read", "pull"} => opened[p] = 0
  /\ job[q][p].inner = "finish" => opened[p] = 1
  /\ job[q][p].inner \notin {"none", "gone"} => p \notin told
  /\ faults = 0 /\ (job[q][p].inner = "gone" \/ job[q][p].outer \in {"leave", "count", "gone"})
       => status[p] \in {"done", "error"}
  /\ faults = 0 /\ job[q][p].inner = "gone" /\ opened[p] > 0 => p \in pr

OwnerInv ==
  \A q \in Procs, p \in Pipelines :
    /\ Owner(q, p)
    /\ \A r \in Procs : job[q][p].outer # "none" /\ job[r][p].outer # "none" => r = q

(* What the row says of its pull request.                                   *)
Record(p) ==
  /\ opened[p] <= 1
  /\ p \in pr => opened[p] = 1 /\ p \notin told
  /\ status[p] = "done" => p \in pr
  /\ p \in told => opened[p] = 0

RecordInv == \A p \in Pipelines : Record(p)

Holding(q) == {p \in Pipelines : job[q][p].outer \in {"wait", "leave"}}
Counted(q) == {p \in Pipelines : job[q][p].outer \in {"wait", "leave", "count"}}

(* The semaphore and the counter count goroutines, and a poll never has     *)
(* more rows in hand than the counter leaves room for.                      *)
SlotInv ==
  \A q \in Procs :
    /\ IsFiniteSet(Counted(q))
    /\ sem[q] = Cardinality(Holding(q))
    /\ running[q] = Cardinality(Counted(q))
    /\ running[q] <= MaxConcurrent
    /\ poll[q].pc # "idle" => /\ poll[q].list # <<>>
                              /\ running[q] + Len(poll[q].list) <= MaxConcurrent

StopInv ==
  \A q \in Procs :
    /\ service[q] \in {"draining", "stopped", "down"} => poll[q].pc = "idle"
    /\ service[q] \in {"stopped", "down"} => running[q] = 0

IInv == Types /\ PairInv /\ ClaimInv /\ OwnerInv /\ RecordInv /\ SlotInv /\ StopInv

-----------------------------------------------------------------------------
(* Steps at one execution                                                   *)

(* What Becomes does, as facts about the two goroutines.                    *)
LEMMA BecomesFacts ==
  ASSUME Types, NEW q \in Procs, NEW p \in Pipelines, NEW new \in Jobs, Becomes(q, p, new)
  PROVE  /\ job' \in [Procs -> [Pipelines -> Jobs]]
         /\ job'[q][p].outer = new.outer /\ job'[q][p].inner = new.inner
         /\ job'[q][p].sent = IF Ended(new) THEN "none" ELSE new.sent
         /\ \A r \in Procs, o \in Pipelines : r # q \/ o # p => job'[r][o] = job[r][o]
<1> DEFINE value == IF Ended(new) THEN [Free EXCEPT !.outer = "gone", !.inner = "gone"] ELSE new
<1>1. value \in Jobs /\ value.outer = new.outer /\ value.inner = new.inner
      /\ value.sent = IF Ended(new) THEN "none" ELSE new.sent
  BY DEF Jobs, Ended, Free, Outer, Inner
<1>2. job' = [job EXCEPT ![q][p] = value] BY DEF Becomes
<1>3. job \in [Procs -> [Pipelines -> Jobs]] BY DEF Types
<1> HIDE DEF value
<1> QED BY <1>1, <1>2, <1>3

(* A step of the execution of p in q changes nothing of other rows, and     *)
(* does not make p pending again.                                           *)
WorkStep(q, p) ==
  /\ Types'
  /\ UNCHANGED <<queue, poll, service>>
  /\ job[q][p].outer # "none" /\ job'[q][p].outer # "none"
  /\ \A r \in Procs, o \in Pipelines : r # q \/ o # p => job'[r][o] = job[r][o]
  /\ \A o \in Pipelines \ {p} : /\ status'[o] = status[o] /\ opened'[o] = opened[o]
                                /\ o \in pr' <=> o \in pr
                                /\ o \in told' <=> o \in told
  /\ status'[p] \in {status[p], "error", "done"}
  /\ faults' = 0 => faults = 0

LocalInv(q, p) == Pair(q, p) /\ Owner(q, p) /\ Record(p)

(* What has to be shown of such a step are the parts of the invariant about *)
(* this execution and the two counters.                                     *)
LEMMA WorkKeeps ==
  ASSUME IInv, NEW q \in Procs, NEW p \in Pipelines, WorkStep(q, p), LocalInv(q, p)'
  PROVE  PairInv' /\ ClaimInv' /\ OwnerInv' /\ RecordInv'
<1> USE DEF IInv, WorkStep
<1>1. \A r \in Procs : r # q => job[r][p].outer = "none" /\ job[r][p].inner = "none"
  BY DEF OwnerInv, PairInv, Pair
<1>2. PairInv' BY DEF PairInv, Pair, LocalInv
<1>3. OwnerInv'
  <2> SUFFICES ASSUME NEW r \in Procs, NEW o \in Pipelines
               PROVE  /\ Owner(r, o)'
                      /\ \A t \in Procs : job'[r][o].outer # "none" /\ job'[t][o].outer # "none"
                                          => t = r
    BY DEF OwnerInv
  <2>1. CASE o # p BY <2>1 DEF OwnerInv, Owner
  <2>2. CASE o = p /\ r = q BY <1>1, <2>2 DEF LocalInv
  <2>3. CASE o = p /\ r # q
    <3>1. job'[r][p].outer = "none" /\ job'[r][p].inner = "none" BY <1>1, <2>3
    <3> QED BY <2>3, <3>1 DEF Owner
  <2> QED BY <2>1, <2>2, <2>3
<1>4. RecordInv' BY DEF RecordInv, Record, LocalInv
<1>5. ClaimInv'
  <2>1. status[p] \notin {"none", "pending"} /\ \A r \in Procs : ~Acquires(r, p)
    BY DEF ClaimInv, Unexecuted
  <2> SUFFICES ASSUME NEW o \in Pipelines
               PROVE  /\ status'[o] \in {"none", "pending"} => Unexecuted(o)'
                      /\ \A r \in Procs : Acquires(r, o)' =>
                           /\ status'[o] = "running" /\ Unexecuted(o)'
                           /\ \A t \in Procs : Acquires(t, o)' => t = r
    BY DEF ClaimInv
  <2>2. CASE o = p BY <2>1, <2>2 DEF Acquires
  <2>3. CASE o # p
    <3>1. Unexecuted(o)' <=> Unexecuted(o) BY <2>3 DEF Unexecuted
    <3> QED BY <2>3, <3>1 DEF ClaimInv, Acquires
  <2> QED BY <2>2, <2>3
<1> QED BY <1>2, <1>3, <1>4, <1>5

(* The counters are right if a step leaves them and the two sets alone.     *)
LEMMA SameSlots ==
  ASSUME IInv, UNCHANGED <<poll, sem, running, service>>,
         \A q \in Procs, p \in Pipelines :
           /\ job'[q][p].outer \in {"wait", "leave"} <=> job[q][p].outer \in {"wait", "leave"}
           /\ job'[q][p].outer = "count" <=> job[q][p].outer = "count"
  PROVE  SlotInv' /\ StopInv'
<1>1. \A q \in Procs : Holding(q)' = Holding(q) /\ Counted(q)' = Counted(q)
  BY DEF Holding, Counted
<1> QED BY <1>1 DEF IInv, SlotInv, StopInv

(* The end of executePipeline.                                              *)
LEMMA ReturnsFacts ==
  ASSUME Types, NEW q \in Procs, NEW p \in Pipelines, NEW result \in {"nil", "err"},
         Returns(q, p, result)
  PROVE  /\ job' \in [Procs -> [Pipelines -> Jobs]]
         /\ job'[q][p].outer = job[q][p].outer /\ job'[q][p].inner = "gone"
         /\ job'[q][p].sent # "none" => job[q][p].outer = "wait"
         /\ \A r \in Procs, o \in Pipelines : r # q \/ o # p => job'[r][o] = job[r][o]
<1> DEFINE new == [Free EXCEPT !.outer = job[q][p].outer, !.inner = "gone",
                               !.sent = IF job[q][p].outer = "wait" THEN result ELSE "none"]
<1>1. job[q][p].outer \in Outer BY DEF Types, Jobs
<1>2. /\ new \in Jobs /\ new.outer = job[q][p].outer /\ new.inner = "gone"
      /\ new.sent = IF job[q][p].outer = "wait" THEN result ELSE "none"
  BY <1>1 DEF Jobs, Inner, Free
<1>3. Becomes(q, p, new) BY DEF Returns
<1> HIDE DEF new
<1> QED BY <1>2, <1>3, BecomesFacts

(* A step of executeWithTimeout.                                            *)
LEMMA LeavesFacts ==
  ASSUME Types, NEW q \in Procs, NEW p \in Pipelines, NEW pc \in Outer, Leaves(q, p, pc)
  PROVE  /\ job' \in [Procs -> [Pipelines -> Jobs]]
         /\ job'[q][p].outer = pc /\ job'[q][p].inner = job[q][p].inner
         /\ job'[q][p].sent = "none"
         /\ \A r \in Procs, o \in Pipelines : r # q \/ o # p => job'[r][o] = job[r][o]
<1> DEFINE new == [job[q][p] EXCEPT !.outer = pc, !.sent = "none"]
<1>1. job[q][p] \in Jobs BY DEF Types
<1>2. new \in Jobs /\ new.outer = pc /\ new.inner = job[q][p].inner /\ new.sent = "none"
  BY <1>1 DEF Jobs
<1>3. Becomes(q, p, new) BY DEF Leaves
<1> HIDE DEF new
<1> QED BY <1>2, <1>3, BecomesFacts

(* executePipeline goes on: only inner, and perhaps own, change.            *)
LEMMA AdvanceFacts ==
  ASSUME Types, NEW q \in Procs, NEW p \in Pipelines, job[q][p].inner # "none",
         NEW pc \in Inner \ {"none", "gone"}, NEW result \in {"none", "pending", "done", "error"},
         Becomes(q, p, [job[q][p] EXCEPT !.inner = pc, !.own = result])
  PROVE  /\ job' \in [Procs -> [Pipelines -> Jobs]]
         /\ job'[q][p].outer = job[q][p].outer /\ job'[q][p].inner = pc
         /\ job'[q][p].sent = job[q][p].sent
         /\ \A r \in Procs, o \in Pipelines : r # q \/ o # p => job'[r][o] = job[r][o]
<1> DEFINE new == [job[q][p] EXCEPT !.inner = pc, !.own = result]
<1>1. job[q][p] \in Jobs BY DEF Types
<1>2. /\ new \in Jobs /\ new.outer = job[q][p].outer /\ new.inner = pc
      /\ new.sent = job[q][p].sent
  BY <1>1 DEF Jobs
<1>3. ~Ended(new) BY <1>2 DEF Ended
<1> HIDE DEF new
<1> QED BY <1>2, <1>3, BecomesFacts DEF new

(* A write of the status error, or its failure.                             *)
LEMMA MarkFacts ==
  ASSUME Types, NEW p \in Pipelines, NEW noBranch \in BOOLEAN, MarkFailure(p, noBranch)
  PROVE  /\ status' \in [Pipelines -> {"none", "pending", "running", "done", "error"}]
         /\ told' \subseteq Pipelines
         /\ UNCHANGED <<pr, queue>>
         /\ faults' \in 0 .. MaxFaults /\ (faults' = 0 => faults = 0 /\ status'[p] = "error")
         /\ \A o \in Pipelines \ {p} : status'[o] = status[o] /\ (o \in told' <=> o \in told)
         /\ status'[p] \in {status[p], "error"}
         /\ p \in told' => p \in told \/ noBranch
<1> USE PipelineAssumption DEF Types
<1>1. CASE UpdateIssuePipelineStatus(p, noBranch) /\ UNCHANGED faults
  BY <1>1 DEF UpdateIssuePipelineStatus
<1>2. CASE UNCHANGED rows /\ Fault BY <1>2 DEF rows, Fault
<1> QED BY <1>1, <1>2 DEF MarkFailure

(* The invariant at an execution that has not ended.                        *)
LEMMA WorkingFacts ==
  ASSUME IInv, NEW q \in Procs, NEW p \in Pipelines, job[q][p].inner \notin {"none", "gone"}
  PROVE  /\ job[q][p].outer # "none" /\ job[q][p].sent = "none" /\ p \notin told
         /\ job[q][p].inner = "finish" => opened[p] = 1
         /\ job[q][p].inner # "finish" => opened[p] = 0 /\ p \notin pr
         /\ opened[p] \in Nat /\ faults \in Nat
<1>1. Pair(q, p) /\ Owner(q, p) /\ Record(p) BY DEF IInv, PairInv, OwnerInv, RecordInv
<1>2. job[q][p].inner \in Inner /\ opened[p] \in Nat /\ faults \in Nat
  BY PipelineAssumption DEF IInv, Types, Jobs
<1> QED BY <1>1, <1>2 DEF Pair, Owner, Record, Inner

-----------------------------------------------------------------------------
(* executePipeline                                                          *)

(* Prepare, Execute and ReadSession move executePipeline on and nothing     *)
(* else.                                                                    *)
LEMMA AdvanceKeeps ==
  ASSUME IInv, NEW q \in Procs, NEW p \in Pipelines,
         job[q][p].inner \in {"prepare", "execute", "read"},
         NEW pc \in {"execute", "read", "pull"},
         NEW result \in {"none", "pending", "done", "error"},
         Becomes(q, p, [job[q][p] EXCEPT !.inner = pc, !.own = result]),
         UNCHANGED <<rows, poll, slots, service, opened, faults>>
  PROVE  IInv'
<1> USE DEF rows, slots
<1>0. Types BY DEF IInv
<1>1. /\ job' \in [Procs -> [Pipelines -> Jobs]]
      /\ job'[q][p].outer = job[q][p].outer /\ job'[q][p].inner = pc
      /\ job'[q][p].sent = job[q][p].sent
      /\ \A r \in Procs, o \in Pipelines : r # q \/ o # p => job'[r][o] = job[r][o]
  BY <1>0, AdvanceFacts DEF Inner
<1>2. Types' BY <1>0, <1>1 DEF Types
<1>3. WorkStep(q, p) BY <1>1, <1>2, WorkingFacts DEF WorkStep
<1>4. LocalInv(q, p)'
  <2>1. Pair(q, p)' BY <1>1, WorkingFacts DEF Pair
  <2>2. Owner(q, p)' BY <1>1, WorkingFacts DEF Owner, IInv, OwnerInv
  <2>3. Record(p)' BY DEF IInv, RecordInv, Record
  <2> QED BY <2>1, <2>2, <2>3 DEF LocalInv
<1>5. SlotInv' /\ StopInv' BY <1>1, SameSlots
<1> QED BY <1>2, <1>3, <1>4, <1>5, WorkKeeps DEF IInv

LEMMA PrepareKeeps ==
  ASSUME IInv, NEW q \in Procs, NEW p \in Pipelines, Prepare(q, p)
  PROVE  IInv'
BY AdvanceKeeps DEF Prepare

LEMMA ExecuteKeeps ==
  ASSUME IInv, NEW q \in Procs, NEW p \in Pipelines, NEW result \in {"done", "error"},
         Execute(q, p, result)
  PROVE  IInv'
<1>1. PICK recorded \in Records :
        Becomes(q, p, [job[q][p] EXCEPT !.inner = "read", !.own = IF recorded THEN result ELSE @])
  BY DEF Execute
<1> DEFINE own == IF recorded THEN result ELSE job[q][p].own
<1>2. own \in {"none", "pending", "done", "error"} BY DEF IInv, Types, Jobs
<1>3. Becomes(q, p, [job[q][p] EXCEPT !.inner = "read", !.own = own]) BY <1>1
<1> HIDE DEF own
<1> QED BY <1>2, <1>3, AdvanceKeeps DEF Execute

LEMMA ReadSessionKeeps ==
  ASSUME IInv, NEW q \in Procs, NEW p \in Pipelines, ReadSession(q, p)
  PROVE  IInv'
<1>1. job[q][p] \in Jobs BY DEF IInv, Types
<1>2. [job[q][p] EXCEPT !.inner = "pull"]
        = [job[q][p] EXCEPT !.inner = "pull", !.own = job[q][p].own]
  BY <1>1 DEF Jobs
<1>3. job[q][p].own \in {"none", "pending", "done", "error"} BY <1>1 DEF Jobs
<1> QED BY <1>2, <1>3, AdvanceKeeps DEF ReadSession

(* executePipeline returns after a failure: the row is marked, or the mark  *)
(* fails.                                                                   *)
LEMMA FailureKeeps ==
  ASSUME IInv, NEW q \in Procs, NEW p \in Pipelines,
         job[q][p].inner \in {"prepare", "execute", "read"},
         NEW noBranch \in BOOLEAN, NEW result \in {"nil", "err"},
         MarkFailure(p, noBranch), Returns(q, p, result),
         UNCHANGED <<poll, slots, service, opened>>
  PROVE  IInv'
<1> USE DEF slots
<1>0. Types BY DEF IInv
<1>1. /\ job' \in [Procs -> [Pipelines -> Jobs]]
      /\ job'[q][p].outer = job[q][p].outer /\ job'[q][p].inner = "gone"
      /\ job'[q][p].sent # "none" => job[q][p].outer = "wait"
      /\ \A r \in Procs, o \in Pipelines : r # q \/ o # p => job'[r][o] = job[r][o]
  BY <1>0, ReturnsFacts
<1>2. /\ status' \in [Pipelines -> {"none", "pending", "running", "done", "error"}]
      /\ told' \subseteq Pipelines
      /\ UNCHANGED <<pr, queue>>
      /\ faults' \in 0 .. MaxFaults /\ (faults' = 0 => faults = 0 /\ status'[p] = "error")
      /\ \A o \in Pipelines \ {p} : status'[o] = status[o] /\ (o \in told' <=> o \in told)
      /\ status'[p] \in {status[p], "error"}
  BY <1>0, MarkFacts
<1>3. opened[p] = 0 /\ p \notin pr /\ job[q][p].outer # "none" BY WorkingFacts
<1>4. Types' BY <1>0, <1>1, <1>2 DEF Types
<1>5. WorkStep(q, p) BY <1>1, <1>2, <1>3, <1>4 DEF WorkStep
<1>6. LocalInv(q, p)'
  <2>1. Pair(q, p)' BY <1>1, <1>3 DEF Pair
  <2>2. Owner(q, p)' BY <1>1, <1>2, <1>3 DEF Owner
  <2>3. Record(p)' BY <1>2, <1>3 DEF IInv, RecordInv, Record
  <2> QED BY <2>1, <2>2, <2>3 DEF LocalInv
<1>7. SlotInv' /\ StopInv' BY <1>1, SameSlots
<1> QED BY <1>4, <1>5, <1>6, <1>7, WorkKeeps DEF IInv

LEMMA ExecuteFailsKeeps ==
  ASSUME IInv, NEW q \in Procs, NEW p \in Pipelines, ExecuteFails(q, p)
  PROVE  IInv'
BY FailureKeeps DEF ExecuteFails, WriteError

LEMMA NoBranchKeeps ==
  ASSUME IInv, NEW q \in Procs, NEW p \in Pipelines, NoBranch(q, p)
  PROVE  IInv'
BY FailureKeeps DEF NoBranch

LEMMA CreatePullRequestKeeps ==
  ASSUME IInv, NEW q \in Procs, NEW p \in Pipelines, CreatePullRequest(q, p)
  PROVE  IInv'
<1>0. Types /\ job[q][p] \in Jobs BY DEF IInv, Types
<1>1. [job[q][p] EXCEPT !.inner = "finish"]
        = [job[q][p] EXCEPT !.inner = "finish", !.own = job[q][p].own]
  BY <1>0 DEF Jobs
<1>2. job[q][p].own \in {"none", "pending", "done", "error"} BY <1>0 DEF Jobs
<1>3. /\ job' \in [Procs -> [Pipelines -> Jobs]]
      /\ job'[q][p].outer = job[q][p].outer /\ job'[q][p].inner = "finish"
      /\ job'[q][p].sent = job[q][p].sent
      /\ \A r \in Procs, o \in Pipelines : r # q \/ o # p => job'[r][o] = job[r][o]
  <2>1. Becomes(q, p, [job[q][p] EXCEPT !.inner = "finish", !.own = job[q][p].own])
        /\ job[q][p].inner # "none"
    BY <1>1 DEF CreatePullRequest
  <2>2. "finish" \in Inner \ {"none", "gone"} BY DEF Inner
  <2> QED BY <1>0, <1>2, <2>1, <2>2, AdvanceFacts
<1> USE DEF CreatePullRequest, Opens, rows, slots
<1>4. /\ opened[p] = 0 /\ p \notin pr /\ p \notin told
      /\ job[q][p].outer # "none" /\ job[q][p].sent = "none"
  BY WorkingFacts
<1>5. opened' \in [Pipelines -> Nat] /\ opened'[p] = 1
      /\ \A o \in Pipelines \ {p} : opened'[o] = opened[o]
  BY <1>0, <1>4 DEF Types
<1>6. Types' BY <1>0, <1>3, <1>5 DEF Types
<1>7. WorkStep(q, p) BY <1>3, <1>4, <1>5, <1>6 DEF WorkStep
<1>8. LocalInv(q, p)'
  <2>1. Pair(q, p)' BY <1>3, <1>4 DEF Pair
  <2>2. Owner(q, p)' BY <1>3, <1>4, <1>5 DEF Owner, IInv, OwnerInv
  <2>3. Record(p)' BY <1>4, <1>5 DEF IInv, RecordInv, Record
  <2> QED BY <2>1, <2>2, <2>3 DEF LocalInv
<1>9. SlotInv' /\ StopInv' BY <1>3, SameSlots
<1> QED BY <1>6, <1>7, <1>8, <1>9, WorkKeeps DEF IInv

LEMMA PullRequestFailsKeeps ==
  ASSUME IInv, NEW q \in Procs, NEW p \in Pipelines, PullRequestFails(q, p)
  PROVE  IInv'
<1> USE PipelineAssumption DEF slots
<1>0. Types BY DEF IInv
<1>1. /\ job' \in [Procs -> [Pipelines -> Jobs]]
      /\ job'[q][p].outer = job[q][p].outer /\ job'[q][p].inner = "gone"
      /\ job'[q][p].sent # "none" => job[q][p].outer = "wait"
      /\ \A r \in Procs, o \in Pipelines : r # q \/ o # p => job'[r][o] = job[r][o]
  BY <1>0, ReturnsFacts DEF PullRequestFails
<1>2. opened[p] = 0 /\ p \notin pr /\ job[q][p].outer # "none" BY WorkingFacts DEF PullRequestFails
<1>3. /\ status' \in [Pipelines -> {"none", "pending", "running", "done", "error"}]
      /\ status'[p] = "error" /\ told' = told \ {p} /\ UNCHANGED <<pr, queue>>
      /\ \A o \in Pipelines \ {p} : status'[o] = status[o]
  BY <1>0 DEF PullRequestFails, UpdateIssuePipelineStatus, Types
<1>4. opened' \in [Pipelines -> Nat] /\ opened'[p] \in {0, 1}
      /\ \A o \in Pipelines \ {p} : opened'[o] = opened[o]
  BY <1>0, <1>2 DEF PullRequestFails, Opens, Types
<1>5. faults' \in 0 .. MaxFaults /\ faults' # 0 BY <1>0 DEF PullRequestFails, Fault, Types
<1>6. UNCHANGED <<poll, slots, service>> BY DEF PullRequestFails
<1>7. Types' BY <1>0, <1>1, <1>3, <1>4, <1>5, <1>6 DEF Types
<1>8. WorkStep(q, p) BY <1>1, <1>2, <1>3, <1>4, <1>5, <1>6, <1>7 DEF WorkStep
<1>9. LocalInv(q, p)'
  <2>1. Pair(q, p)' BY <1>1, <1>2 DEF Pair
  <2>2. Owner(q, p)' BY <1>1, <1>5 DEF Owner
  <2>3. Record(p)' BY <1>2, <1>3, <1>4 DEF Record
  <2> QED BY <2>1, <2>2, <2>3 DEF LocalInv
<1>10. SlotInv' /\ StopInv' BY <1>1, <1>6, SameSlots
<1> QED BY <1>7, <1>8, <1>9, <1>10, WorkKeeps DEF IInv

LEMMA FinishKeeps ==
  ASSUME IInv, NEW q \in Procs, NEW p \in Pipelines, Finish(q, p)
  PROVE  IInv'
<1> USE PipelineAssumption DEF slots
<1>0. Types BY DEF IInv
<1>1. /\ job' \in [Procs -> [Pipelines -> Jobs]]
      /\ job'[q][p].outer = job[q][p].outer /\ job'[q][p].inner = "gone"
      /\ job'[q][p].sent # "none" => job[q][p].outer = "wait"
      /\ \A r \in Procs, o \in Pipelines : r # q \/ o # p => job'[r][o] = job[r][o]
  BY <1>0, ReturnsFacts DEF Finish
<1>2. opened[p] = 1 /\ p \notin told /\ job[q][p].outer # "none" BY WorkingFacts DEF Finish
<1>3. UNCHANGED <<poll, slots, service, opened>> BY DEF Finish
<1>4. /\ status' \in [Pipelines -> {"none", "pending", "running", "done", "error"}]
      /\ pr' \subseteq Pipelines /\ UNCHANGED <<told, queue>>
      /\ faults' \in 0 .. MaxFaults
      /\ \A o \in Pipelines \ {p} : status'[o] = status[o] /\ (o \in pr' <=> o \in pr)
      /\ \/ status'[p] = "done" /\ p \in pr' /\ faults' = faults
         \/ status'[p] = status[p] /\ (p \in pr' <=> p \in pr) /\ faults' # 0
  <2>1. CASE /\ status' = [status EXCEPT ![p] = "done"] /\ pr' = pr \cup {p}
             /\ UNCHANGED <<told, queue, faults>>
    BY <1>0, <2>1 DEF Types
  <2>2. CASE UNCHANGED rows /\ Fault BY <1>0, <2>2 DEF Types, rows, Fault
  <2> QED BY <2>1, <2>2 DEF Finish
<1>5. Types' BY <1>0, <1>1, <1>3, <1>4 DEF Types
<1>6. WorkStep(q, p) BY <1>1, <1>2, <1>3, <1>4, <1>5 DEF WorkStep
<1>7. LocalInv(q, p)'
  <2>1. Pair(q, p)' BY <1>1, <1>2 DEF Pair
  <2>2. Owner(q, p)' BY <1>1, <1>4 DEF Owner
  <2>3. Record(p)' BY <1>2, <1>3, <1>4 DEF IInv, RecordInv, Record
  <2> QED BY <2>1, <2>2, <2>3 DEF LocalInv
<1>8. SlotInv' /\ StopInv' BY <1>1, <1>3, SameSlots
<1> QED BY <1>5, <1>6, <1>7, <1>8, WorkKeeps DEF IInv

-----------------------------------------------------------------------------
(* executeWithTimeout                                                       *)

LEMMA ExecutionTimeoutKeeps ==
  ASSUME IInv, NEW q \in Procs, NEW p \in Pipelines, ExecutionTimeout(q, p)
  PROVE  IInv'
<1> USE DEF slots
<1>0. Types BY DEF IInv
<1>1. /\ job' \in [Procs -> [Pipelines -> Jobs]]
      /\ job'[q][p].outer = "leave" /\ job'[q][p].inner = job[q][p].inner
      /\ job'[q][p].sent = "none"
      /\ \A r \in Procs, o \in Pipelines : r # q \/ o # p => job'[r][o] = job[r][o]
  BY <1>0, LeavesFacts DEF ExecutionTimeout, Outer
<1>2. /\ status' \in [Pipelines -> {"none", "pending", "running", "done", "error"}]
      /\ told' \subseteq Pipelines
      /\ UNCHANGED <<pr, queue>>
      /\ faults' \in 0 .. MaxFaults /\ (faults' = 0 => faults = 0 /\ status'[p] = "error")
      /\ \A o \in Pipelines \ {p} : status'[o] = status[o] /\ (o \in told' <=> o \in told)
      /\ status'[p] \in {status[p], "error"}
      /\ p \in told' => p \in told
  BY <1>0, MarkFacts DEF ExecutionTimeout, WriteError
<1>3. UNCHANGED <<poll, slots, service, opened>> /\ job[q][p].outer = "wait"
  BY DEF ExecutionTimeout
<1>4. Types' BY <1>0, <1>1, <1>2, <1>3 DEF Types
<1>5. WorkStep(q, p) BY <1>1, <1>2, <1>3, <1>4 DEF WorkStep
<1>6. Pair(q, p) /\ Owner(q, p) /\ Record(p) BY DEF IInv, PairInv, OwnerInv, RecordInv
<1>7. LocalInv(q, p)'
  <2>1. Pair(q, p)' BY <1>1, <1>3, <1>6 DEF Pair
  <2>2. Owner(q, p)' BY <1>1, <1>2, <1>3, <1>6 DEF Owner
  <2>3. Record(p)' BY <1>2, <1>3, <1>6 DEF Record
  <2> QED BY <2>1, <2>2, <2>3 DEF LocalInv
<1>8. SlotInv' /\ StopInv' BY <1>1, <1>3, SameSlots
<1> QED BY <1>4, <1>5, <1>7, <1>8, WorkKeeps DEF IInv

(* The deferred function gives back one of the two counters.                *)
LEMMA ReleaseKeeps ==
  ASSUME IInv, NEW q \in Procs, NEW p \in Pipelines, Release(q, p)
  PROVE  IInv'
<1> USE DEF rows
<1>0. Types /\ UNCHANGED <<rows, poll, service, opened, faults>> BY DEF IInv, Release
<1>1. Pair(q, p) /\ Owner(q, p) /\ Record(p) BY DEF IInv, PairInv, OwnerInv, RecordInv
<1>2. /\ IsFiniteSet(Counted(q)) /\ sem[q] = Cardinality(Holding(q))
      /\ running[q] = Cardinality(Counted(q)) /\ running[q] \in Int /\ sem[q] \in Int
  BY DEF IInv, SlotInv, Types
<1>3. PICK pc \in {"count", "gone"} :
        /\ Leaves(q, p, pc)
        /\ pc = "count" => /\ Received(q, p)
                           /\ sem' = [sem EXCEPT ![q] = @ - 1] /\ UNCHANGED running
        /\ pc = "gone" => /\ job[q][p].outer = "count"
                          /\ running' = [running EXCEPT ![q] = @ - 1] /\ UNCHANGED sem
  BY DEF Release
<1>4. /\ job' \in [Procs -> [Pipelines -> Jobs]]
      /\ job'[q][p].outer = pc /\ job'[q][p].inner = job[q][p].inner
      /\ job'[q][p].sent = "none"
      /\ \A r \in Procs, o \in Pipelines : r # q \/ o # p => job'[r][o] = job[r][o]
  <2>1. pc \in Outer BY DEF Outer
  <2> QED BY <1>0, <1>3, <2>1, LeavesFacts
<1>5. job[q][p].outer \in {"wait", "leave", "count"}
      /\ (job[q][p].outer = "wait" => job[q][p].inner = "gone")
  BY <1>1, <1>3 DEF Received, Pair
<1>6. Types' BY <1>0, <1>3, <1>4 DEF Types
<1>7. WorkStep(q, p)
  BY <1>0, <1>4, <1>5, <1>6 DEF WorkStep
<1>8. LocalInv(q, p)'
  <2>1. Pair(q, p)' BY <1>1, <1>4, <1>5 DEF Pair
  <2>2. Owner(q, p)' BY <1>0, <1>1, <1>4, <1>5 DEF Owner
  <2>3. Record(p)' BY <1>0, <1>1 DEF Record
  <2> QED BY <2>1, <2>2, <2>3 DEF LocalInv
<1>9. SlotInv' /\ StopInv'
  <2>1. \A r \in Procs \ {q} : /\ Holding(r)' = Holding(r) /\ Counted(r)' = Counted(r)
                               /\ sem'[r] = sem[r] /\ running'[r] = running[r]
    BY <1>0, <1>3, <1>4 DEF Holding, Counted, Types
  <2>2. CASE pc = "count"
    <3>1. Counted(q)' = Counted(q) BY <1>4, <1>5, <2>2 DEF Counted
    <3>2. Holding(q)' = Holding(q) \ {p} BY <1>4, <2>2 DEF Holding
    <3>3. p \in Holding(q) BY <1>3, <2>2 DEF Holding, Received
    <3>4. IsFiniteSet(Holding(q))
      <4>1. Holding(q) \subseteq Counted(q) BY DEF Holding, Counted
      <4> QED BY <1>2, <4>1, FS_Subset
    <3>5. Cardinality(Holding(q)') = Cardinality(Holding(q)) - 1
      BY <3>2, <3>3, <3>4, FS_RemoveElement
    <3>6. sem'[q] = sem[q] - 1 /\ running'[q] = running[q] BY <1>0, <1>3, <2>2 DEF Types
    <3> QED BY <1>0, <1>2, <2>1, <3>1, <3>5, <3>6 DEF IInv, SlotInv, StopInv
  <2>3. CASE pc = "gone"
    <3>1. Holding(q)' = Holding(q) BY <1>3, <1>4, <2>3 DEF Holding
    <3>2. Counted(q)' = Counted(q) \ {p} BY <1>4, <2>3 DEF Counted
    <3>3. p \in Counted(q) BY <1>5 DEF Counted
    <3>4. IsFiniteSet(Counted(q)') /\ Cardinality(Counted(q)') = Cardinality(Counted(q)) - 1
      BY <1>2, <3>2, <3>3, FS_RemoveElement
    <3>5. Cardinality(Counted(q)) \in Nat /\ Cardinality(Counted(q)') \in Nat
      BY <1>2, <3>4, FS_CardinalityType
    <3>6. running'[q] = running[q] - 1 /\ sem'[q] = sem[q] BY <1>0, <1>3, <2>3 DEF Types
    <3>7. Len(poll[q].list) \in Nat BY <1>0 DEF Types
    <3>8. SlotInv'
      BY PipelineAssumption, <1>0, <1>2, <2>1, <3>1, <3>4, <3>6, <3>7 DEF IInv, SlotInv
    <3>9. StopInv'
      BY <1>0, <1>2, <2>1, <3>4, <3>5, <3>6 DEF IInv, StopInv
    <3> QED BY <3>8, <3>9
  <2> QED BY <2>2, <2>3
<1> QED BY <1>6, <1>7, <1>8, <1>9, WorkKeeps DEF IInv

-----------------------------------------------------------------------------
(* poll                                                                     *)

(* A set of numbers that is not empty has a least one.                      *)
LEMMA MinFacts ==
  ASSUME NEW I \in SUBSET Nat, I # {}
  PROVE  Min(I) \in I /\ \A i \in I : Min(I) <= i
<1>1. PICK x \in I : \A y \in I : ~(<<y, x>> \in OpToRel(<, Nat))
  BY NatLessThanWellFounded, WFMin
<1>2. \A y \in Nat : y < x => <<y, x>> \in OpToRel(<, Nat) BY DEF OpToRel
<1>3. \A y \in I : ~(y < x) BY <1>1, <1>2
<1>4. \A y \in I : x <= y BY <1>3
<1> QED BY <1>4 DEF Min

LEMMA RemoveFirstType ==
  ASSUME NEW S, NEW s \in Seq(S), NEW e
  PROVE  RemoveFirst(s, e) \in Seq(S)
<1> DEFINE I == {i \in 1 .. Len(s) : s[i] = e}
<1>1. CASE I = {} BY <1>1 DEF RemoveFirst
<1>2. CASE I # {}
  <2>1. Min(I) \in 1 .. Len(s)
    <3>1. I \in SUBSET Nat /\ I \subseteq 1 .. Len(s) OBVIOUS
    <3> HIDE DEF I
    <3> QED BY <1>2, <3>1, MinFacts
  <2>2. RemoveFirst(s, e) = SubSeq(s, 1, Min(I) - 1) \o SubSeq(s, Min(I) + 1, Len(s))
    BY <1>2 DEF RemoveFirst, RemoveAt, SelectInSeq
  <2> HIDE DEF I
  <2>3. SubSeq(s, 1, Min(I) - 1) \in Seq(S) /\ SubSeq(s, Min(I) + 1, Len(s)) \in Seq(S)
    BY <2>1
  <2> QED BY <2>2, <2>3
<1> QED BY <1>1, <1>2

LEMMA TailFacts ==
  ASSUME NEW S, NEW s \in Seq(S), s # <<>>, Len(s) # 1
  PROVE  Tail(s) \in Seq(S) /\ Tail(s) # <<>> /\ Len(Tail(s)) = Len(s) - 1
<1>1. Len(s) \in Nat /\ Len(s) # 0 BY EmptySeq, LenProperties
<1>2. Tail(s) \in Seq(S) /\ Len(Tail(s)) = Len(s) - 1 BY HeadTailProperties
<1>3. Len(Tail(s)) # 0 BY <1>1, <1>2
<1>4. Len(<<>>) = 0 OBVIOUS
<1> QED BY <1>2, <1>3, <1>4

(* A poll only moves: the rows keep what they are, no execution changes,    *)
(* and what the process has in hand after the step it had before, or it is  *)
(* within the room that the counter leaves.                                 *)
PollStep(q) ==
  /\ Types'
  /\ UNCHANGED <<pr, told, slots, job, service, opened>>
  /\ \A r \in Procs \ {q} : poll'[r] = poll[r]
  /\ poll'[q].pc # "idle" => /\ poll'[q].list # <<>>
                             /\ running[q] + Len(poll'[q].list) <= MaxConcurrent
                             /\ service[q] \in {"up", "stopping"}
  /\ faults' = 0 => faults = 0

LEMMA PollStepKeeps ==
  ASSUME IInv, NEW q \in Procs, PollStep(q)
  PROVE  PairInv' /\ SlotInv' /\ StopInv'
<1> USE DEF IInv, PollStep, slots
<1>1. \A r \in Procs : Holding(r)' = Holding(r) /\ Counted(r)' = Counted(r)
  BY DEF Holding, Counted
<1>2. PairInv' BY DEF PairInv, Pair
<1>3. SlotInv' BY <1>1 DEF SlotInv
<1>4. StopInv' BY DEF StopInv
<1> QED BY <1>2, <1>3, <1>4

(* The owners are those of before as long as no row loses its status.       *)
LEMMA PollStepRows ==
  ASSUME IInv, NEW q \in Procs, PollStep(q),
         \A p \in Pipelines : \/ status'[p] = status[p]
                              \/ status[p] = "pending" /\ status'[p] = "running"
  PROVE  OwnerInv' /\ RecordInv'
<1> USE DEF IInv, PollStep, slots
<1>1. \A r \in Procs, p \in Pipelines :
        status[p] = "pending" => job[r][p].outer = "none" /\ job[r][p].inner = "none"
  BY DEF ClaimInv, Unexecuted, PairInv, Pair
<1>2. OwnerInv' BY <1>1 DEF OwnerInv, Owner
<1>3. RecordInv' BY DEF RecordInv, Record
<1> QED BY <1>2, <1>3

(* The next row of the list, or the end of the poll.                        *)
LEMMA NextRowFacts ==
  ASSUME IInv, NEW q \in Procs, poll[q].pc # "idle", NextRow(q)
  PROVE  /\ poll' \in [Procs -> [pc : {"idle", "claim", "acquire"}, list : Seq(Pipelines)]]
         /\ \A r \in Procs \ {q} : poll'[r] = poll[r]
         /\ poll'[q].pc \in {"idle", "claim"}
         /\ poll'[q].pc # "idle" => /\ poll'[q].list # <<>>
                                    /\ Len(poll'[q].list) = Len(poll[q].list) - 1
<1>1. /\ poll \in [Procs -> [pc : {"idle", "claim", "acquire"}, list : Seq(Pipelines)]]
      /\ poll[q].list \in Seq(Pipelines) /\ poll[q].list # <<>>
  BY DEF IInv, Types, SlotInv
<1> DEFINE after == IF Len(poll[q].list) = 1 THEN Idle
                    ELSE [pc |-> "claim", list |-> Tail(poll[q].list)]
<1>2. /\ after \in [pc : {"idle", "claim", "acquire"}, list : Seq(Pipelines)]
      /\ after.pc \in {"idle", "claim"}
      /\ after.pc # "idle" => /\ after.list # <<>>
                              /\ Len(after.list) = Len(poll[q].list) - 1
  <2>1. CASE Len(poll[q].list) = 1
    <3>1. after = [pc |-> "idle", list |-> <<>>] BY <2>1 DEF Idle
    <3>2. <<>> \in Seq(Pipelines) OBVIOUS
    <3> HIDE DEF after
    <3> QED BY <3>1, <3>2
  <2>2. CASE Len(poll[q].list) # 1
    <3>1. after = [pc |-> "claim", list |-> Tail(poll[q].list)] BY <2>2
    <3>2. /\ Tail(poll[q].list) \in Seq(Pipelines) /\ Tail(poll[q].list) # <<>>
          /\ Len(Tail(poll[q].list)) = Len(poll[q].list) - 1
      BY <1>1, <2>2, TailFacts
    <3> HIDE DEF after
    <3> QED BY <3>1, <3>2
  <2> QED BY <2>1, <2>2
<1>3. poll' = [poll EXCEPT ![q] = after] BY DEF NextRow
<1> HIDE DEF after
<1> QED BY <1>1, <1>2, <1>3

(* A process that goes on to another row, or stops, acquires nothing.       *)
LEMMA OthersAcquire ==
  ASSUME NEW q \in Procs, \A r \in Procs \ {q} : poll'[r] = poll[r], poll'[q].pc # "acquire"
  PROVE  \A r \in Procs, p \in Pipelines : Acquires(r, p)' => Acquires(r, p) /\ r # q
BY DEF Acquires

(* A poll that changes no row.                                              *)
LEMMA PollStepKeepsAll ==
  ASSUME IInv, NEW q \in Procs, PollStep(q), UNCHANGED status, poll'[q].pc # "acquire"
  PROVE  IInv'
<1>1. ClaimInv'
  <2>1. \A r \in Procs, p \in Pipelines : Acquires(r, p)' => Acquires(r, p)
    BY OthersAcquire DEF PollStep
  <2>2. \A p \in Pipelines : Unexecuted(p)' <=> Unexecuted(p) BY DEF PollStep, Unexecuted
  <2> QED BY <2>1, <2>2 DEF IInv, ClaimInv
<1>2. Types' BY DEF PollStep
<1>3. PairInv' /\ SlotInv' /\ StopInv' /\ OwnerInv' /\ RecordInv'
  BY PollStepKeeps, PollStepRows
<1> QED BY <1>1, <1>2, <1>3 DEF IInv

LEMMA PollKeeps ==
  ASSUME IInv, NEW q \in Procs, Poll(q)
  PROVE  IInv'
<1> DEFINE limit == MaxConcurrent - running[q]
           n == IF Len(queue) < limit THEN Len(queue) ELSE limit
<1>1. Types BY DEF IInv
<1>2. queue \in Seq(Pipelines) /\ queue # <<>> /\ Len(queue) \in Nat \ {0}
  BY <1>1, EmptySeq DEF Types, Poll
<1>3. running[q] \in Int /\ n \in 1 .. Len(queue) /\ running[q] + n <= MaxConcurrent
  BY <1>1, <1>2, PipelineAssumption DEF Types, Poll
<1> HIDE DEF n
<1>4. SubSeq(queue, 1, n) \in Seq(Pipelines) /\ Len(SubSeq(queue, 1, n)) = n
  BY <1>2, <1>3
<1>5. SubSeq(queue, 1, n) # <<>>
  <2>1. Len(SubSeq(queue, 1, n)) # 0 BY <1>3, <1>4
  <2>2. Len(<<>>) = 0 OBVIOUS
  <2> QED BY <2>1, <2>2
<1>6. poll' = [poll EXCEPT ![q] = [pc |-> "claim", list |-> SubSeq(queue, 1, n)]]
  BY DEF Poll, FirstRows, n
<1>7. /\ poll' \in [Procs -> [pc : {"idle", "claim", "acquire"}, list : Seq(Pipelines)]]
      /\ poll'[q].pc = "claim" /\ poll'[q].list = SubSeq(queue, 1, n)
      /\ \A r \in Procs \ {q} : poll'[r] = poll[r]
  BY <1>1, <1>4, <1>6 DEF Types
<1>8. UNCHANGED <<rows, slots, job, service, opened, faults>> /\ service[q] = "up" BY DEF Poll
<1>9. Types' BY <1>1, <1>7, <1>8 DEF Types, rows, slots
<1>10. PollStep(q) BY <1>3, <1>4, <1>5, <1>7, <1>8, <1>9 DEF PollStep, rows
<1>11. UNCHANGED status /\ poll'[q].pc # "acquire" BY <1>7, <1>8 DEF rows
<1> QED BY <1>10, <1>11, PollStepKeepsAll

LEMMA PollEndsKeeps ==
  ASSUME IInv, NEW q \in Procs, PollEnds(q)
  PROVE  IInv'
<1>1. Types /\ UNCHANGED <<rows, slots, job, service, opened, faults>> BY DEF IInv, PollEnds
<1>2. /\ poll' \in [Procs -> [pc : {"idle", "claim", "acquire"}, list : Seq(Pipelines)]]
      /\ poll'[q].pc = "idle" /\ \A r \in Procs \ {q} : poll'[r] = poll[r]
  BY <1>1, EmptySeq DEF Types, PollEnds, Idle
<1>3. Types' BY <1>1, <1>2 DEF Types, rows, slots
<1>4. PollStep(q) BY <1>1, <1>2, <1>3 DEF PollStep, rows
<1> QED BY <1>1, <1>2, <1>4, PollStepKeepsAll DEF rows

(* The claim of a row, which may come with the answer lost.                 *)
LEMMA ClaimedFacts ==
  ASSUME Types, NEW p \in Pipelines, Claimed(p)
  PROVE  /\ status' \in [Pipelines -> {"none", "pending", "running", "done", "error"}]
         /\ queue' \in Seq(Pipelines) /\ UNCHANGED <<pr, told>>
         /\ status'[p] = "running" /\ \A o \in Pipelines \ {p} : status'[o] = status[o]
<1>1. queue' \in Seq(Pipelines) BY RemoveFirstType DEF Types, Claimed
<1> QED BY <1>1 DEF Types, Claimed

(* The claim succeeds and one process knows it.                             *)
LEMMA ClaimSucceeds ==
  ASSUME IInv, NEW q \in Procs, NEW p \in Pipelines,
         poll[q].pc = "claim", service[q] = "up", p = Head(poll[q].list),
         ClaimMatches(p), Claimed(p), poll' = [poll EXCEPT ![q].pc = "acquire"],
         UNCHANGED <<slots, job, service, opened, faults>>
  PROVE  IInv'
<1> USE DEF slots
<1>0. Types BY DEF IInv
<1>1. /\ status' \in [Pipelines -> {"none", "pending", "running", "done", "error"}]
      /\ queue' \in Seq(Pipelines) /\ UNCHANGED <<pr, told>>
      /\ status'[p] = "running" /\ \A o \in Pipelines \ {p} : status'[o] = status[o]
  BY <1>0, ClaimedFacts
<1>2. /\ poll' \in [Procs -> [pc : {"idle", "claim", "acquire"}, list : Seq(Pipelines)]]
      /\ poll'[q].pc = "acquire" /\ poll'[q].list = poll[q].list
      /\ \A r \in Procs \ {q} : poll'[r] = poll[r]
  BY <1>0 DEF Types
<1>3. Types' BY <1>0, <1>1, <1>2 DEF Types
<1>4. poll[q].list # <<>> /\ running[q] + Len(poll[q].list) <= MaxConcurrent
  BY DEF IInv, SlotInv
<1>5. PollStep(q) BY <1>1, <1>2, <1>3, <1>4 DEF PollStep
<1>6. status[p] = "pending" BY DEF ClaimMatches
<1>7. ClaimInv'
  <2>1. \A o \in Pipelines : Unexecuted(o)' <=> Unexecuted(o) BY <1>1 DEF Unexecuted
  <2>2. Unexecuted(p) /\ \A r \in Procs : ~Acquires(r, p) BY <1>6 DEF IInv, ClaimInv
  <2>3. \A r \in Procs, o \in Pipelines :
          Acquires(r, o)' => (r = q /\ o = p) \/ (o # p /\ r # q /\ Acquires(r, o))
    BY <1>2, <2>2 DEF Acquires
  <2> SUFFICES ASSUME NEW o \in Pipelines
               PROVE  /\ status'[o] \in {"none", "pending"} => Unexecuted(o)'
                      /\ \A r \in Procs : Acquires(r, o)' =>
                           /\ status'[o] = "running" /\ Unexecuted(o)'
                           /\ \A t \in Procs : Acquires(t, o)' => t = r
    BY DEF ClaimInv
  <2>4. CASE o = p BY <1>1, <2>1, <2>2, <2>3, <2>4
  <2>5. CASE o # p BY <1>1, <2>1, <2>3, <2>5 DEF IInv, ClaimInv
  <2> QED BY <2>4, <2>5
<1>8. \A o \in Pipelines : \/ status'[o] = status[o]
                           \/ status[o] = "pending" /\ status'[o] = "running"
  <2> TAKE o \in Pipelines
  <2>1. CASE o = p BY <1>1, <1>6, <2>1
  <2>2. CASE o # p BY <1>1, <2>2
  <2> QED BY <2>1, <2>2
<1>9. PairInv' /\ SlotInv' /\ StopInv' /\ OwnerInv' /\ RecordInv'
  BY <1>5, <1>8, PollStepKeeps, PollStepRows
<1> QED BY <1>3, <1>7, <1>9 DEF IInv

(* The process goes on to the next row: the row is not pending, the claim   *)
(* failed, or its answer was lost.                                          *)
LEMMA ClaimPassed ==
  ASSUME IInv, NEW q \in Procs, NEW p \in Pipelines,
         poll[q].pc = "claim", service[q] = "up", NextRow(q),
         UNCHANGED rows \/ (ClaimMatches(p) /\ Claimed(p)), UNCHANGED faults \/ Fault,
         UNCHANGED <<slots, job, service, opened>>
  PROVE  IInv'
<1> USE DEF slots
<1>0. Types BY DEF IInv
<1>1. /\ status' \in [Pipelines -> {"none", "pending", "running", "done", "error"}]
      /\ queue' \in Seq(Pipelines) /\ UNCHANGED <<pr, told>>
      /\ \A o \in Pipelines : \/ status'[o] = status[o]
                              \/ status[o] = "pending" /\ status'[o] = "running"
  BY <1>0, ClaimedFacts DEF rows, ClaimMatches, Types
<1>2. faults' \in 0 .. MaxFaults /\ (faults' = 0 => faults = 0)
  BY <1>0, PipelineAssumption DEF Fault, Types
<1>3. /\ poll' \in [Procs -> [pc : {"idle", "claim", "acquire"}, list : Seq(Pipelines)]]
      /\ \A r \in Procs \ {q} : poll'[r] = poll[r]
      /\ poll'[q].pc \in {"idle", "claim"}
      /\ poll'[q].pc # "idle" => /\ poll'[q].list # <<>>
                                 /\ Len(poll'[q].list) = Len(poll[q].list) - 1
  BY NextRowFacts
<1>4. /\ running[q] \in Int /\ Len(poll[q].list) \in Nat
      /\ running[q] + Len(poll[q].list) <= MaxConcurrent
  BY <1>0, LenProperties DEF IInv, SlotInv, Types
<1>5. Types' BY <1>0, <1>1, <1>2, <1>3 DEF Types
<1>6. PollStep(q) BY PipelineAssumption, <1>1, <1>2, <1>3, <1>4, <1>5 DEF PollStep
<1>7. ClaimInv'
  <2>1. \A o \in Pipelines : Unexecuted(o)' <=> Unexecuted(o) BY <1>1 DEF Unexecuted
  <2>2. \A r \in Procs, o \in Pipelines : Acquires(r, o)' => Acquires(r, o)
    BY <1>3, OthersAcquire
  <2> QED BY <1>1, <2>1, <2>2 DEF IInv, ClaimInv
<1>8. PairInv' /\ SlotInv' /\ StopInv' /\ OwnerInv' /\ RecordInv'
  BY <1>1, <1>6, PollStepKeeps, PollStepRows
<1> QED BY <1>5, <1>7, <1>8 DEF IInv

LEMMA ClaimPipelineKeeps ==
  ASSUME IInv, NEW q \in Procs, ClaimPipeline(q)
  PROVE  IInv'
<1> DEFINE p == Head(poll[q].list)
<1>1. p \in Pipelines
  BY HeadTailProperties DEF IInv, Types, SlotInv, ClaimPipeline
<1>2. /\ poll[q].pc = "claim" /\ service[q] = "up" /\ UNCHANGED <<slots, job, service, opened>>
      /\ \/ ClaimMatches(p) /\ Claimed(p) /\ poll' = [poll EXCEPT ![q].pc = "acquire"]
           /\ UNCHANGED faults
         \/ ~ClaimMatches(p) /\ NextRow(q) /\ UNCHANGED <<rows, faults>>
         \/ Fault /\ NextRow(q) /\ UNCHANGED rows
         \/ ClaimMatches(p) /\ Claimed(p) /\ Fault /\ NextRow(q)
  BY DEF ClaimPipeline
<1>3. p = Head(poll[q].list) OBVIOUS
<1> HIDE DEF p
<1> QED BY <1>1, <1>2, <1>3, ClaimSucceeds, ClaimPassed

(* The claimed row gets its two goroutines and its place.                   *)
LEMMA StartExecutionKeeps ==
  ASSUME IInv, NEW q \in Procs, StartExecution(q)
  PROVE  IInv'
<1> DEFINE p == Head(poll[q].list)
           started == [Free EXCEPT !.outer = "wait", !.inner = "prepare"]
<1>0. Types BY DEF IInv
<1>1. poll[q].pc = "acquire" /\ UNCHANGED <<rows, service, opened, faults>> BY DEF StartExecution
<1>2. /\ poll[q].list \in Seq(Pipelines) /\ poll[q].list # <<>>
      /\ running[q] + Len(poll[q].list) <= MaxConcurrent
      /\ running[q] \in Int /\ sem[q] \in Int
  BY <1>0, <1>1 DEF Types, IInv, SlotInv
<1>3. p \in Pipelines /\ Len(poll[q].list) \in Nat \ {0}
  BY <1>2, HeadTailProperties, EmptySeq
<1>4. Acquires(q, p) BY <1>1 DEF Acquires
<1>5. /\ started \in Jobs /\ started.outer = "wait" /\ started.inner = "prepare"
      /\ started.sent = "none"
  BY DEF Free, Jobs, Outer, Inner
<1>6. job' = [job EXCEPT ![q][p] = started] BY DEF StartExecution
<1> HIDE DEF p, started
<1>7. /\ job' \in [Procs -> [Pipelines -> Jobs]]
      /\ job'[q][p].outer = "wait" /\ job'[q][p].inner = "prepare" /\ job'[q][p].sent = "none"
      /\ \A r \in Procs, o \in Pipelines : r # q \/ o # p => job'[r][o] = job[r][o]
  BY <1>0, <1>3, <1>5, <1>6 DEF Types
<1>8. /\ poll' \in [Procs -> [pc : {"idle", "claim", "acquire"}, list : Seq(Pipelines)]]
      /\ \A r \in Procs \ {q} : poll'[r] = poll[r]
      /\ poll'[q].pc \in {"idle", "claim"}
      /\ poll'[q].pc # "idle" => /\ poll'[q].list # <<>>
                                 /\ Len(poll'[q].list) = Len(poll[q].list) - 1
  BY <1>1, NextRowFacts DEF StartExecution
<1>9. /\ sem' \in [Procs -> Int] /\ running' \in [Procs -> Int]
      /\ sem'[q] = sem[q] + 1 /\ running'[q] = running[q] + 1
      /\ \A r \in Procs \ {q} : sem'[r] = sem[r] /\ running'[r] = running[r]
  BY <1>0 DEF Types, StartExecution
<1>10. Types' BY <1>0, <1>1, <1>7, <1>8, <1>9 DEF Types, rows
<1>11. /\ status[p] = "running" /\ Unexecuted(p)
       /\ \A r \in Procs : Acquires(r, p) => r = q
  BY <1>3, <1>4 DEF IInv, ClaimInv
<1>12. opened[p] = 0 /\ p \notin told /\ \A r \in Procs : job[r][p].outer = "none"
  BY <1>11 DEF Unexecuted
<1>13. \A r \in Procs : job[r][p].inner = "none" BY <1>3, <1>12 DEF IInv, PairInv, Pair
<1>14. PairInv' BY <1>3, <1>7 DEF IInv, PairInv, Pair
<1>15. OwnerInv'
  <2> SUFFICES ASSUME NEW r \in Procs, NEW o \in Pipelines
               PROVE  /\ Owner(r, o)'
                      /\ \A t \in Procs : job'[r][o].outer # "none" /\ job'[t][o].outer # "none"
                                          => t = r
    BY DEF OwnerInv
  <2>1. CASE o # p BY <1>1, <1>7, <2>1 DEF IInv, OwnerInv, Owner, rows
  <2>2. CASE o = p /\ r = q BY <1>1, <1>7, <1>12, <2>2 DEF Owner, rows
  <2>3. CASE o = p /\ r # q
    <3>1. job'[r][o].outer = "none" /\ job'[r][o].inner = "none" BY <1>7, <1>12, <1>13, <2>3
    <3> QED BY <3>1 DEF Owner
  <2> QED BY <2>1, <2>2, <2>3
<1>16. RecordInv' BY <1>1 DEF IInv, RecordInv, Record, rows
<1>17. ClaimInv'
  <2>1. \A r \in Procs, o \in Pipelines : Acquires(r, o)' => Acquires(r, o) /\ o # p
    BY <1>8, <1>11, OthersAcquire
  <2>2. \A o \in Pipelines : o # p => (Unexecuted(o)' <=> Unexecuted(o))
    BY <1>1, <1>7 DEF Unexecuted, rows
  <2> SUFFICES ASSUME NEW o \in Pipelines
               PROVE  /\ status'[o] \in {"none", "pending"} => Unexecuted(o)'
                      /\ \A r \in Procs : Acquires(r, o)' =>
                           /\ status'[o] = "running" /\ Unexecuted(o)'
                           /\ \A t \in Procs : Acquires(t, o)' => t = r
    BY DEF ClaimInv
  <2>3. CASE o = p BY <1>1, <1>11, <2>1, <2>3 DEF rows
  <2>4. CASE o # p BY <1>1, <2>1, <2>2, <2>4 DEF IInv, ClaimInv, rows
  <2> QED BY <2>3, <2>4
<1>18. SlotInv'
  <2>1. \A r \in Procs \ {q} : Holding(r)' = Holding(r) /\ Counted(r)' = Counted(r)
    BY <1>7 DEF Holding, Counted
  <2>2. Holding(q)' = Holding(q) \cup {p} /\ p \notin Holding(q)
    BY <1>3, <1>7, <1>12 DEF Holding
  <2>3. Counted(q)' = Counted(q) \cup {p} /\ p \notin Counted(q)
    BY <1>3, <1>7, <1>12 DEF Counted
  <2>4. /\ IsFiniteSet(Counted(q)) /\ sem[q] = Cardinality(Holding(q))
        /\ running[q] = Cardinality(Counted(q))
    BY DEF IInv, SlotInv
  <2>5. IsFiniteSet(Holding(q))
    <3>1. Holding(q) \subseteq Counted(q) BY DEF Holding, Counted
    <3> QED BY <2>4, <3>1, FS_Subset
  <2>6. Cardinality(Holding(q)') = sem[q] + 1 BY <2>2, <2>4, <2>5, FS_AddElement
  <2>7. IsFiniteSet(Counted(q)') /\ Cardinality(Counted(q)') = running[q] + 1
    BY <2>3, <2>4, FS_AddElement
  <2>8. /\ running'[q] <= MaxConcurrent
        /\ poll'[q].pc # "idle" => /\ poll'[q].list # <<>>
                                   /\ running'[q] + Len(poll'[q].list) <= MaxConcurrent
    BY PipelineAssumption, <1>2, <1>3, <1>8, <1>9
  <2> SUFFICES ASSUME NEW r \in Procs
               PROVE  /\ IsFiniteSet(Counted(r)')
                      /\ sem'[r] = Cardinality(Holding(r)')
                      /\ running'[r] = Cardinality(Counted(r)')
                      /\ running'[r] <= MaxConcurrent
                      /\ poll'[r].pc # "idle" =>
                           /\ poll'[r].list # <<>>
                           /\ running'[r] + Len(poll'[r].list) <= MaxConcurrent
    BY DEF SlotInv
  <2>9. CASE r = q BY <1>9, <2>6, <2>7, <2>8, <2>9
  <2>10. CASE r # q BY <1>8, <1>9, <2>1, <2>10 DEF IInv, SlotInv
  <2> QED BY <2>9, <2>10
<1>19. StopInv' BY <1>1, <1>8, <1>9 DEF IInv, StopInv
<1> QED BY <1>10, <1>14, <1>15, <1>16, <1>17, <1>18, <1>19 DEF IInv

-----------------------------------------------------------------------------
(* Rows, shutdown, death and start                                          *)

LEMMA CreateKeeps ==
  ASSUME IInv, NEW p \in Pipelines, CreateIssuePipeline(p)
  PROVE  IInv'
<1> USE DEF CreateIssuePipeline, slots
<1>0. Types BY DEF IInv
<1>1. /\ status' \in [Pipelines -> {"none", "pending", "running", "done", "error"}]
      /\ status'[p] = "pending" /\ \A o \in Pipelines \ {p} : status'[o] = status[o]
      /\ queue' \in Seq(Pipelines)
  BY <1>0, AppendProperties DEF Types
<1>2. Types' BY <1>0, <1>1 DEF Types
<1>3. Unexecuted(p) /\ \A q \in Procs : ~Acquires(q, p) BY DEF IInv, ClaimInv
<1>4. \A q \in Procs : job[q][p].outer = "none" /\ job[q][p].inner = "none"
  BY <1>3 DEF Unexecuted, IInv, PairInv, Pair
<1>5. PairInv' BY DEF IInv, PairInv, Pair
<1>6. ClaimInv'
  <2>1. \A o \in Pipelines : Unexecuted(o)' <=> Unexecuted(o) BY DEF Unexecuted
  <2>2. \A q \in Procs, o \in Pipelines : Acquires(q, o)' <=> Acquires(q, o) BY DEF Acquires
  <2> SUFFICES ASSUME NEW o \in Pipelines
               PROVE  /\ status'[o] \in {"none", "pending"} => Unexecuted(o)'
                      /\ \A r \in Procs : Acquires(r, o)' =>
                           /\ status'[o] = "running" /\ Unexecuted(o)'
                           /\ \A t \in Procs : Acquires(t, o)' => t = r
    BY DEF ClaimInv
  <2>3. CASE o = p BY <1>3, <2>1, <2>2, <2>3
  <2>4. CASE o # p BY <1>1, <2>1, <2>2, <2>4 DEF IInv, ClaimInv
  <2> QED BY <2>3, <2>4
<1>7. OwnerInv'
  <2> SUFFICES ASSUME NEW r \in Procs, NEW o \in Pipelines PROVE Owner(r, o)'
    BY DEF IInv, OwnerInv
  <2>1. CASE o = p BY <1>4, <2>1 DEF Owner
  <2>2. CASE o # p BY <1>1, <2>2 DEF IInv, OwnerInv, Owner
  <2> QED BY <2>1, <2>2
<1>8. RecordInv' BY <1>1 DEF IInv, RecordInv, Record
<1>9. SlotInv' /\ StopInv' BY SameSlots
<1> QED BY <1>2, <1>5, <1>6, <1>7, <1>8, <1>9 DEF IInv

(* A process changes the stage of its service.  Stop has returned only when *)
(* the poller had ended and the counter was zero.                           *)
LEMMA ServesKeeps ==
  ASSUME IInv, NEW q \in Procs, NEW next \in {"up", "stopping", "draining", "stopped"},
         Serves(q, next),
         next \in {"draining", "stopped"} => poll[q].pc = "idle",
         next = "stopped" => running[q] = 0
  PROVE  IInv'
<1> USE DEF Serves, rows, slots
<1>0. Types BY DEF IInv
<1>1. /\ service' \in [Procs -> {"up", "stopping", "draining", "stopped", "down"}]
      /\ service'[q] = next /\ \A r \in Procs \ {q} : service'[r] = service[r]
  BY <1>0 DEF Types
<1>2. Types' BY <1>0, <1>1 DEF Types
<1>3. PairInv' /\ OwnerInv' /\ RecordInv'
  BY DEF IInv, PairInv, Pair, OwnerInv, Owner, RecordInv, Record
<1>4. ClaimInv' BY DEF IInv, ClaimInv, Unexecuted, Acquires
<1>5. SlotInv'
  <2>1. \A r \in Procs : Holding(r)' = Holding(r) /\ Counted(r)' = Counted(r)
    BY DEF Holding, Counted
  <2> QED BY <2>1 DEF IInv, SlotInv
<1>6. StopInv' BY <1>1 DEF IInv, StopInv
<1> QED BY <1>2, <1>3, <1>4, <1>5, <1>6 DEF IInv

LEMMA ServiceKeeps ==
  ASSUME IInv, NEW q \in Procs, Stop(q) \/ Stopping(q) \/ Restart(q)
  PROVE  IInv'
<1>1. CASE Stop(q) BY <1>1, ServesKeeps DEF Stop
<1>2. CASE StopReads(q)
  <2>1. running[q] \in Nat
    <3>1. IsFiniteSet(Counted(q)) /\ running[q] = Cardinality(Counted(q)) BY DEF IInv, SlotInv
    <3> QED BY <3>1, FS_CardinalityType
  <2> DEFINE next == IF running[q] > 0 THEN "draining" ELSE "stopped"
  <2>2. next \in {"draining", "stopped"} /\ (next = "stopped" => running[q] = 0) BY <2>1
  <2>3. Serves(q, next) /\ poll[q].pc = "idle" BY <1>2 DEF StopReads
  <2> HIDE DEF next
  <2> QED BY <2>2, <2>3, ServesKeeps
<1>3. CASE Drained(q)
  <2>1. poll[q].pc = "idle" BY <1>3 DEF Drained, IInv, StopInv
  <2> QED BY <1>3, <2>1, ServesKeeps DEF Drained
<1>4. CASE Restart(q) BY <1>4, ServesKeeps DEF Restart
<1> QED BY <1>1, <1>2, <1>3, <1>4 DEF Stopping

(* The end of a process: what it was doing is forgotten.                    *)
LEMMA ForgottenKeeps ==
  ASSUME IInv, NEW q \in Procs, Forgotten(q), UNCHANGED <<rows, opened>>,
         UNCHANGED faults \/ Fault
  PROVE  IInv'
<1> USE DEF rows
<1>0. Types BY DEF IInv
<1>1. Free \in Jobs /\ Free.outer = "none" /\ Free.inner = "none" /\ Free.sent = "none"
  BY DEF Free, Jobs, Outer, Inner
<1>2. /\ job' \in [Procs -> [Pipelines -> Jobs]]
      /\ \A p \in Pipelines : job'[q][p] = Free
      /\ \A r \in Procs \ {q}, p \in Pipelines : job'[r][p] = job[r][p]
  BY <1>0, <1>1 DEF Forgotten, Types
<1>3. /\ poll' \in [Procs -> [pc : {"idle", "claim", "acquire"}, list : Seq(Pipelines)]]
      /\ poll'[q].pc = "idle" /\ \A r \in Procs \ {q} : poll'[r] = poll[r]
  BY <1>0, EmptySeq DEF Forgotten, Types, Idle
<1>4. /\ sem' \in [Procs -> Int] /\ running' \in [Procs -> Int]
      /\ sem'[q] = 0 /\ running'[q] = 0
      /\ \A r \in Procs \ {q} : sem'[r] = sem[r] /\ running'[r] = running[r]
      /\ service' \in [Procs -> {"up", "stopping", "draining", "stopped", "down"}]
      /\ \A r \in Procs \ {q} : service'[r] = service[r]
  BY <1>0 DEF Forgotten, Types
<1>5. faults' \in 0 .. MaxFaults /\ (faults' = 0 => faults = 0)
  BY <1>0, PipelineAssumption DEF Fault, Types
<1>6. Types' BY <1>0, <1>2, <1>3, <1>4, <1>5 DEF Types
<1>7. PairInv'
  <2> SUFFICES ASSUME NEW r \in Procs, NEW o \in Pipelines PROVE Pair(r, o)' BY DEF PairInv
  <2>1. CASE r = q BY <1>1, <1>2, <2>1 DEF Pair
  <2>2. CASE r # q BY <1>2, <2>2 DEF IInv, PairInv, Pair
  <2> QED BY <2>1, <2>2
<1>8. ClaimInv'
  <2>1. \A o \in Pipelines : Unexecuted(o) => Unexecuted(o)' BY <1>1, <1>2 DEF Unexecuted
  <2>2. \A r \in Procs, o \in Pipelines : Acquires(r, o)' => Acquires(r, o)
    BY <1>3, OthersAcquire
  <2> QED BY <2>1, <2>2 DEF IInv, ClaimInv
<1>9. OwnerInv'
  <2> SUFFICES ASSUME NEW r \in Procs, NEW o \in Pipelines
               PROVE  /\ Owner(r, o)'
                      /\ \A t \in Procs : job'[r][o].outer # "none" /\ job'[t][o].outer # "none"
                                          => t = r
    BY DEF OwnerInv
  <2>1. CASE r = q BY <1>1, <1>2, <2>1 DEF Owner
  <2>2. CASE r # q
    <3>1. Owner(r, o)' BY <1>2, <1>5, <2>2 DEF IInv, OwnerInv, Owner
    <3>2. \A t \in Procs : job'[r][o].outer # "none" /\ job'[t][o].outer # "none" => t = r
      <4> SUFFICES ASSUME NEW t \in Procs, job'[r][o].outer # "none", job'[t][o].outer # "none"
                   PROVE  t = r
        OBVIOUS
      <4>1. t # q BY <1>1, <1>2
      <4> QED BY <1>2, <2>2, <4>1 DEF IInv, OwnerInv
    <3> QED BY <3>1, <3>2
  <2> QED BY <2>1, <2>2
<1>10. RecordInv' BY DEF IInv, RecordInv, Record
<1>11. SlotInv'
  <2>1. \A r \in Procs \ {q} : Holding(r)' = Holding(r) /\ Counted(r)' = Counted(r)
    BY <1>2 DEF Holding, Counted
  <2>2. Holding(q)' = {} /\ Counted(q)' = {} BY <1>1, <1>2 DEF Holding, Counted
  <2>3. IsFiniteSet(Counted(q)') /\ Cardinality(Counted(q)') = 0 /\ Cardinality(Holding(q)') = 0
    BY <2>2, FS_EmptySet
  <2>4. 0 <= MaxConcurrent BY PipelineAssumption
  <2> SUFFICES ASSUME NEW r \in Procs
               PROVE  /\ IsFiniteSet(Counted(r)')
                      /\ sem'[r] = Cardinality(Holding(r)')
                      /\ running'[r] = Cardinality(Counted(r)')
                      /\ running'[r] <= MaxConcurrent
                      /\ poll'[r].pc # "idle" =>
                           /\ poll'[r].list # <<>>
                           /\ running'[r] + Len(poll'[r].list) <= MaxConcurrent
    BY DEF SlotInv
  <2>5. CASE r = q BY <1>3, <1>4, <2>3, <2>4, <2>5
  <2>6. CASE r # q
    <3>1. /\ poll'[r] = poll[r] /\ sem'[r] = sem[r] /\ running'[r] = running[r]
          /\ Holding(r)' = Holding(r) /\ Counted(r)' = Counted(r)
      BY <1>3, <1>4, <2>1, <2>6
    <3> QED BY <3>1 DEF IInv, SlotInv
  <2> QED BY <2>5, <2>6
<1>12. StopInv' BY <1>3, <1>4 DEF IInv, StopInv
<1> QED BY <1>6, <1>7, <1>8, <1>9, <1>10, <1>11, <1>12 DEF IInv

-----------------------------------------------------------------------------
(* The theorems                                                             *)

LEMMA InitEstablishes == Init => IInv
<1> SUFFICES ASSUME Init PROVE IInv OBVIOUS
<1> USE DEF Init
<1>1. Free \in Jobs /\ Free.outer = "none" /\ Free.inner = "none" /\ Free.sent = "none"
  BY DEF Free, Jobs, Outer, Inner
<1>2. Idle \in [pc : {"idle", "claim", "acquire"}, list : Seq(Pipelines)] /\ Idle.pc = "idle"
  BY EmptySeq DEF Idle
<1>3. Types BY <1>1, <1>2, EmptySeq, PipelineAssumption DEF Types
<1>4. PairInv BY <1>1 DEF PairInv, Pair
<1>5. ClaimInv BY <1>1, <1>2 DEF ClaimInv, Unexecuted, Acquires
<1>6. OwnerInv BY <1>1 DEF OwnerInv, Owner
<1>7. RecordInv BY DEF RecordInv, Record
<1>8. SlotInv
  <2>1. \A q \in Procs : Holding(q) = {} /\ Counted(q) = {} BY <1>1 DEF Holding, Counted
  <2>2. \A q \in Procs : /\ IsFiniteSet(Counted(q)) /\ Cardinality(Counted(q)) = 0
                         /\ Cardinality(Holding(q)) = 0
    BY <2>1, FS_EmptySet
  <2>3. 0 <= MaxConcurrent BY PipelineAssumption
  <2> QED BY <1>2, <2>2, <2>3 DEF SlotInv
<1>9. StopInv BY DEF StopInv
<1> QED BY <1>3, <1>4, <1>5, <1>6, <1>7, <1>8, <1>9 DEF IInv

LEMMA NextKeeps == IInv /\ [Next]_vars => IInv'
<1> SUFFICES ASSUME IInv, [Next]_vars PROVE IInv' OBVIOUS
<1>1. CASE UNCHANGED vars
  <2>1. UNCHANGED <<status, pr, told, queue, poll, sem, running, job, service, opened, faults>>
    BY <1>1 DEF vars, rows, slots
  <2>2. SlotInv' /\ StopInv' BY <2>1, SameSlots
  <2>3. Types' BY <2>1 DEF IInv, Types
  <2>4. PairInv' /\ ClaimInv' BY <2>1 DEF IInv, PairInv, Pair, ClaimInv, Unexecuted, Acquires
  <2>5. OwnerInv' /\ RecordInv' BY <2>1 DEF IInv, OwnerInv, Owner, RecordInv, Record
  <2> QED BY <2>2, <2>3, <2>4, <2>5 DEF IInv
<1>2. ASSUME NEW p \in Pipelines, CreateIssuePipeline(p) PROVE IInv' BY <1>2, CreateKeeps
<1>3. ASSUME NEW q \in Procs, Polling(q) PROVE IInv'
  BY <1>3, PollKeeps, PollEndsKeeps, ClaimPipelineKeeps, StartExecutionKeeps DEF Polling
<1>4. ASSUME NEW q \in Procs, Stopping(q) \/ Stop(q) \/ Restart(q) PROVE IInv'
  BY <1>4, ServiceKeeps
<1>5. ASSUME NEW q \in Procs, Exit(q) \/ Crash(q) PROVE IInv'
  BY <1>5, ForgottenKeeps DEF Exit, Crash
<1>6. ASSUME NEW q \in Procs, NEW p \in Pipelines, Execution(q, p) PROVE IInv'
  BY <1>6, PrepareKeeps, ExecuteFailsKeeps, ExecuteKeeps DEF Execution
<1>7. ASSUME NEW q \in Procs, NEW p \in Pipelines, Finishing(q, p) PROVE IInv'
  BY <1>7, ReadSessionKeeps, NoBranchKeeps, CreatePullRequestKeeps, PullRequestFailsKeeps,
     FinishKeeps DEF Finishing
<1>8. ASSUME NEW q \in Procs, NEW p \in Pipelines, Supervision(q, p) PROVE IInv'
  BY <1>8, ExecutionTimeoutKeeps, ReleaseKeeps DEF Supervision
<1> QED BY <1>1, <1>2, <1>3, <1>4, <1>5, <1>6, <1>7, <1>8 DEF Next

LEMMA InductiveInvariant == Spec => []IInv
BY InitEstablishes, NextKeeps, PTL DEF Spec

LEMMA ImpliesPipelineInv == IInv => PipelineInv
<1> SUFFICES ASSUME IInv PROVE PipelineInv OBVIOUS
<1> USE PipelineAssumption
<1>1. \A q \in Procs : /\ sem[q] \in Nat /\ running[q] \in Nat
                       /\ sem[q] <= running[q] /\ running[q] <= MaxConcurrent
  <2> TAKE q \in Procs
  <2>1. /\ IsFiniteSet(Counted(q)) /\ sem[q] = Cardinality(Holding(q))
        /\ running[q] = Cardinality(Counted(q)) /\ running[q] <= MaxConcurrent
    BY DEF IInv, SlotInv
  <2>2. Holding(q) \subseteq Counted(q) BY DEF Holding, Counted
  <2>3. IsFiniteSet(Holding(q)) /\ Cardinality(Holding(q)) <= Cardinality(Counted(q))
    BY <2>1, <2>2, FS_Subset
  <2> QED BY <2>1, <2>3, FS_CardinalityType
<1>2. TypeOK BY <1>1 DEF IInv, Types, TypeOK, Jobs, Outer, Inner
<1>3. SlotAvailable
  <2> SUFFICES ASSUME NEW q \in Procs, poll[q].pc = "acquire" PROVE sem[q] < MaxConcurrent
    BY DEF SlotAvailable
  <2>1. poll[q].list \in Seq(Pipelines) /\ poll[q].list # <<>>
        /\ running[q] + Len(poll[q].list) <= MaxConcurrent
    BY DEF IInv, Types, SlotInv
  <2>2. Len(poll[q].list) \in Nat \ {0} BY <2>1, EmptySeq
  <2> QED BY <1>1, <2>1, <2>2
<1>4. OnePullRequest BY DEF IInv, RecordInv, Record, OnePullRequest
<1>5. StoppedIsIdle
  <2> SUFFICES ASSUME NEW q \in Procs, service[q] = "stopped"
               PROVE  /\ poll[q].pc = "idle"
                      /\ \A p \in Pipelines : /\ job[q][p].outer \in {"none", "gone"}
                                              /\ faults = 0 /\ job[q][p].outer = "gone"
                                                   => status[p] # "running"
    BY DEF StoppedIsIdle
  <2>1. poll[q].pc = "idle" /\ running[q] = 0 BY DEF IInv, StopInv
  <2>2. Counted(q) = {}
    <3>1. IsFiniteSet(Counted(q)) /\ Cardinality(Counted(q)) = 0 BY <2>1 DEF IInv, SlotInv
    <3> QED BY <3>1, FS_EmptySet
  <2>3. \A p \in Pipelines : job[q][p].outer \in {"none", "gone"}
    BY <2>2 DEF Counted, IInv, Types, Jobs, Outer
  <2>4. \A p \in Pipelines : faults = 0 /\ job[q][p].outer = "gone" => status[p] # "running"
    BY DEF IInv, OwnerInv, Owner
  <2> QED BY <2>1, <2>3, <2>4
<1> QED BY <1>2, <1>3, <1>4, <1>5 DEF PipelineInv

LEMMA ImpliesPullRequestRecorded == IInv => PullRequestRecorded
<1> SUFFICES ASSUME IInv PROVE PullRequestRecorded OBVIOUS
<1>1. \A p \in Pipelines : Record(p) /\ \A q \in Procs : Owner(q, p)
  BY DEF IInv, RecordInv, OwnerInv
<1> QED BY <1>1 DEF PullRequestRecorded, Record, Owner

(* poll, claimPipeline and executeWithTimeout: whatever the number of       *)
(* processes, rows and faults, a claimed row finds a place in the semaphore *)
(* of its process, one pull request at most is opened for it, and a Stop    *)
(* that has returned leaves nothing at work.                                *)
THEOREM PipelineCorrect == Spec => []PipelineInv
BY InductiveInvariant, ImpliesPipelineInv, PTL

(* executePipeline and the two writers of the row: a recorded pull request  *)
(* was opened, an opened one is recorded once the goroutine has ended and   *)
(* no statement failed, and no such row says that there is no branch.       *)
THEOREM PullRequestsRecorded == Spec => []PullRequestRecorded
BY InductiveInvariant, ImpliesPullRequestRecorded, PTL
=============================================================================
