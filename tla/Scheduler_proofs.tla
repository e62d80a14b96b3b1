-------------------------- MODULE Scheduler_proofs --------------------------
(* Proofs about Scheduler for any sets of schedules, processes and          *)
(* goroutines and any bounds: the semaphore and the counter are the numbers *)
(* of goroutines that hold them, so that a claimed row finds a place, and a *)
(* row that a poll may still claim is over.                                 *)
EXTENDS Scheduler, FiniteSetTheorems, SequenceTheorems, WellFoundedInduction, TLAPS

Executions == [sched : Schedules \cup {"none"}, proc : Procs \cup {"none"},
               outer : {"free", "wait", "disable", "leave", "count", "done"},
               inner : {"free", "prepare", "execute", "read", "gone"},
               age : 0 .. Timeout, own : {"none", "pending", "done"},
               sent : {"none", "nil", "err"}]

Polls == [pc : {"idle", "claim", "acquire"}, slots : 0 .. MaxConcurrent,
          list : Seq(Schedules), fresh : SUBSET Schedules]

(* The answer of GetDueSchedules has each row once, active and over, and a  *)
(* row that was not rewritten since a poll read it is still over.           *)
Distinct(q) == \A i, k \in 1 .. Len(q) : q[i] = q[k] => i = k

DueInv ==
  /\ Distinct(due)
  /\ \A i \in 1 .. Len(due) : active[due[i]] /\ wait[due[i]] = 0
  /\ \A p \in Procs : \A s \in poll[p].fresh : wait[s] = 0

RowInv ==
  /\ clock \in 0 .. Period - 1
  /\ active \in [Schedules -> BOOLEAN]
  /\ wait \in [Schedules -> 0 .. Period]
  /\ due \in Seq(Schedules)
  /\ failures \in [Schedules -> 0 .. FailureLimit]
  /\ poll \in [Procs -> Polls]
  /\ DueInv

Holding(p) == {j \in Jobs : job[j].proc = p /\ job[j].outer \in {"wait", "disable", "leave"}}
Counted(p) == {j \in Jobs : /\ job[j].proc = p
                            /\ job[j].outer \in {"wait", "disable", "leave", "count"}}

(* The semaphore and the counter are the numbers of goroutines that hold    *)
(* them.  Both goroutines of an execution are there, or neither, and know   *)
(* their row and their process.                                             *)
ExecInv ==
  /\ job \in [Jobs -> Executions]
  /\ sem \in [Procs -> Int] /\ running \in [Procs -> Int]
  /\ \A j \in Jobs :
       /\ job[j].outer = "free" <=> job[j].inner = "free"
       /\ job[j].outer # "free" => job[j].sched \in Schedules /\ job[j].proc \in Procs
  /\ \A p \in Procs : /\ IsFiniteSet(Counted(p))
                      /\ sem[p] = Cardinality(Holding(p))
                      /\ running[p] = Cardinality(Counted(p))

(* A poll never has more places than the counter leaves.                    *)
PollInv ==
  \A p \in Procs :
    /\ running[p] <= MaxConcurrent
    /\ poll[p].pc # "idle" => /\ poll[p].list # <<>> /\ poll[p].slots >= 1
                              /\ running[p] + poll[p].slots <= MaxConcurrent

RestInv ==
  /\ service \in [Procs -> {"up", "stopping", "draining", "stopped", "down"}]
  /\ faults \in 0 .. MaxFaults

IInv == RowInv /\ ExecInv /\ PollInv /\ RestInv

-----------------------------------------------------------------------------
(* Sequences                                                                *)

(* A set of numbers that is not empty has a least one.                      *)
LEMMA MinFacts ==
  ASSUME NEW I \in SUBSET Nat, I # {}
  PROVE  Min(I) \in I /\ \A i \in I : Min(I) <= i
<1>1. PICK x \in I : \A y \in I : ~(<<y, x>> \in OpToRel(<, Nat))
  BY NatLessThanWellFounded, WFMin
<1>2. \A y \in Nat : y < x => <<y, x>> \in OpToRel(<, Nat) BY DEF OpToRel
<1>3. \A y \in I : ~(y < x) BY <1>1, <1>2
<1>4. \A y \in I : x <= y BY <1>3
<1> QED BY <1>4 DEF Min

(* A sequence without its element at k.                                     *)
LEMMA RemoveAtFacts ==
  ASSUME NEW S, NEW q \in Seq(S), NEW k \in 1 .. Len(q)
  PROVE  /\ RemoveAt(q, k) \in Seq(S) /\ Len(RemoveAt(q, k)) = Len(q) - 1
         /\ \A i \in 1 .. Len(q) - 1 : RemoveAt(q, k)[i] = IF i < k THEN q[i] ELSE q[i + 1]
<1> DEFINE front == SubSeq(q, 1, k - 1)
           back == SubSeq(q, k + 1, Len(q))
<1>1. Len(q) \in Nat BY LenProperties
<1>2. /\ front \in Seq(S) /\ Len(front) = k - 1
      /\ \A i \in 1 .. k - 1 : front[i] = q[i]
  BY <1>1
<1>3. /\ back \in Seq(S) /\ Len(back) = Len(q) - k
      /\ \A i \in 1 .. Len(q) - k : back[i] = q[k + i]
  BY <1>1
<1>4. RemoveAt(q, k) = front \o back BY DEF RemoveAt
<1> HIDE DEF front, back
<1>5. /\ front \o back \in Seq(S) /\ Len(front \o back) = Len(front) + Len(back)
      /\ \A i \in 1 .. Len(front) + Len(back) :
           (front \o back)[i] = IF i <= Len(front) THEN front[i] ELSE back[i - Len(front)]
  BY <1>2, <1>3, ConcatProperties
<1>6. \A i \in 1 .. Len(q) - 1 : (front \o back)[i] = IF i < k THEN q[i] ELSE q[i + 1]
  <2> TAKE i \in 1 .. Len(q) - 1
  <2>1. CASE i < k BY <1>1, <1>2, <1>3, <1>5, <2>1
  <2>2. CASE ~(i < k)
    <3>1. (front \o back)[i] = back[i - (k - 1)] BY <1>1, <1>2, <1>3, <1>5, <2>2
    <3>2. i - (k - 1) \in 1 .. Len(q) - k /\ k + (i - (k - 1)) = i + 1 BY <1>1, <2>2
    <3> QED BY <1>3, <2>2, <3>1, <3>2
  <2> QED BY <2>1, <2>2
<1> QED BY <1>1, <1>2, <1>3, <1>4, <1>5, <1>6

(* RemoveFirst removes the only occurrence of an element and adds none.     *)
LEMMA RemoveFirstFacts ==
  ASSUME NEW S, NEW q \in Seq(S), Distinct(q), NEW e
  PROVE  /\ RemoveFirst(q, e) \in Seq(S) /\ Distinct(RemoveFirst(q, e))
         /\ \A i \in 1 .. Len(RemoveFirst(q, e)) :
              /\ RemoveFirst(q, e)[i] # e
              /\ \E k \in 1 .. Len(q) : RemoveFirst(q, e)[i] = q[k]
<1> DEFINE I == {i \in 1 .. Len(q) : q[i] = e}
           r == RemoveFirst(q, e)
<1>1. Len(q) \in Nat BY LenProperties
<1>2. CASE I = {}
  <2>1. r = q BY <1>2 DEF RemoveFirst
  <2> QED BY <1>2, <2>1
<1>3. CASE I # {}
  <2>1. Min(I) \in I
    <3>1. I \in SUBSET Nat BY <1>1
    <3> HIDE DEF I
    <3> QED BY <1>3, <3>1, MinFacts
  <2>2. r = RemoveAt(q, Min(I)) BY <1>3 DEF RemoveFirst, SelectInSeq
  <2>3. PICK k \in 1 .. Len(q) : q[k] = e /\ r = RemoveAt(q, k) BY <2>1, <2>2
  <2>4. /\ r \in Seq(S) /\ Len(r) = Len(q) - 1
        /\ \A i \in 1 .. Len(q) - 1 : r[i] = IF i < k THEN q[i] ELSE q[i + 1]
    BY <2>3, RemoveAtFacts
  <2> HIDE DEF r
  <2>5. \A i \in 1 .. Len(q) - 1 : r[i] # e /\ \E n \in 1 .. Len(q) : r[i] = q[n]
    <3> TAKE i \in 1 .. Len(q) - 1
    <3>1. CASE i < k BY <1>1, <2>3, <2>4, <3>1 DEF Distinct
    <3>2. CASE ~(i < k)
      <4>1. i + 1 \in 1 .. Len(q) /\ i + 1 # k /\ r[i] = q[i + 1] BY <1>1, <2>4, <3>2
      <4> QED BY <2>3, <4>1 DEF Distinct
    <3> QED BY <3>1, <3>2
  <2>6. Distinct(r)
    <3> SUFFICES ASSUME NEW i \in 1 .. Len(q) - 1, NEW n \in 1 .. Len(q) - 1, r[i] = r[n]
                 PROVE  i = n
      BY <2>4 DEF Distinct
    <3>1. /\ (IF i < k THEN i ELSE i + 1) \in 1 .. Len(q)
          /\ (IF n < k THEN n ELSE n + 1) \in 1 .. Len(q)
      BY <1>1
    <3>2. (IF i < k THEN i ELSE i + 1) = (IF n < k THEN n ELSE n + 1)
      BY <2>4, <3>1 DEF Distinct
    <3> QED BY <1>1, <3>2
  <2> QED BY <2>4, <2>5, <2>6 DEF r
<1> QED BY <1>2, <1>3

-----------------------------------------------------------------------------
(* Rows                                                                     *)

(* What the polls keep when a row is rewritten.                             *)
SamePolls == \A p \in Procs : /\ poll'[p].pc = poll[p].pc /\ poll'[p].slots = poll[p].slots
                              /\ poll'[p].list = poll[p].list

LEMMA TouchedFacts ==
  ASSUME RowInv, NEW s \in Schedules
  PROVE  /\ Touched(s) \in [Procs -> Polls]
         /\ \A p \in Procs : /\ Touched(s)[p].pc = poll[p].pc
                             /\ Touched(s)[p].slots = poll[p].slots
                             /\ Touched(s)[p].list = poll[p].list
                             /\ Touched(s)[p].fresh = poll[p].fresh \ {s}
<1> DEFINE after(p) == [poll[p] EXCEPT !.fresh = @ \ {s}]
<1>1. \A p \in Procs : /\ after(p) \in Polls /\ after(p).pc = poll[p].pc
                       /\ after(p).slots = poll[p].slots /\ after(p).list = poll[p].list
                       /\ after(p).fresh = poll[p].fresh \ {s}
  <2> TAKE p \in Procs
  <2>1. poll[p] \in Polls BY DEF RowInv
  <2> QED BY <2>1 DEF Polls
<1>2. Touched(s) = [p \in Procs |-> after(p)] BY DEF Touched
<1> HIDE DEF after
<1> QED BY <1>1, <1>2

LEMMA DueFacts ==
  ASSUME RowInv, NEW s \in Schedules, due' = RemoveFirst(due, s)
  PROVE  /\ due' \in Seq(Schedules) /\ Distinct(due')
         /\ \A i \in 1 .. Len(due') : /\ due'[i] \in Schedules /\ due'[i] # s
                                      /\ active[due'[i]] /\ wait[due'[i]] = 0
<1>1. /\ due' \in Seq(Schedules) /\ Distinct(due')
      /\ \A i \in 1 .. Len(due') : due'[i] # s /\ \E k \in 1 .. Len(due) : due'[i] = due[k]
  BY RemoveFirstFacts, SMTT(30) DEF RowInv, DueInv
<1>2. \A i \in 1 .. Len(due') : due'[i] \in Schedules BY <1>1, ElementOfSeq
<1>3. \A k \in 1 .. Len(due) : active[due[k]] /\ wait[due[k]] = 0 BY DEF RowInv, DueInv
<1>4. \A i \in 1 .. Len(due') : active[due'[i]] /\ wait[due'[i]] = 0 BY <1>1, <1>3
<1> QED BY <1>1, <1>2, <1>4

(* A row is given a next_run_at in the future; fresh are the rows that the  *)
(* polls may still claim.                                                   *)
LEMMA RescheduleKeeps ==
  ASSUME RowInv, NEW s \in Schedules, NEW delay \in 1 .. Period, Reschedule(s, delay),
         poll' \in [Procs -> Polls],
         \A p \in Procs : poll'[p].fresh \subseteq poll[p].fresh \ {s},
         UNCHANGED clock, active' \in [Schedules -> BOOLEAN],
         \A t \in Schedules \ {s} : active'[t] = active[t],
         failures' \in [Schedules -> 0 .. FailureLimit]
  PROVE  RowInv'
<1>1. /\ wait' \in [Schedules -> 0 .. Period]
      /\ \A t \in Schedules \ {s} : wait'[t] = wait[t]
  BY SchedulerAssumption DEF Reschedule, RowInv
<1>2. /\ due' \in Seq(Schedules) /\ Distinct(due')
      /\ \A i \in 1 .. Len(due') : /\ due'[i] \in Schedules /\ due'[i] # s
                                   /\ active[due'[i]] /\ wait[due'[i]] = 0
  BY DueFacts DEF Reschedule
<1>3. \A p \in Procs : poll'[p].fresh \subseteq Schedules \ {s} BY DEF Polls
<1>4. DueInv' BY <1>1, <1>2, <1>3 DEF RowInv, DueInv
<1> QED BY <1>1, <1>2, <1>4 DEF RowInv

LEMMA NextRunFacts ==
  ASSUME RowInv
  PROVE  ComputeNextRunAt \in 1 .. Period /\ ClaimExtension \in 1 .. Period
BY SchedulerAssumption DEF RowInv, ComputeNextRunAt

LEMMA UpdateKeeps ==
  ASSUME RowInv, NEW s \in Schedules, NEW result \in {"done", "error"},
         UpdateScheduleAfterRun(s, result), UNCHANGED clock
  PROVE  RowInv' /\ SamePolls
<1>1. failures' \in [Schedules -> 0 .. FailureLimit]
  BY SchedulerAssumption DEF RowInv, UpdateScheduleAfterRun, Least
<1>2. Reschedule(s, ComputeNextRunAt) /\ poll' = Touched(s) /\ UNCHANGED active
  BY DEF UpdateScheduleAfterRun
<1>3. poll' \in [Procs -> Polls] /\ SamePolls
      /\ \A p \in Procs : poll'[p].fresh \subseteq poll[p].fresh \ {s}
  BY <1>2, TouchedFacts DEF SamePolls
<1>4. active \in [Schedules -> BOOLEAN] BY DEF RowInv
<1> QED BY <1>1, <1>2, <1>3, <1>4, NextRunFacts, RescheduleKeeps

LEMMA SwitchOffKeeps ==
  ASSUME RowInv, NEW s \in Schedules, SwitchOff(s), UNCHANGED <<clock, failures>>
  PROVE  RowInv' /\ UNCHANGED poll
<1>1. /\ due' \in Seq(Schedules) /\ Distinct(due')
      /\ \A i \in 1 .. Len(due') : /\ due'[i] \in Schedules /\ due'[i] # s
                                   /\ active[due'[i]] /\ wait[due'[i]] = 0
  BY DueFacts DEF SwitchOff
<1>2. /\ active' \in [Schedules -> BOOLEAN]
      /\ \A t \in Schedules \ {s} : active'[t] = active[t]
      /\ UNCHANGED <<wait, poll>>
  BY DEF SwitchOff, RowInv
<1>3. DueInv' BY <1>1, <1>2 DEF RowInv, DueInv
<1> QED BY <1>1, <1>2, <1>3 DEF RowInv

(* Rows that become due together are appended in some order.                *)
LEMMA SetToSeqsFacts ==
  ASSUME NEW S, IsFiniteSet(S), NEW q \in SetToSeqs(S)
  PROVE  q \in Seq(S) /\ Distinct(q)
<1>1. Cardinality(S) \in Nat BY FS_CardinalityType
<1>2. q \in [1 .. Cardinality(S) -> S]
      /\ \A i, k \in 1 .. Cardinality(S) : i # k => q[i] # q[k]
  BY DEF SetToSeqs
<1>3. q \in Seq(S) /\ Len(q) = Cardinality(S) BY <1>1, <1>2
<1> QED BY <1>2, <1>3 DEF Distinct

LEMMA TickRows ==
  ASSUME RowInv, Tick
  PROVE  RowInv' /\ UNCHANGED poll
<1> USE SchedulerAssumption
<1> DEFINE next == {s \in Schedules : active[s] /\ wait[s] = 1}
<1>1. clock \in 0 .. Period - 1 /\ wait \in [Schedules -> 0 .. Period] /\ due \in Seq(Schedules)
  BY DEF RowInv
<1>2. clock' \in 0 .. Period - 1 BY <1>1 DEF Tick
<1>3. /\ wait' \in [Schedules -> 0 .. Period]
      /\ \A s \in Schedules : (wait[s] = 0 \/ wait[s] = 1) => wait'[s] = 0
  BY <1>1 DEF Tick
<1>4. PICK late \in SetToSeqs(next) : due' = due \o late BY DEF Tick
<1>5. IsFiniteSet(next)
  <2>1. next \in SUBSET Schedules OBVIOUS
  <2> HIDE DEF next
  <2> QED BY <2>1, FS_Subset
<1>6. late \in Seq(next) /\ Distinct(late) BY <1>4, <1>5, SetToSeqsFacts
<1>7. \A i \in 1 .. Len(late) : late[i] \in next
  <2> HIDE DEF next
  <2> QED BY <1>6, ElementOfSeq
<1>8. late \in Seq(Schedules)
  <2>1. next \subseteq Schedules OBVIOUS
  <2> HIDE DEF next
  <2> QED BY <1>6, <2>1, SeqMonotonic
<1>9. Len(due) \in Nat /\ Len(late) \in Nat BY <1>1, <1>8, LenProperties
<1>10. /\ due' \in Seq(Schedules) /\ Len(due') = Len(due) + Len(late)
       /\ \A i \in 1 .. Len(due) + Len(late) :
            due'[i] = IF i <= Len(due) THEN due[i] ELSE late[i - Len(due)]
  BY <1>1, <1>4, <1>8, ConcatProperties
<1>11. \A i \in 1 .. Len(due) : due[i] \in Schedules /\ active[due[i]] /\ wait[due[i]] = 0
  BY <1>1, ElementOfSeq DEF RowInv, DueInv
<1>12. \A i \in 1 .. Len(late) :
         late[i] \in Schedules /\ active[late[i]] /\ wait[late[i]] = 1
  BY <1>7
<1> HIDE DEF next
<1>13. Distinct(due')
  <2> SUFFICES ASSUME NEW i \in 1 .. Len(due) + Len(late), NEW k \in 1 .. Len(due) + Len(late),
                      due'[i] = due'[k]
               PROVE  i = k
    BY <1>10 DEF Distinct
  <2>1. CASE i <= Len(due) /\ k <= Len(due)
    <3>1. i \in 1 .. Len(due) /\ k \in 1 .. Len(due) /\ due[i] = due[k] BY <1>9, <1>10, <2>1
    <3> QED BY <3>1 DEF RowInv, DueInv, Distinct
  <2>2. CASE ~(i <= Len(due)) /\ ~(k <= Len(due))
    <3>1. /\ i - Len(due) \in 1 .. Len(late) /\ k - Len(due) \in 1 .. Len(late)
          /\ late[i - Len(due)] = late[k - Len(due)]
      BY <1>9, <1>10, <2>2
    <3>2. i - Len(due) = k - Len(due) BY <1>6, <3>1 DEF Distinct
    <3> QED BY <1>9, <3>2
  <2>3. CASE i <= Len(due) /\ ~(k <= Len(due))
    <3>1. i \in 1 .. Len(due) /\ k - Len(due) \in 1 .. Len(late)
          /\ due[i] = late[k - Len(due)]
      BY <1>9, <1>10, <2>3
    <3> QED BY <1>11, <1>12, <3>1
  <2>4. CASE ~(i <= Len(due)) /\ k <= Len(due)
    <3>1. k \in 1 .. Len(due) /\ i - Len(due) \in 1 .. Len(late)
          /\ due[k] = late[i - Len(due)]
      BY <1>9, <1>10, <2>4
    <3> QED BY <1>11, <1>12, <3>1
  <2> QED BY <2>1, <2>2, <2>3, <2>4
<1>14. \A i \in 1 .. Len(due') : active[due'[i]] /\ wait'[due'[i]] = 0
  <2> SUFFICES ASSUME NEW i \in 1 .. Len(due) + Len(late)
               PROVE  active[due'[i]] /\ wait'[due'[i]] = 0
    BY <1>10
  <2>1. CASE i <= Len(due)
    <3>1. i \in 1 .. Len(due) /\ due'[i] = due[i] BY <1>9, <1>10, <2>1
    <3> QED BY <1>3, <1>11, <3>1
  <2>2. CASE ~(i <= Len(due))
    <3>1. i - Len(due) \in 1 .. Len(late) /\ due'[i] = late[i - Len(due)] BY <1>9, <1>10, <2>2
    <3> QED BY <1>3, <1>12, <3>1
  <2> QED BY <2>1, <2>2
<1>15. UNCHANGED <<active, failures, poll>> BY DEF Tick
<1>16. \A p \in Procs : poll[p].fresh \subseteq Schedules BY DEF RowInv, Polls
<1>17. DueInv' BY <1>3, <1>13, <1>14, <1>15, <1>16 DEF RowInv, DueInv
<1> QED BY <1>2, <1>3, <1>10, <1>15, <1>17 DEF RowInv

(* Rows and polls that a step leaves alone.                                 *)
LEMMA SameRows ==
  ASSUME RowInv, UNCHANGED <<clock, rows, poll>>
  PROVE  RowInv'
BY DEF RowInv, DueInv, rows

(* PollInv depends on the places of a poll and the counter.                 *)
LEMMA SamePollInv ==
  ASSUME PollInv, SamePolls, \A p \in Procs : running'[p] <= running[p],
         running \in [Procs -> Int], running' \in [Procs -> Int], poll \in [Procs -> Polls]
  PROVE  PollInv'
<1> USE SchedulerAssumption
<1> SUFFICES ASSUME NEW p \in Procs
             PROVE  /\ running'[p] <= MaxConcurrent
                    /\ poll'[p].pc # "idle" =>
                         /\ poll'[p].list # <<>> /\ poll'[p].slots >= 1
                         /\ running'[p] + poll'[p].slots <= MaxConcurrent
  BY DEF PollInv
<1>1. /\ running[p] \in Int /\ running'[p] \in Int /\ running'[p] <= running[p]
      /\ poll[p].slots \in Int /\ running[p] <= MaxConcurrent
      /\ poll[p].pc # "idle" => /\ poll[p].list # <<>> /\ poll[p].slots >= 1
                                /\ running[p] + poll[p].slots <= MaxConcurrent
  BY DEF PollInv, Polls
<1>2. /\ poll'[p].pc = poll[p].pc /\ poll'[p].slots = poll[p].slots
      /\ poll'[p].list = poll[p].list
  BY DEF SamePolls
<1> QED BY <1>1, <1>2

-----------------------------------------------------------------------------
(* Executions                                                               *)

(* A step of one of the two goroutines of an execution.                     *)
JobStep(j, new) ==
  /\ job[j].outer # "free"
  /\ new \in Executions /\ new.outer # "free" /\ new.inner # "free"
  /\ new.sched = job[j].sched /\ new.proc = job[j].proc
  /\ Becomes(j, new)

LEMMA JobStepFacts ==
  ASSUME ExecInv, NEW j \in Jobs, NEW new, JobStep(j, new)
  PROVE  /\ job' \in [Jobs -> Executions]
         /\ \A i \in Jobs : /\ job'[i].outer = "free" <=> job'[i].inner = "free"
                            /\ job'[i].outer # "free" => /\ job'[i].sched \in Schedules
                                                         /\ job'[i].proc \in Procs
         /\ \A i \in Jobs \ {j} : job'[i] = job[i]
         /\ \/ job'[j] = new
            \/ new.outer = "done" /\ job'[j].outer = "free"
<1> DEFINE value == IF new.outer = "done" /\ new.inner = "gone" THEN Free ELSE new
<1>1. Free \in Executions /\ Free.outer = "free" /\ Free.inner = "free"
  BY SchedulerAssumption DEF Free, Executions
<1>2. job[j].sched \in Schedules /\ job[j].proc \in Procs BY DEF ExecInv, JobStep
<1>3. /\ value \in Executions
      /\ value.outer = "free" <=> value.inner = "free"
      /\ value.outer # "free" => value.sched \in Schedules /\ value.proc \in Procs
      /\ value = new \/ (new.outer = "done" /\ value.outer = "free")
  BY <1>1, <1>2 DEF JobStep
<1>4. job' = [job EXCEPT ![j] = value] BY DEF JobStep, Becomes
<1> HIDE DEF value
<1>5. job'[j] = value /\ \A i \in Jobs \ {j} : job'[i] = job[i] BY <1>4 DEF ExecInv
<1> QED BY <1>3, <1>4, <1>5 DEF ExecInv

Held == {"wait", "disable", "leave"}

(* executeSchedule moves, or executeWithTimeout does without giving back.   *)
LEMMA KeepsSlots ==
  ASSUME ExecInv, NEW j \in Jobs, NEW new, JobStep(j, new), UNCHANGED slots,
         new.outer \in Held <=> job[j].outer \in Held,
         new.outer = "count" <=> job[j].outer = "count"
  PROVE  ExecInv'
<1>1. /\ job' \in [Jobs -> Executions]
      /\ \A i \in Jobs : /\ job'[i].outer = "free" <=> job'[i].inner = "free"
                         /\ job'[i].outer # "free" => /\ job'[i].sched \in Schedules
                                                      /\ job'[i].proc \in Procs
      /\ \A i \in Jobs \ {j} : job'[i] = job[i]
      /\ \/ job'[j] = new
         \/ new.outer = "done" /\ job'[j].outer = "free"
  BY JobStepFacts
<1>2. new.proc = job[j].proc BY DEF JobStep
<1>3. \A p \in Procs : Holding(p)' = Holding(p) /\ Counted(p)' = Counted(p)
  BY <1>1, <1>2 DEF Holding, Counted, Held
<1> QED BY <1>1, <1>3 DEF ExecInv, slots

(* The semaphore is given back.                                             *)
LEMMA ReleaseSlotKeeps ==
  ASSUME ExecInv, NEW j \in Jobs, NEW new, JobStep(j, new), UNCHANGED running,
         job[j].outer \in Held, new.outer = "count", sem' = [sem EXCEPT ![job[j].proc] = @ - 1]
  PROVE  ExecInv'
<1>0. PICK q \in Procs : q = job[j].proc BY DEF JobStep, ExecInv
<1>1. /\ job' \in [Jobs -> Executions]
      /\ \A i \in Jobs : /\ job'[i].outer = "free" <=> job'[i].inner = "free"
                         /\ job'[i].outer # "free" => /\ job'[i].sched \in Schedules
                                                      /\ job'[i].proc \in Procs
      /\ \A i \in Jobs \ {j} : job'[i] = job[i]
      /\ job'[j] = new
  BY JobStepFacts
<1>2. new.proc = q BY <1>0 DEF JobStep
<1>3. \A p \in Procs : Counted(p)' = Counted(p)
  BY <1>0, <1>1, <1>2 DEF Counted, Held
<1>4. \A p \in Procs \ {q} : Holding(p)' = Holding(p)
  BY <1>0, <1>1, <1>2 DEF Holding
<1>5. Holding(q)' = Holding(q) \ {j} /\ j \in Holding(q)
  BY <1>0, <1>1 DEF Holding, Held
<1>6. IsFiniteSet(Counted(q)) /\ sem[q] = Cardinality(Holding(q)) BY DEF ExecInv
<1>7. Cardinality(Holding(q)') = sem[q] - 1
  <2>1. Holding(q) \subseteq Counted(q) BY DEF Holding, Counted
  <2>2. IsFiniteSet(Holding(q)) BY <1>6, <2>1, FS_Subset
  <2> QED BY <1>5, <1>6, <2>2, FS_RemoveElement
<1>8. /\ sem' \in [Procs -> Int] /\ sem'[q] = sem[q] - 1
      /\ \A p \in Procs \ {q} : sem'[p] = sem[p]
  BY <1>0 DEF ExecInv
<1>9. \A p \in Procs : /\ IsFiniteSet(Counted(p)') /\ sem'[p] = Cardinality(Holding(p)')
                       /\ running'[p] = Cardinality(Counted(p)')
  <2> TAKE p \in Procs
  <2>1. CASE p = q
    <3>1. /\ IsFiniteSet(Counted(q)) /\ sem[q] = Cardinality(Holding(q))
          /\ running[q] = Cardinality(Counted(q)) /\ running[q] \in Int
      BY DEF ExecInv
    <3> QED BY <1>3, <1>7, <1>8, <2>1, <3>1
  <2>2. CASE p # q
    <3>1. Counted(p)' = Counted(p) /\ Holding(p)' = Holding(p) BY <1>3, <1>4, <2>2
    <3>2. sem'[p] = sem[p] /\ running'[p] = running[p] BY <1>8, <2>2
    <3>3. /\ IsFiniteSet(Counted(p)) /\ sem[p] = Cardinality(Holding(p))
          /\ running[p] = Cardinality(Counted(p)) /\ running[p] \in Int
      BY DEF ExecInv
    <3> QED BY <3>1, <3>2, <3>3
  <2> QED BY <2>1, <2>2
<1> QED BY <1>1, <1>8, <1>9 DEF ExecInv

(* The counter is given back.                                               *)
LEMMA ReleaseCountKeeps ==
  ASSUME ExecInv, NEW j \in Jobs, NEW new, JobStep(j, new), UNCHANGED sem,
         job[j].outer = "count", new.outer = "done",
         running' = [running EXCEPT ![job[j].proc] = @ - 1]
  PROVE  ExecInv' /\ \A p \in Procs : running'[p] <= running[p]
<1>0. PICK q \in Procs : q = job[j].proc BY DEF JobStep, ExecInv
<1>1. /\ job' \in [Jobs -> Executions]
      /\ \A i \in Jobs : /\ job'[i].outer = "free" <=> job'[i].inner = "free"
                         /\ job'[i].outer # "free" => /\ job'[i].sched \in Schedules
                                                      /\ job'[i].proc \in Procs
      /\ \A i \in Jobs \ {j} : job'[i] = job[i]
      /\ job'[j].outer \in {"done", "free"}
  BY JobStepFacts
<1>3. \A p \in Procs : Holding(p)' = Holding(p) BY <1>1 DEF Holding
<1>4. \A p \in Procs \ {q} : Counted(p)' = Counted(p) BY <1>0, <1>1 DEF Counted
<1>5. Counted(q)' = Counted(q) \ {j} /\ j \in Counted(q)
  <2>1. j \in Counted(q) BY <1>0 DEF Counted
  <2>2. j \notin Counted(q)' BY <1>1 DEF Counted
  <2>3. \A i \in Jobs \ {j} : i \in Counted(q)' <=> i \in Counted(q) BY <1>1 DEF Counted
  <2>4. Counted(q) \subseteq Jobs /\ Counted(q)' \subseteq Jobs BY DEF Counted
  <2> QED BY <2>1, <2>2, <2>3, <2>4
<1>6. IsFiniteSet(Counted(q)) /\ running[q] = Cardinality(Counted(q)) BY DEF ExecInv
<1>7. IsFiniteSet(Counted(q)') /\ Cardinality(Counted(q)') = running[q] - 1
  BY <1>5, <1>6, FS_RemoveElement
<1>8. /\ running' \in [Procs -> Int] /\ running \in [Procs -> Int]
      /\ running'[q] = running[q] - 1
      /\ \A p \in Procs \ {q} : running'[p] = running[p]
  BY <1>0 DEF ExecInv
<1>9. \A p \in Procs : /\ IsFiniteSet(Counted(p)') /\ sem'[p] = Cardinality(Holding(p)')
                       /\ running'[p] = Cardinality(Counted(p)')
                       /\ running'[p] <= running[p]
  <2> TAKE p \in Procs
  <2>1. CASE p = q
    <3>1. /\ IsFiniteSet(Counted(q)) /\ sem[q] = Cardinality(Holding(q))
          /\ running[q] = Cardinality(Counted(q)) /\ running[q] \in Int
      BY DEF ExecInv
    <3> QED BY <1>3, <1>7, <1>8, <2>1, <3>1
  <2>2. CASE p # q
    <3>1. Counted(p)' = Counted(p) /\ Holding(p)' = Holding(p) BY <1>3, <1>4, <2>2
    <3>2. sem'[p] = sem[p] /\ running'[p] = running[p] BY <1>8, <2>2
    <3>3. /\ IsFiniteSet(Counted(p)) /\ sem[p] = Cardinality(Holding(p))
          /\ running[p] = Cardinality(Counted(p)) /\ running[p] \in Int
      BY DEF ExecInv
    <3> QED BY <3>1, <3>2, <3>3
  <2> QED BY <2>1, <2>2
<1> QED BY <1>1, <1>8, <1>9 DEF ExecInv

(* The body of ClaimedIsDue.                                                *)
ClaimStep ==
  \A p \in Procs : poll[p].pc = "claim" /\ poll'[p].pc = "acquire" =>
    LET s == Head(poll[p].list) IN active[s] /\ wait[s] = 0

Keeps == IInv' /\ ClaimStep

LEMMA ExecutionKeeps ==
  ASSUME IInv, RowInv', ExecInv', RestInv', SamePolls, \A p \in Procs : running'[p] <= running[p]
  PROVE  Keeps
<1>1. PollInv' BY SamePollInv DEF IInv, RowInv, ExecInv
<1>2. ClaimStep BY DEF ClaimStep, SamePolls
<1> QED BY <1>1, <1>2 DEF IInv, Keeps

(* The fields that the steps of executeSchedule and executeWithTimeout give *)
(* an execution are of their types.                                         *)
LEMMA ReturnsStep ==
  ASSUME ExecInv, NEW j \in Jobs, job[j].inner # "free", NEW result \in {"nil", "err"},
         Returns(j, result), UNCHANGED slots
  PROVE  ExecInv'
<1> DEFINE new == [job[j] EXCEPT !.inner = "gone", !.sent = result, !.own = "none"]
<1>1. job[j] \in Executions /\ job[j].outer # "free" BY DEF ExecInv
<1>2. /\ new \in Executions /\ new.outer = job[j].outer /\ new.inner = "gone"
      /\ new.sched = job[j].sched /\ new.proc = job[j].proc
  BY <1>1 DEF Executions
<1>3. Becomes(j, new) BY DEF Returns
<1> HIDE DEF new
<1>4. JobStep(j, new) BY <1>1, <1>2, <1>3 DEF JobStep
<1> QED BY <1>2, <1>4, KeepsSlots

LEMMA AdvanceStep ==
  ASSUME ExecInv, NEW j \in Jobs, job[j].inner # "free", NEW pc \in {"execute", "read"},
         NEW own \in {"none", "pending", "done"},
         Becomes(j, [job[j] EXCEPT !.inner = pc, !.own = own]), UNCHANGED slots
  PROVE  ExecInv'
<1> DEFINE new == [job[j] EXCEPT !.inner = pc, !.own = own]
<1>1. job[j] \in Executions /\ job[j].outer # "free" BY DEF ExecInv
<1>2. /\ new \in Executions /\ new.outer = job[j].outer /\ new.inner = pc
      /\ new.sched = job[j].sched /\ new.proc = job[j].proc
  BY <1>1 DEF Executions
<1>3. Becomes(j, new) OBVIOUS
<1> HIDE DEF new
<1>4. JobStep(j, new) BY <1>1, <1>2, <1>3 DEF JobStep
<1> QED BY <1>2, <1>4, KeepsSlots

LEMMA LeavesFacts ==
  ASSUME ExecInv, NEW j \in Jobs, job[j].outer # "free",
         NEW pc \in {"disable", "leave", "count", "done"}, Leaves(j, pc)
  PROVE  \E new : JobStep(j, new) /\ new.outer = pc
<1> DEFINE new == [job[j] EXCEPT !.outer = pc, !.age = 0, !.sent = "none"]
<1>0. 0 \in 0 .. Timeout BY SchedulerAssumption
<1>1. job[j] \in Executions /\ job[j].inner # "free" BY DEF ExecInv
<1>2. /\ new \in Executions /\ new.outer = pc /\ new.inner = job[j].inner
      /\ new.sched = job[j].sched /\ new.proc = job[j].proc
  BY <1>0, <1>1 DEF Executions
<1>3. Becomes(j, new) BY DEF Leaves
<1> HIDE DEF new
<1>4. JobStep(j, new) BY <1>1, <1>2, <1>3 DEF JobStep
<1> QED BY <1>2, <1>4

LEMMA FaultFacts ==
  ASSUME RestInv, UNCHANGED service, UNCHANGED faults \/ Fault
  PROVE  RestInv'
BY SchedulerAssumption DEF RestInv, Fault

LEMMA PrepareKeeps ==
  ASSUME IInv, NEW j \in Jobs, Prepare(j)
  PROVE  Keeps
<1>1. ExecInv' BY AdvanceStep DEF Prepare, IInv
<1>2. RowInv' /\ RestInv' BY SameRows, FaultFacts DEF Prepare, IInv
<1> QED BY <1>1, <1>2, ExecutionKeeps DEF Prepare, SamePolls, slots, IInv, ExecInv

LEMMA ExecuteKeeps ==
  ASSUME IInv, NEW j \in Jobs, Execute(j)
  PROVE  Keeps
<1>1. job[j] \in Executions BY DEF IInv, ExecInv
<1>2. [job[j] EXCEPT !.inner = "read"] = [job[j] EXCEPT !.inner = "read", !.own = job[j].own]
      /\ job[j].own \in {"none", "pending", "done"}
  BY <1>1 DEF Executions
<1>3. ExecInv' BY <1>2, AdvanceStep DEF Execute, IInv
<1>4. RowInv' /\ RestInv' BY SameRows, FaultFacts DEF Execute, IInv
<1> QED BY <1>3, <1>4, ExecutionKeeps DEF Execute, SamePolls, slots, IInv, ExecInv

(* A run is recorded in its row, or the statement fails.                    *)
LEMMA RecordKeeps ==
  ASSUME IInv, NEW s \in Schedules, NEW result \in {"done", "error"}, UNCHANGED clock,
         UpdateScheduleAfterRun(s, result) \/ LostUpdate
  PROVE  RowInv' /\ SamePolls
<1>1. CASE UpdateScheduleAfterRun(s, result) BY <1>1, UpdateKeeps DEF IInv
<1>2. CASE LostUpdate BY <1>2, SameRows DEF LostUpdate, SamePolls, IInv
<1> QED BY <1>1, <1>2

LEMMA ExecuteFailsKeeps ==
  ASSUME IInv, NEW j \in Jobs, ExecuteFails(j)
  PROVE  Keeps
<1>1. job[j].inner # "free" /\ job[j].sched \in Schedules BY DEF ExecuteFails, IInv, ExecInv
<1>2. ExecInv' BY <1>1, ReturnsStep DEF ExecuteFails, IInv
<1>3. RowInv' /\ SamePolls BY <1>1, RecordKeeps DEF ExecuteFails
<1>4. RestInv' BY FaultFacts DEF ExecuteFails, IInv
<1>5. \A p \in Procs : running'[p] <= running[p] BY DEF ExecuteFails, slots, IInv, ExecInv
<1> QED BY <1>2, <1>3, <1>4, <1>5, ExecutionKeeps

LEMMA FinishKeeps ==
  ASSUME IInv, NEW j \in Jobs, Finish(j)
  PROVE  Keeps
<1>1. job[j].inner # "free" /\ job[j].sched \in Schedules BY DEF Finish, IInv, ExecInv
<1>2. ExecInv' BY <1>1, ReturnsStep DEF Finish, IInv
<1>3. FinishedStatus(j) \in {"done", "error"} BY DEF FinishedStatus
<1>4. RowInv' /\ SamePolls BY <1>1, <1>3, RecordKeeps DEF Finish
<1>5. RestInv' BY FaultFacts DEF Finish, IInv
<1>6. \A p \in Procs : running'[p] <= running[p] BY DEF Finish, slots, IInv, ExecInv
<1> QED BY <1>2, <1>4, <1>5, <1>6, ExecutionKeeps

LEMMA MarkFailureKeeps ==
  ASSUME IInv, NEW j \in Jobs, MarkFailure(j)
  PROVE  Keeps
<1>1. job[j].outer = "wait" /\ job[j].sched \in Schedules BY DEF MarkFailure, IInv, ExecInv
<1>2. PICK pc \in {"disable", "leave"} : Leaves(j, pc) BY DEF MarkFailure
<1>3. ExecInv /\ UNCHANGED slots BY DEF IInv, MarkFailure
<1>4. PICK new : JobStep(j, new) /\ new.outer = pc BY <1>1, <1>2, <1>3, LeavesFacts
<1>5. ExecInv' BY <1>1, <1>3, <1>4, KeepsSlots DEF Held
<1>6. RowInv' /\ SamePolls BY <1>1, RecordKeeps DEF MarkFailure
<1>7. RestInv' BY FaultFacts DEF MarkFailure, IInv
<1>8. \A p \in Procs : running'[p] <= running[p] BY <1>3 DEF slots, ExecInv
<1> QED BY <1>5, <1>6, <1>7, <1>8, ExecutionKeeps

LEMMA DisableKeeps ==
  ASSUME IInv, NEW j \in Jobs, Disable(j)
  PROVE  Keeps
<1>1. job[j].outer = "disable" /\ job[j].sched \in Schedules BY DEF Disable, IInv, ExecInv
<1>2. ExecInv /\ UNCHANGED slots /\ Leaves(j, "leave") BY DEF IInv, Disable
<1>3. PICK new : JobStep(j, new) /\ new.outer = "leave" BY <1>1, <1>2, LeavesFacts
<1>4. ExecInv' BY <1>1, <1>2, <1>3, KeepsSlots DEF Held
<1>5. RowInv' /\ UNCHANGED poll
  BY <1>1, SwitchOffKeeps, SameRows DEF Disable, IInv, rows
<1>6. RestInv' BY FaultFacts DEF Disable, IInv
<1>7. \A p \in Procs : running'[p] <= running[p] BY <1>2 DEF slots, ExecInv
<1> QED BY <1>4, <1>5, <1>6, <1>7, ExecutionKeeps DEF SamePolls

LEMMA ReleaseKeeps ==
  ASSUME IInv, NEW j \in Jobs, ReleaseSlot(j) \/ ReleaseCount(j)
  PROVE  Keeps
<1>1. ExecInv /\ UNCHANGED <<clock, rows, poll, service, faults>>
  BY DEF IInv, ReleaseSlot, ReleaseCount
<1>2. RowInv' /\ RestInv' /\ SamePolls BY <1>1, SameRows, FaultFacts DEF IInv, SamePolls
<1>3. CASE ReleaseSlot(j)
  <2>1. job[j].outer \in Held /\ job[j].outer # "free" BY <1>3 DEF ReleaseSlot, Held
  <2>2. PICK new : JobStep(j, new) /\ new.outer = "count"
    BY <1>1, <1>3, <2>1, LeavesFacts DEF ReleaseSlot
  <2>3. ExecInv' BY <1>1, <1>3, <2>1, <2>2, ReleaseSlotKeeps DEF ReleaseSlot
  <2>4. \A p \in Procs : running'[p] <= running[p] BY <1>1, <1>3 DEF ReleaseSlot, ExecInv
  <2> QED BY <1>2, <2>3, <2>4, ExecutionKeeps
<1>4. CASE ReleaseCount(j)
  <2>1. job[j].outer = "count" BY <1>4 DEF ReleaseCount
  <2>2. PICK new : JobStep(j, new) /\ new.outer = "done"
    BY <1>1, <1>4, <2>1, LeavesFacts DEF ReleaseCount
  <2>3. ExecInv' /\ \A p \in Procs : running'[p] <= running[p]
    BY <1>1, <1>4, <2>1, <2>2, ReleaseCountKeeps DEF ReleaseCount
  <2> QED BY <1>2, <2>3, ExecutionKeeps
<1> QED BY <1>3, <1>4

-----------------------------------------------------------------------------
(* poll                                                                     *)

(* Other polls keep their places when one poll moves.                       *)
LEMMA PollMoves ==
  ASSUME IInv, NEW p \in Procs, poll' \in [Procs -> Polls], UNCHANGED running,
         \A r \in Procs \ {p} : /\ poll'[r].pc = poll[r].pc /\ poll'[r].slots = poll[r].slots
                                /\ poll'[r].list = poll[r].list,
         poll'[p].pc # "idle" => /\ poll'[p].list # <<>> /\ poll'[p].slots >= 1
                                 /\ running[p] + poll'[p].slots <= MaxConcurrent
  PROVE  PollInv'
BY DEF IInv, PollInv

(* Rows are read or left alone: what a poll may claim is over.              *)
LEMMA PollRows ==
  ASSUME RowInv, UNCHANGED <<clock, rows>>, poll' \in [Procs -> Polls],
         \A r \in Procs : poll'[r].fresh \subseteq poll[r].fresh \cup ToSet(due)
  PROVE  RowInv'
<1>1. \A s \in ToSet(due) : wait[s] = 0 BY DEF RowInv, DueInv, ToSet
<1> QED BY <1>1 DEF RowInv, DueInv, rows

LEMMA SameExecutions ==
  ASSUME ExecInv, UNCHANGED <<slots, job>>
  PROVE  ExecInv'
<1>1. \A p \in Procs : Holding(p)' = Holding(p) /\ Counted(p)' = Counted(p)
  BY DEF Holding, Counted
<1> QED BY <1>1 DEF ExecInv, slots

LEMMA PollKeeps ==
  ASSUME IInv, NEW p \in Procs, Poll(p)
  PROVE  Keeps
<1> DEFINE n == MaxConcurrent - running[p]
           after == [pc |-> "claim", slots |-> n, list |-> due, fresh |-> ToSet(due)]
<1>0. RowInv /\ ExecInv /\ RestInv BY DEF IInv
<1>1. UNCHANGED <<clock, rows, slots, job, service, faults>> /\ due # <<>> BY DEF Poll
<1>2. running[p] \in Nat
  <2>1. IsFiniteSet(Counted(p)) /\ running[p] = Cardinality(Counted(p)) BY <1>0 DEF ExecInv
  <2> QED BY <2>1, FS_CardinalityType
<1>3. n \in 1 .. MaxConcurrent /\ running[p] + n <= MaxConcurrent
  BY <1>2, SchedulerAssumption DEF Poll
<1>4. ToSet(due) \in SUBSET Schedules BY <1>0, ElementOfSeq DEF RowInv, ToSet
<1>5. poll' = [poll EXCEPT ![p] = after] BY DEF Poll, Claiming
<1> HIDE DEF n
<1>6. n \in 0 .. MaxConcurrent /\ n >= 1 /\ n \in Int BY <1>3, SchedulerAssumption
<1>7. /\ after \in Polls /\ after.pc = "claim" /\ after.list = due /\ after.slots = n
      /\ after.fresh = ToSet(due)
  BY <1>0, <1>4, <1>6 DEF Polls, RowInv
<1> HIDE DEF after
<1>8. /\ poll' \in [Procs -> Polls] /\ poll'[p] = after
      /\ \A r \in Procs \ {p} : poll'[r] = poll[r]
  BY <1>0, <1>5, <1>7 DEF RowInv
<1>9. RowInv'
  <2>1. \A r \in Procs : poll'[r].fresh \subseteq poll[r].fresh \cup ToSet(due)
    <3> TAKE r \in Procs
    <3>1. CASE r = p BY <1>7, <1>8, <3>1
    <3>2. CASE r # p BY <1>8, <3>2
    <3> QED BY <3>1, <3>2
  <2> QED BY <1>0, <1>1, <1>8, <2>1, PollRows
<1>10. PollInv' BY <1>1, <1>3, <1>6, <1>7, <1>8, PollMoves DEF slots
<1>11. ClaimStep
  <2>1. \A r \in Procs : poll'[r].pc = "acquire" => poll[r].pc = "acquire"
    <3> TAKE r \in Procs
    <3>1. CASE r = p BY <1>7, <1>8, <3>1
    <3>2. CASE r # p BY <1>8, <3>2
    <3> QED BY <3>1, <3>2
  <2> QED BY <2>1 DEF ClaimStep
<1>12. ExecInv' /\ RestInv' BY <1>0, <1>1, SameExecutions, FaultFacts
<1> QED BY <1>9, <1>10, <1>11, <1>12 DEF IInv, Keeps

LEMMA PollEndsKeeps ==
  ASSUME IInv, NEW p \in Procs, PollEnds(p)
  PROVE  Keeps
<1>0. RowInv /\ ExecInv /\ RestInv BY DEF IInv
<1>1. UNCHANGED <<clock, rows, slots, job, service, faults>> BY DEF PollEnds
<1>2. Idle \in Polls /\ Idle.pc = "idle" /\ Idle.fresh = {}
  BY SchedulerAssumption, EmptySeq DEF Idle, Polls
<1>3. /\ poll' \in [Procs -> Polls] /\ poll'[p] = Idle
      /\ \A r \in Procs \ {p} : poll'[r] = poll[r]
  BY <1>0, <1>2 DEF RowInv, PollEnds
<1>4. \A r \in Procs : /\ poll'[r].fresh \subseteq poll[r].fresh
                       /\ poll'[r].pc = "acquire" => poll[r].pc = "acquire"
  <2> TAKE r \in Procs
  <2>1. CASE r = p BY <1>2, <1>3, <2>1
  <2>2. CASE r # p BY <1>3, <2>2
  <2> QED BY <2>1, <2>2
<1>5. RowInv' BY <1>0, <1>1, <1>3, <1>4, PollRows
<1>6. PollInv' BY <1>1, <1>2, <1>3, PollMoves DEF slots
<1>7. ClaimStep BY <1>4 DEF ClaimStep
<1>8. ExecInv' /\ RestInv' BY <1>0, <1>1, SameExecutions, FaultFacts
<1> QED BY <1>5, <1>6, <1>7, <1>8 DEF IInv, Keeps

(* The next row of the list with one place less, or the end of the poll.    *)
LEMMA NextRowFacts ==
  ASSUME NEW pl \in [Procs -> Polls], NEW p \in Procs, pl[p].list # <<>>, pl[p].slots >= 1
  PROVE  /\ NextRow(pl, p) \in [Procs -> Polls]
         /\ \A r \in Procs \ {p} : NextRow(pl, p)[r] = pl[r]
         /\ NextRow(pl, p)[p].pc \in {"idle", "claim"}
         /\ NextRow(pl, p)[p].fresh \subseteq pl[p].fresh
         /\ NextRow(pl, p)[p].pc # "idle" => /\ NextRow(pl, p)[p].list # <<>>
                                             /\ NextRow(pl, p)[p].slots >= 1
                                             /\ NextRow(pl, p)[p].slots = pl[p].slots - 1
<1> DEFINE list == pl[p].list
           after == IF Len(list) = 1 \/ pl[p].slots = 1 THEN Idle
                    ELSE [pc |-> "claim", slots |-> pl[p].slots - 1, list |-> Tail(list),
                          fresh |-> pl[p].fresh \ {Head(list)}]
<1>1. /\ list \in Seq(Schedules) /\ pl[p].slots \in 0 .. MaxConcurrent
      /\ pl[p].fresh \in SUBSET Schedules
  BY DEF Polls
<1>2. /\ after \in Polls /\ after.pc \in {"idle", "claim"} /\ after.fresh \subseteq pl[p].fresh
      /\ after.pc # "idle" => /\ after.list # <<>> /\ after.slots >= 1
                              /\ after.slots = pl[p].slots - 1
  <2>1. CASE Len(list) = 1 \/ pl[p].slots = 1
    <3>1. Idle \in Polls /\ Idle.pc = "idle" /\ Idle.fresh = {}
      BY SchedulerAssumption, EmptySeq DEF Idle, Polls
    <3>2. after = Idle BY <2>1
    <3> HIDE DEF after
    <3> QED BY <3>1, <3>2
  <2>2. CASE ~(Len(list) = 1 \/ pl[p].slots = 1)
    <3>1. Len(list) \in Nat \ {0} BY <1>1, EmptySeq
    <3>2. Tail(list) \in Seq(Schedules) /\ Len(Tail(list)) = Len(list) - 1
      BY <1>1, HeadTailProperties
    <3>3. Tail(list) # <<>>
      <4>1. Len(Tail(list)) # 0 BY <2>2, <3>1, <3>2
      <4>2. Len(<<>>) = 0 OBVIOUS
      <4> QED BY <4>1, <4>2
    <3>4. pl[p].slots - 1 \in 0 .. MaxConcurrent /\ pl[p].slots - 1 >= 1
      BY <1>1, <2>2, SchedulerAssumption
    <3>5. after = [pc |-> "claim", slots |-> pl[p].slots - 1, list |-> Tail(list),
                   fresh |-> pl[p].fresh \ {Head(list)}]
      BY <2>2
    <3> HIDE DEF after, list
    <3> QED BY <1>1, <3>2, <3>3, <3>4, <3>5 DEF Polls
  <2> QED BY <2>1, <2>2
<1>3. NextRow(pl, p) = [pl EXCEPT ![p] = after] BY DEF NextRow
<1> HIDE DEF after
<1> QED BY <1>2, <1>3

(* The claim succeeds: the row was over, and is not any more.               *)
LEMMA ClaimSucceeds ==
  ASSUME IInv, NEW p \in Procs, NEW s \in Schedules, s = Head(poll[p].list),
         poll[p].pc = "claim", ClaimMatches(s, p), Reschedule(s, ClaimExtension),
         poll' = [Touched(s) EXCEPT ![p].pc = "acquire"],
         UNCHANGED <<clock, active, failures, faults, slots, job, service>>
  PROVE  Keeps
<1>0. RowInv /\ ExecInv /\ RestInv BY DEF IInv
<1>1. /\ Touched(s) \in [Procs -> Polls]
      /\ \A r \in Procs : /\ Touched(s)[r].pc = poll[r].pc
                          /\ Touched(s)[r].slots = poll[r].slots
                          /\ Touched(s)[r].list = poll[r].list
                          /\ Touched(s)[r].fresh = poll[r].fresh \ {s}
  BY <1>0, TouchedFacts
<1> DEFINE after == [Touched(s)[p] EXCEPT !.pc = "acquire"]
<1>2. /\ after \in Polls /\ after.pc = "acquire" /\ after.slots = poll[p].slots
      /\ after.list = poll[p].list /\ after.fresh = poll[p].fresh \ {s}
  <2>1. Touched(s)[p] \in Polls BY <1>1
  <2> QED BY <1>1, <2>1 DEF Polls
<1>3. poll' = [Touched(s) EXCEPT ![p] = after] OBVIOUS
<1> HIDE DEF after
<1>4. poll' \in [Procs -> Polls] /\ poll'[p] = after
      /\ \A r \in Procs \ {p} : poll'[r] = Touched(s)[r]
  BY <1>1, <1>2, <1>3
<1>5. \A r \in Procs : poll'[r].fresh \subseteq poll[r].fresh \ {s}
  <2> TAKE r \in Procs
  <2>1. CASE r = p BY <1>2, <1>4, <2>1
  <2>2. CASE r # p BY <1>1, <1>4, <2>2
  <2> QED BY <2>1, <2>2
<1>6. RowInv'
  <2>1. active' \in [Schedules -> BOOLEAN] /\ failures' \in [Schedules -> 0 .. FailureLimit]
    BY <1>0 DEF RowInv
  <2> QED BY <1>0, <1>4, <1>5, <2>1, NextRunFacts, RescheduleKeeps
<1>7. PollInv'
  <2>1. poll[p].list # <<>> /\ poll[p].slots >= 1 /\ running[p] + poll[p].slots <= MaxConcurrent
    BY DEF IInv, PollInv
  <2>2. \A r \in Procs \ {p} : /\ poll'[r].pc = poll[r].pc /\ poll'[r].slots = poll[r].slots
                                /\ poll'[r].list = poll[r].list
    BY <1>1, <1>4
  <2>3. /\ poll'[p].list # <<>> /\ poll'[p].slots >= 1
        /\ running[p] + poll'[p].slots <= MaxConcurrent
    BY <1>2, <1>4, <2>1
  <2>4. UNCHANGED running BY DEF slots
  <2> QED BY <1>4, <2>2, <2>3, <2>4, PollMoves
<1>8. ClaimStep
  <2>1. active[s] /\ wait[s] = 0 BY <1>0 DEF ClaimMatches, RowInv, DueInv
  <2>2. \A r \in Procs \ {p} : poll'[r].pc = poll[r].pc BY <1>1, <1>4
  <2> QED BY <2>1, <2>2 DEF ClaimStep
<1>9. ExecInv' /\ RestInv' BY <1>0, SameExecutions, FaultFacts
<1> QED BY <1>6, <1>7, <1>8, <1>9 DEF IInv, Keeps

(* The poll goes on: the row was rewritten or switched off, the statement   *)
(* failed, or its answer was lost.                                          *)
LEMMA ClaimPassed ==
  ASSUME IInv, NEW p \in Procs, NEW s \in Schedules, poll[p].pc = "claim",
         \/ poll' = NextRow(poll, p) /\ UNCHANGED rows
         \/ /\ Reschedule(s, ClaimExtension) /\ poll' = NextRow(Touched(s), p)
            /\ UNCHANGED <<active, failures>>,
         UNCHANGED faults \/ Fault, UNCHANGED <<clock, slots, job, service>>
  PROVE  Keeps
<1>0. RowInv /\ ExecInv /\ RestInv BY DEF IInv
<1>1. poll[p].list # <<>> /\ poll[p].slots >= 1 /\ running[p] + poll[p].slots <= MaxConcurrent
  BY DEF IInv, PollInv
<1>2. /\ Touched(s) \in [Procs -> Polls]
      /\ \A r \in Procs : /\ Touched(s)[r].pc = poll[r].pc
                          /\ Touched(s)[r].slots = poll[r].slots
                          /\ Touched(s)[r].list = poll[r].list
                          /\ Touched(s)[r].fresh = poll[r].fresh \ {s}
  BY <1>0, TouchedFacts
<1>3. PICK pl \in {poll, Touched(s)} : poll' = NextRow(pl, p) OBVIOUS
<1>4. /\ pl \in [Procs -> Polls]
      /\ \A r \in Procs : /\ pl[r].pc = poll[r].pc /\ pl[r].slots = poll[r].slots
                          /\ pl[r].list = poll[r].list /\ pl[r].fresh \subseteq poll[r].fresh
  BY <1>0, <1>2 DEF RowInv
<1>5. /\ poll' \in [Procs -> Polls]
      /\ \A r \in Procs \ {p} : poll'[r] = pl[r]
      /\ poll'[p].pc \in {"idle", "claim"} /\ poll'[p].fresh \subseteq pl[p].fresh
      /\ poll'[p].pc # "idle" => /\ poll'[p].list # <<>> /\ poll'[p].slots >= 1
                                 /\ poll'[p].slots = pl[p].slots - 1
  BY <1>1, <1>3, <1>4, NextRowFacts
<1>6. \A r \in Procs : poll'[r].fresh \subseteq pl[r].fresh
  <2> TAKE r \in Procs
  <2>1. CASE r = p BY <1>5, <2>1
  <2>2. CASE r # p BY <1>5, <2>2
  <2> QED BY <2>1, <2>2
<1>7. RowInv'
  <2>1. CASE UNCHANGED rows
    <3>1. \A r \in Procs : poll'[r].fresh \subseteq poll[r].fresh BY <1>4, <1>6
    <3> QED BY <1>0, <1>5, <2>1, <3>1, PollRows
  <2>2. CASE /\ Reschedule(s, ClaimExtension) /\ poll' = NextRow(Touched(s), p)
             /\ UNCHANGED <<active, failures>>
    <3>1. /\ \A r \in Procs \ {p} : poll'[r] = Touched(s)[r]
          /\ poll'[p].fresh \subseteq Touched(s)[p].fresh
      BY <1>1, <1>2, <2>2, NextRowFacts
    <3>2. \A r \in Procs : poll'[r].fresh \subseteq poll[r].fresh \ {s}
      <4> TAKE r \in Procs
      <4>1. CASE r = p BY <1>2, <3>1, <4>1
      <4>2. CASE r # p BY <1>2, <3>1, <4>2
      <4> QED BY <4>1, <4>2
    <3>3. active' \in [Schedules -> BOOLEAN] /\ failures' \in [Schedules -> 0 .. FailureLimit]
      BY <1>0, <2>2 DEF RowInv
    <3> QED BY <1>0, <1>5, <2>2, <3>2, <3>3, NextRunFacts, RescheduleKeeps
  <2> QED BY <2>1, <2>2
<1>8. PollInv'
  <2>1. poll[p].slots \in Int /\ running[p] \in Int BY <1>0 DEF RowInv, ExecInv, Polls
  <2>2. poll'[p].pc # "idle" => running[p] + poll'[p].slots <= MaxConcurrent
    BY <1>1, <1>4, <1>5, <2>1, SchedulerAssumption
  <2> QED BY <1>4, <1>5, <2>2, PollMoves DEF slots
<1>9. ClaimStep
  <2>1. \A r \in Procs : poll'[r].pc = "acquire" => poll[r].pc = "acquire"
    <3> TAKE r \in Procs
    <3>1. CASE r = p BY <1>5, <3>1
    <3>2. CASE r # p BY <1>4, <1>5, <3>2
    <3> QED BY <3>1, <3>2
  <2> QED BY <2>1 DEF ClaimStep
<1>10. ExecInv' /\ RestInv' BY <1>0, SameExecutions, FaultFacts
<1> QED BY <1>7, <1>8, <1>9, <1>10 DEF IInv, Keeps

LEMMA ClaimScheduleKeeps ==
  ASSUME IInv, NEW p \in Procs, ClaimSchedule(p)
  PROVE  Keeps
<1> DEFINE s == Head(poll[p].list)
<1>1. s \in Schedules
  <2>1. poll[p].list \in Seq(Schedules) BY DEF IInv, RowInv, Polls
  <2>2. poll[p].list # <<>> BY DEF IInv, PollInv, ClaimSchedule
  <2> QED BY <2>1, <2>2, HeadTailProperties
<1>2. /\ poll[p].pc = "claim" /\ UNCHANGED <<clock, slots, job, service>>
      /\ \/ /\ ClaimMatches(s, p) /\ Reschedule(s, ClaimExtension)
            /\ poll' = [Touched(s) EXCEPT ![p].pc = "acquire"]
            /\ UNCHANGED <<active, failures, faults>>
         \/ ~ClaimMatches(s, p) /\ poll' = NextRow(poll, p) /\ UNCHANGED <<rows, faults>>
         \/ Fault /\ poll' = NextRow(poll, p) /\ UNCHANGED rows
         \/ /\ ClaimMatches(s, p) /\ Fault /\ Reschedule(s, ClaimExtension)
            /\ poll' = NextRow(Touched(s), p) /\ UNCHANGED <<active, failures>>
  BY DEF ClaimSchedule
<1>3. s = Head(poll[p].list) OBVIOUS
<1> HIDE DEF s
<1> QED BY <1>1, <1>2, <1>3, ClaimSucceeds, ClaimPassed

(* A goroutine that is free takes the claimed row and a place.              *)
LEMMA StartExecutionKeeps ==
  ASSUME IInv, NEW p \in Procs, StartExecution(p)
  PROVE  Keeps
<1>0. RowInv /\ ExecInv /\ RestInv BY DEF IInv
<1>1. /\ poll[p].pc = "acquire" /\ UNCHANGED <<clock, rows, service, faults>>
      /\ poll' = NextRow(poll, p)
  BY DEF StartExecution
<1>2. poll[p].list # <<>> /\ poll[p].slots >= 1 /\ running[p] + poll[p].slots <= MaxConcurrent
  BY <1>1 DEF IInv, PollInv
<1>3. /\ poll \in [Procs -> Polls] /\ poll[p].list \in Seq(Schedules) /\ poll[p].slots \in Int
      /\ running[p] \in Int /\ sem[p] \in Int
  BY <1>0 DEF RowInv, ExecInv, Polls
<1>4. PICK s \in Schedules : s = Head(poll[p].list) BY <1>2, <1>3, HeadTailProperties
<1> DEFINE started == [Free EXCEPT !.sched = s, !.proc = p, !.outer = "wait", !.inner = "prepare"]
<1>5. /\ started \in Executions /\ started.outer = "wait" /\ started.inner = "prepare"
      /\ started.sched = s /\ started.proc = p
  <2>1. 0 \in 0 .. Timeout BY SchedulerAssumption
  <2> QED BY <2>1 DEF Free, Executions
<1>6. PICK j \in Jobs : job[j] = Free /\ job' = [job EXCEPT ![j] = started]
  <2>1. (CHOOSE j \in Jobs : job[j] = Free) \in Jobs
        /\ job[CHOOSE j \in Jobs : job[j] = Free] = Free
    BY DEF StartExecution
  <2>2. job' = [job EXCEPT ![CHOOSE j \in Jobs : job[j] = Free] = started]
    BY <1>4 DEF StartExecution
  <2> HIDE DEF started
  <2> QED BY <2>1, <2>2
<1> HIDE DEF started
<1>7. /\ job' \in [Jobs -> Executions] /\ job'[j] = started
      /\ \A i \in Jobs \ {j} : job'[i] = job[i]
  BY <1>0, <1>5, <1>6 DEF ExecInv
<1>8. job[j].outer = "free" BY <1>6 DEF Free
<1>9. /\ sem' \in [Procs -> Int] /\ running' \in [Procs -> Int]
      /\ sem'[p] = sem[p] + 1 /\ running'[p] = running[p] + 1
      /\ \A r \in Procs \ {p} : sem'[r] = sem[r] /\ running'[r] = running[r]
  BY <1>0 DEF StartExecution, ExecInv
<1>10. ExecInv'
  <2>1. \A i \in Jobs : /\ job'[i].outer = "free" <=> job'[i].inner = "free"
                        /\ job'[i].outer # "free" => /\ job'[i].sched \in Schedules
                                                     /\ job'[i].proc \in Procs
    <3> TAKE i \in Jobs
    <3>1. CASE i = j BY <1>5, <1>7, <3>1
    <3>2. CASE i # j BY <1>0, <1>7, <3>2 DEF ExecInv
    <3> QED BY <3>1, <3>2
  <2>2. Holding(p)' = Holding(p) \cup {j} /\ j \notin Holding(p)
    BY <1>5, <1>7, <1>8 DEF Holding
  <2>3. Counted(p)' = Counted(p) \cup {j} /\ j \notin Counted(p)
    BY <1>5, <1>7, <1>8 DEF Counted
  <2>4. /\ IsFiniteSet(Counted(p)) /\ sem[p] = Cardinality(Holding(p))
        /\ running[p] = Cardinality(Counted(p))
    BY <1>0 DEF ExecInv
  <2>5. IsFiniteSet(Holding(p))
    <3>1. Holding(p) \subseteq Counted(p) BY DEF Holding, Counted
    <3> QED BY <2>4, <3>1, FS_Subset
  <2>6. Cardinality(Holding(p)') = sem[p] + 1 BY <2>2, <2>4, <2>5, FS_AddElement
  <2>7. IsFiniteSet(Counted(p)') /\ Cardinality(Counted(p)') = running[p] + 1
    BY <2>3, <2>4, FS_AddElement
  <2>8. \A r \in Procs : /\ IsFiniteSet(Counted(r)') /\ sem'[r] = Cardinality(Holding(r)')
                         /\ running'[r] = Cardinality(Counted(r)')
    <3> TAKE r \in Procs
    <3>1. CASE r = p BY <1>9, <2>6, <2>7, <3>1
    <3>2. CASE r # p
      <4>1. Counted(r)' = Counted(r) /\ Holding(r)' = Holding(r)
        BY <1>5, <1>7, <1>8, <3>2 DEF Counted, Holding
      <4>2. sem'[r] = sem[r] /\ running'[r] = running[r] BY <1>9, <3>2
      <4>3. /\ IsFiniteSet(Counted(r)) /\ sem[r] = Cardinality(Holding(r))
            /\ running[r] = Cardinality(Counted(r))
        BY <1>0 DEF ExecInv
      <4> QED BY <4>1, <4>2, <4>3
    <3> QED BY <3>1, <3>2
  <2> QED BY <1>7, <1>9, <2>1, <2>8 DEF ExecInv
<1>11. /\ poll' \in [Procs -> Polls]
       /\ \A r \in Procs \ {p} : poll'[r] = poll[r]
       /\ poll'[p].pc \in {"idle", "claim"} /\ poll'[p].fresh \subseteq poll[p].fresh
       /\ poll'[p].pc # "idle" => /\ poll'[p].list # <<>> /\ poll'[p].slots >= 1
                                  /\ poll'[p].slots = poll[p].slots - 1
  BY <1>1, <1>2, <1>3, NextRowFacts
<1>12. \A r \in Procs : poll'[r].fresh \subseteq poll[r].fresh
  <2> TAKE r \in Procs
  <2>1. CASE r = p BY <1>11, <2>1
  <2>2. CASE r # p BY <1>11, <2>2
  <2> QED BY <2>1, <2>2
<1>13. RowInv' BY <1>0, <1>1, <1>11, <1>12, PollRows
<1>14. PollInv'
  <2> SUFFICES ASSUME NEW r \in Procs
               PROVE  /\ running'[r] <= MaxConcurrent
                      /\ poll'[r].pc # "idle" =>
                           /\ poll'[r].list # <<>> /\ poll'[r].slots >= 1
                           /\ running'[r] + poll'[r].slots <= MaxConcurrent
    BY DEF PollInv
  <2>1. CASE r = p BY <1>2, <1>3, <1>9, <1>11, <2>1, SchedulerAssumption
  <2>2. CASE r # p BY <1>9, <1>11, <2>2 DEF IInv, PollInv
  <2> QED BY <2>1, <2>2
<1>15. ClaimStep
  <2>1. \A r \in Procs : poll'[r].pc = "acquire" => poll[r].pc = "acquire"
    BY <1>1, <1>11
  <2> QED BY <2>1 DEF ClaimStep
<1>16. RestInv' BY <1>0, <1>1, FaultFacts
<1> QED BY <1>10, <1>13, <1>14, <1>15, <1>16 DEF IInv, Keeps

-----------------------------------------------------------------------------
(* Time, the dashboard, shutdown, death and start                           *)

LEMMA TickKeeps ==
  ASSUME IInv, Tick
  PROVE  Keeps
<1> USE SchedulerAssumption
<1>0. RowInv /\ ExecInv /\ RestInv BY DEF IInv
<1>1. RowInv' /\ UNCHANGED poll BY <1>0, TickRows
<1>2. UNCHANGED <<slots, service, faults>> BY DEF Tick
<1>3. \A j \in Jobs : /\ job'[j] \in Executions
                      /\ job'[j].outer = job[j].outer /\ job'[j].inner = job[j].inner
                      /\ job'[j].sched = job[j].sched /\ job'[j].proc = job[j].proc
  <2> TAKE j \in Jobs
  <2>1. job[j] \in Executions /\ job[j].age \in 0 .. Timeout BY <1>0 DEF ExecInv, Executions
  <2>2. Least(job[j].age + 1, Timeout) \in 0 .. Timeout BY <2>1 DEF Least
  <2>3. job'[j] = IF job[j].outer = "wait"
                  THEN [job[j] EXCEPT !.age = Least(job[j].age + 1, Timeout)] ELSE job[j]
    BY DEF Tick
  <2> QED BY <2>1, <2>2, <2>3 DEF Executions
<1>4. job' \in [Jobs -> Executions]
  <2>1. job' = [j \in Jobs |-> job'[j]] BY DEF Tick
  <2> QED BY <1>3, <2>1
<1>5. \A p \in Procs : Holding(p)' = Holding(p) /\ Counted(p)' = Counted(p)
  BY <1>3 DEF Holding, Counted
<1>6. ExecInv' BY <1>0, <1>2, <1>3, <1>4, <1>5 DEF ExecInv, slots
<1>7. RestInv' BY <1>0, <1>2, FaultFacts
<1>8. \A p \in Procs : running'[p] <= running[p] BY <1>0, <1>2 DEF slots, ExecInv
<1> QED BY <1>1, <1>6, <1>7, <1>8, ExecutionKeeps DEF SamePolls

LEMMA ToggleKeeps ==
  ASSUME IInv, NEW s \in Schedules, ToggleSchedule(s)
  PROVE  Keeps
<1>0. RowInv /\ ExecInv /\ RestInv BY DEF IInv
<1>1. UNCHANGED <<clock, failures, slots, job, service, faults>> BY DEF ToggleSchedule
<1>2. RowInv' /\ SamePolls
  <2>1. CASE SwitchOff(s) BY <1>0, <1>1, <2>1, SwitchOffKeeps DEF SamePolls
  <2>2. CASE SwitchOn(s)
    <3>1. poll' \in [Procs -> Polls] /\ SamePolls
          /\ \A p \in Procs : poll'[p].fresh \subseteq poll[p].fresh \ {s}
      BY <1>0, <2>2, TouchedFacts DEF SwitchOn, SamePolls
    <3>2. /\ active' \in [Schedules -> BOOLEAN]
          /\ \A t \in Schedules \ {s} : active'[t] = active[t]
          /\ failures' \in [Schedules -> 0 .. FailureLimit]
      BY <1>0, <1>1, <2>2 DEF RowInv, SwitchOn
    <3>3. Reschedule(s, ComputeNextRunAt) BY <2>2 DEF SwitchOn
    <3> QED BY <1>0, <1>1, <3>1, <3>2, <3>3, NextRunFacts, RescheduleKeeps
  <2> QED BY <2>1, <2>2 DEF ToggleSchedule
<1>3. ExecInv' /\ RestInv' BY <1>0, <1>1, SameExecutions, FaultFacts
<1>4. \A p \in Procs : running'[p] <= running[p] BY <1>0, <1>1 DEF slots, ExecInv
<1> QED BY <1>2, <1>3, <1>4, ExecutionKeeps

LEMMA ServesKeeps ==
  ASSUME IInv, NEW p \in Procs, NEW next \in {"up", "stopping", "draining", "stopped"},
         Serves(p, next)
  PROVE  Keeps
<1>0. RowInv /\ ExecInv /\ RestInv BY DEF IInv
<1>1. UNCHANGED <<clock, rows, poll, slots, job, faults>> BY DEF Serves
<1>2. RestInv' BY <1>0, <1>1 DEF RestInv, Serves
<1>3. ExecInv' /\ RowInv' BY <1>0, <1>1, SameExecutions, SameRows
<1>4. \A r \in Procs : running'[r] <= running[r] BY <1>0, <1>1 DEF slots, ExecInv
<1> QED BY <1>1, <1>2, <1>3, <1>4, ExecutionKeeps DEF SamePolls

LEMMA ServiceKeeps ==
  ASSUME IInv, NEW p \in Procs, Stop(p) \/ StopReads(p) \/ Drained(p) \/ Restart(p)
  PROVE  Keeps
<1>1. PICK next \in {"up", "stopping", "draining", "stopped"} : Serves(p, next)
  BY DEF Stop, StopReads, Drained, Restart
<1> QED BY <1>1, ServesKeeps

(* The end of a process: its goroutines, its poll and its counters go.      *)
LEMMA ForgottenKeeps ==
  ASSUME IInv, NEW p \in Procs, Forgotten(p), UNCHANGED <<clock, rows>>,
         UNCHANGED faults \/ Fault
  PROVE  Keeps
<1>0. RowInv /\ ExecInv /\ RestInv BY DEF IInv
<1>1. Idle \in Polls /\ Idle.pc = "idle" /\ Idle.fresh = {}
  BY SchedulerAssumption, EmptySeq DEF Idle, Polls
<1>2. Free \in Executions /\ Free.outer = "free" /\ Free.inner = "free"
  BY SchedulerAssumption DEF Free, Executions
<1>3. /\ poll' \in [Procs -> Polls] /\ poll'[p] = Idle
      /\ \A r \in Procs \ {p} : poll'[r] = poll[r]
  BY <1>0, <1>1 DEF RowInv, Forgotten
<1>4. /\ sem' \in [Procs -> Int] /\ running' \in [Procs -> Int]
      /\ sem'[p] = 0 /\ running'[p] = 0
      /\ \A r \in Procs \ {p} : sem'[r] = sem[r] /\ running'[r] = running[r]
  BY <1>0 DEF ExecInv, Forgotten
<1>5. /\ job' \in [Jobs -> Executions]
      /\ \A j \in Jobs : job'[j] = IF job[j].proc = p THEN Free ELSE job[j]
  BY <1>0, <1>2 DEF ExecInv, Forgotten
<1>6. \A r \in Procs : /\ poll'[r].fresh \subseteq poll[r].fresh
                       /\ poll'[r].pc = "acquire" => poll[r].pc = "acquire"
  <2> TAKE r \in Procs
  <2>1. CASE r = p BY <1>1, <1>3, <2>1
  <2>2. CASE r # p BY <1>3, <2>2
  <2> QED BY <2>1, <2>2
<1>7. RowInv' BY <1>0, <1>3, <1>6, PollRows
<1>8. ExecInv'
  <2>1. \A j \in Jobs : /\ job'[j].outer = "free" <=> job'[j].inner = "free"
                        /\ job'[j].outer # "free" => /\ job'[j].sched \in Schedules
                                                     /\ job'[j].proc \in Procs
    BY <1>0, <1>2, <1>5 DEF ExecInv
  <2>2. Counted(p)' = {} /\ Holding(p)' = {} BY <1>2, <1>5 DEF Counted, Holding
  <2>3. IsFiniteSet(Counted(p)') /\ Cardinality(Counted(p)') = 0 /\ Cardinality(Holding(p)') = 0
    BY <2>2, FS_EmptySet
  <2>4. \A r \in Procs : /\ IsFiniteSet(Counted(r)') /\ sem'[r] = Cardinality(Holding(r)')
                         /\ running'[r] = Cardinality(Counted(r)')
    <3> TAKE r \in Procs
    <3>1. CASE r = p BY <1>4, <2>3, <3>1
    <3>2. CASE r # p
      <4>1. Counted(r)' = Counted(r) /\ Holding(r)' = Holding(r)
        BY <1>2, <1>5, <3>2 DEF Counted, Holding
      <4>2. sem'[r] = sem[r] /\ running'[r] = running[r] BY <1>4, <3>2
      <4>3. /\ IsFiniteSet(Counted(r)) /\ sem[r] = Cardinality(Holding(r))
            /\ running[r] = Cardinality(Counted(r))
        BY <1>0 DEF ExecInv
      <4> QED BY <4>1, <4>2, <4>3
    <3> QED BY <3>1, <3>2
  <2> QED BY <1>4, <1>5, <2>1, <2>4 DEF ExecInv
<1>9. PollInv'
  <2> SUFFICES ASSUME NEW r \in Procs
               PROVE  /\ running'[r] <= MaxConcurrent
                      /\ poll'[r].pc # "idle" =>
                           /\ poll'[r].list # <<>> /\ poll'[r].slots >= 1
                           /\ running'[r] + poll'[r].slots <= MaxConcurrent
    BY DEF PollInv
  <2>1. CASE r = p BY <1>1, <1>3, <1>4, <2>1, SchedulerAssumption
  <2>2. CASE r # p BY <1>3, <1>4, <2>2 DEF IInv, PollInv
  <2> QED BY <2>1, <2>2
<1>10. ClaimStep BY <1>6 DEF ClaimStep
<1>11. RestInv'
  <2>1. service' \in [Procs -> {"up", "stopping", "draining", "stopped", "down"}]
    BY <1>0 DEF RestInv, Forgotten
  <2>2. faults' \in 0 .. MaxFaults BY <1>0, SchedulerAssumption DEF RestInv, Fault
  <2> QED BY <2>1, <2>2 DEF RestInv
<1> QED BY <1>7, <1>8, <1>9, <1>10, <1>11 DEF IInv, Keeps

-----------------------------------------------------------------------------
(* The theorems                                                             *)

LEMMA InitEstablishes == Init => IInv
<1> SUFFICES ASSUME Init PROVE IInv OBVIOUS
<1> USE DEF Init
<1>1. Idle \in Polls /\ Idle.pc = "idle" /\ Idle.fresh = {}
  BY SchedulerAssumption, EmptySeq DEF Idle, Polls
<1>2. Free \in Executions /\ Free.outer = "free" /\ Free.inner = "free"
  BY SchedulerAssumption DEF Free, Executions
<1>3. RowInv
  <2>1. Len(due) = 0 OBVIOUS
  <2>2. DueInv BY <1>1, <2>1 DEF DueInv, Distinct
  <2>3. /\ clock \in 0 .. Period - 1 /\ wait \in [Schedules -> 0 .. Period]
        /\ failures \in [Schedules -> 0 .. FailureLimit]
    BY SchedulerAssumption
  <2> QED BY <1>1, <2>2, <2>3, EmptySeq DEF RowInv
<1>4. ExecInv
  <2>1. \A p \in Procs : Holding(p) = {} /\ Counted(p) = {} BY <1>2 DEF Holding, Counted
  <2>2. \A p \in Procs : /\ IsFiniteSet(Counted(p)) /\ Cardinality(Counted(p)) = 0
                         /\ Cardinality(Holding(p)) = 0
    BY <2>1, FS_EmptySet
  <2> QED BY <1>2, <2>2 DEF ExecInv
<1>5. PollInv BY <1>1, SchedulerAssumption DEF PollInv
<1>6. RestInv BY SchedulerAssumption DEF RestInv
<1> QED BY <1>3, <1>4, <1>5, <1>6 DEF IInv

LEMMA NextKeeps == IInv /\ [Next]_vars => IInv' /\ ClaimStep
<1> SUFFICES ASSUME IInv, [Next]_vars PROVE Keeps BY DEF Keeps
<1>1. CASE UNCHANGED vars
  <2>1. UNCHANGED <<clock, rows, poll, slots, job, service, faults>> BY <1>1 DEF vars
  <2>2. RowInv' /\ ExecInv' /\ RestInv' BY <2>1, SameRows, SameExecutions, FaultFacts DEF IInv
  <2>3. \A p \in Procs : running'[p] <= running[p] BY <2>1 DEF slots, IInv, ExecInv
  <2> QED BY <2>1, <2>2, <2>3, ExecutionKeeps DEF SamePolls
<1>2. CASE Tick BY <1>2, TickKeeps
<1>3. ASSUME NEW s \in Schedules, ToggleSchedule(s) PROVE Keeps BY <1>3, ToggleKeeps
<1>4. ASSUME NEW p \in Procs, Polling(p) PROVE Keeps
  BY <1>4, PollKeeps, PollEndsKeeps, ClaimScheduleKeeps, StartExecutionKeeps DEF Polling
<1>5. ASSUME NEW p \in Procs, Stop(p) \/ StopReads(p) \/ Drained(p) \/ Restart(p) PROVE Keeps
  BY <1>5, ServiceKeeps
<1>6. ASSUME NEW p \in Procs, Exit(p) \/ Crash(p) PROVE Keeps
  BY <1>6, ForgottenKeeps DEF Exit, Crash
<1>7. ASSUME NEW j \in Jobs, Execution(j) PROVE Keeps
  BY <1>7, PrepareKeeps, ExecuteKeeps, ExecuteFailsKeeps, FinishKeeps DEF Execution
<1>8. ASSUME NEW j \in Jobs, Supervision(j) PROVE Keeps
  BY <1>8, MarkFailureKeeps, DisableKeeps, ReleaseKeeps DEF Supervision
<1> QED BY <1>1, <1>2, <1>3, <1>4, <1>5, <1>6, <1>7, <1>8 DEF Next

LEMMA InductiveInvariant == Spec => []IInv
BY InitEstablishes, NextKeeps, PTL DEF Spec

LEMMA ImpliesSchedulerInv == IInv => SchedulerInv
<1> SUFFICES ASSUME IInv PROVE SchedulerInv OBVIOUS
<1> USE SchedulerAssumption
<1>1. \A p \in Procs : /\ sem[p] \in Nat /\ running[p] \in Nat
                       /\ sem[p] <= running[p] /\ running[p] <= MaxConcurrent
  <2> TAKE p \in Procs
  <2>1. /\ IsFiniteSet(Counted(p)) /\ sem[p] = Cardinality(Holding(p))
        /\ running[p] = Cardinality(Counted(p)) /\ running[p] <= MaxConcurrent
    BY DEF IInv, ExecInv, PollInv
  <2>2. Holding(p) \subseteq Counted(p) BY DEF Holding, Counted
  <2>3. IsFiniteSet(Holding(p)) /\ Cardinality(Holding(p)) <= Cardinality(Counted(p))
    BY <2>1, <2>2, FS_Subset
  <2> QED BY <2>1, <2>3, FS_CardinalityType
<1>2. TypeOK
  <2>1. sem \in [Procs -> 0 .. MaxConcurrent] /\ running \in [Procs -> 0 .. MaxConcurrent]
    BY <1>1 DEF IInv, ExecInv
  <2> QED BY <2>1 DEF TypeOK, IInv, RowInv, ExecInv, RestInv, Polls, Executions
<1>3. SlotAvailable
  <2> SUFFICES ASSUME NEW p \in Procs, poll[p].pc = "acquire" PROVE sem[p] < MaxConcurrent
    BY DEF SlotAvailable
  <2>1. poll[p].slots \in Int /\ poll[p].slots >= 1 /\ running[p] + poll[p].slots <= MaxConcurrent
    BY DEF IInv, PollInv, RowInv, Polls
  <2> QED BY <1>1, <2>1
<1> QED BY <1>2, <1>3 DEF SchedulerInv

(* poll and the deferred release: for any number of processes, schedules    *)
(* and executions the two counts stay within maxConcurrent and a claimed    *)
(* row finds a place, so the default branch of the select is never taken.   *)
THEOREM SchedulerCorrect == Spec => []SchedulerInv
BY InductiveInvariant, ImpliesSchedulerInv, PTL

(* claimSchedule: whatever executions, the dashboard and other processes    *)
(* wrote since the row was read, a claim succeeds only on an active row     *)
(* whose next_run_at is over.                                               *)
THEOREM ClaimsAreDue == Spec => ClaimedIsDue
<1>1. IInv /\ [Next]_vars => [ClaimStep]_vars BY NextKeeps
<1>2. [][ClaimStep]_vars <=> ClaimedIsDue BY DEF ClaimStep, ClaimedIsDue
<1> QED BY <1>1, <1>2, InductiveInvariant, PTL DEF Spec
=============================================================================
