-------------------------- MODULE Webhooks_proofs ---------------------------
(***************************************************************************)
(* Proofs about the webhook router and the two services behind it, for any *)
(* finite set of deliveries and any sizes of the pools and limits.         *)
(*                                                                         *)
(* The inductive invariant has one part per module: JobInv (the workers,   *)
(* their rows and posts), LimitInv (the limiters) and RouterInv.  LimitInv *)
(* also knows where the handler of a request is; otherwise the parts do    *)
(* not need each other.                                                    *)
(***************************************************************************)
EXTENDS Webhooks, FiniteSetTheorems, TLAPS

Rows == {"none", "processing", "completed", "posted_partial", "error",
         "awaiting_approval", "fix_approved"}

(* What is true of one job: only the worker of a diagnosis writes before it *)
(* posts, a review is posted before it is settled, and a row that waits for *)
(* the user is not written by its worker any more.                          *)
OfJob(j) ==
  /\ worker[j] = "write" => ServiceOf[j] = "diagnosis"
  /\ worker[j] \in {"settle", "partial"} => ServiceOf[j] = "review"
  /\ worker[j] = "settle" => j \in posted
  /\ ServiceOf[j] = "review" =>
       /\ row[j] = "completed" => j \in posted
       /\ faults = 0 /\ (j \in posted \/ worker[j] \in {"post", "settle", "partial"}) => j \in noted
  /\ row[j] \in {"awaiting_approval", "fix_approved"} =>
       ServiceOf[j] = "diagnosis" /\ worker[j] \in {"post", "gone"}
  /\ approval[j] = "read" => row[j] = "awaiting_approval"
  /\ approval[j] = "approved" => row[j] = "fix_approved"

JobTypes ==
  /\ worker \in [Jobs -> Working \cup {"none", "gone"}]
  /\ row \in [Jobs -> Rows]
  /\ noted \subseteq Jobs /\ posted \subseteq Jobs
  /\ approval \in [Jobs -> {"none", "read", "approved"}]
  /\ pool \in [Services -> Int]
  /\ server \in [Services -> {"up", "stopping", "drained", "down"}]
  /\ faults \in 0 .. MaxFaults

PoolInv == \A s \in Services : pool[s] = Cardinality(Active(s)) /\ pool[s] <= PoolSize

JobInv == JobTypes /\ PoolInv /\ \A j \in Jobs : OfJob(j)

Handled == {d \in Jobs : request[d] \in {"admitted", "refused", "forwarded"}}

(* While the limiter of an address was never deleted, every request of the  *)
(* address that is at work with a limiter, or counted in one, has the one   *)
(* in the table.                                                            *)
InUse(r) == r \in recent \/ request[r] = "loaded"

LimitInv ==
  /\ table \in [Addresses -> Nat] /\ held \in [Requests -> Nat]
  /\ recent \subseteq Requests /\ swept \subseteq Addresses
  /\ count \in 0 .. Cardinality(Handled)
  /\ \A r \in recent : request[r] \notin {"none", "passed", "loaded"}
  /\ \A r \in Requests : request[r] \in {"none", "passed"} => held[r] = 0
  /\ \A r \in Requests : InUse(r) /\ Address[r] \notin swept =>
       held[r] # 0 /\ held[r] = table[Address[r]]
  /\ LimitPerAddress

RouterInv ==
  /\ request \in [Jobs -> {"none", "passed", "loaded", "admitted", "refused", "forwarded"}]
  /\ forward \in [Jobs -> {"none", "sending", "sent", "dropped", "lost"}]
  /\ router \in {"up", "stopping", "draining", "stopped", "down"}
  /\ router \in {"draining", "stopped"} => InHandler = {}
  /\ router = "stopped" => InFlight = {}
  /\ \A d \in Jobs : request[d] = "forwarded" => forward[d] # "none"

IInv == JobInv /\ LimitInv /\ RouterInv

-----------------------------------------------------------------------------
(* The services                                                             *)

LEMMA ActiveFinite ==
  ASSUME NEW s PROVE IsFiniteSet(Active(s)) /\ Cardinality(Active(s)) \in Nat
<1>1. Active(s) \subseteq Jobs BY DEF Active
<1>2. IsFiniteSet(Jobs) BY JobsAssumption
<1>3. IsFiniteSet(Active(s)) BY <1>1, <1>2, FS_Subset
<1> QED BY <1>3, FS_CardinalityType

LEMMA FaultFacts ==
  ASSUME faults \in 0 .. MaxFaults, Fault \/ UNCHANGED faults
  PROVE  faults' \in 0 .. MaxFaults /\ faults' >= faults /\ (Fault => faults' # 0)
<1>1. MaxFaults \in Nat BY JobsAssumption
<1> QED BY <1>1 DEF Fault

(* A job that nothing happens to.                                           *)
LEMMA JobFrame ==
  ASSUME NEW i \in Jobs, OfJob(i), faults \in Nat, faults' \in Nat, faults' >= faults,
         worker'[i] = worker[i], row'[i] = row[i], approval'[i] = approval[i],
         i \in posted' <=> i \in posted, i \in noted' <=> i \in noted
  PROVE  OfJob(i)'
<1>1. faults' = 0 => faults = 0 OBVIOUS
<1> QED BY <1>1 DEF OfJob

(* A step of one job, given what it does to it.                             *)
LEMMA JobUpdate ==
  ASSUME JobInv, NEW j \in Jobs, JobTypes', PoolInv', OfJob(j)', faults' >= faults,
         \A i \in Jobs \ {j} :
           /\ worker'[i] = worker[i] /\ row'[i] = row[i] /\ approval'[i] = approval[i]
           /\ i \in posted' <=> i \in posted
           /\ i \in noted' <=> i \in noted
  PROVE  JobInv'
<1>1. faults \in Nat /\ faults' \in Nat BY JobsAssumption DEF JobInv, JobTypes
<1>2. \A i \in Jobs : OfJob(i)'
  <2> TAKE i \in Jobs
  <2>1. CASE i = j BY <2>1
  <2>2. CASE i # j BY <1>1, <2>2, JobFrame DEF JobInv
  <2> QED BY <2>1, <2>2
<1> QED BY <1>2 DEF JobInv

(* A goroutine goes on or ends: the pool is the number of those at work.    *)
LEMMA MovesFacts ==
  ASSUME JobTypes, PoolInv, NEW j \in Jobs, NEW pc \in Working \cup {"gone"},
         worker[j] \in Working, Moves(j, pc)
  PROVE  /\ worker' \in [Jobs -> Working \cup {"none", "gone"}] /\ pool' \in [Services -> Int]
         /\ worker'[j] = pc /\ \A i \in Jobs \ {j} : worker'[i] = worker[i]
         /\ PoolInv'
<1>1. /\ worker' = [worker EXCEPT ![j] = pc]
      /\ worker \in [Jobs -> Working \cup {"none", "gone"}] /\ pool \in [Services -> Int]
      /\ pool' = IF pc = "gone" THEN [pool EXCEPT ![ServiceOf[j]] = @ - 1] ELSE pool
  BY DEF Moves, JobTypes
<1>2. ServiceOf[j] \in Services /\ ServiceOf \in [Jobs -> Services] /\ PoolSize \in Nat
  BY JobsAssumption
<1>3. /\ worker' \in [Jobs -> Working \cup {"none", "gone"}] /\ pool' \in [Services -> Int]
      /\ worker'[j] = pc /\ \A i \in Jobs \ {j} : worker'[i] = worker[i]
  BY <1>1, <1>2
<1>4. ASSUME NEW s \in Services
      PROVE  pool'[s] = Cardinality(Active(s)') /\ pool'[s] <= PoolSize
  <2>0. pool[s] = Cardinality(Active(s)) /\ pool[s] <= PoolSize /\ pool[s] \in Int
    BY <1>1 DEF PoolInv
  <2>1. CASE pc = "gone" /\ s = ServiceOf[j]
    <3>1. Active(s)' = Active(s) \ {j} /\ j \in Active(s)
      BY <1>3, <2>1 DEF Active, Working
    <3>2. Cardinality(Active(s) \ {j}) = Cardinality(Active(s)) - 1
      BY <3>1, ActiveFinite, FS_RemoveElement
    <3>3. pool'[s] = pool[s] - 1 BY <1>1, <2>1
    <3> QED BY <1>2, <2>0, <3>1, <3>2, <3>3
  <2>2. CASE ~(pc = "gone" /\ s = ServiceOf[j])
    <3>1. Active(s)' = Active(s) BY <1>3, <2>2 DEF Active
    <3>2. pool'[s] = pool[s] BY <1>1, <1>2, <2>2
    <3> QED BY <2>0, <3>1, <3>2
  <2> QED BY <2>1, <2>2
<1> QED BY <1>3, <1>4 DEF PoolInv

(* A statement writes the status or leaves the row as it is.                *)
LEMMA WritesFacts ==
  ASSUME JobTypes, NEW j \in Jobs, NEW status \in Rows,
         Writes(j, status) \/ WritesIfOpen(j, status)
  PROVE  /\ row' \in [Jobs -> Rows] /\ row'[j] \in {row[j], status}
         /\ \A i \in Jobs \ {j} : row'[i] = row[i]
         /\ faults' \in 0 .. MaxFaults /\ faults' >= faults
<1>1. \/ row' = [row EXCEPT ![j] = status] /\ UNCHANGED faults
      \/ row' = row /\ (Fault \/ UNCHANGED faults)
  BY DEF Writes, WritesIfOpen
<1>2. faults' \in 0 .. MaxFaults /\ faults' >= faults BY <1>1, FaultFacts DEF JobTypes
<1> QED BY <1>1, <1>2 DEF JobTypes

LEMMA HandleCreateStep == ASSUME JobInv, NEW j \in Jobs, HandleCreate(j) PROVE JobInv'
<1>0. JobTypes /\ PoolInv /\ OfJob(j) BY DEF JobInv
<1>1. /\ pool[ServiceOf[j]] < PoolSize /\ worker[j] = "none"
      /\ pool' = [pool EXCEPT ![ServiceOf[j]] = @ + 1]
      /\ worker' = [worker EXCEPT ![j] = "create"]
      /\ UNCHANGED <<row, noted, posted, approval, server, faults>>
  BY DEF HandleCreate
<1>2. ServiceOf[j] \in Services /\ PoolSize \in Nat BY JobsAssumption
<1>3. JobTypes' BY <1>0, <1>1, <1>2 DEF JobTypes, Working
<1>4. worker'[j] = "create" /\ \A i \in Jobs \ {j} : worker'[i] = worker[i]
  BY <1>0, <1>1 DEF JobTypes
<1>5. PoolInv'
  <2> SUFFICES ASSUME NEW s \in Services
               PROVE  pool'[s] = Cardinality(Active(s)') /\ pool'[s] <= PoolSize
    BY DEF PoolInv
  <2>0. pool[s] = Cardinality(Active(s)) /\ pool[s] <= PoolSize /\ pool[s] \in Int
    BY <1>0 DEF PoolInv, JobTypes
  <2>1. CASE s = ServiceOf[j]
    <3>1. Active(s)' = Active(s) \cup {j} /\ j \notin Active(s)
      BY <1>1, <1>4, <2>1 DEF Active, Working
    <3>2. Cardinality(Active(s) \cup {j}) = Cardinality(Active(s)) + 1
      BY <3>1, ActiveFinite, FS_AddElement
    <3>3. pool'[s] = pool[s] + 1 BY <1>0, <1>1, <2>1 DEF JobTypes
    <3> QED BY <1>1, <1>2, <2>0, <2>1, <3>1, <3>2, <3>3
  <2>2. CASE s # ServiceOf[j]
    <3>1. Active(s)' = Active(s) BY <1>4, <2>2 DEF Active
    <3>2. pool'[s] = pool[s] BY <1>0, <1>1, <1>2, <2>2 DEF JobTypes
    <3> QED BY <2>0, <3>1, <3>2
  <2> QED BY <2>1, <2>2
<1>6. OfJob(j)' BY <1>0, <1>1, <1>4 DEF OfJob
<1>7. faults' >= faults BY <1>0, <1>1, JobsAssumption DEF JobTypes
<1> QED BY <1>1, <1>3, <1>4, <1>5, <1>6, <1>7, JobUpdate

(* A step of a worker: the row, the posts and the notes of its job change.  *)
LEMMA WorkerStep ==
  ASSUME JobInv, NEW j \in Jobs, NEW pc \in Working \cup {"gone"}, worker[j] \in Working,
         Moves(j, pc), row' \in [Jobs -> Rows], \A i \in Jobs \ {j} : row'[i] = row[i],
         posted' \in {posted, posted \cup {j}}, noted' \in {noted, noted \cup {j}},
         UNCHANGED <<approval, server>>, faults' \in 0 .. MaxFaults, faults' >= faults,
         worker'[j] = pc => OfJob(j)'
  PROVE  JobInv'
<1>0. JobTypes /\ PoolInv BY DEF JobInv
<1>1. /\ worker' \in [Jobs -> Working \cup {"none", "gone"}] /\ pool' \in [Services -> Int]
      /\ worker'[j] = pc /\ \A i \in Jobs \ {j} : worker'[i] = worker[i]
      /\ PoolInv'
  BY <1>0, MovesFacts
<1>2. JobTypes' BY <1>0, <1>1 DEF JobTypes
<1> QED BY <1>1, <1>2, JobUpdate

LEMMA CreateRowStep == ASSUME JobInv, NEW j \in Jobs, CreateRow(j) PROVE JobInv'
<1>0. JobTypes /\ PoolInv /\ OfJob(j) BY DEF JobInv
<1>1. PICK pc \in {"think", "gone"} : Moves(j, pc) BY DEF CreateRow
<1>2. /\ worker[j] = "create" /\ WritesIfOpen(j, "processing")
      /\ UNCHANGED <<noted, posted, approval, server>>
  BY DEF CreateRow, CreateReview, CreateDiagnosis
<1>3. /\ row' \in [Jobs -> Rows] /\ row'[j] \in {row[j], "processing"}
      /\ \A i \in Jobs \ {j} : row'[i] = row[i]
      /\ faults' \in 0 .. MaxFaults /\ faults' >= faults
  BY <1>0, <1>2, WritesFacts DEF Rows
<1>4. faults' = 0 => faults = 0 BY <1>0, <1>3, JobsAssumption DEF JobTypes
<1>5. worker'[j] = pc => OfJob(j)' BY <1>0, <1>2, <1>3, <1>4 DEF OfJob
<1>6. pc \in Working \cup {"gone"} /\ worker[j] \in Working BY <1>2 DEF Working
<1> QED BY <1>1, <1>2, <1>3, <1>5, <1>6, WorkerStep

LEMMA ReviewStep == ASSUME JobInv, NEW j \in Jobs, Review(j) PROVE JobInv'
<1>0. JobTypes /\ PoolInv /\ OfJob(j) BY DEF JobInv
<1>1. /\ worker[j] = "think" /\ ServiceOf[j] = "review" /\ Moves(j, "post")
      /\ noted' \in {noted, noted \cup {j}} /\ (Fault \/ (UNCHANGED faults /\ j \in noted'))
      /\ UNCHANGED <<row, posted, approval, server>>
  BY DEF Review, CreateComments
<1>2. faults' \in 0 .. MaxFaults /\ faults' >= faults /\ (faults' = 0 => j \in noted')
  BY <1>0, <1>1, FaultFacts DEF JobTypes
<1>3. worker'[j] = "post" => OfJob(j)' BY <1>0, <1>1, <1>2 DEF OfJob
<1>4. "post" \in Working /\ worker[j] \in Working BY <1>1 DEF Working
<1>5. row' \in [Jobs -> Rows] /\ \A i \in Jobs \ {j} : row'[i] = row[i]
  BY <1>0, <1>1 DEF JobTypes
<1> QED BY <1>1, <1>2, <1>3, <1>4, <1>5, WorkerStep

LEMMA DiagnoseStep == ASSUME JobInv, NEW j \in Jobs, Diagnose(j) PROVE JobInv'
<1>0. JobTypes /\ PoolInv /\ OfJob(j) BY DEF JobInv
<1>1. /\ worker[j] = "think" /\ ServiceOf[j] = "diagnosis" /\ Moves(j, "write")
      /\ UNCHANGED <<row, noted, posted, approval, server, faults>>
  BY DEF Diagnose
<1>2. faults' \in 0 .. MaxFaults /\ faults' >= faults BY <1>0, <1>1, FaultFacts DEF JobTypes
<1>3. worker'[j] = "write" => OfJob(j)' BY <1>0, <1>1 DEF OfJob
<1>4. "write" \in Working /\ worker[j] \in Working BY <1>1 DEF Working
<1>5. row' \in [Jobs -> Rows] /\ \A i \in Jobs \ {j} : row'[i] = row[i]
  BY <1>0, <1>1 DEF JobTypes
<1> QED BY <1>1, <1>2, <1>3, <1>4, <1>5, WorkerStep

LEMMA ThinkFailsStep == ASSUME JobInv, NEW j \in Jobs, ThinkFails(j) PROVE JobInv'
<1>0. JobTypes /\ PoolInv /\ OfJob(j) BY DEF JobInv
<1>1. /\ worker[j] = "think" /\ Fault /\ row' = [row EXCEPT ![j] = "error"] /\ Moves(j, "gone")
      /\ UNCHANGED <<noted, posted, approval, server>>
  BY DEF ThinkFails
<1>2. faults' \in 0 .. MaxFaults /\ faults' >= faults /\ faults' # 0
  BY <1>0, <1>1, FaultFacts DEF JobTypes
<1>3. /\ row' \in [Jobs -> Rows] /\ row'[j] = "error"
      /\ \A i \in Jobs \ {j} : row'[i] = row[i]
  BY <1>0, <1>1 DEF JobTypes, Rows
<1>4. worker'[j] = "gone" => OfJob(j)' BY <1>0, <1>1, <1>2, <1>3 DEF OfJob
<1>5. "gone" \in Working \cup {"gone"} /\ worker[j] \in Working BY <1>1 DEF Working
<1> QED BY <1>1, <1>2, <1>3, <1>4, <1>5, WorkerStep

LEMMA PostReviewStep == ASSUME JobInv, NEW j \in Jobs, PostReview(j) PROVE JobInv'
<1>0. JobTypes /\ PoolInv /\ OfJob(j) BY DEF JobInv
<1>1. /\ worker[j] = "post" /\ ServiceOf[j] = "review"
      /\ UNCHANGED <<row, noted, approval, server>>
      /\ \/ posted' = posted \cup {j} /\ Moves(j, "settle") /\ UNCHANGED faults
         \/ Fault /\ posted' \in {posted, posted \cup {j}} /\ Moves(j, "partial")
  BY DEF PostReview, Posts
<1>2. faults' \in 0 .. MaxFaults /\ faults' >= faults /\ (Fault => faults' # 0)
  BY <1>0, <1>1, FaultFacts DEF JobTypes
<1>3. row' \in [Jobs -> Rows] /\ \A i \in Jobs \ {j} : row'[i] = row[i]
  BY <1>0, <1>1 DEF JobTypes
<1>4. "settle" \in Working /\ "partial" \in Working /\ worker[j] \in Working BY <1>1 DEF Working
<1>5. CASE posted' = posted \cup {j} /\ Moves(j, "settle") /\ UNCHANGED faults
  <2>1. worker'[j] = "settle" => OfJob(j)' BY <1>0, <1>1, <1>5 DEF OfJob
  <2> QED BY <1>1, <1>2, <1>3, <1>4, <1>5, <2>1, WorkerStep
<1>6. CASE Fault /\ posted' \in {posted, posted \cup {j}} /\ Moves(j, "partial")
  <2>1. worker'[j] = "partial" => OfJob(j)' BY <1>0, <1>1, <1>2, <1>6 DEF OfJob
  <2> QED BY <1>1, <1>2, <1>3, <1>4, <1>6, <2>1, WorkerStep
<1> QED BY <1>1, <1>5, <1>6

LEMMA PostDiagnosisStep == ASSUME JobInv, NEW j \in Jobs, PostDiagnosisComment(j) PROVE JobInv'
<1>0. JobTypes /\ PoolInv /\ OfJob(j) BY DEF JobInv
<1>1. /\ worker[j] = "post" /\ ServiceOf[j] = "diagnosis" /\ Moves(j, "gone")
      /\ UNCHANGED <<row, noted, approval, server>>
      /\ posted' \in {posted, posted \cup {j}} /\ (Fault \/ UNCHANGED faults)
  BY DEF PostDiagnosisComment, Posts
<1>2. faults' \in 0 .. MaxFaults /\ faults' >= faults BY <1>0, <1>1, FaultFacts DEF JobTypes
<1>3. row' \in [Jobs -> Rows] /\ \A i \in Jobs \ {j} : row'[i] = row[i]
  BY <1>0, <1>1 DEF JobTypes
<1>4. "gone" \in Working \cup {"gone"} /\ worker[j] \in Working BY <1>1 DEF Working
<1>5. worker'[j] = "gone" => OfJob(j)' BY <1>0, <1>1 DEF OfJob
<1> QED BY <1>1, <1>2, <1>3, <1>4, <1>5, WorkerStep

LEMMA SettleReviewStep == ASSUME JobInv, NEW j \in Jobs, SettleReview(j) PROVE JobInv'
<1>0. JobTypes /\ PoolInv /\ OfJob(j) BY DEF JobInv
<1>1. PICK status \in {"completed", "posted_partial"} :
        Writes(j, status) /\ (status = "completed" => worker[j] = "settle")
  BY DEF SettleReview, UpdateReviewResult
<1>2. /\ worker[j] \in {"settle", "partial"} /\ Moves(j, "gone")
      /\ UNCHANGED <<noted, posted, approval, server>>
  BY DEF SettleReview
<1>3. /\ row' \in [Jobs -> Rows] /\ row'[j] \in {row[j], status}
      /\ \A i \in Jobs \ {j} : row'[i] = row[i]
      /\ faults' \in 0 .. MaxFaults /\ faults' >= faults
  BY <1>0, <1>1, WritesFacts DEF Rows
<1>4. faults' = 0 => faults = 0 BY <1>0, <1>3, JobsAssumption DEF JobTypes
<1>5. worker'[j] = "gone" => OfJob(j)' BY <1>0, <1>1, <1>2, <1>3, <1>4 DEF OfJob
<1>6. "gone" \in Working \cup {"gone"} /\ worker[j] \in Working BY <1>2 DEF Working
<1> QED BY <1>2, <1>3, <1>5, <1>6, WorkerStep

LEMMA SettleDiagnosisStep ==
  ASSUME JobInv, NEW j \in Jobs, NEW status \in Verdicts, SettleDiagnosis(j, status) PROVE JobInv'
<1>0. JobTypes /\ PoolInv /\ OfJob(j) BY DEF JobInv
<1>1. PICK pc \in {"post", "gone"} : Moves(j, pc) BY DEF SettleDiagnosis
<1>2. /\ worker[j] = "write" /\ Writes(j, status) /\ UNCHANGED <<noted, posted, approval, server>>
  BY DEF SettleDiagnosis, UpdateDiagnosisResult
<1>3. /\ row' \in [Jobs -> Rows] /\ row'[j] \in {row[j], status}
      /\ \A i \in Jobs \ {j} : row'[i] = row[i]
      /\ faults' \in 0 .. MaxFaults /\ faults' >= faults
  BY <1>0, <1>2, WritesFacts DEF Rows, Verdicts
<1>4. faults' = 0 => faults = 0 BY <1>0, <1>3, JobsAssumption DEF JobTypes
<1>5. worker'[j] = pc => OfJob(j)' BY <1>0, <1>2, <1>3, <1>4 DEF OfJob, Verdicts
<1>6. pc \in Working \cup {"gone"} /\ worker[j] \in Working BY <1>2 DEF Working
<1> QED BY <1>1, <1>2, <1>3, <1>5, <1>6, WorkerStep

(* The worker of a row that waits for the user has written it for the last  *)
(* time, so that an approval that was read is still good when it is written.*)
LEMMA ApproveStep == ASSUME JobInv, NEW j \in Jobs, Approve(j) PROVE JobInv'
<1>0. JobTypes /\ PoolInv /\ OfJob(j) BY DEF JobInv
<1>1. UNCHANGED <<worker, noted, posted, pool, server>>
  BY DEF Approve, ApproveRead, ApproveWrite
<1>2. PoolInv' BY <1>0, <1>1 DEF PoolInv, Active
<1>3. CASE ApproveRead(j)
  <2>1. /\ row[j] = "awaiting_approval" /\ approval' = [approval EXCEPT ![j] = "read"]
        /\ UNCHANGED <<row, faults>>
    BY <1>3 DEF ApproveRead, GetDiagnosis
  <2>2. JobTypes' BY <1>0, <1>1, <2>1 DEF JobTypes
  <2>3. approval'[j] = "read" /\ \A i \in Jobs \ {j} : approval'[i] = approval[i]
    BY <1>0, <2>1 DEF JobTypes
  <2>4. OfJob(j)' BY <1>0, <1>1, <2>1, <2>3 DEF OfJob
  <2>5. faults' >= faults BY <1>0, <2>1, FaultFacts DEF JobTypes
  <2> QED BY <1>1, <1>2, <2>1, <2>2, <2>3, <2>4, <2>5, JobUpdate
<1>4. CASE ApproveWrite(j)
  <2>1. /\ approval[j] = "read" /\ WritesIfOpen(j, "fix_approved")
        /\ approval' = [approval EXCEPT
             ![j] = IF row'[j] = "fix_approved" THEN "approved" ELSE "none"]
    BY <1>4 DEF ApproveWrite, UpdateDiagnosisStatus
  <2>2. /\ row' \in [Jobs -> Rows] /\ row'[j] \in {row[j], "fix_approved"}
        /\ \A i \in Jobs \ {j} : row'[i] = row[i]
        /\ faults' \in 0 .. MaxFaults /\ faults' >= faults
    BY <1>0, <2>1, WritesFacts DEF Rows
  <2>3. JobTypes' BY <1>0, <1>1, <2>1, <2>2 DEF JobTypes
  <2>4. /\ approval'[j] = (IF row'[j] = "fix_approved" THEN "approved" ELSE "none")
        /\ \A i \in Jobs \ {j} : approval'[i] = approval[i]
    BY <1>0, <2>1 DEF JobTypes
  <2>5. faults' = 0 => faults = 0 BY <1>0, <2>2, JobsAssumption DEF JobTypes
  <2>6. OfJob(j)' BY <1>0, <1>1, <2>1, <2>2, <2>4, <2>5 DEF OfJob
  <2> QED BY <1>1, <1>2, <2>2, <2>3, <2>4, <2>6, JobUpdate
<1> QED BY <1>3, <1>4 DEF Approve

(* A service that dies takes its workers and the approvals it was writing.  *)
LEMMA DiesStep ==
  ASSUME JobInv, NEW s \in Services, Dies(s), Fault \/ UNCHANGED faults PROVE JobInv'
<1>0. JobTypes /\ PoolInv /\ \A j \in Jobs : OfJob(j) BY DEF JobInv
<1>1. faults' \in 0 .. MaxFaults /\ faults' >= faults BY <1>0, FaultFacts DEF JobTypes
<1>2. /\ worker' = [j \in Jobs |-> IF j \in Active(s) THEN "gone" ELSE worker[j]]
      /\ pool' = [pool EXCEPT ![s] = 0] /\ server' = [server EXCEPT ![s] = "down"]
      /\ approval' = [j \in Jobs |-> IF s = "diagnosis" /\ approval[j] = "read"
                                      THEN "none" ELSE approval[j]]
      /\ UNCHANGED <<row, noted, posted>>
  BY DEF Dies
<1>3. JobTypes' BY <1>0, <1>1, <1>2 DEF JobTypes, Working
<1>4. PoolInv'
  <2> SUFFICES ASSUME NEW r \in Services
               PROVE  pool'[r] = Cardinality(Active(r)') /\ pool'[r] <= PoolSize
    BY DEF PoolInv
  <2>0. PoolSize \in Nat BY JobsAssumption
  <2>1. CASE r = s
    <3>1. Active(s)' = {} BY <1>2 DEF Active, Working
    <3>2. pool'[s] = 0 BY <1>0, <1>2 DEF JobTypes
    <3> QED BY <2>0, <2>1, <3>1, <3>2, FS_EmptySet
  <2>2. CASE r # s
    <3>1. Active(r)' = Active(r) BY <1>2, <2>2 DEF Active, Working
    <3>2. pool'[r] = pool[r] BY <1>0, <1>2, <2>2 DEF JobTypes
    <3> QED BY <1>0, <3>1, <3>2 DEF PoolInv
  <2> QED BY <2>1, <2>2
<1>5. faults' = 0 => faults = 0 BY <1>0, <1>1, JobsAssumption DEF JobTypes
<1>6. ASSUME NEW j \in Jobs PROVE OfJob(j)'
  <2>1. worker'[j] \in {worker[j], "gone"} /\ approval'[j] \in {approval[j], "none"} BY <1>2
  <2>2. OfJob(j) BY <1>0
  <2> QED BY <1>2, <1>5, <2>1, <2>2 DEF OfJob
<1> QED BY <1>3, <1>4, <1>6 DEF JobInv

LEMMA LivesStep == ASSUME JobInv, NEW s \in Services, Lives(s) PROVE JobInv'
<1>1. CASE Exit(s) \/ Crash(s) BY <1>1, DiesStep DEF Exit, Crash
<1>2. CASE Shutdown(s) \/ WorkersFinished(s)
  <2>1. /\ server' = [server EXCEPT ![s] = "stopping"] \/ server' = [server EXCEPT ![s] = "drained"]
        /\ UNCHANGED <<worker, row, noted, posted, approval, pool, faults>>
    BY <1>2 DEF Shutdown, WorkersFinished, Serves
  <2>2. JobTypes' BY <2>1 DEF JobInv, JobTypes
  <2>3. PoolInv' BY <2>1 DEF JobInv, PoolInv, Active
  <2>4. \A j \in Jobs : OfJob(j)' BY <2>1 DEF JobInv, OfJob
  <2> QED BY <2>2, <2>3, <2>4 DEF JobInv
<1> QED BY <1>1, <1>2 DEF Lives

LEMMA JobNextStep == ASSUME JobInv, JobNext PROVE JobInv'
<1>1. ASSUME NEW j \in Jobs, Work(j) PROVE JobInv'
  BY <1>1, CreateRowStep, ReviewStep, DiagnoseStep, ThinkFailsStep, PostReviewStep,
     PostDiagnosisStep, SettleReviewStep, SettleDiagnosisStep DEF Work
<1> QED BY <1>1, ApproveStep, LivesStep DEF JobNext

LEMMA JobsUnchanged == ASSUME JobInv, UNCHANGED jobVars PROVE JobInv'
  BY DEF JobInv, JobTypes, PoolInv, Active, OfJob, jobVars

(* A failed statement elsewhere.                                            *)
LEMMA JobsFault ==
  ASSUME JobInv, Fault, UNCHANGED <<worker, row, noted, posted, approval, pool, server>>
  PROVE  JobInv'
<1>0. faults \in 0 .. MaxFaults BY DEF JobInv, JobTypes
<1>1. faults' \in 0 .. MaxFaults /\ faults' # 0 BY <1>0, FaultFacts
<1>2. JobTypes' BY <1>1 DEF JobInv, JobTypes
<1>3. PoolInv' BY DEF JobInv, PoolInv, Active
<1>4. \A j \in Jobs : OfJob(j)' BY <1>1 DEF JobInv, OfJob
<1> QED BY <1>2, <1>3, <1>4 DEF JobInv

-----------------------------------------------------------------------------
(* The rate limit                                                           *)

(* There is always a limiter that nobody has: a request that has none, for  *)
(* an address that has none, leaves one over.                               *)
LEMMA NewLimiterFacts ==
  ASSUME table \in [Addresses -> Nat], held \in [Requests -> Nat],
         NEW r \in Requests, held[r] = 0
  PROVE  NewLimiter \in Nat \ {0}
<1> DEFINE T == {table[a] : a \in Addresses}
           H == {held[x] : x \in Requests}
           n == Cardinality(Requests)
           m == Cardinality(Addresses)
<1>1. IsFiniteSet(Requests) BY LimitAssumption
<1>2. IsFiniteSet(Addresses)
  <2>1. [x \in Requests |-> Address[x]] \in Surjection(Requests, Addresses)
    BY DEF Surjection, Addresses
  <2> QED BY <1>1, <2>1, FS_Surjection
<1>3. n \in Nat /\ m \in Nat BY <1>1, <1>2, FS_CardinalityType
<1>4. IsFiniteSet(T) /\ Cardinality(T) <= m
  <2>1. table \in Surjection(Addresses, T) BY DEF Surjection
  <2> QED BY <1>2, <2>1, FS_Surjection
<1>5. IsFiniteSet(H) /\ Cardinality(H) <= n
  <2>1. held \in Surjection(Requests, H) BY DEF Surjection
  <2> QED BY <1>1, <2>1, FS_Surjection
<1>6. 0 \in H OBVIOUS
<1> HIDE DEF T, H, n, m
<1>7. /\ IsFiniteSet(T \cup H) /\ Cardinality(T \cap H) \in Nat
      /\ Cardinality(T \cup H) = Cardinality(T) + Cardinality(H) - Cardinality(T \cap H)
  <2>1. IsFiniteSet(T \cap H) BY <1>4, FS_Intersection
  <2> QED BY <1>4, <1>5, <2>1, FS_Union, FS_CardinalityType
<1>8. Cardinality(T) \in Nat /\ Cardinality(H) \in Nat BY <1>4, <1>5, FS_CardinalityType
<1>9. Cardinality(T \cup H) <= n + m BY <1>3, <1>4, <1>5, <1>7, <1>8
<1>10. /\ IsFiniteSet((T \cup H) \ {0})
       /\ Cardinality((T \cup H) \ {0}) = Cardinality(T \cup H) - 1
  BY <1>6, <1>7, FS_RemoveElement
<1>11. Cardinality(1 .. n + m) = n + m
  <2>1. n + m \in Int /\ 1 \in Int /\ n + m >= 0 BY <1>3
  <2> QED BY <2>1, FS_Interval
<1>12. PICK l \in 1 .. n + m : l \notin T \cup H
  <2> SUFFICES ASSUME 1 .. n + m \subseteq T \cup H PROVE FALSE OBVIOUS
  <2>1. 1 .. n + m \subseteq (T \cup H) \ {0} BY <1>3
  <2>2. Cardinality(1 .. n + m) <= Cardinality((T \cup H) \ {0}) BY <1>10, <2>1, FS_Subset
  <2>3. Cardinality(T \cup H) \in Nat BY <1>7, FS_CardinalityType
  <2> QED BY <1>3, <1>9, <1>10, <1>11, <2>2, <2>3
<1>13. (\A a \in Addresses : table[a] # l) /\ (\A x \in Requests : held[x] # l)
  BY <1>12 DEF T, H
<1>14. NewLimiter \in 1 .. n + m BY <1>12, <1>13 DEF NewLimiter, n, m
<1> QED BY <1>3, <1>14

LEMMA HandledGrows ==
  ASSUME Handled \subseteq Handled', count \in 0 .. Cardinality(Handled)
  PROVE  count \in 0 .. Cardinality(Handled')
<1>1. IsFiniteSet(Handled) /\ IsFiniteSet(Handled')
  <2>1. Handled \subseteq Jobs /\ Handled' \subseteq Jobs BY DEF Handled
  <2> QED BY <2>1, JobsAssumption, FS_Subset
<1>2. Cardinality(Handled) <= Cardinality(Handled') BY <1>1, FS_Subset
<1>3. Cardinality(Handled) \in Nat /\ Cardinality(Handled') \in Nat BY <1>1, FS_CardinalityType
<1> QED BY <1>2, <1>3

(* The requests of an address that are counted.                             *)
Recent(a) == {r \in recent : Address[r] = a}

LEMMA RecentFinite ==
  ASSUME recent \subseteq Requests
  PROVE  /\ \A a : IsFiniteSet(Recent(a)) /\ Cardinality(Recent(a)) \in Nat
         /\ \A l : IsFiniteSet(Stamps(l)) /\ Cardinality(Stamps(l)) \in Nat
<1>1. IsFiniteSet(Requests) BY LimitAssumption
<1>2. (\A a : Recent(a) \subseteq Requests) /\ (\A l : Stamps(l) \subseteq Requests)
  BY DEF Recent, Stamps
<1> QED BY <1>1, <1>2, FS_Subset, FS_CardinalityType

(* A handler that is not between the limiter's lookup and its lock moves.   *)
LEMMA HandlerMoves ==
  ASSUME LimitInv, RouterInv, NEW d \in Jobs, NEW v, request' = [request EXCEPT ![d] = v],
         \/ request[d] = "none" /\ v \in {"passed", "refused"}
         \/ request[d] = "admitted" /\ v \in {"refused", "forwarded"},
         UNCHANGED limitVars
  PROVE  LimitInv'
<1>0. Requests = Jobs BY WebhookAssumption
<1>1. UNCHANGED <<count, table, held, recent, cleaner, swept, windows>> BY DEF limitVars
<1>2. request'[d] = v /\ \A r \in Jobs \ {d} : request'[r] = request[r] BY DEF RouterInv
<1>3. Handled \subseteq Handled' BY <1>2 DEF Handled
<1>4. count' \in 0 .. Cardinality(Handled') BY <1>1, <1>3, HandledGrows DEF LimitInv
<1>5. \A r \in recent' : request'[r] \notin {"none", "passed", "loaded"}
  BY <1>0, <1>1, <1>2 DEF LimitInv
<1>6. \A r \in Requests : request'[r] \in {"none", "passed"} => held'[r] = 0
  BY <1>0, <1>1, <1>2 DEF LimitInv
<1>7. \A r \in Requests : InUse(r)' => InUse(r) BY <1>0, <1>1, <1>2 DEF InUse
<1>8. LimitPerAddress' BY <1>1 DEF LimitInv, LimitPerAddress
<1> QED BY <1>1, <1>4, <1>5, <1>6, <1>7, <1>8 DEF LimitInv

LEMMA LookUpLimit == ASSUME LimitInv, RouterInv, NEW d \in Jobs, LookUp(d) PROVE LimitInv'
<1>0. Requests = Jobs BY WebhookAssumption
<1>1. /\ request[d] = "passed" /\ request' = [request EXCEPT ![d] = "loaded"]
      /\ UNCHANGED <<count, recent, cleaner, swept, windows>>
  BY DEF LookUp, LoadOrStore, Answers
<1>2. request'[d] = "loaded" /\ \A r \in Jobs \ {d} : request'[r] = request[r]
  BY <1>1 DEF RouterInv
<1>3. Address[d] \in Addresses BY <1>0 DEF Addresses
<1>4. held[d] = 0 BY <1>0, <1>1 DEF LimitInv
<1>5. NewLimiter \in Nat \ {0} BY <1>0, <1>4, NewLimiterFacts DEF LimitInv
<1>6. PICK l : l = IF table[Address[d]] = 0 THEN NewLimiter ELSE table[Address[d]] OBVIOUS
<1>7. l \in Nat \ {0} /\ (table[Address[d]] # 0 => l = table[Address[d]])
  BY <1>3, <1>5, <1>6 DEF LimitInv
<1>8. held' = [held EXCEPT ![d] = l] /\ table' = [table EXCEPT ![Address[d]] = l]
  BY <1>0, <1>6 DEF LookUp, LoadOrStore, LimitInv
<1>9. /\ table' \in [Addresses -> Nat] /\ held' \in [Requests -> Nat]
      /\ held'[d] = l /\ table'[Address[d]] = l
      /\ \A r \in Requests \ {d} : held'[r] = held[r]
      /\ \A a \in Addresses \ {Address[d]} : table'[a] = table[a]
  BY <1>0, <1>3, <1>7, <1>8 DEF LimitInv
<1>10. count' \in 0 .. Cardinality(Handled')
  <2>1. Handled \subseteq Handled' BY <1>1, <1>2 DEF Handled
  <2> QED BY <1>1, <2>1, HandledGrows DEF LimitInv
<1>11. \A r \in recent' : request'[r] \notin {"none", "passed", "loaded"}
  BY <1>0, <1>1, <1>2 DEF LimitInv
<1>12. \A r \in Requests : request'[r] \in {"none", "passed"} => held'[r] = 0
  BY <1>0, <1>2, <1>9 DEF LimitInv
<1>13. ASSUME NEW r \in Requests, InUse(r)', Address[r] \notin swept'
       PROVE  held'[r] # 0 /\ held'[r] = table'[Address[r]]
  <2>1. CASE r = d BY <1>7, <1>9, <2>1
  <2>2. CASE r # d
    <3>1. InUse(r) /\ Address[r] \in Addresses
      BY <1>0, <1>1, <1>2, <1>13, <2>2 DEF InUse, Addresses
    <3>2. held[r] # 0 /\ held[r] = table[Address[r]] BY <1>1, <1>13, <3>1 DEF LimitInv
    <3> QED BY <1>7, <1>9, <2>2, <3>1, <3>2
  <2> QED BY <2>1, <2>2
<1>14. LimitPerAddress' BY <1>1 DEF LimitInv, LimitPerAddress
<1> QED BY <1>1, <1>9, <1>10, <1>11, <1>12, <1>13, <1>14 DEF LimitInv

(* The limiter that a request locks has the times of all requests of its    *)
(* address, if the cleanup never deleted one.                               *)
LEMMA CheckAddressLimit ==
  ASSUME LimitInv, RouterInv, NEW d \in Jobs, CheckAddress(d) PROVE LimitInv'
<1>0. Requests = Jobs BY WebhookAssumption
<1>1. request[d] = "loaded" /\ UNCHANGED <<table, swept>>
  BY DEF CheckAddress, Admit, Reject
<1>2. Address[d] \in Addresses BY <1>0 DEF Addresses
<1>3. CASE LimiterHasRoom(d)
  <2>1. /\ request' = [request EXCEPT ![d] = "admitted"] /\ recent' = recent \cup {d}
        /\ count' = count + 1 /\ UNCHANGED <<table, held, swept>>
    BY <1>3 DEF CheckAddress, Admit, Answers
  <2>2. request'[d] = "admitted" /\ \A r \in Jobs \ {d} : request'[r] = request[r]
    BY <2>1 DEF RouterInv
  <2>3. count' \in 0 .. Cardinality(Handled')
    <3>1. Handled' = Handled \cup {d} /\ d \notin Handled BY <1>1, <2>2 DEF Handled
    <3>2. IsFiniteSet(Handled)
      <4>1. Handled \subseteq Jobs BY DEF Handled
      <4> QED BY <4>1, JobsAssumption, FS_Subset
    <3>3. Cardinality(Handled \cup {d}) = Cardinality(Handled) + 1 BY <3>1, <3>2, FS_AddElement
    <3>4. Cardinality(Handled) \in Nat BY <3>2, FS_CardinalityType
    <3>5. count \in 0 .. Cardinality(Handled) BY DEF LimitInv
    <3> QED BY <2>1, <3>1, <3>3, <3>4, <3>5
  <2>4. \A r \in recent' : request'[r] \notin {"none", "passed", "loaded"}
    BY <1>0, <2>1, <2>2 DEF LimitInv
  <2>5. \A r \in Requests : request'[r] \in {"none", "passed"} => held'[r] = 0
    BY <1>0, <2>1, <2>2 DEF LimitInv
  <2>6. \A r \in Requests : InUse(r)' => InUse(r) BY <1>0, <1>1, <2>1, <2>2 DEF InUse
  <2>7. LimitPerAddress'
    <3> SUFFICES ASSUME NEW a \in Addresses \ swept
                 PROVE  Cardinality({r \in recent \cup {d} : Address[r] = a}) <= MaxPerIP
      BY <2>1 DEF LimitPerAddress, Addresses
    <3>0. Cardinality(Recent(a)) <= MaxPerIP BY DEF LimitInv, LimitPerAddress, Recent
    <3>1. CASE Address[d] # a
      <4>1. {r \in recent \cup {d} : Address[r] = a} = Recent(a) BY <3>1 DEF Recent
      <4> QED BY <3>0, <4>1
    <3>2. CASE Address[d] = a
      <4>1. {r \in recent \cup {d} : Address[r] = a} = Recent(a) \cup {d} BY <3>2 DEF Recent
      <4>2. held[d] = table[a]
        <5>1. InUse(d) BY <1>1 DEF InUse
        <5> QED BY <1>0, <3>2, <5>1 DEF LimitInv
      <4>3. Recent(a) \subseteq Stamps(held[d])
        <5> SUFFICES ASSUME NEW r \in recent, Address[r] = a PROVE held[r] = held[d]
          BY DEF Recent, Stamps
        <5>1. InUse(r) /\ r \in Requests BY DEF InUse, LimitInv
        <5> QED BY <4>2, <5>1 DEF LimitInv
      <4>4. recent \subseteq Requests BY DEF LimitInv
      <4>5. /\ IsFiniteSet(Recent(a)) /\ Cardinality(Recent(a)) \in Nat
            /\ IsFiniteSet(Stamps(held[d])) /\ Cardinality(Stamps(held[d])) \in Nat
        BY <4>4, RecentFinite
      <4>6. Cardinality(Recent(a)) <= Cardinality(Stamps(held[d])) BY <4>3, <4>5, FS_Subset
      <4>7. \/ Cardinality(Recent(a) \cup {d}) = Cardinality(Recent(a))
            \/ Cardinality(Recent(a) \cup {d}) = Cardinality(Recent(a)) + 1
        BY <4>5, FS_AddElement
      <4>8. Cardinality(Stamps(held[d])) < MaxPerIP /\ MaxPerIP \in Nat
        BY <1>3, LimitAssumption DEF LimiterHasRoom
      <4>9. Cardinality(Recent(a) \cup {d}) <= MaxPerIP BY <4>5, <4>6, <4>7, <4>8
      <4> QED BY <4>1, <4>9
    <3> QED BY <3>1, <3>2
  <2>8. recent' \subseteq Requests BY <1>0, <2>1 DEF LimitInv
  <2> QED BY <2>1, <2>3, <2>4, <2>5, <2>6, <2>7, <2>8 DEF LimitInv
<1>4. CASE ~LimiterHasRoom(d)
  <2>1. /\ request' = [request EXCEPT ![d] = "refused"] /\ held' = [held EXCEPT ![d] = 0]
        /\ UNCHANGED <<count, table, recent, swept>>
    BY <1>4 DEF CheckAddress, Reject, Answers
  <2>2. request'[d] = "refused" /\ \A r \in Jobs \ {d} : request'[r] = request[r]
    BY <2>1 DEF RouterInv
  <2>3. /\ held' \in [Requests -> Nat] /\ held'[d] = 0
        /\ \A r \in Requests \ {d} : held'[r] = held[r]
    BY <1>0, <2>1 DEF LimitInv
  <2>4. count' \in 0 .. Cardinality(Handled')
    <3>1. Handled \subseteq Handled' BY <2>2 DEF Handled
    <3> QED BY <2>1, <3>1, HandledGrows DEF LimitInv
  <2>5. \A r \in recent' : request'[r] \notin {"none", "passed", "loaded"}
    BY <1>0, <2>1, <2>2 DEF LimitInv
  <2>6. \A r \in Requests : request'[r] \in {"none", "passed"} => held'[r] = 0
    BY <1>0, <2>2, <2>3 DEF LimitInv
  <2>7. \A r \in Requests : InUse(r)' => InUse(r) /\ r # d
    BY <1>0, <1>1, <2>1, <2>2 DEF InUse, LimitInv
  <2>8. LimitPerAddress' BY <2>1 DEF LimitInv, LimitPerAddress
  <2> QED BY <2>1, <2>3, <2>4, <2>5, <2>6, <2>7, <2>8 DEF LimitInv
<1> QED BY <1>3, <1>4

LEMMA LimitsStep == ASSUME LimitInv, RouterInv, Limits, UNCHANGED routerVars PROVE LimitInv'
<1>0. Requests = Jobs /\ request' = request BY WebhookAssumption DEF routerVars
<1>1. Handled' = Handled BY <1>0 DEF Handled
<1>2. CASE NewWindow
  <2>1. count' = 0 /\ UNCHANGED <<table, held, recent, swept>> BY <1>2 DEF NewWindow
  <2>2. count' \in 0 .. Cardinality(Handled')
    <3>1. count \in 0 .. Cardinality(Handled) BY DEF LimitInv
    <3>2. Cardinality(Handled) \in Nat
      <4>1. IsFiniteSet(Handled) BY JobsAssumption, FS_Subset DEF Handled
      <4> QED BY <4>1, FS_CardinalityType
    <3> QED BY <1>1, <2>1, <3>1, <3>2
  <2>3. \A r \in Requests : InUse(r)' <=> InUse(r) BY <1>0, <2>1 DEF InUse
  <2>4. LimitPerAddress' BY <2>1 DEF LimitInv, LimitPerAddress
  <2> QED BY <1>0, <2>1, <2>2, <2>3, <2>4 DEF LimitInv
<1>3. ASSUME NEW x \in Requests, Expire(x) PROVE LimitInv'
  <2>1. /\ x \in recent /\ recent' = recent \ {x} /\ held' = [held EXCEPT ![x] = 0]
        /\ UNCHANGED <<count, table, swept>>
    BY <1>3 DEF Expire
  <2>2. /\ held' \in [Requests -> Nat] /\ held'[x] = 0
        /\ \A r \in Requests \ {x} : held'[r] = held[r]
    BY <2>1 DEF LimitInv
  <2>3. \A r \in Requests : InUse(r)' => InUse(r) /\ r # x
    BY <1>0, <2>1 DEF InUse, LimitInv
  <2>4. LimitPerAddress'
    <3> SUFFICES ASSUME NEW a \in Addresses \ swept
                 PROVE  Cardinality({r \in recent \ {x} : Address[r] = a}) <= MaxPerIP
      BY <2>1 DEF LimitPerAddress, Addresses
    <3>1. {r \in recent \ {x} : Address[r] = a} \subseteq Recent(a) BY DEF Recent
    <3>2. recent \subseteq Requests BY DEF LimitInv
    <3>3. IsFiniteSet(Recent(a)) /\ Cardinality(Recent(a)) \in Nat BY <3>2, RecentFinite
    <3>4. /\ IsFiniteSet({r \in recent \ {x} : Address[r] = a})
          /\ Cardinality({r \in recent \ {x} : Address[r] = a}) <= Cardinality(Recent(a))
      BY <3>1, <3>3, FS_Subset
    <3>5. Cardinality({r \in recent \ {x} : Address[r] = a}) \in Nat
      BY <3>4, FS_CardinalityType
    <3>6. Cardinality(Recent(a)) <= MaxPerIP BY DEF LimitInv, LimitPerAddress, Recent
    <3>7. MaxPerIP \in Nat BY LimitAssumption
    <3> QED BY <3>3, <3>4, <3>5, <3>6, <3>7
  <2>5. \A r \in Requests : request'[r] \in {"none", "passed"} => held'[r] = 0
    BY <1>0, <2>2 DEF LimitInv
  <2> QED BY <1>0, <1>1, <2>1, <2>2, <2>3, <2>4, <2>5 DEF LimitInv
<1>4. ASSUME NEW a \in Addresses, CleanupLooks(a) PROVE LimitInv'
  <2>1. UNCHANGED <<count, table, held, recent, swept>> BY <1>4 DEF CleanupLooks
  <2>2. \A r \in Requests : InUse(r)' <=> InUse(r) BY <1>0, <2>1 DEF InUse
  <2>3. LimitPerAddress' BY <2>1 DEF LimitInv, LimitPerAddress
  <2> QED BY <1>0, <1>1, <2>1, <2>2, <2>3 DEF LimitInv
<1>5. ASSUME NEW a \in Addresses, CleanupDeletes(a) PROVE LimitInv'
  <2>1. /\ swept' = swept \cup {a} /\ table' = [table EXCEPT ![a] = 0]
        /\ UNCHANGED <<count, held, recent>>
    BY <1>5 DEF CleanupDeletes
  <2>2. /\ table' \in [Addresses -> Nat] /\ swept' \subseteq Addresses
        /\ \A b \in Addresses \ {a} : table'[b] = table[b]
    BY <2>1 DEF LimitInv
  <2>3. \A r \in Requests : InUse(r)' <=> InUse(r) BY <1>0, <2>1 DEF InUse
  <2>4. \A r \in Requests : InUse(r)' /\ Address[r] \notin swept' =>
          held'[r] # 0 /\ held'[r] = table'[Address[r]]
    BY <2>1, <2>2, <2>3 DEF LimitInv, Addresses
  <2>5. LimitPerAddress' BY <2>1 DEF LimitInv, LimitPerAddress, Addresses
  <2> QED BY <1>0, <1>1, <2>1, <2>2, <2>4, <2>5 DEF LimitInv
<1> QED BY <1>2, <1>3, <1>4, <1>5 DEF Limits

LEMMA LimitsUnchanged == ASSUME LimitInv, UNCHANGED limitVars, request' = request PROVE LimitInv'
<1>1. UNCHANGED <<count, table, held, recent, swept>> BY DEF limitVars
<1>2. \A r \in Requests : InUse(r)' <=> InUse(r) BY <1>1 DEF InUse
<1>3. LimitPerAddress' BY <1>1 DEF LimitInv, LimitPerAddress
<1>4. Handled' = Handled BY DEF Handled
<1> QED BY <1>1, <1>2, <1>3, <1>4 DEF LimitInv

(* A router without limiters, requests and forwards.                        *)
LEMMA EmptyLimit ==
  ASSUME count = 0, table = [a \in Addresses |-> 0], held = [r \in Requests |-> 0],
         recent = {}, swept = {}, \A r \in Requests : request[r] # "loaded"
  PROVE  LimitInv
<1>1. count \in 0 .. Cardinality(Handled)
  <2>1. IsFiniteSet(Handled) BY JobsAssumption, FS_Subset DEF Handled
  <2>2. Cardinality(Handled) \in Nat BY <2>1, FS_CardinalityType
  <2> QED BY <2>2
<1>2. LimitPerAddress
  <2>1. Cardinality({}) = 0 BY FS_EmptySet
  <2>2. \A a : {r \in recent : Address[r] = a} = {} OBVIOUS
  <2>3. MaxPerIP \in Nat BY LimitAssumption
  <2> QED BY <2>1, <2>2, <2>3 DEF LimitPerAddress
<1> QED BY <1>1, <1>2 DEF LimitInv, InUse

LEMMA RouterGoesStep == ASSUME IInv, RouterGoes PROVE LimitInv' /\ RouterInv'
<1>1. /\ router' = "down"
      /\ request' = [d \in Jobs |-> IF d \in InHandler THEN "refused" ELSE request[d]]
      /\ forward' = [d \in Jobs |-> IF d \in InFlight THEN "lost" ELSE forward[d]]
      /\ count' = 0 /\ recent' = {} /\ swept' = {}
      /\ table' = [a \in Addresses |-> 0] /\ held' = [r \in Requests |-> 0]
  BY DEF RouterGoes
<1>2. \A r \in Requests : request'[r] # "loaded"
  BY <1>1, WebhookAssumption DEF InHandler
<1>3. LimitInv'
  <2>1. count' \in 0 .. Cardinality(Handled')
    <3>1. IsFiniteSet(Handled') BY JobsAssumption, FS_Subset DEF Handled
    <3>2. Cardinality(Handled') \in Nat BY <3>1, FS_CardinalityType
    <3> QED BY <1>1, <3>2
  <2>2. LimitPerAddress'
    <3>1. Cardinality({}) = 0 BY FS_EmptySet
    <3>2. \A a : {r \in recent' : Address[r] = a} = {} BY <1>1
    <3>3. MaxPerIP \in Nat BY LimitAssumption
    <3> QED BY <3>1, <3>2, <3>3 DEF LimitPerAddress
  <2> QED BY <1>1, <1>2, <2>1, <2>2 DEF LimitInv, InUse
<1>4. RouterInv' BY <1>1 DEF IInv, RouterInv, InHandler, InFlight
<1> QED BY <1>3, <1>4

-----------------------------------------------------------------------------
(* The router                                                               *)

(* The handler of a delivery goes on: it exists only while the listener is  *)
(* open or Shutdown waits for it.                                           *)
LEMMA HandlerRouter ==
  ASSUME RouterInv, NEW d \in Jobs, NEW v, request' = [request EXCEPT ![d] = v],
         v \in {"passed", "loaded", "admitted", "refused"},
         d \in InHandler \/ router = "up", UNCHANGED <<forward, router>>
  PROVE  RouterInv'
<1>1. request' \in [Jobs -> {"none", "passed", "loaded", "admitted", "refused", "forwarded"}]
  BY DEF RouterInv
<1>2. request'[d] = v /\ \A r \in Jobs \ {d} : request'[r] = request[r] BY DEF RouterInv
<1>3. router' \in {"draining", "stopped"} => InHandler' = {} BY DEF RouterInv
<1>4. router' = "stopped" => InFlight' = {} BY DEF RouterInv, InFlight
<1> QED BY <1>1, <1>2, <1>3, <1>4 DEF RouterInv

LEMMA RouteRouter == ASSUME RouterInv, NEW d \in Jobs, Route(d) PROVE RouterInv'
<1>1. PICK f \in {"sending", "dropped"} : forward' = [forward EXCEPT ![d] = f]
  BY DEF Route, Forwards
<1>2. /\ request[d] = "admitted" /\ request' = [request EXCEPT ![d] = "forwarded"]
      /\ UNCHANGED router
  BY DEF Route, Answers
<1>3. router' \notin {"draining", "stopped"} BY <1>2 DEF RouterInv, InHandler
<1> QED BY <1>1, <1>2, <1>3 DEF RouterInv

LEMMA ForwardingRouter == ASSUME RouterInv, NEW d \in Jobs, Forwarding(d) PROVE RouterInv'
<1>1. PICK f \in {"sent", "lost"} : forward' = [forward EXCEPT ![d] = f]
  BY DEF Forwarding, Accepted, NotAccepted, Forwards
<1>2. UNCHANGED <<request, router>> BY DEF Forwarding, Accepted, NotAccepted
<1>3. InFlight' \subseteq InFlight /\ InHandler' = InHandler
  BY <1>1, <1>2 DEF RouterInv, InFlight, InHandler
<1> QED BY <1>1, <1>2, <1>3 DEF RouterInv

LEMMA RouterUnchanged == ASSUME RouterInv, UNCHANGED routerVars PROVE RouterInv'
  BY DEF RouterInv, routerVars, InHandler, InFlight

-----------------------------------------------------------------------------
(* The composition                                                          *)

LEMMA InitStep == Init => IInv
<1> SUFFICES ASSUME Init PROVE IInv OBVIOUS
<1>1. JobInv
  <2>1. faults \in 0 .. MaxFaults /\ PoolSize \in Nat BY JobsAssumption DEF Init, JobInit
  <2>2. JobTypes BY <2>1 DEF Init, JobInit, JobTypes, Rows
  <2>3. \A s \in Services : Active(s) = {} BY DEF Init, JobInit, Active, Working
  <2>4. PoolInv BY <2>1, <2>3, FS_EmptySet DEF Init, JobInit, PoolInv
  <2>5. \A j \in Jobs : OfJob(j) BY DEF Init, JobInit, OfJob
  <2> QED BY <2>2, <2>4, <2>5 DEF JobInv
<1>2. LimitInv BY EmptyLimit, WebhookAssumption DEF Init, LimitInit
<1>3. RouterInv BY DEF Init, RouterInv, InHandler, InFlight
<1> QED BY <1>1, <1>2, <1>3 DEF IInv

LEMMA HandlerStep == ASSUME IInv, NEW d \in Jobs, Arrive(d) \/ Handler(d) PROVE IInv'
<1>0. JobInv /\ LimitInv /\ RouterInv BY DEF IInv
<1>1. UNCHANGED jobVars
  BY DEF Arrive, Handler, LookUp, CheckAddress, Refuse, NotResolved, NotVerified, Route, QueueIssue
<1>2. JobInv' BY <1>0, <1>1, JobsUnchanged
<1>3. CASE Arrive(d)
  <2>1. PICK v \in {"passed", "refused"} : request' = [request EXCEPT ![d] = v]
    BY <1>3 DEF Arrive, Answers
  <2>2. /\ router = "up" /\ request[d] = "none" /\ UNCHANGED limitVars
        /\ UNCHANGED <<forward, router>>
    BY <1>3 DEF Arrive
  <2>3. LimitInv' BY <1>0, <2>1, <2>2, HandlerMoves
  <2>4. RouterInv' BY <1>0, <2>1, <2>2, HandlerRouter
  <2> QED BY <1>2, <2>3, <2>4 DEF IInv
<1>4. CASE LookUp(d)
  <2>1. /\ d \in InHandler /\ request' = [request EXCEPT ![d] = "loaded"]
        /\ UNCHANGED <<forward, router>>
    BY <1>4 DEF LookUp, Answers, InHandler
  <2>2. RouterInv' BY <1>0, <2>1, HandlerRouter
  <2>3. LimitInv' BY <1>0, <1>4, LookUpLimit
  <2> QED BY <1>2, <2>2, <2>3 DEF IInv
<1>5. CASE CheckAddress(d)
  <2>1. PICK v \in {"admitted", "refused"} : request' = [request EXCEPT ![d] = v]
    BY <1>5 DEF CheckAddress, Answers
  <2>2. d \in InHandler /\ UNCHANGED <<forward, router>>
    BY <1>5 DEF CheckAddress, Answers, InHandler
  <2>3. RouterInv' BY <1>0, <2>1, <2>2, HandlerRouter
  <2>4. LimitInv' BY <1>0, <1>5, CheckAddressLimit
  <2> QED BY <1>2, <2>3, <2>4 DEF IInv
<1>6. CASE Refuse(d) \/ NotResolved(d) \/ NotVerified(d) \/ QueueIssue(d)
  <2>1. /\ d \in InHandler /\ request[d] = "admitted"
        /\ request' = [request EXCEPT ![d] = "refused"]
        /\ UNCHANGED limitVars /\ UNCHANGED <<forward, router>>
    BY <1>6 DEF Refuse, NotResolved, NotVerified, QueueIssue, Answers, InHandler
  <2>2. LimitInv' BY <1>0, <2>1, HandlerMoves
  <2>3. RouterInv' BY <1>0, <2>1, HandlerRouter
  <2> QED BY <1>2, <2>2, <2>3 DEF IInv
<1>7. CASE Route(d)
  <2>1. /\ request[d] = "admitted" /\ request' = [request EXCEPT ![d] = "forwarded"]
        /\ UNCHANGED limitVars
    BY <1>7 DEF Route, Answers
  <2>2. LimitInv' BY <1>0, <2>1, HandlerMoves
  <2>3. RouterInv' BY <1>0, <1>7, RouteRouter
  <2> QED BY <1>2, <2>2, <2>3 DEF IInv
<1> QED BY <1>3, <1>4, <1>5, <1>6, <1>7 DEF Handler

LEMMA ForwardingStep == ASSUME IInv, NEW d \in Jobs, Forwarding(d) PROVE IInv'
<1>0. JobInv /\ LimitInv /\ RouterInv BY DEF IInv
<1>1. HandleCreate(d) \/ UNCHANGED jobVars BY DEF Forwarding, Accepted, NotAccepted
<1>2. UNCHANGED limitVars /\ request' = request BY DEF Forwarding, Accepted, NotAccepted
<1>3. JobInv' BY <1>0, <1>1, HandleCreateStep, JobsUnchanged
<1>4. LimitInv' BY <1>0, <1>2, LimitsUnchanged
<1>5. RouterInv' BY <1>0, ForwardingRouter
<1> QED BY <1>3, <1>4, <1>5 DEF IInv

LEMMA StopStep == ASSUME IInv, ShutdownRouter \/ RouterStops \/ CrashRouter PROVE IInv'
<1>0. JobInv /\ LimitInv /\ RouterInv BY DEF IInv
<1>1. CASE ShutdownRouter \/ HandlersDone \/ ForwardsDone
  <2>1. UNCHANGED <<jobVars, limitVars, request, forward>>
    BY <1>1 DEF ShutdownRouter, HandlersDone, ForwardsDone, Becomes
  <2>2. JobInv' BY <1>0, <2>1, JobsUnchanged
  <2>3. LimitInv' BY <1>0, <2>1, LimitsUnchanged
  <2>4. InHandler' = InHandler /\ InFlight' = InFlight BY <2>1 DEF InHandler, InFlight
  <2>5. RouterInv'
    BY <1>0, <1>1, <2>1, <2>4 DEF ShutdownRouter, HandlersDone, ForwardsDone, Becomes, RouterInv
  <2> QED BY <2>2, <2>3, <2>5 DEF IInv
<1>2. CASE ExitRouter
  <2>1. JobInv' BY <1>0, <1>2, JobsUnchanged DEF ExitRouter
  <2> QED BY <1>2, <2>1, RouterGoesStep DEF ExitRouter, IInv
<1>3. CASE CrashRouter
  <2>1. JobInv' BY <1>0, <1>3, JobsFault DEF CrashRouter
  <2> QED BY <1>3, <2>1, RouterGoesStep DEF CrashRouter, IInv
<1> QED BY <1>1, <1>2, <1>3 DEF RouterStops

LEMMA Inductive == IInv /\ [Next]_vars => IInv'
<1> SUFFICES ASSUME IInv, [Next]_vars PROVE IInv' OBVIOUS
<1>0. JobInv /\ LimitInv /\ RouterInv BY DEF IInv
<1>1. ASSUME NEW d \in Jobs, Arrive(d) \/ Handler(d) \/ Forwarding(d) PROVE IInv'
  BY <1>1, HandlerStep, ForwardingStep
<1>2. CASE Limits /\ UNCHANGED <<jobVars, routerVars>>
  <2>1. UNCHANGED jobVars /\ UNCHANGED routerVars BY <1>2
  <2> QED BY <1>0, <1>2, <2>1, JobsUnchanged, LimitsStep, RouterUnchanged DEF IInv
<1>3. CASE ShutdownRouter \/ RouterStops \/ CrashRouter BY <1>3, StopStep
<1>4. CASE JobNext /\ UNCHANGED <<limitVars, routerVars>>
  <2>1. UNCHANGED limitVars /\ UNCHANGED routerVars /\ request' = request
    BY <1>4 DEF routerVars
  <2> QED BY <1>0, <1>4, <2>1, JobNextStep, LimitsUnchanged, RouterUnchanged DEF IInv
<1>5. CASE UNCHANGED vars
  <2>1. UNCHANGED jobVars /\ UNCHANGED limitVars /\ UNCHANGED routerVars /\ request' = request
    BY <1>5 DEF vars, routerVars
  <2> QED BY <1>0, <2>1, JobsUnchanged, LimitsUnchanged, RouterUnchanged DEF IInv
<1> QED BY <1>1, <1>2, <1>3, <1>4, <1>5 DEF Next

LEMMA Always == Spec => []IInv
<1> QED BY InitStep, Inductive, PTL DEF Spec

LEMMA Implied == IInv => WebhookInv /\ LimitPerAddress
<1> SUFFICES ASSUME IInv PROVE WebhookInv /\ LimitPerAddress OBVIOUS
<1>0. JobInv /\ LimitInv /\ RouterInv BY DEF IInv
<1>1. JobTypeOK BY <1>0 DEF JobInv, JobTypes, PoolInv, JobTypeOK, Rows
<1>2. count \in 0 .. Cardinality(Jobs) /\ recent \subseteq Jobs
  <2>1. Handled \subseteq Jobs /\ IsFiniteSet(Jobs) BY JobsAssumption DEF Handled
  <2>2. IsFiniteSet(Handled) /\ Cardinality(Handled) <= Cardinality(Jobs) BY <2>1, FS_Subset
  <2>3. Cardinality(Handled) \in Nat /\ Cardinality(Jobs) \in Nat
    BY <2>1, <2>2, FS_CardinalityType
  <2>4. count \in 0 .. Cardinality(Handled) /\ recent \subseteq Jobs
    BY <1>0, WebhookAssumption DEF LimitInv
  <2> QED BY <2>2, <2>3, <2>4
<1>3. TypeOK BY <1>0, <1>1, <1>2 DEF RouterInv, TypeOK
<1>4. CompletedIsPosted BY <1>0 DEF JobInv, OfJob, CompletedIsPosted
<1>5. ForwardsCompleted BY <1>0 DEF RouterInv, ForwardsCompleted, InFlight
<1> QED BY <1>0, <1>3, <1>4, <1>5 DEF WebhookInv, LimitInv

(* In every state: the pools of the services are the numbers of their       *)
(* workers, a review that says completed is at GitHub, with its comments    *)
(* stored if no statement failed, and a router that has logged "all         *)
(* forwards completed" has none on its way.                                 *)
THEOREM WebhooksCorrect == Spec => []WebhookInv
<1>1. IInv => WebhookInv BY Implied
<1> QED BY <1>1, Always, PTL

(* No address has more than rateLimitMaxPerIP requests in a minute, however *)
(* its requests interleave in checkRateLimit, if no cleanup deleted its     *)
(* limiter.                                                                 *)
THEOREM AddressesLimited == Spec => []LimitPerAddress
<1>1. IInv => LimitPerAddress BY Implied
<1> QED BY <1>1, Always, PTL

(* A fix that the user was told is approved stays approved: no step of a    *)
(* worker or of another approval writes its row (handleApproveFix,          *)
(* ProcessDiagnosis).                                                       *)
THEOREM ApprovalsStand == Spec => ApprovalStands
<1>1. IInv /\ [Next]_vars =>
        [\A j \in Jobs : approval[j] = "approved" => row'[j] = "fix_approved"]_jobVars
  <2> SUFFICES ASSUME IInv, [Next]_vars, NEW j \in Jobs, approval[j] = "approved"
               PROVE  row'[j] = "fix_approved"
    OBVIOUS
  <2>1. row[j] = "fix_approved" /\ worker[j] \in {"post", "gone"} /\ ServiceOf[j] = "diagnosis"
    BY DEF IInv, JobInv, OfJob
  <2>2. row'[j] = row[j]
    <3> SUFFICES ASSUME row'[j] # row[j] PROVE FALSE OBVIOUS
    <3>0. JobTypes /\ OfJob(j) BY DEF IInv, JobInv
    <3>1. JobNext
      BY DEF Next, vars, jobVars, Arrive, Handler, LookUp, CheckAddress, Refuse, NotResolved,
             NotVerified, Route, QueueIssue, Forwarding, Accepted, NotAccepted, HandleCreate,
             ShutdownRouter, RouterStops, HandlersDone, ForwardsDone, ExitRouter, Becomes,
             CrashRouter
    <3>2. ASSUME NEW i \in Jobs, Work(i) PROVE FALSE
      <4>1. i = j
        BY <3>0, <3>2 DEF Work, CreateRow, CreateReview, CreateDiagnosis, Review, Diagnose,
           ThinkFails, PostReview, PostDiagnosisComment, SettleReview, SettleDiagnosis,
           UpdateReviewResult, UpdateDiagnosisResult, WritesIfOpen, Writes, JobTypes
      <4> QED
        BY <2>1, <3>2, <4>1 DEF Work, CreateRow, Review, Diagnose, ThinkFails, PostReview,
           PostDiagnosisComment, SettleReview, SettleDiagnosis
    <3>3. ASSUME NEW i \in Jobs, Approve(i) PROVE FALSE
      <4>1. CASE i = j BY <3>3, <4>1, <2>1 DEF Approve, ApproveRead, ApproveWrite, GetDiagnosis
      <4>2. CASE i # j
        BY <3>0, <3>3, <4>2 DEF Approve, ApproveRead, ApproveWrite, UpdateDiagnosisStatus,
           WritesIfOpen, Writes, JobTypes
      <4> QED BY <4>1, <4>2
    <3>4. ASSUME NEW s \in Services, Lives(s) PROVE FALSE
      BY <3>4 DEF Lives, Shutdown, WorkersFinished, Serves, Exit, Crash, Dies
    <3> QED BY <3>1, <3>2, <3>3, <3>4 DEF JobNext
  <2> QED BY <2>1, <2>2
<1> QED BY <1>1, Always, PTL DEF Spec, ApprovalStands
=============================================================================
