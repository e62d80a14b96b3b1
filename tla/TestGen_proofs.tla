--------------------------- MODULE TestGen_proofs ---------------------------
(***************************************************************************)
(* Proofs about the test generation service, for any number of jobs,       *)
(* paths, workers and iterations.                                          *)
(*                                                                         *)
(* What is true of a job depends only on its stage, on the variables of    *)
(* its worker, on the branch it pushed and on whether its context is done: *)
(* LocalInv says it with the operator Loc, so that one lemma (Frame)       *)
(* covers all the other jobs in every step.  LockInv is what the clone     *)
(* mutex guarantees about the directory that the jobs share.               *)
(***************************************************************************)
EXTENDS TestGen, SequenceTheorems, TLAPS

WorkType ==
  [copy : {"none", "partial", "whole"}, tree : [Paths -> Contents], tests : Seq(SUBSET Paths),
   written : SUBSET Paths, current : 0 .. MaxCoverage, best : 0 .. MaxCoverage,
   gained : Seq(BOOLEAN), iteration : Nat]

(* The type of the state, with that of a worker's variables.                *)
Types ==
  /\ stage \in [Jobs -> Stages]
  /\ row \in [Jobs -> {"none", "pending", "failed", "done"}]
  /\ work \in [Jobs -> WorkType]
  /\ pushed \in [Jobs -> [Paths -> Contents]]
  /\ expired \subseteq Jobs /\ left \subseteq Jobs
  /\ cache \in {"absent", "partial", "whole"}
  /\ mutex \in Jobs \cup {NoJob}
  /\ service \in {"up", "stopping", "closed", "down"}
  /\ interrupted \in BOOLEAN /\ faults \in 0 .. MaxFaults

(* The mutex is held by the job that clones or copies, and by no other; a   *)
(* partial clone that nobody is making was killed.                          *)
LockInv ==
  /\ \A j \in Jobs : stage[j] \in {"clone", "copy"} <=> mutex = j
  /\ \A j \in Jobs : stage[j] = "copy" => cache # "absent"
  /\ cache = "partial" => interrupted \/ \E j \in Jobs : stage[j] = "clone"
  /\ CopyIsWhole

(* The file p of a working directory is the repository's own, is not there, *)
(* or was written by an iteration that lists it.                            *)
Kept(w, p) == w.tree[p] > Own => w.tree[p] \in DOMAIN w.tests /\ p \in w.tests[w.tree[p]]

(* Before the copy, and at the end, a worker has no directory.  While an    *)
(* iteration is measured, what it wrote is marked with its number, which is *)
(* the index that its list of files will have.                              *)
Loc(j, s, w, t, done) ==
  /\ s \in {"new", "refused", "accepted", "lock", "clone", "copy", "end"} => w = NoWork
  /\ s = "baseline" => w.tests = <<>> /\ w.gained = <<>> /\ w.iteration = 0
  /\ s \in {"generate", "measure"} =>
       w.iteration \in 1 .. MaxIterations[j] /\ Len(w.tests) = w.iteration - 1
  /\ s = "measure" => \A p \in w.written : w.tree[p] = w.iteration
  /\ \A p \in Paths : ~Kept(w, p) => s = "measure" /\ p \in w.written
  /\ s \notin {"save", "end"} => t = NoTree
  /\ s = "save" => \A p \in Paths :
       t[p] > Own => t[p] \in DOMAIN w.tests /\ p \in w.tests[t[p]]
  /\ w.copy = "whole" /\ ~done => \A p \in Tracked : w.tree[p] # Absent
  /\ t # NoTree /\ w.copy = "whole" => \A p \in Tracked : t[p] # Absent
  /\ w.best <= w.current + Tolerance
  /\ w.iteration <= MaxIterations[j] + 1
  /\ Len(w.tests) <= w.iteration /\ Len(w.gained) <= Len(w.tests)

LocalInv == \A j \in Jobs : Loc(j, stage[j], work[j], pushed[j], Done(j))

IInv == Types /\ LockInv /\ LocalInv /\ LeftByShutdown

-----------------------------------------------------------------------------
(* Lemmas about the state of one job                                        *)

LEMMA NoWorkFacts ==
  /\ NoTree \in [Paths -> Contents] /\ OwnTree \in [Paths -> Contents] /\ NoWork \in WorkType
  /\ NoWork.copy = "none" /\ NoWork.tree = NoTree /\ NoWork.tests = <<>> /\ NoWork.gained = <<>>
  /\ NoWork.current = 0 /\ NoWork.best = 0 /\ NoWork.iteration = 0 /\ NoWork.written = {}
<1>1. Absent \in Contents /\ Own \in Contents BY DEF Contents
<1>2. NoTree \in [Paths -> Contents] /\ OwnTree \in [Paths -> Contents]
  BY <1>1 DEF NoTree, OwnTree
<1>3. <<>> \in Seq(SUBSET Paths) /\ <<>> \in Seq(BOOLEAN) BY EmptySeq
<1>4. 0 \in 0 .. MaxCoverage BY TestGenAssumption
<1> QED BY <1>2, <1>3, <1>4 DEF NoWork, WorkType

(* A job that has no working directory.                                     *)
LEMMA NoWorkLoc ==
  ASSUME NEW j \in Jobs, NEW s, NEW t, NEW done,
         \/ s = "end"
         \/ s \in {"new", "refused", "accepted", "lock", "clone", "copy"} /\ t = NoTree
  PROVE  Loc(j, s, NoWork, t, done)
<1>1. \A p \in Paths : ~(NoTree[p] > Own) BY DEF NoTree, Absent, Own
<1>2. Len(<<>>) = 0 BY EmptySeq
<1>3. MaxIterations[j] \in Nat /\ Tolerance \in Nat BY TestGenAssumption
<1>4. \A p \in Paths : Kept(NoWork, p) BY <1>1, NoWorkFacts DEF Kept
<1> QED BY <1>2, <1>3, <1>4, NoWorkFacts DEF Loc

(* The other jobs are as they were.                                         *)
LEMMA Frame ==
  ASSUME LocalInv, NEW j \in Jobs,
         \A i \in Jobs \ {j} :
           stage'[i] = stage[i] /\ work'[i] = work[i] /\ pushed'[i] = pushed[i],
         expired \subseteq expired', service' = "up" => service = "up",
         Loc(j, stage'[j], work'[j], pushed'[j], Done(j)')
  PROVE  LocalInv'
<1> SUFFICES ASSUME NEW i \in Jobs
             PROVE  Loc(i, stage'[i], work'[i], pushed'[i], Done(i)')
  BY DEF LocalInv
<1>1. CASE i = j BY <1>1
<1>2. CASE i # j
  <2>1. Loc(i, stage[i], work[i], pushed[i], Done(i)) BY DEF LocalInv
  <2>2. Done(i) => Done(i)' BY DEF Done
  <2>3. Loc(i, stage[i], work[i], pushed[i], Done(i)') BY <2>1, <2>2 DEF Loc
  <2> QED BY <1>2, <2>3
<1> QED BY <1>1, <1>2

(* A step outside cloneRepo.                                                *)
LEMMA LockFrame ==
  ASSUME LockInv, NEW j \in Jobs,
         \A i \in Jobs \ {j} : stage'[i] = stage[i] /\ work'[i] = work[i],
         stage[j] \notin {"clone", "copy"}, stage'[j] \notin {"clone", "copy"},
         work'[j].copy = "partial" => work[j].copy = "partial",
         UNCHANGED <<cache, mutex, interrupted>>
  PROVE  LockInv'
<1>1. \A i \in Jobs : stage'[i] \in {"clone", "copy"} <=> mutex' = i BY DEF LockInv
<1>2. \A i \in Jobs : stage'[i] = "copy" => cache' # "absent" BY DEF LockInv
<1>3. cache' = "partial" => interrupted' \/ \E i \in Jobs : stage'[i] = "clone" BY DEF LockInv
<1>4. CopyIsWhole' BY DEF LockInv, CopyIsWhole
<1> QED BY <1>1, <1>2, <1>3, <1>4 DEF LockInv

(* What Fail does.                                                          *)
LEMMA FailFacts ==
  ASSUME Types, NEW j \in Jobs, Fail(j)
  PROVE  /\ stage' \in [Jobs -> Stages] /\ work' \in [Jobs -> WorkType]
         /\ row' \in [Jobs -> {"none", "pending", "failed", "done"}]
         /\ faults' \in 0 .. MaxFaults
         /\ stage'[j] = "end" /\ work'[j] = NoWork /\ service # "down"
         /\ \A i \in Jobs \ {j} : stage'[i] = stage[i] /\ work'[i] = work[i]
<1>1. faults' \in 0 .. MaxFaults
  <2>1. faults \in 0 .. MaxFaults /\ MaxFaults \in Nat BY TestGenAssumption DEF Types
  <2> QED BY <2>1 DEF Fail
<1>2. stage' \in [Jobs -> Stages] /\ row' \in [Jobs -> {"none", "pending", "failed", "done"}]
  BY DEF Types, Fail, Goes, Stages
<1>3. work' \in [Jobs -> WorkType] /\ work'[j] = NoWork BY NoWorkFacts DEF Types, Fail
<1> QED BY <1>1, <1>2, <1>3 DEF Types, Fail, Goes

LEMMA FailLocal ==
  ASSUME Types, LocalInv, NEW j \in Jobs, Fail(j), UNCHANGED <<pushed, expired, service>>
  PROVE  LocalInv'
<1>1. Loc(j, stage'[j], work'[j], pushed'[j], Done(j)') BY FailFacts, NoWorkLoc
<1> QED BY <1>1, FailFacts, Frame

(* A failure of a job that does not hold the clone mutex.                   *)
LEMMA FailStep ==
  ASSUME IInv, NEW j \in Jobs, Fail(j), stage[j] \notin {"clone", "copy"},
         UNCHANGED <<pushed, expired, cache, mutex, service, interrupted>>, left' \subseteq Jobs,
         left' # {} => service # "up"
  PROVE  IInv'
<1>0. Types /\ LockInv /\ LocalInv BY DEF IInv
<1>1. Types' BY <1>0, FailFacts DEF Types
<1>2. LocalInv' BY <1>0, FailLocal
<1>3. stage'[j] \notin {"clone", "copy"} /\ work'[j].copy = "none" BY <1>0, FailFacts, NoWorkFacts
<1>4. LockInv' BY <1>0, <1>3, FailFacts, LockFrame
<1>5. LeftByShutdown' BY DEF LeftByShutdown
<1> QED BY <1>1, <1>2, <1>4, <1>5 DEF IInv

-----------------------------------------------------------------------------
(* One lemma per action                                                     *)

LEMMA InitStep == Init => IInv
<1> SUFFICES ASSUME Init PROVE IInv OBVIOUS
<1>1. Types
  <2>1. faults \in 0 .. MaxFaults BY TestGenAssumption DEF Init
  <2> QED BY <2>1, NoWorkFacts DEF Init, Types, Stages
<1>2. LockInv
  <2>1. \A j \in Jobs : stage[j] = "new" /\ mutex # j BY TestGenAssumption DEF Init
  <2>2. CopyIsWhole BY NoWorkFacts DEF Init, CopyIsWhole
  <2> QED BY <2>1, <2>2 DEF Init, LockInv
<1>3. LocalInv BY NoWorkLoc DEF Init, LocalInv
<1>4. LeftByShutdown BY DEF Init, LeftByShutdown
<1> QED BY <1>1, <1>2, <1>3, <1>4 DEF IInv

LEMMA RequestStep == ASSUME IInv, NEW j \in Jobs, Request(j) PROVE IInv'
<1>0. Types /\ LockInv /\ LocalInv BY DEF IInv
<1>1. Types' BY <1>0 DEF Types, Request, Goes, Stages
<1>2. /\ stage[j] = "new" /\ stage'[j] \in {"accepted", "refused"}
      /\ \A i \in Jobs \ {j} : stage'[i] = stage[i] /\ work'[i] = work[i] /\ pushed'[i] = pushed[i]
      /\ UNCHANGED <<work, pushed, expired, cache, mutex, service, left, interrupted>>
  BY <1>0 DEF Types, Request, Goes
<1>3. LocalInv'
  <2>1. work[j] = NoWork /\ pushed[j] = NoTree BY <1>0, <1>2 DEF LocalInv, Loc
  <2>2. Loc(j, stage'[j], work'[j], pushed'[j], Done(j)') BY <1>2, <2>1, NoWorkLoc
  <2> QED BY <1>0, <1>2, <2>2, Frame
<1>4. LockInv' BY <1>0, <1>2, LockFrame
<1>5. LeftByShutdown' BY <1>2 DEF IInv, LeftByShutdown
<1> QED BY <1>1, <1>3, <1>4, <1>5 DEF IInv

LEMMA CreateStep == ASSUME IInv, NEW j \in Jobs, CreateTestGen(j) PROVE IInv'
<1>0. Types /\ LockInv /\ LocalInv BY DEF IInv
<1>1. Types'
  <2>1. faults' \in 0 .. MaxFaults
    <3>1. faults \in 0 .. MaxFaults /\ MaxFaults \in Nat BY <1>0, TestGenAssumption DEF Types
    <3> QED BY <3>1 DEF CreateTestGen
  <2> QED BY <1>0, <2>1 DEF Types, CreateTestGen, Goes, Stages
<1>2. /\ stage[j] = "accepted" /\ stage'[j] \in {"lock", "end"}
      /\ \A i \in Jobs \ {j} : stage'[i] = stage[i] /\ work'[i] = work[i] /\ pushed'[i] = pushed[i]
      /\ UNCHANGED <<work, pushed, expired, cache, mutex, service, left, interrupted>>
  BY <1>0 DEF Types, CreateTestGen, Goes
<1>3. LocalInv'
  <2>1. work[j] = NoWork /\ pushed[j] = NoTree BY <1>0, <1>2 DEF LocalInv, Loc
  <2>2. Loc(j, stage'[j], work'[j], pushed'[j], Done(j)') BY <1>2, <2>1, NoWorkLoc
  <2> QED BY <1>0, <1>2, <2>2, Frame
<1>4. LockInv' BY <1>0, <1>2, LockFrame
<1>5. LeftByShutdown' BY <1>2 DEF IInv, LeftByShutdown
<1> QED BY <1>1, <1>3, <1>4, <1>5 DEF IInv

LEMMA BadClientStep == ASSUME IInv, NEW j \in Jobs, BadClient(j) PROVE IInv'
<1>1. left' \subseteq Jobs /\ (left' # {} => service # "up")
  BY DEF IInv, Types, LeftByShutdown, BadClient
<1> QED BY <1>1, FailStep DEF BadClient

(* The mutex is free, so nobody clones or copies.                           *)
LEMMA LockStep == ASSUME IInv, NEW j \in Jobs, Lock(j) PROVE IInv'
<1>0. Types /\ LockInv /\ LocalInv BY DEF IInv
<1>1. CASE cache = "absent" /\ Done(j)
  <2>1. /\ Fail(j) /\ stage[j] \notin {"clone", "copy"}
        /\ UNCHANGED <<pushed, expired, cache, mutex, service, interrupted, left>>
    BY <1>1 DEF Lock
  <2>2. left' \subseteq Jobs /\ (left' # {} => service # "up")
    BY <2>1 DEF IInv, Types, LeftByShutdown
  <2> QED BY <2>1, <2>2, FailStep
<1>2. CASE ~(cache = "absent" /\ Done(j))
  <2>1. /\ stage[j] = "lock" /\ mutex = NoJob /\ mutex' = j
        /\ stage' = [stage EXCEPT ![j] = IF cache = "absent" THEN "clone" ELSE "copy"]
        /\ IF cache = "absent" THEN cache' = "partial" ELSE cache' \in {cache, "whole"}
        /\ UNCHANGED <<row, work, pushed, expired, service, left, interrupted, faults>>
    BY <1>2 DEF Lock, MayLock, Goes
  <2>2. Types' BY <1>0, <2>1 DEF Types, Stages
  <2>3. /\ stage'[j] = IF cache = "absent" THEN "clone" ELSE "copy"
        /\ \A i \in Jobs \ {j} :
             stage'[i] = stage[i] /\ work'[i] = work[i] /\ pushed'[i] = pushed[i]
    BY <1>0, <2>1 DEF Types
  <2>4. LocalInv'
    <3>1. work[j] = NoWork /\ pushed[j] = NoTree BY <1>0, <2>1 DEF LocalInv, Loc
    <3>2. Loc(j, stage'[j], work'[j], pushed'[j], Done(j)') BY <2>1, <2>3, <3>1, NoWorkLoc
    <3> QED BY <1>0, <2>1, <2>3, <3>2, Frame
  <2>5. \A i \in Jobs : stage[i] \notin {"clone", "copy"}
    BY <1>0, <2>1, TestGenAssumption DEF LockInv
  <2>6. \A i \in Jobs : stage'[i] \in {"clone", "copy"} <=> mutex' = i BY <2>1, <2>3, <2>5
  <2>7. \A i \in Jobs : stage'[i] = "copy" => cache' # "absent" BY <2>1, <2>3, <2>5
  <2>8. cache' = "partial" => interrupted' \/ \E i \in Jobs : stage'[i] = "clone"
    BY <1>0, <2>1, <2>3, <2>5 DEF LockInv
  <2>9. CopyIsWhole' BY <1>0, <2>1 DEF LockInv, CopyIsWhole
  <2>10. LeftByShutdown' BY <2>1 DEF IInv, LeftByShutdown
  <2> QED BY <2>2, <2>4, <2>6, <2>7, <2>8, <2>9, <2>10 DEF IInv, LockInv
<1> QED BY <1>1, <1>2

LEMMA CloneSucceedsStep == ASSUME IInv, NEW j \in Jobs, CloneSucceeds(j) PROVE IInv'
<1>0. Types /\ LockInv /\ LocalInv BY DEF IInv
<1>1. /\ stage[j] = "clone" /\ cache' = "whole" /\ stage' = [stage EXCEPT ![j] = "copy"]
      /\ UNCHANGED <<row, work, pushed, expired, mutex, service, left, interrupted, faults>>
  BY DEF CloneSucceeds, Goes
<1>2. Types' BY <1>0, <1>1 DEF Types, Stages
<1>3. /\ stage'[j] = "copy"
      /\ \A i \in Jobs \ {j} : stage'[i] = stage[i] /\ work'[i] = work[i] /\ pushed'[i] = pushed[i]
  BY <1>0, <1>1 DEF Types
<1>4. LocalInv'
  <2>1. work[j] = NoWork /\ pushed[j] = NoTree BY <1>0, <1>1 DEF LocalInv, Loc
  <2>2. Loc(j, stage'[j], work'[j], pushed'[j], Done(j)') BY <1>1, <1>3, <2>1, NoWorkLoc
  <2> QED BY <1>0, <1>1, <1>3, <2>2, Frame
<1>5. LockInv'
  <2>1. \A i \in Jobs : stage'[i] \in {"clone", "copy"} <=> mutex' = i
    BY <1>0, <1>1, <1>3 DEF LockInv
  <2>2. CopyIsWhole' BY <1>0, <1>1 DEF LockInv, CopyIsWhole
  <2> QED BY <1>1, <2>1, <2>2 DEF LockInv
<1>6. LeftByShutdown' BY <1>1 DEF IInv, LeftByShutdown
<1> QED BY <1>2, <1>4, <1>5, <1>6 DEF IInv

(* A job in cloneRepo fails and unlocks.                                    *)
LEMMA FailUnlocks ==
  ASSUME IInv, NEW j \in Jobs, stage[j] \in {"clone", "copy"}, Fail(j), mutex' = NoJob,
         cache' \in {"absent", "partial", "whole"}, interrupted' \in BOOLEAN,
         interrupted => interrupted', cache' = "partial" => interrupted',
         UNCHANGED <<pushed, expired, service, left>>
  PROVE  IInv'
<1>0. Types /\ LockInv /\ LocalInv BY DEF IInv
<1>1. Types' BY <1>0, FailFacts DEF Types
<1>2. LocalInv' BY <1>0, FailLocal
<1>3. \A i \in Jobs : stage'[i] \notin {"clone", "copy"}
  BY <1>0, FailFacts DEF LockInv
<1>4. CopyIsWhole' BY <1>0, FailFacts, NoWorkFacts DEF LockInv, CopyIsWhole
<1>5. LockInv' BY <1>3, <1>4, TestGenAssumption DEF LockInv
<1>6. LeftByShutdown' BY DEF IInv, LeftByShutdown
<1> QED BY <1>1, <1>2, <1>5, <1>6 DEF IInv

LEMMA CloneFailsStep == ASSUME IInv, NEW j \in Jobs, CloneFails(j) PROVE IInv'
<1>1. interrupted \in BOOLEAN BY DEF IInv, Types
<1>2. /\ stage[j] \in {"clone", "copy"} /\ Fail(j) /\ mutex' = NoJob
      /\ UNCHANGED <<pushed, expired, service, left>>
  BY DEF CloneFails, Unlocked
<1>3. /\ cache' \in {"absent", "partial", "whole"} /\ interrupted' \in BOOLEAN
      /\ (interrupted => interrupted') /\ (cache' = "partial" => interrupted')
  <2>1. CASE cache' = "absent" /\ UNCHANGED interrupted BY <1>1, <2>1
  <2>2. CASE cache' = "partial" /\ interrupted' = TRUE BY <2>2
  <2> QED BY <2>1, <2>2 DEF CloneFails
<1> QED BY <1>2, <1>3, FailUnlocks

LEMMA CopyFailsStep == ASSUME IInv, NEW j \in Jobs, CopyFails(j) PROVE IInv'
<1>1. interrupted \in BOOLEAN /\ cache \in {"absent", "partial", "whole"} BY DEF IInv, Types
<1>2. /\ stage[j] = "copy" /\ Fail(j) /\ mutex' = NoJob
      /\ UNCHANGED <<cache, interrupted, pushed, expired, service, left>>
  BY <1>1 DEF CopyFails, Unlocked
<1>3. \A i \in Jobs : stage[i] # "clone" BY <1>2 DEF IInv, LockInv
<1>4. cache = "partial" => interrupted BY <1>3 DEF IInv, LockInv
<1> QED BY <1>1, <1>2, <1>4, FailUnlocks

(* What is copied is whole unless the clone was killed; the worker's        *)
(* directory is then the repository's own.                                  *)
LEMMA CopyStep == ASSUME IInv, NEW j \in Jobs, Copy(j) PROVE IInv'
<1>0. Types /\ LockInv /\ LocalInv BY DEF IInv
<1> DEFINE w == [NoWork EXCEPT !.copy = cache,
                               !.tree = IF cache = "whole" THEN OwnTree ELSE NoTree]
<1>1. /\ stage[j] = "copy" /\ mutex' = NoJob /\ stage' = [stage EXCEPT ![j] = "baseline"]
      /\ UNCHANGED <<row, pushed, expired, cache, service, left, interrupted, faults>>
  BY DEF Copy, Unlocked, Goes
<1>2. work[j] = NoWork /\ pushed[j] = NoTree BY <1>0, <1>1 DEF LocalInv, Loc
<1>3. work' = [work EXCEPT ![j] = w] BY <1>0, <1>2 DEF Copy, Types
<1>4. cache \in {"partial", "whole"} BY <1>0, <1>1 DEF Types, LockInv
<1>5. /\ w \in WorkType /\ w.copy = cache /\ w.tests = <<>> /\ w.gained = <<>>
      /\ w.tree = (IF cache = "whole" THEN OwnTree ELSE NoTree)
      /\ w.iteration = 0 /\ w.current = 0 /\ w.best = 0 /\ w.written = {}
  BY <1>4, NoWorkFacts DEF WorkType
<1> HIDE DEF w
<1>6. Types' BY <1>0, <1>1, <1>3, <1>5, TestGenAssumption DEF Types, Stages
<1>7. /\ stage'[j] = "baseline" /\ work'[j] = w
      /\ \A i \in Jobs \ {j} : stage'[i] = stage[i] /\ work'[i] = work[i] /\ pushed'[i] = pushed[i]
  BY <1>0, <1>1, <1>3 DEF Types
<1>8. LocalInv'
  <2>1. \A p \in Paths : Kept(w, p) BY <1>5 DEF Kept, OwnTree, NoTree, Absent, Own
  <2>2. w.copy = "whole" => \A p \in Tracked : w.tree[p] # Absent
    BY <1>5, TestGenAssumption DEF OwnTree, Own, Absent
  <2>3. Len(<<>>) = 0 BY EmptySeq
  <2>4. MaxIterations[j] \in Nat /\ Tolerance \in Nat BY TestGenAssumption
  <2>5. Loc(j, "baseline", w, NoTree, Done(j)') BY <1>5, <2>1, <2>2, <2>3, <2>4 DEF Loc
  <2> QED BY <1>0, <1>1, <1>2, <1>7, <2>5, Frame
<1>9. LockInv'
  <2>1. \A i \in Jobs : stage'[i] \notin {"clone", "copy"} BY <1>0, <1>1, <1>7 DEF LockInv
  <2>2. cache = "partial" => interrupted
    <3>1. \A i \in Jobs : stage[i] # "clone" BY <1>0, <1>1 DEF LockInv
    <3> QED BY <1>0, <3>1 DEF LockInv
  <2>3. CopyIsWhole' BY <1>0, <1>1, <1>5, <1>7, <2>2 DEF LockInv, CopyIsWhole
  <2> QED BY <1>1, <2>1, <2>2, <2>3, TestGenAssumption DEF LockInv
<1>10. LeftByShutdown' BY <1>1 DEF IInv, LeftByShutdown
<1> QED BY <1>6, <1>8, <1>9, <1>10 DEF IInv

(* The step of a worker after cloneRepo, given what it does to its own      *)
(* variables.                                                               *)
LEMMA WorkStep ==
  ASSUME IInv, NEW j \in Jobs, NEW s \in Stages, NEW w \in WorkType, NEW t \in [Paths -> Contents],
         stage[j] \notin {"clone", "copy"}, s \notin {"clone", "copy"},
         stage' = [stage EXCEPT ![j] = s], work' = [work EXCEPT ![j] = w],
         pushed' = [pushed EXCEPT ![j] = t], w.copy = "partial" => work[j].copy = "partial",
         row' \in [Jobs -> {"none", "pending", "failed", "done"}], faults' \in 0 .. MaxFaults,
         left' \subseteq Jobs, left' # {} => service # "up",
         UNCHANGED <<expired, cache, mutex, service, interrupted>>,
         Loc(j, s, w, t, Done(j))
  PROVE  IInv'
<1>0. Types /\ LockInv /\ LocalInv BY DEF IInv
<1>1. Types' BY <1>0 DEF Types
<1>2. /\ stage'[j] = s /\ work'[j] = w /\ pushed'[j] = t
      /\ \A i \in Jobs \ {j} : stage'[i] = stage[i] /\ work'[i] = work[i] /\ pushed'[i] = pushed[i]
  BY <1>0 DEF Types
<1>3. Done(j)' <=> Done(j) BY DEF Done
<1>4. Loc(j, s, w, t, Done(j)') BY <1>3 DEF Loc
<1>5. LocalInv' BY <1>0, <1>2, <1>4, Frame
<1>6. LockInv' BY <1>0, <1>2, LockFrame
<1>7. LeftByShutdown' BY DEF LeftByShutdown
<1> QED BY <1>1, <1>5, <1>6, <1>7 DEF IInv

LEMMA BaselineStep == ASSUME IInv, NEW j \in Jobs, Baseline(j) PROVE IInv'
<1>0. Types /\ LockInv /\ LocalInv BY DEF IInv
<1>1. PICK c \in 0 .. MaxCoverage :
        /\ work' = [work EXCEPT ![j].current = c, ![j].best = c, ![j].iteration = 1]
        /\ stage' = [stage EXCEPT ![j] = "generate"]
  BY DEF Baseline, Goes
<1> DEFINE w == [work[j] EXCEPT !.current = c, !.best = c, !.iteration = 1]
<1>2. /\ stage[j] = "baseline"
      /\ UNCHANGED <<row, pushed, expired, cache, mutex, service, left, interrupted, faults>>
  BY DEF Baseline
<1>3. work' = [work EXCEPT ![j] = w] BY <1>0, <1>1 DEF Types
<1>4. work[j] \in WorkType /\ pushed[j] \in [Paths -> Contents] BY <1>0 DEF Types
<1>5. /\ w \in WorkType /\ w.copy = work[j].copy /\ w.tree = work[j].tree
      /\ w.tests = work[j].tests /\ w.gained = work[j].gained /\ w.written = work[j].written
      /\ w.current = c /\ w.best = c /\ w.iteration = 1
  BY <1>4 DEF WorkType
<1> HIDE DEF w
<1>6. Loc(j, "baseline", work[j], pushed[j], Done(j)) BY <1>0, <1>2 DEF LocalInv
<1>7. pushed' = [pushed EXCEPT ![j] = pushed[j]] BY <1>0, <1>2 DEF Types
<1>8. Loc(j, "generate", w, pushed[j], Done(j))
  <2>1. MaxIterations[j] \in Nat \ {0} /\ Tolerance \in Nat /\ MaxCoverage \in Nat
    BY TestGenAssumption
  <2>2. Len(<<>>) = 0 BY EmptySeq
  <2>3. w.tests = <<>> /\ w.gained = <<>> /\ w.iteration = 1 BY <1>5, <1>6 DEF Loc
  <2>4. \A p \in Paths : Kept(w, p) BY <1>5, <1>6 DEF Loc, Kept
  <2>5. w.iteration \in 1 .. MaxIterations[j] /\ w.best <= w.current + Tolerance
    BY <1>5, <2>1
  <2>6. w.copy = "whole" /\ ~Done(j) => \A p \in Tracked : w.tree[p] # Absent
    BY <1>5, <1>6 DEF Loc
  <2>7. pushed[j] = NoTree BY <1>6 DEF Loc
  <2> QED BY <2>1, <2>2, <2>3, <2>4, <2>5, <2>6, <2>7 DEF Loc
<1>9. /\ row' \in [Jobs -> {"none", "pending", "failed", "done"}] /\ faults' \in 0 .. MaxFaults
      /\ left' \subseteq Jobs /\ (left' # {} => service # "up")
  BY <1>2 DEF IInv, Types, LeftByShutdown
<1>10. w.copy = "partial" => work[j].copy = "partial" BY <1>5
<1>11. "generate" \in Stages BY DEF Stages
<1>12. UNCHANGED <<expired, cache, mutex, service, interrupted>> BY <1>2
<1> QED BY <1>1, <1>2, <1>3, <1>4, <1>5, <1>7, <1>8, <1>9, <1>10, <1>11, <1>12, WorkStep

LEMMA BaselineFailsStep == ASSUME IInv, NEW j \in Jobs, BaselineFails(j) PROVE IInv'
<1>1. left' \subseteq Jobs /\ (left' # {} => service # "up")
  BY DEF IInv, Types, LeftByShutdown, BaselineFails, NoReport, Leaves
<1> QED BY <1>1, FailStep DEF BaselineFails

LEMMA GenerateFailsStep == ASSUME IInv, NEW j \in Jobs, GenerateFails(j) PROVE IInv'
<1>1. left' \subseteq Jobs /\ (left' # {} => service # "up")
  BY DEF IInv, Types, LeftByShutdown, GenerateFails
<1> QED BY <1>1, FailStep DEF GenerateFails

(* What is written is marked with the number of the iteration.              *)
LEMMA GenerateStep == ASSUME IInv, NEW j \in Jobs, Generate(j) PROVE IInv'
<1>0. Types /\ LockInv /\ LocalInv BY DEF IInv
<1>1. PICK files \in SUBSET Writes[j] :
        work' = [work EXCEPT ![j].written = files,
                   ![j].tree = [p \in Paths |-> IF p \in files THEN work[j].iteration ELSE @[p]]]
  BY DEF Generate
<1> DEFINE tree == [p \in Paths |-> IF p \in files THEN work[j].iteration ELSE work[j].tree[p]]
           w == [work[j] EXCEPT !.written = files, !.tree = tree]
<1>2. /\ stage[j] = "generate" /\ stage' = [stage EXCEPT ![j] = "measure"]
      /\ UNCHANGED <<row, pushed, expired, cache, mutex, service, left, interrupted, faults>>
  BY DEF Generate, Goes
<1>3. work' = [work EXCEPT ![j] = w] BY <1>0, <1>1 DEF Types
<1>4. work[j] \in WorkType /\ pushed[j] \in [Paths -> Contents] BY <1>0 DEF Types
<1>5. Loc(j, "generate", work[j], pushed[j], Done(j)) BY <1>0, <1>2 DEF LocalInv
<1>6. work[j].iteration \in 1 .. MaxIterations[j] BY <1>5 DEF Loc
<1>7. tree \in [Paths -> Contents]
  <2>1. work[j].tree \in [Paths -> Contents] BY <1>4 DEF WorkType
  <2>2. work[j].iteration \in Contents BY <1>6 DEF Contents
  <2> QED BY <2>1, <2>2
<1>8. files \in SUBSET Paths BY TestGenAssumption
<1> HIDE DEF tree
<1>9. /\ w \in WorkType /\ w.copy = work[j].copy /\ w.tree = tree
      /\ w.tests = work[j].tests /\ w.gained = work[j].gained /\ w.written = files
      /\ w.current = work[j].current /\ w.best = work[j].best
      /\ w.iteration = work[j].iteration
  BY <1>4, <1>7, <1>8 DEF WorkType
<1> HIDE DEF w
<1>10. pushed' = [pushed EXCEPT ![j] = pushed[j]] BY <1>0, <1>2 DEF Types
<1>11. Loc(j, "measure", w, pushed[j], Done(j))
  <2>1. \A p \in w.written : w.tree[p] = w.iteration BY <1>8, <1>9 DEF tree
  <2>2. \A p \in Paths : ~Kept(w, p) => p \in w.written
    <3>1. \A p \in Paths : Kept(work[j], p) BY <1>5 DEF Loc
    <3> QED BY <3>1, <1>9 DEF Kept, tree
  <2>3. w.copy = "whole" /\ ~Done(j) => \A p \in Tracked : w.tree[p] # Absent
    <3>1. work[j].copy = "whole" /\ ~Done(j) => \A p \in Tracked : work[j].tree[p] # Absent
      BY <1>5 DEF Loc
    <3>2. work[j].iteration # Absent BY <1>6, TestGenAssumption DEF Absent
    <3> QED BY <1>9, <3>1, <3>2, TestGenAssumption DEF tree
  <2> QED BY <1>5, <1>9, <2>1, <2>2, <2>3 DEF Loc
<1>12. /\ row' \in [Jobs -> {"none", "pending", "failed", "done"}] /\ faults' \in 0 .. MaxFaults
       /\ left' \subseteq Jobs /\ (left' # {} => service # "up")
  BY <1>2 DEF IInv, Types, LeftByShutdown
<1>13. w.copy = "partial" => work[j].copy = "partial" BY <1>9
<1>14. "measure" \in Stages BY DEF Stages
<1>15. UNCHANGED <<expired, cache, mutex, service, interrupted>> BY <1>2
<1> QED BY <1>2, <1>3, <1>4, <1>9, <1>10, <1>11, <1>12, <1>13, <1>14, <1>15, WorkStep

(* The variables at the end of a turn of the loop.                          *)
Turned(j, w, done) ==
  /\ w \in WorkType
  /\ w.iteration \in 1 .. MaxIterations[j]
  /\ Len(w.tests) = w.iteration /\ Len(w.gained) <= Len(w.tests)
  /\ \A p \in Paths : Kept(w, p)
  /\ w.copy = "whole" /\ ~done => \A p \in Tracked : w.tree[p] # Absent
  /\ w.best <= w.current + Tolerance

Ahead(w) == [w EXCEPT !.iteration = w.iteration + 1]

LEMMA TurnedLoc ==
  ASSUME NEW j \in Jobs, NEW w, NEW done, Turned(j, w, done)
  PROVE  /\ \A s \in {"publish", "save"} : Loc(j, s, w, NoTree, done)
         /\ Ahead(w) \in WorkType /\ Ahead(w).copy = w.copy
         /\ \A s \in {"publish", "save"} : Loc(j, s, Ahead(w), NoTree, done)
         /\ w.iteration < MaxIterations[j] => Loc(j, "generate", Ahead(w), NoTree, done)
<1>0. MaxIterations[j] \in Nat \ {0} /\ Tolerance \in Nat /\ MaxCoverage \in Nat
  BY TestGenAssumption
<1> DEFINE v == Ahead(w)
<1>1. w \in WorkType /\ w.iteration + 1 \in Nat BY <1>0 DEF Turned
<1>2. /\ v \in WorkType /\ v.copy = w.copy /\ v.tree = w.tree
      /\ v.tests = w.tests /\ v.gained = w.gained /\ v.written = w.written
      /\ v.current = w.current /\ v.best = w.best /\ v.iteration = w.iteration + 1
  BY <1>1 DEF WorkType, Ahead
<1> HIDE DEF v
<1>3. \A p \in Paths : ~(NoTree[p] > Own) BY DEF NoTree, Absent, Own
<1>4. \A s \in {"publish", "save"} : Loc(j, s, w, NoTree, done)
  BY <1>0, <1>3 DEF Loc, Turned
<1>5. \A p \in Paths : Kept(v, p) BY <1>2 DEF Turned, Kept
<1>6. \A s \in {"publish", "save"} : Loc(j, s, v, NoTree, done)
  BY <1>0, <1>2, <1>3, <1>5 DEF Loc, Turned
<1>7. w.iteration < MaxIterations[j] => Loc(j, "generate", v, NoTree, done)
  BY <1>0, <1>2, <1>3, <1>5 DEF Loc, Turned
<1> QED BY <1>2, <1>4, <1>6, <1>7 DEF v

LEMMA LoopStep ==
  ASSUME IInv, NEW j \in Jobs, NEW w, stage[j] = "measure", Turned(j, w, Done(j)),
         w.copy = work[j].copy, Break(j, w) \/ Continue(j, w),
         left' \subseteq Jobs, left' # {} => service # "up",
         UNCHANGED <<row, pushed, expired, cache, mutex, service, interrupted, faults>>
  PROVE  IInv'
<1>0. Types /\ LockInv /\ LocalInv BY DEF IInv
<1>1. Leave(j) \in {"publish", "save"} BY DEF Leave
<1>2. pushed[j] = NoTree /\ pushed' = [pushed EXCEPT ![j] = NoTree]
  BY <1>0 DEF Types, LocalInv, Loc
<1>3. /\ row' \in [Jobs -> {"none", "pending", "failed", "done"}] /\ faults' \in 0 .. MaxFaults
      /\ NoTree \in [Paths -> Contents]
  BY <1>0, NoWorkFacts DEF Types
<1>4. w \in WorkType BY DEF Turned
<1>5. CASE Break(j, w)
  <2>1. PICK s : s = Leave(j) OBVIOUS
  <2>2. s \in {"publish", "save"} /\ s \in Stages BY <1>1, <2>1 DEF Stages
  <2>3. work' = [work EXCEPT ![j] = w] /\ stage' = [stage EXCEPT ![j] = s]
    BY <1>5, <2>1 DEF Break, Goes
  <2>4. Loc(j, s, w, NoTree, Done(j)) BY <2>2, TurnedLoc
  <2> QED BY <1>2, <1>3, <1>4, <2>2, <2>3, <2>4, WorkStep
<1>6. CASE Continue(j, w)
  <2>1. PICK s : s = IF w.iteration < MaxIterations[j] THEN "generate" ELSE Leave(j) OBVIOUS
  <2>2. s \in {"publish", "save"} \/ (s = "generate" /\ w.iteration < MaxIterations[j])
    BY <1>1, <2>1
  <2>3. s \in Stages BY <2>2 DEF Stages
  <2>4. work' = [work EXCEPT ![j] = Ahead(w)] /\ stage' = [stage EXCEPT ![j] = s]
    BY <1>6, <2>1 DEF Continue, Goes, Ahead
  <2>5. /\ Ahead(w) \in WorkType /\ Ahead(w).copy = w.copy
        /\ Loc(j, s, Ahead(w), NoTree, Done(j))
    BY <2>2, TurnedLoc
  <2> QED BY <1>2, <1>3, <2>2, <2>3, <2>4, <2>5, WorkStep
<1> QED BY <1>5, <1>6

(* A rollback: nothing of the iteration is left, and git checkout brings    *)
(* the files of the repository back.                                        *)
LEMMA RolledBackTurned ==
  ASSUME Types, LocalInv, NEW j \in Jobs, stage[j] = "measure"
  PROVE  Turned(j, RolledBack(j), Done(j)) /\ RolledBack(j).copy = work[j].copy
<1> DEFINE w == RolledBack(j)
<1>1. Loc(j, "measure", work[j], pushed[j], Done(j)) BY DEF LocalInv
<1>2. work[j] \in WorkType BY DEF Types
<1>3. Restored(j) \in [Paths -> Contents]
  <2>1. Own \in Contents /\ Absent \in Contents BY DEF Contents
  <2>2. work[j].tree \in [Paths -> Contents] BY <1>2 DEF WorkType
  <2> QED BY <2>1, <2>2 DEF Restored
<1>4. /\ work[j].tests \in Seq(SUBSET Paths) /\ {} \in SUBSET Paths
      /\ work[j].gained \in Seq(BOOLEAN)
  BY <1>2 DEF WorkType
<1>5. /\ Append(work[j].tests, {}) \in Seq(SUBSET Paths)
      /\ Len(Append(work[j].tests, {})) = Len(work[j].tests) + 1
      /\ \A i \in 1 .. Len(work[j].tests) : Append(work[j].tests, {})[i] = work[j].tests[i]
  BY <1>4, AppendProperties
<1>6. Len(work[j].tests) \in Nat /\ Len(work[j].gained) \in Nat BY <1>4, LenProperties
<1>7. /\ w \in WorkType /\ w.copy = work[j].copy /\ w.tree = Restored(j)
      /\ w.tests = Append(work[j].tests, {}) /\ w.gained = work[j].gained /\ w.written = {}
      /\ w.current = work[j].current /\ w.best = work[j].best
      /\ w.iteration = work[j].iteration
  BY <1>2, <1>3, <1>5 DEF WorkType, RolledBack
<1> HIDE DEF w
<1>8. /\ w.iteration \in 1 .. MaxIterations[j] /\ Len(work[j].tests) = w.iteration - 1
      /\ Len(work[j].gained) <= Len(work[j].tests) /\ w.best <= w.current + Tolerance
  BY <1>1, <1>7 DEF Loc
<1>9. MaxIterations[j] \in Nat BY TestGenAssumption
<1>10. Len(w.tests) = w.iteration /\ Len(w.gained) <= Len(w.tests)
  BY <1>5, <1>6, <1>7, <1>8, <1>9
<1>11. \A p \in Paths : Kept(w, p)
  <2> SUFFICES ASSUME NEW p \in Paths, w.tree[p] > Own
               PROVE  w.tree[p] \in DOMAIN w.tests /\ p \in w.tests[w.tree[p]]
    BY DEF Kept
  <2>1. p \notin work[j].written /\ w.tree[p] = work[j].tree[p]
    BY <1>7 DEF Restored, Own, Absent
  <2>2. Kept(work[j], p) BY <1>1, <2>1 DEF Loc
  <2>3. work[j].tree[p] \in DOMAIN work[j].tests /\ p \in work[j].tests[work[j].tree[p]]
    BY <2>1, <2>2 DEF Kept
  <2>4. DOMAIN work[j].tests = 1 .. Len(work[j].tests) BY <1>4, LenProperties
  <2>5. DOMAIN w.tests = 1 .. Len(w.tests) BY <1>5, <1>7, LenProperties
  <2> QED BY <1>5, <1>6, <1>7, <2>1, <2>3, <2>4, <2>5
<1>12. w.copy = "whole" /\ ~Done(j) => \A p \in Tracked : w.tree[p] # Absent
  BY <1>7, TestGenAssumption DEF Restored, Own, Absent
<1> QED BY <1>7, <1>8, <1>10, <1>11, <1>12 DEF Turned, w

LEMMA MeasureFailsStep == ASSUME IInv, NEW j \in Jobs, MeasureFails(j) PROVE IInv'
<1>0. Types /\ LocalInv BY DEF IInv
<1>1. left' \subseteq Jobs /\ (left' # {} => service # "up")
  BY DEF IInv, Types, LeftByShutdown, MeasureFails, NoReport, Leaves
<1>2. /\ stage[j] = "measure" /\ Continue(j, RolledBack(j))
      /\ UNCHANGED <<row, pushed, expired, cache, mutex, service, interrupted, faults>>
  BY DEF MeasureFails
<1>3. Turned(j, RolledBack(j), Done(j)) /\ RolledBack(j).copy = work[j].copy
  BY <1>0, <1>2, RolledBackTurned
<1> QED BY <1>1, <1>2, <1>3, LoopStep

LEMMA MaxFacts ==
  ASSUME NEW a \in Int, NEW b \in Int
  PROVE  Max({a, b}) = IF a >= b THEN a ELSE b
<1> DEFINE m == IF a >= b THEN a ELSE b
<1>1. m \in {a, b} /\ \A y \in {a, b} : m >= y OBVIOUS
<1>2. \A x \in {a, b} : (\A y \in {a, b} : x >= y) => x = m OBVIOUS
<1> HIDE DEF m
<1> QED BY <1>1, <1>2 DEF Max, m

(* An iteration that is kept: its files become its entry of TestsCreated,   *)
(* and the best coverage stays within the tolerance of the current one.     *)
LEMMA AcceptedTurned ==
  ASSUME Types, LocalInv, NEW j \in Jobs, stage[j] = "measure", NEW c \in 0 .. MaxCoverage,
         ~Decreased(work[j], c)
  PROVE  Turned(j, Accepted(work[j], c), Done(j)) /\ Accepted(work[j], c).copy = work[j].copy
<1> DEFINE w == Accepted(work[j], c)
           gain == c - work[j].current >= ConvergenceThreshold
<1>1. Loc(j, "measure", work[j], pushed[j], Done(j)) BY DEF LocalInv
<1>2. work[j] \in WorkType BY DEF Types
<1>3. /\ work[j].tests \in Seq(SUBSET Paths) /\ work[j].written \in SUBSET Paths
      /\ work[j].gained \in Seq(BOOLEAN) /\ gain \in BOOLEAN
      /\ work[j].best \in 0 .. MaxCoverage /\ work[j].current \in 0 .. MaxCoverage
  BY <1>2 DEF WorkType
<1> HIDE DEF gain
<1>4. /\ Append(work[j].tests, work[j].written) \in Seq(SUBSET Paths)
      /\ Len(Append(work[j].tests, work[j].written)) = Len(work[j].tests) + 1
      /\ \A i \in 1 .. Len(work[j].tests) :
           Append(work[j].tests, work[j].written)[i] = work[j].tests[i]
      /\ Append(work[j].tests, work[j].written)[Len(work[j].tests) + 1] = work[j].written
  BY <1>3, AppendProperties
<1>5. /\ Append(work[j].gained, gain) \in Seq(BOOLEAN)
      /\ Len(Append(work[j].gained, gain)) = Len(work[j].gained) + 1
  BY <1>3, AppendProperties
<1>6. Len(work[j].tests) \in Nat /\ Len(work[j].gained) \in Nat BY <1>3, LenProperties
<1>7. MaxCoverage \in Nat /\ Tolerance \in Nat /\ MaxIterations[j] \in Nat BY TestGenAssumption
<1>8. Max({work[j].best, c}) = IF work[j].best >= c THEN work[j].best ELSE c
  BY <1>3, <1>7, MaxFacts
<1>9. Max({work[j].best, c}) \in 0 .. MaxCoverage /\ Max({work[j].best, c}) <= c + Tolerance
  BY <1>3, <1>7, <1>8 DEF Decreased
<1>10. /\ w \in WorkType /\ w.copy = work[j].copy /\ w.tree = work[j].tree
       /\ w.tests = Append(work[j].tests, work[j].written)
       /\ w.gained = Append(work[j].gained, gain) /\ w.written = {}
       /\ w.current = c /\ w.best = Max({work[j].best, c})
       /\ w.iteration = work[j].iteration
  BY <1>2, <1>4, <1>5, <1>9 DEF WorkType, Accepted, gain
<1> HIDE DEF w
<1>11. /\ w.iteration \in 1 .. MaxIterations[j] /\ Len(work[j].tests) = w.iteration - 1
       /\ Len(work[j].gained) <= Len(work[j].tests)
  BY <1>1, <1>10 DEF Loc
<1>12. Len(w.tests) = w.iteration /\ Len(w.gained) <= Len(w.tests)
  BY <1>4, <1>5, <1>6, <1>7, <1>10, <1>11
<1>13. \A p \in Paths : Kept(w, p)
  <2> SUFFICES ASSUME NEW p \in Paths, w.tree[p] > Own
               PROVE  w.tree[p] \in DOMAIN w.tests /\ p \in w.tests[w.tree[p]]
    BY DEF Kept
  <2>0. DOMAIN work[j].tests = 1 .. Len(work[j].tests) BY <1>3, LenProperties
  <2>1. DOMAIN w.tests = 1 .. Len(w.tests) BY <1>4, <1>10, LenProperties
  <2>2. CASE p \in work[j].written
    <3>1. w.tree[p] = w.iteration BY <1>1, <1>10, <2>2 DEF Loc
    <3>2. w.tree[p] = Len(work[j].tests) + 1 BY <1>11, <1>7, <3>1
    <3> QED BY <1>4, <1>6, <1>10, <1>11, <1>12, <1>7, <2>1, <2>2, <3>1, <3>2
  <2>3. CASE p \notin work[j].written
    <3>1. Kept(work[j], p) BY <1>1, <2>3 DEF Loc
    <3>2. work[j].tree[p] \in DOMAIN work[j].tests /\ p \in work[j].tests[work[j].tree[p]]
      BY <1>10, <3>1 DEF Kept
    <3> QED BY <1>4, <1>6, <1>10, <2>0, <2>1, <3>2
  <2> QED BY <2>2, <2>3
<1>14. w.copy = "whole" /\ ~Done(j) => \A p \in Tracked : w.tree[p] # Absent
  BY <1>1, <1>10 DEF Loc
<1>15. w.best <= w.current + Tolerance BY <1>9, <1>10
<1> QED BY <1>10, <1>11, <1>12, <1>13, <1>14, <1>15 DEF Turned, w

LEMMA MeasureStep == ASSUME IInv, NEW j \in Jobs, Measure(j) PROVE IInv'
<1>0. Types /\ LocalInv BY DEF IInv
<1>1. left' \subseteq Jobs /\ (left' # {} => service # "up")
  BY DEF IInv, Types, LeftByShutdown, Measure
<1>2. /\ stage[j] = "measure"
      /\ UNCHANGED <<row, pushed, expired, cache, mutex, service, interrupted, faults>>
  BY DEF Measure
<1>3. PICK c \in 0 .. MaxCoverage :
        \/ Decreased(work[j], c) /\ Break(j, RolledBack(j))
        \/ /\ ~Decreased(work[j], c)
           /\ Break(j, Accepted(work[j], c)) \/ Continue(j, Accepted(work[j], c))
  BY DEF Measure
<1>4. CASE Decreased(work[j], c)
  <2>1. Turned(j, RolledBack(j), Done(j)) /\ RolledBack(j).copy = work[j].copy
    BY <1>0, <1>2, RolledBackTurned
  <2> QED BY <1>1, <1>2, <1>3, <1>4, <2>1, LoopStep
<1>5. CASE ~Decreased(work[j], c)
  <2>1. Turned(j, Accepted(work[j], c), Done(j)) /\ Accepted(work[j], c).copy = work[j].copy
    BY <1>0, <1>2, <1>5, AcceptedTurned
  <2> QED BY <1>1, <1>2, <1>3, <1>5, <2>1, LoopStep
<1> QED BY <1>4, <1>5

(* The push needs a context that is not done, so that git checkout had it   *)
(* too: every file of the repository is there.                              *)
LEMMA PublishStep ==
  ASSUME IInv, NEW j \in Jobs, Publish(j) \/ PublishFails(j)
  PROVE  IInv'
<1>0. Types /\ LocalInv BY DEF IInv
<1>1. /\ stage[j] = "publish" /\ stage' = [stage EXCEPT ![j] = "save"]
      /\ UNCHANGED <<row, work, expired, cache, mutex, service, left, interrupted, faults>>
  BY DEF Publish, PublishFails, Goes
<1>2. Loc(j, "publish", work[j], pushed[j], Done(j)) BY <1>0, <1>1 DEF LocalInv
<1>3. pushed[j] = NoTree BY <1>2 DEF Loc
<1>4. work[j] \in WorkType /\ pushed[j] \in [Paths -> Contents] BY <1>0 DEF Types
<1>5. work[j].tree \in [Paths -> Contents] BY <1>4 DEF WorkType
<1>6. work' = [work EXCEPT ![j] = work[j]] BY <1>0, <1>1 DEF Types
<1>7. /\ row' \in [Jobs -> {"none", "pending", "failed", "done"}] /\ faults' \in 0 .. MaxFaults
      /\ left' \subseteq Jobs /\ (left' # {} => service # "up")
  BY <1>1 DEF IInv, Types, LeftByShutdown
<1>8. "save" \in Stages BY DEF Stages
<1>9. CASE Publish(j)
  <2>1. pushed' = [pushed EXCEPT ![j] = work[j].tree] /\ ~Done(j) BY <1>9 DEF Publish
  <2>2. \A p \in Paths : Kept(work[j], p) BY <1>2 DEF Loc
  <2>3. Loc(j, "save", work[j], work[j].tree, Done(j)) BY <1>2, <2>1, <2>2 DEF Loc, Kept
  <2> QED BY <1>1, <1>4, <1>5, <1>6, <1>7, <1>8, <2>1, <2>3, WorkStep
<1>10. CASE PublishFails(j)
  <2>1. pushed' = [pushed EXCEPT ![j] = NoTree] BY <1>0, <1>3, <1>10 DEF PublishFails, Types
  <2>2. \A p \in Paths : ~(NoTree[p] > Own) BY DEF NoTree, Absent, Own
  <2>3. Loc(j, "save", work[j], NoTree, Done(j)) BY <1>2, <2>2 DEF Loc
  <2> QED BY <1>1, <1>3, <1>4, <1>6, <1>7, <1>8, <2>1, <2>3, WorkStep
<1> QED BY <1>9, <1>10

LEMMA SaveStep == ASSUME IInv, NEW j \in Jobs, Save(j) PROVE IInv'
<1>0. Types /\ LocalInv BY DEF IInv
<1>1. /\ stage[j] = "save" /\ stage' = [stage EXCEPT ![j] = "end"]
      /\ work' = [work EXCEPT ![j] = NoWork]
      /\ UNCHANGED <<pushed, expired, cache, mutex, service, left, interrupted>>
  BY DEF Save, Goes
<1>2. pushed[j] \in [Paths -> Contents] /\ pushed' = [pushed EXCEPT ![j] = pushed[j]]
  BY <1>0, <1>1 DEF Types
<1>3. faults' \in 0 .. MaxFaults
  <2>1. faults \in 0 .. MaxFaults /\ MaxFaults \in Nat BY <1>0, TestGenAssumption DEF Types
  <2> QED BY <2>1 DEF Save
<1>4. row' \in [Jobs -> {"none", "pending", "failed", "done"}] BY <1>0 DEF Types, Save
<1>5. left' \subseteq Jobs /\ (left' # {} => service # "up")
  BY <1>1 DEF IInv, Types, LeftByShutdown
<1>6. Loc(j, "end", NoWork, pushed[j], Done(j)) BY NoWorkLoc
<1>7. "end" \in Stages BY DEF Stages
<1>8. NoWork \in WorkType /\ NoWork.copy = "none" BY NoWorkFacts
<1> QED BY <1>1, <1>2, <1>3, <1>4, <1>5, <1>6, <1>7, <1>8, WorkStep

(* Time and shutdown: a context that is done stays done.                    *)
LEMMA ContextStep ==
  ASSUME IInv, UNCHANGED <<stage, row, work, pushed, cache, mutex, left, interrupted>>,
         expired \subseteq expired', expired' \subseteq Jobs, faults' \in 0 .. MaxFaults,
         service' \in {"up", "stopping", "closed", "down"}, service' = "up" => service = "up"
  PROVE  IInv'
<1>1. Types' BY DEF IInv, Types
<1>2. LockInv' BY DEF IInv, LockInv, CopyIsWhole
<1>3. LocalInv'
  <2> SUFFICES ASSUME NEW i \in Jobs PROVE Loc(i, stage[i], work[i], pushed[i], Done(i)')
    BY DEF LocalInv
  <2>1. Loc(i, stage[i], work[i], pushed[i], Done(i)) BY DEF IInv, LocalInv
  <2>2. Done(i) => Done(i)' BY DEF Done
  <2> QED BY <2>1, <2>2 DEF Loc
<1>4. LeftByShutdown' BY DEF IInv, LeftByShutdown
<1> QED BY <1>1, <1>2, <1>3, <1>4 DEF IInv

LEMMA ExpireStep == ASSUME IInv, NEW j \in Jobs, Expire(j) PROVE IInv'
<1>1. faults \in 0 .. MaxFaults /\ MaxFaults \in Nat BY TestGenAssumption DEF IInv, Types
<1>2. faults' \in 0 .. MaxFaults BY <1>1 DEF Expire
<1> QED BY <1>2, ContextStep DEF Expire, IInv, Types

LEMMA StopStep == ASSUME IInv, Stop PROVE IInv'
<1>1. /\ service' \in {"up", "stopping", "closed", "down"} /\ (service' = "up" => service = "up")
      /\ UNCHANGED <<stage, row, work, pushed, cache, mutex, left, interrupted, expired, faults>>
  BY DEF Stop
<1>2. expired' \subseteq Jobs /\ faults' \in 0 .. MaxFaults BY <1>1 DEF IInv, Types
<1> QED BY <1>1, <1>2, ContextStep

-----------------------------------------------------------------------------
LEMMA Inductive == IInv /\ [Next]_vars => IInv'
<1> SUFFICES ASSUME IInv, [Next]_vars PROVE IInv' OBVIOUS
<1>1. ASSUME NEW j \in Jobs, Request(j) \/ BadClient(j) \/ WorkerStep(j) \/ Expire(j) PROVE IInv'
  <2>1. CASE Request(j) \/ BadClient(j) \/ Expire(j)
    BY <2>1, RequestStep, BadClientStep, ExpireStep
  <2>2. CASE WorkerStep(j)
    BY <2>2, CreateStep, LockStep, CloneSucceedsStep, CloneFailsStep, CopyStep, CopyFailsStep,
       BaselineStep, BaselineFailsStep, GenerateStep, GenerateFailsStep, MeasureStep,
       MeasureFailsStep, PublishStep, SaveStep DEF WorkerStep
  <2> QED BY <1>1, <2>1, <2>2
<1>2. CASE Stop BY <1>2, StopStep
<1>3. CASE UNCHANGED vars
  <2>1. faults \in 0 .. MaxFaults /\ expired \subseteq Jobs
        /\ service \in {"up", "stopping", "closed", "down"}
    BY DEF IInv, Types
  <2> QED BY <1>3, <2>1, ContextStep DEF vars
<1> QED BY <1>1, <1>2, <1>3 DEF Next

LEMMA Implied == IInv => WorkInv /\ PublishInv
<1> SUFFICES ASSUME IInv PROVE WorkInv /\ PublishInv OBVIOUS
<1>1. TypeOK
  <2>1. ASSUME NEW j \in Jobs
        PROVE  /\ work[j].copy \in {"none", "partial", "whole"}
               /\ work[j].tree \in [Paths -> Contents] /\ work[j].written \subseteq Paths
               /\ work[j].current \in 0 .. MaxCoverage /\ work[j].best \in 0 .. MaxCoverage
               /\ work[j].iteration \in Nat
    <3>1. work[j] \in WorkType BY DEF IInv, Types
    <3> QED BY <3>1 DEF WorkType
  <2>2. ASSUME NEW j \in Jobs
        PROVE  /\ work[j].iteration <= MaxIterations[j] + 1
               /\ Len(work[j].tests) <= work[j].iteration
               /\ Len(work[j].gained) <= Len(work[j].tests)
    <3>1. Loc(j, stage[j], work[j], pushed[j], Done(j)) BY DEF IInv, LocalInv
    <3> QED BY <3>1 DEF Loc
  <2>3. \A j \in Jobs : work[j].iteration \in 0 .. MaxIterations[j] + 1
    BY <2>1, <2>2, TestGenAssumption
  <2> QED BY <2>1, <2>2, <2>3 DEF IInv, Types, TypeOK
<1>2. CopyIsWhole /\ LeftByShutdown BY DEF IInv, LockInv
<1>3. \A j \in Jobs : Loc(j, stage[j], work[j], pushed[j], Done(j)) BY DEF IInv, LocalInv
<1>4. PushedIsAccepted BY <1>3 DEF PushedIsAccepted, Loc
<1>5. NothingDeleted BY <1>3 DEF NothingDeleted, Loc
<1>6. FinalCoverageHolds BY <1>3 DEF FinalCoverageHolds, Loc
<1> QED BY <1>1, <1>2, <1>4, <1>5, <1>6 DEF WorkInv, PublishInv

LEMMA Always == Spec => []IInv
<1> QED BY InitStep, Inductive, PTL DEF Spec

(* In every state of the service no job works on half a clone unless a      *)
(* clone was killed (cloneRepo copies under the mutex), only a shutdown     *)
(* leaves a container behind, and the state is well typed.                  *)
THEOREM WorkCorrect == Spec => []WorkInv
<1>1. IInv => WorkInv BY Implied
<1> QED BY <1>1, Always, PTL

(* A branch that createBranchAndPR pushed has only accepted tests, deletes  *)
(* no file of the repository, and the coverage that is reported with it is  *)
(* within the tolerance of the last iteration that was kept.                *)
THEOREM PublishCorrect == Spec => []PublishInv
<1>1. IInv => PublishInv BY Implied
<1> QED BY <1>1, Always, PTL
=============================================================================
