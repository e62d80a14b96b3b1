------------------------------- MODULE Engine -------------------------------
(***************************************************************************)
(* The direct engine: a session clones the repository into a cache of a    *)
(* few repositories, lets a model propose edits until they apply, commits  *)
(* them on a branch of its own and pushes it.  CloneRepo returns the       *)
(* cached directory itself: the sessions on a repository work in the same  *)
(* directory.  A repository has one file of its own, f, and a model may    *)
(* create one more, n; the content of a file is the set of sessions whose  *)
(* edits it has.                                                           *)
(***************************************************************************)
EXTENDS Integers, FiniteSets, Sequences, SequencesExt

CONSTANTS
  Sessions, None,
  Repos, RepoOf,         \* the repository of a session
  Proposes,              \* the edits that the model may propose in a session
  MaxCachedRepos,
  MaxIterations,         \* per session: of its request
  Cancellable,           \* the sessions whose context may be cancelled
  MaxFaults              \* bound on cancellations and failed updates

ASSUME EngineAssumption ==
  /\ None \notin Sessions /\ RepoOf \in [Sessions -> Repos]
  /\ Proposes \in [Sessions -> SUBSET {"edit f", "edit n", "create n"}]
  /\ MaxCachedRepos \in Nat \ {0} /\ MaxIterations \in [Sessions -> Nat \ {0}] /\ MaxFaults \in Nat

VARIABLES
  stage,       \* per session: where ExecuteDirectLLM is
  row,         \* per session: status of its row
  loop,        \* per session: the iteration, the last result and the files it touched
  cloneCache,  \* the cached repositories, the least recently used first
  inflight,    \* per repository: the session whose channel inflightClones holds, or None
  awaits,      \* per session: the session whose channel it waits for
  dir,         \* per repository: its directory on disk, absent, partial or whole
  builder,     \* per repository: the session whose git clone fills the directory
  tree,        \* per repository: the files of the working directory
  head,        \* per repository: the files of the commit that is checked out
  current,     \* per repository: the session whose branch is checked out, or None
  ref,         \* per session: the files of its local branch, or NoRef
  pushed,      \* per session: the files of its branch at the remote
  cancelled,   \* sessions whose context is cancelled
  met,         \* sessions that were in CloneRepo or after it beside another one (history)
  clash,       \* repositories removed under a session that clones them (history)
  faults

sessionVars == <<stage, row, loop, awaits, cancelled>>
cacheVars == <<cloneCache, inflight, dir, builder, clash>>
gitVars == <<tree, head, current, ref, pushed, met>>
vars == <<sessionVars, cacheVars, gitVars, faults>>

Files == {"f", "n"}
Clean == [x \in Files |-> {}]
NoRef == <<>>
NoLoop == [iteration |-> 1, last |-> "none", touched |-> {}]

Init ==
  /\ stage = [s \in Sessions |-> "new"] /\ row = [s \in Sessions |-> "none"]
  /\ loop = [s \in Sessions |-> NoLoop]
  /\ cloneCache = <<>> /\ inflight = [r \in Repos |-> None]
  /\ awaits = [s \in Sessions |-> None]
  /\ dir = [r \in Repos |-> "absent"] /\ builder = [r \in Repos |-> None]
  /\ tree = [r \in Repos |-> Clean] /\ head = [r \in Repos |-> Clean]
  /\ current = [r \in Repos |-> None]
  /\ ref = [s \in Sessions |-> NoRef] /\ pushed = [s \in Sessions |-> NoRef]
  /\ cancelled = {} /\ met = {} /\ clash = {} /\ faults = 0

Cached(r) == r \in ToSet(cloneCache)
Touch(cache, r) == Append(RemoveFirst(cache, r), r)      \* lastUsed = time.Now()

Others(s) ==
  {t \in Sessions \ {s} : RepoOf[t] = RepoOf[s] /\ stage[t] \notin {"new", "started", "end"}}

Goes(s, p) == stage' = [stage EXCEPT ![s] = p]
Fault == faults < MaxFaults /\ faults' = faults + 1

-----------------------------------------------------------------------------
(* The row                                                                  *)

(* UpdateSessionResult under the session's own context: nothing is written  *)
(* when that is cancelled, and the error is dropped.  (That the database    *)
(* fails is left out.)                                                      *)
Record(s, status) == row' = [row EXCEPT ![s] = IF s \in cancelled THEN @ ELSE status]

Ends(s, status) ==
  Goes(s, "end") /\ Record(s, status) /\ loop' = [loop EXCEPT ![s] = NoLoop] /\ UNCHANGED faults

(* CreateSession, and, for StartFails, the client of the model.             *)
Start(s) ==
  /\ stage[s] = "new"
  /\ Goes(s, "started") /\ row' = [row EXCEPT ![s] = "running"]
  /\ UNCHANGED <<loop, awaits, cancelled, cacheVars, gitVars, faults>>

StartFails(s) ==
  /\ stage[s] = "started"
  /\ Ends(s, "error")
  /\ UNCHANGED <<awaits, cancelled, cacheVars, gitVars>>

(* The three places that look at ctx.Err(): the row is written under a      *)
(* context of its own.                                                      *)
StopsIfCancelled(s) ==
  /\ stage[s] \in {"started", "reading", "branch"} /\ s \in cancelled
  /\ stage[s] = "reading" => dir[RepoOf[s]] # "absent"
  /\ Goes(s, "end") /\ row' = [row EXCEPT ![s] = "cancelled"]
  /\ loop' = [loop EXCEPT ![s] = NoLoop]
  /\ UNCHANGED <<awaits, cancelled, cacheVars, gitVars, faults>>

Cancel(s) ==
  /\ s \in Cancellable \ cancelled /\ stage[s] \notin {"new", "end"}
  /\ cancelled' = cancelled \cup {s} /\ Fault
  /\ UNCHANGED <<stage, row, loop, awaits, cacheVars, gitVars>>

-----------------------------------------------------------------------------
(* CloneRepo                                                                *)

(* Under cloneCacheMu: wait for a clone in flight, update what is cached,   *)
(* or clone.                                                                *)
EnterClone(s) ==
  LET r == RepoOf[s] IN
  /\ stage[s] = "started" /\ s \notin cancelled
  /\ IF inflight[r] # None
     THEN Goes(s, "waiting") /\ awaits' = [awaits EXCEPT ![s] = inflight[r]] /\ UNCHANGED inflight
     ELSE /\ Goes(s, IF Cached(r) THEN "updating" ELSE "cloning")
          /\ inflight' = IF Cached(r) THEN inflight ELSE [inflight EXCEPT ![r] = s]
          /\ UNCHANGED awaits
  /\ met' = IF Others(s) = {} THEN met ELSE met \cup Others(s) \cup {s}
  /\ UNCHANGED <<row, loop, cancelled, cloneCache, dir, builder, clash, tree, head, current, ref,
                 pushed, faults>>

MutantChannelClosed(t) == Cached(RepoOf[t])
ChannelClosed(t) == stage[t] \notin {"cloning", "filling", "cloned", "evicted"}

(* The channel is closed: the entry is there now, or the clone failed.      *)
Wake(s) ==
  /\ stage[s] = "waiting" /\ ChannelClosed(awaits[s])
  /\ awaits' = [awaits EXCEPT ![s] = None]
  /\ IF Cached(RepoOf[s])
     THEN /\ Goes(s, "reading") /\ cloneCache' = Touch(cloneCache, RepoOf[s])
          /\ UNCHANGED <<row, loop, faults>>
     ELSE Ends(s, "error") /\ UNCHANGED cloneCache
  /\ UNCHANGED <<cancelled, inflight, dir, builder, clash, gitVars>>

MutantReset(r) == tree

(* reset --hard origin/HEAD: f is restored, n goes if it is tracked on the  *)
(* branch that is checked out, and stays if it is not.                      *)
Reset(r) ==
  [tree EXCEPT ![r] = [f |-> {}, n |-> IF head[r]["n"] # {} THEN {} ELSE tree[r]["n"]]]

(* HEAD, and the branch that is checked out, become the files of commit.    *)
MovesHead(r, commit) ==
  /\ head' = [head EXCEPT ![r] = commit]
  /\ ref' = IF current[r] = None THEN ref ELSE [ref EXCEPT ![current[r]] = commit]

(* updateCachedRepo, without the mutex.                                     *)
Update(s) ==
  LET r == RepoOf[s] IN
  /\ stage[s] = "updating" /\ s \notin cancelled /\ dir[r] = "whole"
  /\ tree' = Reset(r) /\ MovesHead(r, Clean)
  /\ cloneCache' = IF Cached(r) THEN Touch(cloneCache, r) ELSE cloneCache
  /\ Goes(s, "reading")
  /\ UNCHANGED <<row, loop, awaits, cancelled, inflight, dir, builder, clash, current, pushed,
                 met, faults>>

(* The directory, with its branches, is gone.                               *)
Afresh(r) ==
  /\ tree' = [tree EXCEPT ![r] = Clean] /\ head' = [head EXCEPT ![r] = Clean]
  /\ current' = [current EXCEPT ![r] = None]
  /\ ref' = [t \in Sessions |-> IF RepoOf[t] = r THEN NoRef ELSE ref[t]]

MutantDropped(r) == cloneCache
Dropped(r) == RemoveFirst(cloneCache, r)

(* The update fails: the entry is dropped, the directory removed, and the   *)
(* session clones, whoever else does.                                       *)
UpdateFails(s) ==
  LET r == RepoOf[s]
      cloners == {t \in Others(s) : stage[t] \in {"filling", "cloned", "evicted"}}
  IN
  /\ stage[s] = "updating"
  /\ IF s \in cancelled \/ dir[r] # "whole" THEN UNCHANGED faults ELSE Fault
  /\ cloneCache' = Dropped(r)
  /\ dir' = [dir EXCEPT ![r] = "absent"] /\ builder' = [builder EXCEPT ![r] = None]
  /\ Afresh(r)
  /\ inflight' = [inflight EXCEPT ![r] = s]
  /\ clash' = IF cloners = {} THEN clash ELSE clash \cup {r}
  /\ Goes(s, "cloning")
  /\ UNCHANGED <<row, loop, awaits, cancelled, pushed, met>>

(* The clone is over, with or without an error: close(ch).                  *)
Release(r) == inflight' = [inflight EXCEPT ![r] = None]

(* git clone refuses a directory that is there.                             *)
CloneBegins(s) ==
  LET r == RepoOf[s] IN
  /\ stage[s] = "cloning"
  /\ IF dir[r] = "absent" /\ s \notin cancelled
     THEN /\ Goes(s, "filling")
          /\ dir' = [dir EXCEPT ![r] = "partial"] /\ builder' = [builder EXCEPT ![r] = s]
          /\ UNCHANGED <<row, loop, inflight, faults>>
     ELSE Ends(s, "error") /\ Release(r) /\ UNCHANGED <<dir, builder>>
  /\ UNCHANGED <<awaits, cancelled, cloneCache, clash, gitVars>>

CloneSucceeds(s) ==
  LET r == RepoOf[s] IN
  /\ stage[s] = "filling" /\ builder[r] = s
  /\ Goes(s, "cloned")
  /\ dir' = [dir EXCEPT ![r] = "whole"] /\ builder' = [builder EXCEPT ![r] = None]
  /\ UNCHANGED <<row, loop, awaits, cancelled, cloneCache, inflight, clash, gitVars, faults>>

(* git removes what it made when it fails; killed, it leaves it behind.     *)
CloneFails(s) ==
  LET r == RepoOf[s] IN
  /\ stage[s] = "filling"
  /\ \/ dir' = [dir EXCEPT ![r] = IF builder[r] = s THEN "absent" ELSE @]
     \/ UNCHANGED dir
  /\ builder' = [builder EXCEPT ![r] = IF @ = s THEN None ELSE @]
  /\ Ends(s, "error") /\ Release(r)
  /\ UNCHANGED <<awaits, cancelled, cloneCache, clash, gitVars>>

(* evictLRU, without the mutex: the directory goes, whoever works in it.    *)
Evict(s) ==
  /\ stage[s] = "cloned"
  /\ Goes(s, "evicted")
  /\ IF Len(cloneCache) < MaxCachedRepos
     THEN UNCHANGED <<cloneCache, dir, tree, head, current, ref>>
     ELSE LET r == Head(cloneCache) IN
          /\ cloneCache' = Tail(cloneCache)
          /\ dir' = [dir EXCEPT ![r] = "absent"] /\ Afresh(r)
  /\ UNCHANGED <<row, loop, awaits, cancelled, inflight, builder, clash, pushed, met, faults>>

Insert(s) ==
  LET r == RepoOf[s] IN
  /\ stage[s] = "evicted"
  /\ cloneCache' = Touch(cloneCache, r)
  /\ Release(r) /\ Goes(s, "reading")
  /\ UNCHANGED <<row, loop, awaits, cancelled, dir, builder, clash, gitVars, faults>>

-----------------------------------------------------------------------------
(* IterateSketchApply                                                       *)

(* CollectFiles and ReadSourceFiles.                                        *)
Read(s) ==
  /\ stage[s] = "reading"
  /\ IF dir[RepoOf[s]] = "absent" THEN Ends(s, "error")
     ELSE s \notin cancelled /\ Goes(s, "work") /\ UNCHANGED <<row, loop, faults>>
  /\ UNCHANGED <<awaits, cancelled, cacheVars, gitVars>>

(* Nothing applied by the last ApplyEdits is an error, whatever the ones    *)
(* before it applied.                                                       *)
LoopEnds(s, last) ==
  IF last = "some" THEN Goes(s, "branch") /\ UNCHANGED <<row, faults>>
  ELSE Goes(s, "end") /\ Record(s, "error") /\ UNCHANGED faults

MutantTurn(s, l) ==
  IF l.iteration <= MaxIterations[s]
  THEN loop' = [loop EXCEPT ![s] = [l EXCEPT !.iteration = l.iteration + 1]]
       /\ UNCHANGED <<stage, row, faults>>
  ELSE loop' = [loop EXCEPT ![s] = l] /\ LoopEnds(s, l.last)

(* The next turn of the loop, or the end of it.                             *)
Turn(s, l) ==
  IF l.iteration < MaxIterations[s]
  THEN loop' = [loop EXCEPT ![s] = [l EXCEPT !.iteration = l.iteration + 1]]
       /\ UNCHANGED <<stage, row, faults>>
  ELSE loop' = [loop EXCEPT ![s] = l] /\ LoopEnds(s, l.last)

(* The call, its retries, or both answers fail; or the directory is gone.   *)
IterationFails(s) ==
  /\ stage[s] = "work"
  /\ IF s \in cancelled THEN LoopEnds(s, loop[s].last) /\ UNCHANGED loop
     ELSE Turn(s, loop[s])
  /\ UNCHANGED <<awaits, cancelled, cacheVars, gitVars>>

(* ApplyEdits: an edit that is found changes a file, a new file replaces    *)
(* what is there.                                                           *)
Edited(s, op) ==
  LET t == tree[RepoOf[s]] IN
  CASE op = "edit f" -> [t EXCEPT !["f"] = @ \cup {s}]
    [] op = "edit n" -> [t EXCEPT !["n"] = @ \cup {s}]
    [] op = "create n" -> [t EXCEPT !["n"] = {s}]

Apply(s, op, failed) ==
  LET file == IF op = "edit f" THEN "f" ELSE "n"
      l == [loop[s] EXCEPT !.last = "some", !.touched = loop[s].touched \cup {file}]
  IN
  /\ stage[s] = "work" /\ s \notin cancelled /\ dir[RepoOf[s]] = "whole"
  /\ op = "edit n" => tree[RepoOf[s]]["n"] # {}
  /\ tree' = [tree EXCEPT ![RepoOf[s]] = Edited(s, op)]
  /\ IF failed THEN Turn(s, l) ELSE loop' = [loop EXCEPT ![s] = l] /\ LoopEnds(s, l.last)
  /\ UNCHANGED <<awaits, cancelled, cacheVars, head, current, ref, pushed, met>>

(* Every edit failed (or there was none): the loop gives up after the       *)
(* second such answer, and at once when nothing failed.                     *)
ApplyNothing(s, failed) ==
  LET l == [loop[s] EXCEPT !.last = "zero"] IN
  /\ stage[s] = "work" /\ s \notin cancelled /\ dir[RepoOf[s]] = "whole"
  /\ IF failed /\ l.iteration = 1 THEN Turn(s, l)
     ELSE loop' = [loop EXCEPT ![s] = l] /\ LoopEnds(s, l.last)
  /\ UNCHANGED <<awaits, cancelled, cacheVars, gitVars>>

-----------------------------------------------------------------------------
(* CreateBranch, CommitAndPush                                              *)

CreateBranch(s) ==
  LET r == RepoOf[s] IN
  /\ stage[s] = "branch" /\ s \notin cancelled /\ dir[r] = "whole"
  /\ current' = [current EXCEPT ![r] = s] /\ ref' = [ref EXCEPT ![s] = head[r]]
  /\ Goes(s, "commit")
  /\ UNCHANGED <<row, loop, awaits, cancelled, cacheVars, tree, head, pushed, met, faults>>

CreateBranchFails(s) ==
  /\ stage[s] = "branch" /\ s \notin cancelled
  /\ Ends(s, "error")
  /\ UNCHANGED <<awaits, cancelled, cacheVars, gitVars>>

Committed(s) ==
  [x \in Files |-> IF x \in loop[s].touched THEN tree[RepoOf[s]][x] ELSE head[RepoOf[s]][x]]

(* git add -- files, git commit, on the branch that is checked out.         *)
Commit(s) ==
  LET r == RepoOf[s] IN
  /\ stage[s] = "commit" /\ s \notin cancelled /\ dir[r] = "whole"
  /\ "n" \in loop[s].touched => tree[r]["n"] # {}
  /\ Committed(s) # head[r]
  /\ MovesHead(r, Committed(s))
  /\ Goes(s, "push")
  /\ UNCHANGED <<row, loop, awaits, cancelled, cacheVars, tree, current, pushed, met, faults>>

(* A failure to add, to commit or to push is no error to the engine: the    *)
(* session is done.                                                         *)
CommitFails(s) ==
  /\ stage[s] \in {"commit", "push"}
  /\ Ends(s, "done")
  /\ UNCHANGED <<awaits, cancelled, cacheVars, gitVars>>

Push(s) ==
  /\ stage[s] = "push" /\ s \notin cancelled /\ dir[RepoOf[s]] = "whole" /\ ref[s] # NoRef
  /\ pushed' = [pushed EXCEPT ![s] = ref[s]]
  /\ Ends(s, "done")
  /\ UNCHANGED <<awaits, cancelled, cacheVars, tree, head, current, ref, met>>

(* A later attempt: a branch with a suffix, made from what is checked out   *)
(* by then.                                                                 *)
PushSuffixed(s) ==
  LET r == RepoOf[s] IN
  /\ stage[s] = "push" /\ s \notin cancelled /\ dir[r] = "whole"
  /\ current' = [current EXCEPT ![r] = s] /\ ref' = [ref EXCEPT ![s] = head[r]]
  /\ pushed' = [pushed EXCEPT ![s] = head[r]]
  /\ Ends(s, "done")
  /\ UNCHANGED <<awaits, cancelled, cacheVars, tree, head, met>>

-----------------------------------------------------------------------------

Step(s) ==
  \/ StopsIfCancelled(s) \/ EnterClone(s) \/ Wake(s) \/ Update(s) \/ UpdateFails(s)
  \/ CloneBegins(s) \/ CloneSucceeds(s) \/ CloneFails(s) \/ Evict(s) \/ Insert(s)
  \/ Read(s) \/ IterationFails(s)
  \/ \E op \in Proposes[s], failed \in BOOLEAN : Apply(s, op, failed)
  \/ \E failed \in BOOLEAN : ApplyNothing(s, failed)
  \/ CreateBranch(s) \/ CreateBranchFails(s) \/ Commit(s) \/ CommitFails(s)
  \/ Push(s) \/ PushSuffixed(s)

Next == \E s \in Sessions : Start(s) \/ StartFails(s) \/ Cancel(s) \/ Step(s)

Spec == Init /\ [][Next]_vars

(* A call of the engine runs on.                                            *)
FairSpec == Spec /\ \A s \in Sessions : WF_vars(Step(s))

-----------------------------------------------------------------------------

Contents == [Files -> SUBSET Sessions]

(* The type of the state.                                                   *)
TypeOK ==
  /\ stage \in [Sessions -> {"new", "started", "waiting", "updating", "cloning", "filling",
                             "cloned", "evicted", "reading", "work", "branch", "commit", "push",
                             "end"}]
  /\ row \in [Sessions -> {"none", "running", "error", "cancelled", "done"}]
  /\ \A s \in Sessions : loop[s] \in [iteration : 1 .. MaxIterations[s],
                                     last : {"none", "zero", "some"}, touched : SUBSET Files]
  /\ IsInjective(cloneCache) /\ ToSet(cloneCache) \subseteq Repos
  /\ inflight \in [Repos -> Sessions \cup {None}] /\ awaits \in [Sessions -> Sessions \cup {None}]
  /\ dir \in [Repos -> {"absent", "partial", "whole"}]
  /\ builder \in [Repos -> Sessions \cup {None}]
  /\ tree \in [Repos -> Contents] /\ head \in [Repos -> Contents]
  /\ current \in [Repos -> Sessions \cup {None}]
  /\ ref \in [Sessions -> Contents \cup {NoRef}] /\ pushed \in [Sessions -> Contents \cup {NoRef}]
  /\ cancelled \subseteq Sessions /\ met \subseteq Sessions /\ clash \subseteq Repos
  /\ faults \in 0 .. MaxFaults

(* Every entry of the clone cache is a finished clone that is still on      *)
(* disk, unless two sessions replaced it at once: the second one to fail    *)
(* its update removes the directory that the first is about to enter.       *)
CachedIsWhole == \A r \in Repos \ clash : Cached(r) => dir[r] = "whole"

(* A session that no other one ran beside pushes its own work: what it      *)
(* pushed has an edit of the session, and no edit that an earlier           *)
(* session left in a file of the repository (reset --hard clears those).    *)
PushedIsOwn ==
  \A s \in Sessions \ met : pushed[s] # NoRef =>
    pushed[s]["f"] \subseteq {s} /\ s \in pushed[s]["f"] \cup pushed[s]["n"]

(* Every session comes to an end, whoever it waits for, and its row is      *)
(* settled, unless it was cancelled.                                        *)
SessionEnds ==
  \A s \in Sessions :
    stage[s] = "started" ~> /\ stage[s] = "end"
                            /\ row[s] # "running" \/ s \in cancelled

(* The cache of clones and the branches in every state.                     *)
EngineInv == TypeOK /\ CachedIsWhole /\ PushedIsOwn
=============================================================================
