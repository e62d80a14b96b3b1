--------------------------- MODULE Engine_proofs ---------------------------
(***************************************************************************)
(* Proofs about the direct engine, for any sessions, repositories and      *)
(* capacity of the cache: what the cache holds is on disk, and a session   *)
(* that was alone pushes its own work.                                     *)
(***************************************************************************)
EXTENDS Engine, SequenceTheorems, WellFoundedInduction, TLAPS

-----------------------------------------------------------------------------
(* The inductive invariant                                                  *)

Stages == {"new", "started", "waiting", "updating", "cloning", "filling", "cloned", "evicted",
           "reading", "work", "branch", "commit", "push", "end"}
Inside == Stages \ {"new", "started", "end"}
Building == {"filling", "cloned", "evicted"}
LoopState == [iteration : Nat, last : {"none", "zero", "some"}, touched : SUBSET Files]

(* TypeOK, with the domains of the functions.                               *)
LoopOf(s) == [iteration : 1 .. MaxIterations[s], last : {"none", "zero", "some"},
              touched : SUBSET Files]

Types ==
  /\ stage \in [Sessions -> Stages]
  /\ row \in [Sessions -> {"none", "running", "error", "cancelled", "done"}]
  /\ loop \in [Sessions -> LoopState] /\ \A s \in Sessions : loop[s] \in LoopOf(s)
  /\ cloneCache \in Seq(Repos) /\ IsInjective(cloneCache)
  /\ inflight \in [Repos -> Sessions \cup {None}] /\ awaits \in [Sessions -> Sessions \cup {None}]
  /\ dir \in [Repos -> {"absent", "partial", "whole"}]
  /\ builder \in [Repos -> Sessions \cup {None}]
  /\ tree \in [Repos -> Contents] /\ head \in [Repos -> Contents]
  /\ current \in [Repos -> Sessions \cup {None}]
  /\ ref \in [Sessions -> Contents \cup {NoRef}] /\ pushed \in [Sessions -> Contents \cup {NoRef}]
  /\ cancelled \subseteq Sessions /\ met \subseteq Sessions /\ clash \subseteq Repos
  /\ faults \in 0 .. MaxFaults

(* Of the sessions on a repository at most one has passed the point where   *)
(* git clone refuses a directory that is there, as long as none removed the *)
(* directory under another one; while it works the entry is not cached.     *)
BuildInv ==
  \A r \in Repos \ clash :
    /\ Cached(r) => dir[r] = "whole"
    /\ builder[r] # None => RepoOf[builder[r]] = r /\ stage[builder[r]] = "filling"
    /\ \A s \in Sessions : RepoOf[s] = r /\ stage[s] \in Building =>
         /\ ~Cached(r)
         /\ IF stage[s] = "filling" THEN dir[r] = "partial" /\ builder[r] = s
            ELSE dir[r] = "whole" /\ builder[r] = None
         /\ \A t \in Sessions : RepoOf[t] = r /\ stage[t] \in Building => t = s

(* A directory that is not a whole clone has no edits and no branches, and  *)
(* a branch that is checked out is one of the repository's.                 *)
DirInv ==
  \A r \in Repos :
    /\ dir[r] # "whole" => tree[r] = Clean /\ head[r] = Clean
    /\ builder[r] # None => dir[r] # "whole"
    /\ current[r] # None => RepoOf[current[r]] = r
    /\ inflight[r] # None =>
         RepoOf[inflight[r]] = r /\ stage[inflight[r]] \in Building \cup {"cloning"}

Own(s, files) == files["f"] \subseteq {s} /\ s \in files["f"] \cup files["n"]

(* What is in the directory of a session that has it to itself.             *)
Alone(s) ==
  LET r == RepoOf[s] IN
  /\ \A t \in Sessions \ {s} : RepoOf[t] = r => stage[t] \notin Inside
  /\ stage[s] # "waiting"
  /\ stage[s] \in {"cloned", "evicted", "reading"} => tree[r]["f"] = {} /\ head[r] = Clean
  /\ stage[s] \in {"work", "branch", "commit"} =>
       /\ tree[r]["f"] \subseteq {s} /\ head[r] = Clean
       /\ dir[r] = "whole" => \A x \in loop[s].touched : s \in tree[r][x]
  /\ stage[s] = "commit" /\ dir[r] = "whole" => current[r] = s
  /\ stage[s] = "push" /\ dir[r] = "whole" => Own(s, ref[s]) /\ Own(s, head[r])

(* A session that has met no other is alone in its directory, has touched   *)
(* nothing before the model worked, and has pushed nothing but its own.     *)
OwnInv ==
  \A s \in Sessions :
    /\ stage[s] \notin {"work", "branch", "commit", "push", "end"} => loop[s].touched = {}
    /\ s \notin met => /\ stage[s] \in Inside => Alone(s)
                       /\ pushed[s] # NoRef => Own(s, pushed[s])

IInv == Types /\ BuildInv /\ DirInv /\ OwnInv

-----------------------------------------------------------------------------
(* Sequences                                                                *)

(* A set of numbers that is not empty has a least one.                      *)
LEMMA MinFacts ==
  ASSUME NEW I \in SUBSET Nat, I # {}
  PROVE  Min(I) \in I /\ \A i \in I : Min(I) <= i
<1>1. PICK x \in I : \A y \in I : ~(<<y, x>> \in OpToRel(<, Nat))
  BY NatLessThanWellFounded, WFMin
<1>2. \A y \in Nat : y < x => <<y, x>> \in OpToRel(<, Nat) BY DEF OpToRel
<1>3. \A y \in I : ~(y < x) BY <1>1, <1>2
<1>4. \A y \in I : x <= y BY <1>3
<1> QED BY <1>4 DEF Min

(* A sequence without its element at k.                                     *)
LEMMA RemoveAtFacts ==
  ASSUME NEW S, NEW q \in Seq(S), NEW k \in 1 .. Len(q)
  PROVE  /\ RemoveAt(q, k) \in Seq(S) /\ Len(RemoveAt(q, k)) = Len(q) - 1
         /\ \A i \in 1 .. Len(q) - 1 : RemoveAt(q, k)[i] = IF i < k THEN q[i] ELSE q[i + 1]
<1> DEFINE front == SubSeq(q, 1, k - 1)
           back == SubSeq(q, k + 1, Len(q))
<1>1. Len(q) \in Nat BY LenProperties
<1>2. /\ front \in Seq(S) /\ Len(front) = k - 1
      /\ \A i \in 1 .. k - 1 : front[i] = q[i]
  BY <1>1
<1>3. /\ back \in Seq(S) /\ Len(back) = Len(q) - k
      /\ \A i \in 1 .. Len(q) - k : back[i] = q[k + i]
  BY <1>1
<1>4. RemoveAt(q, k) = front \o back BY DEF RemoveAt
<1> HIDE DEF front, back
<1>5. /\ front \o back \in Seq(S) /\ Len(front \o back) = Len(front) + Len(back)
      /\ \A i \in 1 .. Len(front) + Len(back) :
           (front \o back)[i] = IF i <= Len(front) THEN front[i] ELSE back[i - Len(front)]
  BY <1>2, <1>3, ConcatProperties
<1>6. \A i \in 1 .. Len(q) - 1 : (front \o back)[i] = IF i < k THEN q[i] ELSE q[i + 1]
  <2> TAKE i \in 1 .. Len(q) - 1
  <2>1. CASE i < k BY <1>1, <1>2, <1>3, <1>5, <2>1
  <2>2. CASE ~(i < k)
    <3>1. (front \o back)[i] = back[i - (k - 1)] BY <1>1, <1>2, <1>3, <1>5, <2>2
    <3>2. i - (k - 1) \in 1 .. Len(q) - k /\ k + (i - (k - 1)) = i + 1 BY <1>1, <2>2
    <3> QED BY <1>3, <2>2, <3>1, <3>2
  <2> QED BY <2>1, <2>2
<1> QED BY <1>1, <1>2, <1>3, <1>4, <1>5, <1>6

(* RemoveFirst on a sequence without repetitions takes one element away.    *)
LEMMA RemoveFirstFacts ==
  ASSUME NEW S, NEW q \in Seq(S), IsInjective(q), NEW e
  PROVE  /\ RemoveFirst(q, e) \in Seq(S) /\ IsInjective(RemoveFirst(q, e))
         /\ ToSet(RemoveFirst(q, e)) = ToSet(q) \ {e}
<1> DEFINE I == {i \in 1 .. Len(q) : q[i] = e}
           r == RemoveFirst(q, e)
<1>1. Len(q) \in Nat /\ DOMAIN q = 1 .. Len(q) BY LenProperties
<1>2. CASE I = {}
  <2>1. r = q BY <1>2 DEF RemoveFirst
  <2>2. e \notin ToSet(q) BY <1>1, <1>2 DEF ToSet
  <2> QED BY <2>1, <2>2
<1>3. CASE I # {}
  <2>1. Min(I) \in I
    <3>1. I \in SUBSET Nat BY <1>1
    <3> HIDE DEF I
    <3> QED BY <1>3, <3>1, MinFacts
  <2>2. r = RemoveAt(q, Min(I)) BY <1>3 DEF RemoveFirst, SelectInSeq
  <2>3. PICK k \in 1 .. Len(q) : q[k] = e /\ r = RemoveAt(q, k) BY <2>1, <2>2
  <2>4. /\ r \in Seq(S) /\ Len(r) = Len(q) - 1
        /\ \A i \in 1 .. Len(q) - 1 : r[i] = IF i < k THEN q[i] ELSE q[i + 1]
    BY <2>3, RemoveAtFacts
  <2> HIDE DEF r
  <2>5. DOMAIN r = 1 .. Len(q) - 1 BY <2>4, LenProperties
  <2>6. \A i \in 1 .. Len(q) - 1 : r[i] \in ToSet(q) \ {e}
    <3> TAKE i \in 1 .. Len(q) - 1
    <3>1. CASE i < k BY <1>1, <2>3, <2>4, <3>1 DEF IsInjective, ToSet
    <3>2. CASE ~(i < k)
      <4>1. i + 1 \in 1 .. Len(q) /\ i + 1 # k /\ r[i] = q[i + 1] BY <1>1, <2>4, <3>2
      <4> QED BY <1>1, <2>3, <4>1 DEF IsInjective, ToSet
    <3> QED BY <3>1, <3>2
  <2>7. \A j \in 1 .. Len(q) : j # k => q[j] \in ToSet(r)
    <3> TAKE j \in 1 .. Len(q)
    <3>1. CASE j < k BY <1>1, <2>4, <2>5, <3>1 DEF ToSet
    <3>2. CASE j > k
      <4>1. j - 1 \in 1 .. Len(q) - 1 /\ ~(j - 1 < k) /\ (j - 1) + 1 = j BY <1>1, <3>2
      <4>2. r[j - 1] = q[j] BY <2>4, <4>1
      <4> QED BY <2>5, <4>1, <4>2 DEF ToSet
    <3> QED BY <1>1, <3>1, <3>2
  <2>8. ToSet(r) = ToSet(q) \ {e}
    <3>1. ToSet(r) \subseteq ToSet(q) \ {e} BY <2>5, <2>6 DEF ToSet
    <3>2. ToSet(q) \ {e} \subseteq ToSet(r) BY <1>1, <2>3, <2>7 DEF ToSet
    <3> QED BY <3>1, <3>2
  <2>9. IsInjective(r)
    <3> SUFFICES ASSUME NEW i \in 1 .. Len(q) - 1, NEW n \in 1 .. Len(q) - 1, r[i] = r[n]
                 PROVE  i = n
      BY <2>5 DEF IsInjective
    <3>1. /\ (IF i < k THEN i ELSE i + 1) \in 1 .. Len(q)
          /\ (IF n < k THEN n ELSE n + 1) \in 1 .. Len(q)
      BY <1>1
    <3>2. (IF i < k THEN i ELSE i + 1) = (IF n < k THEN n ELSE n + 1)
      BY <1>1, <2>4, <3>1 DEF IsInjective
    <3> QED BY <1>1, <3>2
  <2> QED BY <2>4, <2>8, <2>9 DEF r
<1> QED BY <1>2, <1>3

(* Touch makes an element the last one, and the only one of its name.       *)
LEMMA TouchFacts ==
  ASSUME NEW S, NEW q \in Seq(S), IsInjective(q), NEW e \in S
  PROVE  /\ Touch(q, e) \in Seq(S) /\ IsInjective(Touch(q, e))
         /\ ToSet(Touch(q, e)) = ToSet(q) \cup {e}
<1> DEFINE r == RemoveFirst(q, e)
<1>1. r \in Seq(S) /\ IsInjective(r) /\ ToSet(r) = ToSet(q) \ {e} BY RemoveFirstFacts
<1>2. Touch(q, e) = Append(r, e) BY DEF Touch
<1> HIDE DEF r
<1>3. Len(r) \in Nat /\ DOMAIN r = 1 .. Len(r) BY <1>1, LenProperties
<1>4. /\ Append(r, e) \in Seq(S) /\ Len(Append(r, e)) = Len(r) + 1
      /\ \A i \in 1 .. Len(r) : Append(r, e)[i] = r[i]
      /\ Append(r, e)[Len(r) + 1] = e
  BY <1>1, AppendProperties
<1>5. DOMAIN Append(r, e) = 1 .. Len(r) + 1 BY <1>4, LenProperties
<1>6. \A i \in 1 .. Len(r) : r[i] # e /\ r[i] \in ToSet(q) BY <1>1, <1>3 DEF ToSet
<1>7. IsInjective(Append(r, e)) BY <1>1, <1>3, <1>4, <1>5, <1>6 DEF IsInjective
<1>8. ToSet(Append(r, e)) = ToSet(r) \cup {e}
  <2>1. ToSet(Append(r, e)) \subseteq ToSet(r) \cup {e}
    <3> SUFFICES ASSUME NEW i \in 1 .. Len(r) + 1
                 PROVE  Append(r, e)[i] \in ToSet(r) \cup {e}
      BY <1>5 DEF ToSet
    <3>1. CASE i \in 1 .. Len(r) BY <1>3, <1>4, <3>1 DEF ToSet
    <3>2. CASE i = Len(r) + 1 BY <1>4, <3>2
    <3> QED BY <1>3, <3>1, <3>2
  <2>2. ToSet(r) \subseteq ToSet(Append(r, e))
    <3> SUFFICES ASSUME NEW i \in 1 .. Len(r) PROVE r[i] \in ToSet(Append(r, e))
      BY <1>3 DEF ToSet
    <3>1. i \in 1 .. Len(r) + 1 BY <1>3
    <3> QED BY <1>4, <1>5, <3>1 DEF ToSet
  <2>3. e \in ToSet(Append(r, e))
    <3>1. Len(r) + 1 \in 1 .. Len(r) + 1 BY <1>3
    <3> QED BY <1>4, <1>5, <3>1 DEF ToSet
  <2> QED BY <2>1, <2>2, <2>3
<1> QED BY <1>1, <1>2, <1>4, <1>7, <1>8

(* The cache without its first element.                                     *)
LEMMA TailFacts ==
  ASSUME NEW S, NEW q \in Seq(S), IsInjective(q), q # <<>>
  PROVE  /\ Tail(q) \in Seq(S) /\ IsInjective(Tail(q))
         /\ Head(q) \in ToSet(q) /\ ToSet(Tail(q)) = ToSet(q) \ {Head(q)}
<1>1. Len(q) \in Nat /\ DOMAIN q = 1 .. Len(q) /\ Len(q) # 0 BY LenProperties, EmptySeq
<1>2. /\ Head(q) = q[1] /\ Tail(q) \in Seq(S) /\ Len(Tail(q)) = Len(q) - 1
      /\ \A i \in 1 .. Len(Tail(q)) : Tail(q)[i] = q[i + 1]
  BY HeadTailProperties
<1>3. DOMAIN Tail(q) = 1 .. Len(q) - 1 BY <1>2, LenProperties
<1>4. \A i \in 1 .. Len(q) - 1 : i + 1 \in 1 .. Len(q) /\ i + 1 # 1 BY <1>1
<1>5. 1 \in 1 .. Len(q) BY <1>1
<1>6. IsInjective(Tail(q))
  <2> SUFFICES ASSUME NEW i \in 1 .. Len(q) - 1, NEW n \in 1 .. Len(q) - 1,
                      Tail(q)[i] = Tail(q)[n]
               PROVE  i = n
    BY <1>3 DEF IsInjective
  <2>1. q[i + 1] = q[n + 1] BY <1>2
  <2>2. i + 1 = n + 1 BY <1>1, <1>4, <2>1 DEF IsInjective
  <2> QED BY <1>1, <2>2
<1>7. ToSet(Tail(q)) \subseteq ToSet(q) \ {Head(q)}
  <2> SUFFICES ASSUME NEW i \in 1 .. Len(q) - 1 PROVE Tail(q)[i] \in ToSet(q) \ {Head(q)}
    BY <1>3 DEF ToSet
  <2>1. Tail(q)[i] = q[i + 1] BY <1>2
  <2> QED BY <1>1, <1>2, <1>4, <1>5, <2>1 DEF ToSet, IsInjective
<1>8. ToSet(q) \ {Head(q)} \subseteq ToSet(Tail(q))
  <2> SUFFICES ASSUME NEW j \in 1 .. Len(q), q[j] # q[1] PROVE q[j] \in ToSet(Tail(q))
    BY <1>1, <1>2 DEF ToSet
  <2>1. j - 1 \in 1 .. Len(q) - 1 /\ (j - 1) + 1 = j BY <1>1
  <2>2. Tail(q)[j - 1] = q[j] BY <1>2, <2>1
  <2> QED BY <1>3, <2>1, <2>2 DEF ToSet
<1>9. Head(q) \in ToSet(q) BY <1>1, <1>2, <1>5 DEF ToSet
<1> QED BY <1>2, <1>6, <1>7, <1>8, <1>9

-----------------------------------------------------------------------------
(* Types                                                                    *)

LEMMA TypesGiveTypeOK ==
  ASSUME Types
  PROVE  TypeOK
<1>1. ToSet(cloneCache) \subseteq Repos
  <2>1. \A i \in DOMAIN cloneCache : cloneCache[i] \in Repos BY LenProperties DEF Types
  <2> QED BY <2>1 DEF ToSet
<1> QED BY <1>1 DEF Types, TypeOK, Stages, LoopOf

LEMMA Constants ==
  /\ None \notin Sessions /\ \A s \in Sessions : RepoOf[s] \in Repos
  /\ \A s \in Sessions : MaxIterations[s] \in Nat /\ MaxIterations[s] >= 1
  /\ \A s \in Sessions : NoLoop \in LoopOf(s)
  /\ Clean \in Contents
<1>1. /\ None \notin Sessions /\ \A s \in Sessions : RepoOf[s] \in Repos
      /\ \A s \in Sessions : MaxIterations[s] \in Nat /\ MaxIterations[s] >= 1
  <2>1. /\ None \notin Sessions /\ RepoOf \in [Sessions -> Repos]
        /\ MaxIterations \in [Sessions -> Nat \ {0}]
    BY EngineAssumption
  <2>2. \A n \in Nat \ {0} : n \in Nat /\ n >= 1 OBVIOUS
  <2>3. \A s \in Sessions : MaxIterations[s] \in Nat \ {0} BY <2>1
  <2> QED BY <2>1, <2>2, <2>3
<1>2. Clean \in Contents BY DEF Clean, Contents
<1> QED BY <1>1, <1>2 DEF NoLoop, LoopOf

(* Every loop[s] of the type is a loop state.                               *)
LEMMA LoopTypes ==
  ASSUME NEW s \in Sessions, NEW l \in LoopOf(s)
  PROVE  l \in LoopState
<1>1. MaxIterations[s] \in Nat BY Constants
<1> QED BY <1>1 DEF LoopOf, LoopState

LEMMA LoopUpdate ==
  ASSUME Types, NEW s \in Sessions, NEW l \in LoopOf(s), loop' = [loop EXCEPT ![s] = l]
  PROVE  loop' \in [Sessions -> LoopState] /\ \A t \in Sessions : loop'[t] \in LoopOf(t)
<1>1. l \in LoopState BY LoopTypes
<1>2. \A t \in Sessions : loop'[t] = IF t = s THEN l ELSE loop[t] BY DEF Types
<1>3. loop' \in [Sessions -> LoopState] BY <1>1 DEF Types
<1> QED BY <1>2, <1>3 DEF Types

(* The turns of IterateSketchApply stay within their number.                *)
LEMMA TurnTypes ==
  ASSUME Types, NEW s \in Sessions, NEW l \in LoopOf(s), Turn(s, l)
  PROVE  /\ loop' \in [Sessions -> LoopState] /\ \A t \in Sessions : loop'[t] \in LoopOf(t)
         /\ \E m \in LoopOf(s) : m.touched = l.touched /\ loop' = [loop EXCEPT ![s] = m]
         /\ \/ UNCHANGED <<stage, row, faults>>
            \/ LoopEnds(s, l.last)
<1>1. CASE l.iteration < MaxIterations[s]
  <2> DEFINE m == [l EXCEPT !.iteration = l.iteration + 1]
  <2>1. m \in LoopOf(s) /\ m.touched = l.touched
    <3>1. l.iteration \in 1 .. MaxIterations[s] BY DEF LoopOf
    <3>2. l.iteration + 1 \in 1 .. MaxIterations[s] BY <1>1, <3>1, Constants
    <3> QED BY <3>2 DEF LoopOf
  <2>2. loop' = [loop EXCEPT ![s] = m] /\ UNCHANGED <<stage, row, faults>> BY <1>1 DEF Turn
  <2> HIDE DEF m
  <2> QED BY <2>1, <2>2, LoopUpdate
<1>2. CASE ~(l.iteration < MaxIterations[s])
  <2>1. loop' = [loop EXCEPT ![s] = l] /\ LoopEnds(s, l.last) BY <1>2 DEF Turn
  <2> QED BY <2>1, LoopUpdate
<1> QED BY <1>1, <1>2

(* The edits of a session give contents.                                    *)
LEMMA EditedFacts ==
  ASSUME Types, NEW s \in Sessions, NEW op \in {"edit f", "edit n", "create n"}
  PROVE  LET x == IF op = "edit f" THEN "f" ELSE "n"
             c == Edited(s, op)
             t == tree[RepoOf[s]]
         IN  /\ c \in Contents /\ s \in c[x]
             /\ \A y \in Files : y # x => c[y] = t[y]
             /\ c["f"] \subseteq t["f"] \cup {s}
<1> DEFINE t == tree[RepoOf[s]]
<1>1. t \in Contents BY Constants DEF Types
<1> HIDE DEF t
<1>2. Edited(s, op) = CASE op = "edit f" -> [t EXCEPT !["f"] = t["f"] \cup {s}]
                        [] op = "edit n" -> [t EXCEPT !["n"] = t["n"] \cup {s}]
                        [] op = "create n" -> [t EXCEPT !["n"] = {s}]
  BY DEF Edited, t
<1>3. CASE op = "edit f"
  <2>1. Edited(s, op) = [t EXCEPT !["f"] = t["f"] \cup {s}] BY <1>2, <1>3
  <2> QED BY <1>1, <1>3, <2>1 DEF Contents, Files, t
<1>4. CASE op = "edit n"
  <2>1. Edited(s, op) = [t EXCEPT !["n"] = t["n"] \cup {s}] BY <1>2, <1>4
  <2>2. "f" \in Files /\ "n" \in Files /\ t \in [Files -> SUBSET Sessions]
    BY <1>1 DEF Contents, Files
  <2>3. /\ Edited(s, op) \in Contents
        /\ Edited(s, op)["n"] = t["n"] \cup {s}
        /\ \A y \in Files : y # "n" => Edited(s, op)[y] = t[y]
    BY <2>1, <2>2 DEF Contents
  <2>4. Edited(s, op)["f"] = t["f"] BY <2>2, <2>3
  <2> QED BY <1>4, <2>3, <2>4 DEF t
<1>5. CASE op = "create n"
  <2>1. Edited(s, op) = [t EXCEPT !["n"] = {s}] BY <1>2, <1>5
  <2> QED BY <1>1, <1>5, <2>1 DEF Contents, Files, t
<1> QED BY <1>3, <1>4, <1>5

LEMMA GitFacts ==
  ASSUME Types
  PROVE  /\ \A r \in Repos : Reset(r) \in [Repos -> Contents]
         /\ \A s \in Sessions : Committed(s) \in Contents
<1>1. ASSUME NEW r \in Repos PROVE Reset(r) \in [Repos -> Contents]
  <2> DEFINE c == [f |-> {}, n |-> IF head[r]["n"] # {} THEN {} ELSE tree[r]["n"]]
  <2>1. c \in Contents BY DEF Types, Contents, Files
  <2>2. Reset(r) = [tree EXCEPT ![r] = c] BY DEF Reset
  <2> HIDE DEF c
  <2> QED BY <2>1, <2>2 DEF Types
<1>2. ASSUME NEW s \in Sessions PROVE Committed(s) \in Contents
  <2>1. tree[RepoOf[s]] \in Contents /\ head[RepoOf[s]] \in Contents BY Constants DEF Types
  <2> QED BY <2>1 DEF Committed, Contents
<1> QED BY <1>1, <1>2

(* Every operation moves one session on.                                    *)
Operation(s) == Start(s) \/ StartFails(s) \/ Cancel(s) \/ Step(s)

Statuses == {"none", "running", "error", "cancelled", "done"}

LEMMA EndsFacts ==
  ASSUME Types, NEW s \in Sessions, NEW v \in Statuses, Ends(s, v)
  PROVE  /\ Goes(s, "end") /\ faults' = faults
         /\ row' \in [Sessions -> Statuses]
         /\ loop' = [loop EXCEPT ![s] = NoLoop]
         /\ loop' \in [Sessions -> LoopState] /\ \A t \in Sessions : loop'[t] \in LoopOf(t)
<1>1. /\ Goes(s, "end") /\ faults' = faults /\ loop' = [loop EXCEPT ![s] = NoLoop]
      /\ row' = [row EXCEPT ![s] = IF s \in cancelled THEN row[s] ELSE v]
  BY DEF Ends, Record
<1>2. row' \in [Sessions -> Statuses] BY <1>1 DEF Types, Statuses
<1>3. NoLoop \in LoopOf(s) BY Constants
<1> QED BY <1>1, <1>2, <1>3, LoopUpdate

LEMMA LoopEndsFacts ==
  ASSUME Types, NEW s \in Sessions, NEW last, LoopEnds(s, last)
  PROVE  /\ faults' = faults /\ row' \in [Sessions -> Statuses]
         /\ Goes(s, "branch") \/ Goes(s, "end")
<1>1. \/ row' = row
      \/ row' = [row EXCEPT ![s] = IF s \in cancelled THEN row[s] ELSE "error"]
  BY DEF LoopEnds, Record
<1>2. row' \in [Sessions -> Statuses] BY <1>1 DEF Types, Statuses
<1> QED BY <1>2 DEF LoopEnds

(* The loop of a session goes on, or ends, with the result l.               *)
Iterated(s, touched) ==
  /\ faults' = faults /\ row' \in [Sessions -> Statuses]
  /\ loop' \in [Sessions -> LoopState] /\ \A t \in Sessions : loop'[t] \in LoopOf(t)
  /\ \A t \in Sessions \ {s} : loop'[t] = loop[t]
  /\ loop'[s].touched = touched
  /\ stage' = stage \/ Goes(s, "branch") \/ Goes(s, "end")

LEMMA IteratedFacts ==
  ASSUME Types, NEW s \in Sessions, NEW l \in LoopOf(s),
         Turn(s, l) \/ (loop' = [loop EXCEPT ![s] = l] /\ LoopEnds(s, l.last))
  PROVE  Iterated(s, l.touched)
<1>1. /\ loop' \in [Sessions -> LoopState] /\ \A t \in Sessions : loop'[t] \in LoopOf(t)
      /\ \E m \in LoopOf(s) : m.touched = l.touched /\ loop' = [loop EXCEPT ![s] = m]
      /\ UNCHANGED <<stage, row, faults>> \/ LoopEnds(s, l.last)
  BY TurnTypes, LoopUpdate
<1>2. PICK m \in LoopOf(s) : m.touched = l.touched /\ loop' = [loop EXCEPT ![s] = m]
  BY <1>1
<1>3. \A t \in Sessions : loop'[t] = IF t = s THEN m ELSE loop[t] BY <1>2 DEF Types
<1>4. /\ faults' = faults /\ row' \in [Sessions -> Statuses]
      /\ stage' = stage \/ Goes(s, "branch") \/ Goes(s, "end")
  BY <1>1, LoopEndsFacts DEF Types, Statuses
<1> QED BY <1>1, <1>2, <1>3, <1>4 DEF Iterated

(* An iteration without an edit touches no file.                            *)
LEMMA NothingFacts ==
  ASSUME Types, NEW s \in Sessions,
         IterationFails(s) \/ \E failed \in BOOLEAN : ApplyNothing(s, failed)
  PROVE  stage[s] = "work" /\ Iterated(s, loop[s].touched)
<1>0. loop[s] \in LoopOf(s) BY DEF Types
<1>1. CASE IterationFails(s)
  <2>1. CASE s \in cancelled
    BY <1>0, <1>1, <2>1, LoopEndsFacts DEF IterationFails, Types, Iterated
  <2>2. CASE s \notin cancelled
    <3>1. Turn(s, loop[s]) /\ stage[s] = "work" BY <1>1, <2>2 DEF IterationFails
    <3>2. PICK l \in LoopOf(s) : l = loop[s] BY <1>0
    <3>3. Turn(s, l) BY <3>1, <3>2
    <3>4. Iterated(s, l.touched) BY <3>3, IteratedFacts
    <3> QED BY <3>1, <3>2, <3>4
  <2> QED BY <2>1, <2>2
<1>2. ASSUME NEW failed \in BOOLEAN, ApplyNothing(s, failed)
      PROVE  stage[s] = "work" /\ Iterated(s, loop[s].touched)
  <2> DEFINE k == [loop[s] EXCEPT !.last = "zero"]
  <2>1. k \in LoopOf(s) /\ k.touched = loop[s].touched BY <1>0 DEF LoopOf
  <2>2. PICK l \in LoopOf(s) : l = k BY <2>1
  <2>3. /\ stage[s] = "work"
        /\ Turn(s, k) \/ (loop' = [loop EXCEPT ![s] = k] /\ LoopEnds(s, k.last))
    BY <1>2 DEF ApplyNothing
  <2>4. Turn(s, l) \/ (loop' = [loop EXCEPT ![s] = l] /\ LoopEnds(s, l.last)) BY <2>2, <2>3
  <2>5. Iterated(s, l.touched) BY <2>4, IteratedFacts
  <2> QED BY <2>1, <2>2, <2>3, <2>5
<1> QED BY <1>1, <1>2

(* An edit touches one file.                                                *)
LEMMA ApplyFacts ==
  ASSUME Types, NEW s \in Sessions, NEW op \in Proposes[s], NEW failed \in BOOLEAN,
         Apply(s, op, failed)
  PROVE  /\ stage[s] = "work" /\ dir[RepoOf[s]] = "whole"
         /\ Iterated(s, loop[s].touched \cup {IF op = "edit f" THEN "f" ELSE "n"})
<1>0. loop[s] \in LoopOf(s) BY DEF Types
<1> DEFINE file == IF op = "edit f" THEN "f" ELSE "n"
           k == [loop[s] EXCEPT !.last = "some", !.touched = loop[s].touched \cup {file}]
<1>1. k \in LoopOf(s) /\ k.touched = loop[s].touched \cup {file} BY <1>0 DEF LoopOf, Files
<1>2. PICK l \in LoopOf(s) : l = k BY <1>1
<1>3. /\ stage[s] = "work" /\ dir[RepoOf[s]] = "whole"
      /\ Turn(s, k) \/ (loop' = [loop EXCEPT ![s] = k] /\ LoopEnds(s, k.last))
  BY DEF Apply
<1>4. Turn(s, l) \/ (loop' = [loop EXCEPT ![s] = l] /\ LoopEnds(s, l.last)) BY <1>2, <1>3
<1>5. Iterated(s, l.touched) BY <1>4, IteratedFacts
<1> QED BY <1>1, <1>2, <1>3, <1>5

(* The sessions after a step of one of them.                                *)
LEMMA SessionTypes ==
  ASSUME Types, NEW s \in Sessions, Operation(s)
  PROVE  /\ stage' \in [Sessions -> Stages] /\ row' \in [Sessions -> Statuses]
         /\ loop' \in [Sessions -> LoopState] /\ \A t \in Sessions : loop'[t] \in LoopOf(t)
         /\ awaits' \in [Sessions -> Sessions \cup {None}]
         /\ cancelled' \subseteq Sessions /\ faults' \in 0 .. MaxFaults
<1>1. stage' \in [Sessions -> Stages]
  <2>1. stage' = stage \/ \E p \in Stages : Goes(s, p)
    <3>1. ASSUME NEW op \in Proposes[s], NEW failed \in BOOLEAN, Apply(s, op, failed)
          PROVE  stage' = stage \/ Goes(s, "branch") \/ Goes(s, "end")
      <4>1. Iterated(s, loop[s].touched \cup {IF op = "edit f" THEN "f" ELSE "n"})
        BY <3>1, ApplyFacts
      <4> QED BY <4>1 DEF Iterated
    <3>2. CASE IterationFails(s) \/ \E failed \in BOOLEAN : ApplyNothing(s, failed)
      BY <3>2, NothingFacts DEF Iterated, Stages
    <3>3. {"end", "started", "waiting", "updating", "cloning", "filling", "cloned", "evicted",
           "reading", "work", "branch", "commit", "push"} \subseteq Stages
      BY DEF Stages
    <3>4. CASE Start(s) \/ StartFails(s) \/ Cancel(s) \/ StopsIfCancelled(s)
      BY <3>3, <3>4 DEF Start, StartFails, Cancel, StopsIfCancelled, Ends
    <3>5. CASE EnterClone(s) \/ Wake(s) \/ Update(s) \/ UpdateFails(s)
      BY <3>3, <3>5 DEF EnterClone, Wake, Update, UpdateFails, Ends
    <3>6. CASE CloneBegins(s) \/ CloneSucceeds(s) \/ CloneFails(s) \/ Evict(s) \/ Insert(s)
      BY <3>3, <3>6 DEF CloneBegins, CloneSucceeds, CloneFails, Evict, Insert, Ends
    <3>7. CASE \/ Read(s) \/ CreateBranch(s) \/ CreateBranchFails(s) \/ Commit(s)
               \/ CommitFails(s) \/ Push(s) \/ PushSuffixed(s)
      BY <3>3, <3>7 DEF Read, CreateBranch, CreateBranchFails, Commit, CommitFails, Push,
         PushSuffixed, Ends
    <3> QED BY <3>1, <3>2, <3>3, <3>4, <3>5, <3>6, <3>7 DEF Operation, Step
  <2> QED BY <2>1 DEF Goes, Types
<1>2. /\ row' \in [Sessions -> Statuses]
      /\ loop' \in [Sessions -> LoopState] /\ \A t \in Sessions : loop'[t] \in LoopOf(t)
      /\ faults' \in 0 .. MaxFaults
  <2>1. CASE row' = row /\ loop' = loop /\ faults' = faults
    BY <2>1 DEF Types, Statuses
  <2>2. ASSUME NEW v \in {"error", "done"}, Ends(s, v)
        PROVE  /\ row' \in [Sessions -> Statuses]
               /\ loop' \in [Sessions -> LoopState] /\ \A t \in Sessions : loop'[t] \in LoopOf(t)
               /\ faults' \in 0 .. MaxFaults
    BY <2>2, EndsFacts DEF Types, Statuses
  <2>3. ASSUME NEW touched, Iterated(s, touched)
        PROVE  /\ row' \in [Sessions -> Statuses]
               /\ loop' \in [Sessions -> LoopState] /\ \A t \in Sessions : loop'[t] \in LoopOf(t)
               /\ faults' \in 0 .. MaxFaults
    BY <2>3 DEF Iterated, Types
  <2>4. CASE Start(s) BY <2>4 DEF Start, Types, Statuses
  <2>5. CASE StopsIfCancelled(s)
    <3>1. NoLoop \in LoopOf(s) BY Constants
    <3>2. loop' = [loop EXCEPT ![s] = NoLoop] BY <2>5 DEF StopsIfCancelled
    <3>3. loop' \in [Sessions -> LoopState] /\ \A t \in Sessions : loop'[t] \in LoopOf(t)
      BY <3>1, <3>2, LoopUpdate
    <3> QED BY <2>5, <3>3 DEF StopsIfCancelled, Types, Statuses
  <2>6. CASE row' = row /\ loop' = loop /\ Fault
    <3>1. MaxFaults \in Nat BY EngineAssumption
    <3> QED BY <2>6, <3>1 DEF Fault, Types, Statuses
  <2>7. CASE IterationFails(s) \/ \E failed \in BOOLEAN : ApplyNothing(s, failed)
    BY <2>3, <2>7, NothingFacts
  <2>8. ASSUME NEW op \in Proposes[s], NEW failed \in BOOLEAN, Apply(s, op, failed)
        PROVE  /\ row' \in [Sessions -> Statuses]
               /\ loop' \in [Sessions -> LoopState] /\ \A t \in Sessions : loop'[t] \in LoopOf(t)
               /\ faults' \in 0 .. MaxFaults
    BY <2>3, <2>8, ApplyFacts
  <2> QED
    BY <2>1, <2>2, <2>4, <2>5, <2>6, <2>7, <2>8 DEF Operation, Step, StartFails, Cancel, EnterClone,
       Wake, Update, UpdateFails, CloneBegins, CloneSucceeds, CloneFails, Evict, Insert, Read,
       CreateBranch, CreateBranchFails, Commit, CommitFails, Push, PushSuffixed
<1>3. awaits' \in [Sessions -> Sessions \cup {None}]
  BY Constants DEF Operation, Step, Start, StartFails, Cancel, StopsIfCancelled, EnterClone,
     Wake, Update, UpdateFails, CloneBegins, CloneSucceeds, CloneFails, Evict, Insert, Read,
     IterationFails, Apply, ApplyNothing, CreateBranch, CreateBranchFails, Commit, CommitFails,
     Push, PushSuffixed, Types
<1>4. cancelled' \subseteq Sessions
  BY DEF Operation, Step, Start, StartFails, Cancel, StopsIfCancelled, EnterClone,
     Wake, Update, UpdateFails, CloneBegins, CloneSucceeds, CloneFails, Evict, Insert, Read,
     IterationFails, Apply, ApplyNothing, CreateBranch, CreateBranchFails, Commit, CommitFails,
     Push, PushSuffixed, Types
<1> QED BY <1>1, <1>2, <1>3, <1>4

(* The cache after a step: its entries are those before, and the new one,   *)
(* or all but the dropped one.                                              *)
LEMMA CacheTypes ==
  ASSUME Types, NEW s \in Sessions, Operation(s)
  PROVE  /\ cloneCache' \in Seq(Repos) /\ IsInjective(cloneCache')
         /\ \/ ToSet(cloneCache') = ToSet(cloneCache)
            \/ UpdateFails(s) /\ ToSet(cloneCache') = ToSet(cloneCache) \ {RepoOf[s]}
            \/ Insert(s) /\ ToSet(cloneCache') = ToSet(cloneCache) \cup {RepoOf[s]}
            \/ /\ Evict(s) /\ Head(cloneCache) \in ToSet(cloneCache)
               /\ ~(Len(cloneCache) < MaxCachedRepos)
               /\ ToSet(cloneCache') = ToSet(cloneCache) \ {Head(cloneCache)}
<1>0. RepoOf[s] \in Repos /\ cloneCache \in Seq(Repos) /\ IsInjective(cloneCache)
  BY Constants DEF Types
<1>1. CASE cloneCache' = cloneCache
  BY <1>0, <1>1
<1>2. CASE Wake(s) \/ Update(s)
  <2>1. \/ cloneCache' = cloneCache
        \/ cloneCache' = Touch(cloneCache, RepoOf[s]) /\ RepoOf[s] \in ToSet(cloneCache)
    BY <1>2 DEF Wake, Update, Cached
  <2>2. CASE cloneCache' = Touch(cloneCache, RepoOf[s]) /\ RepoOf[s] \in ToSet(cloneCache)
    <3>1. /\ cloneCache' \in Seq(Repos) /\ IsInjective(cloneCache')
          /\ ToSet(cloneCache') = ToSet(cloneCache) \cup {RepoOf[s]}
      BY <1>0, <2>2, TouchFacts
    <3>2. ToSet(cloneCache) \cup {RepoOf[s]} = ToSet(cloneCache) BY <2>2
    <3> QED BY <3>1, <3>2
  <2> QED BY <1>1, <2>1, <2>2
<1>3. CASE UpdateFails(s)
  <2>1. cloneCache' = RemoveFirst(cloneCache, RepoOf[s]) BY <1>3 DEF UpdateFails, Dropped
  <2> QED BY <1>0, <1>3, <2>1, RemoveFirstFacts
<1>4. CASE Insert(s)
  <2>1. cloneCache' = Touch(cloneCache, RepoOf[s]) BY <1>4 DEF Insert
  <2>2. /\ cloneCache' \in Seq(Repos) /\ IsInjective(cloneCache')
        /\ ToSet(cloneCache') = ToSet(cloneCache) \cup {RepoOf[s]}
    BY <1>0, <2>1, TouchFacts
  <2> QED BY <1>4, <2>2
<1>5. CASE Evict(s) /\ ~(Len(cloneCache) < MaxCachedRepos)
  <2>1. cloneCache # <<>>
    <3>1. MaxCachedRepos \in Nat \ {0} BY EngineAssumption
    <3>2. Len(cloneCache) # 0 BY <1>0, <1>5, <3>1, LenProperties
    <3> QED BY <1>0, <3>2, EmptySeq
  <2>2. cloneCache' = Tail(cloneCache) BY <1>5 DEF Evict
  <2> QED BY <1>0, <1>5, <2>1, <2>2, TailFacts
<1>6. \/ cloneCache' = cloneCache \/ Wake(s) \/ Update(s) \/ UpdateFails(s) \/ Insert(s)
      \/ Evict(s) /\ ~(Len(cloneCache) < MaxCachedRepos)
  BY DEF Operation, Step, Start, StartFails, Cancel, StopsIfCancelled, EnterClone, CloneBegins,
     CloneSucceeds, CloneFails, Evict, Read, IterationFails, Apply, ApplyNothing, CreateBranch,
     CreateBranchFails, Commit, CommitFails, Push, PushSuffixed, cacheVars
<1> QED BY <1>1, <1>2, <1>3, <1>4, <1>5, <1>6

LEMMA HeadType ==
  ASSUME Types, Head(cloneCache) \in ToSet(cloneCache)
  PROVE  Head(cloneCache) \in Repos
<1>1. \A i \in DOMAIN cloneCache : cloneCache[i] \in Repos BY LenProperties DEF Types
<1> QED BY <1>1 DEF ToSet

(* The directories and clones after a step.                                 *)
LEMMA DirTypes ==
  ASSUME Types, NEW s \in Sessions, Operation(s)
  PROVE  /\ inflight' \in [Repos -> Sessions \cup {None}]
         /\ dir' \in [Repos -> {"absent", "partial", "whole"}]
         /\ builder' \in [Repos -> Sessions \cup {None}]
         /\ clash' \subseteq Repos /\ met' \subseteq Sessions
<1>0. RepoOf[s] \in Repos BY Constants
<1>1. CASE UNCHANGED <<inflight, dir, builder, clash, met>>
  BY <1>1 DEF Types
<1>2. CASE EnterClone(s)
  BY <1>0, <1>2 DEF EnterClone, Others, Types
<1>3. CASE UpdateFails(s)
  BY <1>0, <1>3 DEF UpdateFails, Types
<1>4. CASE CloneBegins(s)
  BY <1>0, <1>4 DEF CloneBegins, Release, gitVars, Types
<1>5. CASE CloneSucceeds(s)
  BY <1>0, <1>5 DEF CloneSucceeds, gitVars, Types
<1>6. CASE CloneFails(s)
  BY <1>0, <1>6 DEF CloneFails, Release, gitVars, Types
<1>7. CASE Evict(s)
  BY <1>0, <1>7 DEF Evict, Types
<1>8. CASE Insert(s)
  BY <1>0, <1>8 DEF Insert, Release, gitVars, Types
<1> QED
  BY <1>1, <1>2, <1>3, <1>4, <1>5, <1>6, <1>7, <1>8 DEF Operation, Step, Start, StartFails, Cancel,
     StopsIfCancelled, Wake, Update, Read, IterationFails, Apply, ApplyNothing, CreateBranch,
     CreateBranchFails, Commit, CommitFails, Push, PushSuffixed, cacheVars, gitVars

(* The files and branches after a step.                                     *)
LEMMA GitTypes ==
  ASSUME Types, NEW s \in Sessions, Operation(s)
  PROVE  /\ tree' \in [Repos -> Contents] /\ head' \in [Repos -> Contents]
         /\ current' \in [Repos -> Sessions \cup {None}]
         /\ ref' \in [Sessions -> Contents \cup {NoRef}]
         /\ pushed' \in [Sessions -> Contents \cup {NoRef}]
<1>0. RepoOf[s] \in Repos /\ Clean \in Contents BY Constants
<1>1. CASE UNCHANGED <<tree, head, current, ref, pushed>>
  BY <1>1 DEF Types
<1>2. ASSUME NEW r \in Repos, NEW c \in Contents, MovesHead(r, c)
      PROVE  head' \in [Repos -> Contents] /\ ref' \in [Sessions -> Contents \cup {NoRef}]
  BY <1>2 DEF MovesHead, Types
<1>3. ASSUME NEW r, Afresh(r)
      PROVE  /\ tree' \in [Repos -> Contents] /\ head' \in [Repos -> Contents]
             /\ current' \in [Repos -> Sessions \cup {None}]
             /\ ref' \in [Sessions -> Contents \cup {NoRef}]
  BY <1>0, <1>3 DEF Afresh, Types
<1>4. CASE Update(s)
  <2>1. tree' \in [Repos -> Contents] BY <1>0, <1>4, GitFacts DEF Update
  <2>2. MovesHead(RepoOf[s], Clean) BY <1>4 DEF Update
  <2>3. head' \in [Repos -> Contents] /\ ref' \in [Sessions -> Contents \cup {NoRef}]
    BY <1>0, <2>2 DEF MovesHead, Types
  <2> QED BY <1>4, <2>1, <2>3 DEF Update, Types
<1>5. CASE UpdateFails(s)
  <2>1. Afresh(RepoOf[s]) /\ pushed' = pushed BY <1>5 DEF UpdateFails
  <2> QED BY <1>0, <1>3, <2>1 DEF Types
<1>6. CASE Evict(s)
  BY <1>1, <1>3, <1>6 DEF Evict, Types
<1>7. ASSUME NEW op \in Proposes[s], NEW failed \in BOOLEAN, Apply(s, op, failed)
      PROVE  tree' \in [Repos -> Contents] /\ UNCHANGED <<head, current, ref, pushed>>
  <2>1. op \in {"edit f", "edit n", "create n"} BY EngineAssumption
  <2>2. Edited(s, op) \in Contents BY <2>1, EditedFacts
  <2> QED BY <1>7, <2>2 DEF Apply, Types
<1>8. CASE Commit(s)
  <2>1. Committed(s) \in Contents BY GitFacts
  <2>2. MovesHead(RepoOf[s], Committed(s)) /\ UNCHANGED <<tree, current, pushed>>
    BY <1>8 DEF Commit
  <2>3. head' \in [Repos -> Contents] /\ ref' \in [Sessions -> Contents \cup {NoRef}]
    BY <1>0, <2>1, <2>2 DEF MovesHead, Types
  <2> QED BY <2>2, <2>3 DEF Types
<1>9. CASE CreateBranch(s)
  BY <1>0, <1>9 DEF CreateBranch, Types
<1>10. CASE Push(s)
  BY <1>10 DEF Push, Types
<1>11. CASE PushSuffixed(s)
  BY <1>0, <1>11 DEF PushSuffixed, Types
<1>12. CASE \E op \in Proposes[s], failed \in BOOLEAN : Apply(s, op, failed)
  BY <1>7, <1>12 DEF Types
<1> QED
  BY <1>1, <1>4, <1>5, <1>6, <1>8, <1>9, <1>10, <1>11, <1>12 DEF Operation, Step, Start,
     StartFails, Cancel, StopsIfCancelled, EnterClone, Wake, CloneBegins, CloneSucceeds,
     CloneFails, Insert, Read, IterationFails, ApplyNothing, CreateBranchFails, CommitFails,
     gitVars

LEMMA NextTypes ==
  ASSUME Types, NEW s \in Sessions, Operation(s)
  PROVE  Types'
<1>1. /\ stage' \in [Sessions -> Stages] /\ row' \in [Sessions -> Statuses]
      /\ loop' \in [Sessions -> LoopState] /\ \A t \in Sessions : loop'[t] \in LoopOf(t)
      /\ awaits' \in [Sessions -> Sessions \cup {None}]
      /\ cancelled' \subseteq Sessions /\ faults' \in 0 .. MaxFaults
  BY SessionTypes
<1>2. cloneCache' \in Seq(Repos) /\ IsInjective(cloneCache') BY CacheTypes
<1> QED BY <1>1, <1>2, DirTypes, GitTypes DEF Types, LoopOf, Statuses

-----------------------------------------------------------------------------
(* The cache                                                                *)

LEMMA StageOf ==
  ASSUME Types, NEW s \in Sessions, NEW p, Goes(s, p)
  PROVE  \A t \in Sessions : stage'[t] = IF t = s THEN p ELSE stage[t]
  BY DEF Goes, Types

(* Steps that neither change a directory nor an entry.                      *)
LEMMA BuildFrame ==
  ASSUME Types, BuildInv, UNCHANGED <<dir, builder, clash>>,
         ToSet(cloneCache') = ToSet(cloneCache),
         \A t \in Sessions :
           stage'[t] = stage[t] \/ (stage[t] \notin Building /\ stage'[t] \notin Building)
  PROVE  BuildInv'
<1> SUFFICES ASSUME NEW r \in Repos \ clash'
             PROVE  /\ Cached(r)' => dir'[r] = "whole"
                    /\ builder'[r] # None =>
                         RepoOf[builder'[r]] = r /\ stage'[builder'[r]] = "filling"
                    /\ \A s \in Sessions : RepoOf[s] = r /\ stage'[s] \in Building =>
                         /\ ~Cached(r)'
                         /\ IF stage'[s] = "filling" THEN dir'[r] = "partial" /\ builder'[r] = s
                            ELSE dir'[r] = "whole" /\ builder'[r] = None
                         /\ \A t \in Sessions : RepoOf[t] = r /\ stage'[t] \in Building => t = s
  BY DEF BuildInv
<1>1. r \in Repos \ clash OBVIOUS
<1>2. Cached(r)' <=> Cached(r) BY DEF Cached
<1>3. builder[r] \in Sessions \cup {None} BY DEF Types
<1>4. builder'[r] # None => RepoOf[builder'[r]] = r /\ stage'[builder'[r]] = "filling"
  BY <1>1, <1>3 DEF BuildInv, Building
<1>5. Cached(r)' => dir'[r] = "whole" BY <1>1, <1>2 DEF BuildInv
<1>6. \A t \in Sessions : stage'[t] \in Building => stage'[t] = stage[t] OBVIOUS
<1> QED BY <1>1, <1>2, <1>4, <1>5, <1>6 DEF BuildInv

(* The condition of the invariant on one repository.                       *)
Built(r, entries, place, maker, at) ==
  /\ r \in entries => place = "whole"
  /\ maker # None => maker \in Sessions /\ RepoOf[maker] = r /\ at[maker] = "filling"
  /\ \A s \in Sessions : RepoOf[s] = r /\ at[s] \in Building =>
       /\ r \notin entries
       /\ IF at[s] = "filling" THEN place = "partial" /\ maker = s
          ELSE place = "whole" /\ maker = None
       /\ \A t \in Sessions : RepoOf[t] = r /\ at[t] \in Building => t = s

LEMMA BuiltIsInv ==
  ASSUME Types
  PROVE  BuildInv <=> \A r \in Repos \ clash :
           Built(r, ToSet(cloneCache), dir[r], builder[r], stage)
<1>1. \A r \in Repos : builder[r] # None => builder[r] \in Sessions BY DEF Types
<1> QED BY <1>1 DEF BuildInv, Built, Cached

LEMMA BuiltIsNextInv ==
  ASSUME Types',
         \A r \in Repos \ clash' : Built(r, ToSet(cloneCache'), dir'[r], builder'[r], stage')
  PROVE  BuildInv'
<1>1. \A r \in Repos : builder'[r] # None => builder'[r] \in Sessions BY DEF Types
<1> QED BY <1>1 DEF BuildInv, Built, Cached

(* A repository on which nothing happens.                                   *)
LEMMA BuiltFrame ==
  ASSUME NEW r, NEW entries, NEW more, NEW place, NEW maker, NEW at, NEW after,
         Built(r, entries, place, maker, at), r \in entries <=> r \in more,
         \A t \in Sessions : RepoOf[t] = r => after[t] = at[t]
  PROVE  Built(r, more, place, maker, after)
  BY DEF Built

(* Clones and evictions keep what is cached on disk.                        *)
LEMMA NextBuild ==
  ASSUME Types, BuildInv, NEW s \in Sessions, Operation(s), Types'
  PROVE  BuildInv'
<1> DEFINE q == RepoOf[s]
<1>0. q \in Repos /\ \A t \in Sessions : RepoOf[t] \in Repos BY Constants
<1>1. CASE ~(\/ UpdateFails(s) \/ CloneBegins(s) \/ CloneSucceeds(s) \/ CloneFails(s) \/ Evict(s)
             \/ Insert(s))
  <2>1. ToSet(cloneCache') = ToSet(cloneCache) BY <1>1, CacheTypes
  <2>2. UNCHANGED <<dir, builder, clash>>
    BY <1>1 DEF Operation, Step, Start, StartFails, Cancel, StopsIfCancelled, EnterClone, Wake,
       Update, Read, IterationFails, Apply, ApplyNothing, CreateBranch, CreateBranchFails, Commit,
       CommitFails, Push, PushSuffixed, cacheVars
  <2>3. \/ stage' = stage
        \/ stage[s] \notin Building /\ \E p \in Stages \ Building : Goes(s, p)
    <3>1. CASE IterationFails(s) \/ \E failed \in BOOLEAN : ApplyNothing(s, failed)
      BY <3>1, NothingFacts DEF Iterated, Stages, Building
    <3>2. ASSUME NEW op \in Proposes[s], NEW failed \in BOOLEAN, Apply(s, op, failed)
          PROVE  /\ stage[s] \notin Building
                 /\ stage' = stage \/ \E p \in Stages \ Building : Goes(s, p)
      <4>1. /\ stage[s] = "work"
            /\ Iterated(s, loop[s].touched \cup {IF op = "edit f" THEN "f" ELSE "n"})
        BY <3>2, ApplyFacts
      <4> QED BY <4>1 DEF Iterated, Stages, Building
    <3>3. CASE \/ Start(s) \/ StartFails(s) \/ Cancel(s) \/ StopsIfCancelled(s) \/ EnterClone(s)
               \/ Wake(s) \/ Update(s) \/ Read(s)
      BY <3>3 DEF Start, StartFails, Cancel, StopsIfCancelled, EnterClone, Wake, Update, Read,
         Ends, Stages, Building
    <3>4. CASE \/ CreateBranch(s) \/ CreateBranchFails(s) \/ Commit(s) \/ CommitFails(s)
               \/ Push(s) \/ PushSuffixed(s)
      BY <3>4 DEF CreateBranch, CreateBranchFails, Commit, CommitFails, Push, PushSuffixed, Ends,
         Stages, Building
    <3> QED BY <1>1, <3>1, <3>2, <3>3, <3>4 DEF Operation, Step
  <2>4. \A t \in Sessions :
          stage'[t] = stage[t] \/ (stage[t] \notin Building /\ stage'[t] \notin Building)
    BY <2>3, StageOf
  <2> QED BY <2>1, <2>2, <2>4, BuildFrame
<1>2. SUFFICES ASSUME \/ UpdateFails(s) \/ CloneBegins(s) \/ CloneSucceeds(s) \/ CloneFails(s)
                      \/ Evict(s) \/ Insert(s),
                      NEW r \in Repos \ clash'
               PROVE  Built(r, ToSet(cloneCache'), dir'[r], builder'[r], stage')
  BY <1>1, BuiltIsNextInv
<1>3. r \in Repos \ clash
  BY <1>2 DEF UpdateFails, CloneBegins, CloneSucceeds, CloneFails, Evict, Insert
<1>4. Built(r, ToSet(cloneCache), dir[r], builder[r], stage) BY <1>3, BuiltIsInv
<1>5. /\ dir \in [Repos -> {"absent", "partial", "whole"}]
      /\ builder \in [Repos -> Sessions \cup {None}] /\ stage \in [Sessions -> Stages]
      /\ None \notin Sessions
  BY Constants DEF Types
<1>6. ASSUME NEW p, Goes(s, p), dir'[r] = dir[r], builder'[r] = builder[r],
             r \in ToSet(cloneCache) <=> r \in ToSet(cloneCache'), r # q
      PROVE  Built(r, ToSet(cloneCache'), dir'[r], builder'[r], stage')
  <2>1. \A t \in Sessions : RepoOf[t] = r => stage'[t] = stage[t] BY <1>6, StageOf
  <2> QED BY <1>4, <1>6, <2>1 DEF Built
<1>7. CASE UpdateFails(s)
  <2>1. /\ Goes(s, "cloning") /\ dir' = [dir EXCEPT ![q] = "absent"]
        /\ builder' = [builder EXCEPT ![q] = None]
    BY <1>7 DEF UpdateFails
  <2>2. ToSet(cloneCache') = ToSet(cloneCache) \ {q}
    BY <1>0, <1>7, RemoveFirstFacts DEF UpdateFails, Dropped, Types
  <2>3. CASE r # q BY <1>5, <1>6, <2>1, <2>2, <2>3
  <2>4. CASE r = q
    <3>1. \A t \in Others(s) : stage[t] \notin Building
      BY <1>2, <1>7, <2>4 DEF UpdateFails, Building
    <3>2. \A t \in Sessions : RepoOf[t] = q => stage'[t] \notin Building
      BY <1>5, <2>1, <3>1, StageOf DEF Others, Building
    <3> QED BY <1>5, <2>1, <2>2, <2>4, <3>2 DEF Built
  <2> QED BY <2>3, <2>4
<1>8. CASE CloneBegins(s)
  <2>0. cloneCache' = cloneCache /\ stage[s] = "cloning" BY <1>8 DEF CloneBegins
  <2>1. CASE ~(dir[q] = "absent" /\ s \notin cancelled)
    <3>1. Goes(s, "end") /\ dir' = dir /\ builder' = builder BY <1>8, <2>1 DEF CloneBegins, Ends
    <3>2. CASE r # q BY <1>6, <2>0, <3>1, <3>2
    <3>3. CASE r = q
      <4>1. \A t \in Sessions : /\ stage'[t] \in Building => stage'[t] = stage[t]
                                /\ stage[t] = "filling" => stage'[t] = "filling"
        BY <2>0, <3>1, StageOf DEF Building
      <4> QED BY <1>4, <2>0, <3>1, <4>1 DEF Built
    <3> QED BY <3>2, <3>3
  <2>2. CASE dir[q] = "absent" /\ s \notin cancelled
    <3>1. /\ Goes(s, "filling") /\ dir' = [dir EXCEPT ![q] = "partial"]
          /\ builder' = [builder EXCEPT ![q] = s]
      BY <1>8, <2>2 DEF CloneBegins
    <3>2. CASE r # q BY <1>5, <1>6, <2>0, <3>1, <3>2
    <3>3. CASE r = q
      <4>1. q \notin ToSet(cloneCache) BY <1>4, <2>2, <3>3 DEF Built
      <4>2. \A t \in Sessions : RepoOf[t] = q => stage[t] \notin Building
        BY <1>4, <2>2, <3>3 DEF Built
      <4>3. \A t \in Sessions : stage'[t] = IF t = s THEN "filling" ELSE stage[t]
        BY <3>1, StageOf
      <4>4. dir'[q] = "partial" /\ builder'[q] = s BY <1>0, <1>5, <3>1
      <4> QED BY <2>0, <3>3, <4>1, <4>2, <4>3, <4>4 DEF Built
    <3> QED BY <3>2, <3>3
  <2> QED BY <2>1, <2>2
<1>9. CASE CloneSucceeds(s)
  <2>1. /\ stage[s] = "filling" /\ builder[q] = s /\ Goes(s, "cloned") /\ cloneCache' = cloneCache
        /\ dir' = [dir EXCEPT ![q] = "whole"] /\ builder' = [builder EXCEPT ![q] = None]
    BY <1>9 DEF CloneSucceeds
  <2>2. CASE r # q BY <1>5, <1>6, <2>1, <2>2
  <2>3. CASE r = q
    <3>1. dir'[q] = "whole" /\ builder'[q] = None BY <1>0, <1>5, <2>1
    <3>2. \A t \in Sessions : stage'[t] = IF t = s THEN "cloned" ELSE stage[t]
      BY <2>1, StageOf
    <3>3. /\ q \notin ToSet(cloneCache)
          /\ \A t \in Sessions : RepoOf[t] = q /\ stage[t] \in Building => t = s
      BY <1>4, <2>1, <2>3 DEF Built, Building
    <3> QED BY <2>1, <2>3, <3>1, <3>2, <3>3 DEF Built
  <2> QED BY <2>2, <2>3
<1>10. CASE CloneFails(s)
  <2>1. /\ stage[s] = "filling" /\ Goes(s, "end") /\ cloneCache' = cloneCache
        /\ \A x \in Repos : x # q => dir'[x] = dir[x]
        /\ builder' = [builder EXCEPT ![q] = IF builder[q] = s THEN None ELSE builder[q]]
    BY <1>5, <1>10 DEF CloneFails, Ends
  <2>2. CASE r # q BY <1>5, <1>6, <2>1, <2>2
  <2>3. CASE r = q
    <3>1. /\ q \notin ToSet(cloneCache) /\ builder[q] = s
          /\ \A t \in Sessions : RepoOf[t] = q /\ stage[t] \in Building => t = s
      BY <1>4, <2>1, <2>3 DEF Built, Building
    <3>2. builder'[q] = None BY <1>0, <1>5, <2>1, <3>1
    <3>3. \A t \in Sessions : stage'[t] = IF t = s THEN "end" ELSE stage[t]
      BY <2>1, StageOf
    <3>4. \A t \in Sessions : RepoOf[t] = q => stage'[t] \notin Building
      BY <3>1, <3>3 DEF Building
    <3> QED BY <2>1, <2>3, <3>1, <3>2, <3>4 DEF Built
  <2> QED BY <2>2, <2>3
<1>11. CASE Evict(s)
  <2>1. stage[s] = "cloned" /\ Goes(s, "evicted") /\ builder' = builder BY <1>11 DEF Evict
  <2>2. \A t \in Sessions : stage'[t] = IF t = s THEN "evicted" ELSE stage[t]
    BY <2>1, StageOf
  <2>3. ASSUME dir'[r] = dir[r], r \in ToSet(cloneCache) <=> r \in ToSet(cloneCache')
        PROVE  Built(r, ToSet(cloneCache'), dir'[r], builder'[r], stage')
    BY <1>4, <2>1, <2>2, <2>3 DEF Built, Building
  <2>4. CASE Len(cloneCache) < MaxCachedRepos BY <1>11, <2>3, <2>4 DEF Evict
  <2>5. CASE ~(Len(cloneCache) < MaxCachedRepos)
    <3> DEFINE h == Head(cloneCache)
    <3>1. dir' = [dir EXCEPT ![h] = "absent"] BY <1>11, <2>5 DEF Evict
    <3>2. h \in ToSet(cloneCache) /\ ToSet(cloneCache') = ToSet(cloneCache) \ {h}
      <4>1. cloneCache # <<>>
        <5>1. MaxCachedRepos \in Nat \ {0} BY EngineAssumption
        <5>2. Len(cloneCache) # 0 BY <2>5, <5>1, LenProperties DEF Types
        <5> QED BY <5>2, EmptySeq DEF Types
      <4>2. cloneCache' = Tail(cloneCache) BY <1>11, <2>5 DEF Evict
      <4> QED BY <4>1, <4>2, TailFacts DEF Types
    <3> HIDE DEF h
    <3>3. CASE r # h BY <1>5, <2>3, <3>1, <3>2, <3>3
    <3>4. CASE r = h
      <4>1. \A t \in Sessions : RepoOf[t] = r => stage[t] \notin Building
        BY <1>4, <3>2, <3>4 DEF Built
      <4>2. builder[r] = None BY <1>4, <4>1 DEF Built, Building
      <4>3. \A t \in Sessions : RepoOf[t] = r => stage'[t] \notin Building
        BY <2>1, <2>2, <4>1 DEF Building
      <4> QED BY <2>1, <3>2, <3>4, <4>2, <4>3 DEF Built
    <3> QED BY <3>3, <3>4
  <2> QED BY <2>4, <2>5
<1>12. CASE Insert(s)
  <2>1. /\ stage[s] = "evicted" /\ Goes(s, "reading") /\ dir' = dir /\ builder' = builder
        /\ cloneCache' = Touch(cloneCache, q)
    BY <1>12 DEF Insert
  <2>2. ToSet(cloneCache') = ToSet(cloneCache) \cup {q}
    <3>1. cloneCache \in Seq(Repos) /\ IsInjective(cloneCache) BY DEF Types
    <3> HIDE DEF q
    <3> QED BY <1>0, <2>1, <3>1, TouchFacts
  <2>3. CASE r # q BY <1>6, <2>1, <2>2, <2>3
  <2>4. CASE r = q
    <3>1. /\ dir[q] = "whole" /\ builder[q] = None
          /\ \A t \in Sessions : RepoOf[t] = q /\ stage[t] \in Building => t = s
      BY <1>4, <2>1, <2>4 DEF Built, Building
    <3>2. \A t \in Sessions : stage'[t] = IF t = s THEN "reading" ELSE stage[t]
      BY <2>1, StageOf
    <3>3. \A t \in Sessions : RepoOf[t] = q => stage'[t] \notin Building
      BY <3>1, <3>2 DEF Building
    <3> QED BY <2>1, <2>4, <3>1, <3>3 DEF Built
  <2> QED BY <2>3, <2>4
<1> QED BY <1>2, <1>7, <1>8, <1>9, <1>10, <1>11, <1>12

-----------------------------------------------------------------------------
(* The directories                                                          *)

(* To another repository a step does nothing, or it evicts it.              *)
LEMMA Elsewhere ==
  ASSUME Types, DirInv, NEW s \in Sessions, Operation(s), NEW r \in Repos, r # RepoOf[s]
  PROVE  /\ builder'[r] = builder[r] /\ inflight'[r] = inflight[r]
         /\ \/ /\ tree'[r] = tree[r] /\ head'[r] = head[r] /\ current'[r] = current[r]
               /\ dir'[r] = dir[r]
               /\ \A t \in Sessions : RepoOf[t] = r => ref'[t] = ref[t]
            \/ /\ dir'[r] = "absent" /\ tree'[r] = Clean /\ head'[r] = Clean
               /\ current'[r] = None
<1> DEFINE q == RepoOf[s]
<1>0. /\ q \in Repos
      /\ current[q] # None => RepoOf[current[q]] = q
  BY Constants DEF DirInv
<1>t. /\ stage \in [Sessions -> Stages] /\ inflight \in [Repos -> Sessions \cup {None}]
      /\ dir \in [Repos -> {"absent", "partial", "whole"}]
      /\ builder \in [Repos -> Sessions \cup {None}]
      /\ tree \in [Repos -> Contents] /\ head \in [Repos -> Contents]
      /\ current \in [Repos -> Sessions \cup {None}]
      /\ ref \in [Sessions -> Contents \cup {NoRef}]
  BY DEF Types
<1>1. CASE UNCHANGED <<inflight, dir, builder, tree, head, current, ref>> BY <1>1
<1>2. ASSUME NEW c, MovesHead(q, c)
      PROVE  head'[r] = head[r] /\ \A t \in Sessions : RepoOf[t] = r => ref'[t] = ref[t]
  <2>1. head'[r] = head[r] BY <1>t, <1>2 DEF MovesHead
  <2>2. ref' = ref \/ (current[q] # None /\ ref' = [ref EXCEPT ![current[q]] = c])
    BY <1>2 DEF MovesHead
  <2>3. \A t \in Sessions : RepoOf[t] = r => ref'[t] = ref[t]
    <3> SUFFICES ASSUME NEW t \in Sessions, RepoOf[t] = r PROVE ref'[t] = ref[t] OBVIOUS
    <3>1. current[q] # None => current[q] # t BY <1>0
    <3> QED BY <1>t, <2>2, <3>1
  <2> QED BY <2>1, <2>3
<1>3. CASE EnterClone(s) BY <1>t, <1>3 DEF EnterClone
<1>4. CASE Update(s)
  <2>1. MovesHead(q, Clean) /\ UNCHANGED <<inflight, dir, builder, current>> BY <1>4 DEF Update
  <2>2. tree'[r] = tree[r] BY <1>t, <1>4 DEF Update, Reset
  <2> QED BY <1>2, <2>1, <2>2
<1>5. CASE UpdateFails(s) BY <1>t, <1>5 DEF UpdateFails, Afresh
<1>6. CASE CloneBegins(s) BY <1>t, <1>6 DEF CloneBegins, Release, gitVars
<1>7. CASE CloneSucceeds(s) BY <1>t, <1>7 DEF CloneSucceeds, gitVars
<1>8. CASE CloneFails(s) BY <1>t, <1>8 DEF CloneFails, Release, gitVars
<1>9. CASE Evict(s) BY <1>t, <1>9 DEF Evict, Afresh
<1>10. CASE Insert(s) BY <1>t, <1>10 DEF Insert, Release, gitVars
<1>11. CASE \E op \in Proposes[s], failed \in BOOLEAN : Apply(s, op, failed)
  BY <1>t, <1>11 DEF Apply, cacheVars
<1>12. CASE CreateBranch(s) BY <1>t, <1>12 DEF CreateBranch, cacheVars
<1>13. CASE Commit(s)
  <2>1. MovesHead(q, Committed(s)) /\ UNCHANGED <<inflight, dir, builder, current, tree>>
    BY <1>13 DEF Commit, cacheVars
  <2> QED BY <1>2, <2>1
<1>14. CASE Push(s) BY <1>14 DEF Push, cacheVars
<1>15. CASE PushSuffixed(s) BY <1>t, <1>15 DEF PushSuffixed, cacheVars
<1>16. CASE \/ Start(s) \/ StartFails(s) \/ Cancel(s) \/ StopsIfCancelled(s) \/ Wake(s)
            \/ Read(s) \/ IterationFails(s) \/ CreateBranchFails(s) \/ CommitFails(s)
            \/ \E failed \in BOOLEAN : ApplyNothing(s, failed)
  BY <1>1, <1>16 DEF Start, StartFails, Cancel, StopsIfCancelled, Wake, Read, IterationFails,
     CreateBranchFails, CommitFails, ApplyNothing, cacheVars, gitVars
<1> QED
  BY <1>3, <1>4, <1>5, <1>6, <1>7, <1>8, <1>9, <1>10, <1>11, <1>12, <1>13, <1>14, <1>15, <1>16
  DEF Operation, Step

(* Where a step of its own session takes the stage.                         *)
LEMMA Moves ==
  ASSUME Types, NEW s \in Sessions, Operation(s)
  PROVE  /\ \A t \in Sessions \ {s} : stage'[t] = stage[t]
         /\ \/ stage'[s] = stage[s]
            \/ stage'[s] = "end"
            \/ /\ stage[s] = "new" /\ stage'[s] = "started"
            \/ /\ stage[s] = "started" /\ EnterClone(s)
               /\ stage'[s] \in {"waiting", "updating", "cloning"}
            \/ /\ stage[s] = "waiting" /\ Wake(s) /\ stage'[s] = "reading"
            \/ /\ stage[s] = "updating" /\ Update(s) /\ stage'[s] = "reading"
            \/ /\ stage[s] = "updating" /\ UpdateFails(s) /\ stage'[s] = "cloning"
            \/ /\ stage[s] = "cloning" /\ CloneBegins(s) /\ stage'[s] = "filling"
            \/ /\ stage[s] = "filling" /\ CloneSucceeds(s) /\ stage'[s] = "cloned"
            \/ /\ stage[s] = "cloned" /\ Evict(s) /\ stage'[s] = "evicted"
            \/ /\ stage[s] = "evicted" /\ Insert(s) /\ stage'[s] = "reading"
            \/ /\ stage[s] = "reading" /\ Read(s) /\ stage'[s] = "work"
            \/ /\ stage[s] = "work" /\ stage'[s] = "branch"
            \/ /\ stage[s] = "branch" /\ CreateBranch(s) /\ stage'[s] = "commit"
            \/ /\ stage[s] = "commit" /\ Commit(s) /\ stage'[s] = "push"
<1>1. ASSUME NEW p, Goes(s, p)
      PROVE  stage'[s] = p /\ \A t \in Sessions \ {s} : stage'[t] = stage[t]
  BY <1>1, StageOf
<1>2. ASSUME NEW touched, Iterated(s, touched)
      PROVE  /\ \A t \in Sessions \ {s} : stage'[t] = stage[t]
             /\ stage'[s] \in {stage[s], "branch", "end"}
  BY <1>1, <1>2 DEF Iterated
<1>3. CASE IterationFails(s) \/ \E failed \in BOOLEAN : ApplyNothing(s, failed)
  <2>1. stage[s] = "work" /\ Iterated(s, loop[s].touched) BY <1>3, NothingFacts
  <2> QED BY <1>2, <2>1
<1>4. CASE \E op \in Proposes[s], failed \in BOOLEAN : Apply(s, op, failed)
  <2>1. PICK op \in Proposes[s], failed \in BOOLEAN : Apply(s, op, failed) BY <1>4
  <2>2. /\ stage[s] = "work"
        /\ Iterated(s, loop[s].touched \cup {IF op = "edit f" THEN "f" ELSE "n"})
    BY <2>1, ApplyFacts
  <2> QED BY <1>2, <2>2
<1>5. CASE Cancel(s) BY <1>5 DEF Cancel
<1>6. CASE Start(s) \/ StartFails(s) \/ StopsIfCancelled(s)
  BY <1>1, <1>6 DEF Start, StartFails, StopsIfCancelled, Ends
<1>7. CASE EnterClone(s) \/ Wake(s) \/ Update(s) \/ UpdateFails(s)
  BY <1>1, <1>7 DEF EnterClone, Wake, Update, UpdateFails, Ends
<1>8. CASE CloneBegins(s) \/ CloneSucceeds(s) \/ CloneFails(s) \/ Evict(s) \/ Insert(s)
  BY <1>1, <1>8 DEF CloneBegins, CloneSucceeds, CloneFails, Evict, Insert, Ends
<1>9. CASE \/ Read(s) \/ CreateBranch(s) \/ CreateBranchFails(s) \/ Commit(s) \/ CommitFails(s)
           \/ Push(s) \/ PushSuffixed(s)
  BY <1>1, <1>9 DEF Read, CreateBranch, CreateBranchFails, Commit, CommitFails, Push, PushSuffixed,
     Ends
<1> QED BY <1>3, <1>4, <1>5, <1>6, <1>7, <1>8, <1>9 DEF Operation, Step

(* The channel of a clone in flight belongs to a session that clones.       *)
LEMMA NextInflight ==
  ASSUME Types, DirInv, NEW s \in Sessions, Operation(s), Types', NEW r \in Repos,
         inflight'[r] # None
  PROVE  RepoOf[inflight'[r]] = r /\ stage'[inflight'[r]] \in Building \cup {"cloning"}
<1> DEFINE q == RepoOf[s]
           Cloning == Building \cup {"cloning"}
<1>0. q \in Repos /\ inflight \in [Repos -> Sessions \cup {None}] BY Constants DEF Types
<1>1. /\ inflight[r] # None => RepoOf[inflight[r]] = r /\ stage[inflight[r]] \in Cloning
      /\ inflight[r] \in Sessions \cup {None}
  BY <1>0 DEF DirInv
<1>2. \/ inflight' = inflight
      \/ inflight' = [inflight EXCEPT ![q] = None]
      \/ inflight' = [inflight EXCEPT ![q] = s] /\ stage'[s] = "cloning"
  <2>1. CASE EnterClone(s)
    BY <2>1, StageOf DEF EnterClone
  <2>2. CASE UpdateFails(s)
    BY <2>2, StageOf DEF UpdateFails
  <2> QED
    BY <2>1, <2>2 DEF Operation, Step, Start, StartFails, Cancel, StopsIfCancelled, Wake,
       Update, CloneBegins, CloneSucceeds, CloneFails, Evict, Insert, Read, IterationFails, Apply,
       ApplyNothing, CreateBranch, CreateBranchFails, Commit, CommitFails, Push, PushSuffixed,
       Release, cacheVars
<1>3. \/ stage[s] \notin Cloning \/ stage'[s] \in Cloning
      \/ inflight' = [inflight EXCEPT ![q] = None]
  <2>1. CASE stage'[s] = "end" /\ stage[s] \in Cloning
    <3>1. \A p : Goes(s, p) => p = "end" BY <2>1, StageOf
    <3> HIDE DEF Cloning
    <3>2. stage[s] \in {"cloning", "filling", "cloned", "evicted"}
      BY <2>1 DEF Cloning, Building
    <3>3. CASE CloneBegins(s) BY <3>1, <3>3 DEF CloneBegins, Release
    <3>4. CASE CloneFails(s) BY <3>4 DEF CloneFails, Release
    <3>5. CASE Evict(s) \/ Insert(s) \/ CloneSucceeds(s)
      BY <3>1, <3>5 DEF Evict, Insert, CloneSucceeds
    <3>6. CASE Cancel(s) BY <2>1, <3>2, <3>6 DEF Cancel
    <3> QED
      BY <3>2, <3>3, <3>4, <3>5, <3>6 DEF Operation, Step, Start, StartFails, StopsIfCancelled,
         EnterClone, Wake, Update, UpdateFails, Read, IterationFails, Apply, ApplyNothing,
         CreateBranch, CreateBranchFails, Commit, CommitFails, Push, PushSuffixed
  <2>2. CASE Insert(s) BY <2>2 DEF Insert, Release
  <2> QED BY <2>1, <2>2, Moves DEF Building
<1>4. \A t \in Sessions \ {s} : stage'[t] = stage[t] BY Moves
<1>5. CASE inflight'[r] = inflight[r]
  <2>1. inflight[r] # s => stage'[inflight[r]] = stage[inflight[r]] BY <1>1, <1>4, <1>5
  <2>2. inflight[r] = s => stage'[s] \in Cloning BY <1>0, <1>1, <1>3, <1>5
  <2> QED BY <1>1, <1>5, <2>1, <2>2
<1>6. CASE inflight'[r] # inflight[r]
  <2>1. r = q /\ inflight'[r] = s /\ stage'[s] = "cloning" BY <1>0, <1>2, <1>6
  <2> QED BY <2>1
<1> QED BY <1>5, <1>6

(* Only a whole clone has edits, branches and commits.                      *)
LEMMA NextDir ==
  ASSUME Types, DirInv, NEW s \in Sessions, Operation(s), Types'
  PROVE  DirInv'
<1> DEFINE q == RepoOf[s]
<1>0. q \in Repos BY Constants
<1>1. SUFFICES ASSUME NEW r \in Repos
               PROVE  /\ dir'[r] # "whole" => tree'[r] = Clean /\ head'[r] = Clean
                      /\ builder'[r] # None => dir'[r] # "whole"
                      /\ current'[r] # None => RepoOf[current'[r]] = r
  BY NextInflight DEF DirInv
<1>2. /\ dir[r] # "whole" => tree[r] = Clean /\ head[r] = Clean
      /\ builder[r] # None => dir[r] # "whole"
      /\ current[r] # None => RepoOf[current[r]] = r
  BY DEF DirInv
<1>3. CASE r # q BY <1>2, <1>3, Elsewhere
<1>4. CASE r = q
  <2>t. /\ dir \in [Repos -> {"absent", "partial", "whole"}]
        /\ builder \in [Repos -> Sessions \cup {None}]
        /\ tree \in [Repos -> Contents] /\ head \in [Repos -> Contents]
        /\ current \in [Repos -> Sessions \cup {None}] /\ None \notin Sessions
    BY Constants DEF Types
  <2>1. CASE UNCHANGED <<dir, builder, tree, head, current>> BY <1>2, <2>1
  <2>2. CASE dir[r] = "whole" /\ UNCHANGED <<dir, builder, current>> BY <1>2, <2>2
  <2>3. CASE UpdateFails(s) BY <1>4, <2>t, <2>3 DEF UpdateFails, Afresh
  <2>4. CASE CloneBegins(s)
    BY <1>2, <1>4, <2>t, <2>4 DEF CloneBegins, gitVars
  <2>5. CASE CloneSucceeds(s) BY <1>2, <1>4, <2>t, <2>5 DEF CloneSucceeds, gitVars
  <2>6. CASE CloneFails(s) BY <1>2, <1>4, <2>t, <2>6 DEF CloneFails, gitVars
  <2>7. CASE Evict(s)
    <3> DEFINE h == Head(cloneCache)
    <3>1. \/ UNCHANGED <<dir, tree, head, current>>
          \/ /\ dir' = [dir EXCEPT ![h] = "absent"] /\ tree' = [tree EXCEPT ![h] = Clean]
             /\ head' = [head EXCEPT ![h] = Clean] /\ current' = [current EXCEPT ![h] = None]
      BY <2>7 DEF Evict, Afresh
    <3>2. builder' = builder BY <2>7 DEF Evict
    <3> HIDE DEF h
    <3> QED BY <1>2, <2>t, <3>1, <3>2
  <2>8. CASE CreateBranch(s) \/ PushSuffixed(s)
    <3>1. /\ current' = [current EXCEPT ![q] = s] /\ UNCHANGED <<dir, builder, tree, head>>
      BY <2>8 DEF CreateBranch, PushSuffixed, cacheVars
    <3> QED BY <1>2, <1>4, <2>t, <3>1
  <2>9. CASE Update(s) \/ Commit(s)
    BY <1>4, <2>2, <2>9 DEF Update, Commit, cacheVars
  <2>10. CASE \E op \in Proposes[s], failed \in BOOLEAN : Apply(s, op, failed)
    BY <1>4, <2>2, <2>10 DEF Apply, cacheVars
  <2> QED
    BY <2>1, <2>3, <2>4, <2>5, <2>6, <2>7, <2>8, <2>9, <2>10 DEF Operation, Step, Start,
       StartFails, Cancel, StopsIfCancelled, EnterClone, Wake, Insert, Read, IterationFails,
       ApplyNothing, CreateBranchFails, CommitFails, Push, cacheVars, gitVars
<1> QED BY <1>3, <1>4

-----------------------------------------------------------------------------
(* The sessions that are alone                                              *)

(* What a step leaves alone of the loops, the branches at the remote and    *)
(* the sessions that met another one.                                       *)
LEMMA Steps ==
  ASSUME Types, NEW s \in Sessions, Operation(s)
  PROVE  /\ \A t \in Sessions \ {s} : loop'[t] = loop[t] /\ pushed'[t] = pushed[t]
         /\ stage[s] # "work" /\ stage'[s] # "end" => loop'[s] = loop[s]
         /\ pushed' = pushed \/ Push(s) \/ PushSuffixed(s)
         /\ met \subseteq met'
<1>t. loop \in [Sessions -> LoopState] /\ pushed \in [Sessions -> Contents \cup {NoRef}]
  BY DEF Types
<1>1. met \subseteq met' /\ (pushed' = pushed \/ Push(s) \/ PushSuffixed(s))
  BY DEF Operation, Step, Start, StartFails, Cancel, StopsIfCancelled, EnterClone, Wake,
     Update, UpdateFails, CloneBegins, CloneSucceeds, CloneFails, Evict, Insert, Read,
     IterationFails, Apply, ApplyNothing, CreateBranch, CreateBranchFails, Commit, CommitFails,
     Push, PushSuffixed, gitVars
<1>2. \A t \in Sessions \ {s} : pushed'[t] = pushed[t]
  BY <1>t, <1>1 DEF Push, PushSuffixed
<1>3. ASSUME NEW v, Ends(s, v)
      PROVE  stage'[s] = "end" /\ \A t \in Sessions \ {s} : loop'[t] = loop[t]
  BY <1>t, <1>3, StageOf DEF Ends
<1>4. /\ \A t \in Sessions \ {s} : loop'[t] = loop[t]
      /\ stage[s] # "work" /\ stage'[s] # "end" => loop'[s] = loop[s]
  <2>1. CASE loop' = loop BY <2>1
  <2>2. CASE IterationFails(s) \/ \E failed \in BOOLEAN : ApplyNothing(s, failed)
    BY <2>2, NothingFacts DEF Iterated
  <2>3. ASSUME NEW op \in Proposes[s], NEW failed \in BOOLEAN, Apply(s, op, failed)
        PROVE  stage[s] = "work" /\ \A t \in Sessions \ {s} : loop'[t] = loop[t]
    <3>1. /\ stage[s] = "work"
          /\ Iterated(s, loop[s].touched \cup {IF op = "edit f" THEN "f" ELSE "n"})
      BY <2>3, ApplyFacts
    <3> QED BY <3>1 DEF Iterated
  <2>4. CASE StopsIfCancelled(s) BY <1>t, <2>4, StageOf DEF StopsIfCancelled
  <2> QED
    BY <1>3, <2>1, <2>2, <2>3, <2>4 DEF Operation, Step, Start, StartFails, Cancel, EnterClone,
       Wake, Update, UpdateFails, CloneBegins, CloneSucceeds, CloneFails, Evict, Insert, Read,
       CreateBranch, CreateBranchFails, Commit, CommitFails, Push, PushSuffixed
<1> QED BY <1>1, <1>2, <1>4

(* A session that enters CloneRepo meets those that are in it or after it.  *)
LEMMA EnterMeets ==
  ASSUME Types, DirInv, NEW a \in Sessions, EnterClone(a)
  PROVE  /\ \A t \in Sessions \ {a} :
              RepoOf[t] = RepoOf[a] /\ stage[t] \in Inside => {t, a} \subseteq met'
         /\ stage'[a] = "waiting" => a \in met'
<1> DEFINE r == RepoOf[a]
<1>1. \A t \in Sessions \ {a} : RepoOf[t] = r /\ stage[t] \in Inside => t \in Others(a)
  BY DEF Others, Inside
<1>2. Others(a) # {} => met' = met \cup Others(a) \cup {a} BY DEF EnterClone
<1>3. ASSUME stage'[a] = "waiting" PROVE a \in met'
  <2>1. inflight[r] # None
    BY <1>3, StageOf DEF EnterClone
  <2>2. /\ inflight[r] \in Sessions /\ RepoOf[inflight[r]] = r
        /\ stage[inflight[r]] \in Building \cup {"cloning"}
    BY <2>1, Constants DEF Types, DirInv
  <2>3. stage[inflight[r]] \in Inside /\ inflight[r] # a
    BY <2>2 DEF Inside, Stages, Building, EnterClone
  <2> QED BY <1>1, <1>2, <2>2, <2>3
<1> QED BY <1>1, <1>2, <1>3

(* A session that is alone stays so in a step of another one.               *)
LEMMA AloneFrame ==
  ASSUME Types, DirInv, NEW a \in Sessions, Operation(a), NEW s \in Sessions \ {a},
         stage[s] \in Inside, Alone(s), s \notin met'
  PROVE  Alone(s)'
<1> DEFINE r == RepoOf[s]
<1>0. r \in Repos BY Constants
<1>1. stage'[s] = stage[s] /\ loop'[s] = loop[s] BY Moves, Steps
<1>2. RepoOf[a] = r => stage[a] \notin Inside /\ stage'[a] \notin Inside
  <2> SUFFICES ASSUME RepoOf[a] = r
               PROVE  stage[a] \notin Inside /\ stage'[a] \notin Inside
    OBVIOUS
  <2>1. stage[a] \notin Inside BY DEF Alone
  <2>2. ~EnterClone(a) BY EnterMeets
  <2> QED BY <2>1, <2>2, Moves DEF Inside, Stages, Types
<1>3. \A t \in Sessions \ {s} : RepoOf[t] = r => stage'[t] \notin Inside
  BY <1>2, Moves DEF Alone
<1>4. \/ /\ tree'[r] = tree[r] /\ head'[r] = head[r] /\ current'[r] = current[r]
         /\ dir'[r] = dir[r] /\ ref'[s] = ref[s]
      \/ dir'[r] = "absent" /\ tree'[r] = Clean /\ head'[r] = Clean
  <2>1. CASE RepoOf[a] # r
    BY <1>0, <2>1, Elsewhere
  <2>2. CASE RepoOf[a] = r
    <3>1. stage[a] \in {"new", "started", "end"} BY <1>2, <2>2 DEF Inside, Types
    <3>2. ~EnterClone(a) BY <2>2, EnterMeets
    <3>3. UNCHANGED <<tree, head, current, dir, ref>>
      BY <3>1, <3>2 DEF Operation, Step, Start, StartFails, Cancel, StopsIfCancelled, Wake,
         Update, UpdateFails, CloneBegins, CloneSucceeds, CloneFails, Evict, Insert, Read,
         IterationFails, Apply, ApplyNothing, CreateBranch, CreateBranchFails, Commit, CommitFails,
         Push, PushSuffixed, cacheVars, gitVars
    <3> QED BY <3>3
  <2> QED BY <2>1, <2>2
<1>5. Clean["f"] = {} BY DEF Clean, Files
<1> QED BY <1>1, <1>3, <1>4, <1>5 DEF Alone

(* What a session commits when it is alone is its own work.                 *)
LEMMA CommitsOwn ==
  ASSUME Types, NEW s \in Sessions, stage[s] = "commit", Alone(s), Commit(s)
  PROVE  Own(s, ref'[s]) /\ Own(s, head'[RepoOf[s]])
<1> DEFINE r == RepoOf[s]
           c == Committed(s)
<1>0. r \in Repos /\ c \in Contents /\ loop[s].touched \subseteq Files
  BY Constants, GitFacts DEF Types, LoopOf
<1>1. dir[r] = "whole" /\ c # head[r] /\ MovesHead(r, c) BY DEF Commit
<1>2. /\ tree[r]["f"] \subseteq {s} /\ head[r] = Clean /\ current[r] = s
      /\ \A x \in loop[s].touched : s \in tree[r][x]
  BY <1>1 DEF Alone
<1>3. \A x \in Files : c[x] = IF x \in loop[s].touched THEN tree[r][x] ELSE head[r][x]
  BY DEF Committed
<1>4. \A x \in Files : head[r][x] = {} BY <1>2 DEF Clean
<1>5. PICK x \in Files : c[x] # head[r][x]
  BY <1>0, <1>1 DEF Contents, Types
<1>6. s \in c[x] BY <1>2, <1>3, <1>5
<1>7. c["f"] \subseteq {s} BY <1>2, <1>3, <1>4 DEF Files
<1>8. Own(s, c) BY <1>6, <1>7 DEF Own, Files
<1>9. head'[r] = c /\ ref'[s] = c
  <2>1. head' = [head EXCEPT ![r] = c] BY <1>1 DEF MovesHead
  <2>2. ref' = [ref EXCEPT ![s] = c] BY <1>1, <1>2, Constants DEF MovesHead
  <2> HIDE DEF c, r
  <2> QED BY <1>0, <2>1, <2>2 DEF Types
<1> QED BY <1>8, <1>9

(* The loop of a session that is alone puts its edits where it says.        *)
LEMMA LoopOwn ==
  ASSUME Types, NEW s \in Sessions, stage[s] = "work", Alone(s), Operation(s), ~Cancel(s)
  PROVE  LET r == RepoOf[s] IN
         /\ tree'[r]["f"] \subseteq {s} /\ head'[r] = head[r] /\ dir'[r] = dir[r]
         /\ dir'[r] = "whole" => \A x \in loop'[s].touched : s \in tree'[r][x]
<1> DEFINE r == RepoOf[s]
<1>0. r \in Repos /\ loop[s].touched \subseteq Files BY Constants DEF Types, LoopOf
<1>1. /\ tree[r]["f"] \subseteq {s}
      /\ dir[r] = "whole" => \A x \in loop[s].touched : s \in tree[r][x]
  BY DEF Alone
<1>2. CASE IterationFails(s) \/ \E failed \in BOOLEAN : ApplyNothing(s, failed)
  <2>1. loop'[s].touched = loop[s].touched BY <1>2, NothingFacts DEF Iterated
  <2>2. UNCHANGED <<tree, head, dir>>
    BY <1>2 DEF IterationFails, ApplyNothing, cacheVars, gitVars
  <2> QED BY <1>1, <2>1, <2>2
<1>3. ASSUME NEW op \in Proposes[s], NEW failed \in BOOLEAN, Apply(s, op, failed)
      PROVE  /\ tree'[r]["f"] \subseteq {s} /\ head'[r] = head[r] /\ dir'[r] = dir[r]
             /\ dir'[r] = "whole" => \A x \in loop'[s].touched : s \in tree'[r][x]
  <2> DEFINE file == IF op = "edit f" THEN "f" ELSE "n"
             c == Edited(s, op)
  <2>1. loop'[s].touched = loop[s].touched \cup {file} /\ dir[r] = "whole"
    <3>1. Iterated(s, loop[s].touched \cup {file}) /\ dir[r] = "whole" BY <1>3, ApplyFacts
    <3> QED BY <3>1 DEF Iterated
  <2>2. op \in {"edit f", "edit n", "create n"} BY EngineAssumption
  <2>3. /\ s \in c[file] /\ \A y \in Files : y # file => c[y] = tree[r][y]
        /\ c["f"] \subseteq tree[r]["f"] \cup {s}
    BY <2>2, EditedFacts
  <2>4. UNCHANGED <<head, dir>> /\ tree' = [tree EXCEPT ![r] = c] BY <1>3 DEF Apply, cacheVars
  <2> HIDE DEF c, r, file
  <2>5. tree'[r] = c BY <1>0, <2>4 DEF Types
  <2> QED BY <1>0, <1>1, <2>1, <2>3, <2>4, <2>5
<1> QED
  BY <1>2, <1>3 DEF Operation, Step, Start, StartFails, StopsIfCancelled, EnterClone, Wake,
     Update, UpdateFails, CloneBegins, CloneSucceeds, CloneFails, Evict, Insert, Read,
     CreateBranch, CreateBranchFails, Commit, CommitFails, Push, PushSuffixed

(* A session that is alone stays so in a step of its own.                   *)
LEMMA AloneStep ==
  ASSUME Types, DirInv, OwnInv, NEW s \in Sessions, Operation(s), s \notin met',
         stage'[s] \in Inside
  PROVE  Alone(s)'
<1> DEFINE r == RepoOf[s]
<1>0. r \in Repos /\ s \notin met BY Constants, Steps
<1>t. /\ dir \in [Repos -> {"absent", "partial", "whole"}]
      /\ builder \in [Repos -> Sessions \cup {None}]
      /\ tree \in [Repos -> Contents] /\ head \in [Repos -> Contents]
      /\ current \in [Repos -> Sessions \cup {None}]
      /\ ref \in [Sessions -> Contents \cup {NoRef}] /\ None \notin Sessions
  BY Constants DEF Types
<1>c. Clean["f"] = {} BY DEF Clean, Files
<1>1. stage[s] \in Inside => Alone(s) BY <1>0 DEF OwnInv
<1>2. stage'[s] # "end" /\ stage'[s] # "started" BY DEF Inside
<1>3. stage[s] \in Inside \/ EnterClone(s) BY <1>2, Moves DEF Inside, Types
<1>4. \A t \in Sessions \ {s} : RepoOf[t] = r => stage'[t] \notin Inside
  <2>1. \A t \in Sessions \ {s} : RepoOf[t] = r => stage[t] \notin Inside
    <3>1. CASE stage[s] \in Inside BY <1>1, <3>1 DEF Alone
    <3>2. CASE EnterClone(s) BY <3>2, EnterMeets
    <3> QED BY <1>3, <3>1, <3>2
  <2> QED BY <2>1, Moves
<1>5. CASE EnterClone(s)
  <2>1. stage'[s] \in {"updating", "cloning"}
    <3>1. stage'[s] # "waiting" BY <1>5, EnterMeets
    <3> QED BY <1>5, <3>1, StageOf DEF EnterClone
  <2> QED BY <1>4, <2>1 DEF Alone
<1>6. CASE Cancel(s)
  BY <1>1, <1>4, <1>6, <1>3 DEF Cancel, EnterClone, Alone, cacheVars, gitVars
<1>7. CASE stage[s] = "work" /\ ~Cancel(s)
  <2>1. Alone(s) BY <1>1, <1>7 DEF Inside, Stages
  <2>2. stage'[s] \in {"work", "branch"} BY <1>2, <1>7, Moves
  <2>3. /\ tree'[r]["f"] \subseteq {s} /\ head'[r] = Clean
        /\ dir'[r] = "whole" => \A x \in loop'[s].touched : s \in tree'[r][x]
    BY <1>7, <2>1, LoopOwn DEF Alone
  <2> QED BY <1>4, <2>2, <2>3 DEF Alone
<1>8. CASE stage[s] \in Inside \ {"work"} /\ ~Cancel(s) /\ stage'[s] # stage[s]
  <2>0. Alone(s) /\ loop'[s] = loop[s] BY <1>1, <1>2, <1>8, Steps
  <2>1. stage[s] # "waiting" BY <2>0 DEF Alone
  <2>2. CASE stage'[s] \in {"cloning", "filling"} BY <1>4, <2>2 DEF Alone
  <2>3. CASE Update(s)
    <3>1. stage'[s] = "reading" BY <2>3, StageOf DEF Update
    <3>2. tree'[r]["f"] = {} /\ head'[r] = Clean
      <4>1. tree' = Reset(r) /\ head' = [head EXCEPT ![r] = Clean]
        BY <2>3 DEF Update, MovesHead
      <4> QED BY <1>0, <1>t, <4>1 DEF Reset
    <3> QED BY <1>4, <3>1, <3>2 DEF Alone
  <2>4. CASE CloneSucceeds(s)
    <3>1. stage'[s] = "cloned" BY <2>4, StageOf DEF CloneSucceeds
    <3>2. dir[r] # "whole" BY <1>0, <1>t, <2>4 DEF CloneSucceeds, DirInv
    <3>3. tree[r] = Clean /\ head[r] = Clean BY <1>0, <3>2 DEF DirInv
    <3>4. UNCHANGED <<tree, head>> BY <2>4 DEF CloneSucceeds, gitVars
    <3> QED BY <1>4, <1>c, <3>1, <3>3, <3>4 DEF Alone
  <2>5. CASE Evict(s)
    <3>1. stage'[s] = "evicted" /\ stage[s] = "cloned" BY <2>5, StageOf DEF Evict
    <3>2. tree[r]["f"] = {} /\ head[r] = Clean BY <2>0, <3>1 DEF Alone
    <3>3. tree'[r] \in {tree[r], Clean} /\ head'[r] \in {head[r], Clean}
      <4> DEFINE h == Head(cloneCache)
      <4>1. \/ UNCHANGED <<tree, head>>
            \/ tree' = [tree EXCEPT ![h] = Clean] /\ head' = [head EXCEPT ![h] = Clean]
        BY <2>5 DEF Evict, Afresh
      <4> HIDE DEF h
      <4> QED BY <1>0, <1>t, <4>1
    <3> QED BY <1>4, <1>c, <3>1, <3>2, <3>3 DEF Alone
  <2>6. CASE Insert(s)
    <3>1. stage'[s] = "reading" /\ stage[s] = "evicted" /\ UNCHANGED <<tree, head>>
      BY <2>6, StageOf DEF Insert, gitVars
    <3> QED BY <1>4, <2>0, <3>1 DEF Alone
  <2>7. CASE Read(s) /\ stage'[s] = "work"
    <3>1. stage[s] = "reading" /\ UNCHANGED <<tree, head>> BY <2>7 DEF Read, gitVars
    <3>2. loop[s].touched = {} BY <3>1 DEF OwnInv
    <3> QED BY <1>4, <2>0, <2>7, <3>1, <3>2 DEF Alone
  <2>8. CASE CreateBranch(s)
    <3>1. /\ stage'[s] = "commit" /\ stage[s] = "branch" /\ UNCHANGED <<tree, head, dir>>
          /\ current' = [current EXCEPT ![r] = s]
      BY <2>8, StageOf DEF CreateBranch, cacheVars
    <3>2. current'[r] = s BY <1>0, <1>t, <3>1
    <3> QED BY <1>4, <2>0, <3>1, <3>2 DEF Alone
  <2>9. CASE Commit(s)
    <3>1. stage'[s] = "push" /\ stage[s] = "commit" BY <2>9, StageOf DEF Commit
    <3>2. Own(s, ref'[s]) /\ Own(s, head'[r]) BY <2>0, <2>9, <3>1, CommitsOwn
    <3> QED BY <1>4, <3>1, <3>2 DEF Alone
  <2> QED
    BY <1>2, <1>8, <2>1, <2>2, <2>3, <2>4, <2>5, <2>6, <2>7, <2>8, <2>9, Moves DEF Inside
<1>9. CASE stage[s] \in Inside \ {"work"} /\ ~Cancel(s) /\ stage'[s] = stage[s]
  <2>1. \A p : Goes(s, p) => p = stage[s] BY <1>9, StageOf
  <2>2. FALSE
    BY <1>9, <2>1 DEF Operation, Step, Start, StartFails, StopsIfCancelled, EnterClone, Wake,
       Update, UpdateFails, CloneBegins, CloneSucceeds, CloneFails, Evict, Insert, Read,
       IterationFails, Apply, ApplyNothing, CreateBranch, CreateBranchFails, Commit, CommitFails,
       Push, PushSuffixed, Ends, Inside, Stages
  <2> QED BY <2>2
<1> QED BY <1>3, <1>5, <1>6, <1>7, <1>8, <1>9

LEMMA NextOwn ==
  ASSUME Types, DirInv, OwnInv, NEW a \in Sessions, Operation(a), Types'
  PROVE  OwnInv'
<1> SUFFICES ASSUME NEW s \in Sessions
             PROVE  /\ stage'[s] \notin {"work", "branch", "commit", "push", "end"} =>
                         loop'[s].touched = {}
                    /\ s \notin met' => /\ stage'[s] \in Inside => Alone(s)'
                                        /\ pushed'[s] # NoRef => Own(s, pushed'[s])
  BY DEF OwnInv
<1>1. stage'[s] \notin {"work", "branch", "commit", "push", "end"} => loop'[s].touched = {}
  <2>1. CASE s # a BY <2>1, Moves, Steps DEF OwnInv
  <2>2. CASE s = a
    <3> SUFFICES ASSUME stage'[s] \notin {"work", "branch", "commit", "push", "end"}
                 PROVE  loop'[s].touched = {}
      OBVIOUS
    <3>1. stage[s] \notin {"work", "branch", "commit", "push", "end"}
      <4>1. CASE stage[s] = "end"
        <5>1. stage'[s] \in {"end", "started"} BY <2>2, <4>1, Moves
        <5>2. FALSE
          BY <2>2, <4>1, <5>1 DEF Operation, Step, Start, StartFails, Cancel, StopsIfCancelled,
             EnterClone, Wake, Update, UpdateFails, CloneBegins, CloneSucceeds, CloneFails, Evict,
             Insert, Read, IterationFails, Apply, ApplyNothing, CreateBranch, CreateBranchFails,
             Commit, CommitFails, Push, PushSuffixed
        <5> QED BY <5>2
      <4>2. CASE stage[s] \in {"work", "branch", "commit", "push"} BY <2>2, <4>2, Moves
      <4> QED BY <4>1, <4>2
    <3>2. loop'[s] = loop[s] BY <2>2, <3>1, Steps
    <3> QED BY <3>1, <3>2 DEF OwnInv
  <2> QED BY <2>1, <2>2
<1>2. ASSUME s \notin met', stage'[s] \in Inside PROVE Alone(s)'
  <2>1. CASE s = a BY <1>2, <2>1, AloneStep
  <2>2. CASE s # a
    <3>1. stage'[s] = stage[s] /\ s \notin met BY <1>2, <2>2, Moves, Steps
    <3>2. Alone(s) BY <1>2, <3>1 DEF OwnInv
    <3> QED BY <1>2, <2>2, <3>1, <3>2, AloneFrame
  <2> QED BY <2>1, <2>2
<1>3. ASSUME s \notin met', pushed'[s] # NoRef PROVE Own(s, pushed'[s])
  <2>0. s \notin met /\ (pushed[s] # NoRef => Own(s, pushed[s])) BY <1>3, Steps DEF OwnInv
  <2>1. CASE pushed'[s] = pushed[s] BY <1>3, <2>0, <2>1
  <2>2. CASE s = a /\ (Push(s) \/ PushSuffixed(s))
    <3>1. stage[s] = "push" /\ dir[RepoOf[s]] = "whole" BY <2>2 DEF Push, PushSuffixed
    <3>2. Own(s, ref[s]) /\ Own(s, head[RepoOf[s]])
      BY <2>0, <3>1 DEF OwnInv, Alone, Inside, Stages
    <3>3. pushed'[s] \in {ref[s], head[RepoOf[s]]} BY <2>2 DEF Push, PushSuffixed, Types
    <3> QED BY <3>2, <3>3
  <2> QED BY <2>1, <2>2, Steps
<1> QED BY <1>1, <1>2, <1>3

LEMMA InitInv == Init => IInv
<1> SUFFICES ASSUME Init PROVE IInv OBVIOUS
<1>1. Types
  <2>1. /\ cloneCache \in Seq(Repos) /\ IsInjective(cloneCache)
    BY EmptySeq DEF Init, IsInjective
  <2>2. loop \in [Sessions -> LoopState] /\ \A s \in Sessions : loop[s] \in LoopOf(s)
    <3>1. \A s \in Sessions : NoLoop \in LoopOf(s) /\ NoLoop \in LoopState
      BY Constants, LoopTypes
    <3> QED BY <3>1 DEF Init
  <2>3. faults \in 0 .. MaxFaults
    <3>1. MaxFaults \in Nat /\ faults = 0 BY EngineAssumption DEF Init
    <3> QED BY <3>1
  <2>4. /\ stage \in [Sessions -> Stages] /\ cancelled \subseteq Sessions
        /\ row \in [Sessions -> {"none", "running", "error", "cancelled", "done"}]
        /\ awaits \in [Sessions -> Sessions \cup {None}]
        /\ met \subseteq Sessions /\ clash \subseteq Repos
    BY DEF Init, Stages
  <2>5. /\ inflight \in [Repos -> Sessions \cup {None}]
        /\ dir \in [Repos -> {"absent", "partial", "whole"}]
        /\ builder \in [Repos -> Sessions \cup {None}]
        /\ current \in [Repos -> Sessions \cup {None}]
    BY DEF Init
  <2>6. /\ tree \in [Repos -> Contents] /\ head \in [Repos -> Contents]
        /\ ref \in [Sessions -> Contents \cup {NoRef}]
        /\ pushed \in [Sessions -> Contents \cup {NoRef}]
    BY Constants DEF Init
  <2> QED BY <2>1, <2>2, <2>3, <2>4, <2>5, <2>6 DEF Types
<1>2. BuildInv
  <2>1. \A r \in Repos : ~Cached(r) BY EmptySeq DEF Init, Cached, ToSet
  <2> QED BY <2>1 DEF Init, BuildInv, Building
<1>3. DirInv BY DEF Init, DirInv
<1>4. OwnInv BY DEF Init, OwnInv, Inside, NoLoop
<1> QED BY <1>1, <1>2, <1>3, <1>4 DEF IInv

LEMMA StutterInv ==
  ASSUME IInv, UNCHANGED vars
  PROVE  IInv'
<1>1. UNCHANGED <<stage, row, loop, awaits, cancelled, cloneCache, inflight, dir, builder, clash,
                  tree, head, current, ref, pushed, met, faults>>
  BY DEF vars, sessionVars, cacheVars, gitVars
<1>2. Types' BY <1>1 DEF IInv, Types, LoopOf
<1>3. BuildInv' BY <1>1 DEF IInv, BuildInv, Cached
<1>4. DirInv' BY <1>1 DEF IInv, DirInv
<1>5. OwnInv' BY <1>1 DEF IInv, OwnInv, Alone
<1> QED BY <1>2, <1>3, <1>4, <1>5 DEF IInv

(***************************************************************************)
(* The direct engine: every entry of the clone cache is a finished clone   *)
(* that is on disk, unless the directory was removed under a session that  *)
(* clones it, and a session that ran beside no other one on its repository *)
(* pushes its own edits and nobody else's, for any number of sessions,     *)
(* repositories, iterations, cancellations and failed updates              *)
(* (engine/git.go, engine/iterate.go, engine/engine.go).                   *)
(***************************************************************************)
THEOREM EngineCorrect == Spec => []EngineInv
<1>1. Init => IInv BY InitInv
<1>2. IInv /\ [Next]_vars => IInv'
  <2> SUFFICES ASSUME IInv, [Next]_vars PROVE IInv' OBVIOUS
  <2>1. CASE UNCHANGED vars BY <2>1, StutterInv
  <2>2. CASE Next
    <3>1. PICK s \in Sessions : Operation(s) BY <2>2 DEF Next, Operation
    <3>2. Types' BY <3>1, NextTypes DEF IInv
    <3> QED BY <3>1, <3>2, NextBuild, NextDir, NextOwn DEF IInv
  <2> QED BY <2>1, <2>2
<1>3. IInv => EngineInv
  <2> SUFFICES ASSUME IInv PROVE EngineInv OBVIOUS
  <2>1. TypeOK BY TypesGiveTypeOK DEF IInv
  <2>2. CachedIsWhole BY DEF IInv, BuildInv, CachedIsWhole
  <2>3. PushedIsOwn BY DEF IInv, OwnInv, PushedIsOwn, Own
  <2> QED BY <2>1, <2>2, <2>3 DEF EngineInv
<1> QED BY <1>1, <1>2, <1>3, PTL DEF Spec
=============================================================================
