--------------------------- MODULE WorkspaceCache ---------------------------
(***************************************************************************)
(* The cache in front of "is this workspace connected?" that the Slack and *)
(* the Discord front end each keep: a map with expiry times, and beside it *)
(* a doubly linked list of its keys, most recently used first.  Callers   *)
(* look into it, ask the database without the lock and put the answer in.  *)
(***************************************************************************)
EXTENDS Integers, FiniteSets, Sequences, SequencesExt

CONSTANTS
  CacheKeys, NoKey,   \* workspaces; the nil of the list
  Callers,            \* handlers of events
  MaxEntries, TTL,    \* workspaceCacheMaxEntries, workspaceCacheTTL
  MaxClock, MaxFlips  \* bounds on the clock and on changes of the database

ASSUME WorkspaceCacheAssumption ==
  /\ NoKey \notin CacheKeys /\ IsFiniteSet(CacheKeys)
  /\ {MaxEntries, TTL} \subseteq Nat \ {0} /\ {MaxClock, MaxFlips} \subseteq Nat

VARIABLES
  clock,
  connected,   \* per workspace: does the database have it?
  flipped,     \* per workspace: when that last changed, or -1 (history)
  flips,
  cache,       \* the map: [exists, expiresAt] for some keys
  nodes,       \* the keys of the map of list nodes
  head, tail, prev, next,
  stale,       \* keys that the sweep, which has the lock, is about to throw away
  call         \* per handler: [stage, key, at, exists]

dbVars == <<clock, connected, flipped, flips>>
listVars == <<nodes, head, tail, prev, next>>
cacheVars == <<dbVars, cache, listVars, stale, call>>

NoCall == [stage |-> "idle", key |-> NoKey, at |-> 0, exists |-> FALSE]

CacheInit ==
  /\ clock = 0 /\ flips = 0
  /\ connected = [k \in CacheKeys |-> TRUE] /\ flipped = [k \in CacheKeys |-> -1]
  /\ cache = <<>> /\ nodes = {} /\ head = NoKey /\ tail = NoKey
  /\ prev = [k \in CacheKeys |-> NoKey] /\ next = [k \in CacheKeys |-> NoKey]
  /\ stale = {} /\ call = [h \in Callers |-> NoCall]

ClockTick ==
  /\ clock < MaxClock /\ clock' = clock + 1
  /\ UNCHANGED <<connected, flipped, flips, cache, listVars, stale, call>>

(* Somebody connects or disconnects a workspace.                            *)
Flip(k) ==
  /\ flips < MaxFlips /\ flips' = flips + 1
  /\ connected' = [connected EXCEPT ![k] = ~@] /\ flipped' = [flipped EXCEPT ![k] = clock]
  /\ UNCHANGED <<clock, cache, listVars, stale, call>>

-----------------------------------------------------------------------------
(* The list.  A list is a record of its five variables; nil is NoKey, and   *)
(* an assignment through nil does not happen.                               *)

List == [nodes |-> nodes, head |-> head, tail |-> tail, prev |-> prev, next |-> next]

SetList(l) ==
  /\ nodes' = l.nodes /\ head' = l.head /\ tail' = l.tail /\ prev' = l.prev /\ next' = l.next

Put(f, k, v) == IF k = NoKey THEN f ELSE [f EXCEPT ![k] = v]

(* node.prev.next = node.next and node.next.prev = node.prev                *)
Unlinked(l, k) ==
  [l EXCEPT !.next = Put(@, l.prev[k], l.next[k]), !.prev = Put(@, l.next[k], l.prev[k])]

MutantMoveLRUToFront(l, k) ==
  IF k \notin l.nodes \/ k = l.head THEN l
  ELSE LET u == Unlinked(l, k) IN
       [u EXCEPT !.prev = [@ EXCEPT ![k] = NoKey, ![l.head] = k],
                 !.next[k] = l.head, !.head = k]
MoveLRUToFront(l, k) ==
  IF k \notin l.nodes \/ k = l.head THEN l
  ELSE LET u == Unlinked(l, k) IN
       [u EXCEPT !.tail = IF k = l.tail THEN l.prev[k] ELSE @,
                 !.prev = [@ EXCEPT ![k] = NoKey, ![l.head] = k],
                 !.next[k] = l.head, !.head = k]

AddLRUNode(l, k) ==
  IF k \in l.nodes THEN MoveLRUToFront(l, k)
  ELSE [nodes |-> l.nodes \cup {k}, head |-> k,
        tail |-> IF l.head = NoKey THEN k ELSE l.tail,
        prev |-> Put([l.prev EXCEPT ![k] = NoKey], l.head, k),
        next |-> [l.next EXCEPT ![k] = l.head]]

RemoveLRUNode(l, k) ==
  IF k \notin l.nodes THEN l
  ELSE LET u == Unlinked(l, k) IN
       [u EXCEPT !.head = IF k = l.head THEN l.next[k] ELSE @,
                 !.tail = IF k = l.tail THEN l.prev[k] ELSE @,
                 !.nodes = @ \ {k},
                 !.prev[k] = NoKey, !.next[k] = NoKey]

Without(k) == [x \in DOMAIN cache \ {k} |-> cache[x]]

-----------------------------------------------------------------------------
(* checkWorkspaceCache.  Look reads under the lock and so do the others,    *)
(* but for the query: none of them happens during a sweep.                  *)

Unlocked == stale = {} /\ UNCHANGED stale
Found(k, t) == k \in DOMAIN cache /\ t < cache[k].expiresAt
Returns(h) == call' = [call EXCEPT ![h] = [@ EXCEPT !.stage = "done"]]

(* time.Now, and the map under the read lock.                               *)
Look(h, k) ==
  /\ Unlocked /\ call[h].stage = "idle"
  /\ call' = [call EXCEPT ![h] =
       [stage |-> IF Found(k, clock) THEN "hit" ELSE "miss", key |-> k, at |-> clock,
        exists |-> IF Found(k, clock) THEN cache[k].exists ELSE FALSE]]
  /\ UNCHANGED <<dbVars, cache, listVars>>

(* The lock again, for the list; the entry may be gone by now.                *)
Hit(h) ==
  /\ Unlocked /\ call[h].stage = "hit"
  /\ SetList(MoveLRUToFront(List, call[h].key))
  /\ Returns(h)
  /\ UNCHANGED <<dbVars, cache>>

(* WorkspaceExists                                                          *)
Query(h) ==
  /\ call[h].stage = "miss"
  /\ call' = [call EXCEPT ![h] =
       [@ EXCEPT !.stage = "insert", !.exists = connected[call[h].key]]]
  /\ UNCHANGED <<dbVars, cache, listVars, stale>>

(* An error forgets what is known of the workspace, whoever found it out.   *)
ExistsFails(h) ==
  /\ Unlocked /\ call[h].stage = "miss"
  /\ cache' = Without(call[h].key) /\ SetList(RemoveLRUNode(List, call[h].key))
  /\ call' = [call EXCEPT ![h] = NoCall]
  /\ UNCHANGED dbVars

MutantExpiresAt(h) == clock + TTL
ExpiresAt(h) == call[h].at + TTL

(* evictLRU, if there is no room: what the tail names goes.                 *)
MutantVictim == IF Cardinality(DOMAIN cache) > MaxEntries THEN tail ELSE NoKey
Victim == IF Cardinality(DOMAIN cache) >= MaxEntries THEN tail ELSE NoKey

(* Another handler was faster and its answer is fresh.                      *)
UseOther(h) ==
  LET k == call[h].key IN
  /\ Unlocked /\ call[h].stage = "insert" /\ Found(k, call[h].at)
  /\ SetList(MoveLRUToFront(List, k))
  /\ call' = [call EXCEPT ![h] = [@ EXCEPT !.stage = "done", !.exists = cache[k].exists]]
  /\ UNCHANGED <<dbVars, cache>>

Insert(h) ==
  LET k == call[h].key
      entry == [exists |-> call[h].exists, expiresAt |-> ExpiresAt(h)]
  IN
  /\ Unlocked /\ call[h].stage = "insert" /\ ~Found(k, call[h].at)
  /\ cache' = [x \in (DOMAIN cache \ {Victim}) \cup {k} |-> IF x = k THEN entry ELSE cache[x]]
  /\ SetList(AddLRUNode(RemoveLRUNode(List, Victim), k))
  /\ Returns(h)
  /\ UNCHANGED dbVars

(* The handler goes on with the answer; the next event finds it idle.       *)
Answered(h) ==
  /\ call[h].stage = "done"
  /\ call' = [call EXCEPT ![h] = NoCall]
  /\ UNCHANGED <<dbVars, cache, listVars, stale>>

(* evictStaleWorkspaceCache takes the lock and throws away one key after    *)
(* the other, in whatever order the map yields them.  There are never more  *)
(* entries than it then allows.                                             *)
EvictStale ==
  /\ stale = {}
  /\ stale' = {k \in DOMAIN cache : clock > cache[k].expiresAt}
  /\ UNCHANGED <<dbVars, cache, listVars, call>>

Evict(k) ==
  /\ k \in stale /\ stale' = stale \ {k}
  /\ cache' = Without(k) /\ SetList(RemoveLRUNode(List, k))
  /\ UNCHANGED <<dbVars, call>>

-----------------------------------------------------------------------------

CacheNext ==
  \/ ClockTick \/ EvictStale
  \/ \E k \in CacheKeys : Flip(k) \/ Evict(k)
  \/ \E h \in Callers :
       \/ \E k \in CacheKeys : Look(h, k)
       \/ Hit(h) \/ Query(h) \/ ExistsFails(h) \/ UseOther(h) \/ Insert(h) \/ Answered(h)

CacheSpec == CacheInit /\ [][CacheNext]_cacheVars

-----------------------------------------------------------------------------

(* The type of the state.                                                   *)
CacheTypeOK ==
  /\ clock \in 0 .. MaxClock /\ flips \in 0 .. MaxFlips
  /\ connected \in [CacheKeys -> BOOLEAN] /\ flipped \in [CacheKeys -> -1 .. MaxClock]
  /\ DOMAIN cache \subseteq CacheKeys /\ Cardinality(DOMAIN cache) <= MaxEntries
  /\ \A k \in DOMAIN cache :
       cache[k] \in [exists : BOOLEAN, expiresAt : 0 .. MaxClock + TTL]
  /\ nodes \subseteq CacheKeys /\ {head, tail} \subseteq CacheKeys \cup {NoKey}
  /\ {prev, next} \subseteq [CacheKeys -> CacheKeys \cup {NoKey}]
  /\ stale \subseteq DOMAIN cache
  /\ call \in [Callers -> [stage : {"idle", "hit", "miss", "insert", "done"},
                            key : CacheKeys \cup {NoKey}, at : 0 .. MaxClock, exists : BOOLEAN]]

(* The keys that a walk along the next pointers meets.                      *)
After(l, k) == IF k = NoKey THEN NoKey ELSE l.next[k]
Visited(l) ==
  LET at[i \in 0 .. Cardinality(CacheKeys)] == IF i = 0 THEN l.head ELSE After(l, at[i - 1])
  IN  at
WalkOf(l) ==
  LET at == Visited(l)
      met == {i \in 0 .. Cardinality(CacheKeys) : at[i] # NoKey}
  IN  [i \in 1 .. Cardinality(met) |-> at[i - 1]]
Walk == WalkOf(List)

(* The list, which every handler changes beside the map, stays a list of    *)
(* the map's keys: each once, the pointers back mirror the pointers         *)
(* forward, and the tail, which is what eviction takes, is its last node.   *)
ListIsMap ==
  /\ ToSet(Walk) = DOMAIN cache /\ nodes = DOMAIN cache
  /\ Len(Walk) = Cardinality(nodes)
  /\ \A i \in DOMAIN Walk : prev[Walk[i]] = IF i = 1 THEN NoKey ELSE Walk[i - 1]
  /\ tail = IF Walk = <<>> THEN NoKey ELSE Last(Walk)

(* An answer, from the cache or from the database, by whichever handler,    *)
(* was true less than TTL before the handler asked: a workspace that was    *)
(* disconnected longer ago is not taken for connected.                      *)
AnswerIsRecent ==
  \A h \in Callers : LET c == call[h] IN
    c.stage = "done" /\ c.exists # connected[c.key] => flipped[c.key] > c.at - TTL

(* Pointers and map implement a cache that forgets the least recently used  *)
(* entry: no step reorders, loses or replaces any other one.                *)
Lru == INSTANCE LruCache WITH order <- Walk, entries <- cache
IsLruCache == Lru!Spec

(* Map, list and answers in every state.                                    *)
CacheInv == CacheTypeOK /\ ListIsMap /\ AnswerIsRecent
=============================================================================
