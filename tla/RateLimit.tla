------------------------------ MODULE RateLimit ------------------------------
(***************************************************************************)
(* checkRateLimit of the webhook router: a counter of all requests of the  *)
(* current minute, and per address a limiter with the times of its         *)
(* requests in the last minute.  A limiter is an object in a concurrent    *)
(* map: it is looked up, locked and changed in different steps, while a    *)
(* cleanup deletes those that seem unused.                                 *)
(***************************************************************************)
EXTENDS Integers, FiniteSets

CONSTANTS
  Requests, Address,      \* requests and the address each comes from
  MaxGlobal, MaxPerIP,    \* rateLimitMaxGlobal, rateLimitMaxPerIP
  MaxWindows              \* bound on new windows, expired times and cleanups

Addresses == {Address[r] : r \in Requests}

ASSUME LimitAssumption ==
  /\ IsFiniteSet(Requests)
  /\ MaxGlobal \in Nat \ {0} /\ MaxPerIP \in Nat \ {0} /\ MaxWindows \in Nat

VARIABLES
  count,      \* globalCount
  table,      \* rateLimitMap: the limiter of each address, 0 if there is none
  held,       \* the limiter a request has looked up
  recent,     \* the requests whose time is in a limiter, less than a minute ago
  cleaner,    \* the addresses a cleanup has yet to look at, and the one it deletes
  swept,      \* the addresses whose limiter was ever deleted
  windows

limitVars == <<count, table, held, recent, cleaner, swept, windows>>

NoCleanup == [todo |-> {}, doomed |-> {}]

LimitInit ==
  /\ count = 0
  /\ table = [a \in Addresses |-> 0]
  /\ held = [r \in Requests |-> 0]
  /\ recent = {} /\ swept = {} /\ cleaner = NoCleanup
  /\ windows = 0

Stamps(l) == {r \in recent : held[r] = l}

Window == windows < MaxWindows /\ windows' = windows + 1

(* The first critical section: has the minute room?                         *)
GlobalHasRoom == count < MaxGlobal

(* A minute has passed since globalStart.                                   *)
NewWindow ==
  /\ Window /\ count > 0 /\ count' = 0
  /\ UNCHANGED <<table, held, recent, cleaner, swept>>

(* A request is a minute old.  Cleanups take no time.                       *)
Expire(r) ==
  /\ Window /\ cleaner = NoCleanup /\ r \in recent
  /\ recent' = recent \ {r}
  /\ held' = [held EXCEPT ![r] = 0]
  /\ UNCHANGED <<count, table, cleaner, swept>>

(* An object that nobody refers to.                                         *)
NewLimiter ==
  CHOOSE l \in 1 .. Cardinality(Requests) + Cardinality(Addresses) :
    /\ \A a \in Addresses : table[a] # l
    /\ \A r \in Requests : held[r] # l

MakeAlways(r) ==
  /\ held' = [held EXCEPT ![r] = NewLimiter]
  /\ table' = [table EXCEPT ![Address[r]] = NewLimiter]
  /\ UNCHANGED <<count, recent, cleaner, swept, windows>>

(* LoadOrStore.                                                             *)
LoadOrStore(r) ==
  LET l == table[Address[r]] IN
  /\ held' = [held EXCEPT ![r] = IF l = 0 THEN NewLimiter ELSE l]
  /\ table' = [table EXCEPT ![Address[r]] = held'[r]]
  /\ UNCHANGED <<count, recent, cleaner, swept, windows>>

LimiterHasRoom(r) == Cardinality(Stamps(held[r])) < MaxPerIP

(* The request is turned away.                                              *)
Reject(r) ==
  /\ held' = [held EXCEPT ![r] = 0]
  /\ UNCHANGED <<count, table, recent, cleaner, swept, windows>>

(* The time is added under the lock, the counter is increased, and a        *)
(* cleanup is started when the last one is a minute ago.                    *)
Admit(r) ==
  /\ recent' = recent \cup {r}
  /\ count' = count + 1
  /\ \/ UNCHANGED <<cleaner, windows>>
     \/ /\ Window /\ cleaner = NoCleanup
        /\ cleaner' = [NoCleanup EXCEPT !.todo = {a \in Addresses : table[a] # 0}]
  /\ UNCHANGED <<table, held, swept>>

(* The limiter is locked, its times are looked at, and it is unlocked.      *)
CleanupLooks(a) ==
  /\ a \in cleaner.todo /\ cleaner.doomed = {}
  /\ cleaner' = [todo |-> cleaner.todo \ {a},
                 doomed |-> IF Stamps(table[a]) = {} THEN {a} ELSE {}]
  /\ UNCHANGED <<count, table, held, recent, swept, windows>>

(* rateLimitMap.Delete.                                                     *)
CleanupDeletes(a) ==
  /\ a \in cleaner.doomed
  /\ cleaner' = [cleaner EXCEPT !.doomed = {}]
  /\ swept' = swept \cup {a}
  /\ table' = [table EXCEPT ![a] = 0]
  /\ UNCHANGED <<count, held, recent, windows>>

(* No address has more than its number of requests in a minute, although    *)
(* requests that arrive together look up and create the limiter at once,    *)
(* unless a cleanup deleted the limiter while it was in use                 *)
(* (checkRateLimit, l. 75-93).                                              *)
LimitPerAddress ==
  \A a \in Addresses \ swept : Cardinality({r \in recent : Address[r] = a}) <= MaxPerIP
=============================================================================
