--------------------------- MODULE FrontEnd_proofs ---------------------------
(***************************************************************************)
(* Proofs about the front ends.  The conversation manager, for any         *)
(* messages, users, agents and limits: the token bucket keeps to its rate  *)
(* in every window of time, a message without a name follows the last one  *)
(* that had one, and the history of a conversation is of one user with one *)
(* agent.  The workspace cache, for any workspaces, handlers and limits:   *)
(* its list is its map, its answers are recent, and it forgets the least   *)
(* recently used entry.                                                    *)
(***************************************************************************)
EXTENDS Conversation, WorkspaceCache, FiniteSetTheorems, SequenceTheorems, WellFoundedInduction, TLAPS

-----------------------------------------------------------------------------
(* The inductive invariant                                                  *)

Stages == {"sent", "loop", "handler", "config", "thread", "answer", "route", "record", "chat",
           "end"}
Unrouted == Stages \ {"record", "chat", "end"}
BucketOf == [tokens : 0 .. MessagesPerMinute, lastRefill : 0 .. MaxTime]
Items == {"user", "assistant"} \X Messages

(* The types, with the domains of the functions.                            *)
Types ==
  /\ now \in 0 .. MaxTime
  /\ stage \in [Messages -> Stages]
  /\ earlier \in [Messages -> SUBSET Messages] /\ writers \subseteq Messages
  /\ start \in [Messages -> -1 .. MaxTime]
  /\ buckets \in [Users -> BucketOf \cup {<<>>}]
  /\ config \in [Messages -> SUBSET Agents]
  /\ pending \in BOOLEAN /\ registered \in BOOLEAN
  /\ lastAddressed \in [Users -> Agents \cup {NoAgent}]
  /\ agent \in [Messages -> Agents \cup {NoAgent}]
  /\ history \in [Keys -> Seq(Items)]

(* handlerSemaphore.                                                        *)
SlotInv == OverSlack => IsFiniteSet(Handlers) /\ Cardinality(Handlers) <= MaxHandlers

(* A message has an agent from Route on, and what was dealt with before it  *)
(* came is dealt with; only the owner gets to answer.                       *)
RouteInv ==
  \A m \in Messages :
    /\ stage[m] \in Unrouted => agent[m] = NoAgent
    /\ stage[m] \in {"record", "chat"} => agent[m] \in Agents
    /\ \A n \in earlier[m] : UserOf[n] = UserOf[m] /\ stage[n] = "end"
    /\ stage[m] = "sent" => earlier[m] = {}
    /\ stage[m] = "answer" => IsOwner(m)

(* The agent that a user addressed last is that of one of the user's        *)
(* messages, and no message that came after it went to another.             *)
LastInv ==
  \A u \in Users : lastAddressed[u] # NoAgent =>
    \E n \in Messages :
      /\ UserOf[n] = u /\ agent[n] = lastAddressed[u] /\ stage[n] \notin Unrouted
      /\ \A k \in Messages : n \in earlier[k] => agent[k] \in {agent[n], NoAgent}

(* What is in a history was said, by the user and to the agent of the key,  *)
(* and once.                                                                *)
ItemInv ==
  \A k \in Keys : \A i \in DOMAIN history[k] :
    LET m == history[k][i][2] IN
    /\ Key(m, agent[m]) = k /\ stage[m] \in {"chat", "end"}
    /\ history[k][i][1] = "assistant" => stage[m] = "end"
    /\ \A j \in DOMAIN history[k] : i < j => history[k][j] \notin {history[k][i], <<"user", m>>}

(* What the model is to answer is there, unless ...: see HistoryIsOwn.      *)
ChatInv ==
  \A m \in Messages : stage[m] = "chat" =>
    \/ <<"user", m>> \in ToSet(history[Key(m, agent[m])])
    \/ \E n \in OfUser(m) \ (earlier[m] \cup {m}) : agent[n] = agent[m]
    \/ Key(m, agent[m]) \notin Entries /\ Cardinality(Entries) = MaxHistoryKeys

SizeInv ==
  /\ IsFiniteSet(Entries) /\ Cardinality(Entries) <= MaxHistoryKeys
  /\ \A k \in Keys : Len(history[k]) <= MaxMessagesPerAgent

(* The messages of a user that were let through since a time, with begun    *)
(* for start; the tokens that come back in a time.                          *)
Since(begun, u, t) == {m \in Messages : UserOf[m] = u /\ begun[m] >= t}
Passed(begun, u, t) == Cardinality(Since(begun, u, t))
Refill(d) == (d * MessagesPerMinute) \div Minute

(* The bucket b of a user against the messages that were let through since  *)
(* any time: those before its last refill are paid by what came back since, *)
(* those after it by what was left, less the one that was let through with  *)
(* the refill; and those came before the next token did.  Without a bucket  *)
(* all that was let through has come back.                                  *)
Paid(begun, u, b, at) ==
  /\ IsFiniteSet(Since(begun, u, 0))
  /\ b = <<>> => \A t \in 0 .. at : Passed(begun, u, t) <= Refill(at - t)
  /\ b # <<>> =>
       /\ b.lastRefill <= at
       /\ \A t \in 0 .. b.lastRefill :
            Passed(begun, u, t) + b.tokens <= MessagesPerMinute + Refill(b.lastRefill - t)
       /\ Passed(begun, u, b.lastRefill + 1) + b.tokens <= MessagesPerMinute - 1
       /\ \A m \in Since(begun, u, b.lastRefill + 1) : Refill(begun[m] - b.lastRefill) = 0

RateInv ==
  /\ \A m \in Messages :
       start[m] <= now /\ (stage[m] \in {"sent", "loop", "handler"} => start[m] = -1)
  /\ \A u \in Users : Paid(start, u, buckets[u], now)

IInv ==
  /\ Types /\ SlotInv /\ RouteInv /\ LastInv /\ FollowUpGoesToLast
  /\ ItemInv /\ ChatInv /\ SizeInv /\ OnlyOwnerAnswers
  /\ RateInv /\ RateHolds

-----------------------------------------------------------------------------
(* The arithmetic of the refill                                             *)

LEMMA Limits ==
  /\ MessagesPerMinute \in Nat /\ MessagesPerMinute >= 1 /\ Minute \in Nat /\ Minute >= 1
  /\ MaxTime \in Nat /\ Idle \in Nat /\ Idle >= Minute
  /\ MaxHandlers \in Nat /\ MaxHandlers >= 1 /\ MaxHistoryKeys \in Nat /\ MaxHistoryKeys >= 1
  /\ MaxMessagesPerAgent \in Nat /\ MaxMessagesPerAgent >= 1
<1>1. {MaxHandlers, MessagesPerMinute, Minute, MaxHistoryKeys, MaxMessagesPerAgent}
        \subseteq Nat \ {0}
  BY ConversationAssumption
<1>2. \A n \in Nat \ {0} : n \in Nat /\ n >= 1 OBVIOUS
<1> QED BY <1>1, <1>2, ConversationAssumption

LEMMA DivFacts ==
  ASSUME NEW x \in Nat, NEW y \in Nat, y >= 1
  PROVE  x \div y \in Nat /\ (x \div y) * y <= x /\ x < (x \div y + 1) * y
  OBVIOUS

(* A quotient is at least q, or at most q.                                  *)
LEMMA DivBounds ==
  ASSUME NEW x \in Nat, NEW y \in Nat, y >= 1, NEW q \in Int
  PROVE  /\ q * y <= x => q <= x \div y
         /\ x < (q + 1) * y => x \div y <= q
<1>1. PICK p \in Nat : p = x \div y /\ p * y <= x /\ x < (p + 1) * y BY DivFacts
<1>2. ASSUME q * y <= x, q > p PROVE FALSE
  <2>1. PICK e \in Nat : q = p + 1 + e
    <3>1. q - p - 1 \in Nat /\ q = p + 1 + (q - p - 1) BY <1>2
    <3> QED BY <3>1
  <2>2. q * y = (p + 1) * y + e * y BY <2>1
  <2>3. e * y \in Nat /\ (p + 1) * y \in Nat /\ q * y \in Int OBVIOUS
  <2> QED BY <1>1, <1>2, <2>2, <2>3
<1>3. ASSUME x < (q + 1) * y, q < p PROVE FALSE
  <2>1. PICK e \in Nat : p = q + 1 + e
    <3>1. p - q - 1 \in Nat /\ p = q + 1 + (p - q - 1) BY <1>3
    <3> QED BY <3>1
  <2>2. p * y = (q + 1) * y + e * y BY <2>1
  <2>3. e * y \in Nat /\ (q + 1) * y \in Int /\ p * y \in Int OBVIOUS
  <2> QED BY <1>1, <1>3, <2>2, <2>3
<1> QED BY <1>1, <1>2, <1>3

LEMMA RefillDef ==
  ASSUME NEW d \in Nat
  PROVE  /\ Refill(d) \in Nat /\ d * MessagesPerMinute \in Nat
         /\ Refill(d) * Minute <= d * MessagesPerMinute
         /\ d * MessagesPerMinute < (Refill(d) + 1) * Minute
<1>1. d * MessagesPerMinute \in Nat BY Limits
<1> QED BY <1>1, Limits, DivFacts DEF Refill

LEMMA RefillBounds ==
  ASSUME NEW d \in Nat, NEW q \in Int
  PROVE  /\ q * Minute <= d * MessagesPerMinute => q <= Refill(d)
         /\ d * MessagesPerMinute < (q + 1) * Minute => Refill(d) <= q
<1>1. d * MessagesPerMinute \in Nat BY Limits
<1> QED BY <1>1, Limits, DivBounds DEF Refill

(* Time apart brings no more than time together, and at most one token less.*)
LEMMA RefillSum ==
  ASSUME NEW a \in Nat, NEW b \in Nat
  PROVE  /\ Refill(a + b) \in Nat /\ Refill(a) + Refill(b) <= Refill(a + b)
         /\ Refill(a) = 0 => Refill(a + b) <= Refill(b) + 1
<1> DEFINE p == a * MessagesPerMinute
           q == b * MessagesPerMinute
<1>0. MessagesPerMinute \in Nat /\ Minute \in Nat /\ Minute >= 1 /\ a + b \in Nat BY Limits
<1>1. (a + b) * MessagesPerMinute = p + q BY <1>0
<1>2. /\ Refill(a) \in Nat /\ p \in Nat /\ Refill(a) * Minute <= p
      /\ p < (Refill(a) + 1) * Minute
  BY RefillDef
<1>3. /\ Refill(b) \in Nat /\ q \in Nat /\ Refill(b) * Minute <= q
      /\ q < (Refill(b) + 1) * Minute
  BY RefillDef
<1>4. Refill(a + b) \in Nat BY <1>0, RefillDef
<1> HIDE DEF p, q
<1>5. Refill(a) + Refill(b) <= Refill(a + b)
  <2>1. (Refill(a) + Refill(b)) * Minute = Refill(a) * Minute + Refill(b) * Minute
    BY <1>0, <1>2, <1>3
  <2>2. Refill(a) * Minute \in Nat /\ Refill(b) * Minute \in Nat BY <1>0, <1>2, <1>3
  <2>3. (Refill(a) + Refill(b)) * Minute <= (a + b) * MessagesPerMinute
    BY <1>1, <1>2, <1>3, <2>1, <2>2
  <2>4. Refill(a) + Refill(b) \in Int BY <1>2, <1>3
  <2> QED BY <1>0, <2>3, <2>4, RefillBounds
<1>6. ASSUME Refill(a) = 0 PROVE Refill(a + b) <= Refill(b) + 1
  <2>1. p < Minute BY <1>0, <1>2, <1>6
  <2>2. (Refill(b) + 1 + 1) * Minute = (Refill(b) + 1) * Minute + Minute BY <1>0, <1>3
  <2>3. (Refill(b) + 1) * Minute \in Nat BY <1>0, <1>3
  <2>4. (a + b) * MessagesPerMinute < (Refill(b) + 1 + 1) * Minute
    BY <1>0, <1>1, <1>2, <1>3, <2>1, <2>2, <2>3
  <2>5. Refill(b) + 1 \in Int BY <1>3
  <2> QED BY <1>0, <2>4, <2>5, RefillBounds
<1> QED BY <1>4, <1>5, <1>6

LEMMA RefillMonotone ==
  ASSUME NEW a \in Nat, NEW b \in Nat, a <= b
  PROVE  Refill(a) \in Nat /\ Refill(b) \in Nat /\ Refill(a) <= Refill(b)
<1>1. PICK e \in Nat : b = a + e
  <2>1. b - a \in Nat /\ b = a + (b - a) OBVIOUS
  <2> QED BY <2>1
<1>2. Refill(a) \in Nat /\ Refill(e) \in Nat /\ Refill(b) \in Nat BY RefillDef
<1> QED BY <1>1, <1>2, RefillSum

(* A minute brings a full bucket, and one that began before a token came    *)
(* brings all but one.                                                      *)
LEMMA RefillMinute ==
  ASSUME NEW a \in Nat, NEW b \in Nat
  PROVE  /\ a + Minute <= b => MessagesPerMinute + Refill(a) <= Refill(b)
         /\ Refill(a) = 0 /\ a + b >= Minute => MessagesPerMinute - 1 <= Refill(b)
<1>0. MessagesPerMinute \in Nat /\ Minute \in Nat /\ Minute >= 1 BY Limits
<1>1. Refill(a) \in Nat /\ Refill(b) \in Nat /\ Refill(Minute) \in Nat BY <1>0, RefillDef
<1>2. ASSUME a + Minute <= b PROVE MessagesPerMinute + Refill(a) <= Refill(b)
  <2>1. MessagesPerMinute <= Refill(Minute)
    <3>1. MessagesPerMinute * Minute <= Minute * MessagesPerMinute BY <1>0
    <3> QED BY <1>0, <3>1, RefillBounds
  <2>2. a + Minute \in Nat BY <1>0
  <2>3. Refill(a + Minute) \in Nat /\ Refill(a + Minute) <= Refill(b)
    BY <1>2, <2>2, RefillMonotone
  <2>4. Refill(a) + Refill(Minute) <= Refill(a + Minute) BY <1>0, RefillSum
  <2> QED BY <1>0, <1>1, <2>1, <2>3, <2>4
<1>3. ASSUME Refill(a) = 0, a + b >= Minute PROVE MessagesPerMinute - 1 <= Refill(b)
  <2> DEFINE p == a * MessagesPerMinute
             q == b * MessagesPerMinute
             x == Minute * MessagesPerMinute
  <2>1. p \in Nat /\ q \in Nat /\ x \in Nat BY <1>0
  <2>2. p < Minute BY <1>0, <1>3, RefillDef
  <2>3. PICK e \in Nat : a + b = Minute + e
    <3>1. a + b - Minute \in Nat /\ a + b = Minute + (a + b - Minute) BY <1>0, <1>3
    <3> QED BY <3>1
  <2>4. (a + b) * MessagesPerMinute = p + q BY <1>0
  <2>5. (Minute + e) * MessagesPerMinute = x + e * MessagesPerMinute /\ e * MessagesPerMinute \in Nat
    BY <1>0
  <2>6. (MessagesPerMinute - 1) * Minute = x - Minute BY <1>0
  <2> HIDE DEF p, q, x
  <2>7. x <= p + q BY <2>1, <2>3, <2>4, <2>5
  <2>8. (MessagesPerMinute - 1) * Minute <= q BY <1>0, <2>1, <2>2, <2>6, <2>7
  <2>9. MessagesPerMinute - 1 \in Int BY <1>0
  <2> QED BY <2>8, <2>9, RefillBounds DEF q
<1> QED BY <1>2, <1>3

-----------------------------------------------------------------------------
(* The messages that were let through                                       *)

Begun == [Messages -> -1 .. MaxTime]

(* A later time leaves fewer of them.                                       *)
LEMMA PassedFacts ==
  ASSUME NEW f \in Begun, NEW u, IsFiniteSet(Since(f, u, 0)), NEW t \in Nat
  PROVE  /\ IsFiniteSet(Since(f, u, t)) /\ Passed(f, u, t) \in Nat
         /\ \A x \in Nat : x <= t => Passed(f, u, t) <= Passed(f, u, x)
<1>0. \A m \in Messages : f[m] \in Int
  <2>1. MaxTime \in Nat BY Limits
  <2> QED BY <2>1 DEF Begun
<1>1. \A x \in Nat : IsFiniteSet(Since(f, u, x))
  <2> TAKE x \in Nat
  <2>1. Since(f, u, x) \subseteq Since(f, u, 0) BY <1>0 DEF Since
  <2> QED BY <2>1, FS_Subset
<1>2. ASSUME NEW x \in Nat, x <= t PROVE Passed(f, u, t) <= Passed(f, u, x)
  <2>1. Since(f, u, t) \subseteq Since(f, u, x) BY <1>0, <1>2 DEF Since
  <2> QED BY <1>1, <2>1, FS_Subset DEF Passed
<1> QED BY <1>1, <1>2, FS_CardinalityType DEF Passed

(* One more message: g is f with the message m at the time at.              *)
More(f, m, at, g) ==
  /\ g \in Begun /\ at \in 0 .. MaxTime
  /\ \A n \in Messages : f[n] \in Int /\ g[n] = IF n = m THEN at ELSE f[n]

LEMMA PassedMore ==
  ASSUME NEW f \in Begun, NEW m \in Messages, f[m] = -1, NEW at, NEW u,
         u = UserOf[m], IsFiniteSet(Since(f, u, 0)), NEW g, More(f, m, at, g)
  PROVE  /\ IsFiniteSet(Since(g, u, 0))
         /\ \A t \in Nat : t <= at => Passed(g, u, t) = Passed(f, u, t) + 1
         /\ \A t \in Nat : t > at => Since(g, u, t) = Since(f, u, t)
<1>0. MaxTime \in Nat /\ at \in Nat BY Limits DEF More
<1>1. \A n \in Messages : f[n] \in Int /\ g[n] = IF n = m THEN at ELSE f[n] BY DEF More
<1>2. ASSUME NEW t \in Nat, t <= at
      PROVE  IsFiniteSet(Since(g, u, t)) /\ Passed(g, u, t) = Passed(f, u, t) + 1
  <2>1. Since(g, u, t) = Since(f, u, t) \cup {m} BY <1>0, <1>1, <1>2 DEF Since
  <2>2. m \notin Since(f, u, t) BY <1>2 DEF Since
  <2>3. IsFiniteSet(Since(f, u, t)) BY PassedFacts
  <2> QED BY <2>1, <2>2, <2>3, FS_AddElement DEF Passed
<1>3. ASSUME NEW t \in Nat, t > at PROVE Since(g, u, t) = Since(f, u, t)
  BY <1>0, <1>1, <1>3 DEF Since
<1>4. IsFiniteSet(Since(g, u, 0))
  <2>1. Since(g, u, 0) = Since(f, u, 0) \cup {m} BY <1>0, <1>1 DEF Since
  <2> QED BY <2>1, FS_AddElement
<1> QED BY <1>2, <1>3, <1>4

(* Time passes.                                                             *)
LEMMA PaidLater ==
  ASSUME NEW f \in Begun, NEW u, NEW b \in BucketOf \cup {<<>>}, NEW at \in Nat,
         NEW later \in Nat, at <= later, Paid(f, u, b, at), \A m \in Messages : f[m] <= at
  PROVE  Paid(f, u, b, later)
<1>1. CASE b # <<>>
  <2>1. b.lastRefill \in Nat BY <1>1, Limits DEF BucketOf
  <2>2. b.lastRefill <= later BY <1>1, <2>1 DEF Paid
  <2> QED BY <1>1, <2>2 DEF Paid
<1>2. CASE b = <<>>
  <2> SUFFICES ASSUME NEW t \in 0 .. later PROVE Passed(f, u, t) <= Refill(later - t)
    BY <1>2 DEF Paid
  <2>0. IsFiniteSet(Since(f, u, 0)) BY DEF Paid
  <2>1. Passed(f, u, t) \in Nat BY <2>0, PassedFacts
  <2>2. CASE t <= at
    <3>1. Passed(f, u, t) <= Refill(at - t) BY <1>2, <2>2 DEF Paid
    <3>2. at - t \in Nat /\ later - t \in Nat /\ at - t <= later - t BY <2>2
    <3>3. Refill(at - t) \in Nat /\ Refill(later - t) \in Nat /\ Refill(at - t) <= Refill(later - t)
      BY <3>2, RefillMonotone
    <3> QED BY <2>1, <3>1, <3>3
  <2>3. CASE t > at
    <3>1. Since(f, u, t) = {}
      <4>1. \A m \in Messages : f[m] \in Int BY Limits DEF Begun
      <4> QED BY <2>3, <4>1 DEF Since
    <3>2. Passed(f, u, t) = 0 BY <3>1, FS_EmptySet DEF Passed
    <3>3. Refill(later - t) \in Nat
      <4>1. later - t \in Nat OBVIOUS
      <4> QED BY <4>1, RefillDef
    <3> QED BY <3>2, <3>3
  <2> QED BY <2>2, <2>3
<1> QED BY <1>1, <1>2

LEMMA BucketType ==
  ASSUME NEW n \in 0 .. MessagesPerMinute, NEW t \in 0 .. MaxTime
  PROVE  LET b == [tokens |-> n, lastRefill |-> t] IN b \in BucketOf /\ b # <<>>
<1> DEFINE b == [tokens |-> n, lastRefill |-> t]
<1>1. b \in BucketOf BY DEF BucketOf
<1>2. "tokens" \in DOMAIN b OBVIOUS
<1>3. DOMAIN <<>> = {}
  <2>1. <<>> \in Seq({}) /\ Len(<<>>) = 0 BY EmptySeq
  <2> QED BY <2>1, LenProperties
<1> QED BY <1>1, <1>2, <1>3

(* A message is let through, by a new bucket ...                            *)
LEMMA PaidFirst ==
  ASSUME NEW f \in Begun, NEW m \in Messages, f[m] = -1, NEW at \in 0 .. MaxTime,
         \A n \in Messages : f[n] <= at, Paid(f, UserOf[m], <<>>, at),
         NEW g, More(f, m, at, g)
  PROVE  Paid(g, UserOf[m], [tokens |-> MessagesPerMinute - 1, lastRefill |-> at], at)
<1> DEFINE u == UserOf[m]
           d == [tokens |-> MessagesPerMinute - 1, lastRefill |-> at]
<1>0. at \in Nat /\ MaxTime \in Nat /\ MessagesPerMinute \in Nat /\ MessagesPerMinute >= 1 BY Limits
<1>1. IsFiniteSet(Since(f, u, 0)) BY DEF Paid
<1>2. /\ IsFiniteSet(Since(g, u, 0))
      /\ \A t \in Nat : t <= at => Passed(g, u, t) = Passed(f, u, t) + 1
      /\ \A t \in Nat : t > at => Since(g, u, t) = Since(f, u, t)
  BY <1>1, PassedMore DEF More
<1>3. Since(g, u, at + 1) = {}
  <2>1. \A n \in Messages : g[n] <= at /\ g[n] \in Int BY <1>0 DEF More
  <2>2. \A n \in Messages : ~(g[n] >= at + 1) BY <1>0, <2>1
  <2> QED BY <2>2 DEF Since
<1>4. Passed(g, u, at + 1) = 0 BY <1>3, FS_EmptySet DEF Passed
<1>5. ASSUME NEW t \in 0 .. at
      PROVE  Passed(g, u, t) + (MessagesPerMinute - 1) <= MessagesPerMinute + Refill(at - t)
  <2>1. Passed(f, u, t) <= Refill(at - t) BY DEF Paid
  <2>2. at - t \in Nat BY <1>0
  <2>3. Passed(f, u, t) \in Nat /\ Refill(at - t) \in Nat BY <1>1, <2>2, PassedFacts, RefillDef
  <2>4. Passed(g, u, t) = Passed(f, u, t) + 1 BY <1>0, <1>2
  <2> QED BY <1>0, <2>1, <2>3, <2>4
<1>6. d.tokens = MessagesPerMinute - 1 /\ d.lastRefill = at /\ d # <<>>
  <2>1. MessagesPerMinute - 1 \in 0 .. MessagesPerMinute BY <1>0
  <2> QED BY <2>1, BucketType
<1> HIDE DEF d, u
<1>7. Paid(g, u, d, at) BY <1>0, <1>2, <1>3, <1>4, <1>5, <1>6 DEF Paid
<1> QED BY <1>7 DEF d, u

(* ... by one to which no token came ...                                    *)
LEMMA PaidSame ==
  ASSUME NEW f \in Begun, NEW m \in Messages, f[m] = -1, NEW at \in 0 .. MaxTime,
         \A n \in Messages : f[n] <= at, NEW b \in BucketOf, b # <<>>, b.tokens > 0,
         Paid(f, UserOf[m], b, at), Refill(at - b.lastRefill) = 0,
         NEW g, More(f, m, at, g)
  PROVE  Paid(g, UserOf[m], [b EXCEPT !.tokens = b.tokens - 1], at)
<1> DEFINE u == UserOf[m]
           r == b.lastRefill
           k == b.tokens
           d == [b EXCEPT !.tokens = b.tokens - 1]
<1>0. at \in Nat /\ MaxTime \in Nat /\ MessagesPerMinute \in Nat /\ MessagesPerMinute >= 1 BY Limits
<1>1. r \in 0 .. MaxTime /\ k \in 0 .. MessagesPerMinute BY DEF BucketOf
<1>2. IsFiniteSet(Since(f, u, 0)) /\ r <= at /\ k - 1 \in 0 .. MessagesPerMinute
  BY <1>0, <1>1 DEF Paid
<1>3. d.tokens = k - 1 /\ d.lastRefill = r /\ d # <<>>
  <2>1. d = [tokens |-> k - 1, lastRefill |-> r] BY DEF BucketOf
  <2> HIDE DEF d, k, r
  <2>2. [tokens |-> k - 1, lastRefill |-> r] # <<>> BY <1>1, <1>2, BucketType
  <2> QED BY <2>1, <2>2
<1>4. /\ IsFiniteSet(Since(g, u, 0)) /\ g \in Begun
      /\ \A t \in Nat : t <= at => Passed(g, u, t) = Passed(f, u, t) + 1
      /\ \A t \in Nat : t > at => Since(g, u, t) = Since(f, u, t)
  BY <1>2, PassedMore DEF More
<1>5. /\ \A t \in 0 .. r : Passed(f, u, t) + k <= MessagesPerMinute + Refill(r - t)
      /\ Passed(f, u, r + 1) + k <= MessagesPerMinute - 1
      /\ \A n \in Since(f, u, r + 1) : Refill(f[n] - r) = 0
  BY DEF Paid
<1>6. \A n \in Messages : g[n] = IF n = m THEN at ELSE f[n] BY DEF More
<1> HIDE DEF d, u, k, r
<1>7. r \in Nat /\ k \in Int /\ r + 1 \in Nat BY <1>0, <1>1
<1>8. ASSUME NEW t \in 0 .. r PROVE Passed(g, u, t) + (k - 1) <= MessagesPerMinute + Refill(r - t)
  <2>1. r - t \in Nat /\ t \in Nat /\ t <= at BY <1>0, <1>2, <1>7
  <2>2. Refill(r - t) \in Nat /\ Passed(f, u, t) \in Nat BY <1>2, <2>1, RefillDef, PassedFacts
  <2>3. Passed(g, u, t) = Passed(f, u, t) + 1 BY <1>4, <2>1
  <2> QED BY <1>0, <1>5, <1>7, <2>2, <2>3
<1>9. Passed(g, u, r + 1) + (k - 1) <= MessagesPerMinute - 1
  <2>1. Passed(f, u, r + 1) \in Nat BY <1>2, <1>7, PassedFacts
  <2>2. CASE r + 1 <= at BY <1>0, <1>4, <1>5, <1>7, <2>1, <2>2
  <2>3. CASE r + 1 > at
    <3>1. Passed(g, u, r + 1) = Passed(f, u, r + 1) BY <1>4, <1>7, <2>3 DEF Passed
    <3> QED BY <1>0, <1>5, <1>7, <2>1, <3>1
  <2> QED BY <1>0, <1>7, <2>2, <2>3
<1>10. ASSUME NEW n \in Since(g, u, r + 1) PROVE Refill(g[n] - r) = 0
  <2>0. n \in Messages BY DEF Since
  <2>1. CASE n = m BY <1>6, <2>0, <2>1 DEF r
  <2>2. CASE n # m
    <3>1. n \in Since(f, u, r + 1) /\ g[n] = f[n] BY <1>6, <2>0, <2>2 DEF Since
    <3> QED BY <1>5, <3>1
  <2> QED BY <2>1, <2>2
<1>11. Paid(g, u, d, at) BY <1>2, <1>3, <1>4, <1>8, <1>9, <1>10 DEF Paid
<1> QED BY <1>11 DEF d, u

(* ... or by one that is refilled first.                                    *)
LEMMA PaidRefilled ==
  ASSUME NEW f \in Begun, NEW m \in Messages, f[m] = -1, NEW at \in 0 .. MaxTime,
         \A n \in Messages : f[n] <= at, NEW b \in BucketOf, b # <<>>,
         Paid(f, UserOf[m], b, at),
         NEW c \in 0 .. MessagesPerMinute, c <= b.tokens + Refill(at - b.lastRefill), c > 0,
         NEW g, More(f, m, at, g)
  PROVE  Paid(g, UserOf[m], [tokens |-> c - 1, lastRefill |-> at], at)
<1> DEFINE u == UserOf[m]
           r == b.lastRefill
           k == b.tokens
           d == [tokens |-> c - 1, lastRefill |-> at]
<1>0. at \in Nat /\ MaxTime \in Nat /\ MessagesPerMinute \in Nat /\ MessagesPerMinute >= 1 BY Limits
<1>1. r \in 0 .. MaxTime /\ k \in 0 .. MessagesPerMinute BY DEF BucketOf
<1>2. IsFiniteSet(Since(f, u, 0)) /\ r <= at BY DEF Paid
<1>3. d.tokens = c - 1 /\ d.lastRefill = at /\ d # <<>>
  <2>1. c - 1 \in 0 .. MessagesPerMinute BY <1>0
  <2> QED BY <2>1, BucketType
<1>4. /\ IsFiniteSet(Since(g, u, 0)) /\ g \in Begun
      /\ \A t \in Nat : t <= at => Passed(g, u, t) = Passed(f, u, t) + 1
  BY <1>2, PassedMore DEF More
<1>5. /\ \A t \in 0 .. r : Passed(f, u, t) + k <= MessagesPerMinute + Refill(r - t)
      /\ Passed(f, u, r + 1) + k <= MessagesPerMinute - 1
      /\ \A n \in Since(f, u, r + 1) : Refill(f[n] - r) = 0
  BY DEF Paid
<1>6. Since(g, u, at + 1) = {}
  <2>1. \A n \in Messages : g[n] <= at /\ g[n] \in Int BY <1>0 DEF More
  <2>2. \A n \in Messages : ~(g[n] >= at + 1) BY <1>0, <2>1
  <2> QED BY <2>2 DEF Since
<1>7. Passed(g, u, at + 1) = 0 BY <1>6, FS_EmptySet DEF Passed
<1>c. c <= k + Refill(at - r) OBVIOUS
<1>f. \A n \in Messages : f[n] \in Int BY DEF More
<1> HIDE DEF d, u, k, r
<1>8. r \in Nat /\ k \in Nat /\ c \in Nat /\ at - r \in Nat /\ r + 1 \in Nat BY <1>0, <1>1, <1>2
<1>9. ASSUME NEW t \in 0 .. at
      PROVE  Passed(g, u, t) + (c - 1) <= MessagesPerMinute + Refill(at - t)
  <2>1. t \in Nat /\ t <= at /\ at - t \in Nat BY <1>0
  <2>2. /\ Refill(at - t) \in Nat /\ Refill(at - r) \in Nat
        /\ Passed(f, u, t) \in Nat /\ Passed(g, u, t) = Passed(f, u, t) + 1
    BY <1>2, <1>4, <1>8, <2>1, RefillDef, PassedFacts
  <2>6. Passed(g, u, t) + (c - 1) <= Passed(f, u, t) + k + Refill(at - r)
    BY <1>8, <1>c, <2>2
  <2>3. CASE t <= r
    <3>1. r - t \in Nat /\ (r - t) + (at - r) = at - t /\ t \in 0 .. r BY <1>0, <1>8, <2>1, <2>3
    <3>2. Refill(r - t) \in Nat BY <3>1, RefillDef
    <3>3. Refill(r - t) + Refill(at - r) <= Refill((r - t) + (at - r)) BY <1>8, <3>1, RefillSum
    <3>4. Passed(f, u, t) + k <= MessagesPerMinute + Refill(r - t) BY <1>5, <3>1
    <3>5. Refill(r - t) + Refill(at - r) <= Refill(at - t) BY <3>1, <3>3
    <3>6. Passed(f, u, t) + k + Refill(at - r) <= MessagesPerMinute + Refill(at - t)
      <4>1. ASSUME NEW a \in Nat, NEW b1 \in Nat, NEW b2 \in Nat, NEW b3 \in Nat,
                   a <= MessagesPerMinute + b1, b1 + b2 <= b3
            PROVE  a + b2 <= MessagesPerMinute + b3
        BY <1>0, <4>1
      <4>2. Passed(f, u, t) + k \in Nat BY <1>8, <2>2
      <4> QED BY <2>2, <3>2, <3>4, <3>5, <4>1, <4>2
    <3> QED BY <1>0, <1>8, <2>2, <2>6, <3>6
  <2>4. CASE t > r /\ Since(f, u, t) = {}
    <3>1. Passed(f, u, t) = 0 BY <2>4, FS_EmptySet DEF Passed
    <3> QED BY <1>0, <1>8, <2>2, <3>1
  <2>5. CASE t > r /\ Since(f, u, t) # {}
    <3>1. PICK n \in Since(f, u, t) : TRUE BY <2>5
    <3>2. n \in Messages /\ f[n] >= t /\ f[n] \in Int BY <1>f, <3>1 DEF Since
    <3>3. n \in Since(f, u, r + 1) BY <1>8, <2>1, <2>5, <3>1, <3>2 DEF Since
    <3>4. Refill(f[n] - r) = 0 BY <1>5, <3>3
    <3>5. t - r \in Nat /\ f[n] - r \in Nat /\ t - r <= f[n] - r BY <1>8, <2>1, <2>5, <3>2, SMTT(30)
    <3>6. Refill(t - r) = 0
      <4>1. Refill(t - r) \in Nat /\ Refill(t - r) <= Refill(f[n] - r) BY <3>5, RefillMonotone
      <4> QED BY <3>4, <4>1
    <3>7. (t - r) + (at - t) = at - r BY <1>0, <1>8, <2>1
    <3>8. Refill((t - r) + (at - t)) <= Refill(at - t) + 1 BY <2>1, <3>5, <3>6, RefillSum
    <3>9. Refill(at - r) <= Refill(at - t) + 1 BY <3>7, <3>8
    <3>10. Passed(f, u, t) <= Passed(f, u, r + 1) /\ Passed(f, u, r + 1) \in Nat
      <4>1. r + 1 <= t BY <1>8, <2>1, <2>5
      <4> QED BY <1>2, <1>8, <2>1, <4>1, PassedFacts
    <3>11. Passed(f, u, t) + k + Refill(at - r) <= MessagesPerMinute + Refill(at - t)
      BY <1>0, <1>5, <1>8, <2>2, <3>9, <3>10, SMTT(30)
    <3> QED BY <1>0, <1>8, <2>2, <2>6, <3>11, SMTT(30)
  <2> QED BY <1>8, <2>1, <2>3, <2>4, <2>5
<1>10. Paid(g, u, d, at) BY <1>0, <1>3, <1>4, <1>6, <1>7, <1>8, <1>9 DEF Paid
<1> QED BY <1>10 DEF d, u

(* An idle bucket goes: what was let through has come back.                 *)
LEMMA PaidIdle ==
  ASSUME NEW f \in Begun, NEW u, NEW at \in 0 .. MaxTime, NEW b \in BucketOf, b # <<>>,
         Paid(f, u, b, at), b.lastRefill < at - Idle
  PROVE  Paid(f, u, <<>>, at)
<1> DEFINE r == b.lastRefill
           k == b.tokens
<1>0. /\ at \in Nat /\ MaxTime \in Nat /\ MessagesPerMinute \in Nat /\ MessagesPerMinute >= 1
      /\ Idle \in Nat /\ Minute \in Nat /\ Idle >= Minute
  BY Limits
<1>1. r \in 0 .. MaxTime /\ k \in 0 .. MessagesPerMinute BY DEF BucketOf
<1>2. IsFiniteSet(Since(f, u, 0)) /\ r < at - Idle BY DEF Paid
<1>3. /\ \A t \in 0 .. r : Passed(f, u, t) + k <= MessagesPerMinute + Refill(r - t)
      /\ Passed(f, u, r + 1) + k <= MessagesPerMinute - 1
      /\ \A n \in Since(f, u, r + 1) : Refill(f[n] - r) = 0
  BY DEF Paid
<1>f. \A n \in Messages : f[n] \in Int
  <2>1. \A n \in Messages : f[n] \in -1 .. MaxTime BY DEF Begun
  <2> QED BY <1>0, <2>1
<1> HIDE DEF r, k
<1>4. r \in Nat /\ k \in Nat /\ r + 1 \in Nat BY <1>0, <1>1
<1> SUFFICES ASSUME NEW t \in 0 .. at PROVE Passed(f, u, t) <= Refill(at - t)
  BY <1>2 DEF Paid
<1>5. t \in Nat /\ t <= at /\ at - t \in Nat BY <1>0
<1>6. Refill(at - t) \in Nat /\ Passed(f, u, t) \in Nat BY <1>2, <1>5, RefillDef, PassedFacts
<1>7. CASE t <= r
  <2>1. r - t \in Nat /\ (r - t) + Minute <= at - t /\ t \in 0 .. r BY <1>0, <1>2, <1>4, <1>5, <1>7
  <2>2. MessagesPerMinute + Refill(r - t) <= Refill(at - t) BY <1>5, <2>1, RefillMinute
  <2>3. Refill(r - t) \in Nat BY <2>1, RefillDef
  <2>4. Passed(f, u, t) + k <= MessagesPerMinute + Refill(r - t) BY <1>3, <2>1
  <2> QED BY <1>0, <1>4, <1>6, <2>2, <2>3, <2>4, SMTT(30)
<1>8. CASE Since(f, u, t) = {}
  <2>1. Passed(f, u, t) = 0 BY <1>8, FS_EmptySet DEF Passed
  <2> QED BY <1>6, <2>1
<1>9. CASE t > r /\ Since(f, u, t) # {}
  <2>1. PICK n \in Since(f, u, t) : TRUE BY <1>9
  <2>2. n \in Messages /\ f[n] >= t /\ f[n] \in Int BY <1>f, <2>1 DEF Since
  <2>3. n \in Since(f, u, r + 1) BY <1>4, <1>5, <1>9, <2>1, <2>2 DEF Since
  <2>4. Refill(f[n] - r) = 0 BY <1>3, <2>3
  <2>5. t - r \in Nat /\ f[n] - r \in Nat /\ t - r <= f[n] - r BY <1>4, <1>5, <1>9, <2>2
  <2>6. Refill(t - r) = 0
    <3>1. Refill(t - r) \in Nat /\ Refill(t - r) <= Refill(f[n] - r) BY <2>5, RefillMonotone
    <3> QED BY <2>4, <3>1
  <2>7. (t - r) + (at - t) >= Minute BY <1>0, <1>2, <1>4, <1>5
  <2>8. MessagesPerMinute - 1 <= Refill(at - t) BY <1>5, <2>5, <2>6, <2>7, RefillMinute
  <2>9. Passed(f, u, t) <= Passed(f, u, r + 1) /\ Passed(f, u, r + 1) \in Nat
    <3>1. r + 1 <= t BY <1>4, <1>5, <1>9
    <3> QED BY <1>2, <1>4, <1>5, <3>1, PassedFacts
  <2> QED BY <1>0, <1>3, <1>4, <1>6, <2>8, <2>9
<1> QED BY <1>4, <1>5, <1>7, <1>8, <1>9

(* The messages of a window of time.                                        *)
Window(f, u, t1, t2) == {m \in Messages : UserOf[m] = u /\ f[m] \in t1 .. t2}

(* A message that is let through keeps every window within the rate.        *)
LEMMA WindowMore ==
  ASSUME NEW f \in Begun, NEW m \in Messages, f[m] = -1, NEW at \in 0 .. MaxTime,
         \A n \in Messages : f[n] <= at, NEW g, More(f, m, at, g), NEW d \in BucketOf, d # <<>>,
         Paid(g, UserOf[m], d, at), NEW u, NEW t1 \in 0 .. MaxTime, NEW t2 \in 0 .. MaxTime,
         t1 <= t2, Cardinality(Window(f, u, t1, t2)) <= MessagesPerMinute + Refill(t2 - t1)
  PROVE  Cardinality(Window(g, u, t1, t2)) <= MessagesPerMinute + Refill(t2 - t1)
<1>0. /\ at \in Nat /\ MaxTime \in Nat /\ MessagesPerMinute \in Nat /\ t1 \in Nat /\ t2 \in Nat
      /\ t2 - t1 \in Nat
  BY Limits
<1>1. \A n \in Messages : f[n] \in Int /\ g[n] = IF n = m THEN at ELSE f[n] BY DEF More
<1>2. CASE UserOf[m] # u \/ t2 < at
  <2>1. \A n \in Messages : UserOf[n] = u => (f[n] \in t1 .. t2 <=> g[n] \in t1 .. t2)
    BY <1>0, <1>1, <1>2
  <2>2. Window(g, u, t1, t2) = Window(f, u, t1, t2) BY <2>1 DEF Window
  <2> QED BY <2>2
<1>3. CASE UserOf[m] = u /\ t2 >= at
  <2> DEFINE r == d.lastRefill
             k == d.tokens
  <2>1. r \in Nat /\ k \in Nat /\ r <= at /\ g \in Begun BY <1>0 DEF BucketOf, Paid, More
  <2>2. /\ IsFiniteSet(Since(g, u, 0))
        /\ \A t \in 0 .. r : Passed(g, u, t) + k <= MessagesPerMinute + Refill(r - t)
        /\ Passed(g, u, r + 1) + k <= MessagesPerMinute - 1
    BY <1>3 DEF Paid
  <2> HIDE DEF r, k
  <2>3. Window(g, u, t1, t2) = Since(g, u, t1)
    <3>1. \A n \in Messages : g[n] \in t1 .. t2 <=> g[n] >= t1 BY <1>0, <1>1, <1>3
    <3> QED BY <3>1 DEF Window, Since
  <2>4. Passed(g, u, t1) \in Nat /\ Refill(t2 - t1) \in Nat
    BY <1>0, <2>1, <2>2, PassedFacts, RefillDef
  <2>5. Passed(g, u, t1) <= MessagesPerMinute + Refill(t2 - t1)
    <3>1. CASE t1 <= r
      <4>1. t1 \in 0 .. r /\ r - t1 \in Nat /\ r - t1 <= t2 - t1 BY <1>0, <1>3, <2>1, <3>1
      <4>2. Refill(r - t1) \in Nat /\ Refill(r - t1) <= Refill(t2 - t1)
        BY <1>0, <4>1, RefillMonotone
      <4>3. Passed(g, u, t1) + k <= MessagesPerMinute + Refill(r - t1) BY <2>2, <4>1
      <4> QED BY <1>0, <2>1, <2>4, <4>2, <4>3
    <3>2. CASE t1 > r
      <4>1. r + 1 \in Nat /\ r + 1 <= t1 BY <1>0, <2>1, <3>2
      <4>2. Passed(g, u, r + 1) \in Nat /\ Passed(g, u, t1) <= Passed(g, u, r + 1)
        BY <1>0, <2>1, <2>2, <4>1, PassedFacts
      <4> QED BY <1>0, <2>1, <2>2, <2>4, <4>2
    <3> QED BY <1>0, <2>1, <3>1, <3>2
  <2> QED BY <2>3, <2>5 DEF Passed
<1> QED BY <1>0, <1>2, <1>3

LEMMA MinTwo ==
  ASSUME NEW a \in Int, NEW b \in Int
  PROVE  Min({a, b}) = IF a <= b THEN a ELSE b
<1> DEFINE x == IF a <= b THEN a ELSE b
<1>1. x \in {a, b} /\ \A y \in {a, b} : x <= y OBVIOUS
<1>2. \A z \in {a, b} : (\A y \in {a, b} : z <= y) => z = x OBVIOUS
<1> HIDE DEF x
<1>3. Min({a, b}) \in {a, b} /\ \A y \in {a, b} : Min({a, b}) <= y BY <1>1 DEF Min
<1>4. Min({a, b}) = x BY <1>2, <1>3
<1> QED BY <1>4 DEF x

LEMMA MaxOne ==
  ASSUME NEW b \in Int
  PROVE  Max({1, b}) = IF 1 >= b THEN 1 ELSE b
<1> DEFINE x == IF 1 >= b THEN 1 ELSE b
<1>1. x \in {1, b} /\ \A y \in {1, b} : x >= y OBVIOUS
<1>2. \A z \in {1, b} : (\A y \in {1, b} : z >= y) => z = x OBVIOUS
<1> HIDE DEF x
<1>3. Max({1, b}) \in {1, b} /\ \A y \in {1, b} : Max({1, b}) >= y BY <1>1 DEF Max
<1>4. Max({1, b}) = x BY <1>2, <1>3
<1> QED BY <1>4 DEF x

(* The bucket that checkRateLimit looks at.                                 *)
LEMMA BucketFacts ==
  ASSUME Types, NEW u \in Users, buckets[u] # <<>> => buckets[u].lastRefill <= now
  PROVE  LET b == buckets[u]
             c == Bucket(u)
         IN  /\ c \in BucketOf /\ c # <<>>
             /\ b = <<>> => c = [tokens |-> MessagesPerMinute, lastRefill |-> now]
             /\ b # <<>> /\ Refill(now - b.lastRefill) = 0 => c = b
             /\ b # <<>> /\ Refill(now - b.lastRefill) # 0 =>
                  /\ c.lastRefill = now /\ c.tokens > 0
                  /\ c.tokens <= b.tokens + Refill(now - b.lastRefill)
<1>0. MessagesPerMinute \in Nat /\ MessagesPerMinute >= 1 /\ now \in 0 .. MaxTime /\ MaxTime \in Nat
  BY Limits DEF Types
<1>1. CASE buckets[u] = <<>>
  <2>1. Bucket(u) = [tokens |-> MessagesPerMinute, lastRefill |-> now] BY <1>1 DEF Bucket
  <2>2. MessagesPerMinute \in 0 .. MessagesPerMinute BY <1>0
  <2> QED BY <1>0, <1>1, <2>1, <2>2, BucketType
<1>2. CASE buckets[u] # <<>>
  <2>1. PICK b \in BucketOf : b = buckets[u] /\ b # <<>> /\ b.lastRefill <= now
    BY <1>2 DEF Types
  <2>2. /\ b.lastRefill \in 0 .. MaxTime /\ b.tokens \in 0 .. MessagesPerMinute
        /\ now - b.lastRefill \in Nat
    BY <1>0, <2>1 DEF BucketOf
  <2>3. PICK add \in Nat : add = Refill(now - b.lastRefill) BY <2>2, RefillDef
  <2>4. Bucket(u) = IF add = 0 THEN b
                    ELSE [tokens |-> Min({b.tokens + add, MessagesPerMinute}), lastRefill |-> now]
    BY <2>1, <2>3 DEF Bucket, Refilled, Refill
  <2>5. CASE add = 0 BY <2>1, <2>3, <2>4, <2>5
  <2>6. CASE add # 0
    <3>0. PICK y \in Int : y = b.tokens + add /\ y > 0 BY <1>0, <2>2, <2>6
    <3>1. PICK x \in Int : /\ x = Min({b.tokens + add, MessagesPerMinute})
                           /\ x = IF y <= MessagesPerMinute THEN y ELSE MessagesPerMinute
      BY <1>0, <3>0, MinTwo
    <3>2. x \in 0 .. MessagesPerMinute /\ x > 0 /\ x <= b.tokens + add
      <4>1. x = y \/ x = MessagesPerMinute BY <3>1
      <4>2. x <= y /\ x <= MessagesPerMinute BY <1>0, <3>1
      <4>3. x > 0 BY <1>0, <3>0, <4>1
      <4> QED BY <1>0, <3>0, <4>2, <4>3
    <3>3. Bucket(u) = [tokens |-> x, lastRefill |-> now] BY <2>4, <2>6, <3>1
    <3>4. Bucket(u) \in BucketOf /\ Bucket(u) # <<>> BY <1>0, <3>2, <3>3, BucketType
    <3>5. Bucket(u).tokens = x /\ Bucket(u).lastRefill = now BY <3>3
    <3> QED BY <2>1, <2>3, <2>6, <3>2, <3>4, <3>5
  <2> QED BY <2>5, <2>6
<1> QED BY <1>1, <1>2

-----------------------------------------------------------------------------
(* The history                                                              *)

(* r is the end of h and the item.                                          *)
EndOf(S, h, item, r) ==
  /\ r \in Seq(S) /\ Len(r) <= MaxMessagesPerAgent /\ Len(r) >= 1
  /\ r[Len(r)] = item
  /\ \E d \in Nat : /\ Len(r) + d = Len(h) + 1
                    /\ \A i \in 1 .. Len(r) : r[i] = IF i + d <= Len(h) THEN h[i + d] ELSE item

(* Trimming takes from the front.                                           *)
LEMMA TrimmedFacts ==
  ASSUME NEW S, NEW h \in Seq(S), NEW item \in S
  PROVE  EndOf(S, h, item, Trimmed(Append(h, item)))
<1> DEFINE a == Append(h, item)
           n == Len(h) + 1
           m == MaxMessagesPerAgent
<1>0. m \in Nat /\ m >= 1 /\ Len(h) \in Nat /\ n \in Nat /\ n - m + 1 \in Int
  BY Limits, LenProperties
<1>1. /\ a \in Seq(S) /\ Len(a) = n
      /\ \A i \in 1 .. n : a[i] = IF i <= Len(h) THEN h[i] ELSE item
  <2>1. /\ a \in Seq(S) /\ Len(a) = Len(h) + 1 /\ \A i \in 1 .. Len(h) : a[i] = h[i]
        /\ a[Len(h) + 1] = item
    BY AppendProperties
  <2> HIDE DEF a
  <2> QED BY <1>0, <2>1
<1>2. PICK s \in Int : s = Max({1, n - m + 1}) /\ s = IF 1 >= n - m + 1 THEN 1 ELSE n - m + 1
  <2> HIDE DEF n, m
  <2>1. \A y \in Int : Max({1, y}) = IF 1 >= y THEN 1 ELSE y BY MaxOne
  <2>2. Max({1, n - m + 1}) = IF 1 >= n - m + 1 THEN 1 ELSE n - m + 1 BY <1>0, <2>1
  <2>3. (IF 1 >= n - m + 1 THEN 1 ELSE n - m + 1) \in Int BY <1>0
  <2> QED BY <2>2, <2>3
<1>3. s >= 1 /\ s <= n /\ n - s + 1 <= m
  <2>1. CASE 1 >= n - m + 1 BY <1>0, <1>2, <2>1
  <2>2. CASE ~(1 >= n - m + 1) BY <1>0, <1>2, <2>2
  <2> QED BY <2>1, <2>2
<1>4. Trimmed(a) = SubSeq(a, s, n) BY <1>1, <1>2 DEF Trimmed
<1> HIDE DEF a, n, m
<1>5. /\ SubSeq(a, s, n) \in Seq(S) /\ Len(SubSeq(a, s, n)) = n - s + 1
      /\ \A i \in 1 .. n - s + 1 : SubSeq(a, s, n)[i] = a[s + i - 1]
  BY <1>0, <1>1, <1>3, SMTT(30)
<1>6. s - 1 \in Nat /\ (n - s + 1) + (s - 1) = n BY <1>0, <1>3
<1>7. ASSUME NEW i \in 1 .. n - s + 1
      PROVE  SubSeq(a, s, n)[i] = IF i + (s - 1) <= Len(h) THEN h[i + (s - 1)] ELSE item
  <2>1. s + i - 1 \in 1 .. n /\ s + i - 1 = i + (s - 1) BY <1>0, <1>3
  <2> QED BY <1>1, <1>5, <2>1
<1>8. SubSeq(a, s, n)[n - s + 1] = item
  <2>1. n - s + 1 \in 1 .. n - s + 1 /\ ~((n - s + 1) + (s - 1) <= Len(h)) BY <1>0, <1>3 DEF n
  <2> QED BY <1>7, <2>1
<1>9. n - s + 1 >= 1 BY <1>0, <1>3
<1>10. EndOf(S, h, item, SubSeq(a, s, n))
  BY <1>0, <1>3, <1>5, <1>6, <1>7, <1>8, <1>9 DEF m, n, EndOf
<1> QED BY <1>4, <1>10 DEF a

(* historyStore.add: the entry k gets the item, and, if there was no room   *)
(* for it, another one goes.                                                *)
Added(k, item, h, g) ==
  /\ g[k] \in Seq(Items) /\ Len(g[k]) <= MaxMessagesPerAgent /\ g[k] # <<>>
  /\ item \in ToSet(g[k])
  /\ \E d \in Nat : /\ Len(g[k]) + d = Len(h[k]) + 1
                    /\ \A i \in 1 .. Len(g[k]) :
                         g[k][i] = IF i + d <= Len(h[k]) THEN h[k][i + d] ELSE item

LEMMA AddFacts ==
  ASSUME Types, SizeInv, NEW k \in Keys, NEW item \in Items, AddToHistory(k, item)
  PROVE  /\ history' \in [Keys -> Seq(Items)] /\ Added(k, item, history, history')
         /\ \/ /\ k \in Entries \/ Cardinality(Entries) < MaxHistoryKeys
               /\ \A j \in Keys \ {k} : history'[j] = history[j]
            \/ /\ k \notin Entries /\ Cardinality(Entries) = MaxHistoryKeys
               /\ \E e \in Entries \ {k} :
                    /\ history'[e] = <<>>
                    /\ \A j \in Keys \ {k, e} : history'[j] = history[j]
<1> DEFINE r == Trimmed(Append(history[k], item))
<1>0. history \in [Keys -> Seq(Items)] /\ history[k] \in Seq(Items) /\ MaxHistoryKeys \in Nat
  BY Limits DEF Types
<1>1. /\ r \in Seq(Items) /\ Len(r) <= MaxMessagesPerAgent /\ Len(r) >= 1
      /\ r[Len(r)] = item
      /\ \E d \in Nat : /\ Len(r) + d = Len(history[k]) + 1
                        /\ \A i \in 1 .. Len(r) :
                             r[i] = IF i + d <= Len(history[k]) THEN history[k][i + d] ELSE item
  <2>1. PICK h \in Seq(Items) : h = history[k] BY <1>0
  <2>2. EndOf(Items, h, item, Trimmed(Append(h, item))) BY TrimmedFacts
  <2>3. EndOf(Items, history[k], item, r) BY <2>1, <2>2
  <2> HIDE DEF r
  <2> QED BY <2>3 DEF EndOf
<1>2. r # <<>> /\ item \in ToSet(r)
  <2> HIDE DEF r
  <2>1. r # <<>> BY <1>1, EmptySeq
  <2>2. DOMAIN r = 1 .. Len(r) /\ Len(r) \in Nat BY <1>1, LenProperties
  <2>3. Len(r) \in DOMAIN r BY <1>1, <2>2
  <2> QED BY <1>1, <2>1, <2>3 DEF ToSet
<1>3. \/ /\ k \in Entries \/ Cardinality(Entries) < MaxHistoryKeys
         /\ history' = [history EXCEPT ![k] = r]
      \/ /\ k \notin Entries /\ ~(Cardinality(Entries) < MaxHistoryKeys)
         /\ \E e \in Entries : history' = [[history EXCEPT ![e] = <<>>] EXCEPT ![k] = r]
  BY DEF AddToHistory
<1> HIDE DEF r
<1>4. Entries \subseteq Keys /\ Cardinality(Entries) \in Nat
  BY FS_CardinalityType DEF Entries, SizeInv
<1>5. <<>> \in Seq(Items) BY EmptySeq
<1>6. CASE /\ k \in Entries \/ Cardinality(Entries) < MaxHistoryKeys
           /\ history' = [history EXCEPT ![k] = r]
  <2>1. history'[k] = r /\ \A j \in Keys \ {k} : history'[j] = history[j] BY <1>0, <1>6
  <2>2. history' \in [Keys -> Seq(Items)] BY <1>0, <1>1, <1>6
  <2>3. Added(k, item, history, history') BY <1>1, <1>2, <2>1 DEF Added
  <2> QED BY <1>6, <2>1, <2>2, <2>3
<1>7. CASE /\ k \notin Entries /\ ~(Cardinality(Entries) < MaxHistoryKeys)
           /\ \E e \in Entries : history' = [[history EXCEPT ![e] = <<>>] EXCEPT ![k] = r]
  <2>0. PICK e \in Entries : history' = [[history EXCEPT ![e] = <<>>] EXCEPT ![k] = r] BY <1>7
  <2>1. e # k /\ e \in Keys BY <1>4, <1>7
  <2>2. PICK g \in [Keys -> Seq(Items)] : g = [history EXCEPT ![e] = <<>>] BY <1>0, <1>5
  <2>3. history' = [g EXCEPT ![k] = r] BY <2>0, <2>2
  <2>4. g[e] = <<>> /\ \A j \in Keys \ {e} : g[j] = history[j] BY <1>0, <2>1, <2>2
  <2>5. history'[k] = r /\ \A j \in Keys \ {k} : history'[j] = g[j] BY <2>3
  <2>6. history' \in [Keys -> Seq(Items)] BY <1>1, <2>3
  <2>7. Added(k, item, history, history') BY <1>1, <1>2, <2>5 DEF Added
  <2>8. Cardinality(Entries) = MaxHistoryKeys BY <1>0, <1>4, <1>7 DEF SizeInv
  <2>9. history'[e] = <<>> /\ \A j \in Keys \ {k, e} : history'[j] = history[j]
    BY <2>1, <2>4, <2>5
  <2> QED BY <1>7, <2>1, <2>6, <2>7, <2>8, <2>9
<1> QED BY <1>3, <1>6, <1>7

(* The entries after an addition.                                           *)
LEMMA AddEntries ==
  ASSUME Types, SizeInv, NEW k \in Keys, NEW item \in Items, AddToHistory(k, item)
  PROVE  /\ SizeInv' /\ k \in Entries'
         /\ Cardinality(Entries) = MaxHistoryKeys => Cardinality(Entries') = MaxHistoryKeys
         /\ \A j \in Keys \ {k} : /\ j \in Entries' => j \in Entries /\ history'[j] = history[j]
                                  /\ j \in Entries /\ j \notin Entries' =>
                                       Cardinality(Entries') = MaxHistoryKeys
<1>0. /\ MaxHistoryKeys \in Nat /\ IsFiniteSet(Entries) /\ Cardinality(Entries) <= MaxHistoryKeys
      /\ Cardinality(Entries) \in Nat
  BY Limits, FS_CardinalityType DEF SizeInv
<1>1. Added(k, item, history, history') BY AddFacts
<1>2. k \in Entries' BY <1>1 DEF Added, Entries
<1>3. MaxMessagesPerAgent \in Nat BY Limits
<1>4. CASE /\ k \in Entries \/ Cardinality(Entries) < MaxHistoryKeys
           /\ \A j \in Keys \ {k} : history'[j] = history[j]
  <2>1. \A j \in Keys \ {k} : j \in Entries' <=> j \in Entries BY <1>4 DEF Entries
  <2>2. Entries' = Entries \cup {k} BY <1>2, <2>1 DEF Entries
  <2>3. /\ IsFiniteSet(Entries') /\ Cardinality(Entries') <= MaxHistoryKeys
        /\ Cardinality(Entries) = MaxHistoryKeys => Entries' = Entries
    <3>1. CASE k \in Entries
      <4>1. Entries' = Entries BY <2>2, <3>1
      <4> QED BY <1>0, <4>1
    <3>2. CASE k \notin Entries
      <4>1. IsFiniteSet(Entries') /\ Cardinality(Entries') = Cardinality(Entries) + 1
        BY <1>0, <2>2, <3>2, FS_AddElement
      <4> QED BY <1>0, <1>4, <3>2, <4>1
    <3> QED BY <3>1, <3>2
  <2>4. \A j \in Keys : Len(history'[j]) <= MaxMessagesPerAgent
    BY <1>1, <1>4 DEF Added, SizeInv
  <2> QED BY <1>2, <1>4, <2>1, <2>3, <2>4 DEF SizeInv
<1>5. CASE /\ k \notin Entries /\ Cardinality(Entries) = MaxHistoryKeys
           /\ \E e \in Entries \ {k} :
                /\ history'[e] = <<>>
                /\ \A j \in Keys \ {k, e} : history'[j] = history[j]
  <2>0. PICK e \in Entries \ {k} : /\ history'[e] = <<>>
                                   /\ \A j \in Keys \ {k, e} : history'[j] = history[j]
    BY <1>5
  <2>1. \A j \in Keys \ {k} : j \in Entries' <=> j \in Entries /\ j # e BY <2>0 DEF Entries
  <2>2. Entries' = (Entries \ {e}) \cup {k} BY <1>2, <2>1 DEF Entries
  <2>3. IsFiniteSet(Entries \ {e}) /\ Cardinality(Entries \ {e}) = Cardinality(Entries) - 1
    BY <1>0, <2>0, FS_RemoveElement
  <2>4. /\ IsFiniteSet((Entries \ {e}) \cup {k})
        /\ Cardinality((Entries \ {e}) \cup {k}) = Cardinality(Entries \ {e}) + 1
    BY <1>5, <2>3, FS_AddElement
  <2>5. IsFiniteSet(Entries') /\ Cardinality(Entries') = MaxHistoryKeys
    BY <1>0, <1>5, <2>2, <2>3, <2>4
  <2>6. \A j \in Keys : Len(history'[j]) <= MaxMessagesPerAgent
    <3>1. Len(<<>>) <= MaxMessagesPerAgent BY <1>3, EmptySeq
    <3> QED BY <1>1, <2>0, <3>1 DEF Added, SizeInv
  <2> QED BY <1>0, <1>2, <2>0, <2>1, <2>5, <2>6 DEF SizeInv
<1> QED BY <1>4, <1>5, AddFacts

-----------------------------------------------------------------------------
(* What a step does                                                         *)

LEMMA Constants ==
  /\ NoAgent \notin Agents /\ Owner \in Users
  /\ \A m \in Messages : UserOf[m] \in Users /\ Names[m] \in Agents \cup {NoAgent}
  /\ \A known \in Configs : known \subseteq Agents
  /\ OverSlack \in BOOLEAN
  BY ConversationAssumption

(* Only the message m moves.                                                *)
Elsewhere(m) ==
  \A n \in Messages \ {m} :
    stage'[n] = stage[n] /\ config'[n] = config[n] /\ start'[n] = start[n] /\ agent'[n] = agent[n]

Came(m) ==
  /\ stage[m] = "sent" /\ stage'[m] = Entrance
  /\ earlier'[m] = {n \in OfUser(m) : stage[n] = "end"}
  /\ \A n \in Messages \ {m} : earlier'[n] = earlier[n]
  /\ UNCHANGED <<agent, lastAddressed, history, start>>

Plain(m) ==
  /\ stage[m] \notin {"sent", "end"} /\ stage'[m] \in Stages \ {"sent", "loop", "record", "chat"}
  /\ stage[m] = "loop" => stage'[m] = "handler" /\ HasSlot
  /\ stage'[m] = "handler" => stage[m] = "loop"
  /\ stage'[m] = "answer" => IsOwner(m)
  /\ stage[m] \notin Unrouted => stage'[m] = "end"
  /\ UNCHANGED <<earlier, agent, lastAddressed, history>>

Routed(m) ==
  /\ stage[m] = "route" /\ stage'[m] = "record" /\ config'[m] = config[m]
  /\ agent'[m] \in Agents
  /\ \/ /\ FindAgent(m) # NoAgent /\ lastAddressed'[UserOf[m]] = agent'[m]
        /\ \A u \in Users \ {UserOf[m]} : lastAddressed'[u] = lastAddressed[u]
     \/ /\ FindAgent(m) = NoAgent /\ agent'[m] = lastAddressed[UserOf[m]]
        /\ lastAddressed' = lastAddressed
  /\ UNCHANGED <<earlier, history>>

Said(m) ==
  /\ stage[m] = "record" /\ stage'[m] = "chat"
  /\ AddToHistory(Key(m, agent[m]), <<"user", m>>)
  /\ UNCHANGED <<earlier, agent, lastAddressed>>

Replied(m) ==
  /\ stage[m] = "chat" /\ stage'[m] = "end"
  /\ AddToHistory(Key(m, agent[m]), <<"assistant", m>>)
  /\ UNCHANGED <<earlier, agent, lastAddressed>>

Quiet ==
  /\ UNCHANGED <<stage, earlier, agent, config, start, history>>
  /\ \A u \in Users : lastAddressed'[u] \in {lastAddressed[u], NoAgent}

LEMMA GoesFacts ==
  ASSUME Types, NEW m \in Messages, NEW s \in Stages, Goes(m, s)
  PROVE  /\ stage' \in [Messages -> Stages] /\ stage'[m] = s
         /\ \A n \in Messages \ {m} : stage'[n] = stage[n]
  BY DEF Goes, Types

LEMMA EndsFacts ==
  ASSUME Types, NEW m \in Messages, Ends(m)
  PROVE  /\ Goes(m, "end") /\ config' \in [Messages -> SUBSET Agents]
         /\ \A n \in Messages \ {m} : config'[n] = config[n]
  BY DEF Ends, Types

LEMMA StageNames ==
  /\ {"sent", "loop", "handler", "config", "thread", "answer", "route", "record", "chat",
      "end"} \subseteq Stages
  /\ Entrance \in Stages
  BY DEF Stages, Entrance

LEMMA MessageSteps ==
  ASSUME Types, NEW m \in Messages, Arrive(m) \/ Step(m)
  PROVE  Elsewhere(m) /\ (Came(m) \/ Plain(m) \/ Routed(m) \/ Said(m) \/ Replied(m))
<1> USE StageNames
<1>1. CASE Arrive(m)
  <2>1. stage'[m] = Entrance /\ \A n \in Messages \ {m} : stage'[n] = stage[n]
    BY <1>1, GoesFacts DEF Arrive
  <2> QED BY <1>1, <2>1 DEF Arrive, Elsewhere, Came, Types
<1>2. CASE Dispatch(m)
  <2>1. stage'[m] = "handler" /\ \A n \in Messages \ {m} : stage'[n] = stage[n]
    BY <1>2, GoesFacts DEF Dispatch
  <2> QED BY <1>2, <2>1 DEF Dispatch, Elsewhere, Plain, Stages, Unrouted
<1>3. CASE TooFast(m) \/ TurnedAway(m) \/ Answer(m) \/ QueryFails(m) \/ ChatFails(m)
  <2>0. Ends(m) BY <1>3 DEF TooFast, TurnedAway, Answer, QueryFails, ChatFails
  <2>1. stage'[m] = "end" /\ \A n \in Messages \ {m} : stage'[n] = stage[n]
    BY <2>0, EndsFacts, GoesFacts
  <2>2. \A n \in Messages \ {m} : config'[n] = config[n] BY <2>0, EndsFacts
  <2>3. /\ stage[m] \notin {"sent", "loop", "end"}
        /\ UNCHANGED <<start, agent, earlier, lastAddressed, history>>
    BY <1>3 DEF TooFast, TurnedAway, Answer, QueryFails, ChatFails
  <2> QED BY <2>1, <2>2, <2>3 DEF Elsewhere, Plain, Stages
<1>4. CASE CheckRateLimit(m)
  <2>1. UNCHANGED <<agent, earlier, lastAddressed, history>> /\ stage[m] = "handler"
    BY <1>4 DEF CheckRateLimit
  <2>2. CASE start' = [start EXCEPT ![m] = now] /\ Goes(m, "config") /\ UNCHANGED config
    <3>1. stage'[m] = "config" /\ \A n \in Messages \ {m} : stage'[n] = stage[n]
      BY <2>2, GoesFacts
    <3>2. \A n \in Messages \ {m} : start'[n] = start[n] BY <2>2 DEF Types
    <3> QED BY <2>1, <2>2, <3>1, <3>2 DEF Elsewhere, Plain, Stages, Unrouted
  <2>3. CASE Ends(m) /\ UNCHANGED start
    <3>1. stage'[m] = "end" /\ \A n \in Messages \ {m} : stage'[n] = stage[n]
      BY <2>3, EndsFacts, GoesFacts
    <3>2. \A n \in Messages \ {m} : config'[n] = config[n] BY <2>3, EndsFacts
    <3> QED BY <2>1, <2>3, <3>1, <3>2 DEF Elsewhere, Plain, Stages
  <2> QED BY <1>4, <2>2, <2>3 DEF CheckRateLimit
<1>5. CASE Configure(m)
  <2>1. UNCHANGED <<start, agent, earlier, lastAddressed, history>> /\ stage[m] = "config"
    BY <1>5 DEF Configure
  <2>2. CASE Ends(m)
    <3>1. stage'[m] = "end" /\ \A n \in Messages \ {m} : stage'[n] = stage[n]
      BY <2>2, EndsFacts, GoesFacts
    <3>2. \A n \in Messages \ {m} : config'[n] = config[n] BY <2>2, EndsFacts
    <3> QED BY <2>1, <3>1, <3>2 DEF Elsewhere, Plain, Stages
  <2>3. ASSUME NEW s \in {"thread", "route"}, NEW known, Goes(m, s),
               config' = [config EXCEPT ![m] = known]
        PROVE  Elsewhere(m) /\ Plain(m)
    <3>1. stage'[m] = s /\ \A n \in Messages \ {m} : stage'[n] = stage[n]
      BY <2>3, GoesFacts
    <3>2. \A n \in Messages \ {m} : config'[n] = config[n] BY <2>3 DEF Types
    <3> QED BY <2>1, <3>1, <3>2 DEF Elsewhere, Plain, Stages, Unrouted
  <2> QED BY <1>5, <2>2, <2>3 DEF Configure
<1>6. CASE LookForQuestion(m)
  <2>1. UNCHANGED <<start, agent, earlier, lastAddressed, history>> /\ stage[m] = "thread"
    BY <1>6 DEF LookForQuestion
  <2>2. CASE Ends(m)
    <3>1. stage'[m] = "end" /\ \A n \in Messages \ {m} : stage'[n] = stage[n]
      BY <2>2, EndsFacts, GoesFacts
    <3>2. \A n \in Messages \ {m} : config'[n] = config[n] BY <2>2, EndsFacts
    <3> QED BY <2>1, <3>1, <3>2 DEF Elsewhere, Plain, Stages
  <2>3. ASSUME NEW s \in {"answer", "route"}, Goes(m, s), UNCHANGED config,
               s = "answer" => IsOwner(m)
        PROVE  Elsewhere(m) /\ Plain(m)
    <3>1. stage'[m] = s /\ \A n \in Messages \ {m} : stage'[n] = stage[n]
      BY <2>3, GoesFacts
    <3> QED BY <2>1, <2>3, <3>1 DEF Elsewhere, Plain, Stages, Unrouted
  <2> QED BY <1>6, <2>2, <2>3 DEF LookForQuestion
<1>7. CASE Route(m)
  <2>0. /\ UNCHANGED <<start, earlier, history>> /\ stage[m] = "route" /\ UserOf[m] \in Users
        /\ lastAddressed \in [Users -> Agents \cup {NoAgent}] /\ config[m] \subseteq Agents
        /\ agent \in [Messages -> Agents \cup {NoAgent}]
    BY <1>7, Constants DEF Route, Types
  <2>1. CASE Ends(m) /\ UNCHANGED <<lastAddressed, agent>>
    <3>1. stage'[m] = "end" /\ \A n \in Messages \ {m} : stage'[n] = stage[n]
      BY <2>1, EndsFacts, GoesFacts
    <3>2. \A n \in Messages \ {m} : config'[n] = config[n] BY <2>1, EndsFacts
    <3> QED BY <2>0, <2>1, <3>1, <3>2 DEF Elsewhere, Plain, Stages
  <2>2. CASE /\ FindAgent(m) # NoAgent
             /\ lastAddressed' = Addressed(UserOf[m], FindAgent(m))
             /\ agent' = [agent EXCEPT ![m] = FindAgent(m)]
             /\ Goes(m, "record") /\ UNCHANGED config
    <3>1. stage'[m] = "record" /\ \A n \in Messages \ {m} : stage'[n] = stage[n]
      BY <2>2, GoesFacts
    <3>2. FindAgent(m) \in Agents BY <2>0, <2>2 DEF FindAgent
    <3>3. agent'[m] = FindAgent(m) /\ \A n \in Messages \ {m} : agent'[n] = agent[n]
      BY <2>0, <2>2
    <3>4. /\ lastAddressed'[UserOf[m]] = FindAgent(m)
          /\ \A u \in Users \ {UserOf[m]} : lastAddressed'[u] = lastAddressed[u]
      BY <2>0, <2>2 DEF Addressed
    <3> QED BY <2>0, <2>2, <3>1, <3>2, <3>3, <3>4 DEF Elsewhere, Routed
  <2>3. CASE /\ FindAgent(m) = NoAgent /\ lastAddressed[UserOf[m]] \in config[m]
             /\ agent' = [agent EXCEPT ![m] = lastAddressed[UserOf[m]]]
             /\ Goes(m, "record") /\ UNCHANGED <<lastAddressed, config>>
    <3>1. stage'[m] = "record" /\ \A n \in Messages \ {m} : stage'[n] = stage[n]
      BY <2>3, GoesFacts
    <3>3. /\ agent'[m] = lastAddressed[UserOf[m]] /\ agent'[m] \in Agents
          /\ \A n \in Messages \ {m} : agent'[n] = agent[n]
      BY <2>0, <2>3
    <3> QED BY <2>0, <2>3, <3>1, <3>3 DEF Elsewhere, Routed
  <2> QED BY <1>7, <2>1, <2>2, <2>3 DEF Route
<1>8. CASE Record(m)
  <2>1. stage'[m] = "chat" /\ \A n \in Messages \ {m} : stage'[n] = stage[n]
    BY <1>8, GoesFacts DEF Record
  <2>2. \A n \in Messages \ {m} : config'[n] = config[n] BY <1>8 DEF Record, Types
  <2> QED BY <1>8, <2>1, <2>2 DEF Record, Elsewhere, Said
<1>9. CASE Reply(m)
  <2>0. Ends(m) BY <1>9 DEF Reply
  <2>1. stage'[m] = "end" /\ \A n \in Messages \ {m} : stage'[n] = stage[n]
    BY <2>0, EndsFacts, GoesFacts
  <2>2. \A n \in Messages \ {m} : config'[n] = config[n] BY <2>0, EndsFacts
  <2> QED BY <1>9, <2>1, <2>2 DEF Reply, Elsewhere, Replied
<1> QED BY <1>1, <1>2, <1>3, <1>4, <1>5, <1>6, <1>7, <1>8, <1>9 DEF Step

LEMMA Steps ==
  ASSUME Types, [Next]_vars
  PROVE  \/ Quiet
         \/ \E m \in Messages :
              Elsewhere(m) /\ (Came(m) \/ Plain(m) \/ Routed(m) \/ Said(m) \/ Replied(m))
<1>1. CASE \E m \in Messages : Arrive(m) \/ Step(m) BY <1>1, MessageSteps
<1>2. CASE \E u \in Users : Forget(u)
  <2>1. PICK u \in Users : Forget(u) BY <1>2
  <2>2. \A v \in Users : lastAddressed'[v] \in {lastAddressed[v], NoAgent}
    BY <2>1 DEF Forget, Types
  <2> QED BY <2>1, <2>2 DEF Forget, Quiet, messageVars
<1>3. CASE Tick \/ CleanupRateLimiters \/ Register \/ Settle \/ CleanupThreads
  BY <1>3 DEF Tick, CleanupRateLimiters, Register, Settle, CleanupThreads, Quiet, messageVars
<1>4. CASE UNCHANGED vars BY <1>4 DEF vars, messageVars, Quiet
<1> QED BY <1>1, <1>2, <1>3, <1>4 DEF Next

-----------------------------------------------------------------------------
(* The types                                                                *)

LEMMA KeyFacts ==
  ASSUME Types, RouteInv, NEW m \in Messages, stage[m] \in {"record", "chat"}
  PROVE  /\ Key(m, agent[m]) \in Keys
         /\ <<"user", m>> \in Items /\ <<"assistant", m>> \in Items
  BY Constants DEF RouteInv, Key, Keys, Items

(* The bucket after checkRateLimit.                                         *)
LEMMA BucketLeft ==
  ASSUME Types, RateInv, NEW m \in Messages, CheckRateLimit(m)
  PROVE  LET u == UserOf[m]
             c == Bucket(u)
         IN  /\ u \in Users /\ c \in BucketOf /\ c # <<>>
             /\ c.tokens \in 0 .. MessagesPerMinute /\ c.lastRefill \in 0 .. MaxTime
             /\ c = [tokens |-> c.tokens, lastRefill |-> c.lastRefill]
             /\ buckets' \in [Users -> BucketOf \cup {<<>>}]
             /\ \A v \in Users \ {u} : buckets'[v] = buckets[v]
             /\ \/ /\ c.tokens > 0 /\ start' = [start EXCEPT ![m] = now]
                   /\ buckets'[u] = [c EXCEPT !.tokens = c.tokens - 1]
                   /\ buckets'[u] = [tokens |-> c.tokens - 1, lastRefill |-> c.lastRefill]
                   /\ buckets'[u] \in BucketOf /\ buckets'[u] # <<>>
                   /\ stage'[m] = "config"
                \/ /\ c.tokens = 0 /\ start' = start /\ buckets'[u] = c
                   /\ stage'[m] = "end"
<1>0. /\ MessagesPerMinute \in Nat /\ UserOf[m] \in Users
      /\ buckets \in [Users -> BucketOf \cup {<<>>}]
  BY Limits, Constants DEF Types
<1>1. PICK u \in Users : u = UserOf[m] BY <1>0
<1>2. buckets[u] # <<>> => buckets[u].lastRefill <= now BY DEF RateInv, Paid
<1>3. Bucket(u) \in BucketOf /\ Bucket(u) # <<>> BY <1>2, BucketFacts
<1>4. PICK c \in BucketOf : c = Bucket(u) /\ c # <<>> BY <1>3
<1>5. /\ c.tokens \in 0 .. MessagesPerMinute /\ c.lastRefill \in 0 .. MaxTime
      /\ c = [tokens |-> c.tokens, lastRefill |-> c.lastRefill]
  BY DEF BucketOf
<1>6. CASE /\ c.tokens > 0
           /\ buckets' = [buckets EXCEPT ![u] = [c EXCEPT !.tokens = c.tokens - 1]]
           /\ start' = [start EXCEPT ![m] = now] /\ Goes(m, "config")
  <2>1. c.tokens - 1 \in 0 .. MessagesPerMinute BY <1>0, <1>5, <1>6
  <2>2. PICK d : d = [c EXCEPT !.tokens = c.tokens - 1] OBVIOUS
  <2>3. d = [tokens |-> c.tokens - 1, lastRefill |-> c.lastRefill]
    BY <2>2 DEF BucketOf
  <2>4. d \in BucketOf /\ d # <<>> BY <1>5, <2>1, <2>3, BucketType
  <2>5. buckets' = [buckets EXCEPT ![u] = d] BY <1>6, <2>2
  <2>6. /\ buckets'[u] = d /\ buckets' \in [Users -> BucketOf \cup {<<>>}]
        /\ \A v \in Users \ {u} : buckets'[v] = buckets[v]
    BY <1>0, <2>4, <2>5
  <2>7. stage'[m] = "config" BY <1>6, GoesFacts, StageNames
  <2> QED BY <1>1, <1>4, <1>5, <1>6, <2>2, <2>3, <2>4, <2>6, <2>7
<1>7. CASE ~(c.tokens > 0) /\ buckets' = [buckets EXCEPT ![u] = c] /\ Ends(m) /\ UNCHANGED start
  <2>1. c.tokens = 0 BY <1>0, <1>5, <1>7
  <2>2. stage'[m] = "end" BY <1>7, GoesFacts, EndsFacts, StageNames
  <2>3. /\ buckets'[u] = c /\ buckets' \in [Users -> BucketOf \cup {<<>>}]
        /\ \A v \in Users \ {u} : buckets'[v] = buckets[v]
    BY <1>0, <1>7
  <2> QED BY <1>1, <1>4, <1>5, <1>7, <2>1, <2>2, <2>3
<1> QED BY <1>1, <1>4, <1>6, <1>7 DEF CheckRateLimit

LEMMA NextTypes ==
  ASSUME Types, RouteInv, SizeInv, RateInv, [Next]_vars
  PROVE  Types'
<1> USE StageNames
<1>1. ASSUME NEW m \in Messages, Arrive(m) PROVE Types'
  <2>1. stage' \in [Messages -> Stages] BY <1>1, GoesFacts DEF Arrive
  <2>2. earlier' \in [Messages -> SUBSET Messages] BY <1>1 DEF Arrive, Types, OfUser
  <2> QED BY <1>1, <2>1, <2>2 DEF Arrive, Types, questionVars
<1>2. ASSUME NEW m \in Messages, Dispatch(m) PROVE Types'
  <2>1. stage' \in [Messages -> Stages] BY <1>2, GoesFacts DEF Dispatch
  <2> QED BY <1>2, <2>1 DEF Dispatch, Types, questionVars
<1>3. ASSUME NEW m \in Messages, TooFast(m) \/ TurnedAway(m) \/ QueryFails(m) \/ ChatFails(m)
      PROVE  Types'
  <2>0. Ends(m) BY <1>3 DEF TooFast, TurnedAway, QueryFails, ChatFails
  <2>1. stage' \in [Messages -> Stages] /\ config' \in [Messages -> SUBSET Agents]
    BY <2>0, GoesFacts, EndsFacts
  <2> QED BY <1>3, <2>1 DEF TooFast, TurnedAway, QueryFails, ChatFails, Types, questionVars
<1>4. ASSUME NEW m \in Messages, Answer(m) PROVE Types'
  <2>1. stage' \in [Messages -> Stages] /\ config' \in [Messages -> SUBSET Agents]
    BY <1>4, GoesFacts, EndsFacts DEF Answer
  <2> QED BY <1>4, <2>1 DEF Answer, Types, questionVars
<1>5. ASSUME NEW m \in Messages, CheckRateLimit(m) PROVE Types'
  <2>1. stage' \in [Messages -> Stages] /\ config' \in [Messages -> SUBSET Agents]
    BY <1>5, GoesFacts, EndsFacts DEF CheckRateLimit, Types
  <2>2. buckets' \in [Users -> BucketOf \cup {<<>>}] BY <1>5, BucketLeft
  <2>3. now \in -1 .. MaxTime BY Limits DEF Types
  <2>4. start' \in [Messages -> -1 .. MaxTime] BY <1>5, <2>3 DEF CheckRateLimit, Types
  <2>5. UNCHANGED <<now, agent, earlier, questionVars, lastAddressed, history>>
    BY <1>5 DEF CheckRateLimit
  <2> QED BY <2>1, <2>2, <2>4, <2>5 DEF Types, questionVars
<1>6. ASSUME NEW m \in Messages, Configure(m) PROVE Types'
  <2>1. PICK known \in Configs :
          \/ Ends(m)
          \/ /\ Goes(m, "thread") \/ Goes(m, "route")
             /\ config' = [config EXCEPT ![m] = known]
    BY <1>6 DEF Configure
  <2>2. stage' \in [Messages -> Stages] BY <2>1, GoesFacts, EndsFacts
  <2>3. config' \in [Messages -> SUBSET Agents] BY <2>1, EndsFacts, Constants DEF Types
  <2> QED BY <1>6, <2>2, <2>3 DEF Configure, Types, questionVars
<1>7. ASSUME NEW m \in Messages, LookForQuestion(m) PROVE Types'
  <2>1. \/ Ends(m)
        \/ (Goes(m, "route") \/ Goes(m, "answer")) /\ UNCHANGED config
    BY <1>7 DEF LookForQuestion
  <2>2. stage' \in [Messages -> Stages] BY <2>1, GoesFacts, EndsFacts
  <2>3. config' \in [Messages -> SUBSET Agents] BY <2>1, EndsFacts DEF Types
  <2> QED BY <1>7, <2>2, <2>3 DEF LookForQuestion, Types, questionVars
<1>8. ASSUME NEW m \in Messages, Route(m) PROVE Types'
  <2>0. /\ UserOf[m] \in Users /\ lastAddressed[UserOf[m]] \in Agents \cup {NoAgent}
        /\ FindAgent(m) \in Agents \cup {NoAgent}
    BY Constants DEF Types, FindAgent
  <2>1. (Goes(m, "record") /\ UNCHANGED config) \/ Ends(m) BY <1>8 DEF Route
  <2>2. stage' \in [Messages -> Stages] BY <2>1, GoesFacts, EndsFacts
  <2>3. config' \in [Messages -> SUBSET Agents] BY <2>1, EndsFacts DEF Types
  <2>4. lastAddressed' \in [Users -> Agents \cup {NoAgent}]
    BY <1>8, <2>0 DEF Route, Addressed, Types
  <2>5. agent' \in [Messages -> Agents \cup {NoAgent}] BY <1>8, <2>0 DEF Route, Types
  <2>6. UNCHANGED <<now, start, earlier, buckets, questionVars, history>> BY <1>8 DEF Route
  <2> QED BY <2>2, <2>3, <2>4, <2>5, <2>6 DEF Types, questionVars
<1>9. ASSUME NEW m \in Messages, Record(m) \/ Reply(m) PROVE Types'
  <2>1. stage[m] \in {"record", "chat"} BY <1>9 DEF Record, Reply
  <2>2. history' \in [Keys -> Seq(Items)]
    BY <1>9, <2>1, KeyFacts, AddFacts DEF Record, Reply
  <2>3. stage' \in [Messages -> Stages] BY <1>9, GoesFacts, EndsFacts DEF Record, Reply
  <2>4. config' \in [Messages -> SUBSET Agents] BY <1>9, EndsFacts DEF Record, Reply, Types
  <2>5. UNCHANGED <<now, start, agent, earlier, buckets, questionVars, lastAddressed>>
    BY <1>9 DEF Record, Reply
  <2> QED BY <2>2, <2>3, <2>4, <2>5 DEF Types, questionVars
<1>10. ASSUME NEW u \in Users, Forget(u) PROVE Types'
  BY <1>10 DEF Forget, Types, messageVars, questionVars
<1>11. ASSUME Tick PROVE Types'
  <2>1. now' \in 0 .. MaxTime BY <1>11, Limits DEF Tick, Types
  <2> QED BY <1>11, <2>1 DEF Tick, Types, messageVars, questionVars
<1>12. ASSUME CleanupRateLimiters PROVE Types'
  BY <1>12 DEF CleanupRateLimiters, Types, messageVars, questionVars
<1>13. ASSUME Register \/ Settle \/ CleanupThreads PROVE Types'
  BY <1>13 DEF Register, Settle, CleanupThreads, Types, messageVars
<1>14. ASSUME UNCHANGED vars PROVE Types'
  BY <1>14 DEF vars, Types, messageVars, questionVars
<1> QED
  BY <1>1, <1>2, <1>3, <1>4, <1>5, <1>6, <1>7, <1>8, <1>9, <1>10, <1>11, <1>12, <1>13, <1>14
  DEF Next, Step

-----------------------------------------------------------------------------
(* The slots, the routing and the answers                                   *)

LEMMA NextSlots ==
  ASSUME Types, SlotInv, [Next]_vars
  PROVE  SlotInv'
<1> SUFFICES ASSUME OverSlack PROVE IsFiniteSet(Handlers') /\ Cardinality(Handlers') <= MaxHandlers
  BY DEF SlotInv
<1>0. /\ IsFiniteSet(Handlers) /\ Cardinality(Handlers) <= MaxHandlers /\ MaxHandlers \in Nat
      /\ Cardinality(Handlers) \in Nat
  BY Limits, FS_CardinalityType DEF SlotInv
<1>1. ASSUME Handlers' \subseteq Handlers
      PROVE  IsFiniteSet(Handlers') /\ Cardinality(Handlers') <= MaxHandlers
  <2>1. /\ IsFiniteSet(Handlers') /\ Cardinality(Handlers') <= Cardinality(Handlers)
        /\ Cardinality(Handlers') \in Nat
    BY <1>0, <1>1, FS_Subset, FS_CardinalityType
  <2> QED BY <1>0, <2>1
<1>2. CASE Quiet
  <2>1. Handlers' = Handlers BY <1>2 DEF Quiet, Handlers
  <2> QED BY <1>1, <2>1
<1>3. ASSUME NEW m \in Messages, Elsewhere(m), Came(m) \/ Plain(m) \/ Routed(m) \/ Said(m) \/ Replied(m)
      PROVE  IsFiniteSet(Handlers') /\ Cardinality(Handlers') <= MaxHandlers
  <2>1. CASE stage[m] = "loop"
    <3>1. stage'[m] = "handler" /\ HasSlot BY <1>3, <2>1 DEF Came, Plain, Routed, Said, Replied
    <3>2. Handlers' = Handlers \cup {m} BY <1>3, <3>1 DEF Handlers, Elsewhere
    <3>3. m \notin Handlers BY <2>1 DEF Handlers
    <3>4. /\ IsFiniteSet(Handlers \cup {m})
          /\ Cardinality(Handlers \cup {m}) = Cardinality(Handlers) + 1
      BY <1>0, <3>3, FS_AddElement
    <3> QED BY <1>0, <3>1, <3>2, <3>4 DEF HasSlot
  <2>2. CASE stage[m] # "loop"
    <3>1. m \in Handlers' => m \in Handlers
      BY <1>3, <2>2 DEF Handlers, Came, Plain, Routed, Said, Replied, Entrance
    <3>2. \A n \in Messages \ {m} : n \in Handlers' => n \in Handlers
      BY <1>3 DEF Handlers, Elsewhere
    <3>3. Handlers' \subseteq Handlers BY <3>1, <3>2 DEF Handlers
    <3> QED BY <1>1, <3>3
  <2> QED BY <2>1, <2>2
<1> QED BY <1>2, <1>3, Steps

LEMMA NextRoute ==
  ASSUME Types, RouteInv, [Next]_vars
  PROVE  RouteInv'
<1>0. Types /\ RouteInv OBVIOUS
<1>1. CASE Quiet BY <1>1 DEF Quiet, RouteInv, IsOwner
<1>2. ASSUME NEW m \in Messages, Elsewhere(m), Came(m) \/ Plain(m) \/ Routed(m) \/ Said(m) \/ Replied(m)
      PROVE  RouteInv'
  <2>0. stage[m] # "end" BY <1>2 DEF Came, Plain, Routed, Said, Replied
  <2>1. ASSUME NEW n \in Messages
        PROVE  /\ stage'[n] \in Unrouted => agent'[n] = NoAgent
               /\ stage'[n] \in {"record", "chat"} => agent'[n] \in Agents
               /\ stage'[n] = "answer" => IsOwner(n)
    <3>1. CASE n = m
      <4>1. CASE Came(m) BY <3>1, <4>1 DEF Came, RouteInv, Unrouted, Stages, Entrance
      <4>2. CASE Plain(m) BY <3>1, <4>2 DEF Plain, RouteInv, Unrouted, Stages
      <4>3. CASE Routed(m) \/ Said(m) \/ Replied(m)
        BY <3>1, <4>3 DEF Routed, Said, Replied, RouteInv, Unrouted, Stages
      <4> QED BY <1>2, <4>1, <4>2, <4>3
    <3>2. CASE n # m BY <1>2, <3>2 DEF Elsewhere, RouteInv
    <3> QED BY <3>1, <3>2
  <2>2. ASSUME NEW n \in Messages
        PROVE  /\ \A k \in earlier'[n] : UserOf[k] = UserOf[n] /\ stage'[k] = "end"
               /\ stage'[n] = "sent" => earlier'[n] = {}
    <3>1. CASE Came(m)
      <4>1. CASE n = m BY <1>2, <2>0, <3>1, <4>1 DEF Came, OfUser, Elsewhere, Entrance
      <4>2. CASE n # m
        BY <1>2, <2>0, <3>1, <4>2 DEF Came, RouteInv, Elsewhere, Types
      <4> QED BY <4>1, <4>2
    <3>2. CASE Plain(m) \/ Routed(m) \/ Said(m) \/ Replied(m)
      <4>1. earlier' = earlier BY <3>2 DEF Plain, Routed, Said, Replied
      <4>2. stage'[m] # "sent" BY <3>2 DEF Plain, Routed, Said, Replied
      <4> QED BY <1>2, <2>0, <4>1, <4>2 DEF RouteInv, Elsewhere, Types
    <3> QED BY <1>2, <3>1, <3>2
  <2> QED BY <2>1, <2>2 DEF RouteInv, IsOwner
<1> QED BY <1>1, <1>2, Steps

LEMMA NextLast ==
  ASSUME Types, RouteInv, LastInv, [Next]_vars
  PROVE  LastInv'
<1>0. Types /\ RouteInv OBVIOUS
<1> SUFFICES ASSUME NEW u \in Users, lastAddressed'[u] # NoAgent
             PROVE  \E n \in Messages :
                      /\ UserOf[n] = u /\ agent'[n] = lastAddressed'[u] /\ stage'[n] \notin Unrouted
                      /\ \A k \in Messages : n \in earlier'[k] => agent'[k] \in {agent'[n], NoAgent}
  BY DEF LastInv
<1>1. CASE Quiet BY <1>1 DEF Quiet, LastInv
<1>2. ASSUME NEW m \in Messages, Elsewhere(m), Came(m) \/ Plain(m) \/ Said(m) \/ Replied(m)
      PROVE  \E n \in Messages :
               /\ UserOf[n] = u /\ agent'[n] = lastAddressed'[u] /\ stage'[n] \notin Unrouted
               /\ \A k \in Messages : n \in earlier'[k] => agent'[k] \in {agent'[n], NoAgent}
  <2>0. agent' = agent /\ lastAddressed' = lastAddressed BY <1>2 DEF Came, Plain, Said, Replied
  <2>1. PICK n \in Messages :
          /\ UserOf[n] = u /\ agent[n] = lastAddressed[u] /\ stage[n] \notin Unrouted
          /\ \A k \in Messages : n \in earlier[k] => agent[k] \in {agent[n], NoAgent}
    BY <2>0 DEF LastInv
  <2>2. stage'[n] \notin Unrouted
    BY <1>2, <2>1 DEF Elsewhere, Came, Plain, Said, Replied, Unrouted, Stages
  <2>3. ASSUME NEW k \in Messages, n \in earlier'[k] PROVE agent[k] \in {agent[n], NoAgent}
    <3>1. CASE Came(m) /\ k = m BY <3>1 DEF Came, RouteInv, Unrouted, Stages
    <3>2. CASE ~(Came(m) /\ k = m)
      <4>1. earlier'[k] = earlier[k] BY <1>2, <3>2 DEF Came, Plain, Said, Replied
      <4> QED BY <2>1, <2>3, <4>1
    <3> QED BY <3>1, <3>2
  <2> QED BY <2>0, <2>1, <2>2, <2>3
<1>3. ASSUME NEW m \in Messages, Elsewhere(m), Routed(m)
      PROVE  \E n \in Messages :
               /\ UserOf[n] = u /\ agent'[n] = lastAddressed'[u] /\ stage'[n] \notin Unrouted
               /\ \A k \in Messages : n \in earlier'[k] => agent'[k] \in {agent'[n], NoAgent}
  <2>0. /\ earlier' = earlier /\ stage[m] = "route" /\ stage[m] \in Unrouted
        /\ stage'[m] = "record" /\ stage'[m] \notin Unrouted
        /\ \A n \in Messages \ {m} : agent'[n] = agent[n] /\ stage'[n] = stage[n]
    BY <1>3 DEF Routed, Elsewhere, Unrouted, Stages
  <2>1. CASE UserOf[m] = u /\ FindAgent(m) # NoAgent
    <3>1. agent'[m] = lastAddressed'[u] BY <1>3, <2>1 DEF Routed
    <3>2. \A k \in Messages : m \notin earlier[k] BY <2>0 DEF RouteInv
    <3> QED BY <2>0, <2>1, <3>1, <3>2
  <2>2. CASE ~(UserOf[m] = u /\ FindAgent(m) # NoAgent)
    <3>1. lastAddressed'[u] = lastAddressed[u] BY <1>3, <2>2 DEF Routed
    <3>2. PICK n \in Messages :
            /\ UserOf[n] = u /\ agent[n] = lastAddressed[u] /\ stage[n] \notin Unrouted
            /\ \A k \in Messages : n \in earlier[k] => agent[k] \in {agent[n], NoAgent}
      BY <3>1 DEF LastInv
    <3>3. n # m /\ agent'[n] = agent[n] BY <2>0, <3>2
    <3>4. n \in earlier[m] => agent'[m] = agent[n]
      <4>1. n \in earlier[m] => UserOf[m] = u BY <3>2 DEF RouteInv
      <4>2. UserOf[m] = u => agent'[m] = lastAddressed[u] BY <1>3, <2>2 DEF Routed
      <4> QED BY <3>2, <4>1, <4>2
    <3> QED BY <2>0, <3>1, <3>2, <3>3, <3>4
  <2> QED BY <2>1, <2>2
<1> QED BY <1>1, <1>2, <1>3, Steps

LEMMA NextFollowUp ==
  ASSUME Types, RouteInv, LastInv, FollowUpGoesToLast, [Next]_vars
  PROVE  FollowUpGoesToLast'
<1>0. Types /\ RouteInv OBVIOUS
<1> SUFFICES ASSUME NEW m \in Messages, stage'[m] = "record", FindAgent(m)' = NoAgent
             PROVE  \E n \in OfUser(m) \ {m} :
                      /\ agent'[n] = agent'[m] /\ m \notin earlier'[n]
                      /\ \A k \in earlier'[m] : n \in earlier'[k] => agent'[k] \in {agent'[n], NoAgent}
  BY DEF FollowUpGoesToLast, OfUser
<1>1. CASE Quiet
  <2>1. FindAgent(m) = NoAgent BY <1>1 DEF Quiet, FindAgent
  <2> QED BY <1>1, <2>1 DEF Quiet, FollowUpGoesToLast
<1>2. ASSUME NEW p \in Messages, Elsewhere(p), Came(p) \/ Plain(p) \/ Routed(p) \/ Said(p) \/ Replied(p)
      PROVE  \E n \in OfUser(m) \ {m} :
               /\ agent'[n] = agent'[m] /\ m \notin earlier'[n]
               /\ \A k \in earlier'[m] : n \in earlier'[k] => agent'[k] \in {agent'[n], NoAgent}
  <2>1. CASE p = m
    <3>0. Routed(m) BY <1>2, <2>1 DEF Came, Plain, Said, Replied, Entrance
    <3>1. FindAgent(m) = NoAgent BY <3>0 DEF Routed, FindAgent
    <3>2. /\ agent'[m] = lastAddressed[UserOf[m]] /\ agent'[m] \in Agents /\ earlier' = earlier
          /\ stage[m] = "route" /\ UserOf[m] \in Users
      BY <3>0, <3>1, Constants DEF Routed
    <3>3. PICK n \in Messages :
            /\ UserOf[n] = UserOf[m] /\ agent[n] = lastAddressed[UserOf[m]]
            /\ stage[n] \notin Unrouted
            /\ \A k \in Messages : n \in earlier[k] => agent[k] \in {agent[n], NoAgent}
      BY <3>2, Constants DEF LastInv
    <3>4. n # m BY <3>2, <3>3 DEF Unrouted, Stages
    <3>5. \A k \in Messages : m \notin earlier[k] BY <3>2 DEF RouteInv
    <3>6. \A k \in earlier[m] : k \in Messages /\ k # m BY <3>2 DEF RouteInv, Types
    <3>7. \A k \in Messages \ {m} : agent'[k] = agent[k] BY <1>2, <2>1 DEF Elsewhere
    <3> QED BY <3>2, <3>3, <3>4, <3>5, <3>6, <3>7 DEF OfUser
  <2>2. CASE p # m
    <3>1. stage[m] = "record" /\ config'[m] = config[m] /\ agent'[m] = agent[m]
      BY <1>2, <2>2 DEF Elsewhere
    <3>2. FindAgent(m) = NoAgent BY <3>1 DEF FindAgent
    <3>3. agent[m] \in Agents BY <3>1 DEF RouteInv
    <3>4. PICK n \in OfUser(m) \ {m} :
            /\ agent[n] = agent[m] /\ m \notin earlier[n]
            /\ \A k \in earlier[m] : n \in earlier[k] => agent[k] \in {agent[n], NoAgent}
      BY <3>1, <3>2 DEF FollowUpGoesToLast
    <3>5. n \in Messages /\ agent[n] # NoAgent BY <3>3, <3>4, Constants DEF OfUser
    <3>6. stage[n] \notin Unrouted BY <3>5 DEF RouteInv
    <3>7. agent'[n] = agent[n] /\ earlier'[n] = earlier[n]
      BY <1>2, <3>5, <3>6 DEF Elsewhere, Came, Plain, Routed, Said, Replied, Unrouted, Stages
    <3>8. earlier'[m] = earlier[m]
      BY <1>2, <2>2, <3>1 DEF Came, Plain, Routed, Said, Replied
    <3>9. \A k \in earlier[m] : k \in Messages /\ k # p
      BY <1>2 DEF RouteInv, Types, Came, Plain, Routed, Said, Replied
    <3>10. \A k \in earlier[m] : agent'[k] = agent[k] /\ earlier'[k] = earlier[k]
      BY <1>2, <3>9 DEF Elsewhere, Came, Plain, Routed, Said, Replied
    <3> QED BY <3>1, <3>4, <3>7, <3>8, <3>10
  <2> QED BY <2>1, <2>2
<1> QED BY <1>1, <1>2, Steps

LEMMA NextAnswers ==
  ASSUME Types, RouteInv, OnlyOwnerAnswers, [Next]_vars
  PROVE  OnlyOwnerAnswers'
<1>1. ASSUME NEW m \in Messages, Answer(m) PROVE OnlyOwnerAnswers'
  <2>1. IsOwner(m) /\ writers' = writers \cup {m} BY <1>1 DEF Answer, RouteInv
  <2> QED BY <2>1 DEF OnlyOwnerAnswers, IsOwner
<1>2. CASE UNCHANGED writers BY <1>2 DEF OnlyOwnerAnswers
<1>3. UNCHANGED writers \/ \E m \in Messages : Answer(m)
  BY DEF Next, Step, vars, questionVars, Arrive, Dispatch, TooFast, TurnedAway, CheckRateLimit,
    Configure, LookForQuestion, QueryFails, Route, Record, Reply, ChatFails, Forget, Tick,
    CleanupRateLimiters, Register, Settle, CleanupThreads
<1> QED BY <1>1, <1>2, <1>3

-----------------------------------------------------------------------------
(* What is in the histories                                                 *)

(* ItemInv for one history.                                                 *)
Own(h, k, at, to) ==
  \A i \in 1 .. Len(h) :
    /\ Key(h[i][2], to[h[i][2]]) = k /\ at[h[i][2]] \in {"chat", "end"}
    /\ h[i][1] = "assistant" => at[h[i][2]] = "end"
    /\ \A j \in 1 .. Len(h) : i < j => h[j] \notin {h[i], <<"user", h[i][2]>>}

LEMMA ItemsAreOwn ==
  ASSUME NEW hist \in [Keys -> Seq(Items)], NEW k \in Keys
  PROVE  DOMAIN hist[k] = 1 .. Len(hist[k]) /\ Len(hist[k]) \in Nat
  BY LenProperties

LEMMA OwnMoved ==
  ASSUME NEW h \in Seq(Items), NEW k, NEW at, NEW to, Own(h, k, at, to), NEW at2, NEW to2,
         \A n \in Messages : at[n] \in {"chat", "end"} =>
           /\ to2[n] = to[n] /\ at2[n] \in {"chat", "end"}
           /\ at[n] = "end" => at2[n] = "end"
  PROVE  Own(h, k, at2, to2)
<1>1. \A i \in 1 .. Len(h) : h[i][2] \in Messages BY DEF Items
<1> QED BY <1>1 DEF Own

LEMMA OwnAdded ==
  ASSUME NEW h \in Seq(Items), NEW k, NEW at, NEW to, Own(h, k, at, to), NEW g \in Seq(Items),
         NEW m \in Messages, NEW item \in Items, item[2] = m, Key(m, to[m]) = k,
         at[m] \in {"chat", "end"}, item[1] = "assistant" => at[m] = "end",
         \A i \in 1 .. Len(h) : item \notin {h[i], <<"user", h[i][2]>>},
         NEW d \in Nat, Len(g) + d = Len(h) + 1,
         \A i \in 1 .. Len(g) : g[i] = IF i + d <= Len(h) THEN h[i + d] ELSE item
  PROVE  Own(g, k, at, to)
<1>0. Len(h) \in Nat /\ Len(g) \in Nat BY LenProperties
<1>1. ASSUME NEW i \in 1 .. Len(g)
      PROVE  /\ i + d \in 1 .. Len(h) + 1
             /\ i + d <= Len(h) => i + d \in 1 .. Len(h) /\ g[i] = h[i + d]
             /\ ~(i + d <= Len(h)) => i = Len(g) /\ g[i] = item
  BY <1>0
<1>2. ASSUME NEW i \in 1 .. Len(g)
      PROVE  /\ Key(g[i][2], to[g[i][2]]) = k /\ at[g[i][2]] \in {"chat", "end"}
             /\ g[i][1] = "assistant" => at[g[i][2]] = "end"
  <2>1. CASE i + d <= Len(h) BY <1>1, <2>1 DEF Own
  <2>2. CASE ~(i + d <= Len(h)) BY <1>1, <2>2
  <2> QED BY <2>1, <2>2
<1>3. ASSUME NEW i \in 1 .. Len(g), NEW j \in 1 .. Len(g), i < j
      PROVE  g[j] \notin {g[i], <<"user", g[i][2]>>}
  <2>1. i + d <= Len(h) /\ i + d < j + d BY <1>0, <1>1, <1>3
  <2>2. i + d \in 1 .. Len(h) /\ g[i] = h[i + d] BY <1>1, <2>1
  <2>3. CASE j + d <= Len(h)
    <3>1. j + d \in 1 .. Len(h) /\ g[j] = h[j + d] BY <1>1, <2>3
    <3> QED BY <2>1, <2>2, <3>1 DEF Own
  <2>4. CASE ~(j + d <= Len(h))
    <3>1. g[j] = item BY <1>1, <2>4
    <3> QED BY <2>2, <3>1
  <2> QED BY <2>3, <2>4
<1> QED BY <1>2, <1>3 DEF Own

LEMMA ItemInvIsOwn ==
  ASSUME Types
  PROVE  ItemInv <=> \A k \in Keys : Own(history[k], k, stage, agent)
<1>1. \A k \in Keys : DOMAIN history[k] = 1 .. Len(history[k]) BY ItemsAreOwn DEF Types
<1> QED BY <1>1 DEF ItemInv, Own

LEMMA NextItems ==
  ASSUME Types, RouteInv, SizeInv, ItemInv, [Next]_vars, Types'
  PROVE  ItemInv'
<1>0. /\ \A k \in Keys : Own(history[k], k, stage, agent)
      /\ history \in [Keys -> Seq(Items)] /\ history' \in [Keys -> Seq(Items)]
  BY ItemInvIsOwn DEF Types
<1> SUFFICES ASSUME NEW k \in Keys PROVE Own(history'[k], k, stage', agent')
  <2>1. \A k \in Keys : DOMAIN history'[k] = 1 .. Len(history'[k]) BY <1>0, ItemsAreOwn
  <2> QED BY <2>1 DEF ItemInv, Own, Key
<1>1. PICK h \in Seq(Items) : h = history[k] BY <1>0
<1>2. PICK g \in Seq(Items) : g = history'[k] BY <1>0
<1>3. Own(h, k, stage, agent) BY <1>0, <1>1
<1>4. CASE Quiet
  <2>1. history' = history /\ stage' = stage /\ agent' = agent BY <1>4 DEF Quiet
  <2> QED BY <1>0, <2>1
<1>5. ASSUME NEW m \in Messages, Elsewhere(m), Came(m) \/ Plain(m) \/ Routed(m) \/ Said(m) \/ Replied(m)
      PROVE  Own(history'[k], k, stage', agent')
  <2>1. \A n \in Messages : stage[n] \in {"chat", "end"} =>
          /\ agent'[n] = agent[n] /\ stage'[n] \in {"chat", "end"}
          /\ stage[n] = "end" => stage'[n] = "end"
    BY <1>5 DEF Elsewhere, Came, Plain, Routed, Said, Replied, Unrouted, Stages
  <2>2. Own(h, k, stage', agent') BY <1>3, <2>1, OwnMoved
  <2>3. CASE Came(m) \/ Plain(m) \/ Routed(m)
    <3>1. history' = history BY <2>3 DEF Came, Plain, Routed
    <3> QED BY <1>1, <2>2, <3>1
  <2>4. ASSUME NEW item \in Items, item[2] = m, stage[m] \in {"record", "chat"},
               AddToHistory(Key(m, agent[m]), item), agent' = agent,
               stage'[m] \in {"chat", "end"}, item[1] = "assistant" => stage'[m] = "end",
               \A i \in 1 .. Len(h) : item \notin {h[i], <<"user", h[i][2]>>}
        PROVE  Own(history'[k], k, stage', agent')
    <3>0. PICK key \in Keys : key = Key(m, agent[m]) BY <2>4, KeyFacts
    <3>1. CASE k = key
      <4>1. Added(key, item, history, history') BY <2>4, <3>0, AddFacts
      <4>2. PICK d \in Nat : /\ Len(g) + d = Len(h) + 1
                             /\ \A i \in 1 .. Len(g) :
                                  g[i] = IF i + d <= Len(h) THEN h[i + d] ELSE item
        BY <1>1, <1>2, <3>1, <4>1 DEF Added
      <4>3. Key(m, agent'[m]) = k BY <2>4, <3>0, <3>1
      <4>4. Own(g, k, stage', agent') BY <2>2, <2>4, <4>2, <4>3, OwnAdded
      <4> QED BY <1>2, <4>4
    <3>2. CASE k # key
      <4>1. k \in Entries' => history'[k] = history[k] BY <2>4, <3>0, <3>2, AddEntries
      <4>2. CASE k \in Entries' BY <1>1, <2>2, <4>1, <4>2
      <4>3. CASE k \notin Entries'
        <5>1. history'[k] = <<>> BY <4>3 DEF Entries
        <5>2. Len(<<>>) = 0 BY EmptySeq
        <5>3. 1 .. 0 = {} OBVIOUS
        <5> QED BY <5>1, <5>2, <5>3 DEF Own
      <4> QED BY <4>2, <4>3
    <3> QED BY <3>1, <3>2
  <2>5. CASE Said(m)
    <3>1. <<"user", m>> \in Items /\ stage[m] = "record" BY <2>5 DEF Said, Items
    <3>2. \A i \in 1 .. Len(h) : h[i][2] # m BY <1>3, <3>1 DEF Own
    <3>3. \A i \in 1 .. Len(h) : <<"user", m>> \notin {h[i], <<"user", h[i][2]>>} BY <3>2
    <3> QED BY <2>4, <2>5, <3>1, <3>3 DEF Said
  <2>6. CASE Replied(m)
    <3>1. <<"assistant", m>> \in Items /\ stage[m] = "chat" BY <2>6 DEF Replied, Items
    <3>2. \A i \in 1 .. Len(h) : <<"assistant", m>> \notin {h[i], <<"user", h[i][2]>>}
      BY <1>3, <3>1 DEF Own
    <3> QED BY <2>4, <2>6, <3>1, <3>2 DEF Replied
  <2> QED BY <1>5, <2>3, <2>5, <2>6
<1> QED BY <1>4, <1>5, Steps

LEMMA NextSizes ==
  ASSUME Types, RouteInv, SizeInv, [Next]_vars
  PROVE  SizeInv'
<1>1. CASE UNCHANGED history BY <1>1 DEF SizeInv, Entries
<1>2. ASSUME NEW m \in Messages, Said(m) \/ Replied(m) PROVE SizeInv'
  <2>1. stage[m] \in {"record", "chat"} BY <1>2 DEF Said, Replied
  <2>2. PICK key \in Keys : key = Key(m, agent[m]) BY <2>1, KeyFacts
  <2>3. PICK item \in Items : AddToHistory(key, item)
    BY <1>2, <2>1, <2>2, KeyFacts DEF Said, Replied
  <2> QED BY <2>3, AddEntries
<1>3. UNCHANGED history \/ \E m \in Messages : Said(m) \/ Replied(m)
  BY Steps DEF Quiet, Came, Plain, Routed
<1> QED BY <1>1, <1>2, <1>3

LEMMA NextChat ==
  ASSUME Types, RouteInv, SizeInv, ChatInv, [Next]_vars
  PROVE  ChatInv'
<1> SUFFICES ASSUME NEW m \in Messages, stage'[m] = "chat"
             PROVE  \/ <<"user", m>> \in ToSet(history'[Key(m, agent'[m])])
                    \/ \E n \in OfUser(m) \ (earlier'[m] \cup {m}) : agent'[n] = agent'[m]
                    \/ /\ Key(m, agent'[m]) \notin Entries'
                       /\ Cardinality(Entries') = MaxHistoryKeys
  BY DEF ChatInv, OfUser, Key
<1>0. ASSUME stage[m] = "chat"
      PROVE  \/ <<"user", m>> \in ToSet(history[Key(m, agent[m])])
             \/ \E n \in OfUser(m) \ (earlier[m] \cup {m}) : agent[n] = agent[m]
             \/ Key(m, agent[m]) \notin Entries /\ Cardinality(Entries) = MaxHistoryKeys
  BY <1>0 DEF ChatInv
<1>1. CASE Quiet
  <2>1. Entries' = Entries BY <1>1 DEF Quiet, Entries
  <2> QED BY <1>0, <1>1, <2>1 DEF Quiet
<1>2. ASSUME NEW p \in Messages, Elsewhere(p), Came(p) \/ Plain(p) \/ Routed(p)
      PROVE  \/ <<"user", m>> \in ToSet(history'[Key(m, agent'[m])])
             \/ \E n \in OfUser(m) \ (earlier'[m] \cup {m}) : agent'[n] = agent'[m]
             \/ Key(m, agent'[m]) \notin Entries' /\ Cardinality(Entries') = MaxHistoryKeys
  <2>1. m # p BY <1>2 DEF Came, Plain, Routed, Entrance
  <2>2. stage[m] = "chat" /\ agent'[m] = agent[m] /\ earlier'[m] = earlier[m]
    BY <1>2, <2>1 DEF Elsewhere, Came, Plain, Routed
  <2>3. history' = history /\ Entries' = Entries BY <1>2 DEF Came, Plain, Routed, Entries
  <2>4. agent[m] # NoAgent BY <2>2, Constants DEF RouteInv
  <2>5. \A n \in Messages : agent[n] = agent[m] => agent'[n] = agent[n]
    BY <1>2, <2>4 DEF Elsewhere, Came, Plain, Routed, RouteInv, Unrouted, Stages
  <2> QED BY <1>0, <2>2, <2>3, <2>5 DEF OfUser
<1>3. ASSUME NEW p \in Messages, Elsewhere(p), Said(p) \/ Replied(p)
      PROVE  \/ <<"user", m>> \in ToSet(history'[Key(m, agent'[m])])
             \/ \E n \in OfUser(m) \ (earlier'[m] \cup {m}) : agent'[n] = agent'[m]
             \/ Key(m, agent'[m]) \notin Entries' /\ Cardinality(Entries') = MaxHistoryKeys
  <2>1. stage[p] \in {"record", "chat"} /\ agent' = agent /\ earlier' = earlier
    BY <1>3 DEF Said, Replied
  <2>2. PICK key \in Keys : key = Key(p, agent[p]) BY <2>1, KeyFacts
  <2>3. CASE m = p
    <3>1. AddToHistory(key, <<"user", m>>) /\ <<"user", m>> \in Items
      BY <1>3, <2>2, <2>3 DEF Said, Replied, Items
    <3>2. Added(key, <<"user", m>>, history, history') BY <3>1, AddFacts
    <3> QED BY <2>1, <2>2, <2>3, <3>2 DEF Added
  <2>4. CASE m # p
    <3>0. stage[m] = "chat" BY <1>3, <2>4 DEF Elsewhere
    <3>1. PICK j \in Keys : j = Key(m, agent[m]) BY <3>0, KeyFacts
    <3>2. CASE j = key
      <4>1. UserOf[p] = UserOf[m] /\ agent[p] = agent[m] BY <2>2, <3>1, <3>2 DEF Key
      <4>2. p \notin earlier[m] BY <2>1 DEF RouteInv
      <4> QED BY <2>1, <2>4, <4>1, <4>2 DEF OfUser
    <3>3. CASE j # key
      <4>0. PICK item \in Items : AddToHistory(key, item)
        BY <1>3, <2>1, <2>2, KeyFacts DEF Said, Replied
      <4>1. /\ Cardinality(Entries) = MaxHistoryKeys => Cardinality(Entries') = MaxHistoryKeys
            /\ j \in Entries' => j \in Entries /\ history'[j] = history[j]
            /\ j \in Entries /\ j \notin Entries' => Cardinality(Entries') = MaxHistoryKeys
        BY <3>3, <4>0, AddEntries
      <4>2. <<"user", m>> \in ToSet(history[j]) => j \in Entries
        <5>1. ToSet(<<>>) = {} BY EmptySeq DEF ToSet
        <5> QED BY <5>1 DEF Entries
      <4> QED BY <1>0, <2>1, <3>0, <3>1, <4>1, <4>2
    <3> QED BY <3>2, <3>3
  <2> QED BY <2>3, <2>4
<1> QED BY <1>1, <1>2, <1>3, Steps

-----------------------------------------------------------------------------
(* The rate                                                                 *)

(* The messages of another user.                                            *)
LEMMA PaidOther ==
  ASSUME NEW f \in Begun, NEW m \in Messages, NEW at, NEW g, More(f, m, at, g),
         NEW u, UserOf[m] # u, NEW b, Paid(f, u, b, at)
  PROVE  Paid(g, u, b, at)
<1>1. \A n \in Messages : UserOf[n] = u => g[n] = f[n] BY DEF More
<1>2. \A t : Since(g, u, t) = Since(f, u, t) BY <1>1 DEF Since
<1>3. \A t : Passed(g, u, t) = Passed(f, u, t) BY <1>2 DEF Passed
<1>4. \A t : \A n \in Since(f, u, t) : g[n] = f[n] BY <1>1 DEF Since
<1> QED BY <1>2, <1>3, <1>4 DEF Paid

(* The one action that lets a message through, and the two others that      *)
(* touch a bucket or the clock.                                             *)
LEMMA RateSteps ==
  ASSUME Types, [Next]_vars
  PROVE  \/ UNCHANGED <<start, buckets, now>>
         \/ Tick
         \/ CleanupRateLimiters
         \/ \E m \in Messages : CheckRateLimit(m) /\ Elsewhere(m) /\ now' = now
<1>1. ASSUME NEW m \in Messages, CheckRateLimit(m)
      PROVE  CheckRateLimit(m) /\ Elsewhere(m) /\ now' = now
  BY <1>1, MessageSteps DEF CheckRateLimit, Step
<1>2. ASSUME NEW m \in Messages, Arrive(m) \/ Step(m), ~CheckRateLimit(m)
      PROVE  UNCHANGED <<start, buckets, now>>
  BY <1>2 DEF Step, Arrive, Dispatch, TooFast, TurnedAway, Configure, LookForQuestion, Answer,
    QueryFails, Route, Record, Reply, ChatFails
<1>3. CASE \/ \E u \in Users : Forget(u)
           \/ Register \/ Settle \/ CleanupThreads \/ UNCHANGED vars
  BY <1>3 DEF Forget, Register, Settle, CleanupThreads, vars, messageVars
<1> QED BY <1>1, <1>2, <1>3 DEF Next

(* checkRateLimit pays.                                                     *)
LEMMA CheckPays ==
  ASSUME Types, Types', RateInv, NEW m \in Messages, CheckRateLimit(m), now' = now
  PROVE  \/ start' = start /\ buckets' = buckets
         \/ /\ Paid(start', UserOf[m], buckets'[UserOf[m]], now) /\ More(start, m, now, start')
            /\ buckets'[UserOf[m]] \in BucketOf /\ buckets'[UserOf[m]] # <<>>
            /\ \A v \in Users \ {UserOf[m]} : buckets'[v] = buckets[v]
<1>0. /\ MessagesPerMinute \in Nat /\ MessagesPerMinute >= 1 /\ UserOf[m] \in Users
      /\ now \in 0 .. MaxTime /\ MaxTime \in Nat /\ start \in Begun /\ start' \in Begun
      /\ stage[m] = "handler"
  BY Limits, Constants DEF Types, Begun, CheckRateLimit
<1>1. PICK u \in Users : u = UserOf[m] BY <1>0
<1>2. /\ start[m] = -1 /\ \A n \in Messages : start[n] <= now
      /\ Paid(start, u, buckets[u], now)
  BY <1>0 DEF RateInv
<1>3. PICK b : b = buckets[u] OBVIOUS
<1>4. b = <<>> \/ b \in BucketOf BY <1>3 DEF Types
<1>5. b # <<>> => b.lastRefill <= now BY <1>2, <1>3 DEF Paid
<1>6. PICK c : c = Bucket(u) OBVIOUS
<1>7. /\ c \in BucketOf /\ c # <<>>
      /\ b = <<>> => c = [tokens |-> MessagesPerMinute, lastRefill |-> now]
      /\ b # <<>> /\ Refill(now - b.lastRefill) = 0 => c = b
      /\ b # <<>> /\ Refill(now - b.lastRefill) # 0 =>
           /\ c.lastRefill = now /\ c.tokens > 0
           /\ c.tokens <= b.tokens + Refill(now - b.lastRefill)
  BY <1>3, <1>5, <1>6, BucketFacts
<1>8. /\ c.tokens \in 0 .. MessagesPerMinute
      /\ buckets' \in [Users -> BucketOf \cup {<<>>}]
      /\ \A v \in Users \ {u} : buckets'[v] = buckets[v]
      /\ \/ /\ c.tokens > 0 /\ start' = [start EXCEPT ![m] = now]
            /\ buckets'[u] = [c EXCEPT !.tokens = c.tokens - 1]
            /\ buckets'[u] = [tokens |-> c.tokens - 1, lastRefill |-> c.lastRefill]
            /\ buckets'[u] \in BucketOf /\ buckets'[u] # <<>>
         \/ c.tokens = 0 /\ start' = start /\ buckets'[u] = c
  BY <1>1, <1>6, BucketLeft
<1>9. CASE c.tokens = 0 /\ start' = start /\ buckets'[u] = c
  <2>1. b # <<>>
    <3>1. b = <<>> => c.tokens = MessagesPerMinute BY <1>7
    <3> QED BY <1>0, <1>9, <3>1
  <2>2. Refill(now - b.lastRefill) = 0
    <3>1. ~(c.tokens > 0) BY <1>9
    <3> QED BY <1>7, <2>1, <3>1
  <2>3. buckets'[u] = buckets[u] BY <1>3, <1>7, <1>9, <2>1, <2>2
  <2>4. buckets' = buckets BY <1>8, <2>3 DEF Types
  <2> QED BY <1>9, <2>4
<1>10. CASE /\ c.tokens > 0 /\ start' = [start EXCEPT ![m] = now]
            /\ buckets'[u] = [c EXCEPT !.tokens = c.tokens - 1]
            /\ buckets'[u] = [tokens |-> c.tokens - 1, lastRefill |-> c.lastRefill]
            /\ buckets'[u] \in BucketOf /\ buckets'[u] # <<>>
  <2>1. PICK f \in Begun : f = start BY <1>0
  <2>2. PICK g \in Begun : g = start' BY <1>0
  <2>3. PICK at \in 0 .. MaxTime : at = now BY <1>0
  <2>4. More(f, m, at, g)
    <3>1. \A n \in Messages : f[n] \in Int BY <1>0, <2>1 DEF Begun
    <3>2. \A n \in Messages : g[n] = IF n = m THEN at ELSE f[n]
      BY <1>10, <2>1, <2>2, <2>3 DEF Types
    <3> QED BY <2>2, <3>1, <3>2 DEF More
  <2>5. f[m] = -1 /\ (\A n \in Messages : f[n] <= at) /\ Paid(f, UserOf[m], b, at)
    BY <1>1, <1>2, <1>3, <2>1, <2>3
  <2>6. PICK d \in BucketOf : d = buckets'[u] /\ d # <<>> BY <1>10
  <2>7. Paid(g, UserOf[m], d, at)
    <3>1. CASE b = <<>>
      <4>1. Paid(f, UserOf[m], <<>>, at) BY <2>5, <3>1
      <4>2. Paid(g, UserOf[m], [tokens |-> MessagesPerMinute - 1, lastRefill |-> at], at)
        BY <2>4, <2>5, <4>1, PaidFirst
      <4>3. d = [tokens |-> MessagesPerMinute - 1, lastRefill |-> at]
        BY <1>7, <1>10, <2>3, <2>6, <3>1
      <4> QED BY <4>2, <4>3
    <3>2. CASE b # <<>> /\ Refill(at - b.lastRefill) = 0
      <4>1. c = b BY <1>7, <2>3, <3>2
      <4>2. d = [b EXCEPT !.tokens = b.tokens - 1] BY <1>10, <2>6, <4>1
      <4>3. b \in BucketOf /\ b.tokens > 0 BY <1>7, <1>10, <4>1
      <4>4. Paid(g, UserOf[m], [b EXCEPT !.tokens = b.tokens - 1], at)
        BY <2>4, <2>5, <3>2, <4>3, PaidSame
      <4> QED BY <4>2, <4>4
    <3>3. CASE b # <<>> /\ Refill(at - b.lastRefill) # 0
      <4>1. c.lastRefill = at /\ c.tokens > 0 /\ c.tokens <= b.tokens + Refill(at - b.lastRefill)
        BY <1>7, <2>3, <3>3
      <4>2. PICK k \in 0 .. MessagesPerMinute : k = c.tokens BY <1>8
      <4>3. d = [tokens |-> k - 1, lastRefill |-> at] BY <1>10, <2>6, <4>1, <4>2
      <4>4. b \in BucketOf BY <1>4, <3>3
      <4>5. Paid(g, UserOf[m], [tokens |-> k - 1, lastRefill |-> at], at)
        BY <2>4, <2>5, <3>3, <4>1, <4>2, <4>4, PaidRefilled
      <4> QED BY <4>3, <4>5
    <3> QED BY <3>1, <3>2, <3>3
  <2>8. More(start, m, now, start') BY <2>1, <2>2, <2>3, <2>4
  <2> QED BY <1>1, <1>8, <1>10, <2>2, <2>3, <2>6, <2>7, <2>8
<1> QED BY <1>8, <1>9, <1>10

LEMMA NextStarts ==
  ASSUME Types, Types', RateInv, [Next]_vars
  PROVE  \A m \in Messages :
           start'[m] <= now' /\ (stage'[m] \in {"sent", "loop", "handler"} => start'[m] = -1)
<1>0. /\ now \in Int /\ now' \in Int /\ MaxTime \in Nat
      /\ \A m \in Messages : start[m] \in Int /\ start'[m] \in Int
  BY Limits DEF Types
<1>1. ASSUME NEW m \in Messages
      PROVE  start[m] <= now /\ (stage[m] \in {"sent", "loop", "handler"} => start[m] = -1)
  BY DEF RateInv
<1>2. CASE \E m \in Messages : CheckRateLimit(m) /\ Elsewhere(m) /\ now' = now
  <2>1. PICK m \in Messages : CheckRateLimit(m) /\ Elsewhere(m) /\ now' = now BY <1>2
  <2>2. stage'[m] \in {"config", "end"} BY <2>1, BucketLeft
  <2>3. start'[m] \in {now, start[m]} BY <2>1, BucketLeft DEF Types
  <2>4. start'[m] <= now' BY <1>0, <1>1, <2>1, <2>3
  <2> QED BY <1>1, <2>1, <2>2, <2>4 DEF Elsewhere
<1>3. CASE ~\E m \in Messages : CheckRateLimit(m) /\ Elsewhere(m) /\ now' = now
  <2>1. start' = start /\ now <= now'
    <3>1. CASE Tick BY <1>0, <3>1 DEF Tick, messageVars
    <3>2. CASE CleanupRateLimiters BY <1>0, <3>2 DEF CleanupRateLimiters, messageVars
    <3>3. CASE UNCHANGED <<start, buckets, now>> BY <1>0, <3>3
    <3> QED BY <1>3, <3>1, <3>2, <3>3, RateSteps
  <2>2. ASSUME NEW m \in Messages, stage'[m] \in {"sent", "loop", "handler"}
        PROVE  stage[m] \in {"sent", "loop", "handler"}
    <3>1. CASE Quiet BY <2>2, <3>1 DEF Quiet
    <3>2. ASSUME NEW p \in Messages, Elsewhere(p),
                 Came(p) \/ Plain(p) \/ Routed(p) \/ Said(p) \/ Replied(p)
          PROVE  stage[m] \in {"sent", "loop", "handler"}
      <4>1. CASE m # p BY <2>2, <3>2, <4>1 DEF Elsewhere
      <4>2. CASE m = p BY <2>2, <3>2, <4>2 DEF Came, Plain, Routed, Said, Replied
      <4> QED BY <4>1, <4>2
    <3> QED BY <3>1, <3>2, Steps
  <2> QED BY <1>0, <1>1, <2>1, <2>2
<1> QED BY <1>2, <1>3

LEMMA NextRate ==
  ASSUME Types, Types', RateInv, RateHolds, [Next]_vars
  PROVE  RateInv' /\ RateHolds'
<1>0. /\ now \in 0 .. MaxTime /\ now' \in 0 .. MaxTime /\ MaxTime \in Nat /\ start \in Begun
      /\ start' \in Begun /\ buckets \in [Users -> BucketOf \cup {<<>>}]
      /\ \A m \in Messages : start[m] <= now
  BY Limits DEF Types, Begun, RateInv
<1>1. PICK f \in Begun : f = start BY <1>0
<1>2. PICK at \in 0 .. MaxTime : at = now BY <1>0
<1>3. ASSUME start' = start, \A u \in Users : Paid(start, u, buckets'[u], now')
      PROVE  RateInv' /\ RateHolds'
  BY <1>3, NextStarts DEF RateInv, RateHolds
<1>4. CASE UNCHANGED <<start, buckets, now>> BY <1>3, <1>4 DEF RateInv
<1>5. CASE Tick
  <2>0. start' = start /\ buckets' = buckets /\ now' = now + 1 BY <1>5 DEF Tick, messageVars
  <2>1. PICK later \in Nat : later = now' /\ at <= later /\ at \in Nat BY <1>0, <1>2, <2>0
  <2>2. ASSUME NEW u \in Users PROVE Paid(start, u, buckets'[u], now')
    <3>1. PICK b \in BucketOf \cup {<<>>} : b = buckets[u] BY <1>0
    <3>2. Paid(f, u, b, at) /\ \A m \in Messages : f[m] <= at
      BY <1>0, <1>1, <1>2, <3>1 DEF RateInv
    <3>3. Paid(f, u, b, later) BY <2>1, <3>2, PaidLater
    <3> QED BY <1>1, <2>0, <2>1, <3>1, <3>3
  <2> QED BY <1>3, <2>0, <2>2
<1>6. CASE CleanupRateLimiters
  <2>0. /\ start' = start /\ now' = now
        /\ buckets' = [u \in Users |-> IF buckets[u] # <<>> /\ Stale(buckets[u]) THEN <<>>
                                       ELSE buckets[u]]
    BY <1>6 DEF CleanupRateLimiters, messageVars
  <2>2. ASSUME NEW u \in Users PROVE Paid(start, u, buckets'[u], now')
    <3>1. PICK b \in BucketOf \cup {<<>>} : b = buckets[u] BY <1>0
    <3>2. Paid(f, u, b, at) BY <1>1, <1>2, <3>1 DEF RateInv
    <3>3. CASE b # <<>> /\ Stale(b)
      <4>1. b \in BucketOf /\ b.lastRefill < at - Idle BY <1>2, <3>1, <3>3 DEF Stale
      <4>2. Paid(f, u, <<>>, at) BY <3>2, <3>3, <4>1, PaidIdle
      <4>3. buckets'[u] = <<>> BY <2>0, <3>1, <3>3
      <4> QED BY <1>1, <1>2, <2>0, <4>2, <4>3
    <3>4. CASE ~(b # <<>> /\ Stale(b))
      <4>1. buckets'[u] = b BY <2>0, <3>1, <3>4
      <4> QED BY <1>1, <1>2, <2>0, <3>2, <4>1
    <3> QED BY <3>3, <3>4
  <2> QED BY <1>3, <2>0, <2>2
<1>7. ASSUME NEW m \in Messages, CheckRateLimit(m), Elsewhere(m), now' = now
      PROVE  RateInv' /\ RateHolds'
  <2>1. CASE start' = start /\ buckets' = buckets BY <1>3, <1>7, <2>1 DEF RateInv
  <2>2. CASE /\ Paid(start', UserOf[m], buckets'[UserOf[m]], now) /\ More(start, m, now, start')
             /\ buckets'[UserOf[m]] \in BucketOf /\ buckets'[UserOf[m]] # <<>>
             /\ \A v \in Users \ {UserOf[m]} : buckets'[v] = buckets[v]
    <3>1. PICK g \in Begun : g = start' BY <1>0
    <3>2. PICK d \in BucketOf : d = buckets'[UserOf[m]] /\ d # <<>> BY <2>2
    <3>3. More(f, m, at, g) /\ Paid(g, UserOf[m], d, at) BY <1>1, <1>2, <2>2, <3>1, <3>2
    <3>4. f[m] = -1 /\ \A n \in Messages : f[n] <= at
      BY <1>0, <1>1, <1>2, <1>7 DEF RateInv, CheckRateLimit
    <3>5. ASSUME NEW u \in Users PROVE Paid(start', u, buckets'[u], now')
      <4>1. CASE u = UserOf[m] BY <1>7, <2>2, <4>1
      <4>2. CASE u # UserOf[m]
        <5>1. PICK b : b = buckets[u] OBVIOUS
        <5>2. Paid(f, u, b, at) BY <1>1, <1>2, <5>1 DEF RateInv
        <5>3. Paid(g, u, b, at) BY <3>3, <4>2, <5>2, PaidOther
        <5> QED BY <1>2, <1>7, <2>2, <3>1, <4>2, <5>1, <5>3
      <4> QED BY <4>1, <4>2
    <3>6. ASSUME NEW u \in Users, NEW t1 \in 0 .. MaxTime, NEW t2 \in 0 .. MaxTime, t1 <= t2
          PROVE  Cardinality(Window(g, u, t1, t2)) <= MessagesPerMinute + Refill(t2 - t1)
      <4>1. Cardinality(Window(f, u, t1, t2)) <= MessagesPerMinute + Refill(t2 - t1)
        BY <1>1, <3>6 DEF RateHolds, Window, Refill
      <4> QED BY <3>2, <3>3, <3>4, <3>6, <4>1, WindowMore
    <3>7. RateHolds' BY <3>1, <3>6 DEF RateHolds, Window, Refill
    <3> QED BY <3>5, <3>7, NextStarts DEF RateInv
  <2> QED BY <1>7, <2>1, <2>2, CheckPays
<1> QED BY <1>4, <1>5, <1>6, <1>7, RateSteps

-----------------------------------------------------------------------------
(* The invariant and the theorems                                           *)

LEMMA InitHolds ==
  ASSUME Init
  PROVE  IInv
<1>0. /\ MaxTime \in Nat /\ MessagesPerMinute \in Nat /\ MaxHandlers \in Nat
      /\ MaxHistoryKeys \in Nat /\ MaxMessagesPerAgent \in Nat
  BY Limits
<1>1. Types
  <2>1. <<>> \in Seq(Items) BY EmptySeq
  <2>2. history \in [Keys -> Seq(Items)] BY <2>1 DEF Init
  <2>3. now \in 0 .. MaxTime /\ start \in [Messages -> -1 .. MaxTime] BY <1>0 DEF Init
  <2>4. stage \in [Messages -> Stages] BY DEF Init, Stages
  <2> QED BY <2>2, <2>3, <2>4 DEF Init, Types
<1>2. SlotInv
  <2>1. Handlers = {} BY DEF Init, Handlers
  <2> QED BY <1>0, <2>1, FS_EmptySet DEF SlotInv
<1>3. RouteInv /\ LastInv /\ FollowUpGoesToLast /\ ChatInv /\ OnlyOwnerAnswers
  BY DEF Init, RouteInv, LastInv, FollowUpGoesToLast, ChatInv, OnlyOwnerAnswers
<1>4. \A k \in Keys : history[k] = <<>> BY DEF Init
<1>5. ItemInv
  <2>1. DOMAIN <<>> = {} BY EmptySeq
  <2> QED BY <1>4, <2>1 DEF ItemInv
<1>6. SizeInv
  <2>1. Entries = {} BY <1>4 DEF Entries
  <2>2. \A k \in Keys : Len(history[k]) = 0 BY <1>4, EmptySeq
  <2> QED BY <1>0, <2>1, <2>2, FS_EmptySet DEF SizeInv
<1>7. /\ now = 0 /\ start \in Begun /\ \A m \in Messages : start[m] = -1
      /\ \A u \in Users : buckets[u] = <<>>
  BY <1>1 DEF Init, Types, Begun
<1>8. ASSUME NEW u, NEW t \in Nat PROVE Since(start, u, t) = {} /\ Passed(start, u, t) = 0
  <2>1. Since(start, u, t) = {} BY <1>7 DEF Since
  <2> QED BY <2>1, FS_EmptySet DEF Passed
<1>9. RateInv
  <2>1. ASSUME NEW u \in Users PROVE Paid(start, u, buckets[u], now)
    <3>1. IsFiniteSet(Since(start, u, 0)) BY <1>8, FS_EmptySet
    <3>2. \A t \in 0 .. 0 : Passed(start, u, t) <= Refill(0 - t)
      <4>1. Refill(0) \in Nat BY RefillDef
      <4>2. Passed(start, u, 0) <= Refill(0) BY <1>8, <4>1
      <4>3. \A t \in 0 .. 0 : t \in Int /\ 0 <= t /\ t <= 0 OBVIOUS
      <4>4. \A t \in 0 .. 0 : t = 0 BY <4>3
      <4>5. 0 - 0 = 0 OBVIOUS
      <4> QED BY <4>2, <4>4, <4>5
    <3> QED BY <1>7, <3>1, <3>2 DEF Paid
  <2> QED BY <1>7, <2>1 DEF RateInv
<1>10. RateHolds
  <2> SUFFICES ASSUME NEW u \in Users, NEW t1 \in 0 .. MaxTime, NEW t2 \in 0 .. MaxTime, t1 <= t2
               PROVE  Cardinality(Window(start, u, t1, t2)) <= MessagesPerMinute + Refill(t2 - t1)
    BY DEF RateHolds, Window, Refill
  <2>1. Window(start, u, t1, t2) = {} BY <1>7 DEF Window
  <2>2. t2 - t1 \in Nat BY <1>0
  <2>3. Refill(t2 - t1) \in Nat BY <2>2, RefillDef
  <2> QED BY <1>0, <2>1, <2>3, FS_EmptySet
<1> QED BY <1>1, <1>2, <1>3, <1>5, <1>6, <1>9, <1>10 DEF IInv

LEMMA NextHolds ==
  ASSUME IInv, [Next]_vars
  PROVE  IInv'
<1>0. /\ Types /\ SlotInv /\ RouteInv /\ LastInv /\ FollowUpGoesToLast
      /\ ItemInv /\ ChatInv /\ SizeInv /\ OnlyOwnerAnswers /\ RateInv /\ RateHolds
  BY DEF IInv
<1>1. Types' BY <1>0, NextTypes
<1>2. SlotInv' /\ RouteInv' /\ LastInv' /\ FollowUpGoesToLast' /\ OnlyOwnerAnswers'
  BY <1>0, NextSlots, NextRoute, NextLast, NextFollowUp, NextAnswers
<1>3. ItemInv' /\ ChatInv' /\ SizeInv' BY <1>0, <1>1, NextItems, NextChat, NextSizes
<1>4. RateInv' /\ RateHolds' BY <1>0, <1>1, NextRate
<1> QED BY <1>1, <1>2, <1>3, <1>4 DEF IInv

LEMMA InvariantHolds == Spec => []IInv
<1>1. Init => IInv BY InitHolds
<1>2. IInv /\ [Next]_vars => IInv' BY NextHolds
<1> QED BY <1>1, <1>2, PTL DEF Spec

LEMMA IInvImplies ==
  ASSUME IInv
  PROVE  ConversationInv
<1>0. Types /\ SlotInv /\ ItemInv /\ ChatInv /\ SizeInv /\ OnlyOwnerAnswers BY DEF IInv
<1>1. TypeOK
  <2>1. \A u \in Users : buckets[u] # <<>> =>
          buckets[u] \in [tokens : 0 .. MessagesPerMinute, lastRefill : 0 .. MaxTime]
    BY <1>0 DEF Types, BucketOf
  <2>2. /\ \A k \in Keys : Len(history[k]) <= MaxMessagesPerAgent
        /\ Cardinality(Entries) <= MaxHistoryKeys
        /\ OverSlack => Cardinality(Handlers) <= MaxHandlers
    BY <1>0 DEF SizeInv, SlotInv
  <2> QED BY <1>0, <2>1, <2>2 DEF Types, Stages, TypeOK
<1>2. HistoryIsOwn BY <1>0 DEF ItemInv, ChatInv, HistoryIsOwn
<1> QED BY <1>0, <1>1, <1>2 DEF ConversationInv

(***************************************************************************)
(* Whatever messages the handlers of the front ends carry side by side,    *)
(* the history that goes to the model is of one user with one agent, an    *)
(* answer stands behind its message, and the message that the model is to  *)
(* answer is only trimmed away by others of its author; the slots of the   *)
(* event loop and the limits of historyStore hold; and only the owner of   *)
(* the session answers its question (Manager.HandleMessage and             *)
(* historyStore.add).                                                      *)
(***************************************************************************)
THEOREM ConversationCorrect == Spec => []ConversationInv
<1>1. IInv => ConversationInv BY IInvImplies
<1> QED BY <1>1, InvariantHolds, PTL

(***************************************************************************)
(* In no window of time does checkRateLimit let more messages of a user    *)
(* through than a full bucket and what comes back in that time, although   *)
(* the refill is rounded down, restarts the clock of the bucket, and       *)
(* cleanupRateLimiters throws idle buckets away.                           *)
(***************************************************************************)
THEOREM RateIsKept == Spec => []RateHolds
<1>1. IInv => RateHolds BY DEF IInv
<1> QED BY <1>1, InvariantHolds, PTL

(***************************************************************************)
(* RouteMessage sends a message without a name to the agent of an earlier  *)
(* message of its author, and to none that a later one, dealt with before  *)
(* this one was sent, had left for another agent.                          *)
(***************************************************************************)
THEOREM FollowUpsGoToLast == Spec => []FollowUpGoesToLast
<1>1. IInv => FollowUpGoesToLast BY DEF IInv
<1> QED BY <1>1, InvariantHolds, PTL

-----------------------------------------------------------------------------
(* The workspace cache: lists of keys and the pointers that hold them.      *)

Keys0 == CacheKeys \cup {NoKey}
Lists == [nodes : SUBSET CacheKeys, head : Keys0, tail : Keys0,
          prev : [CacheKeys -> Keys0], next : [CacheKeys -> Keys0]]

(* What stands at place i of q: nothing before the first and after the last. *)
At(q, i) == IF i \in 1 .. Len(q) THEN q[i] ELSE NoKey

(* The pointers of l hold the keys of q, in this order.                     *)
ListOf(l, q) ==
  /\ l \in Lists /\ q \in Seq(CacheKeys)
  /\ \A i, j \in 1 .. Len(q) : q[i] = q[j] => i = j
  /\ l.nodes = {q[i] : i \in 1 .. Len(q)}
  /\ l.head = At(q, 1) /\ l.tail = At(q, Len(q))
  /\ \A i \in 1 .. Len(q) : l.prev[q[i]] = At(q, i - 1) /\ l.next[q[i]] = At(q, i + 1)

(* q without what stands at place p, and with k in front.                   *)
Cut(q, p) == [i \in 1 .. Len(q) - 1 |-> IF i < p THEN q[i] ELSE q[i + 1]]
Pushed(q, k) == [i \in 1 .. Len(q) + 1 |-> IF i = 1 THEN k ELSE q[i - 1]]

LEMMA ConstantTypes ==
  /\ NoKey \notin CacheKeys /\ IsFiniteSet(CacheKeys) /\ Cardinality(CacheKeys) \in Nat
  /\ MaxEntries \in Nat \ {0} /\ TTL \in Nat \ {0} /\ MaxClock \in Nat /\ MaxFlips \in Nat
BY WorkspaceCacheAssumption, FS_CardinalityType

(* A set of numbers that is not empty has a least one.                      *)
LEMMA LeastNumber ==
  ASSUME NEW I \in SUBSET Nat, I # {}
  PROVE  \E x \in I : \A y \in I : x <= y
<1>1. PICK x \in I : \A y \in I : ~(<<y, x>> \in OpToRel(<, Nat))
  BY NatLessThanWellFounded, WFMin
<1>2. \A y \in Nat : y < x => <<y, x>> \in OpToRel(<, Nat) BY DEF OpToRel
<1>3. \A y \in I : ~(y < x) BY <1>1, <1>2
<1>4. \A y \in I : x <= y BY <1>3
<1> QED BY <1>4

(* An assignment through a pointer that may be nil.                         *)
LEMMA PutIs ==
  ASSUME NEW f \in [CacheKeys -> Keys0], NEW k \in Keys0, NEW v
  PROVE  Put(f, k, v) = [x \in CacheKeys |-> IF x = k THEN v ELSE f[x]]
<1>1. CASE k = NoKey BY <1>1, ConstantTypes DEF Put
<1>2. CASE k # NoKey BY <1>2 DEF Put, Keys0
<1> QED BY <1>1, <1>2

LEMMA CutIs ==
  ASSUME NEW q \in Seq(CacheKeys), NEW p \in 1 .. Len(q)
  PROVE  /\ Cut(q, p) \in Seq(CacheKeys) /\ Len(Cut(q, p)) = Len(q) - 1
         /\ \A i \in 1 .. Len(q) - 1 : Cut(q, p)[i] = IF i < p THEN q[i] ELSE q[i + 1]
<1>1. Len(q) \in Nat /\ \A i \in 1 .. Len(q) : q[i] \in CacheKeys OBVIOUS
<1>2. Len(q) - 1 \in Nat BY <1>1
<1>3. \A i \in 1 .. Len(q) - 1 : (IF i < p THEN q[i] ELSE q[i + 1]) \in CacheKeys BY <1>1
<1>4. Cut(q, p) \in [1 .. Len(q) - 1 -> CacheKeys] BY <1>3 DEF Cut
<1>5. Cut(q, p) \in Seq(CacheKeys) BY <1>2, <1>4
<1>6. DOMAIN Cut(q, p) = 1 .. Len(q) - 1 BY DEF Cut
<1>7. Len(Cut(q, p)) = Len(q) - 1 BY <1>2, <1>5, <1>6, LenProperties
<1> QED BY <1>5, <1>7 DEF Cut

LEMMA PushedIs ==
  ASSUME NEW q \in Seq(CacheKeys), NEW k \in CacheKeys
  PROVE  /\ Pushed(q, k) \in Seq(CacheKeys) /\ Len(Pushed(q, k)) = Len(q) + 1
         /\ Pushed(q, k)[1] = k
         /\ \A i \in 1 .. Len(q) : Pushed(q, k)[i + 1] = q[i]
         /\ \A i \in 2 .. Len(q) + 1 : Pushed(q, k)[i] = q[i - 1]
<1>1. Len(q) \in Nat /\ \A i \in 1 .. Len(q) : q[i] \in CacheKeys OBVIOUS
<1>2. Len(q) + 1 \in Nat BY <1>1
<1>3. \A i \in 1 .. Len(q) + 1 : (IF i = 1 THEN k ELSE q[i - 1]) \in CacheKeys BY <1>1
<1>4. Pushed(q, k) \in [1 .. Len(q) + 1 -> CacheKeys] BY <1>3 DEF Pushed
<1>5. Pushed(q, k) \in Seq(CacheKeys) BY <1>2, <1>4
<1>6. DOMAIN Pushed(q, k) = 1 .. Len(q) + 1 BY DEF Pushed
<1>7. Len(Pushed(q, k)) = Len(q) + 1 BY <1>2, <1>5, <1>6, LenProperties
<1> QED BY <1>1, <1>5, <1>7 DEF Pushed

LEMMA ListFields ==
  ASSUME NEW l \in Lists
  PROVE  /\ l.nodes \in SUBSET CacheKeys /\ l.head \in Keys0 /\ l.tail \in Keys0
         /\ l.prev \in [CacheKeys -> Keys0] /\ l.next \in [CacheKeys -> Keys0]
         /\ NoKey \in Keys0 /\ CacheKeys \subseteq Keys0
         /\ \A k \in CacheKeys : l.prev[k] \in Keys0 /\ l.next[k] \in Keys0
BY DEF Lists, Keys0

LEMMA UnlinkedIs ==
  ASSUME NEW l \in Lists, NEW k \in CacheKeys
  PROVE  Unlinked(l, k) =
           [nodes |-> l.nodes, head |-> l.head, tail |-> l.tail,
            prev |-> [x \in CacheKeys |-> IF x = l.next[k] THEN l.prev[k] ELSE l.prev[x]],
            next |-> [x \in CacheKeys |-> IF x = l.prev[k] THEN l.next[k] ELSE l.next[x]]]
<1> DEFINE n == Put(l.next, l.prev[k], l.next[k])
           b == Put(l.prev, l.next[k], l.prev[k])
<1>1. n = [x \in CacheKeys |-> IF x = l.prev[k] THEN l.next[k] ELSE l.next[x]]
  BY ListFields, PutIs
<1>2. b = [x \in CacheKeys |-> IF x = l.next[k] THEN l.prev[k] ELSE l.prev[x]]
  BY ListFields, PutIs
<1>3. Unlinked(l, k) = [l EXCEPT !.next = n, !.prev = b] BY DEF Unlinked
<1> HIDE DEF n, b
<1>4. Unlinked(l, k) = [nodes |-> l.nodes, head |-> l.head, tail |-> l.tail, prev |-> b, next |-> n]
  BY <1>3 DEF Lists
<1> QED BY <1>1, <1>2, <1>4

LEMMA RemoveIs ==
  ASSUME NEW l \in Lists, NEW k \in CacheKeys, k \in l.nodes
  PROVE  /\ RemoveLRUNode(l, k) =
              [nodes |-> l.nodes \ {k},
               head |-> IF k = l.head THEN l.next[k] ELSE l.head,
               tail |-> IF k = l.tail THEN l.prev[k] ELSE l.tail,
               prev |-> [x \in CacheKeys |-> IF x = k THEN NoKey
                           ELSE IF x = l.next[k] THEN l.prev[k] ELSE l.prev[x]],
               next |-> [x \in CacheKeys |-> IF x = k THEN NoKey
                           ELSE IF x = l.prev[k] THEN l.next[k] ELSE l.next[x]]]
         /\ RemoveLRUNode(l, k) \in Lists
<1> DEFINE b == [x \in CacheKeys |-> IF x = l.next[k] THEN l.prev[k] ELSE l.prev[x]]
           n == [x \in CacheKeys |-> IF x = l.prev[k] THEN l.next[k] ELSE l.next[x]]
           u == [nodes |-> l.nodes, head |-> l.head, tail |-> l.tail, prev |-> b, next |-> n]
           h == IF k = l.head THEN l.next[k] ELSE l.head
           t == IF k = l.tail THEN l.prev[k] ELSE l.tail
           b1 == [x \in CacheKeys |-> IF x = k THEN NoKey
                           ELSE IF x = l.next[k] THEN l.prev[k] ELSE l.prev[x]]
           n1 == [x \in CacheKeys |-> IF x = k THEN NoKey
                           ELSE IF x = l.prev[k] THEN l.next[k] ELSE l.next[x]]
<1>1. Unlinked(l, k) = u BY UnlinkedIs
<1>2. RemoveLRUNode(l, k) =
        [u EXCEPT !.head = h, !.tail = t, !.nodes = @ \ {k}, !.prev[k] = NoKey, !.next[k] = NoKey]
  BY <1>1 DEF RemoveLRUNode
<1>3. [b EXCEPT ![k] = NoKey] = b1 OBVIOUS
<1>4. [n EXCEPT ![k] = NoKey] = n1 OBVIOUS
<1>5. h \in Keys0 /\ t \in Keys0 BY ListFields
<1>6. b1 \in [CacheKeys -> Keys0] /\ n1 \in [CacheKeys -> Keys0] BY ListFields
<1> HIDE DEF b, n, h, t, b1, n1
<1>7. RemoveLRUNode(l, k) = [nodes |-> l.nodes \ {k}, head |-> h, tail |-> t, prev |-> b1, next |-> n1]
  BY <1>2, <1>3, <1>4
<1>8. l.nodes \ {k} \in SUBSET CacheKeys BY ListFields
<1>9. RemoveLRUNode(l, k) \in Lists BY <1>5, <1>6, <1>7, <1>8 DEF Lists
<1> QED BY <1>7, <1>9 DEF h, t, b1, n1

LEMMA AddIs ==
  ASSUME NEW l \in Lists, NEW k \in CacheKeys, k \notin l.nodes
  PROVE  /\ AddLRUNode(l, k) =
              [nodes |-> l.nodes \cup {k}, head |-> k,
               tail |-> IF l.head = NoKey THEN k ELSE l.tail,
               prev |-> [x \in CacheKeys |-> IF x = l.head THEN k
                           ELSE IF x = k THEN NoKey ELSE l.prev[x]],
               next |-> [x \in CacheKeys |-> IF x = k THEN l.head ELSE l.next[x]]]
         /\ AddLRUNode(l, k) \in Lists
<1> DEFINE g == [l.prev EXCEPT ![k] = NoKey]
           t == IF l.head = NoKey THEN k ELSE l.tail
           b1 == [x \in CacheKeys |-> IF x = l.head THEN k ELSE IF x = k THEN NoKey ELSE l.prev[x]]
           n1 == [x \in CacheKeys |-> IF x = k THEN l.head ELSE l.next[x]]
<1>1. g \in [CacheKeys -> Keys0] /\ \A x \in CacheKeys : g[x] = IF x = k THEN NoKey ELSE l.prev[x]
  BY ListFields
<1>2. AddLRUNode(l, k) = [nodes |-> l.nodes \cup {k}, head |-> k, tail |-> t,
                          prev |-> Put(g, l.head, k), next |-> [l.next EXCEPT ![k] = l.head]]
  BY DEF AddLRUNode
<1>3. [l.next EXCEPT ![k] = l.head] = n1 BY ListFields
<1> HIDE DEF g
<1>4. Put(g, l.head, k) = [x \in CacheKeys |-> IF x = l.head THEN k ELSE g[x]]
  BY <1>1, ListFields, PutIs
<1>5. Put(g, l.head, k) = b1 BY <1>1, <1>4
<1>6. t \in Keys0 /\ b1 \in [CacheKeys -> Keys0] /\ n1 \in [CacheKeys -> Keys0] BY ListFields
<1> HIDE DEF t, b1, n1
<1>7. AddLRUNode(l, k) =
        [nodes |-> l.nodes \cup {k}, head |-> k, tail |-> t, prev |-> b1, next |-> n1]
  BY <1>2, <1>3, <1>5
<1>8. l.nodes \cup {k} \in SUBSET CacheKeys /\ k \in Keys0 BY ListFields
<1>9. AddLRUNode(l, k) \in Lists BY <1>6, <1>7, <1>8 DEF Lists
<1> QED BY <1>7, <1>9 DEF t, b1, n1

(* Moving a key to the front is taking it out and putting it in again.      *)
LEMMA MoveIs ==
  ASSUME NEW l \in Lists, NEW k \in CacheKeys, k \in l.nodes, k # l.head, l.head \in CacheKeys
  PROVE  MoveLRUToFront(l, k) = AddLRUNode(RemoveLRUNode(l, k), k)
<1> DEFINE b == [x \in CacheKeys |-> IF x = l.next[k] THEN l.prev[k] ELSE l.prev[x]]
           n == [x \in CacheKeys |-> IF x = l.prev[k] THEN l.next[k] ELSE l.next[x]]
           u == [nodes |-> l.nodes, head |-> l.head, tail |-> l.tail, prev |-> b, next |-> n]
           t == IF k = l.tail THEN l.prev[k] ELSE l.tail
           r == RemoveLRUNode(l, k)
           b1 == [x \in CacheKeys |-> IF x = l.head THEN k ELSE IF x = k THEN NoKey
                           ELSE IF x = l.next[k] THEN l.prev[k] ELSE l.prev[x]]
           n1 == [x \in CacheKeys |-> IF x = k THEN l.head
                           ELSE IF x = l.prev[k] THEN l.next[k] ELSE l.next[x]]
<1>1. Unlinked(l, k) = u BY UnlinkedIs
<1>2. MoveLRUToFront(l, k) =
        [u EXCEPT !.tail = t, !.prev = [b EXCEPT ![k] = NoKey, ![l.head] = k],
                  !.next[k] = l.head, !.head = k]
  BY <1>1 DEF MoveLRUToFront
<1>3. [b EXCEPT ![k] = NoKey, ![l.head] = k] = b1 OBVIOUS
<1>4. [n EXCEPT ![k] = l.head] = n1 OBVIOUS
<1>5. /\ r \in Lists /\ r.nodes = l.nodes \ {k} /\ r.head = l.head /\ r.tail = t
      /\ \A x \in CacheKeys :
           /\ r.prev[x] = IF x = k THEN NoKey ELSE IF x = l.next[k] THEN l.prev[k] ELSE l.prev[x]
           /\ r.next[x] = IF x = k THEN NoKey ELSE IF x = l.prev[k] THEN l.next[k] ELSE l.next[x]
  BY RemoveIs
<1> HIDE DEF b, n, t, r
<1>6. MoveLRUToFront(l, k) =
        [nodes |-> l.nodes, head |-> k, tail |-> t, prev |-> b1, next |-> n1]
  BY <1>2, <1>3, <1>4
<1>7. k \notin r.nodes /\ r.nodes \cup {k} = l.nodes /\ r.head # NoKey BY <1>5, ConstantTypes
<1>8. AddLRUNode(r, k) =
              [nodes |-> r.nodes \cup {k}, head |-> k,
               tail |-> IF r.head = NoKey THEN k ELSE r.tail,
               prev |-> [x \in CacheKeys |-> IF x = r.head THEN k
                           ELSE IF x = k THEN NoKey ELSE r.prev[x]],
               next |-> [x \in CacheKeys |-> IF x = k THEN r.head ELSE r.next[x]]]
  BY <1>5, <1>7, AddIs
<1>9. [x \in CacheKeys |-> IF x = r.head THEN k ELSE IF x = k THEN NoKey ELSE r.prev[x]] = b1
  BY <1>5
<1>10. [x \in CacheKeys |-> IF x = k THEN r.head ELSE r.next[x]] = n1 BY <1>5
<1>11. (IF r.head = NoKey THEN k ELSE r.tail) = t BY <1>5, <1>7
<1> HIDE DEF b1, n1
<1>12. AddLRUNode(r, k) = MoveLRUToFront(l, k) BY <1>6, <1>7, <1>8, <1>9, <1>10, <1>11
<1> QED BY <1>12 DEF r

(* What the proofs use of such a list.                                      *)
Holds(l, q) ==
  /\ l \in Lists /\ q \in Seq(CacheKeys) /\ Len(q) \in Nat
  /\ \A i \in 1 .. Len(q) : q[i] \in CacheKeys /\ q[i] \in l.nodes /\ q[i] # NoKey
  /\ \A i, j \in 1 .. Len(q) : q[i] = q[j] => i = j
  /\ \A k : k \in l.nodes => \E i \in 1 .. Len(q) : k = q[i]
  /\ l.head = At(q, 1) /\ l.tail = At(q, Len(q))
  /\ \A i \in 1 .. Len(q) : l.prev[q[i]] = At(q, i - 1) /\ l.next[q[i]] = At(q, i + 1)

LEMMA ListFacts ==
  ASSUME NEW l, NEW q, ListOf(l, q)
  PROVE  Holds(l, q)
<1>1. l \in Lists /\ q \in Seq(CacheKeys) /\ l.nodes = {q[i] : i \in 1 .. Len(q)} BY DEF ListOf
<1>2. Len(q) \in Nat /\ \A i \in 1 .. Len(q) : q[i] \in CacheKeys BY <1>1
<1>3. \A i \in 1 .. Len(q) : q[i] \in l.nodes /\ q[i] # NoKey BY <1>1, <1>2, ConstantTypes
<1>4. \A k : k \in l.nodes => \E i \in 1 .. Len(q) : k = q[i] BY <1>1
<1>5. /\ \A i, j \in 1 .. Len(q) : q[i] = q[j] => i = j
      /\ l.head = At(q, 1) /\ l.tail = At(q, Len(q))
      /\ \A i \in 1 .. Len(q) : l.prev[q[i]] = At(q, i - 1) /\ l.next[q[i]] = At(q, i + 1)
  BY DEF ListOf
<1> QED BY <1>1, <1>2, <1>3, <1>4, <1>5 DEF Holds

(* Taking out the key at place p.                                           *)
LEMMA Removes ==
  ASSUME NEW l, NEW q, ListOf(l, q), NEW p \in 1 .. Len(q)
  PROVE  ListOf(RemoveLRUNode(l, q[p]), Cut(q, p))
<1> DEFINE k == q[p]  c == Cut(q, p)  r == RemoveLRUNode(l, k)  m == Len(q)
<1>1. /\ l \in Lists /\ q \in Seq(CacheKeys) /\ m \in Nat
      /\ \A i \in 1 .. m : q[i] \in CacheKeys /\ q[i] \in l.nodes /\ q[i] # NoKey
      /\ \A i, j \in 1 .. m : q[i] = q[j] => i = j
      /\ \A x : x \in l.nodes => \E i \in 1 .. m : x = q[i]
      /\ l.head = At(q, 1) /\ l.tail = At(q, m)
      /\ \A i \in 1 .. m : l.prev[q[i]] = At(q, i - 1) /\ l.next[q[i]] = At(q, i + 1)
  <2>1. Holds(l, q) BY ListFacts
  <2> QED BY <2>1 DEF Holds
<1>2. k \in CacheKeys /\ k \in l.nodes /\ l.prev[k] = At(q, p - 1) /\ l.next[k] = At(q, p + 1)
  BY <1>1
<1> HIDE DEF k
<1>3. /\ r \in Lists /\ r.nodes = l.nodes \ {k}
      /\ r.head = IF k = l.head THEN l.next[k] ELSE l.head
      /\ r.tail = IF k = l.tail THEN l.prev[k] ELSE l.tail
      /\ \A x \in CacheKeys : x # k =>
           /\ r.prev[x] = IF x = l.next[k] THEN l.prev[k] ELSE l.prev[x]
           /\ r.next[x] = IF x = l.prev[k] THEN l.next[k] ELSE l.next[x]
  <2>1. r \in Lists BY <1>1, <1>2, RemoveIs
  <2>2. r = [nodes |-> l.nodes \ {k},
               head |-> IF k = l.head THEN l.next[k] ELSE l.head,
               tail |-> IF k = l.tail THEN l.prev[k] ELSE l.tail,
               prev |-> [x \in CacheKeys |-> IF x = k THEN NoKey
                           ELSE IF x = l.next[k] THEN l.prev[k] ELSE l.prev[x]],
               next |-> [x \in CacheKeys |-> IF x = k THEN NoKey
                           ELSE IF x = l.prev[k] THEN l.next[k] ELSE l.next[x]]]
    BY <1>1, <1>2, RemoveIs
  <2> HIDE DEF r
  <2>3. \A x \in CacheKeys : x # k =>
           /\ r.prev[x] = IF x = l.next[k] THEN l.prev[k] ELSE l.prev[x]
           /\ r.next[x] = IF x = l.prev[k] THEN l.next[k] ELSE l.next[x]
    BY <2>2
  <2> QED BY <2>1, <2>2, <2>3
<1>4. c \in Seq(CacheKeys) /\ Len(c) = m - 1
      /\ \A i \in 1 .. m - 1 : c[i] = IF i < p THEN q[i] ELSE q[i + 1]
  <2>1. q \in Seq(CacheKeys) BY <1>1
  <2> QED BY <2>1, CutIs
<1>11. q[p] = k /\ \A i \in 1 .. m : \A j \in Int : q[i] = At(q, j) => i = j
  <2>1. q[p] = k BY DEF k
  <2>2. ASSUME NEW i \in 1 .. m, NEW j \in Int, q[i] = At(q, j) PROVE i = j
    <3>1. j \in 1 .. m BY <1>1, <2>2 DEF At
    <3> QED BY <1>1, <2>2, <3>1 DEF At
  <2> QED BY <2>1, <2>2
<1>12. \A i \in 1 .. m : (q[i] = l.next[k] => i = p + 1) /\ (q[i] = l.prev[k] => i = p - 1)
  <2>1. p + 1 \in Int /\ p - 1 \in Int BY <1>1
  <2> QED BY <1>2, <1>11, <2>1
<1>5. At(c, 1) = r.head
  <2> HIDE DEF r, c
  <2> QED BY <1>1, <1>2, <1>3, <1>4, <1>11 DEF At
<1>6. At(c, m - 1) = r.tail
  <2> HIDE DEF r, c
  <2> QED BY <1>1, <1>2, <1>3, <1>4, <1>11 DEF At
<1> HIDE DEF r, c
<1>7. \A i, j \in 1 .. m - 1 : c[i] = c[j] => i = j
  <2> DEFINE place(i) == IF i < p THEN i ELSE i + 1
  <2>1. \A i \in 1 .. m - 1 : place(i) \in 1 .. m /\ c[i] = q[place(i)] BY <1>1, <1>4
  <2>2. \A i, j \in 1 .. m - 1 : place(i) = place(j) => i = j BY <1>1
  <2>3. \A i, j \in 1 .. m : q[i] = q[j] => i = j BY <1>1
  <2> HIDE DEF place
  <2> QED BY <2>1, <2>2, <2>3
<1>8. r.nodes = {c[i] : i \in 1 .. m - 1}
  <2>1. ASSUME NEW x \in r.nodes PROVE \E i \in 1 .. m - 1 : x = c[i]
    <3>1. PICK i \in 1 .. m : x = q[i] BY <1>1, <1>3, <2>1
    <3>2. i # p BY <1>3, <1>11, <2>1, <3>1
    <3>3. CASE i < p BY <1>1, <1>4, <3>1, <3>3
    <3>4. CASE i > p
      <4>1. i - 1 \in 1 .. m - 1 /\ ~(i - 1 < p) /\ (i - 1) + 1 = i BY <1>1, <3>4
      <4>2. c[i - 1] = q[i] BY <1>4, <4>1
      <4> QED BY <3>1, <4>1, <4>2
    <3> QED BY <1>1, <3>2, <3>3, <3>4
  <2>2. ASSUME NEW i \in 1 .. m - 1 PROVE c[i] \in r.nodes
    <3> DEFINE j == IF i < p THEN i ELSE i + 1
    <3>1. j \in 1 .. m /\ c[i] = q[j] /\ j # p BY <1>1, <1>4
    <3>2. q[j] # k BY <1>1, <1>11, <3>1
    <3> QED BY <1>1, <1>3, <3>1, <3>2
  <2> QED BY <2>1, <2>2
<1>9. ASSUME NEW i \in 1 .. m - 1
      PROVE  r.prev[c[i]] = At(c, i - 1) /\ r.next[c[i]] = At(c, i + 1)
  <2>1. CASE i < p
    <3>1. c[i] = q[i] /\ q[i] # k /\ q[i] \in CacheKeys BY <1>1, <1>4, <1>11, <2>1
    <3>2. l.prev[q[i]] = At(q, i - 1) /\ l.next[q[i]] = At(q, i + 1) BY <1>1
    <3>3. q[i] # l.next[k] BY <1>1, <1>12, <2>1
    <3>4. r.prev[c[i]] = At(c, i - 1) BY <1>1, <1>3, <1>4, <2>1, <3>1, <3>2, <3>3 DEF At
    <3>5. CASE i = p - 1
      <4>1. q[i] = l.prev[k] BY <1>1, <1>2, <3>5 DEF At
      <4>2. r.next[c[i]] = At(q, p + 1) BY <1>2, <1>3, <3>1, <4>1
      <4>3. At(c, p) = At(q, p + 1) BY <1>1, <1>4 DEF At
      <4>4. p = i + 1 BY <3>5
      <4> QED BY <3>4, <4>2, <4>3, <4>4
    <3>6. CASE i # p - 1
      <4>1. q[i] # l.prev[k] BY <1>1, <1>12, <2>1, <3>6
      <4>2. r.next[c[i]] = At(q, i + 1) BY <1>3, <3>1, <3>2, <4>1
      <4>3. At(c, i + 1) = At(q, i + 1) BY <1>1, <1>4, <2>1, <3>6 DEF At
      <4> QED BY <3>4, <4>2, <4>3
    <3> QED BY <3>5, <3>6
  <2>2. CASE ~(i < p)
    <3>1. i + 1 \in 1 .. m /\ (i + 1) - 1 = i BY <1>1
    <3>2. c[i] = q[i + 1] /\ q[i + 1] # k /\ q[i + 1] \in CacheKeys
      BY <1>1, <1>4, <1>11, <2>2, <3>1
    <3>3. l.prev[q[i + 1]] = At(q, i) /\ l.next[q[i + 1]] = At(q, i + 2)
      <4>1. (i + 1) + 1 = i + 2 OBVIOUS
      <4> QED BY <1>1, <3>1, <4>1
    <3>4. q[i + 1] # l.prev[k] BY <1>1, <1>12, <2>2, <3>1
    <3>5. At(c, i + 1) = At(q, i + 2)
      <4>1. CASE i = m - 1 BY <1>1, <1>4, <4>1 DEF At
      <4>2. CASE i # m - 1
        <5>1. /\ i + 1 \in 1 .. m - 1 /\ i + 2 \in 1 .. m /\ ~(i + 1 < p)
              /\ (i + 1) + 1 = i + 2
          BY <1>1, <2>2, <4>2
        <5>2. c[i + 1] = q[i + 2] BY <1>4, <5>1
        <5> QED BY <1>4, <5>1, <5>2 DEF At
      <4> QED BY <4>1, <4>2
    <3>6. r.next[c[i]] = At(c, i + 1) BY <1>3, <3>2, <3>3, <3>4, <3>5
    <3>7. CASE i = p
      <4>1. q[i + 1] = l.next[k] BY <1>1, <1>2, <3>1, <3>7 DEF At
      <4>2. r.prev[c[i]] = At(q, p - 1) BY <1>2, <1>3, <3>2, <4>1
      <4>3. At(c, i - 1) = At(q, p - 1) BY <1>1, <1>4, <3>7 DEF At
      <4> QED BY <3>6, <4>2, <4>3
    <3>8. CASE i # p
      <4>1. q[i + 1] # l.next[k] BY <1>1, <1>12, <2>2, <3>1, <3>8
      <4>2. r.prev[c[i]] = At(q, i) BY <1>3, <3>2, <3>3, <4>1
      <4>3. At(c, i - 1) = At(q, i) BY <1>1, <1>4, <2>2, <3>8 DEF At
      <4> QED BY <3>6, <4>2, <4>3
    <3> QED BY <3>7, <3>8
  <2> QED BY <2>1, <2>2
<1>10. ListOf(r, c) BY <1>3, <1>4, <1>5, <1>6, <1>7, <1>8, <1>9 DEF ListOf
<1> QED BY <1>10 DEF r, c, k

(* Putting a key in front.                                                  *)
LEMMA Adds ==
  ASSUME NEW l, NEW q, ListOf(l, q), NEW k \in CacheKeys, k \notin l.nodes
  PROVE  ListOf(AddLRUNode(l, k), Pushed(q, k))
<1> DEFINE c == Pushed(q, k)  r == AddLRUNode(l, k)  m == Len(q)
<1>1. /\ l \in Lists /\ q \in Seq(CacheKeys) /\ m \in Nat
      /\ \A i \in 1 .. m : q[i] \in CacheKeys /\ q[i] \in l.nodes /\ q[i] # NoKey
      /\ \A i, j \in 1 .. m : q[i] = q[j] => i = j
      /\ \A x : x \in l.nodes => \E i \in 1 .. m : x = q[i]
      /\ l.head = At(q, 1) /\ l.tail = At(q, m)
      /\ \A i \in 1 .. m : l.prev[q[i]] = At(q, i - 1) /\ l.next[q[i]] = At(q, i + 1)
  <2>1. Holds(l, q) BY ListFacts
  <2> QED BY <2>1 DEF Holds
<1>2. /\ r \in Lists /\ r.nodes = l.nodes \cup {k} /\ r.head = k
      /\ r.tail = IF l.head = NoKey THEN k ELSE l.tail
      /\ \A x \in CacheKeys :
           /\ r.prev[x] = IF x = l.head THEN k ELSE IF x = k THEN NoKey ELSE l.prev[x]
           /\ r.next[x] = IF x = k THEN l.head ELSE l.next[x]
  BY <1>1, AddIs
<1>3. /\ c \in Seq(CacheKeys) /\ Len(c) = m + 1 /\ c[1] = k
      /\ \A i \in 2 .. m + 1 : c[i] = q[i - 1]
      /\ \A i \in 1 .. m : c[i + 1] = q[i]
  BY <1>1, PushedIs
<1> HIDE DEF r, c
<1>4. \A i \in 1 .. m : k # q[i] BY <1>1
<1>5. \A i, j \in 1 .. m + 1 : c[i] = c[j] => i = j
  <2>1. \A i \in 1 .. m + 1 : i = 1 \/ (i - 1 \in 1 .. m /\ i \in 2 .. m + 1) BY <1>1
  <2>2. \A i \in 1 .. m + 1 : i = 1 \/ (i - 1 \in 1 .. m /\ c[i] = q[i - 1]) BY <1>3, <2>1
  <2>3. \A i, j \in 1 .. m : q[i] = q[j] => i = j BY <1>1
  <2>4. ASSUME NEW i \in 1 .. m + 1, NEW j \in 1 .. m + 1, c[i] = c[j] PROVE i = j
    <3>1. CASE i = 1 /\ j = 1 BY <3>1
    <3>2. CASE i = 1 /\ j # 1 BY <1>3, <1>4, <2>2, <2>4, <3>2
    <3>3. CASE i # 1 /\ j = 1 BY <1>3, <1>4, <2>2, <2>4, <3>3
    <3>4. CASE i # 1 /\ j # 1
      <4>1. i - 1 = j - 1 BY <2>2, <2>3, <2>4, <3>4
      <4> QED BY <1>1, <4>1
    <3> QED BY <3>1, <3>2, <3>3, <3>4
  <2> QED BY <2>4
<1>6. r.nodes = {c[i] : i \in 1 .. m + 1}
  <2>1. ASSUME NEW x \in r.nodes PROVE \E i \in 1 .. m + 1 : x = c[i]
    <3>1. CASE x = k BY <1>1, <1>3, <3>1
    <3>2. CASE x \in l.nodes
      <4>1. PICK i \in 1 .. m : x = q[i] BY <1>1, <3>2
      <4>2. i + 1 \in 1 .. m + 1 /\ c[i + 1] = q[i] BY <1>1, <1>3
      <4> QED BY <4>1, <4>2
    <3> QED BY <1>2, <2>1, <3>1, <3>2
  <2>2. ASSUME NEW i \in 1 .. m + 1 PROVE c[i] \in r.nodes
    <3>1. CASE i = 1 BY <1>2, <1>3, <3>1
    <3>2. CASE i # 1
      <4>1. i - 1 \in 1 .. m /\ i \in 2 .. m + 1 BY <1>1, <3>2
      <4> QED BY <1>1, <1>2, <1>3, <4>1
    <3> QED BY <3>1, <3>2
  <2> QED BY <2>1, <2>2
<1>7. At(c, 1) = r.head BY <1>1, <1>2, <1>3 DEF At
<1>8. At(c, m + 1) = r.tail
  <2>1. CASE m = 0 BY <1>1, <1>2, <1>3, <2>1 DEF At
  <2>2. CASE m # 0
    <3>1. l.head # NoKey /\ l.tail = q[m] BY <1>1, <2>2 DEF At
    <3>2. m \in 1 .. m BY <1>1, <2>2
    <3>3. At(c, m + 1) = c[m + 1] /\ c[m + 1] = q[m] BY <1>1, <1>3, <3>2 DEF At
    <3> QED BY <1>2, <3>1, <3>3
  <2> QED BY <2>1, <2>2
<1>9. ASSUME NEW i \in 1 .. m + 1
      PROVE  r.prev[c[i]] = At(c, i - 1) /\ r.next[c[i]] = At(c, i + 1)
  <2>1. CASE i = 1
    <3>1. k # l.head BY <1>1, <1>4, ConstantTypes DEF At
    <3>2. r.prev[k] = NoKey /\ r.next[k] = At(q, 1) BY <1>1, <1>2, <3>1
    <3>3. At(c, 0) = NoKey BY <1>3 DEF At
    <3>4. At(c, 2) = At(q, 1) BY <1>1, <1>3 DEF At
    <3> QED BY <1>3, <2>1, <3>2, <3>3, <3>4
  <2>2. CASE i # 1
    <3> DEFINE j == i - 1
    <3>1. j \in 1 .. m /\ i = j + 1 /\ i \in 2 .. m + 1 BY <1>1, <2>2
    <3>2. c[i] = q[j] /\ q[j] \in CacheKeys /\ q[j] # k BY <1>1, <1>3, <1>4, <3>1
    <3>3. l.prev[q[j]] = At(q, j - 1) /\ l.next[q[j]] = At(q, j + 1) BY <1>1, <3>1
    <3> HIDE DEF j
    <3>4. At(c, i + 1) = At(q, j + 1)
      <4>1. CASE j = m BY <1>1, <1>3, <3>1, <4>1 DEF At
      <4>2. CASE j # m
        <5>1. j + 1 \in 1 .. m BY <1>1, <3>1, <4>2
        <5>2. c[(j + 1) + 1] = q[j + 1] BY <1>3, <5>1
        <5>3. (j + 1) + 1 = i + 1 /\ i + 1 \in 1 .. m + 1 BY <1>1, <3>1, <5>1
        <5> QED BY <1>3, <5>1, <5>2, <5>3 DEF At
      <4> QED BY <4>1, <4>2
    <3>5. r.next[c[i]] = At(c, i + 1) BY <1>2, <3>2, <3>3, <3>4
    <3>6. CASE j = 1
      <4>1. q[j] = l.head BY <1>1, <3>1, <3>6 DEF At
      <4>2. At(c, i - 1) = k BY <1>1, <1>3, <3>1, <3>6 DEF At
      <4> QED BY <1>2, <3>2, <3>5, <4>1, <4>2
    <3>7. CASE j # 1
      <4>1. q[j] # l.head BY <1>1, <3>1, <3>7 DEF At
      <4>2. r.prev[c[i]] = At(q, j - 1) BY <1>2, <3>2, <3>3, <4>1
      <4>3. j - 1 \in 1 .. m /\ (j - 1) + 1 = j BY <1>1, <3>1, <3>7
      <4>4. c[j] = q[j - 1] BY <1>3, <4>3
      <4>5. At(c, i - 1) = At(q, j - 1) BY <1>1, <1>3, <3>1, <4>3, <4>4 DEF At
      <4> QED BY <3>5, <4>2, <4>5
    <3> QED BY <3>6, <3>7
  <2> QED BY <2>1, <2>2
<1>10. ListOf(r, c) BY <1>2, <1>3, <1>5, <1>6, <1>7, <1>8, <1>9 DEF ListOf
<1> QED BY <1>10 DEF r, c

(* Moving the key at place p to the front.                                  *)
LEMMA Moves ==
  ASSUME NEW l, NEW q, ListOf(l, q), NEW p \in 1 .. Len(q)
  PROVE  ListOf(MoveLRUToFront(l, q[p]), Pushed(Cut(q, p), q[p]))
<1> DEFINE k == q[p]  c == Cut(q, p)
<1>1. /\ l \in Lists /\ q \in Seq(CacheKeys) /\ Len(q) \in Nat
      /\ \A i \in 1 .. Len(q) : q[i] \in CacheKeys /\ q[i] \in l.nodes
      /\ \A i, j \in 1 .. Len(q) : q[i] = q[j] => i = j
      /\ l.head = At(q, 1)
  BY ListFacts DEF Holds
<1>2. 1 \in 1 .. Len(q) /\ l.head = q[1] BY <1>1 DEF At
<1>3. c \in Seq(CacheKeys) /\ Len(c) = Len(q) - 1
      /\ \A i \in 1 .. Len(q) - 1 : c[i] = IF i < p THEN q[i] ELSE q[i + 1]
  BY <1>1, CutIs
<1>4. CASE p = 1
  <2>1. MoveLRUToFront(l, k) = l BY <1>2, <1>4 DEF MoveLRUToFront
  <2> DEFINE d == Pushed(c, k)
  <2>2. /\ d \in Seq(CacheKeys) /\ Len(d) = Len(c) + 1 /\ d[1] = k
        /\ \A i \in 2 .. Len(c) + 1 : d[i] = c[i - 1]
    BY <1>1, <1>3, PushedIs
  <2> HIDE DEF c, d
  <2>3. Len(d) = Len(q) BY <1>1, <1>3, <2>2
  <2>4. ASSUME NEW i \in 1 .. Len(q) PROVE d[i] = q[i]
    <3>1. CASE i = 1 BY <1>4, <2>2, <3>1
    <3>2. CASE i # 1
      <4>1. i \in 2 .. Len(c) + 1 /\ i - 1 \in 1 .. Len(q) - 1 /\ ~(i - 1 < p) /\ (i - 1) + 1 = i
        BY <1>1, <1>3, <1>4, <3>2
      <4> QED BY <1>3, <2>2, <4>1
    <3> QED BY <3>1, <3>2
  <2>5. d = q BY <1>1, <2>2, <2>3, <2>4, SeqEqual
  <2> QED BY <2>1, <2>5 DEF c, d
<1>5. CASE p # 1
  <2>1. k \in CacheKeys /\ k \in l.nodes /\ k # l.head /\ l.head \in CacheKeys
    BY <1>1, <1>2, <1>5
  <2>2. MoveLRUToFront(l, k) = AddLRUNode(RemoveLRUNode(l, k), k) BY <1>1, <2>1, MoveIs
  <2>3. ListOf(RemoveLRUNode(l, k), c) BY Removes
  <2>4. RemoveLRUNode(l, k).nodes = l.nodes \ {k} BY <1>1, <2>1, RemoveIs
  <2> HIDE DEF k, c
  <2>5. ListOf(AddLRUNode(RemoveLRUNode(l, k), k), Pushed(c, k)) BY <2>1, <2>3, <2>4, Adds
  <2> QED BY <2>2, <2>5 DEF k, c
<1> QED BY <1>4, <1>5

LEMMA IntervalSize ==
  ASSUME NEW a \in Int, NEW n \in Nat
  PROVE  IsFiniteSet(a .. a + n - 1) /\ Cardinality(a .. a + n - 1) = n
<1> DEFINE b == a + n - 1
<1>1. b \in Int OBVIOUS
<1>2. a > b <=> n = 0 OBVIOUS
<1>3. b - a + 1 = n OBVIOUS
<1> HIDE DEF b
<1>4. IsFiniteSet(a .. b) /\ Cardinality(a .. b) = IF a > b THEN 0 ELSE b - a + 1
  BY <1>1, FS_Interval
<1>5. Cardinality(a .. b) = n BY <1>2, <1>3, <1>4
<1> QED BY <1>4, <1>5 DEF b

(* A list has at most as many keys as there are.                            *)
LEMMA ListBound ==
  ASSUME NEW l, NEW q, ListOf(l, q)
  PROVE  Len(q) <= Cardinality(CacheKeys) /\ Cardinality(l.nodes) = Len(q) /\ IsFiniteSet(l.nodes)
<1>1. /\ q \in Seq(CacheKeys) /\ Len(q) \in Nat /\ l \in Lists
      /\ \A i, j \in 1 .. Len(q) : q[i] = q[j] => i = j
      /\ l.nodes = {q[i] : i \in 1 .. Len(q)}
  BY ListFacts DEF Holds, ListOf
<1>2. l.nodes \in SUBSET CacheKeys BY <1>1, ListFields
<1>3. IsFiniteSet(l.nodes) /\ Cardinality(l.nodes) <= Cardinality(CacheKeys)
  BY <1>2, ConstantTypes, FS_Subset
<1>4. q \in [1 .. Len(q) -> l.nodes] BY <1>1
<1>5. q \in Bijection(1 .. Len(q), l.nodes)
  <2>1. q \in Injection(1 .. Len(q), l.nodes) BY <1>1, <1>4 DEF Injection, IsInjective
  <2>2. q \in Surjection(1 .. Len(q), l.nodes) BY <1>1, <1>4 DEF Surjection
  <2> QED BY <2>1, <2>2 DEF Bijection
<1>6. ExistsBijection(1 .. Len(q), l.nodes) BY <1>5 DEF ExistsBijection
<1>7. IsFiniteSet(1 .. Len(q)) /\ Cardinality(1 .. Len(q)) = Len(q)
  <2>1. 1 + Len(q) - 1 = Len(q) BY <1>1
  <2> QED BY <1>1, <2>1, IntervalSize
<1>8. Cardinality(l.nodes) = Len(q) BY <1>6, <1>7, FS_Bijection
<1> QED BY <1>3, <1>8

(* What a walk along the next pointers meets.                               *)
LEMMA VisitedIs ==
  ASSUME NEW l, NEW q, ListOf(l, q), NEW i \in 0 .. Cardinality(CacheKeys)
  PROVE  Visited(l)[i] = At(q, i + 1)
<1> DEFINE N == Cardinality(CacheKeys)
           Follow(f) == [j \in 0 .. N |-> IF j = 0 THEN l.head ELSE After(l, f[j - 1])]
           g == [j \in 0 .. N |-> At(q, j + 1)]
           v == Visited(l)
<1>1. /\ q \in Seq(CacheKeys) /\ Len(q) \in Nat /\ l.head = At(q, 1) /\ N \in Nat
      /\ \A j \in 1 .. Len(q) : q[j] # NoKey /\ l.next[q[j]] = At(q, j + 1)
  BY ListFacts, ConstantTypes DEF Holds
<1>2. \A j \in 1 .. N : After(l, At(q, j)) = At(q, j + 1)
  BY <1>1 DEF After, At
<1>3. v = CHOOSE f : f = Follow(f) BY DEF Visited
<1>4. g = Follow(g)
  <2>1. ASSUME NEW j \in 0 .. N
        PROVE  At(q, j + 1) = IF j = 0 THEN l.head ELSE After(l, g[j - 1])
    <3>1. CASE j = 0 BY <1>1, <3>1
    <3>2. CASE j # 0
      <4>1. j \in 1 .. N /\ j - 1 \in 0 .. N /\ (j - 1) + 1 = j BY <1>1, <3>2
      <4>2. g[j - 1] = At(q, j) BY <4>1
      <4> HIDE DEF g
      <4> QED BY <1>2, <3>2, <4>1, <4>2
    <3> QED BY <3>1, <3>2
  <2> QED BY <2>1
<1>5. v = Follow(v) BY <1>3, <1>4
<1>6. \A j \in 0 .. N : v[j] = IF j = 0 THEN l.head ELSE After(l, v[j - 1]) BY <1>5
<1> HIDE DEF v, N
<1> DEFINE I == {j \in 0 .. N : v[j] # At(q, j + 1)}
<1>7. I = {}
  <2> SUFFICES ASSUME I # {} PROVE FALSE OBVIOUS
  <2>1. I \in SUBSET Nat BY <1>1
  <2>2. PICK j \in I : \A y \in I : j <= y
    <3> HIDE DEF I
    <3> QED BY <2>1, LeastNumber
  <2>3. j \in 0 .. N /\ v[j] # At(q, j + 1) OBVIOUS
  <2>4. j # 0 BY <1>1, <1>6, <2>3
  <2>5. j \in 1 .. N /\ j - 1 \in 0 .. N /\ (j - 1) + 1 = j /\ ~(j <= j - 1) BY <1>1, <2>3, <2>4
  <2>6. j - 1 \notin I BY <2>2, <2>5
  <2>7. v[j - 1] = At(q, j) BY <2>5, <2>6
  <2> QED BY <1>2, <1>6, <2>3, <2>4, <2>5, <2>7
<1> QED BY <1>7 DEF v, N

(* The walk is the list.                                                    *)
LEMMA WalkIs ==
  ASSUME NEW l, NEW q, ListOf(l, q)
  PROVE  WalkOf(l) = q
<1> DEFINE N == Cardinality(CacheKeys)
           v == Visited(l)
           met == {i \in 0 .. N : v[i] # NoKey}
<1>1. /\ q \in Seq(CacheKeys) /\ Len(q) \in Nat /\ N \in Nat /\ Len(q) <= N
      /\ \A j \in 1 .. Len(q) : q[j] # NoKey
  BY ListFacts, ListBound, ConstantTypes DEF Holds
<1>2. \A i \in 0 .. N : v[i] = At(q, i + 1) BY VisitedIs
<1>3. WalkOf(l) = [i \in 1 .. Cardinality(met) |-> v[i - 1]] BY DEF WalkOf
<1> HIDE DEF v, N
<1>4. met = 0 .. Len(q) - 1
  <2>1. \A i \in 0 .. N : v[i] # NoKey <=> i \in 0 .. Len(q) - 1 BY <1>1, <1>2 DEF At
  <2>2. \A i \in 0 .. Len(q) - 1 : i \in 0 .. N BY <1>1
  <2> QED BY <2>1, <2>2
<1>5. Cardinality(0 .. Len(q) - 1) = Len(q)
  <2> DEFINE n == Len(q)
  <2>1. n \in Nat /\ 0 + n - 1 = n - 1 BY <1>1
  <2> HIDE DEF n
  <2>2. Cardinality(0 .. 0 + n - 1) = n
    <3>1. 0 \in Int OBVIOUS
    <3> QED BY <2>1, <3>1, IntervalSize, Zenon
  <2>3. Cardinality(0 .. n - 1) = n BY <2>1, <2>2
  <2> QED BY <2>3 DEF n
<1>6. Cardinality(met) = Len(q) BY <1>4, <1>5
<1> HIDE DEF met
<1>7. WalkOf(l) = [i \in 1 .. Len(q) |-> v[i - 1]] BY <1>3, <1>6
<1>8. ASSUME NEW i \in 1 .. Len(q) PROVE v[i - 1] = q[i]
  <2>1. i - 1 \in 0 .. N /\ (i - 1) + 1 = i BY <1>1
  <2> QED BY <1>2, <2>1 DEF At
<1>9. q = [i \in 1 .. Len(q) |-> q[i]] BY <1>1
<1> QED BY <1>7, <1>8, <1>9

-----------------------------------------------------------------------------
(* What stays in its order                                                  *)

Distinct(q) == \A i, j \in 1 .. Len(q) : q[i] = q[j] => i = j

LEMMA LruKeeps ==
  ASSUME NEW r, NEW q, NEW gone
  PROVE  Lru!Keeps(r, q, gone) <=>
           /\ ToSet(r) = ToSet(q) \ gone
           /\ \A i, j \in DOMAIN r : i < j => Lru!Before(q, r[i], r[j])
BY DEF Lru!Keeps, Lru!ToSet, ToSet

LEMMA CutKeeps ==
  ASSUME NEW q \in Seq(CacheKeys), Distinct(q), NEW p \in 1 .. Len(q)
  PROVE  Lru!Keeps(Cut(q, p), q, {q[p]})
<1> DEFINE c == Cut(q, p)  m == Len(q)  place(i) == IF i < p THEN i ELSE i + 1
<1>1. m \in Nat /\ DOMAIN q = 1 .. m /\ \A i, j \in 1 .. m : q[i] = q[j] => i = j BY DEF Distinct
<1>2. /\ c \in Seq(CacheKeys) /\ Len(c) = m - 1
      /\ \A i \in 1 .. m - 1 : c[i] = IF i < p THEN q[i] ELSE q[i + 1]
  BY CutIs
<1> HIDE DEF c
<1>3. DOMAIN c = 1 .. m - 1 BY <1>2
<1>4. /\ \A i \in 1 .. m - 1 : place(i) \in 1 .. m /\ place(i) # p /\ c[i] = q[place(i)]
      /\ \A i, j \in 1 .. m - 1 : i < j => place(i) < place(j)
  BY <1>1, <1>2
<1>5. ToSet(c) = ToSet(q) \ {q[p]}
  <2> HIDE DEF place
  <2>1. ASSUME NEW x \in ToSet(c) PROVE x \in ToSet(q) /\ x # q[p]
    <3>1. PICK i \in 1 .. m - 1 : x = c[i] BY <1>3 DEF ToSet
    <3>2. x = q[place(i)] /\ place(i) \in 1 .. m /\ place(i) # p BY <1>4, <3>1
    <3> QED BY <1>1, <3>2 DEF ToSet
  <2>2. ASSUME NEW x \in ToSet(q), x # q[p] PROVE x \in ToSet(c)
    <3>1. PICK i \in 1 .. m : x = q[i] BY <1>1 DEF ToSet
    <3>2. CASE i < p
      <4>1. i \in 1 .. m - 1 /\ c[i] = q[i] BY <1>1, <1>2, <3>2
      <4> QED BY <1>3, <3>1, <4>1 DEF ToSet
    <3>3. CASE i > p
      <4>1. i - 1 \in 1 .. m - 1 /\ ~(i - 1 < p) /\ (i - 1) + 1 = i BY <1>1, <3>3
      <4>2. c[i - 1] = q[i] BY <1>2, <4>1
      <4> QED BY <1>3, <3>1, <4>1, <4>2 DEF ToSet
    <3> QED BY <1>1, <2>2, <3>1, <3>2, <3>3
  <2> QED BY <2>1, <2>2
<1>6. ASSUME NEW i \in DOMAIN c, NEW j \in DOMAIN c, i < j PROVE Lru!Before(q, c[i], c[j])
  <2> HIDE DEF place
  <2>1. /\ place(i) \in DOMAIN q /\ place(j) \in DOMAIN q /\ place(i) < place(j)
        /\ q[place(i)] = c[i] /\ q[place(j)] = c[j]
    BY <1>1, <1>3, <1>4, <1>6
  <2> QED BY <2>1 DEF Lru!Before
<1>7. Lru!Keeps(c, q, {q[p]}) BY <1>5, <1>6, LruKeeps
<1> QED BY <1>7 DEF c

LEMMA KeepsItself ==
  ASSUME NEW q \in Seq(CacheKeys), NEW gone, gone \cap ToSet(q) = {}
  PROVE  Lru!Keeps(q, q, gone)
<1>1. \A i, j \in DOMAIN q : i < j => Lru!Before(q, q[i], q[j]) BY DEF Lru!Before
<1>2. ToSet(q) = ToSet(q) \ gone OBVIOUS
<1> QED BY <1>1, <1>2, LruKeeps

LEMMA KeepsOn ==
  ASSUME NEW r, NEW c, NEW q, NEW g, NEW h, Lru!Keeps(r, c, g), Lru!Keeps(c, q, h)
  PROVE  Lru!Keeps(r, q, g \cup h)
<1>1. ToSet(r) = ToSet(c) \ g /\ ToSet(c) = ToSet(q) \ h BY LruKeeps
<1>2. ToSet(r) = ToSet(q) \ (g \cup h) BY <1>1
<1>3. ASSUME NEW i \in DOMAIN r, NEW j \in DOMAIN r, i < j PROVE Lru!Before(q, r[i], r[j])
  <2>1. Lru!Before(c, r[i], r[j]) BY <1>3 DEF Lru!Keeps
  <2>2. PICK a \in DOMAIN c, b \in DOMAIN c : a < b /\ c[a] = r[i] /\ c[b] = r[j]
    BY <2>1 DEF Lru!Before
  <2>3. Lru!Before(q, c[a], c[b]) BY <2>2 DEF Lru!Keeps
  <2> QED BY <2>2, <2>3
<1> QED BY <1>2, <1>3, LruKeeps

LEMMA PushedHead ==
  ASSUME NEW q \in Seq(CacheKeys), NEW k \in CacheKeys
  PROVE  /\ Pushed(q, k) # <<>> /\ Head(Pushed(q, k)) = k /\ Tail(Pushed(q, k)) = q
         /\ ToSet(Pushed(q, k)) = ToSet(q) \cup {k}
<1> DEFINE c == Pushed(q, k)
<1>1. /\ c \in Seq(CacheKeys) /\ Len(c) = Len(q) + 1 /\ c[1] = k /\ Len(q) \in Nat
      /\ \A i \in 1 .. Len(q) : c[i + 1] = q[i]
      /\ \A i \in 2 .. Len(q) + 1 : c[i] = q[i - 1]
  <2>1. Len(q) \in Nat OBVIOUS
  <2> QED BY <2>1, PushedIs
<1> HIDE DEF c
<1>2. c # <<>> /\ Head(c) = k BY <1>1
<1>3. Tail(c) \in Seq(CacheKeys) /\ Len(Tail(c)) = Len(q) /\ \A i \in 1 .. Len(q) : Tail(c)[i] = c[i + 1]
  BY <1>1, <1>2
<1>4. Tail(c) = q
  <2>1. \A i \in 1 .. Len(q) : Tail(c)[i] = q[i] BY <1>1, <1>3
  <2> QED BY <1>3, <2>1, SeqEqual
<1>5. ToSet(c) = ToSet(q) \cup {k}
  <2>1. DOMAIN c = 1 .. Len(q) + 1 /\ DOMAIN q = 1 .. Len(q) BY <1>1
  <2>2. ASSUME NEW x \in ToSet(c) PROVE x \in ToSet(q) \cup {k}
    <3>1. PICK i \in 1 .. Len(q) + 1 : x = c[i] BY <2>1 DEF ToSet
    <3>2. CASE i = 1 BY <1>1, <3>1, <3>2
    <3>3. CASE i # 1
      <4>1. i \in 2 .. Len(q) + 1 /\ i - 1 \in 1 .. Len(q) BY <1>1, <3>3
      <4> QED BY <1>1, <2>1, <3>1, <4>1 DEF ToSet
    <3> QED BY <3>2, <3>3
  <2>3. ASSUME NEW i \in 1 .. Len(q) PROVE q[i] \in ToSet(c)
    <3>1. i + 1 \in DOMAIN c BY <1>1, <2>1
    <3> QED BY <1>1, <3>1 DEF ToSet
  <2>4. k \in ToSet(c)
    <3>1. 1 \in DOMAIN c BY <1>1, <2>1
    <3> QED BY <1>1, <3>1 DEF ToSet
  <2>5. \A x \in ToSet(q) : x \in ToSet(c) BY <2>1, <2>3 DEF ToSet
  <2> QED BY <2>2, <2>4, <2>5
<1> QED BY <1>2, <1>4, <1>5 DEF c

-----------------------------------------------------------------------------
(* Steps of the list and of the map                                         *)

Linked == nodes = DOMAIN cache /\ \E q : ListOf(List, q)
LruStep == [Lru!Next]_<<Walk, cache>>

LEMMA SetListIs ==
  ASSUME NEW l \in Lists, SetList(l)
  PROVE  List' = l
<1>1. l = [nodes |-> l.nodes, head |-> l.head, tail |-> l.tail, prev |-> l.prev, next |-> l.next]
  BY DEF Lists
<1> QED BY <1>1 DEF SetList, List

LEMMA ListStays ==
  ASSUME UNCHANGED listVars, cache' = cache, Linked
  PROVE  Linked' /\ LruStep
<1>1. nodes' = nodes /\ List' = List BY DEF listVars, List
<1>2. Linked' BY <1>1 DEF Linked
<1>3. Walk' = Walk BY <1>1 DEF Walk
<1> QED BY <1>2, <1>3 DEF LruStep

LEMMA NodesOf ==
  ASSUME NEW q, ListOf(List, q)
  PROVE  ToSet(q) = nodes /\ Distinct(q) /\ q \in Seq(CacheKeys) /\ Len(q) \in Nat /\ Walk = q
<1>1. Walk = q BY WalkIs DEF Walk
<1>2. q \in Seq(CacheKeys) /\ List.nodes = {q[i] : i \in 1 .. Len(q)} /\ Distinct(q)
  BY DEF ListOf, Distinct
<1>3. DOMAIN q = 1 .. Len(q) /\ Len(q) \in Nat BY <1>2
<1>4. List.nodes = nodes BY DEF List
<1> QED BY <1>1, <1>2, <1>3, <1>4 DEF ToSet

LEMMA WalkAfter ==
  ASSUME NEW q, ListOf(List', q)
  PROVE  Walk' = q /\ nodes' = ToSet(q)
<1>1. Walk' = q BY WalkIs DEF Walk
<1>2. q \in Seq(CacheKeys) /\ (List').nodes = {q[i] : i \in 1 .. Len(q)} BY DEF ListOf
<1>3. DOMAIN q = 1 .. Len(q) BY <1>2
<1>4. (List').nodes = nodes' BY DEF List
<1> QED BY <1>1, <1>2, <1>3, <1>4 DEF ToSet

(* A key is used, or is not there any more.                                 *)
LEMMA MoveStep ==
  ASSUME Linked, NEW k, SetList(MoveLRUToFront(List, k)), cache' = cache
  PROVE  Linked' /\ LruStep
<1>1. PICK q : ListOf(List, q) BY DEF Linked
<1>2. /\ ToSet(q) = nodes /\ Distinct(q) /\ q \in Seq(CacheKeys) /\ Len(q) \in Nat /\ Walk = q
      /\ List \in Lists /\ List.nodes = nodes
  BY <1>1, NodesOf DEF ListOf, List
<1>3. CASE k \notin nodes
  <2>1. MoveLRUToFront(List, k) = List BY <1>2, <1>3 DEF MoveLRUToFront
  <2>2. List' = List BY <1>2, <2>1, SetListIs
  <2>3. UNCHANGED listVars BY <2>2 DEF List, listVars
  <2> QED BY <2>3, ListStays
<1>4. CASE k \in nodes
  <2>1. PICK p \in 1 .. Len(q) : k = q[p] BY <1>2, <1>4 DEF ToSet
  <2> DEFINE c == Cut(q, p)  r == Pushed(c, k)
  <2>2. ListOf(MoveLRUToFront(List, k), r) BY <1>1, <2>1, Moves
  <2>3. List' = MoveLRUToFront(List, k) BY <2>2, SetListIs DEF ListOf
  <2>4. ListOf(List', r) BY <2>2, <2>3
  <2>5. c \in Seq(CacheKeys) /\ k \in CacheKeys BY <1>2, <2>1, CutIs
  <2>6. Lru!Keeps(c, q, {k}) BY <1>2, <2>1, CutKeeps
  <2> HIDE DEF c
  <2>7. r # <<>> /\ Head(r) = k /\ Tail(r) = c /\ ToSet(r) = ToSet(c) \cup {k}
    BY <2>5, PushedHead
  <2>8. ToSet(c) = ToSet(q) \ {k} BY <2>6, LruKeeps
  <2> HIDE DEF r
  <2>9. Walk' = r /\ nodes' = ToSet(r) BY <2>4, WalkAfter
  <2>10. nodes' = nodes BY <1>2, <1>4, <2>7, <2>8, <2>9
  <2>11. Linked' BY <2>4, <2>10 DEF Linked
  <2>12. k \in Lru!ToSet(q) BY <1>2, <1>4 DEF Lru!ToSet, ToSet
  <2>13. Lru!Use(q, r) BY <2>6, <2>7, <2>12 DEF Lru!Use
  <2>14. Lru!Next BY <1>2, <2>9, <2>13 DEF Lru!Next
  <2> QED BY <2>11, <2>14 DEF LruStep
<1> QED BY <1>3, <1>4

(* A key is thrown away.                                                    *)
LEMMA RemoveStep ==
  ASSUME Linked, NEW k, SetList(RemoveLRUNode(List, k)), cache' = Without(k),
         cache = [x \in DOMAIN cache |-> cache[x]]
  PROVE  Linked' /\ LruStep
<1>1. PICK q : ListOf(List, q) BY DEF Linked
<1>2. /\ ToSet(q) = nodes /\ Distinct(q) /\ q \in Seq(CacheKeys) /\ Len(q) \in Nat /\ Walk = q
      /\ List \in Lists /\ List.nodes = nodes /\ nodes = DOMAIN cache
  BY <1>1, NodesOf DEF ListOf, List, Linked
<1>3. CASE k \notin nodes
  <2>1. RemoveLRUNode(List, k) = List BY <1>2, <1>3 DEF RemoveLRUNode
  <2>2. List' = List BY <1>2, <2>1, SetListIs
  <2>3. UNCHANGED listVars BY <2>2 DEF List, listVars
  <2>4. DOMAIN cache \ {k} = DOMAIN cache BY <1>2, <1>3
  <2>5. cache' = cache BY <2>4 DEF Without
  <2> QED BY <2>3, <2>5, ListStays
<1>4. CASE k \in nodes
  <2>1. PICK p \in 1 .. Len(q) : k = q[p] BY <1>2, <1>4 DEF ToSet
  <2> DEFINE r == Cut(q, p)
  <2>2. ListOf(RemoveLRUNode(List, k), r) BY <1>1, <2>1, Removes
  <2>3. List' = RemoveLRUNode(List, k) BY <2>2, SetListIs DEF ListOf
  <2>4. ListOf(List', r) BY <2>2, <2>3
  <2>5. Lru!Keeps(r, q, {k}) BY <1>2, <2>1, CutKeeps
  <2>6. ToSet(r) = ToSet(q) \ {k} BY <2>5, LruKeeps
  <2> HIDE DEF r
  <2>7. Walk' = r /\ nodes' = ToSet(r) BY <2>4, WalkAfter
  <2>8. DOMAIN cache' = nodes' /\ cache' = [x \in ToSet(r) |-> cache[x]]
    BY <1>2, <2>6, <2>7 DEF Without
  <2>9. Linked' BY <2>4, <2>8 DEF Linked
  <2>10. ToSet(q) \ ToSet(r) = {k} BY <1>2, <1>4, <2>6
  <2>11. /\ Lru!ToSet(q) \ Lru!ToSet(r) = {k}
         /\ cache' = [x \in Lru!ToSet(r) |-> cache[x]]
    BY <2>8, <2>10 DEF Lru!ToSet, ToSet
  <2>12. Lru!Drop(q, r) BY <2>5, <2>11 DEF Lru!Drop
  <2>13. Lru!Next BY <1>2, <2>7, <2>12 DEF Lru!Next
  <2> QED BY <2>9, <2>13 DEF LruStep
<1> QED BY <1>3, <1>4

(* evictLRU makes room by taking the last key.                              *)
LEMMA VictimGoes ==
  ASSUME Linked, NEW q, ListOf(List, q), Cardinality(DOMAIN cache) <= MaxEntries
  PROVE  \E q1 : /\ ListOf(RemoveLRUNode(List, Victim), q1) /\ Len(q1) < MaxEntries
                 /\ ToSet(q1) = DOMAIN cache \ {Victim}
                 /\ Lru!Keeps(q1, q, IF Len(q) < MaxEntries THEN {} ELSE {Last(q)})
<1>1. /\ ToSet(q) = nodes /\ Distinct(q) /\ q \in Seq(CacheKeys) /\ Len(q) \in Nat
      /\ List \in Lists /\ List.nodes = nodes /\ nodes = DOMAIN cache
      /\ List.tail = At(q, Len(q)) /\ List.tail = tail
  BY NodesOf DEF ListOf, List, Linked
<1>2. Cardinality(DOMAIN cache) = Len(q) /\ Len(q) <= MaxEntries /\ MaxEntries \in Nat \ {0}
  BY <1>1, ListBound, ConstantTypes
<1>3. CASE Len(q) < MaxEntries
  <2>1. Victim = NoKey BY <1>2, <1>3 DEF Victim
  <2>2. nodes \subseteq CacheKeys BY <1>1, ListFields
  <2>3. NoKey \notin nodes BY <2>2, ConstantTypes
  <2>4. RemoveLRUNode(List, Victim) = List BY <1>1, <2>1, <2>3 DEF RemoveLRUNode
  <2>5. Lru!Keeps(q, q, {}) BY <1>1, KeepsItself
  <2>6. ToSet(q) = DOMAIN cache \ {Victim} BY <1>1, <2>1, <2>3
  <2>7. (IF Len(q) < MaxEntries THEN {} ELSE {Last(q)}) = {} BY <1>3
  <2> QED BY <1>3, <2>4, <2>5, <2>6, <2>7
<1>4. CASE ~(Len(q) < MaxEntries)
  <2> DEFINE n == Len(q)  q1 == Cut(q, n)
  <2>1. n \in 1 .. Len(q) /\ n = MaxEntries BY <1>1, <1>2, <1>4
  <2>2. Victim = q[n] BY <1>1, <1>2, <1>4, <2>1 DEF Victim, At
  <2>3. ListOf(RemoveLRUNode(List, q[n]), q1) BY <2>1, Removes
  <2>4. Len(q1) < MaxEntries BY <1>1, <1>2, <2>1, CutIs
  <2>5. Lru!Keeps(q1, q, {q[n]}) BY <1>1, <2>1, CutKeeps
  <2>6. ToSet(q1) = ToSet(q) \ {q[n]} BY <2>5, LruKeeps
  <2>7. (IF Len(q) < MaxEntries THEN {} ELSE {Last(q)}) = {q[n]} BY <1>4 DEF Last
  <2> HIDE DEF q1, n
  <2> QED BY <1>1, <2>2, <2>3, <2>4, <2>5, <2>6, <2>7
<1> QED BY <1>3, <1>4

(* A key is put in front, whether it is there or not.                       *)
LEMMA ToFront ==
  ASSUME NEW l, NEW q, ListOf(l, q), NEW k \in CacheKeys
  PROVE  \E c \in Seq(CacheKeys) : /\ ListOf(AddLRUNode(l, k), Pushed(c, k))
                                   /\ Lru!Keeps(c, q, {k}) /\ Len(c) <= Len(q)
<1>1. q \in Seq(CacheKeys) /\ Len(q) \in Nat /\ Distinct(q) /\ l.nodes = {q[i] : i \in 1 .. Len(q)}
  BY ListFacts DEF Holds, ListOf, Distinct
<1>2. CASE k \in l.nodes
  <2>1. PICK p \in 1 .. Len(q) : k = q[p] BY <1>1, <1>2
  <2>2. AddLRUNode(l, k) = MoveLRUToFront(l, k) BY <1>2 DEF AddLRUNode
  <2>3. ListOf(MoveLRUToFront(l, k), Pushed(Cut(q, p), k)) BY <2>1, Moves
  <2>4. Cut(q, p) \in Seq(CacheKeys) /\ Len(Cut(q, p)) <= Len(q) BY <1>1, CutIs
  <2>5. Lru!Keeps(Cut(q, p), q, {k}) BY <1>1, <2>1, CutKeeps
  <2> QED BY <2>2, <2>3, <2>4, <2>5
<1>3. CASE k \notin l.nodes
  <2>1. ListOf(AddLRUNode(l, k), Pushed(q, k)) BY <1>3, Adds
  <2>2. {k} \cap ToSet(q) = {} BY <1>1, <1>3 DEF ToSet
  <2>3. Lru!Keeps(q, q, {k}) BY <1>1, <2>2, KeepsItself
  <2> QED BY <1>1, <2>1, <2>3
<1> QED BY <1>2, <1>3

LEMMA InsertStep ==
  ASSUME Linked, Cardinality(DOMAIN cache) <= MaxEntries, NEW k \in CacheKeys, NEW entry,
         cache' = [x \in (DOMAIN cache \ {Victim}) \cup {k} |-> IF x = k THEN entry ELSE cache[x]],
         SetList(AddLRUNode(RemoveLRUNode(List, Victim), k))
  PROVE  Linked' /\ LruStep /\ Cardinality(DOMAIN cache') <= MaxEntries
<1>1. PICK q : ListOf(List, q) BY DEF Linked
<1>2. Walk = q BY <1>1, NodesOf
<1> DEFINE gone == IF Len(q) < MaxEntries THEN {} ELSE {Last(q)}
           l1 == RemoveLRUNode(List, Victim)
<1>3. PICK q1 : /\ ListOf(l1, q1) /\ Len(q1) < MaxEntries
                /\ ToSet(q1) = DOMAIN cache \ {Victim} /\ Lru!Keeps(q1, q, gone)
  BY <1>1, VictimGoes
<1> HIDE DEF gone, l1
<1>4. PICK c \in Seq(CacheKeys) : /\ ListOf(AddLRUNode(l1, k), Pushed(c, k))
                                  /\ Lru!Keeps(c, q1, {k}) /\ Len(c) <= Len(q1)
  BY <1>3, ToFront
<1> DEFINE r == Pushed(c, k)
<1>5. List' = AddLRUNode(l1, k) BY <1>4, SetListIs DEF ListOf, l1
<1>6. ListOf(List', r) BY <1>4, <1>5
<1>7. r # <<>> /\ Head(r) = k /\ Tail(r) = c /\ ToSet(r) = ToSet(c) \cup {k} BY PushedHead
<1>8. Len(r) = Len(c) + 1 BY PushedIs
<1> HIDE DEF r
<1>9. Walk' = r /\ nodes' = ToSet(r) BY <1>6, WalkAfter
<1>10. ToSet(c) = ToSet(q1) \ {k} BY <1>4, LruKeeps
<1>11. DOMAIN cache' = ToSet(r) /\ \A x \in ToSet(c) : cache'[x] = cache[x]
  BY <1>3, <1>7, <1>10
<1>12. Linked' BY <1>6, <1>9, <1>11 DEF Linked
<1>13. Lru!Keeps(c, q, {k} \cup gone) BY <1>3, <1>4, KeepsOn
<1>14. Lru!Insert(q, r)
  <2>1. Lru!ToSet(r) = ToSet(r) /\ Lru!ToSet(c) = ToSet(c) /\ Lru!Last(q) = Last(q)
    BY DEF Lru!ToSet, ToSet, Lru!Last, Last
  <2>2. gone = IF Len(q) < MaxEntries THEN {} ELSE {Lru!Last(q)} BY <2>1 DEF gone
  <2> QED BY <1>7, <1>11, <1>13, <2>1, <2>2 DEF Lru!Insert
<1>15. Lru!Next BY <1>2, <1>9, <1>14 DEF Lru!Next
<1>16. Cardinality(DOMAIN cache') <= MaxEntries
  <2>1. Cardinality((List').nodes) = Len(r) BY <1>6, ListBound
  <2>2. (List').nodes = nodes' BY DEF List
  <2>3. Len(q1) \in Nat BY <1>3, ListFacts DEF Holds
  <2>4. Len(c) \in Nat OBVIOUS
  <2>5. Len(r) <= MaxEntries BY <1>3, <1>4, <1>8, <2>3, <2>4, ConstantTypes
  <2> QED BY <1>9, <1>11, <2>1, <2>2, <2>5
<1> QED BY <1>12, <1>15, <1>16 DEF LruStep

-----------------------------------------------------------------------------
(* The inductive invariant                                                  *)

CacheStages == {"idle", "hit", "miss", "insert", "done"}
CallOf == [stage : CacheStages, key : Keys0, at : 0 .. MaxClock, exists : BOOLEAN]
Entry == [exists : BOOLEAN, expiresAt : 0 .. MaxClock + TTL]

DbInv ==
  /\ clock \in 0 .. MaxClock /\ flips \in 0 .. MaxFlips
  /\ connected \in [CacheKeys -> BOOLEAN] /\ flipped \in [CacheKeys -> -1 .. MaxClock]

(* What an entry says was true when it was asked for, TTL before it expires. *)
EntryOK(e, k) ==
  /\ e \in Entry /\ e.expiresAt <= clock + TTL
  /\ e.exists # connected[k] => flipped[k] >= e.expiresAt - TTL

(* What the database said has not changed since the caller looked into the  *)
(* cache, or changed after that; what the cache said may be TTL older.      *)
CallOK(c) ==
  /\ c \in CallOf /\ c.at <= clock
  /\ c.stage # "idle" => c.key \in CacheKeys
  /\ c.stage = "insert" /\ c.exists # connected[c.key] => flipped[c.key] >= c.at
  /\ c.stage \in {"hit", "done"} /\ c.exists # connected[c.key] => flipped[c.key] > c.at - TTL

MapInv ==
  /\ cache = [k \in DOMAIN cache |-> cache[k]] /\ DOMAIN cache \subseteq CacheKeys
  /\ Cardinality(DOMAIN cache) <= MaxEntries
  /\ \A k \in DOMAIN cache : EntryOK(cache[k], k)

CallsInv == call \in [Callers -> CallOf] /\ \A h \in Callers : CallOK(call[h])

CacheIInv == DbInv /\ MapInv /\ stale \subseteq DOMAIN cache /\ CallsInv /\ Linked

-----------------------------------------------------------------------------

LEMMA SameDb ==
  ASSUME UNCHANGED dbVars
  PROVE  /\ clock' = clock /\ connected' = connected /\ flipped' = flipped /\ flips' = flips
         /\ DbInv => DbInv'
         /\ \A e, k : EntryOK(e, k) => EntryOK(e, k)'
         /\ \A c : CallOK(c) => CallOK(c)'
<1>1. clock' = clock /\ connected' = connected /\ flipped' = flipped /\ flips' = flips BY DEF dbVars
<1>2. DbInv => DbInv' BY <1>1 DEF DbInv
<1>3. \A e, k : EntryOK(e, k) => EntryOK(e, k)' BY <1>1 DEF EntryOK
<1>4. \A c : CallOK(c) => CallOK(c)' BY <1>1 DEF CallOK
<1> QED BY <1>1, <1>2, <1>3, <1>4

LEMMA MapStays ==
  ASSUME MapInv, UNCHANGED dbVars, cache' = cache
  PROVE  MapInv'
<1>1. \A e, k : EntryOK(e, k) => EntryOK(e, k)' BY SameDb
<1> QED BY <1>1 DEF MapInv

LEMMA MapShrinks ==
  ASSUME MapInv, UNCHANGED dbVars, NEW k, cache' = Without(k)
  PROVE  MapInv' /\ DOMAIN cache' = DOMAIN cache \ {k}
<1>1. /\ DOMAIN cache' = DOMAIN cache \ {k}
      /\ \A x \in DOMAIN cache \ {k} : cache'[x] = cache[x]
      /\ cache' = [x \in DOMAIN cache' |-> cache'[x]]
  BY DEF Without
<1>2. DOMAIN cache \in SUBSET CacheKeys BY DEF MapInv
<1>3. IsFiniteSet(DOMAIN cache) BY <1>2, ConstantTypes, FS_Subset
<1>4. DOMAIN cache \ {k} \in SUBSET DOMAIN cache OBVIOUS
<1>5. Cardinality(DOMAIN cache \ {k}) <= Cardinality(DOMAIN cache) BY <1>3, <1>4, FS_Subset
<1>6. IsFiniteSet(DOMAIN cache \ {k}) BY <1>3, <1>4, FS_Subset
<1>7. Cardinality(DOMAIN cache \ {k}) \in Nat /\ Cardinality(DOMAIN cache) \in Nat
  BY <1>3, <1>6, FS_CardinalityType
<1>8. Cardinality(DOMAIN cache') <= MaxEntries BY <1>1, <1>5, <1>7, ConstantTypes DEF MapInv
<1>9. clock' = clock /\ connected' = connected /\ flipped' = flipped BY SameDb
<1>10. ASSUME NEW x \in DOMAIN cache' PROVE EntryOK(cache[x], x)'
  <2>1. x \in DOMAIN cache /\ cache'[x] = cache[x] BY <1>1
  <2>2. EntryOK(cache[x], x) BY <2>1 DEF MapInv
  <2> QED BY <1>9, <2>1, <2>2 DEF EntryOK
<1> QED BY <1>1, <1>2, <1>8, <1>10 DEF MapInv

LEMMA CallsStay ==
  ASSUME CallsInv, UNCHANGED dbVars, call' = call
  PROVE  CallsInv'
<1>1. \A c : CallOK(c) => CallOK(c)' BY SameDb
<1> QED BY <1>1 DEF CallsInv

LEMMA CallMoves ==
  ASSUME CallsInv, UNCHANGED dbVars, NEW h \in Callers, NEW c, CallOK(c),
         call' = [call EXCEPT ![h] = c]
  PROVE  CallsInv'
<1>1. clock' = clock /\ connected' = connected /\ flipped' = flipped BY SameDb
<1>2. c \in CallOf BY DEF CallOK
<1>3. call' \in [Callers -> CallOf] BY <1>2 DEF CallsInv
<1>4. ASSUME NEW g \in Callers PROVE CallOK(call[g])'
  <2>1. call'[g] = (IF g = h THEN c ELSE call[g]) BY DEF CallsInv
  <2>2. CallOK(IF g = h THEN c ELSE call[g]) BY DEF CallsInv
  <2> QED BY <1>1, <2>1, <2>2 DEF CallOK
<1> QED BY <1>3, <1>4 DEF CallsInv

LEMMA CallFields ==
  ASSUME CallsInv, NEW h \in Callers
  PROVE  /\ call \in [Callers -> CallOf] /\ CallOK(call[h]) /\ call[h] \in CallOf
         /\ call[h].stage \in CacheStages /\ call[h].key \in Keys0
         /\ call[h].at \in 0 .. MaxClock /\ call[h].at \in Int /\ call[h].exists \in BOOLEAN
         /\ call[h].stage # "idle" => call[h].key \in CacheKeys
<1>1. call \in [Callers -> CallOf] /\ CallOK(call[h]) /\ call[h] \in CallOf BY DEF CallsInv
<1>2. /\ call[h].stage \in CacheStages /\ call[h].key \in Keys0
      /\ call[h].at \in 0 .. MaxClock /\ call[h].exists \in BOOLEAN
  BY <1>1 DEF CallOf
<1>3. call[h].at \in Int BY <1>2
<1> QED BY <1>1, <1>2, <1>3 DEF CallOK

LEMMA NoCallOK ==
  ASSUME DbInv
  PROVE  CallOK(NoCall)
<1>1. NoCall \in CallOf BY ConstantTypes DEF NoCall, CallOf, CacheStages, Keys0
<1>2. 0 <= clock BY ConstantTypes DEF DbInv
<1> QED BY <1>1, <1>2 DEF CallOK, NoCall

LEMMA ClockTickKeeps ==
  ASSUME CacheIInv, ClockTick
  PROVE  CacheIInv' /\ LruStep
<1>1. /\ clock \in 0 .. MaxClock /\ clock < MaxClock /\ clock' = clock + 1 /\ MaxClock \in Nat
      /\ TTL \in Nat /\ connected' = connected /\ flipped' = flipped /\ flips' = flips
      /\ cache' = cache /\ stale' = stale /\ call' = call /\ UNCHANGED listVars
  BY ConstantTypes DEF CacheIInv, DbInv, ClockTick
<1>2. DbInv' BY <1>1 DEF CacheIInv, DbInv
<1>3. ASSUME NEW k \in DOMAIN cache PROVE EntryOK(cache[k], k)'
  <2>1. EntryOK(cache[k], k) BY DEF CacheIInv, MapInv
  <2>2. cache[k].expiresAt \in Int BY <1>1, <2>1 DEF EntryOK, Entry
  <2>3. cache[k].expiresAt <= clock' + TTL BY <1>1, <2>1, <2>2 DEF EntryOK
  <2> QED BY <1>1, <2>1, <2>3 DEF EntryOK
<1>4. MapInv' BY <1>1, <1>3 DEF CacheIInv, MapInv
<1>5. ASSUME NEW h \in Callers PROVE CallOK(call[h])'
  <2>1. CallOK(call[h]) /\ call[h].at \in Int BY CallFields DEF CacheIInv
  <2>2. call[h].at <= clock' BY <1>1, <2>1 DEF CallOK
  <2> QED BY <1>1, <2>1, <2>2 DEF CallOK
<1>6. CallsInv' BY <1>1, <1>5 DEF CacheIInv, CallsInv
<1>7. Linked' /\ LruStep BY <1>1, ListStays DEF CacheIInv
<1> QED BY <1>1, <1>2, <1>4, <1>6, <1>7 DEF CacheIInv

LEMMA FlipKeeps ==
  ASSUME CacheIInv, NEW k \in CacheKeys, Flip(k)
  PROVE  CacheIInv' /\ LruStep
<1>1. /\ clock \in 0 .. MaxClock /\ clock' = clock /\ MaxClock \in Nat /\ MaxFlips \in Nat
      /\ TTL \in Nat \ {0} /\ connected \in [CacheKeys -> BOOLEAN] /\ flips \in 0 .. MaxFlips
      /\ flipped \in [CacheKeys -> -1 .. MaxClock]
      /\ flips < MaxFlips /\ flips' = flips + 1
      /\ connected' = [connected EXCEPT ![k] = ~connected[k]]
      /\ flipped' = [flipped EXCEPT ![k] = clock]
      /\ cache' = cache /\ stale' = stale /\ call' = call /\ UNCHANGED listVars
  BY ConstantTypes DEF CacheIInv, DbInv, Flip
<1>2. DbInv'
  <2>1. clock \in -1 .. MaxClock BY <1>1
  <2>2. flipped' \in [CacheKeys -> -1 .. MaxClock] BY <1>1, <2>1
  <2>3. connected' \in [CacheKeys -> BOOLEAN]
    <3>1. (~connected[k]) \in BOOLEAN OBVIOUS
    <3> QED BY <1>1, <3>1
  <2>4. flips' \in 0 .. MaxFlips BY <1>1
  <2> QED BY <1>1, <2>2, <2>3, <2>4 DEF DbInv
<1>3. /\ flipped'[k] = clock
      /\ \A x \in CacheKeys : x # k => flipped'[x] = flipped[x] /\ connected'[x] = connected[x]
  BY <1>1
<1>4. ASSUME NEW x \in DOMAIN cache PROVE EntryOK(cache[x], x)'
  <2>1. EntryOK(cache[x], x) /\ x \in CacheKeys BY DEF CacheIInv, MapInv
  <2>2. cache[x].expiresAt \in Int BY <1>1, <2>1 DEF EntryOK, Entry
  <2>3. cache[x].expiresAt <= clock + TTL BY <2>1 DEF EntryOK
  <2>4. x = k => flipped'[x] >= cache[x].expiresAt - TTL BY <1>1, <1>3, <2>2, <2>3
  <2> QED BY <1>1, <1>3, <2>1, <2>4 DEF EntryOK
<1>5. MapInv' BY <1>1, <1>4 DEF CacheIInv, MapInv
<1>6. ASSUME NEW h \in Callers PROVE CallOK(call[h])'
  <2>1. /\ CallOK(call[h]) /\ call[h].at \in Int /\ call[h].key \in Keys0
        /\ call[h].stage # "idle" => call[h].key \in CacheKeys
    BY CallFields DEF CacheIInv
  <2>2. call[h].at <= clock BY <2>1 DEF CallOK
  <2>3. call[h].key = k => flipped'[call[h].key] >= call[h].at /\ flipped'[call[h].key] > call[h].at - TTL
    BY <1>1, <1>3, <2>1, <2>2
  <2>4. CASE call[h].key = k BY <1>1, <2>1, <2>2, <2>3, <2>4 DEF CallOK
  <2>5. CASE call[h].key # k
    <3>1. call[h].stage # "idle" =>
            /\ flipped'[call[h].key] = flipped[call[h].key]
            /\ connected'[call[h].key] = connected[call[h].key]
      BY <1>3, <2>1, <2>5
    <3> QED BY <1>1, <2>1, <3>1 DEF CallOK
  <2> QED BY <2>4, <2>5
<1>7. CallsInv' BY <1>1, <1>6 DEF CacheIInv, CallsInv
<1>8. Linked' /\ LruStep BY <1>1, ListStays DEF CacheIInv
<1> QED BY <1>1, <1>2, <1>5, <1>7, <1>8 DEF CacheIInv

(* A step that leaves the database alone.                                   *)
LEMMA Together ==
  ASSUME CacheIInv, UNCHANGED dbVars, MapInv', stale' \subseteq DOMAIN cache', CallsInv', Linked'
  PROVE  CacheIInv'
BY SameDb DEF CacheIInv

LEMMA LookKeeps ==
  ASSUME CacheIInv, NEW h \in Callers, NEW k \in CacheKeys, Look(h, k)
  PROVE  CacheIInv' /\ LruStep
<1> DEFINE c == [stage |-> IF Found(k, clock) THEN "hit" ELSE "miss", key |-> k, at |-> clock,
                 exists |-> IF Found(k, clock) THEN cache[k].exists ELSE FALSE]
<1>1. /\ UNCHANGED dbVars /\ cache' = cache /\ UNCHANGED listVars /\ stale' = stale
      /\ call' = [call EXCEPT ![h] = c]
  BY DEF Look, Unlocked
<1>2. clock \in 0 .. MaxClock /\ clock \in Int /\ TTL \in Nat /\ flipped[k] \in Int
  BY ConstantTypes DEF CacheIInv, DbInv
<1>3. ASSUME Found(k, clock) PROVE CallOK(c)
  <2>1. EntryOK(cache[k], k) /\ clock < cache[k].expiresAt
    BY <1>3 DEF Found, CacheIInv, MapInv
  <2>2. cache[k].exists \in BOOLEAN /\ cache[k].expiresAt \in Int
    BY <1>2, <2>1, ConstantTypes DEF EntryOK, Entry
  <2>3. c = [stage |-> "hit", key |-> k, at |-> clock, exists |-> cache[k].exists] BY <1>3
  <2> HIDE DEF c
  <2>4. c \in CallOf BY <1>2, <2>2, <2>3 DEF CallOf, CacheStages, Keys0
  <2>5. cache[k].exists # connected[k] => flipped[k] > clock - TTL
    BY <1>2, <2>1, <2>2 DEF EntryOK
  <2> QED BY <1>2, <2>3, <2>4, <2>5 DEF CallOK
<1>4. ASSUME ~Found(k, clock) PROVE CallOK(c)
  <2>1. c = [stage |-> "miss", key |-> k, at |-> clock, exists |-> FALSE] BY <1>4
  <2> HIDE DEF c
  <2>2. c \in CallOf BY <1>2, <2>1 DEF CallOf, CacheStages, Keys0
  <2> QED BY <1>2, <2>1, <2>2 DEF CallOK
<1> HIDE DEF c
<1>5. CallsInv' BY <1>1, <1>3, <1>4, CallMoves DEF CacheIInv
<1>6. MapInv' /\ Linked' /\ LruStep BY <1>1, MapStays, ListStays DEF CacheIInv
<1>7. stale' \subseteq DOMAIN cache' BY <1>1 DEF CacheIInv
<1> QED BY <1>1, <1>5, <1>6, <1>7, Together

(* A call that returns.                                                     *)
LEMMA DoneOK ==
  ASSUME NEW c, CallOK(c), NEW d, d \in CallOf, d.stage = "done", d.key = c.key, d.at = c.at,
         c.key \in CacheKeys, d.exists # connected[c.key] => flipped[c.key] > c.at - TTL
  PROVE  CallOK(d)
BY DEF CallOK

LEMMA HitKeeps ==
  ASSUME CacheIInv, NEW h \in Callers, Hit(h)
  PROVE  CacheIInv' /\ LruStep
<1> DEFINE c == call[h]  d == [c EXCEPT !.stage = "done"]
<1>1. /\ UNCHANGED dbVars /\ cache' = cache /\ stale' = stale /\ c.stage = "hit"
      /\ SetList(MoveLRUToFront(List, c.key)) /\ call' = [call EXCEPT ![h] = d]
  BY DEF Hit, Unlocked, Returns
<1>2. CallOK(c) /\ c \in CallOf /\ c.key \in CacheKeys BY <1>1, CallFields DEF CacheIInv
<1> HIDE DEF c
<1>3. /\ d \in CallOf /\ d.stage = "done" /\ d.key = c.key /\ d.at = c.at
      /\ d.exists = c.exists
  BY <1>2 DEF CallOf, CacheStages
<1>4. d.exists # connected[c.key] => flipped[c.key] > c.at - TTL BY <1>1, <1>2, <1>3 DEF CallOK
<1> HIDE DEF d
<1>5. CallOK(d) BY <1>2, <1>3, <1>4, DoneOK
<1>6. CallsInv' BY <1>1, <1>5, CallMoves DEF CacheIInv
<1>7. MapInv' BY <1>1, MapStays DEF CacheIInv
<1>8. Linked' /\ LruStep BY <1>1, MoveStep DEF CacheIInv
<1>9. stale' \subseteq DOMAIN cache' BY <1>1 DEF CacheIInv
<1> QED BY <1>1, <1>6, <1>7, <1>8, <1>9, Together

LEMMA QueryKeeps ==
  ASSUME CacheIInv, NEW h \in Callers, Query(h)
  PROVE  CacheIInv' /\ LruStep
<1> DEFINE c == call[h]  d == [c EXCEPT !.stage = "insert", !.exists = connected[c.key]]
<1>1. /\ UNCHANGED dbVars /\ cache' = cache /\ stale' = stale /\ c.stage = "miss"
      /\ UNCHANGED listVars /\ call' = [call EXCEPT ![h] = d]
  BY DEF Query
<1>2. CallOK(c) /\ c \in CallOf /\ c.key \in CacheKeys BY <1>1, CallFields DEF CacheIInv
<1>3. connected[c.key] \in BOOLEAN BY <1>2 DEF CacheIInv, DbInv
<1> HIDE DEF c
<1>4. /\ d \in CallOf /\ d.stage = "insert" /\ d.key = c.key /\ d.at = c.at
      /\ d.exists = connected[c.key]
  BY <1>2, <1>3 DEF CallOf, CacheStages
<1> HIDE DEF d
<1>5. CallOK(d) BY <1>2, <1>4 DEF CallOK
<1>6. CallsInv' BY <1>1, <1>5, CallMoves DEF CacheIInv
<1>7. MapInv' /\ Linked' /\ LruStep BY <1>1, MapStays, ListStays DEF CacheIInv
<1>8. stale' \subseteq DOMAIN cache' BY <1>1 DEF CacheIInv
<1> QED BY <1>1, <1>6, <1>7, <1>8, Together

LEMMA ExistsFailsKeeps ==
  ASSUME CacheIInv, NEW h \in Callers, ExistsFails(h)
  PROVE  CacheIInv' /\ LruStep
<1> DEFINE k == call[h].key
<1>1. /\ UNCHANGED dbVars /\ stale = {} /\ stale' = stale /\ call' = [call EXCEPT ![h] = NoCall]
      /\ cache' = Without(k) /\ SetList(RemoveLRUNode(List, k))
  BY DEF ExistsFails, Unlocked
<1> HIDE DEF k
<1>2. CallOK(NoCall) BY NoCallOK DEF CacheIInv
<1>3. CallsInv' BY <1>1, <1>2, CallMoves DEF CacheIInv
<1>4. MapInv' BY <1>1, MapShrinks DEF CacheIInv
<1>5. Linked' /\ LruStep BY <1>1, RemoveStep DEF CacheIInv, MapInv
<1>6. stale' \subseteq DOMAIN cache' BY <1>1
<1> QED BY <1>1, <1>3, <1>4, <1>5, <1>6, Together

LEMMA UseOtherKeeps ==
  ASSUME CacheIInv, NEW h \in Callers, UseOther(h)
  PROVE  CacheIInv' /\ LruStep
<1> DEFINE c == call[h]  k == c.key  d == [c EXCEPT !.stage = "done", !.exists = cache[k].exists]
<1>1. /\ UNCHANGED dbVars /\ cache' = cache /\ stale' = stale /\ c.stage = "insert"
      /\ Found(k, c.at) /\ SetList(MoveLRUToFront(List, k)) /\ call' = [call EXCEPT ![h] = d]
  BY DEF UseOther, Unlocked
<1>2. CallOK(c) /\ c \in CallOf /\ k \in CacheKeys /\ c.at \in Int
  BY <1>1, CallFields DEF CacheIInv
<1> HIDE DEF c
<1>3. EntryOK(cache[k], k) /\ c.at < cache[k].expiresAt
  BY <1>1 DEF Found, CacheIInv, MapInv
<1>4. /\ cache[k].exists \in BOOLEAN /\ cache[k].expiresAt \in Int
      /\ flipped[k] \in Int /\ TTL \in Nat
  BY <1>2, <1>3, ConstantTypes DEF EntryOK, Entry, CacheIInv, DbInv
<1>5. cache[k].exists # connected[k] => flipped[k] > c.at - TTL
  BY <1>2, <1>3, <1>4 DEF EntryOK
<1>6. /\ d \in CallOf /\ d.stage = "done" /\ d.key = c.key /\ d.at = c.at
      /\ d.exists = cache[k].exists
  BY <1>2, <1>4 DEF CallOf, CacheStages
<1> HIDE DEF d
<1>7. CallOK(d) BY <1>2, <1>5, <1>6, DoneOK
<1>8. CallsInv' BY <1>1, <1>7, CallMoves DEF CacheIInv
<1>9. MapInv' BY <1>1, MapStays DEF CacheIInv
<1>10. Linked' /\ LruStep BY <1>1, MoveStep DEF CacheIInv
<1>11. stale' \subseteq DOMAIN cache' BY <1>1 DEF CacheIInv
<1> QED BY <1>1, <1>8, <1>9, <1>10, <1>11, Together

LEMMA InsertKeeps ==
  ASSUME CacheIInv, NEW h \in Callers, Insert(h)
  PROVE  CacheIInv' /\ LruStep
<1> DEFINE c == call[h]  k == c.key  d == [c EXCEPT !.stage = "done"]
           entry == [exists |-> c.exists, expiresAt |-> c.at + TTL]
<1>1. /\ UNCHANGED dbVars /\ stale = {} /\ stale' = stale /\ c.stage = "insert"
      /\ cache' = [x \in (DOMAIN cache \ {Victim}) \cup {k} |-> IF x = k THEN entry ELSE cache[x]]
      /\ SetList(AddLRUNode(RemoveLRUNode(List, Victim), k))
      /\ call' = [call EXCEPT ![h] = d]
  BY DEF Insert, Unlocked, Returns, ExpiresAt
<1>2. /\ CallOK(c) /\ c \in CallOf /\ k \in CacheKeys /\ c.at \in 0 .. MaxClock /\ c.at \in Int
      /\ c.exists \in BOOLEAN
  BY <1>1, CallFields DEF CacheIInv
<1>3. /\ clock \in Int /\ flipped[k] \in Int /\ TTL \in Nat \ {0} /\ MaxClock \in Nat
  BY <1>2, ConstantTypes DEF CacheIInv, DbInv
<1> HIDE DEF c
<1>4. /\ d \in CallOf /\ d.stage = "done" /\ d.key = c.key /\ d.at = c.at /\ d.exists = c.exists
  BY <1>2 DEF CallOf, CacheStages
<1>5. c.exists # connected[k] => flipped[k] >= c.at /\ flipped[k] > c.at - TTL
  BY <1>1, <1>2, <1>3 DEF CallOK
<1>6. EntryOK(entry, k)
  <2>1. entry.exists = c.exists /\ entry.expiresAt = c.at + TTL OBVIOUS
  <2>2. c.at + TTL \in 0 .. MaxClock + TTL BY <1>2, <1>3
  <2>3. entry \in Entry BY <1>2, <2>2 DEF Entry
  <2>4. c.at <= clock BY <1>2 DEF CallOK
  <2>5. entry.expiresAt <= clock + TTL /\ entry.expiresAt - TTL = c.at BY <1>2, <1>3, <2>1, <2>4
  <2> HIDE DEF entry
  <2> QED BY <1>5, <2>1, <2>3, <2>5 DEF EntryOK
<1> HIDE DEF d, entry
<1>7. CallOK(d) BY <1>2, <1>4, <1>5, DoneOK
<1>8. CallsInv' BY <1>1, <1>7, CallMoves DEF CacheIInv
<1>9. Linked' /\ LruStep /\ Cardinality(DOMAIN cache') <= MaxEntries
  BY <1>1, <1>2, InsertStep DEF CacheIInv, MapInv
<1>10. MapInv'
  <2>1. /\ DOMAIN cache' = (DOMAIN cache \ {Victim}) \cup {k}
        /\ cache' = [x \in DOMAIN cache' |-> cache'[x]]
        /\ \A x \in DOMAIN cache' : cache'[x] = IF x = k THEN entry ELSE cache[x]
    BY <1>1
  <2>2. DOMAIN cache' \subseteq CacheKeys BY <1>2, <2>1 DEF CacheIInv, MapInv
  <2>3. ASSUME NEW x \in DOMAIN cache' PROVE EntryOK(cache[x], x)'
    <3>1. cache'[x] = (IF x = k THEN entry ELSE cache[x]) BY <2>1
    <3>2. x # k => x \in DOMAIN cache BY <2>1
    <3>3. EntryOK(IF x = k THEN entry ELSE cache[x], x) BY <1>6, <3>2 DEF CacheIInv, MapInv
    <3>4. clock' = clock /\ connected' = connected /\ flipped' = flipped BY <1>1, SameDb
    <3> QED BY <3>1, <3>3, <3>4 DEF EntryOK
  <2> QED BY <1>9, <2>1, <2>2, <2>3 DEF MapInv
<1>11. stale' \subseteq DOMAIN cache' BY <1>1
<1> QED BY <1>1, <1>8, <1>9, <1>10, <1>11, Together

LEMMA AnsweredKeeps ==
  ASSUME CacheIInv, NEW h \in Callers, Answered(h)
  PROVE  CacheIInv' /\ LruStep
<1>1. /\ UNCHANGED dbVars /\ stale' = stale /\ call' = [call EXCEPT ![h] = NoCall]
      /\ cache' = cache /\ UNCHANGED listVars
  BY DEF Answered
<1>2. CallOK(NoCall) BY NoCallOK DEF CacheIInv
<1>3. CallsInv' BY <1>1, <1>2, CallMoves DEF CacheIInv
<1>4. MapInv' /\ Linked' /\ LruStep BY <1>1, MapStays, ListStays DEF CacheIInv
<1>5. stale' \subseteq DOMAIN cache' BY <1>1 DEF CacheIInv
<1> QED BY <1>1, <1>3, <1>4, <1>5, Together

LEMMA EvictStaleKeeps ==
  ASSUME CacheIInv, EvictStale
  PROVE  CacheIInv' /\ LruStep
<1>1. UNCHANGED dbVars /\ cache' = cache /\ call' = call /\ UNCHANGED listVars BY DEF EvictStale
<1>2. stale' \subseteq DOMAIN cache' BY <1>1 DEF EvictStale
<1>3. MapInv' /\ CallsInv' /\ Linked' /\ LruStep
  BY <1>1, MapStays, CallsStay, ListStays DEF CacheIInv
<1> QED BY <1>1, <1>2, <1>3, Together

LEMMA EvictKeeps ==
  ASSUME CacheIInv, NEW k \in CacheKeys, Evict(k)
  PROVE  CacheIInv' /\ LruStep
<1>1. /\ UNCHANGED dbVars /\ call' = call /\ stale' = stale \ {k}
      /\ cache' = Without(k) /\ SetList(RemoveLRUNode(List, k))
  BY DEF Evict
<1>2. MapInv' /\ DOMAIN cache' = DOMAIN cache \ {k} BY <1>1, MapShrinks DEF CacheIInv
<1>3. stale' \subseteq DOMAIN cache' BY <1>1, <1>2 DEF CacheIInv
<1>4. CallsInv' BY <1>1, CallsStay DEF CacheIInv
<1>5. Linked' /\ LruStep BY <1>1, RemoveStep DEF CacheIInv, MapInv
<1> QED BY <1>1, <1>2, <1>3, <1>4, <1>5, Together

LEMMA CacheInitOK ==
  ASSUME CacheInit
  PROVE  CacheIInv /\ Lru!Init
<1>1. /\ clock = 0 /\ flips = 0 /\ cache = <<>> /\ nodes = {} /\ head = NoKey /\ tail = NoKey
      /\ connected = [k \in CacheKeys |-> TRUE] /\ flipped = [k \in CacheKeys |-> -1]
      /\ prev = [k \in CacheKeys |-> NoKey] /\ next = [k \in CacheKeys |-> NoKey]
      /\ stale = {} /\ call = [h \in Callers |-> NoCall]
  BY DEF CacheInit
<1>2. DbInv
  <2>1. 0 \in 0 .. MaxClock /\ 0 \in 0 .. MaxFlips /\ -1 \in -1 .. MaxClock BY ConstantTypes
  <2> QED BY <1>1, <2>1 DEF DbInv
<1>3. DOMAIN cache = {} BY <1>1
<1>4. MapInv
  <2>1. Cardinality({}) = 0 BY FS_EmptySet
  <2>2. cache = [k \in DOMAIN cache |-> cache[k]] BY <1>1
  <2> QED BY <1>3, <2>1, <2>2, ConstantTypes DEF MapInv
<1>5. CallsInv
  <2>1. CallOK(NoCall) BY <1>2, NoCallOK
  <2>2. NoCall \in CallOf BY <2>1 DEF CallOK
  <2> QED BY <1>1, <2>1, <2>2 DEF CallsInv
<1>6. ListOf(List, <<>>)
  <2>1. List.nodes = {} /\ List.head = NoKey /\ List.tail = NoKey BY <1>1 DEF List
  <2>2. List \in Lists
    <3>1. /\ prev \in [CacheKeys -> Keys0] /\ next \in [CacheKeys -> Keys0] /\ NoKey \in Keys0
          /\ nodes \in SUBSET CacheKeys
      BY <1>1 DEF Keys0
    <3> QED BY <1>1, <3>1 DEF List, Lists
  <2>3. <<>> \in Seq(CacheKeys) /\ Len(<<>>) = 0 OBVIOUS
  <2>4. At(<<>>, 1) = NoKey /\ At(<<>>, Len(<<>>)) = NoKey BY <2>3 DEF At
  <2>5. 1 .. Len(<<>>) = {} BY <2>3
  <2> QED BY <2>1, <2>2, <2>3, <2>4, <2>5 DEF ListOf
<1>7. Linked BY <1>1, <1>3, <1>6 DEF Linked
<1>8. Walk = <<>> BY <1>6, NodesOf
<1>9. Lru!Init BY <1>1, <1>8 DEF Lru!Init
<1> QED BY <1>1, <1>2, <1>3, <1>4, <1>5, <1>7, <1>9 DEF CacheIInv

LEMMA CacheStep ==
  ASSUME CacheIInv, [CacheNext]_cacheVars
  PROVE  CacheIInv' /\ LruStep
<1>1. CASE ClockTick BY <1>1, ClockTickKeeps
<1>2. CASE EvictStale BY <1>2, EvictStaleKeeps
<1>3. CASE \E k \in CacheKeys : Flip(k) \/ Evict(k) BY <1>3, FlipKeeps, EvictKeeps
<1>4. ASSUME NEW h \in Callers,
             \/ \E k \in CacheKeys : Look(h, k)
             \/ Hit(h) \/ Query(h) \/ ExistsFails(h) \/ UseOther(h) \/ Insert(h) \/ Answered(h)
      PROVE  CacheIInv' /\ LruStep
  <2>1. CASE \E k \in CacheKeys : Look(h, k) BY <2>1, LookKeeps
  <2>2. CASE Hit(h) BY <2>2, HitKeeps
  <2>3. CASE Query(h) BY <2>3, QueryKeeps
  <2>4. CASE ExistsFails(h) BY <2>4, ExistsFailsKeeps
  <2>5. CASE UseOther(h) BY <2>5, UseOtherKeeps
  <2>6. CASE Insert(h) BY <2>6, InsertKeeps
  <2>7. CASE Answered(h) BY <2>7, AnsweredKeeps
  <2> QED BY <1>4, <2>1, <2>2, <2>3, <2>4, <2>5, <2>6, <2>7
<1>5. CASE UNCHANGED cacheVars
  <2>1. UNCHANGED dbVars /\ cache' = cache /\ UNCHANGED listVars /\ stale' = stale /\ call' = call
    BY <1>5 DEF cacheVars
  <2>2. MapInv' /\ CallsInv' /\ Linked' /\ LruStep
    BY <2>1, MapStays, CallsStay, ListStays DEF CacheIInv
  <2>3. stale' \subseteq DOMAIN cache' BY <2>1 DEF CacheIInv
  <2> QED BY <2>1, <2>2, <2>3, Together
<1> QED BY <1>1, <1>2, <1>3, <1>4, <1>5 DEF CacheNext

LEMMA CacheInductive == CacheSpec => []CacheIInv
<1>1. CacheInit => CacheIInv BY CacheInitOK
<1>2. CacheIInv /\ [CacheNext]_cacheVars => CacheIInv' BY CacheStep
<1> QED BY <1>1, <1>2, PTL DEF CacheSpec

LEMMA ImpliesCacheInv ==
  ASSUME CacheIInv
  PROVE  CacheInv
<1>1. PICK q : ListOf(List, q) BY DEF CacheIInv, Linked
<1>2. /\ ToSet(q) = nodes /\ Distinct(q) /\ q \in Seq(CacheKeys) /\ Len(q) \in Nat /\ Walk = q
      /\ nodes = DOMAIN cache
  BY <1>1, NodesOf DEF CacheIInv, Linked
<1>3. List \in Lists /\ List.tail = At(q, Len(q))
      /\ \A i \in 1 .. Len(q) : List.prev[q[i]] = At(q, i - 1)
  BY <1>1 DEF ListOf
<1>4. /\ nodes \in SUBSET CacheKeys /\ head \in Keys0 /\ tail \in Keys0
      /\ prev \in [CacheKeys -> Keys0] /\ next \in [CacheKeys -> Keys0]
      /\ List.prev = prev /\ List.tail = tail /\ List.nodes = nodes
  BY <1>3 DEF List, Lists
<1>5. CacheTypeOK
  <2>1. \A k \in DOMAIN cache : cache[k] \in Entry BY DEF CacheIInv, MapInv, EntryOK
  <2>2. call \in [Callers -> CallOf] BY DEF CacheIInv, CallsInv
  <2>3. {prev, next} \subseteq [CacheKeys -> CacheKeys \cup {NoKey}] BY <1>4 DEF Keys0
  <2>4. {head, tail} \subseteq CacheKeys \cup {NoKey} BY <1>4 DEF Keys0
  <2> QED BY <1>4, <2>1, <2>2, <2>3, <2>4
       DEF CacheTypeOK, CacheIInv, DbInv, MapInv, Entry, CallOf, CacheStages, Keys0
<1>6. ListIsMap
  <2>1. Len(Walk) = Cardinality(nodes) BY <1>1, <1>2, <1>4, ListBound
  <2>2. DOMAIN q = 1 .. Len(q) BY <1>2
  <2>3. ASSUME NEW i \in DOMAIN q PROVE prev[q[i]] = IF i = 1 THEN NoKey ELSE q[i - 1]
    <3>1. prev[q[i]] = At(q, i - 1) BY <1>3, <1>4, <2>2
    <3> QED BY <1>2, <2>2, <3>1 DEF At
  <2>4. tail = IF q = <<>> THEN NoKey ELSE Last(q)
    <3>1. tail = At(q, Len(q)) BY <1>3, <1>4
    <3>2. CASE q = <<>>
      <4>1. Len(q) = 0 BY <3>2
      <4> QED BY <3>1, <3>2, <4>1 DEF At
    <3>3. CASE q # <<>>
      <4>1. Len(q) \in 1 .. Len(q) BY <1>2, <3>3
      <4> QED BY <3>1, <3>3, <4>1 DEF At, Last
    <3> QED BY <3>2, <3>3
  <2> QED BY <1>2, <2>1, <2>3, <2>4 DEF ListIsMap
<1>7. AnswerIsRecent
  <2>1. \A h \in Callers : CallOK(call[h]) BY DEF CacheIInv, CallsInv
  <2> QED BY <2>1 DEF AnswerIsRecent, CallOK
<1> QED BY <1>5, <1>6, <1>7 DEF CacheInv

(* In every state of the cache, for any number of workspaces and handlers   *)
(* and any limits: the list that the handlers relink beside the map holds   *)
(* exactly the map's keys, once each, with its backward pointers and its    *)
(* tail right, and no answer is older than the time to live.                *)
THEOREM CacheCorrect == CacheSpec => []CacheInv
<1>1. CacheIInv => CacheInv BY ImpliesCacheInv
<1> QED BY <1>1, CacheInductive, PTL

(* Map and pointers implement the abstract cache: every step of a handler   *)
(* or of the sweep uses, inserts or drops entries of a list that is kept in *)
(* the order of use, and an insertion evicts nothing but the last of them.  *)
THEOREM CacheIsLru == CacheSpec => IsLruCache
<1>1. CacheInit => Lru!Init BY CacheInitOK
<1>2. CacheIInv /\ [CacheNext]_cacheVars => [Lru!Next]_<<Walk, cache>> BY CacheStep DEF LruStep
<1> QED BY <1>1, <1>2, CacheInductive, PTL DEF CacheSpec, IsLruCache, Lru!Spec
=============================================================================
