---------------------------- MODULE Conversation ----------------------------
(***************************************************************************)
(* A chat message on its way through the bot: the Slack event loop with    *)
(* its bounded handlers, or a Discord goroutine; the token bucket of the   *)
(* user; the cached configuration of the workspace; the thread of an       *)
(* agent's question; the agent that the user addressed last; the history   *)
(* of the conversation; and the model's answer.  The handlers of several   *)
(* messages run side by side.  There is one workspace, and one session     *)
(* that may ask one question.                                              *)
(***************************************************************************)
EXTENDS Integers, FiniteSets, Sequences, SequencesExt, FiniteSetsExt

CONSTANTS
  Messages, Users, Agents, NoAgent,
  Configs,            \* the sets of agents with which the configuration may answer
  UserOf,             \* the author of a message
  Names,              \* the agent whose name is in the message, or NoAgent
  OverSlack,          \* is the workspace one of Slack, or one of Discord?
  InThread,           \* the messages that are replies in the thread of the question
  WorkRequests,       \* the messages that ask for work on a repository of the workspace
  Owner,              \* platform_user_id of the session that asks
  MaxHandlers,        \* capacity of handlerSemaphore
  MessagesPerMinute,
  Minute,             \* ticks in a minute: handleMessageTimeout
  Idle,               \* ticks after which a bucket is idle, two minutes
  MaxHistoryKeys, MaxMessagesPerAgent,
  MaxTime             \* bound on the clock

ASSUME ConversationAssumption ==
  /\ NoAgent \notin Agents /\ Owner \in Users
  /\ UserOf \in [Messages -> Users] /\ Names \in [Messages -> Agents \cup {NoAgent}]
  /\ OverSlack \in BOOLEAN
  /\ {InThread, WorkRequests} \subseteq SUBSET Messages
  /\ {MaxHandlers, MessagesPerMinute, Minute, MaxHistoryKeys, MaxMessagesPerAgent}
       \subseteq Nat \ {0}
  /\ Configs \subseteq SUBSET Agents /\ MaxTime \in Nat /\ Idle \in Nat /\ Idle >= Minute

VARIABLES
  now,
  stage,       \* per message: where its handler is
  earlier,     \* per message: those of its author that had ended when it arrived (history)
  start,       \* per message: when HandleMessage began, or -1
  buckets,     \* per user: [tokens, lastRefill], or <<>>
  config,      \* per message: the agents that its handler knows
  pending,     \* does the session wait for an answer to its question?
  registered,  \* is the thread in clarificationThreads?
  writers,     \* the messages that wrote an answer (history)
  lastAddressed, \* per user: an agent, or NoAgent
  agent,       \* per message: the agent it was routed to, or NoAgent
  history      \* per user and agent: the messages, <<>> if there is no entry

messageVars == <<stage, start, config, agent>>
questionVars == <<pending, registered, writers>>
vars == <<now, messageVars, earlier, buckets, questionVars, lastAddressed, history>>

Keys == Users \X Agents
Key(m, a) == <<UserOf[m], a>>
OfUser(m) == {n \in Messages : UserOf[n] = UserOf[m]}

Init ==
  /\ now = 0
  /\ stage = [m \in Messages |-> "sent"]
  /\ earlier = [m \in Messages |-> {}]
  /\ start = [m \in Messages |-> -1]
  /\ buckets = [u \in Users |-> <<>>]
  /\ config = [m \in Messages |-> {}]
  /\ pending = TRUE /\ registered = FALSE /\ writers = {}
  /\ lastAddressed = [u \in Users |-> NoAgent]
  /\ agent = [m \in Messages |-> NoAgent]
  /\ history = [k \in Keys |-> <<>>]

(* Minutes pass between messages, before a slot is free, and while a query  *)
(* or the model is waited for.                                              *)
Tick ==
  /\ now < MaxTime
  /\ \A m \in Messages : stage[m] \in {"sent", "loop", "config", "thread", "answer", "chat", "end"}
  /\ now' = now + 1
  /\ UNCHANGED <<messageVars, earlier, buckets, questionVars, lastAddressed, history>>

Goes(m, s) == stage' = [stage EXCEPT ![m] = s]

(* The handler returns: its slot of the semaphore is free again.            *)
Ends(m) ==
  /\ Goes(m, "end")
  /\ config' = [config EXCEPT ![m] = {}]

(* handleMessageTimeout: no call that takes the context succeeds.           *)
TimedOut(m) == now > start[m] + Minute

-----------------------------------------------------------------------------
(* The front ends                                                           *)

MutantHandlers ==
  {m \in Messages : stage[m] \notin {"sent", "loop", "end"} \/ (stage[m] = "end" /\ start[m] = -1)}
Handlers == {m \in Messages : stage[m] \notin {"sent", "loop", "end"}}
InFlight(u) == {m \in Messages : UserOf[m] = u /\ stage[m] \notin {"sent", "end"}}

(* Discord's handleMessageCreate runs on a goroutine for each message.      *)
Entrance == IF OverSlack THEN "loop" ELSE "handler"

(* The event loop of Slack acknowledges one event and then waits for a      *)
(* slot.                                                                    *)
Arrive(m) ==
  /\ stage[m] = "sent"
  /\ OverSlack => \A n \in Messages : stage[n] # "loop"
  /\ Goes(m, Entrance)
  /\ earlier' = [earlier EXCEPT ![m] = {n \in OfUser(m) : stage[n] = "end"}]
  /\ UNCHANGED <<now, start, config, agent, buckets, questionVars, lastAddressed, history>>

MutantHasSlot == Cardinality(Handlers) <= MaxHandlers
HasSlot == Cardinality(Handlers) < MaxHandlers

Dispatch(m) ==
  /\ stage[m] = "loop" /\ HasSlot
  /\ Goes(m, "handler")
  /\ UNCHANGED <<now, start, config, agent, earlier, buckets, questionVars, lastAddressed,
                 history>>

(* allowMessage: the limiter of the front end has no token.                 *)
TooFast(m) ==
  /\ stage[m] = "handler"
  /\ Ends(m)
  /\ UNCHANGED <<now, start, agent, earlier, buckets, questionVars, lastAddressed, history>>

(* The front end drops the message: it is empty, or the workspace is not    *)
(* known or cannot be looked up (module WorkspaceCache).                    *)
TurnedAway(m) ==
  /\ stage[m] = "handler"
  /\ Ends(m)
  /\ UNCHANGED <<now, start, agent, earlier, buckets, questionVars, lastAddressed, history>>

-----------------------------------------------------------------------------
(* checkRateLimit                                                           *)

Refilled(b) ==
  LET add == ((now - b.lastRefill) * MessagesPerMinute) \div Minute IN
  IF add = 0 THEN b
  ELSE [tokens |-> Min({b.tokens + add, MessagesPerMinute}), lastRefill |-> now]

Bucket(u) ==
  IF buckets[u] = <<>> THEN [tokens |-> MessagesPerMinute, lastRefill |-> now]
  ELSE Refilled(buckets[u])

CheckRateLimit(m) ==
  LET bucket == Bucket(UserOf[m]) IN
  /\ stage[m] = "handler"
  /\ IF bucket.tokens > 0
     THEN /\ buckets' = [buckets EXCEPT ![UserOf[m]] = [bucket EXCEPT !.tokens = bucket.tokens - 1]]
          /\ start' = [start EXCEPT ![m] = now]
          /\ Goes(m, "config") /\ UNCHANGED config
     ELSE /\ buckets' = [buckets EXCEPT ![UserOf[m]] = bucket]
          /\ Ends(m) /\ UNCHANGED start
  /\ UNCHANGED <<now, agent, earlier, questionVars, lastAddressed, history>>

MutantStale(b) == b.lastRefill < now + Idle
Stale(b) == b.lastRefill < now - Idle

(* cleanupRateLimiters                                                      *)
CleanupRateLimiters ==
  /\ \E u \in Users : buckets[u] # <<>> /\ Stale(buckets[u])
  /\ buckets' =
       [u \in Users |-> IF buckets[u] # <<>> /\ Stale(buckets[u]) THEN <<>> ELSE buckets[u]]
  /\ UNCHANGED <<now, messageVars, earlier, questionVars, lastAddressed, history>>

-----------------------------------------------------------------------------
(* GetUserConfigByWorkspace: the agents that the cache of module            *)
(* WorkspaceCache or the database answers with, or an error.                *)
Configure(m) ==
  /\ stage[m] = "config"
  /\ \E known \in Configs :
       IF known = {} THEN Ends(m)
       ELSE /\ Goes(m, IF m \in InThread THEN "thread" ELSE "route")
            /\ config' = [config EXCEPT ![m] = known]
  /\ UNCHANGED <<now, start, agent, earlier, buckets, questionVars, lastAddressed, history>>

-----------------------------------------------------------------------------
(* The thread of a question                                                 *)

(* RegisterClarificationThread: exported, and nobody calls it yet.          *)
Register ==
  /\ pending /\ ~registered /\ registered' = TRUE
  /\ UNCHANGED <<now, messageVars, earlier, buckets, pending, writers, lastAddressed, history>>

(* The session stops waiting: a timeout, an answer from the dashboard.      *)
(* Only a registered thread makes a difference.                             *)
Settle ==
  /\ registered /\ pending /\ pending' = FALSE
  /\ UNCHANGED <<now, messageVars, earlier, buckets, registered, writers, lastAddressed, history>>

(* clarificationTTL, which is shorter than the hour a question may wait.     *)
CleanupThreads ==
  /\ registered /\ registered' = FALSE
  /\ UNCHANGED <<now, messageVars, earlier, buckets, pending, writers, lastAddressed, history>>

MutantIsOwner(m) == TRUE
IsOwner(m) == UserOf[m] = Owner

(* GetWaitingSessionByThreadID and GetPendingClarifications.                *)
LookForQuestion(m) ==
  /\ stage[m] = "thread"
  /\ IF ~registered THEN Goes(m, "route") /\ UNCHANGED config
     ELSE /\ ~TimedOut(m)
          /\ \/ ~pending /\ Goes(m, "route") /\ UNCHANGED config
             \/ pending /\ ~IsOwner(m) /\ Ends(m)
             \/ pending /\ IsOwner(m) /\ Goes(m, "answer") /\ UNCHANGED config
  /\ UNCHANGED <<now, start, agent, earlier, buckets, questionVars, lastAddressed, history>>

(* AnswerClarification, whatever the row has become, and the unregistering. *)
Answer(m) ==
  /\ stage[m] = "answer" /\ ~TimedOut(m)
  /\ pending' = FALSE
  /\ registered' = FALSE /\ writers' = writers \cup {m}
  /\ Ends(m)
  /\ UNCHANGED <<now, start, agent, earlier, buckets, lastAddressed, history>>

(* A query of the handler fails.                                            *)
QueryFails(m) ==
  /\ stage[m] \in {"config", "answer"} \/ (stage[m] = "thread" /\ registered)
  /\ Ends(m)
  /\ UNCHANGED <<now, start, agent, earlier, buckets, questionVars, lastAddressed, history>>

-----------------------------------------------------------------------------
(* RouteMessage                                                             *)

(* extractWords and findAgentBySound: the agent that a word of the message  *)
(* names, or sounds like, among those that the handler knows.               *)
FindAgent(m) == IF Names[m] \in config[m] THEN Names[m] ELSE NoAgent

MutantAddressed(u, a) == [v \in Users |-> a]
Addressed(u, a) == [lastAddressed EXCEPT ![u] = a]

(* agentName is read without the lock: beside the write of another handler  *)
(* of the user it may be neither name.                                      *)
MayTear(m) == \E n \in InFlight(UserOf[m]) \ {m} : stage[n] = "route" /\ FindAgent(n) # NoAgent

Route(m) ==
  LET u == UserOf[m]
      last == lastAddressed[u]
      named == FindAgent(m)
  IN
  /\ stage[m] = "route"
  /\ \/ /\ named # NoAgent
        /\ lastAddressed' = Addressed(u, named)
        /\ agent' = [agent EXCEPT ![m] = named]
        /\ Goes(m, "record") /\ UNCHANGED config
     \/ /\ named = NoAgent /\ last \in config[m]
        /\ agent' = [agent EXCEPT ![m] = last]
        /\ Goes(m, "record") /\ UNCHANGED <<lastAddressed, config>>
     \/ /\ named = NoAgent /\ (last \notin config[m] \/ MayTear(m))
        /\ Ends(m) /\ UNCHANGED <<lastAddressed, agent>>
  /\ UNCHANGED <<now, start, earlier, buckets, questionVars, history>>

(* lastAddressedEntry.cleanup: an hour without a message of the user.       *)
Forget(u) ==
  /\ lastAddressed[u] # NoAgent /\ InFlight(u) = {}
  /\ lastAddressed' = [lastAddressed EXCEPT ![u] = NoAgent]
  /\ UNCHANGED <<now, messageVars, earlier, buckets, questionVars, history>>

-----------------------------------------------------------------------------
(* The history and the answer                                               *)

Entries == {k \in Keys : history[k] # <<>>}
MutantTrimmed(h) == SubSeq(h, 1, Min({Len(h), MaxMessagesPerAgent}))
Trimmed(h) == SubSeq(h, Max({1, Len(h) - MaxMessagesPerAgent + 1}), Len(h))

(* historyStore.add: a new entry evicts the one that was not accessed for   *)
(* the longest time; in seconds, so that any of a second may be the oldest. *)
AddToHistory(k, item) ==
  LET room == k \in Entries \/ Cardinality(Entries) < MaxHistoryKeys
      Without(e) == IF room THEN history ELSE [history EXCEPT ![e] = <<>>]
  IN  \E e \in IF room THEN {k} ELSE Entries :
        history' = [Without(e) EXCEPT ![k] = Trimmed(Append(history[k], item))]

Record(m) ==
  /\ stage[m] = "record"
  /\ AddToHistory(Key(m, agent[m]), <<"user", m>>)
  /\ Goes(m, "chat") /\ config' = [config EXCEPT ![m] = {}]
  /\ UNCHANGED <<now, start, agent, earlier, buckets, questionVars, lastAddressed>>

(* DetectWorkRequest, DetectTestGenIntent and DetectRepo: over Discord, a   *)
(* request for work on a known repository gets a phrase of the bot's own.   *)
OwnPhrase(m) == ~OverSlack /\ m \in WorkRequests

(* llmClient.Chat, or the phrase, and the second entry.                     *)
Reply(m) ==
  /\ stage[m] = "chat" /\ (OwnPhrase(m) \/ ~TimedOut(m))
  /\ AddToHistory(Key(m, agent[m]), <<"assistant", m>>)
  /\ Ends(m)
  /\ UNCHANGED <<now, start, agent, earlier, buckets, questionVars, lastAddressed>>

(* No key, no client, or an error of the model: the question stays in the   *)
(* history without an answer.                                               *)
ChatFails(m) ==
  /\ stage[m] = "chat"
  /\ Ends(m)
  /\ UNCHANGED <<now, start, agent, earlier, buckets, questionVars, lastAddressed, history>>

-----------------------------------------------------------------------------

Step(m) ==
  \/ Dispatch(m) \/ TooFast(m) \/ TurnedAway(m) \/ CheckRateLimit(m) \/ Configure(m)
  \/ LookForQuestion(m) \/ Answer(m) \/ QueryFails(m) \/ Route(m) \/ Record(m) \/ Reply(m)
  \/ ChatFails(m)

Next ==
  \/ \E m \in Messages : Arrive(m) \/ Step(m)
  \/ \E u \in Users : Forget(u)
  \/ Tick \/ CleanupRateLimiters \/ Register \/ Settle \/ CleanupThreads

Spec == Init /\ [][Next]_vars

(* Handlers run on; every call they make has a timeout.                     *)
FairSpec == Spec /\ \A m \in Messages : WF_vars(Step(m))

-----------------------------------------------------------------------------

(* The type of the state.                                                   *)
TypeOK ==
  /\ now \in 0 .. MaxTime
  /\ stage \in [Messages -> {"sent", "loop", "handler", "config", "thread",
                             "answer", "route", "record", "chat", "end"}]
  /\ earlier \in [Messages -> SUBSET Messages] /\ writers \subseteq Messages
  /\ start \in [Messages -> -1 .. MaxTime]
  /\ \A u \in Users : buckets[u] # <<>> =>
       buckets[u] \in [tokens : 0 .. MessagesPerMinute, lastRefill : 0 .. MaxTime]
  /\ config \in [Messages -> SUBSET Agents]
  /\ pending \in BOOLEAN /\ registered \in BOOLEAN
  /\ lastAddressed \in [Users -> Agents \cup {NoAgent}]
  /\ agent \in [Messages -> Agents \cup {NoAgent}]
  /\ \A k \in Keys : Len(history[k]) <= MaxMessagesPerAgent
  /\ Cardinality(Entries) <= MaxHistoryKeys
  /\ OverSlack => Cardinality(Handlers) <= MaxHandlers

(* In no window of time does a user get more messages through than a full   *)
(* bucket and its refill over that time: the cleanup of idle buckets, and   *)
(* the whole tokens to which the refill is rounded, give nothing away.      *)
RateHolds ==
  \A u \in Users : \A t1, t2 \in 0 .. MaxTime : t1 <= t2 =>
    Cardinality({m \in Messages : UserOf[m] = u /\ start[m] \in t1 .. t2})
      <= MessagesPerMinute + ((t2 - t1) * MessagesPerMinute) \div Minute

(* A message without a name goes to the agent of an earlier message of its  *)
(* author, with none to another agent sent after that one was dealt with    *)
(* and dealt with before this one was sent: the handlers of one user may    *)
(* overtake each other, but what they write is neither lost nor mixed up    *)
(* with what another user wrote.                                            *)
FollowUpGoesToLast ==
  \A m \in Messages : stage[m] = "record" /\ FindAgent(m) = NoAgent =>
    \E n \in OfUser(m) \ {m} :
      /\ agent[n] = agent[m] /\ m \notin earlier[n]
      /\ \A k \in earlier[m] : n \in earlier[k] => agent[k] \in {agent[n], NoAgent}

(* The history that goes to the model is of one user with one agent, an     *)
(* answer stands behind its message, and trimming never takes the message   *)
(* that the model is to answer, unless its author sent others beside it;    *)
(* else the whole entry is gone, to a store that is full of others.         *)
HistoryIsOwn ==
  /\ \A k \in Keys : \A i, j \in DOMAIN history[k] :
       LET m == history[k][i][2] IN
       /\ Key(m, agent[m]) = k
       /\ i < j => history[k][j] \notin {history[k][i], <<"user", m>>}
  /\ \A m \in Messages : stage[m] = "chat" =>
       \/ <<"user", m>> \in ToSet(history[Key(m, agent[m])])
       \/ \E n \in OfUser(m) \ (earlier[m] \cup {m}) : agent[n] = agent[m]
       \/ Key(m, agent[m]) \notin Entries /\ Cardinality(Entries) = MaxHistoryKeys

(* Only the user for whom the session works answers its question, whoever   *)
(* else writes in the thread.                                               *)
OnlyOwnerAnswers == \A m \in writers : UserOf[m] = Owner

(* Every message that arrived comes to an end: the event loop waits for a   *)
(* slot, and every slot is given back.                                      *)
MessageEnds == \A m \in Messages : stage[m] # "sent" ~> stage[m] = "end"

(* Histories and answers in every state.                                    *)
ConversationInv == TypeOK /\ HistoryIsOwn /\ OnlyOwnerAnswers
=============================================================================
