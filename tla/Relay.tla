-------------------------------- MODULE Relay --------------------------------
(***************************************************************************)
(* The stream relay (stream-relay) with the connection of the bot that     *)
(* feeds it.  A message gets a number (NextSequence), goes to the channels *)
(* of the session's viewers (Publish) and into the queue of a persistence  *)
(* worker (enqueuePersist).  Viewers get the stored history and are then   *)
(* subscribed.                                                             *)
(*                                                                         *)
(* Publish is one step for the copy of the subscribers and one for each    *)
(* channel.  The goroutines that publish for a session run concurrently:   *)
(* the ingest handler, HTTP handlers and the inactivity timer.  The        *)
(* endpoint for single chunks, which nothing in the repository calls, is   *)
(* left out.                                                               *)
(***************************************************************************)
EXTENDS RelayConnection

CONSTANTS
  Clients,       \* viewers' WebSocket connections
  MaxConns,      \* maxConns of the hub
  SendCap,       \* capacity of Subscriber.Send
  Shards,        \* persistence workers
  ShardOf,       \* hashSessionID % len(persistChannels)
  QueueCap,      \* capacity of a persistence channel
  BatchSize,     \* rows of one insert
  HistoryLimit,  \* LIMIT of the history query
  Expiring,      \* sessions that may be inactive for sessionInactivityTime
  Sweeping       \* sessions that run when CleanupOrphanedSequences does

ASSUME RelayAssumption ==
  /\ MaxConns \in Nat \ {0} /\ SendCap \in Nat \ {0} /\ QueueCap \in Nat \ {0}
  /\ BatchSize \in Nat \ {0} /\ HistoryLimit \in Nat /\ Sweeping \subseteq Streamed
  /\ ShardOf \in [Streamed -> Shards] /\ Expiring \subseteq Streamed

VARIABLES
  counter,    \* sequenceMap, 0 where there is no entry
  high,       \* history: the highest number handed out
  reused,     \* history: a number was handed out that is not higher
  subs,       \* the subscribers of each session
  active,     \* activeConns
  elsewhere,  \* connections of other sessions, which stay
  client,     \* a viewer's connection
  ingest,     \* handleIngest: none, reading, ending, done
  pub,        \* what a goroutine is publishing
  idleTimer,  \* sessionTimers: is the timer in the map, is it running
  queue,      \* persistChannels
  batch,      \* rows a worker has collected
  store,      \* session_outputs
  full        \* persistDrops > 0

hubVars == <<counter, high, reused, subs, active, elsewhere>>
workerVars == <<queue, batch, store, full>>
relayVars ==
  <<connVars, wire, request, breaks, hubVars, client, ingest, pub, idleTimer, workerVars>>

Threads == {"ingest", "status", "end", "timer"}
Idle == [pc |-> "idle", kind |-> "none", n |-> 0, seq |-> 0, to |-> {}, mark |-> {}]
Away == [pc |-> "away", of |-> "none", from |-> 0, buf |-> <<>>, got |-> <<>>,
         drops |-> FALSE, done |-> FALSE]
NoSession == "none"

RelayInit ==
  /\ ConnInit
  /\ counter = [s \in Streamed |-> 0]
  /\ high = [s \in Streamed |-> 0]
  /\ reused = [s \in Streamed |-> FALSE]
  /\ subs = [s \in Streamed |-> {}]
  /\ elsewhere \in {0, MaxConns}
  /\ active = elsewhere
  /\ client = [c \in Clients |-> Away]
  /\ ingest = [s \in Streamed |-> "none"]
  /\ pub = [s \in Streamed |-> [t \in Threads |-> Idle]]
  /\ idleTimer = [s \in Streamed |-> [inMap |-> FALSE, armed |-> FALSE]]
  /\ queue = [h \in Shards |-> <<>>]
  /\ batch = [h \in Shards |-> <<>>]
  /\ store = {}
  /\ full = FALSE

----------------------------------------------------------------------------
(* The hub and the persistence queue.                                       *)

NextSequence(s) ==
  /\ counter' = [counter EXCEPT ![s] = @ + 1]
  /\ high' = [high EXCEPT ![s] = Max({@, counter[s] + 1})]
  /\ reused' = [reused EXCEPT ![s] = @ \/ counter[s] + 1 <= high[s]]

CleanupSequence(s) == counter' = [counter EXCEPT ![s] = 0]

(* publishChunk, with the copy of the subscribers that Publish makes under  *)
(* the lock.  Nothing is observable between the number and the copy: the    *)
(* channels are fed one by one below.                                       *)
PublishChunk(s, t, kind, n) ==
  /\ pub[s][t].pc \in {"idle", "fired"}
  /\ NextSequence(s)
  /\ pub' = [pub EXCEPT ![s][t] = [pc |-> "send", kind |-> kind, n |-> n, seq |-> counter[s] + 1,
                                    to |-> subs[s], mark |-> {}]]
  /\ UNCHANGED <<subs, active, elsewhere>>

Room(c) == Len(client[c].buf) < SendCap

(* Mutation: a dropped chunk is not counted.                                *)
SendUncounted(s, t, c) ==
  /\ pub[s][t].pc = "send" /\ c \in pub[s][t].to
  /\ pub' = [pub EXCEPT ![s][t].to = @ \ {c}]
  /\ client' = IF ~client[c].done /\ Room(c)
               THEN [client EXCEPT ![c].buf =
                       Append(@, [kind |-> pub[s][t].kind, n |-> pub[s][t].n, live |-> TRUE])]
               ELSE client
  /\ UNCHANGED <<connVars, wire, request, breaks, hubVars, ingest, idleTimer, workerVars>>

(* Publish, for one subscriber: nothing if it is done, else its channel; if *)
(* that is full the chunk is dropped and counted.                           *)
Send(s, t, c) ==
  LET p == pub[s][t]
      m == [kind |-> p.kind, n |-> p.n, live |-> TRUE] IN
  /\ p.pc = "send" /\ p.mark = {} /\ c \in p.to
  /\ \/ /\ client[c].done
        /\ pub' = [pub EXCEPT ![s][t].to = @ \ {c}]
        /\ UNCHANGED client
     \/ /\ ~client[c].done /\ Room(c)
        /\ pub' = [pub EXCEPT ![s][t].to = @ \ {c}]
        /\ client' = [client EXCEPT ![c].buf = Append(@, m)]
     \/ /\ ~client[c].done /\ ~Room(c)
        /\ pub' = [pub EXCEPT ![s][t].mark = {c}]
        /\ client' = [client EXCEPT ![c].drops = TRUE]
  /\ UNCHANGED <<connVars, wire, request, breaks, hubVars, ingest, idleTimer, workerVars>>

(* sendDropMarker: into the same channel, if there is room by now.          *)
SendDropMarker(s, t, c) ==
  /\ c \in pub[s][t].mark
  /\ pub' = [pub EXCEPT ![s][t].mark = {}, ![s][t].to = @ \ {c}]
  /\ client' = IF ~client[c].done /\ Room(c)
               THEN [client EXCEPT ![c].buf =
                       Append(@, [kind |-> "dropped", n |-> 0, live |-> TRUE])]
               ELSE client
  /\ UNCHANGED <<connVars, wire, request, breaks, hubVars, ingest, idleTimer, workerVars>>

(* Mutation: the row is dropped without counting it.                        *)
EnqueueUncounted(s, job) ==
  /\ queue' = IF Len(queue[ShardOf[s]]) < QueueCap
              THEN [queue EXCEPT ![ShardOf[s]] = Append(@, job)] ELSE queue
  /\ UNCHANGED <<batch, store, full>>

(* enqueuePersist: a full channel drops the row.                            *)
EnqueuePersist(s, job) ==
  LET h == ShardOf[s] IN
  IF Len(queue[h]) < QueueCap
  THEN queue' = [queue EXCEPT ![h] = Append(@, job)] /\ UNCHANGED <<batch, store, full>>
  ELSE full' = TRUE /\ UNCHANGED <<queue, batch, store>>

(* resetSessionTimer restarts the timer of the map or puts a new one there. *)
ResetSessionTimer(s) == idleTimer' = [idleTimer EXCEPT ![s] = [inMap |-> TRUE, armed |-> TRUE]]

(* What follows Publish.  The ingest handler stores data without touching   *)
(* the timer; a status is not stored; an end also forgets the counter.      *)
Published(s, t) ==
  LET p == pub[s][t]
      job == [of |-> s, seq |-> p.seq, n |-> p.n] IN
  /\ p.pc = "send" /\ p.to = {}
  /\ pub' = [pub EXCEPT ![s][t] = Idle]
  /\ request' = [request EXCEPT ![s] = @ \ {t}]
  /\ \/ /\ p.kind = "data"
        /\ EnqueuePersist(s, job)
        /\ UNCHANGED <<counter, ingest, idleTimer>>
     \/ /\ p.kind = "status"
        /\ ResetSessionTimer(s)
        /\ UNCHANGED <<workerVars, counter, ingest>>
     \/ /\ p.kind = "end"
        /\ EnqueuePersist(s, job)
        /\ CleanupSequence(s)
        /\ ingest' = IF t = "ingest" THEN [ingest EXCEPT ![s] = "done"] ELSE ingest
        /\ UNCHANGED idleTimer
  /\ UNCHANGED <<connVars, wire, breaks, high, reused, subs, active, elsewhere, client>>

----------------------------------------------------------------------------
(* Handlers.                                                                *)

(* handleIngest accepts the connection of NewRelayConnection.               *)
Connect(s) ==
  /\ NewRelayConnection(s)
  /\ ingest' = IF conn'[s].ws = "up" THEN [ingest EXCEPT ![s] = "reading"] ELSE ingest
  /\ UNCHANGED <<hubVars, client, pub, idleTimer, workerVars>>

(* handleIngest's reader: a status passes the limiter or is skipped, all    *)
(* else is data.                                                            *)
IngestRead(s) ==
  /\ ingest[s] = "reading" /\ pub[s]["ingest"].pc = "idle" /\ wire[s] # <<>>
  /\ wire' = [wire EXCEPT ![s] = Tail(@)]
  /\ \/ Head(wire[s]) # 0 /\ PublishChunk(s, "ingest", "data", Head(wire[s]))
     \/ Head(wire[s]) = 0 /\ PublishChunk(s, "ingest", "status", 0)
     \/ Head(wire[s]) = 0 /\ UNCHANGED <<pub, hubVars>>
  /\ UNCHANGED <<connVars, request, breaks, client, ingest, idleTimer, workerVars>>

(* The reader ends when the bot has hung up and all is read; the handler    *)
(* then publishes an end.                                                   *)
IngestEnds(s) ==
  /\ ingest[s] = "reading" /\ pub[s]["ingest"].pc = "idle"
  /\ conn[s].ws = "nil" /\ wire[s] = <<>>
  /\ ingest' = [ingest EXCEPT ![s] = "ending"]
  /\ PublishChunk(s, "ingest", "end", 0)
  /\ UNCHANGED <<connVars, wire, request, breaks, client, idleTimer, workerVars>>

(* A failed ping ends the handler, and with it the reader and the socket,   *)
(* without an end.                                                          *)
IngestBreaks(s) ==
  /\ Break
  /\ ingest[s] = "reading" /\ pub[s]["ingest"].pc = "idle"
  /\ ingest' = [ingest EXCEPT ![s] = "done"]
  /\ conn' = [conn EXCEPT ![s].ws = IF @ = "up" THEN "down" ELSE @]
  /\ wire' = [wire EXCEPT ![s] = <<>>]
  /\ UNCHANGED <<held, sent, request, hubVars, client, pub, idleTimer, workerVars>>

(* handleStatus: the limiter refuses, or the status is published.           *)
HandleStatus(s) ==
  /\ "status" \in request[s]
  /\ \/ PublishChunk(s, "status", "status", 0) /\ UNCHANGED request
     \/ /\ pub[s]["status"].pc = "idle"
        /\ request' = [request EXCEPT ![s] = @ \ {"status"}]
        /\ UNCHANGED <<pub, hubVars>>
  /\ UNCHANGED <<connVars, wire, breaks, client, ingest, idleTimer, workerVars>>

(* handleEnd stops the timer and publishes an end.                          *)
HandleEnd(s) ==
  /\ "end" \in request[s]
  /\ idleTimer' = [idleTimer EXCEPT ![s] =
                     [inMap |-> FALSE, armed |-> IF @.inMap THEN FALSE ELSE @.armed]]
  /\ PublishChunk(s, "end", "end", 0)
  /\ UNCHANGED <<connVars, wire, request, breaks, client, ingest, workerVars>>

(* The inactivity timer expires; its function takes it out of the map and   *)
(* publishes an end.  A Reset in between starts the same timer again.       *)
InactivityExpires(s) ==
  /\ s \in Expiring /\ idleTimer[s].armed /\ pub[s]["timer"].pc = "idle"
  /\ idleTimer' = [idleTimer EXCEPT ![s].armed = FALSE]
  /\ pub' = [pub EXCEPT ![s]["timer"].pc = "fired"]
  /\ UNCHANGED <<connVars, wire, request, breaks, hubVars, client, ingest, workerVars>>

TimerEndsSession(s) ==
  /\ pub[s]["timer"].pc = "fired"
  /\ idleTimer' = [idleTimer EXCEPT ![s].inMap = FALSE]
  /\ PublishChunk(s, "timer", "end", 0)
  /\ UNCHANGED <<connVars, wire, request, breaks, client, ingest, workerVars>>

(* CleanupOrphanedSequences, for one key.  The count is taken under the     *)
(* lock and the deletion follows; a viewer that comes in between does not   *)
(* change what it does to the numbers.                                      *)
CleanupOrphaned(s) ==
  /\ s \in Sweeping
  /\ counter[s] > 0 /\ subs[s] = {}
  /\ CleanupSequence(s)
  /\ UNCHANGED <<connVars, wire, request, breaks, high, reused, subs, active, elsewhere,
                 client, ingest, pub, idleTimer, workerVars>>

----------------------------------------------------------------------------
(* Viewers: handleWebSocket.                                                *)

(* ORDER BY sequence                                                        *)
Sorted(rows) ==
  CHOOSE q \in [1..Cardinality(rows) -> rows] :
    \A i, j \in 1..Cardinality(rows) : i < j => q[i].seq < q[j].seq

(* Mutation: ORDER BY sequence DESC.                                        *)
SortedNewestFirst(rows) ==
  CHOOSE q \in [1..Cardinality(rows) -> rows] :
    \A i, j \in 1..Cardinality(rows) : i < j => q[i].seq > q[j].seq

(* streamHistory: the rows after lastSequence in order, at most             *)
(* HistoryLimit of them, every one as data.                                 *)
History(s, after) ==
  LET rows == {r \in store : r.of = s /\ r.seq > after}
      sorted == Sorted(rows) IN
  [i \in 1..Min({HistoryLimit, Cardinality(rows)}) |->
     [kind |-> "data", n |-> sorted[i].n, live |-> FALSE]]

IsOutput(m) == m.kind = "data" /\ m.n > 0

(* What is left of a viewer whose handler has returned.                     *)
Gone(c) == [client[c] EXCEPT !.pc = "closed", !.done = TRUE, !.from = 0, !.buf = <<>>, !.got = <<>>]

Arrive(c, s, after) ==
  /\ client[c].pc = "away"
  /\ client' = [client EXCEPT ![c].pc = "subscribe", ![c].of = s, ![c].got = History(s, after)]
  /\ UNCHANGED <<connVars, wire, request, breaks, hubVars, ingest, pub, idleTimer, workerVars>>

(* History: how much output the ingest handler has read.  The socket keeps  *)
(* its order, so that is what precedes the first output still in it.        *)
Pending(s) == ToSet(wire[s]) \ {0}
Read(s) == IF Pending(s) = {} THEN Len(sent[s]) ELSE Min(Pending(s)) - 1

(* Mutation: the history is read after the subscription.                    *)
SubscribeFirst(c) ==
  LET s == client[c].of IN
  /\ client[c].pc = "subscribe"
  /\ \/ /\ c \notin subs[s] /\ active < MaxConns
        /\ active' = active + 1
        /\ subs' = [subs EXCEPT ![s] = @ \cup {c}]
        /\ UNCHANGED client
     \/ /\ c \in subs[s]
        /\ client' = [client EXCEPT ![c].pc = "live", ![c].got = History(s, 0)]
        /\ UNCHANGED <<subs, active>>
  /\ UNCHANGED <<connVars, wire, request, breaks, counter, high, reused, elsewhere,
                 ingest, pub, idleTimer, workerVars>>

(* Mutation: the limit is not checked.                                      *)
SubscribeAlways(c) ==
  /\ client[c].pc = "subscribe"
  /\ active' = active + 1
  /\ subs' = [subs EXCEPT ![client[c].of] = @ \cup {c}]
  /\ client' = [client EXCEPT ![c].pc = "live"]
  /\ UNCHANGED <<connVars, wire, request, breaks, counter, high, reused, elsewhere,
                 ingest, pub, idleTimer, workerVars>>

(* hub.Subscribe refuses at the limit; the handler then returns.            *)
Subscribe(c) ==
  LET s == client[c].of IN
  /\ client[c].pc = "subscribe"
  /\ \/ /\ active < MaxConns
        /\ active' = active + 1
        /\ subs' = [subs EXCEPT ![s] = @ \cup {c}]
        /\ client' = [client EXCEPT ![c].pc = "live", ![c].from = Read(s)]
     \/ /\ active >= MaxConns
        /\ client' = [client EXCEPT ![c] = Gone(c)]
        /\ UNCHANGED <<subs, active>>
  /\ UNCHANGED <<connVars, wire, request, breaks, counter, high, reused, elsewhere,
                 ingest, pub, idleTimer, workerVars>>

(* hub.Unsubscribe; Close sets done.                      *)
Unsubscribe(c) ==
  LET s == client[c].of IN
  /\ subs' = [subs EXCEPT ![s] = @ \ {c}]
  /\ active' = IF c \in subs[s] THEN active - 1 ELSE active


(* Mutation: the handler goes on after an end.                              *)
DeliverOn(c) ==
  /\ client[c].pc = "live" /\ client[c].buf # <<>>
  /\ client' = [client EXCEPT ![c].buf = Tail(@)]
  /\ UNCHANGED <<connVars, wire, request, breaks, hubVars, ingest, pub, idleTimer, workerVars>>

(* The loop of handleWebSocket takes a chunk from the channel; after an end *)
(* the handler returns.  Of what was sent, output is remembered.            *)
Deliver(c) ==
  /\ client[c].pc = "live" /\ client[c].buf # <<>>
  /\ LET m == Head(client[c].buf)
         fed == [client EXCEPT ![c].buf = Tail(@),
                               ![c].got = IF IsOutput(m) THEN Append(@, m) ELSE @] IN
     IF m.kind = "end"
     THEN client' = [fed EXCEPT ![c].pc = "leaving"]
     ELSE client' = fed
  /\ UNCHANGED <<connVars, wire, request, breaks, hubVars, ingest, pub, idleTimer, workerVars>>

(* cleanup runs once: by the reader's goroutine when the viewer goes away,  *)
(* or when the handler returns.                                             *)
ViewerGoes(c) ==
  /\ client[c].pc = "live" /\ ~client[c].done
  /\ Unsubscribe(c)
  /\ client' = [client EXCEPT ![c].done = TRUE]
  /\ UNCHANGED <<connVars, wire, request, breaks, counter, high, reused, elsewhere,
                 ingest, pub, idleTimer, workerVars>>

(* Mutation: cleanup is not limited to one call, nor to subscribers.        *)
LeaveTwice(c) ==
  /\ client[c].pc = "leaving" \/ (client[c].pc = "live" /\ client[c].done)
  /\ client' = [client EXCEPT ![c] = Gone(c)]
  /\ subs' = [subs EXCEPT ![client[c].of] = @ \ {c}]
  /\ active' = active - 1
  /\ UNCHANGED <<connVars, wire, request, breaks, counter, high, reused, elsewhere,
                 ingest, pub, idleTimer, workerVars>>

Leave(c) ==
  /\ \/ client[c].pc = "leaving"
     \/ client[c].pc = "live" /\ client[c].done
  /\ client' = [client EXCEPT ![c] = Gone(c)]
  /\ IF client[c].done THEN UNCHANGED <<subs, active>> ELSE Unsubscribe(c)
  /\ UNCHANGED <<connVars, wire, request, breaks, counter, high, reused, elsewhere,
                 ingest, pub, idleTimer, workerVars>>

----------------------------------------------------------------------------
(* Persistence: persistWorker and flushBatch.                               *)

Collect(h) ==
  /\ queue[h] # <<>> /\ Len(batch[h]) < BatchSize
  /\ queue' = [queue EXCEPT ![h] = Tail(@)]
  /\ batch' = [batch EXCEPT ![h] = Append(@, Head(queue[h]))]
  /\ UNCHANGED <<connVars, wire, request, breaks, hubVars, client, ingest, pub, idleTimer,
                 store, full>>

(* INSERT ... ON CONFLICT DO NOTHING: a number that is stored is kept.      *)
SameNumber(p, q) == p.of = q.of /\ p.seq = q.seq
Inserted(rows) ==
  {rows[i] : i \in {i \in DOMAIN rows :
     /\ ~\E r \in store : SameNumber(r, rows[i])
     /\ ~\E j \in 1..(i - 1) : SameNumber(rows[j], rows[i])}}

FlushBatch(h) ==
  /\ batch[h] # <<>>
  /\ batch' = [batch EXCEPT ![h] = <<>>]
  /\ \/ store' = store \cup Inserted(batch[h]) /\ UNCHANGED breaks
     \/ Break /\ UNCHANGED store
  /\ UNCHANGED <<connVars, wire, request, hubVars, client, ingest, pub, idleTimer, queue, full>>

(* The relay dies and is started again.  Nothing of its state is kept, the  *)
(* bot's socket breaks and is not opened again.                             *)
RelayRestart ==
  /\ Break
  /\ conn' = [s \in Streamed |-> [conn[s] EXCEPT !.ws = IF @ = "up" THEN "down" ELSE @]]
  /\ wire' = [s \in Streamed |-> <<>>]
  /\ request' = [s \in Streamed |-> {}]
  /\ counter' = [s \in Streamed |-> 0]
  /\ subs' = [s \in Streamed |-> {}]
  /\ active' = 0 /\ elsewhere' = 0
  /\ client' = [c \in Clients |-> IF client[c].pc = "away" THEN Away ELSE Gone(c)]
  /\ ingest' = [s \in Streamed |-> IF ingest[s] = "none" THEN "none" ELSE "done"]
  /\ pub' = [s \in Streamed |-> [t \in Threads |-> Idle]]
  /\ idleTimer' = [s \in Streamed |-> [inMap |-> FALSE, armed |-> FALSE]]
  /\ queue' = [h \in Shards |-> <<>>]
  /\ batch' = [h \in Shards |-> <<>>]
  /\ full' = FALSE
  /\ UNCHANGED <<held, sent, high, reused, store>>

----------------------------------------------------------------------------
Feed(s) ==
  /\ \/ Push(s) \/ Flush(s) \/ (\E data \in held[s] : FlushWrites(s, data))
     \/ PushStatus(s) \/ Close(s) \/ CloseWrites(s) \/ CloseHangsUp(s)
  /\ UNCHANGED <<hubVars, client, ingest, pub, idleTimer, workerVars>>

Publishing(s, t) ==
  \/ \E c \in Clients : Send(s, t, c) \/ SendDropMarker(s, t, c)
  \/ Published(s, t)

Handlers(s) ==
  \/ Connect(s) \/ IngestRead(s) \/ IngestEnds(s) \/ IngestBreaks(s)
  \/ HandleStatus(s) \/ HandleEnd(s)
  \/ InactivityExpires(s) \/ TimerEndsSession(s) \/ CleanupOrphaned(s)

Viewer(c) ==
  \/ \E s \in Streamed : \E after \in {0, counter[s]} : Arrive(c, s, after)
  \/ Subscribe(c) \/ Deliver(c) \/ ViewerGoes(c) \/ Leave(c)

RelayNext ==
  \/ \E s \in Streamed : Feed(s) \/ Handlers(s) \/ \E t \in Threads : Publishing(s, t)
  \/ \E c \in Clients : Viewer(c)
  \/ \E h \in Shards : Collect(h) \/ FlushBatch(h)
  \/ RelayRestart

RelaySpec == RelayInit /\ [][RelayNext]_relayVars

(* Goroutines run, tickers tick, sockets deliver; nothing makes the bot     *)
(* push, close or dial, a viewer come or go, or a timer expire.             *)
RelayFairSpec ==
  /\ RelaySpec
  /\ \A s \in Streamed :
       /\ WF_relayVars(IngestRead(s)) /\ WF_relayVars(IngestEnds(s))
       /\ WF_relayVars(HandleStatus(s)) /\ WF_relayVars(HandleEnd(s))
       /\ WF_relayVars(TimerEndsSession(s))
       /\ WF_relayVars(CloseWrites(s) /\ Feed(s)) /\ WF_relayVars(CloseHangsUp(s) /\ Feed(s))
       /\ \A t \in Threads : WF_relayVars(Publishing(s, t))
  /\ \A c \in Clients : WF_relayVars(Deliver(c)) /\ WF_relayVars(Leave(c))
  /\ \A h \in Shards : WF_relayVars(Collect(h)) /\ WF_relayVars(FlushBatch(h))

----------------------------------------------------------------------------
(* Properties.                                                              *)

Chunk == [kind : {"data", "status", "end", "dropped"}, n : Nat, live : BOOLEAN]
Row == [of : Streamed, seq : Nat, n : Nat]

ConnState ==
  [ws : {"new", "up", "down", "nil"}, closed : BOOLEAN, chunks : Seq(Nat), pushed : 0..MaxPush,
   said : 0..MaxStatus, close : {"open", "data", "posted", "done"}, last : Seq(Nat)]
ViewerState ==
  [pc : {"away", "subscribe", "live", "leaving", "closed"}, of : Streamed \cup {NoSession},
   from : Nat, buf : Seq(Chunk), got : Seq(Chunk), drops : BOOLEAN, done : BOOLEAN]
PubState ==
  [pc : {"idle", "fired", "send"}, kind : {"none", "data", "status", "end"}, n : Nat, seq : Nat,
   to : SUBSET Clients, mark : SUBSET Clients]

ConnTypes ==
  /\ conn \in [Streamed -> ConnState]
  /\ held \in [Streamed -> SUBSET Seq(Nat)]
  /\ sent \in [Streamed -> Seq(Seq(Nat))]
  /\ wire \in [Streamed -> Seq(Nat)]
  /\ request \in [Streamed -> SUBSET {"status", "end"}]
  /\ breaks \in 0..MaxBreaks

HubTypes ==
  /\ counter \in [Streamed -> Nat] /\ high \in [Streamed -> Nat] /\ reused \in [Streamed -> BOOLEAN]
  /\ subs \in [Streamed -> SUBSET Clients] /\ active \in Nat /\ elsewhere \in Nat

RowTypes ==
  /\ queue \in [Shards -> Seq(Row)] /\ batch \in [Shards -> Seq(Row)]
  /\ store \subseteq Row /\ full \in BOOLEAN

(* The type of the state.                                                   *)
RelayTypeOK ==
  /\ ConnTypes /\ HubTypes /\ RowTypes
  /\ client \in [Clients -> ViewerState]
  /\ ingest \in [Streamed -> {"none", "reading", "ending", "done"}]
  /\ pub \in [Streamed -> [Threads -> PubState]]
  /\ idleTimer \in [Streamed -> [inMap : BOOLEAN, armed : BOOLEAN]]

(* The connection counter is the number of subscribers, each in the set of  *)
(* its session, and never above the limit, however the two cleanups of a    *)
(* handler, a refusal and a restart interleave.                             *)
ConnectionsCounted ==
  /\ active = elsewhere + Cardinality(UNION {subs[s] : s \in Streamed}) /\ active <= MaxConns
  /\ \A s \in Streamed : subs[s] = {c \in Clients : /\ client[c].pc \in {"live", "leaving"}
                                                    /\ client[c].of = s /\ ~client[c].done}

(* What a viewer has been sent or is going to be sent on this connection,   *)
(* and the places in it that hold output of the bot; the number of a piece  *)
(* is that of the bot's message.                                            *)
Stream(c) == client[c].got \o client[c].buf
Outputs(c) == {i \in DOMAIN Stream(c) : IsOutput(Stream(c)[i])}
Increasing(c, places) == \A i, j \in places : i < j => Stream(c)[i].n < Stream(c)[j].n

(* A viewer never gets the same output twice: its history is read before it *)
(* subscribes, and what is published to it later was not stored by then.    *)
NoDuplicates ==
  \A c \in Clients : \A i, j \in Outputs(c) : Stream(c)[i].n = Stream(c)[j].n => i = j

(* As long as no counter was forgotten and used again, history and live     *)
(* output together are in the order in which the relay received them.       *)
ReceivedInOrder ==
  \A c \in Clients : client[c].of \in Streamed =>
    (~reused[client[c].of] => Increasing(c, Outputs(c)))

(* From its subscription on a viewer has all output that was published, in  *)
(* order and whatever happens to the numbers, but for what a goroutine is   *)
(* about to send it; or its drop counter says otherwise.                    *)
LiveIsComplete ==
  \A s \in Streamed : \A c \in subs[s] : ~client[c].drops /\ breaks = 0 =>
    LET live == {i \in Outputs(c) : Stream(c)[i].live}
        sending == IF pub[s]["ingest"].kind = "data" /\ c \in pub[s]["ingest"].to THEN 1 ELSE 0 IN
    /\ {Stream(c)[i].n : i \in live} = client[c].from + 1 .. Read(s) - sending
    /\ Increasing(c, live)

(* Output that reached the relay is stored in the end, unless a queue was   *)
(* full, a statement or process failed, or the counter was used again.      *)
OutputIsStored ==
  \A s \in Streamed : \A n \in 1..MaxPush :
    n <= Len(sent[s]) ~> \/ \E r \in store : r.of = s /\ r.n = n
                         \/ full \/ breaks > 0 \/ reused[s]

(* A viewer that is subscribed when the bot posts the end is let go, unless *)
(* its channel was full or a request failed.                                *)
EndReachesViewers ==
  \A c \in Clients, s \in Streamed :
    (c \in subs[s] /\ conn[s].close = "posted" /\ "end" \in request[s])
      ~> (client[c].pc = "closed" \/ client[c].drops \/ breaks > 0)

(* The hub's view of its viewers, with the types of its state.              *)
RelayInv == RelayTypeOK /\ ConnectionsCounted

(* What a viewer sees of a session: everything from its subscription on, in *)
(* order.                                                                   *)
ViewInv == ReceivedInOrder /\ LiveIsComplete
==============================================================================
