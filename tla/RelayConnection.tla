--------------------------- MODULE RelayConnection ---------------------------
(***************************************************************************)
(* The bot's side of the stream relay (bot/orchestrator/relay_client.go):  *)
(* output is collected for a few milliseconds, joined, and written to a    *)
(* WebSocket; the end of a session is announced by a separate HTTP request.*)
(*                                                                         *)
(* Output is a number: the k-th piece that Push received.  flush takes the *)
(* joined pieces under mu and writes them under writeMu, so what was taken *)
(* may wait (held) while later output is taken, written or closed over.    *)
(* A flush of nothing changes nothing, hence the timer needs no state: it  *)
(* is pending whenever there is something to flush.                        *)
(***************************************************************************)
EXTENDS Integers, Sequences, SequencesExt, FiniteSets, FiniteSetsExt

CONSTANTS
  Streamed,
  MaxPush,       \* bound on calls of Push per session
  MaxStatus,     \* bound on calls of PushStatus per session
  BufferLimit,   \* maxBufferSize, in pieces
  MaxBreaks      \* bound on failed writes, requests and restarts

ASSUME ConnectionAssumption ==
  /\ MaxPush \in Nat /\ MaxStatus \in Nat /\ MaxBreaks \in Nat
  /\ BufferLimit \in Nat \ {0}

VARIABLES
  conn,     \* the fields of RelayConnection, how much was pushed, where Close is
  held,     \* data taken by a flush that waits for writeMu
  sent,     \* history: the data messages written to the socket
  wire,     \* messages in the socket: 0 is a status, n the n-th data message
  request,  \* HTTP requests under way
  breaks

connVars == <<conn, held, sent>>

Break == breaks < MaxBreaks /\ breaks' = breaks + 1

ConnInit ==
  /\ conn = [s \in Streamed |-> [ws |-> "new", closed |-> FALSE, chunks |-> <<>>,
                                 pushed |-> 0, said |-> 0, close |-> "open", last |-> <<>>]]
  /\ held = [s \in Streamed |-> {}]
  /\ sent = [s \in Streamed |-> <<>>]
  /\ wire = [s \in Streamed |-> <<>>]
  /\ request = [s \in Streamed |-> {}]
  /\ breaks = 0

(* NewRelayConnection: a failed dial yields a connection that is closed     *)
(* from the start, on which every operation returns at once.                *)
NewRelayConnection(s) ==
  /\ conn[s].ws = "new"
  /\ \/ /\ conn' = [conn EXCEPT ![s].ws = "up"]
        /\ UNCHANGED breaks
     \/ /\ Break
        /\ conn' = [conn EXCEPT ![s].ws = "nil", ![s].closed = TRUE, ![s].close = "done"]
  /\ UNCHANGED <<held, sent, wire, request>>

Open(s) == conn[s].ws # "new" /\ ~conn[s].closed

(* Of joined output that is too long only the end is kept.                  *)
Trim(chunks) ==
  LET n == Len(chunks) IN IF n > BufferLimit THEN SubSeq(chunks, n - BufferLimit + 1, n) ELSE chunks

Push(s) ==
  /\ Open(s) /\ conn[s].pushed < MaxPush
  /\ conn' = [conn EXCEPT ![s].pushed = @ + 1,
                          ![s].chunks = Trim(Append(@, conn[s].pushed + 1))]
  /\ UNCHANGED <<held, sent, wire, request, breaks>>

(* flush, up to rc.mu.Unlock.                                               *)
Flush(s) ==
  /\ Open(s) /\ conn[s].chunks # <<>>
  /\ held' = [held EXCEPT ![s] = @ \cup {conn[s].chunks}]
  /\ conn' = [conn EXCEPT ![s].chunks = <<>>]
  /\ UNCHANGED <<sent, wire, request, breaks>>

(* WriteMessage of data: in the socket, or lost with an error that is only  *)
(* logged.  Close sets ws to nil; what is written then is lost silently.    *)
Arrives(s, data) ==
  /\ conn[s].ws = "up"
  /\ sent' = [sent EXCEPT ![s] = Append(@, data)]
  /\ wire' = [wire EXCEPT ![s] = Append(@, Len(sent[s]) + 1)]
IsLost(s) == conn[s].ws # "up" /\ UNCHANGED <<sent, wire>>

(* flush, from rc.writeMu.Lock.                                             *)
FlushWrites(s, data) ==
  /\ data \in held[s]
  /\ held' = [held EXCEPT ![s] = @ \ {data}]
  /\ Arrives(s, data) \/ IsLost(s)
  /\ UNCHANGED <<conn, request, breaks>>

(* PushStatus: over the socket, or as a request if the write fails, which   *)
(* the caller waits for.                                                    *)
PushStatus(s) ==
  /\ Open(s) /\ conn[s].said < MaxStatus /\ "status" \notin request[s]
  /\ conn' = [conn EXCEPT ![s].said = @ + 1]
  /\ IF conn[s].ws = "up"
     THEN wire' = [wire EXCEPT ![s] = Append(@, 0)] /\ UNCHANGED request
     ELSE request' = [request EXCEPT ![s] = @ \cup {"status"}] /\ UNCHANGED wire
  /\ UNCHANGED <<held, sent, breaks>>

(* Close, up to rc.mu.Unlock.                                               *)
Close(s) ==
  /\ Open(s) /\ "status" \notin request[s]
  /\ conn' = [conn EXCEPT ![s].closed = TRUE, ![s].close = "data",
                          ![s].last = conn[s].chunks, ![s].chunks = <<>>]
  /\ UNCHANGED <<held, sent, wire, request, breaks>>

(* Close writes what was left, then posts the end.                          *)
CloseWrites(s) ==
  /\ conn[s].close = "data"
  /\ conn' = [conn EXCEPT ![s].close = "posted", ![s].last = <<>>]
  /\ request' = [request EXCEPT ![s] = @ \cup {"end"}]
  /\ \/ conn[s].last # <<>> /\ (Arrives(s, conn[s].last) \/ IsLost(s))
     \/ conn[s].last = <<>> /\ UNCHANGED <<sent, wire>>
  /\ UNCHANGED <<held, breaks>>

(* endSessionHTTP returns with the answer, or after a failure; then the     *)
(* socket is closed.                                                        *)
CloseHangsUp(s) ==
  /\ conn[s].close = "posted"
  /\ \/ "end" \notin request[s] /\ UNCHANGED <<request, breaks>>
     \/ Break /\ request' = [request EXCEPT ![s] = @ \ {"end"}]
  /\ conn' = [conn EXCEPT ![s].close = "done", ![s].ws = "nil"]
  /\ UNCHANGED <<held, sent, wire>>
==============================================================================
