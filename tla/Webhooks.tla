------------------------------ MODULE Webhooks ------------------------------
(***************************************************************************)
(* The webhook router, composed with the services it forwards to: a        *)
(* delivery of GitHub passes the rate limit, is checked, and is handed to  *)
(* a goroutine out of a bounded pool that sends it on; the answer to       *)
(* GitHub does not wait for it.  A labelled issue becomes a row of         *)
(* issue_pipelines instead.                                                *)
(***************************************************************************)
EXTENDS ReviewJobs, RateLimit

CONSTANTS
  ForwardSize,      \* capacity of forwardSem
  MaxEvents         \* bound on faults, windows and services that stop, together

ASSUME WebhookAssumption == ForwardSize \in Nat \ {0} /\ MaxEvents \in Nat /\ Requests = Jobs

VARIABLES
  request,    \* per delivery: where its handler is, or the answer: 202, or none of it
  forward,    \* per delivery: the goroutine that forwards it
  router      \* up, stopping, draining, stopped, down

routerVars == <<request, forward, router>>
vars == <<jobVars, limitVars, routerVars>>

Init ==
  /\ JobInit /\ LimitInit
  /\ request = [d \in Jobs |-> "none"]
  /\ forward = [d \in Jobs |-> "none"]
  /\ router = "up"

Answers(d, answer) == request' = [request EXCEPT ![d] = answer]

InHandler == {d \in Jobs : request[d] \in {"passed", "loaded", "admitted"}}
InFlight == {d \in Jobs : forward[d] = "sending"}

-----------------------------------------------------------------------------
(* handleWebhook                                                            *)

(* A delivery arrives and the whole minute is checked: 429 if it is full.   *)
Arrive(d) ==
  /\ router = "up" /\ request[d] = "none"
  /\ Answers(d, IF GlobalHasRoom THEN "passed" ELSE "refused")
  /\ UNCHANGED <<jobVars, limitVars, forward, router>>

LookUp(d) ==
  /\ request[d] = "passed"
  /\ LoadOrStore(d)
  /\ Answers(d, "loaded")
  /\ UNCHANGED <<jobVars, forward, router>>

CheckAddress(d) ==
  /\ request[d] = "loaded"
  /\ IF LimiterHasRoom(d) THEN Admit(d) /\ Answers(d, "admitted")
     ELSE Reject(d) /\ Answers(d, "refused")
  /\ UNCHANGED <<jobVars, forward, router>>

(* 400, or ignored: the body, the event, the payload.                       *)
Refuse(d) ==
  /\ request[d] = "admitted"
  /\ Answers(d, "refused")
  /\ UNCHANGED <<jobVars, limitVars, forward, router>>

(* resolveWebhookContext: 404 for a repository without a connection, an     *)
(* agent or a key, 500 if the query fails.                                  *)
NotResolved(d) ==
  /\ request[d] = "admitted"
  /\ Answers(d, "refused")
  /\ UNCHANGED <<jobVars, limitVars, forward, router>>

(* verifyHMACSignature: 401.                                                *)
NotVerified(d) ==
  /\ request[d] = "admitted"
  /\ Answers(d, "refused")
  /\ UNCHANGED <<jobVars, limitVars, forward, router>>

Forwards(d, result) == forward' = [forward EXCEPT ![d] = result]

(* boundedForward: a goroutine, or a line in the log when the pool is full; *)
(* the answer is 202 in both cases.                                         *)
Route(d) ==
  /\ request[d] = "admitted"
  /\ Forwards(d, IF Cardinality(InFlight) < ForwardSize THEN "sending" ELSE "dropped")
  /\ Answers(d, "forwarded")
  /\ UNCHANGED <<jobVars, limitVars, router>>

(* An issue with the label: the labels are inserted as JSON into a column   *)
(* of type text[], which the database refuses: 500.                         *)
QueueIssue(d) ==
  /\ request[d] = "admitted"
  /\ Answers(d, "refused")
  /\ UNCHANGED <<jobVars, limitVars, forward, router>>

-----------------------------------------------------------------------------
(* forwardToService                                                         *)

(* The service takes the request; the goroutine leaves forwardSem and       *)
(* forwardWg when it has the answer.                                        *)
Accepted(d) ==
  /\ forward[d] = "sending" /\ HandleCreate(d)
  /\ Forwards(d, "sent")
  /\ UNCHANGED <<limitVars, request, router>>

(* Its queue is full, or it is not there: nobody tries again.               *)
NotAccepted(d) ==
  /\ forward[d] = "sending"
  /\ QueueIsFull(d) \/ server[ServiceOf[d]] # "up"
  /\ Forwards(d, "lost")
  /\ UNCHANGED <<jobVars, limitVars, request, router>>

-----------------------------------------------------------------------------
(* Shutdown and death of the router                                         *)

Becomes(next) == router' = next /\ UNCHANGED <<jobVars, limitVars, request, forward>>

(* server.Shutdown closes the listener and waits for the handlers.          *)
ShutdownRouter == "router" \in Stopping /\ router = "up" /\ Becomes("stopping")

HandlersDone == router = "stopping" /\ InHandler = {} /\ Becomes("draining")

DrainTooEarly == router = "stopping" /\ InFlight = {} /\ Becomes("stopped")

(* "all forwards completed".                                                *)
ForwardsDone == router = "draining" /\ InFlight = {} /\ Becomes("stopped")

RouterGoes ==
  /\ router' = "down"
  /\ request' = [d \in Jobs |-> IF d \in InHandler THEN "refused" ELSE request[d]]
  /\ forward' = [d \in Jobs |-> IF d \in InFlight THEN "lost" ELSE forward[d]]
  /\ count' = 0 /\ recent' = {} /\ swept' = {} /\ cleaner' = NoCleanup
  /\ table' = [a \in Addresses |-> 0] /\ held' = [r \in Requests |-> 0]
  /\ UNCHANGED windows

ExitRouter == router = "stopped" /\ RouterGoes /\ UNCHANGED jobVars

(* The process dies, or the thirty seconds are over.                        *)
CrashRouter ==
  /\ router # "down" /\ Fault /\ RouterGoes
  /\ UNCHANGED <<worker, row, noted, posted, approval, pool, server>>

-----------------------------------------------------------------------------
Handler(d) ==
  \/ LookUp(d) \/ CheckAddress(d)
  \/ Refuse(d) \/ NotResolved(d) \/ NotVerified(d)
  \/ Route(d) \/ QueueIssue(d)

Forwarding(d) == Accepted(d) \/ NotAccepted(d)

RouterStops == HandlersDone \/ ForwardsDone \/ ExitRouter

Limits ==
  \/ NewWindow
  \/ \E r \in Requests : Expire(r)
  \/ \E a \in Addresses : CleanupLooks(a) \/ CleanupDeletes(a)

Events == faults + windows + Cardinality({s \in Services : server[s] \in {"stopping", "drained"}})

Bounded == Events' <= MaxEvents

Next ==
  \/ \E d \in Jobs : Arrive(d) \/ (Handler(d) /\ Bounded) \/ Forwarding(d)
  \/ Limits /\ UNCHANGED <<jobVars, routerVars>> /\ Bounded
  \/ ShutdownRouter \/ RouterStops \/ (CrashRouter /\ Bounded)
  \/ JobNext /\ UNCHANGED <<limitVars, routerVars>> /\ Bounded

Spec == Init /\ [][Next]_vars

(* Handlers, forwards and workers run: each waits under a timeout of        *)
(* seconds or minutes, and at most one of them is at work for a delivery.   *)
(* Nothing is fair about arrivals, approvals and stops.                     *)
Fairness ==
  /\ \A d \in Jobs : WF_vars(\/ Handler(d) \/ Forwarding(d)
                             \/ Work(d) /\ UNCHANGED <<limitVars, routerVars>>)
  /\ WF_vars(RouterStops)

FairSpec == Spec /\ Fairness

-----------------------------------------------------------------------------
TypeOK ==
  /\ JobTypeOK
  /\ request \in [Jobs -> {"none", "passed", "loaded", "admitted", "refused", "forwarded"}]
  /\ forward \in [Jobs -> {"none", "sending", "sent", "dropped", "lost"}]
  /\ router \in {"up", "stopping", "draining", "stopped", "down"}
  /\ count \in 0 .. Cardinality(Jobs) /\ recent \subseteq Jobs

(* When the router has logged "all forwards completed", nothing it answered *)
(* with 202 is still on its way: each delivery was taken by its service, or *)
(* dropped, or lost with a line in the log (main, l. 627-641).              *)
ForwardsCompleted ==
  router = "stopped" =>
    /\ InHandler = {}
    /\ \A d \in Jobs : request[d] = "forwarded" => forward[d] \in {"sent", "dropped", "lost"}

(* A delivery that was answered with 202 and not dropped gets a final       *)
(* status, unless its service refused it, was stopped or died, or a         *)
(* statement failed on the way.                                             *)
ForwardedIsSettled ==
  \A d \in Jobs :
    request[d] = "forwarded" /\ forward[d] = "sending" ~>
      \/ row[d] \in {"completed", "posted_partial", "error", "awaiting_approval", "fix_approved"}
      \/ forward[d] = "lost" \/ server[ServiceOf[d]] # "up" \/ faults > 0

(* What rows, posts and the router say of a delivery is true in every       *)
(* state.                                                                   *)
WebhookInv == TypeOK /\ CompletedIsPosted /\ ForwardsCompleted
=============================================================================
