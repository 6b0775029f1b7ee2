---------------------------- MODULE EventDelivery ----------------------------
(***************************************************************************)
(* How the REQUEST_CREATED events of one session get to the agent service. *)
(* The broker keeps a queue per subscriber and partition key (the session  *)
(* id) and posts its events one at a time; each post is served by a        *)
(* handler of some agent pod, which claims the event in processed_events,  *)
(* checks the order of the session, takes the agent's session lock,        *)
(* processes the request, publishes the response and settles the claim.    *)
(*                                                                         *)
(* Event e carries request e: its id is the request id.  A handler goes on *)
(* when the broker has given up on it.  The request manager is the         *)
(* environment: it opens and closes the rows the order is checked against. *)
(*                                                                         *)
(* Slips (see SessionSerialization): SettledIsStale, EarlierOrSame,        *)
(* OrderIgnored, LockTaken, RetryForever.                                  *)
(***************************************************************************)
EXTENDS Naturals, Sequences, FiniteSets

CONSTANTS
  Events,       \* the events of the session, named after their requests
  Rank,         \* the position of a request by created_at
  Handlers,     \* the posts agent pods can be serving at a time
  NoEvent, NoHandler,
  MaxPosts,     \* how often the request manager posts an event
  MaxAttempts,  \* deliveries of an event that fails with 502, 503 or 504
  MaxTimeouts,  \* deliveries of an event that fails otherwise
  Faults,       \* what may go wrong in this instance, see FaultKinds
  FaultBound    \* how many kinds of faults may meet in one behaviour

(***************************************************************************)
(* slow       a handler outlasts the broker's wait (130 s) or the age at   *)
(*            which a claim counts as stale (120 s)                        *)
(* crash      the agent pod dies while it serves a post                    *)
(* dberror    a database statement raises                                  *)
(* reorder    the request manager posts a later request first              *)
(* resent     the request manager posts a request again: the reply of the  *)
(*            broker was late, or a reclaim has reset the row              *)
(* lostreply  the response event cannot be published                       *)
(* abandoned  the request manager fails the request before its answer      *)
(***************************************************************************)
FaultKinds == {"slow", "crash", "dberror", "reorder", "resent", "lostreply",
               "abandoned"}

ASSUME DeliveryAssumption ==
  /\ Rank \in [Events -> Nat]
  /\ \A e, f \in Events : Rank[e] = Rank[f] => e = f
  /\ NoEvent \notin Events
  /\ NoHandler \notin Handlers
  /\ MaxPosts \in Nat
  /\ MaxAttempts \in Nat /\ MaxTimeouts \in Nat /\ MaxTimeouts <= MaxAttempts
  /\ Faults \subseteq FaultKinds
  /\ FaultBound \in Nat

VARIABLES
  row,        \* request_logs: "none", "open" (pending, processing), "closed"
  queue,      \* the broker's queue for the agent and this session
  worker,     \* its worker: "idle", "waiting" for a reply, in "backoff"
  current,    \* the event the worker delivers
  conn,       \* the handler that serves its post
  attempts,   \* delivery_attempts of each event, counted up to MaxAttempts
  posts,      \* how often the request manager has posted each event
  claim,      \* processed_events.processing_result; "none" without a row
  stale,      \* created_at of the claim is older than 120 s
  pc,         \* where each handler is
  event,      \* the event it handles
  reply,      \* the HTTP status it will reply with
  agentLock,  \* the handler that holds the agent's session lock
  processed,  \* history: how often a request was processed
  published,  \* requests whose response was published
  occurred    \* history: the kinds of faults that have occurred

brokerVars  == <<queue, worker, current, conn, attempts, posts>>
claimVars   == <<claim, stale>>
handlerVars == <<pc, event, reply, agentLock>>
resultVars  == <<processed, published>>
vars == <<row, brokerVars, claimVars, handlerVars, resultVars, occurred>>

Claims == {"none", "processing", "success", "error"}
\* From the claim on, a handler works on its event.
Working == {"check", "lock", "process", "store", "publish"}
Labels == {"idle", "select", "insert", "reclaim", "settle", "release", "fail",
           "reply", "dead"} \union Working
Replies == {200, 400, 503}

Init ==
  /\ row       = [e \in Events |-> "none"]
  /\ queue     = <<>>
  /\ worker    = "idle"
  /\ current   = NoEvent
  /\ conn      = NoHandler
  /\ attempts  = [e \in Events |-> 0]
  /\ posts     = [e \in Events |-> 0]
  /\ claim     = [e \in Events |-> "none"]
  /\ stale     = [e \in Events |-> FALSE]
  /\ pc        = [h \in Handlers |-> "idle"]
  /\ event     = [h \in Handlers |-> NoEvent]
  /\ reply     = [h \in Handlers |-> 200]
  /\ agentLock = NoHandler
  /\ processed = [e \in Events |-> 0]
  /\ published = {}
  /\ occurred  = {}

\* A fault of kind k happens now.
Occurs(k) ==
  /\ k \in Faults
  /\ occurred' = occurred \union {k}
  /\ Cardinality(occurred') <= FaultBound

-----------------------------------------------------------------------------
(***************************************************************************)
(* The request manager.                                                    *)
(***************************************************************************)
Earlier(e) == {f \in Events : Rank[f] < Rank[e]}

\* Rows become visible in the order of created_at.
Accept(e) ==
  /\ row[e] = "none"
  /\ \A f \in Earlier(e) : row[f] # "none"
  /\ row' = [row EXCEPT ![e] = "open"]
  /\ UNCHANGED <<brokerVars, claimVars, handlerVars, resultVars, occurred>>

\* publish_event: of the subscriptions of the agent service the one for the
\* request manager's events matches, and no other: one more entry in the queue.
Enqueued(e) == Append(queue, e)

\* The broker's endpoint takes the event of an accepted request; the requests
\* it refuses leave no trace.
Post(e) ==
  /\ row[e] # "none"
  /\ posts[e] < MaxPosts
  /\ IF posts[e] > 0 THEN Occurs("resent")
     ELSE IF \E f \in Earlier(e) : posts[f] = 0 THEN Occurs("reorder")
     ELSE UNCHANGED occurred
  /\ posts' = [posts EXCEPT ![e] = @ + 1]
  /\ queue' = Enqueued(e)
  /\ UNCHANGED <<row, worker, current, conn, attempts, claimVars, handlerVars,
                 resultVars>>

\* The request manager stores a published response, or gives the request up.
CloseRow(e) ==
  /\ row[e] = "open"
  /\ IF e \in published THEN UNCHANGED occurred ELSE Occurs("abandoned")
  /\ row' = [row EXCEPT ![e] = "closed"]
  /\ UNCHANGED <<brokerVars, claimVars, handlerVars, resultVars>>

-----------------------------------------------------------------------------
(***************************************************************************)
(* The broker's worker for the partition.                                  *)
(***************************************************************************)
\* The next event, or the current one again after a backoff, is posted.
Deliver(h) ==
  /\ pc[h] = "idle"
  /\ \/ /\ worker = "idle"
        /\ queue # <<>>
        /\ current' = Head(queue)
        /\ queue' = Tail(queue)
     \/ /\ worker = "backoff"
        /\ UNCHANGED <<current, queue>>
  /\ worker' = "waiting"
  /\ conn' = h
  /\ attempts' = [attempts EXCEPT ![current'] = IF @ < MaxAttempts THEN @ + 1 ELSE @]
  /\ pc' = [pc EXCEPT ![h] = "select"]
  /\ event' = [event EXCEPT ![h] = current']
  /\ UNCHANGED <<row, posts, claimVars, reply, agentLock, resultVars, occurred>>

RetryForever(max) == TRUE
RetriesLeft(max) == attempts[current] < max

\* The worker is done with this delivery, or retries it.
EndDelivery(retry) ==
  /\ conn' = NoHandler
  /\ IF retry
     THEN worker' = "backoff" /\ UNCHANGED current
     ELSE worker' = "idle" /\ current' = NoEvent
  /\ UNCHANGED <<queue, attempts, posts>>

\* The broker stops waiting; the handler goes on.  Without slow handlers that
\* happens only when its pod is gone.
DeliveryTimeout ==
  /\ worker = "waiting"
  /\ IF pc[conn] = "dead" THEN UNCHANGED occurred ELSE Occurs("slow")
  /\ EndDelivery(RetriesLeft(MaxTimeouts))
  /\ UNCHANGED <<row, claimVars, handlerVars, resultVars>>

\* The connection to a dead pod is reset: neither a timeout nor a 5xx status,
\* so there is no retry.
ConnectionReset ==
  /\ worker = "waiting"
  /\ pc[conn] = "dead"
  /\ EndDelivery(FALSE)
  /\ UNCHANGED <<row, claimVars, handlerVars, resultVars, occurred>>

\* The handler replies; the worker hears it if it still waits for it.
Reply(h) ==
  /\ pc[h] = "reply"
  /\ pc' = [pc EXCEPT ![h] = "idle"]
  /\ event' = [event EXCEPT ![h] = NoEvent]
  /\ IF conn = h
     THEN EndDelivery(reply[h] = 503 /\ RetriesLeft(MaxAttempts))
     ELSE UNCHANGED brokerVars
  /\ UNCHANGED <<row, claimVars, reply, agentLock, resultVars, occurred>>

-----------------------------------------------------------------------------
(***************************************************************************)
(* A handler of the agent service.                                         *)
(***************************************************************************)
Goto(h, label) ==
  /\ pc' = [pc EXCEPT ![h] = label]
  /\ UNCHANGED <<event, reply>>

GotoReply(h, code) ==
  /\ pc' = [pc EXCEPT ![h] = "reply"]
  /\ reply' = [reply EXCEPT ![h] = code]
  /\ UNCHANGED event

\* What try_claim_event_for_processing does next on the row it has read: a
\* claim that is neither missing nor stale is skipped.
SettledIsStale(c, old) ==
  IF c = "none" THEN "insert"
  ELSE IF c = "processing" /\ ~old THEN "skip" ELSE "reclaim"
NextOfClaim(c, old) ==
  IF c = "none" THEN "insert"
  ELSE IF c = "processing" /\ old THEN "reclaim" ELSE "skip"

Skip(h) == GotoReply(h, 200)

SelectClaim(h) ==
  /\ pc[h] = "select"
  /\ LET next == NextOfClaim(claim[event[h]], stale[event[h]])
     IN IF next = "skip" THEN Skip(h) ELSE Goto(h, next)
  /\ UNCHANGED <<row, brokerVars, claimVars, agentLock, resultVars, occurred>>

\* The unique constraint lets one INSERT pass.
InsertClaim(h) ==
  /\ pc[h] = "insert"
  /\ IF claim[event[h]] = "none"
     THEN /\ claim' = [claim EXCEPT ![event[h]] = "processing"]
          /\ stale' = [stale EXCEPT ![event[h]] = FALSE]
          /\ Goto(h, "check")
     ELSE Skip(h) /\ UNCHANGED claimVars
  /\ UNCHANGED <<row, brokerVars, agentLock, resultVars, occurred>>

\* The UPDATE of a stale claim does not look at what it has become since the
\* SELECT, and is taken for a success even when the row is gone.
ReclaimClaim(h) ==
  /\ pc[h] = "reclaim"
  /\ IF claim[event[h]] = "none"
     THEN UNCHANGED claimVars
     ELSE /\ claim' = [claim EXCEPT ![event[h]] = "processing"]
          /\ stale' = [stale EXCEPT ![event[h]] = FALSE]
  /\ Goto(h, "check")
  /\ UNCHANGED <<row, brokerVars, agentLock, resultVars, occurred>>

EarlierOrSame(e) == \E f \in Events : Rank[f] <= Rank[e] /\ row[f] = "open"
OrderIgnored(e) == FALSE
HasEarlier(e) == \E f \in Earlier(e) : row[f] = "open"

CheckOrder(h) ==
  /\ pc[h] = "check"
  /\ Goto(h, IF HasEarlier(event[h]) THEN "release" ELSE "lock")
  /\ UNCHANGED <<row, brokerVars, claimVars, agentLock, resultVars, occurred>>

LockTaken == TRUE
LockFree == agentLock = NoHandler

AcquireLock(h) ==
  /\ pc[h] = "lock"
  /\ LockFree
  /\ agentLock' = h
  /\ Goto(h, "process")
  /\ UNCHANGED <<row, brokerVars, claimVars, resultVars, occurred>>

\* 180 s of failed tries; nobody looks whether the lock is free by now.
LockTimeout(h) ==
  /\ pc[h] = "lock"
  /\ Occurs("slow")
  /\ Goto(h, "release")
  /\ UNCHANGED <<row, brokerVars, claimVars, agentLock, resultVars>>

\* process_request turns every exception into an error response; then the
\* lock is released, by the loss of its connection if the statement fails.
Process(h) ==
  /\ pc[h] = "process"
  /\ processed' = [processed EXCEPT ![event[h]] = IF @ < 2 THEN @ + 1 ELSE @]
  /\ agentLock' = NoHandler
  /\ \/ Goto(h, "store") /\ UNCHANGED occurred
     \/ Goto(h, "fail") /\ Occurs("dberror")
  /\ UNCHANGED <<row, brokerVars, claimVars, published>>

\* publish_response: the row first (a failure is only logged), then the event.
StoreAnswer(h) ==
  /\ pc[h] = "store"
  /\ \/ row' = [row EXCEPT ![event[h]] = "closed"] /\ UNCHANGED occurred
     \/ UNCHANGED row /\ Occurs("dberror")
  /\ Goto(h, "publish")
  /\ UNCHANGED <<brokerVars, claimVars, agentLock, resultVars>>

PublishAnswer(h) ==
  /\ pc[h] = "publish"
  /\ \/ published' = published \union {event[h]} /\ UNCHANGED occurred
     \/ UNCHANGED published /\ Occurs("lostreply")
  /\ Goto(h, "settle")
  /\ UNCHANGED <<row, brokerVars, claimVars, agentLock, processed>>

\* update_processed_event: UPDATE, of no row if the claim was released.
Settle(h, label, result, code) ==
  /\ pc[h] = label
  /\ claim' = [claim EXCEPT ![event[h]] = IF @ = "none" THEN @ ELSE result]
  /\ GotoReply(h, code)
  /\ UNCHANGED <<row, brokerVars, stale, agentLock, resultVars, occurred>>

SettleSuccess(h) == Settle(h, "settle", "success", 200)
SettleError(h) == Settle(h, "fail", "error", 400)

\* A retriable status: the claim is deleted, whoever holds it by now.
ReleaseClaim(h) ==
  /\ pc[h] = "release"
  /\ claim' = [claim EXCEPT ![event[h]] = "none"]
  /\ stale' = [stale EXCEPT ![event[h]] = FALSE]
  /\ GotoReply(h, 503)
  /\ UNCHANGED <<row, brokerVars, agentLock, resultVars, occurred>>

\* A statement raises.  A failed claim is answered like a duplicate; a failed
\* check or lock is an error; what comes after only logs it.
StatementFails(h) ==
  /\ Occurs("dberror")
  /\ \/ pc[h] \in {"select", "insert", "reclaim"} /\ Skip(h)
     \/ pc[h] \in {"check", "lock"} /\ Goto(h, "fail")
     \/ pc[h] = "settle" /\ GotoReply(h, 200)
     \/ pc[h] = "fail" /\ GotoReply(h, 400)
     \/ pc[h] = "release" /\ GotoReply(h, 503)
  /\ UNCHANGED <<row, brokerVars, claimVars, agentLock, resultVars>>

AgentCrash(h) ==
  /\ pc[h] \notin {"idle", "dead"}
  /\ Occurs("crash")
  /\ pc' = [pc EXCEPT ![h] = "dead"]
  /\ agentLock' = IF agentLock = h THEN NoHandler ELSE agentLock
  /\ UNCHANGED <<row, brokerVars, claimVars, event, reply, resultVars>>

\* The pod is replaced once the broker no longer waits for it.
Replace(h) ==
  /\ pc[h] = "dead"
  /\ conn # h
  /\ pc' = [pc EXCEPT ![h] = "idle"]
  /\ event' = [event EXCEPT ![h] = NoEvent]
  /\ UNCHANGED <<row, brokerVars, claimVars, reply, agentLock, resultVars, occurred>>

\* A claim grows old: at any time when nobody works on it, and under the eyes
\* of a handler that is slow.
Age(e) ==
  /\ claim[e] = "processing"
  /\ ~stale[e]
  /\ IF \E h \in Handlers : event[h] = e /\ pc[h] # "dead"
     THEN Occurs("slow") ELSE UNCHANGED occurred
  /\ stale' = [stale EXCEPT ![e] = TRUE]
  /\ UNCHANGED <<row, brokerVars, claim, handlerVars, resultVars>>

-----------------------------------------------------------------------------
HandlerStep(h) ==
  \/ SelectClaim(h) \/ InsertClaim(h) \/ ReclaimClaim(h) \/ CheckOrder(h)
  \/ AcquireLock(h) \/ Process(h) \/ StoreAnswer(h) \/ PublishAnswer(h)
  \/ SettleSuccess(h) \/ SettleError(h) \/ ReleaseClaim(h) \/ Reply(h)

WorkerStep ==
  \/ \E h \in Handlers : Deliver(h)
  \/ DeliveryTimeout
  \/ ConnectionReset

Environment ==
  \/ \E e \in Events : Accept(e) \/ Post(e) \/ CloseRow(e) \/ Age(e)
  \/ \E h \in Handlers : LockTimeout(h) \/ StatementFails(h) \/ AgentCrash(h)

Next ==
  \/ \E h \in Handlers : HandlerStep(h) \/ Replace(h)
  \/ WorkerStep
  \/ Environment

Spec == Init /\ [][Next]_vars

\* The worker task and the handlers of live pods run on; a pod is replaced.
\* Nothing makes a request come, a row be closed or a fault happen.
Fairness ==
  /\ WF_vars(WorkerStep)
  /\ \A h \in Handlers : WF_vars(HandlerStep(h)) /\ WF_vars(Replace(h))

FairSpec == Spec /\ Fairness

-----------------------------------------------------------------------------
(***************************************************************************)
(* Properties.                                                             *)
(***************************************************************************)
\* Type correctness of every variable; the agent's lock is held by exactly the
\* handler that processes, through timeouts, errors and crashes.
TypeOK ==
  /\ \A h \in Handlers : agentLock = h <=> pc[h] = "process"
  /\ row \in [Events -> {"none", "open", "closed"}]
  /\ queue \in Seq(Events)
  /\ worker \in {"idle", "waiting", "backoff"}
  /\ current \in Events \union {NoEvent}
  /\ conn \in Handlers \union {NoHandler}
  /\ attempts \in [Events -> Nat]
  /\ posts \in [Events -> Nat]
  /\ claim \in [Events -> Claims]
  /\ stale \in [Events -> BOOLEAN]
  /\ pc \in [Handlers -> Labels]
  /\ event \in [Handlers -> Events \union {NoEvent}]
  /\ reply \in [Handlers -> Replies]
  /\ agentLock \in Handlers \union {NoHandler}
  /\ processed \in [Events -> Nat]
  /\ published \subseteq Events
  /\ occurred \subseteq FaultKinds

\* Defence in depth beside the partition key: while a request is processed,
\* no earlier request of the session is open and none is processed with it,
\* however many deliveries the broker has given up on and whatever crashes.
ProcessedInOrder ==
  \A h \in Handlers :
    pc[h] = "process" => /\ ~\E f \in Earlier(event[h]) : row[f] = "open"
                         /\ \A g \in Handlers : pc[g] = "process" => g = h

\* A request is processed once, though its event is posted again and delivered
\* again, unless claims outlive their handler: after a crash, a failed
\* statement, or 120 s under a handler that is still at work.
ProcessedOnce ==
  occurred \intersect {"slow", "crash", "dberror"} = {}
    => \A e \in Events : processed[e] <= 1

\* What is settled as a success stays so, unless a handler was so slow that
\* another took its claim.
SuccessStays ==
  [][\A e \in Events : claim[e] = "success" /\ "slow" \notin occurred'
       => claim'[e] = "success"]_vars

\* The queue of the session is never stuck: the worker gets through it,
\* whatever the deliveries end with.
QueueDrains == (queue # <<>> \/ worker # "idle") ~> (queue = <<>> /\ worker = "idle")

\* Every posted request is processed and its response published, if nothing
\* worse happens than that requests are posted again.
PostedIsAnswered ==
  \A e \in Events :
    posts[e] > 0 ~> (e \in published \/ ~(occurred \subseteq {"resent"}))
=============================================================================
