------------------------ MODULE SessionSerialization ------------------------
(***************************************************************************)
(* The request manager serialises the requests of one session.  Every      *)
(* request r has one handler coroutine, named r as well, running on the    *)
(* pod home[r].  Phase 1 of a handler accepts the request durably under    *)
(* the session's advisory lock; phase 2 repeats, under the same lock,      *)
(* "reclaim stuck rows, dequeue the oldest pending row", and then, with    *)
(* the lock released, sends the dequeued row to the agent and waits for    *)
(* its answer, until the handler's own request is done.                    *)
(*                                                                         *)
(* One session is modelled: rows, the lock and the events are keyed by the *)
(* session id, and no step reads the rows of two sessions.  The broker and *)
(* the agent are the environment: `events' holds the REQUEST_CREATED       *)
(* events they have, in no order.                                          *)
(*                                                                         *)
(* Beside some helpers stands a slip of them (OnlyDriver beside Waiters):  *)
(* no definition uses it; put in the helper's place it is the bug that a   *)
(* property must find (PROJECT.json, "mutants").                           *)
(***************************************************************************)
EXTENDS Naturals, Sequences

CONSTANTS
  Requests,       \* the requests of the session, and their handlers
  Pods,           \* the request-manager replicas
  Route,          \* the replicas a request may be delivered to
  NoRequest,      \* no handler holds the lock, no row was dequeued
  NoPod,          \* pod_name is NULL
  Deliveries,     \* deliveries of AGENT_RESPONSE_READY events to a pod
  ReclaimAction,  \* RECLAIM_ACTION, "requeue" or "fail"
  Faults          \* what may go wrong in this instance, see FaultKinds

(***************************************************************************)
(* crash        a pod stops for good (its successor has another name)      *)
(* unseen       a live pod has no check-in within the grace period: it has *)
(*              just started, or one upsert failed (15 + 5 + 15 s > 30 s)  *)
(* slowsend     send_request's retries outlast the stuck buffer            *)
(* timeout      the agent takes longer than AGENT_TIMEOUT                  *)
(* locktimeout  the lock is held or contended beyond its wait timeout      *)
(* dberror      a database statement raises                                *)
(* slowreply    the sends between the claim of a reply and its settlement  *)
(*              outlast the 120 s after which the claim may be taken over  *)
(* duplicate    AGENT_RESPONSE_READY is delivered more than once           *)
(* sendfail     send_request returns False, or the send of a reply does    *)
(* lostevent    the broker gives up on a REQUEST_CREATED event             *)
(* lostreply    the agent cannot publish AGENT_RESPONSE_READY              *)
(* agenterror   the agent answers with response_type "error"               *)
(***************************************************************************)
FaultKinds == {"crash", "unseen", "slowsend", "timeout", "locktimeout",
               "dberror", "slowreply", "duplicate", "sendfail", "lostevent",
               "lostreply", "agenterror"}

ASSUME ConstantsAssumption ==
  /\ NoRequest \notin Requests
  /\ NoPod \notin Pods
  /\ Route \in [Requests -> SUBSET Pods]
  /\ ReclaimAction \in {"requeue", "fail"}
  /\ Faults \subseteq FaultKinds

VARIABLES
  status,      \* request_logs.status; "none" while the row does not exist
  content,     \* request_logs.response_content, by what kind of text it is
  owner,       \* request_logs.pod_name
  createdAt,   \* request_logs.created_at, assigned when the INSERT begins
  clock,       \* the database clock created_at is read from
  dequeues,    \* history: how often the row went pending -> processing
  reclaims,    \* history: how often the row was reclaimed
  lock,        \* the handler that holds the session's advisory lock
  pc,          \* where each handler is
  home,        \* the pod each handler runs on
  target,      \* the request a handler has dequeued or waits for
  result,      \* what wait_for_response returned to the request's handler
  registry,    \* per pod, _response_futures_registry
  up,          \* the pods that run
  beat,        \* the pods with a check-in within the grace period
  events,      \* REQUEST_CREATED events the broker or the agent has
  answered,    \* requests the agent has processed
  response,    \* the AGENT_RESPONSE_READY event of a request: with the broker?
  stage,       \* where the handler of each delivery of such an event is
  carried,     \* the request it is about
  carrier,     \* the pod it runs on
  replyClaim,  \* the agent-response:<id> row of processed_events
  aged,        \* history: the requests whose claim has grown stale
  forwarded    \* per request, what was passed on to the dispatcher

rowVars   == <<status, content, owner, createdAt, clock, dequeues, reclaims>>
podVars   == <<up, beat>>
agentVars == <<events, answered>>
deliveryVars == <<stage, carried, carrier>>
claimVars    == <<replyClaim, aged>>
replyVars    == <<response, deliveryVars, claimVars, forwarded>>
handlerVars == <<pc, home, target, result, registry>>
vars == <<rowVars, lock, handlerVars, podVars, agentVars, replyVars>>

Results  == {"answer", "error"}
Statuses == {"none", "pending", "processing", "completed", "failed"}
Terminal == {"completed", "failed"}
Futures  == {"absent", "open"} \union Results

\* Handlers in a critical section of the session lock.
Critical == {"insert", "commit", "unlock1", "reclaim", "dequeue", "unlock2"}
Waiting  == {"wait", "await"}
Ended    == {"done", "raised", "cancelled", "lost"}
Stages   == {"idle", "take", "retake", "store", "resolve", "forward", "settle",
             "gone"}
Labels   == {"new", "lock1", "lock2", "join", "send", "unsent", "timedout",
             "claim", "take", "retake", "forward", "settle"}
            \union Critical \union Waiting \union Ended

Init ==
  /\ status    = [r \in Requests |-> "none"]
  /\ content   = [r \in Requests |-> "null"]
  /\ owner     = [r \in Requests |-> NoPod]
  /\ createdAt = [r \in Requests |-> 0]
  /\ clock     = 1
  /\ dequeues  = [r \in Requests |-> 0]
  /\ reclaims  = [r \in Requests |-> 0]
  /\ lock      = NoRequest
  /\ pc        = [h \in Requests |-> "new"]
  /\ home      = [h \in Requests |-> NoPod]
  /\ target    = [h \in Requests |-> NoRequest]
  /\ result    = [h \in Requests |-> "null"]
  /\ registry  = [p \in Pods |-> [r \in Requests |-> "absent"]]
  /\ up        = [p \in Pods |-> TRUE]
  /\ beat      \in [Pods -> BOOLEAN]
  /\ "unseen" \notin Faults => beat = [p \in Pods |-> TRUE]
  /\ events    = {}
  /\ answered  = {}
  /\ response  = [r \in Requests |-> "none"]
  /\ stage     = [d \in Deliveries |-> "idle"]
  /\ carried   = [d \in Deliveries |-> NoRequest]
  /\ carrier   = [d \in Deliveries |-> NoPod]
  /\ replyClaim = [r \in Requests |-> "none"]
  /\ aged  = {}
  /\ forwarded = [r \in Requests |-> <<>>]

-----------------------------------------------------------------------------
(***************************************************************************)
(* Response futures.  A future is shared by every coroutine of the pod     *)
(* that waits for the same request; whoever returns from wait_for_response *)
(* deletes the registry entry.  All waiters of a future wake in the same   *)
(* turn of the event loop, so they wake in one step here.                  *)
(***************************************************************************)
OnlyDriver(p, r) ==
  {h \in Requests : home[h] = p /\ target[h] = r /\ pc[h] = "wait"}

Waiters(p, r) ==
  {h \in Requests : home[h] = p /\ target[h] = r /\ pc[h] \in Waiting}

AlwaysOwn(h, r) == "claim"
NeverOwn(h, r) == "lock2"

\* Where a handler goes with the reply to r: its own, or back to the loop.
AfterReply(h, r) == IF r = h THEN "claim" ELSE "lock2"

\* future.set_result(k) if the future of r at p exists and is not done; the
\* handlers that do not wait for it are at the labels pcs.
SetResult(p, r, k, pcs) ==
  IF registry[p][r] = "open"
  THEN /\ registry' = [registry EXCEPT ![p][r] =
                         IF Waiters(p, r) = {} THEN k ELSE "absent"]
       /\ pc' = [h \in Requests |->
                   IF h \in Waiters(p, r) THEN AfterReply(h, r) ELSE pcs[h]]
       /\ result' = [h \in Requests |->
                       IF h = r /\ h \in Waiters(p, r) THEN k ELSE result[h]]
  ELSE pc' = pcs /\ UNCHANGED <<registry, result>>

\* wait_for_response(r) by handler h: return at once if the registered future
\* is done, otherwise register it (if absent) and wait at label `at'.
StartWait(h, r, at) ==
  LET p == home[h]
      k == registry[p][r]
  IN IF k \in Results
     THEN /\ registry' = [registry EXCEPT ![p][r] = "absent"]
          /\ pc' = [pc EXCEPT ![h] = AfterReply(h, r)]
          /\ result' = [result EXCEPT ![h] = IF r = h THEN k ELSE @]
     ELSE /\ registry' = [registry EXCEPT ![p][r] = "open"]
          /\ pc' = [pc EXCEPT ![h] = at]
          /\ UNCHANGED result

\* The rows the poller of pod p selects: of any pod, with a response_content.
OwnAnsweredRow(p, r) == content[r] # "null" /\ owner[r] = p
AnsweredRow(p, r) == content[r] # "null"

\* The per-pod poller resolves the futures of the answered rows.
Poll(p, r) ==
  /\ up[p]
  /\ registry[p][r] = "open"
  /\ AnsweredRow(p, r)
  /\ SetResult(p, r, content[r], pc)
  /\ UNCHANGED <<rowVars, lock, home, target, podVars, agentVars, replyVars>>

-----------------------------------------------------------------------------
(***************************************************************************)
(* Phase 1: durable accept.                                                *)
(***************************************************************************)
Arrive(h, p) ==
  /\ pc[h] = "new"
  /\ p \in Route[h]
  /\ up[p]
  /\ pc' = [pc EXCEPT ![h] = "lock1"]
  /\ home' = [home EXCEPT ![h] = p]
  /\ UNCHANGED <<rowVars, lock, target, result, registry, podVars, agentVars,
                 replyVars>>

\* pg_try_advisory_lock: free for handler h, which holds no lock itself.
InsertNeedsNoLock(h) == pc[h] = "lock1" \/ lock = NoRequest
NoLock(h) == TRUE
LockFree(h) == lock = NoRequest

\* A poll of pg_try_advisory_lock that succeeds.
AcquireLock(h) ==
  /\ pc[h] \in {"lock1", "lock2"}
  /\ LockFree(h)
  /\ lock' = h
  /\ pc' = [pc EXCEPT ![h] = IF @ = "lock1" THEN "insert" ELSE "reclaim"]
  /\ UNCHANGED <<rowVars, home, target, result, registry, podVars, agentVars,
                 replyVars>>

\* The INSERT's transaction starts: created_at is CURRENT_TIMESTAMP now, the
\* row is visible to others only when it commits.
BeginInsert(h) ==
  /\ pc[h] = "insert"
  /\ createdAt' = [createdAt EXCEPT ![h] = clock]
  /\ clock' = clock + 1
  /\ pc' = [pc EXCEPT ![h] = "commit"]
  /\ UNCHANGED <<status, content, owner, dequeues, reclaims, lock, home,
                 target, result, registry, podVars, agentVars, replyVars>>

\* The row commits and the future is registered before the lock is released.
CommitInsert(h) ==
  /\ pc[h] = "commit"
  /\ status' = [status EXCEPT ![h] = "pending"]
  /\ registry' = [registry EXCEPT ![home[h]][h] =
                    IF @ = "absent" THEN "open" ELSE @]
  /\ pc' = [pc EXCEPT ![h] = "unlock1"]
  /\ UNCHANGED <<content, owner, createdAt, clock, dequeues, reclaims, lock,
                 home, target, result, podVars, agentVars, replyVars>>

OwnDequeued(h) == target[h] = h
SomeDequeued(h) == target[h] # NoRequest

\* pg_advisory_unlock at the end of either critical section.
ReleaseLock(h) ==
  /\ pc[h] \in {"unlock1", "unlock2"}
  /\ lock' = NoRequest
  /\ pc' = [pc EXCEPT ![h] = IF @ = "unlock1" THEN "lock2"
                             ELSE IF SomeDequeued(h) THEN "send"
                             ELSE "join"]
  /\ UNCHANGED <<rowVars, home, target, result, registry, podVars, agentVars,
                 replyVars>>

\* The lock was not obtained before the deadline: the row, whatever its
\* status (none in phase 1), becomes failed, and an open future is resolved.
LockTimeout(h) ==
  /\ "locktimeout" \in Faults
  /\ pc[h] \in {"lock1", "lock2"}
  /\ lock # NoRequest
  /\ IF status[h] = "none"
     THEN UNCHANGED <<status, content>>
     ELSE /\ status' = [status EXCEPT ![h] = "failed"]
          /\ content' = [content EXCEPT ![h] = "error"]
  /\ SetResult(home[h], h, "error", [pc EXCEPT ![h] = "raised"])
  /\ UNCHANGED <<owner, createdAt, clock, dequeues, reclaims, lock, home,
                 target, podVars, agentVars, replyVars>>

\* A statement raises: the exception leaves the handler, and a lock it holds
\* is released by the finally clause.  At "unlock2" it is the re-fetch of the
\* dequeued row, after the dequeue has committed.
StatementFails(h) ==
  /\ "dberror" \in Faults
  /\ \/ pc[h] \in {"insert", "commit", "reclaim", "dequeue", "unsent", "timedout"}
     \/ pc[h] = "unlock2" /\ SomeDequeued(h)
  /\ lock' = IF pc[h] \in Critical THEN NoRequest ELSE lock
  /\ pc' = [pc EXCEPT ![h] = "raised"]
  /\ UNCHANGED <<rowVars, home, target, result, registry, podVars, agentVars,
                 replyVars>>

-----------------------------------------------------------------------------
(***************************************************************************)
(* Phase 2: reclaim and dequeue under the lock, then send and wait.        *)
(***************************************************************************)
\* Handler h is still within the send and wait of a row its pod dequeued.
Drives(h, r) ==
  /\ target[h] = r
  /\ home[h] = owner[r]
  /\ pc[h] \in {"unlock2", "send", "unsent", "wait", "timedout"}

Driven(r) == \E h \in Requests : Drives(h, r)

\* The row is among the ones older than the cutoff.  A waiting driver gives up
\* after AGENT_TIMEOUT, before the cutoff AGENT_TIMEOUT + buffer, unless its send
\* alone took longer than the buffer.
BufferOnly(r, late) == r \in late
PastCutoff(r, late) == r \in late /\ (Driven(r) => "slowsend" \in Faults)

StuckWhateverStatus(r, late) == status[r] # "none" /\ PastCutoff(r, late)
Stuck(r, late) ==
  /\ status[r] = "processing"
  /\ PastCutoff(r, late) \/ ~beat[owner[r]]

ActionAsStatus == ReclaimAction
ReclaimedStatus == IF ReclaimAction = "requeue" THEN "pending" ELSE "failed"

\* UPDATE request_logs SET status, pod_name = NULL WHERE stuck.
ReclaimStuck ==
  /\ \E late \in SUBSET Requests :
       LET Taken == {r \in Requests : Stuck(r, late)}
       IN /\ status' = [r \in Requests |->
                          IF r \in Taken THEN ReclaimedStatus ELSE status[r]]
          /\ owner' = [r \in Requests |-> IF r \in Taken THEN NoPod ELSE owner[r]]
          /\ reclaims' = [r \in Requests |->
                            IF r \in Taken THEN reclaims[r] + 1 ELSE reclaims[r]]
  /\ UNCHANGED <<content, createdAt, clock, dequeues>>

ReclaimSession(h) ==
  /\ pc[h] = "reclaim"
  /\ ReclaimStuck
  /\ pc' = [pc EXCEPT ![h] = "dequeue"]
  /\ UNCHANGED <<lock, home, target, result, registry, podVars, agentVars,
                 replyVars>>

\* The background task of pod p: the same update, without the session lock.
BackgroundReclaim(p) ==
  /\ up[p]
  /\ ReclaimStuck
  /\ reclaims' # reclaims
  /\ UNCHANGED <<lock, handlerVars, podVars, agentVars, replyVars>>

Unfinished == {r \in Requests : status[r] \in {"pending", "processing"}}
Pending == {r \in Requests : status[r] = "pending"}

OldestPending(r) ==
  /\ r \in Pending
  /\ \A q \in Pending : createdAt[r] <= createdAt[q]

Dequeue(h) ==
  /\ pc[h] = "dequeue"
  /\ \E r \in Requests :
       /\ OldestPending(r)
       /\ status' = [status EXCEPT ![r] = "processing"]
       /\ owner' = [owner EXCEPT ![r] = home[h]]
       /\ dequeues' = [dequeues EXCEPT ![r] = @ + 1]
       /\ target' = [target EXCEPT ![h] = r]
  /\ pc' = [pc EXCEPT ![h] = "unlock2"]
  /\ UNCHANGED <<content, createdAt, clock, reclaims, lock, home, result,
                 registry, podVars, agentVars, replyVars>>

NothingPending(h) ==
  /\ pc[h] = "dequeue"
  /\ Pending = {}
  /\ target' = [target EXCEPT ![h] = NoRequest]
  /\ pc' = [pc EXCEPT ![h] = "unlock2"]
  /\ UNCHANGED <<rowVars, lock, home, result, registry, podVars, agentVars,
                 replyVars>>

\* Nothing was pending: wait for our own response, someone else has the row.
Join(h) ==
  /\ pc[h] = "join"
  /\ target' = [target EXCEPT ![h] = h]
  /\ StartWait(h, h, "await")
  /\ UNCHANGED <<rowVars, lock, home, podVars, agentVars, replyVars>>

Send(h) ==
  /\ pc[h] = "send"
  /\ events' = events \union {target[h]}
  /\ StartWait(h, target[h], "wait")
  /\ UNCHANGED <<rowVars, lock, home, target, podVars, answered, replyVars>>

\* send_request returns False, although the broker may have the event.
SendFails(h) ==
  /\ "sendfail" \in Faults
  /\ pc[h] = "send"
  /\ events' \in {events, events \union {target[h]}}
  /\ pc' = [pc EXCEPT ![h] = "unsent"]
  /\ UNCHANGED <<rowVars, lock, home, target, result, registry, podVars,
                 answered, replyVars>>

\* asyncio.wait_for times out and cancels the shared future: the others that
\* await it get CancelledError, which no `except Exception' catches.  Every
\* wait is AGENT_TIMEOUT long, which only a slow send outlasts.
WaitTimeout(h) ==
  LET p == home[h]
      r == target[h]
  IN /\ "timeout" \in Faults
     /\ pc[h] \in Waiting
     /\ \/ "slowsend" \in Faults
        \/ \A g \in Requests : target[g] = r => pc[g] \notin {"unlock2", "send"}
     /\ registry' = [registry EXCEPT ![p][r] = "absent"]
     /\ pc' = [g \in Requests |->
                 IF g = h THEN IF pc[h] = "await" THEN "raised" ELSE "timedout"
                 ELSE IF g \in Waiters(p, r) THEN "cancelled"
                 ELSE pc[g]]
     /\ UNCHANGED <<rowVars, lock, home, target, result, podVars, agentVars,
                    replyVars>>

\* The failed send's branch and the wait's except clause: the dequeued row is
\* failed, whatever its status is by now; another's request sends us back to
\* the loop, our own raises, and only the except clause resolves its future.
FailTarget(h) ==
  LET r == target[h]
  IN /\ pc[h] \in {"unsent", "timedout"}
     /\ status' = [status EXCEPT ![r] = "failed"]
     /\ content' = [content EXCEPT ![r] = "error"]
     /\ IF r = h /\ pc[h] = "timedout"
        THEN SetResult(home[h], h, "error", [pc EXCEPT ![h] = "raised"])
        ELSE /\ pc' = [pc EXCEPT ![h] = IF r = h THEN "raised" ELSE "lock2"]
             /\ UNCHANGED <<registry, result>>
     /\ UNCHANGED <<owner, createdAt, clock, dequeues, reclaims, lock, home,
                    target, podVars, agentVars, replyVars>>

-----------------------------------------------------------------------------
(***************************************************************************)
(* The reply is forwarded to the integration dispatcher by whoever claims  *)
(* agent-response:<request id>: the handler that got it from its future    *)
(* (polling path) or the handler of the event (event path).  The claim is  *)
(* "fresh" from the INSERT on (processing_result "processing"), "stale"    *)
(* after 120 s, when anyone may take it over, and "settled" by the UPDATE  *)
(* that follows the forward, to "success" or, after an error, "error".     *)
(***************************************************************************)
\* What try_claim_event_for_processing does next after its SELECT.
Seen(r, skipped) ==
  IF replyClaim[r] = "none" THEN "take"
  ELSE IF replyClaim[r] = "stale" THEN "retake" ELSE skipped

\* The unique constraint lets one INSERT pass; the UPDATE of a stale claim does
\* not look at what has become of it since the SELECT.
ClaimIgnored(step, r) == TRUE
Granted(step, r) == step = "take" => replyClaim[r] = "none"

SetClaim(r, c) ==
  /\ replyClaim' = [replyClaim EXCEPT ![r] = c]
  /\ UNCHANGED aged

TakeIfGranted(step, r) ==
  IF Granted(step, r) THEN SetClaim(r, "fresh") ELSE UNCHANGED claimVars

\* send_response_event: up to four attempts of 30 s that count as one forward,
\* for they carry one event id; when all fail, neither caller looks at it.
Forward(r, k) ==
  \/ forwarded' = [forwarded EXCEPT ![r] = Append(@, k)]
  \/ "sendfail" \in Faults /\ UNCHANGED forwarded

\* The polling path.
ClaimReply(h) ==
  /\ pc[h] = "claim"
  /\ pc' = [pc EXCEPT ![h] = Seen(h, "done")]
  /\ UNCHANGED <<rowVars, lock, home, target, result, registry, podVars,
                 agentVars, replyVars>>

TakeReply(h) ==
  /\ pc[h] \in {"take", "retake"}
  /\ TakeIfGranted(pc[h], h)
  /\ pc' = [pc EXCEPT ![h] = IF Granted(@, h) THEN "forward" ELSE "done"]
  /\ UNCHANGED <<rowVars, lock, home, target, result, registry, podVars,
                 agentVars, response, deliveryVars, forwarded>>

ForwardReply(h) ==
  /\ pc[h] = "forward"
  /\ Forward(h, result[h])
  /\ pc' = [pc EXCEPT ![h] = "settle"]
  /\ UNCHANGED <<rowVars, lock, home, target, result, registry, podVars,
                 agentVars, response, deliveryVars, claimVars>>

SettleReply(h) ==
  /\ pc[h] = "settle"
  /\ SetClaim(h, "settled")
  /\ pc' = [pc EXCEPT ![h] = "done"]
  /\ UNCHANGED <<rowVars, lock, home, target, result, registry, podVars,
                 agentVars, response, deliveryVars, forwarded>>

\* A statement of the claim or of its settlement raises: the claim is not got,
\* the settlement is given up, and the handler ends like any other.
ReplyFails(h) ==
  /\ "dberror" \in Faults
  /\ pc[h] \in {"claim", "take", "retake", "settle"}
  /\ pc' = [pc EXCEPT ![h] = "done"]
  /\ UNCHANGED <<rowVars, lock, home, target, result, registry, podVars,
                 agentVars, replyVars>>

\* The handlers of the deliveries ds end.
Drop(ds) ==
  /\ stage' = [d \in Deliveries |-> IF d \in ds THEN "gone" ELSE stage[d]]
  /\ carried' = [d \in Deliveries |->
                   IF d \in ds THEN NoRequest ELSE carried[d]]
  /\ carrier' = [d \in Deliveries |-> IF d \in ds THEN NoPod ELSE carrier[d]]

GoOn(d, step) ==
  /\ stage' = [stage EXCEPT ![d] = step]
  /\ UNCHANGED <<carried, carrier>>

\* The event path: the broker hands the event of r to pod p, which looks for
\* the claim.  It does so again when no answer has come within 130 s.
Deliver(d, p, r) ==
  /\ up[p]
  /\ response[r] = "inflight"
  /\ stage[d] = "idle"
  /\ LET step == Seen(r, "gone")
     IN IF step = "gone" THEN Drop({d})
        ELSE /\ stage' = [stage EXCEPT ![d] = step]
             /\ carried' = [carried EXCEPT ![d] = r]
             /\ carrier' = [carrier EXCEPT ![d] = p]
  /\ \/ response' = [response EXCEPT ![r] = "gone"]
     \/ "duplicate" \in Faults /\ UNCHANGED response
  /\ UNCHANGED <<rowVars, lock, handlerVars, podVars, agentVars, claimVars,
                 forwarded>>

TakeResponse(d) ==
  /\ stage[d] \in {"take", "retake"}
  /\ TakeIfGranted(stage[d], carried[d])
  /\ IF Granted(stage[d], carried[d]) THEN GoOn(d, "store") ELSE Drop({d})
  /\ UNCHANGED <<rowVars, lock, handlerVars, podVars, agentVars, response,
                 forwarded>>

\* process_agent_response completes the row, whatever its status, or logs that
\* the statement raised, and sends an event that changes no row.
StoreResponse(d) ==
  LET r == carried[d]
  IN /\ stage[d] = "store"
     /\ \/ /\ status' = [status EXCEPT ![r] = "completed"]
           /\ content' = [content EXCEPT ![r] = "answer"]
        \/ "dberror" \in Faults /\ UNCHANGED <<status, content>>
     /\ GoOn(d, "resolve")
     /\ UNCHANGED <<owner, createdAt, clock, dequeues, reclaims, lock,
                    handlerVars, podVars, agentVars, response, claimVars,
                    forwarded>>

\* Then created_at is read and the future of this pod is resolved.
ResolveResponse(d) ==
  /\ stage[d] = "resolve"
  /\ SetResult(carrier[d], carried[d], "answer", pc)
  /\ GoOn(d, "forward")
  /\ UNCHANGED <<rowVars, lock, home, target, podVars, agentVars, response,
                 claimVars, forwarded>>

ForwardResponse(d) ==
  /\ stage[d] = "forward"
  /\ Forward(carried[d], "answer")
  /\ GoOn(d, "settle")
  /\ UNCHANGED <<rowVars, lock, handlerVars, podVars, agentVars, response,
                 claimVars>>

SettleResponse(d) ==
  /\ stage[d] = "settle"
  /\ SetClaim(carried[d], "settled")
  /\ Drop({d})
  /\ UNCHANGED <<rowVars, lock, handlerVars, podVars, agentVars, response,
                 forwarded>>

\* A statement raises: see ReplyFails; an error between store and forward is
\* recorded under the claim, if that statement does not raise as well.
ResponseFails(d) ==
  /\ "dberror" \in Faults
  /\ stage[d] \in {"take", "retake", "resolve", "settle"}
  /\ \/ stage[d] = "resolve" /\ SetClaim(carried[d], "settled")
     \/ UNCHANGED claimVars
  /\ Drop({d})
  /\ UNCHANGED <<rowVars, lock, handlerVars, podVars, agentVars, response,
                 forwarded>>

\* Somebody works on the reply to r under its claim.
Claimed(r) ==
  \/ pc[r] \in {"forward", "settle"}
  \/ \E d \in Deliveries :
       carried[d] = r /\ stage[d] \in {"store", "resolve", "forward", "settle"}

\* 120 s have passed since the claim was taken.
Age(r) ==
  /\ replyClaim[r] = "fresh"
  /\ Claimed(r) => "slowreply" \in Faults
  /\ replyClaim' = [replyClaim EXCEPT ![r] = "stale"]
  /\ aged' = aged \union {r}
  /\ UNCHANGED <<rowVars, lock, handlerVars, podVars, agentVars, response,
                 deliveryVars, forwarded>>

-----------------------------------------------------------------------------
(***************************************************************************)
(* The agent and the broker, as the request manager sees them.             *)
(***************************************************************************)
\* has_earlier_pending_or_processing: the agent answers 503, to be retried.
HasEarlier(r) ==
  \E q \in Requests : /\ createdAt[q] < createdAt[r]
                     /\ status[q] \in {"pending", "processing"}

\* The agent processes r, writes the row itself and publishes the response.
AgentAnswers(r) ==
  /\ r \in events \ answered
  /\ ~HasEarlier(r)
  /\ events' = events \ {r}
  /\ answered' = answered \union {r}
  /\ \E s \in {"completed"} \union
              (IF "agenterror" \in Faults THEN {"failed"} ELSE {}) :
       status' = [status EXCEPT ![r] = s]
  /\ content' = [content EXCEPT ![r] = "answer"]
  /\ \/ response' = [response EXCEPT ![r] = "inflight"]
     \/ "lostreply" \in Faults /\ UNCHANGED response
  /\ UNCHANGED <<owner, createdAt, clock, dequeues, reclaims, lock,
                 handlerVars, podVars, deliveryVars, claimVars, forwarded>>

\* The event is dropped: a duplicate the agent skips, or retries exhausted.
EventDropped(r) ==
  /\ r \in events
  /\ r \in answered \/ "lostevent" \in Faults
  /\ events' = events \ {r}
  /\ UNCHANGED <<rowVars, lock, handlerVars, podVars, answered, replyVars>>

-----------------------------------------------------------------------------
(***************************************************************************)
(* Pods: heartbeats and crashes.                                           *)
(***************************************************************************)
Heartbeat(p) ==
  /\ up[p]
  /\ ~beat[p]
  /\ beat' = [beat EXCEPT ![p] = TRUE]
  /\ UNCHANGED <<rowVars, lock, handlerVars, up, agentVars, replyVars>>

\* The grace period runs out for a dead pod, or for a live one unseen.
GraceExpires(p) ==
  /\ beat[p]
  /\ ~up[p] \/ "unseen" \in Faults
  /\ beat' = [beat EXCEPT ![p] = FALSE]
  /\ UNCHANGED <<rowVars, lock, handlerVars, up, agentVars, replyVars>>

\* The handlers and futures of the pod are gone; its connections close, which
\* releases the lock; the claim of a reply it worked on stays what it is.
Crash(p) ==
  /\ "crash" \in Faults
  /\ up[p]
  /\ up' = [up EXCEPT ![p] = FALSE]
  /\ pc' = [h \in Requests |->
              IF home[h] = p /\ pc[h] \notin Ended THEN "lost" ELSE pc[h]]
  /\ registry' = [registry EXCEPT ![p] = [r \in Requests |-> "absent"]]
  /\ lock' = IF lock \in Requests /\ home[lock] = p THEN NoRequest ELSE lock
  /\ Drop({d \in Deliveries : carrier[d] = p})
  /\ UNCHANGED <<rowVars, home, target, result, beat, agentVars, response,
                 claimVars, forwarded>>

-----------------------------------------------------------------------------
HandlerStep(h) ==
  \/ AcquireLock(h) \/ BeginInsert(h) \/ CommitInsert(h) \/ ReleaseLock(h)
  \/ LockTimeout(h) \/ ReclaimSession(h) \/ Dequeue(h) \/ NothingPending(h)
  \/ Join(h) \/ Send(h) \/ WaitTimeout(h) \/ FailTarget(h)
  \/ ClaimReply(h) \/ TakeReply(h) \/ ForwardReply(h) \/ SettleReply(h)

PodStep(p) ==
  \/ Heartbeat(p)
  \/ BackgroundReclaim(p)
  \/ \E r \in Requests : Poll(p, r)

ResponseStep(d) ==
  \/ \E p \in Pods, r \in Requests : Deliver(d, p, r)
  \/ TakeResponse(d) \/ StoreResponse(d)
  \/ ResolveResponse(d) \/ ForwardResponse(d) \/ SettleResponse(d)

AgentStep(r) == AgentAnswers(r) \/ EventDropped(r)

\* What may happen but need not.
Environment ==
  \/ \E h \in Requests, p \in Pods : Arrive(h, p)
  \/ \E h \in Requests : StatementFails(h) \/ SendFails(h) \/ ReplyFails(h)
  \/ \E d \in Deliveries : ResponseFails(d)
  \/ \E r \in Requests : Age(r)
  \/ \E p \in Pods : GraceExpires(p) \/ Crash(p)

Next ==
  \/ \E h \in Requests : HandlerStep(h)
  \/ \E p \in Pods : PodStep(p)
  \/ \E d \in Deliveries : ResponseStep(d)
  \/ \E r \in Requests : AgentStep(r)
  \/ Environment

Spec == Init /\ [][Next]_vars

(***************************************************************************)
(* Coroutines of a live pod run when they are ready; the poller, heartbeat *)
(* and background reclaim loops repeat; a dead pod's last check-in grows   *)
(* old; the broker retries until the agent has taken the event.  Nothing   *)
(* makes a request arrive or a fault happen, or makes a send slow.         *)
(***************************************************************************)
Overdue == {r \in Requests : status[r] = "processing" /\ ~Driven(r)}
OverdueReclaim(p) ==
  /\ Overdue # {}
  /\ BackgroundReclaim(p)
  /\ \A r \in Overdue : reclaims'[r] > reclaims[r]

Fairness ==
  /\ \A h \in Requests : WF_vars(HandlerStep(h))
  /\ \A p \in Pods : /\ WF_vars(Heartbeat(p))
                     /\ WF_vars(OverdueReclaim(p))
                     /\ WF_vars(~up[p] /\ GraceExpires(p))
                     /\ \A r \in Requests : WF_vars(Poll(p, r))
  /\ \A d \in Deliveries : WF_vars(ResponseStep(d))
  /\ \A r \in Requests : WF_vars(AgentStep(r))

FairSpec == Spec /\ Fairness

-----------------------------------------------------------------------------
(***************************************************************************)
(* Properties.                                                             *)
(***************************************************************************)
\* Type correctness of every variable.
TypeOK ==
  /\ status \in [Requests -> Statuses]
  /\ content \in [Requests -> {"null"} \union Results]
  /\ owner \in [Requests -> Pods \union {NoPod}]
  /\ createdAt \in [Requests -> Nat]
  /\ clock \in Nat \ {0}
  /\ dequeues \in [Requests -> Nat]
  /\ reclaims \in [Requests -> Nat]
  /\ lock \in Requests \union {NoRequest}
  /\ pc \in [Requests -> Labels]
  /\ home \in [Requests -> Pods \union {NoPod}]
  /\ target \in [Requests -> Requests \union {NoRequest}]
  /\ result \in [Requests -> {"null"} \union Results]
  /\ registry \in [Pods -> [Requests -> Futures]]
  /\ up \in [Pods -> BOOLEAN]
  /\ beat \in [Pods -> BOOLEAN]
  /\ events \subseteq Requests
  /\ answered \subseteq Requests
  /\ response \in [Requests -> {"none", "inflight", "gone"}]
  /\ stage \in [Deliveries -> Stages]
  /\ carried \in [Deliveries -> Requests \union {NoRequest}]
  /\ carrier \in [Deliveries -> Pods \union {NoPod}]
  /\ replyClaim \in [Requests -> {"none", "fresh", "stale", "settled"}]
  /\ aged \subseteq Requests
  /\ forwarded \in [Requests -> Seq(Results)]

\* with_session_lock: the handlers in a critical section are the one that
\* holds the lock, whatever crashes, times out or raises.
LockHolder == \A h \in Requests : pc[h] \in Critical <=> lock = h

\* FIFO over the session: when a request has been dequeued, every row that
\* was created before it has been dequeued too, or is done.  It needs the
\* INSERT to begin and commit within the lock.
NoOvertaking ==
  \A i, j \in Requests :
    /\ dequeues[j] > 0
    /\ status[i] # "none"
    /\ createdAt[i] < createdAt[j]
    => dequeues[i] > 0 \/ status[i] \in Terminal

\* A row goes to processing once, and once more per reclaim: no two handlers
\* drive the same dequeue, on whatever pods they run.
RedeliveryOnlyAfterReclaim ==
  \A r \in Requests : dequeues[r] <= 1 + reclaims[r]

\* A handler that waits, waits for a future the poller of its pod can see:
\* nobody who shares the future has deleted or resolved it meanwhile.
WaiterRegistered ==
  \A h \in Requests :
    pc[h] \in Waiting => registry[home[h]][target[h]] = "open"

\* A row that waits for its turn or for its answer has no response text yet,
\* so no poller resolves a future with the text of an earlier attempt.
OpenRowUnanswered ==
  \A r \in Requests : status[r] \in {"pending", "processing"}
                        => content[r] = "null"

\* Reclaim and dequeue leave finished rows alone, and no writer reopens one.
TerminalStays ==
  [][\A r \in Requests : status[r] \in Terminal => status'[r] \in Terminal]_vars

\* The reply to a request is forwarded a second time only if its claim has been
\* 120 s old: the polling path, the event path and every repeated delivery of
\* the event look for the claim, and who does not get it forwards nothing.
ForwardedAgainOnlyIfStale ==
  \A r \in Requests : Len(forwarded[r]) > 1 => r \in aged

\* The reply to a request goes to the integration dispatcher at most once (in an
\* instance whose claims are settled in time: no slow send between claim and
\* settlement, no crash and no settlement that fails).
AtMostOneForward == \A r \in Requests : Len(forwarded[r]) <= 1

\* A reclaim takes a row from nobody who still works on it (in an instance
\* whose live pods are seen and whose sends are fast).
ReclaimSparesDrivers ==
  [][\A r \in Requests :
       reclaims'[r] > reclaims[r] => \A h \in Requests : ~Drives(h, r)]_vars

\* The handler that accepted a request loops until the request is done: it
\* does not end while the row is pending or processing.
HandlerOutlivesRow ==
  \A r \in Requests : status[r] \in {"pending", "processing"}
                        => pc[r] \notin Ended

\* A row in processing has a handler that sends it or waits for its answer,
\* and so will complete or fail it.
ProcessingIsDriven ==
  \A r \in Requests : status[r] = "processing"
                        => \E h \in Requests : Drives(h, r)

\* Every handler that started comes to an end, whatever goes wrong.
HandlersEnd ==
  \A h \in Requests : pc[h] = "lock1" ~> pc[h] \in Ended

\* An accepted request is answered and the answer is forwarded (in an
\* instance without crashes, timeouts and database errors).
AnswerForwarded ==
  \A r \in Requests : status[r] = "pending" ~> forwarded[r] = <<"answer">>
=============================================================================
