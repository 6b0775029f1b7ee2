# Verification of the IT self-service agent

TLA+ models of the message path of the self-service agent platform, the TLC
instances that check them, and TLAPS proofs of the properties that matter most.
Paths below are relative to the repository's root (`src/` in PROJECT.json).

A user writes on some channel (Slack, e-mail, Zammad, CLI, web).  The
integration dispatcher or an HTTP endpoint hands the message to the request
manager, which keeps the requests of one session in order and sends them, as
CloudEvents through a broker, to the agent service.  The agent runs the
conversation and publishes a response event, which the request manager stores
and forwards to the dispatcher.  Each service runs in several replicas that share
one PostgreSQL database; nearly every hard question is about what the replicas
do to one another's rows, claims and locks.

## 1. Inventory

| Component | State | Operations | Correct when |
|---|---|---|---|
| Request manager: session serialization (`session_orchestrator.py`, `session_lock.py`, `advisory_lock.py`, `pod_heartbeat.py`, `background_reclaim.py`) | `request_logs` rows (status, `pod_name`, `created_at`), the session's advisory lock, `pod_heartbeats` | accept durably, reclaim stuck rows, dequeue the oldest, send, wait, fail; heartbeat; global reclaim | requests of a session are taken in order, by one handler per dequeue; nothing is lost or left in processing |
| Request manager: futures and forwarding (`communication_strategy.py`, `response_handler.py`, `main.py`) | per-pod registry of futures, `agent-response:<id>` claims | register, poll, resolve, time out; store and forward the reply on the polling or the event path | every waiter is woken; one reply per request reaches the user |
| Request manager: session resolution (`communication_strategy.py`, `session_events.py`, `database_utils.py`, shared `session_manager.py`) | `request_sessions`, futures of pending resolutions | look up, pin, clean up duplicates, create or get, close, expire, delete | a message gets a session of its own user, ticket and channel; a closed one stays closed |
| Accounts (`user_utils.py`, `user_mapping_utils.py`, the resolution part of `slack_service.py`, `email_service.py`, `defaults.py`) | `users`, `user_integration_mappings` | resolve an address, a Slack id or a uuid to the canonical user; validate and refresh a mapping | an address belongs to one user, and everybody resolves it to that user |
| Shared event claims (`shared_models/database.py`) | `processed_events` | claim, take over a stale claim, settle, release | an event is processed once by each service |
| Shared outbox and sender (`outbox.py`, `events.py`) | `event_outbox` rows, send attempts | insert, publish, mark, retry up to 20 times | at least once, in order per session |
| Agent: request events (`agent_service/main.py`, `request_log.py`, shared `session_lock.py`) | claim, agent's session lock | order check, lock, process, answer, settle or yield with 503 | processes in order, one at a time |
| Agent: conversation engine (`session_manager.py`, `lg_flow_state_machine.py`) | current agent of a session, checkpoint of the flow | route, hand back, step the flow, reset | the flow ends, and the session goes back to routing |
| Integration dispatcher: ingress (`slack_service.py`, `email_service.py`, `zammad_service.py`, `outbox_publisher.py`, `thread_lock.py`) | claims of inbound messages, thread lock, outbox | claim, lock the thread, insert, publish at once, mark | every message is published, in order within a thread |
| Integration dispatcher: delivery (`main.py`, `integrations/*`) | delivery log, user integrations | fan a response out, retry | each channel is served once or its failure is recorded |
| Broker (`mock_eventing_service/main.py`) | queue and worker per subscriber and partition key, attempt counters | queue, post, retry in place, give up | FIFO per partition; never stuck |
| Channel policy (`channel_*.py`) | tables | choose the session scope of a channel | same conversation, same session |
| Shared clients, MCP servers, mock ServiceNow, mock employee data, PromptGuard, tracing, normalisation | none of their own | HTTP calls, conversions | not protocols |
| Evaluations, Zammad bootstrap | files, the ticket system's configuration | scripts run by hand or once | share no state with the services |

How they interact.  Calls: clients to the request manager over HTTP, one handler
coroutine per request, which stays until its answer is there.  Messages:
REQUEST_CREATED (request manager to agent) and AGENT_RESPONSE_READY (agent to
request manager, request manager to dispatcher), through the broker.  Shared
state: the agent reads and writes the request manager's `request_logs`; all
services claim in `processed_events`, under their own name.  Callbacks: the
poller and the event handler resolve futures that handler coroutines of the same
pod await.

Hard behaviours.  The session lock does not cover the send and the wait, so all
of that interleaves with other handlers' reclaims and dequeues.  Time decides
who is alive: 15 s heartbeats against a 30 s grace, 120 s agent timeout plus
30 s buffer against `processing_started_at`, 120 s claim age against a 130 s
delivery timeout, 180 s lock waits.  Each of these is a timeout that may race a
late answer.  A future is shared by several coroutines, and whoever times out
cancels it.  Two paths forward the reply.  Deliveries repeat: the sender retries,
a reclaimed row is sent again, the broker retries.  The dispatcher takes a message
in under a claim and a thread lock, but its publishers take neither.  Sessions,
users and mappings are found by one statement and created by another, each of
them committed alone, so two requests of one person race.  A conversation lives in
three places (row, checkpoint, memory) that are written one after the other.
PROJECT.json `hazards` lists each at its line.

## 2. Modules and plan

| Module | Part of the path | Its environment |
|---|---|---|
| `Ingress` | a user's messages become outbox rows and events | channels, broker |
| `DurablePublish` | abstract: what an outbox promises; implemented by `Ingress` | |
| `Accounts` | who the sender is, who a reply is for | Slack's profiles |
| `SessionResolution` | which session the message belongs to | agent, buttons |
| `SessionSerialization` | the requests of a session, one after the other | agent, broker |
| `EventDelivery` | the broker, the claims and the agent's event handlers | request manager |
| `Conversation` | what the agent does with one message | language model |
| `ReplyDelivery` | the reply goes to the user's channels | broker, channels, settings |

Each module takes what its neighbours do as actions of its environment, and what
one assumes another shows.  `SessionSerialization` assumes of the agent that it
answers only if no earlier row is open, one event at a time, with duplicates
dropped or processed again: `EventDelivery` models that in detail.
`EventDelivery` assumes that rows appear in order and that posts may be repeated
or overtake: `SessionSerialization` shows the first.  `EventDelivery.Process` is a
turn of `Conversation`, which the agent's lock keeps apart from the others;
`SessionResolution` takes the user `Accounts` finds and hands the session
`SessionSerialization` is about; the reply it forwards is the event of
`ReplyDelivery`.

Left of the plan:

1. `SessionFifo`, a queue per session, implemented by `SessionSerialization`
   through the map status/createdAt -> queue; and `AtMostOnceClaim`, implemented by
   `EventDelivery` without slow handlers and by `ReplyDelivery`.
2. The composition of `EventDelivery` with `ReplyDelivery` in one partition of the
   broker: both repeat the broker's rules for a post and its answer.
3. Lock keys (`session_id_to_lock_key`, 63 and 31 bits) as operators.

### All runs

| Run | Instance | Shows |
|---|---|---|
| `ser_reclaim` | 2 requests, 2 pods, no event path; crash, unseen, slow sends, dberror | lock, order, redelivery, terminal rows |
| `ser_waits` | 2 requests, one of them at either of 2 pods; timeouts | waiters are registered, open rows unanswered, reclaims spare drivers, every handler ends |
| `ser_forward` | 1 request, 2 deliveries of its reply, 2 pods; every fault | a second forward needs a stale claim |
| `ser_answer` | one request per pod; slow sends, lost replies | every accepted request is answered and its answer forwarded |
| `delivery` | 2 events, 2 handlers, 2 posts, 3 attempts, 2 timeouts, one kind of fault | order, at most once, the queue drains, posted is answered |
| `ingress_thread` | 2 messages on each of 4 channels, 2 pods, 1 publisher, 1 retry, 1 fault | nothing acknowledged is lost, thread order, one customer, refinement of `DurablePublish`, progress |
| `accounts` | 2 addresses, 1 Slack member, 3 uuids, 2 callers, 4 resolutions, 1 change of profile, 2 expiries, 1 fault | one user per address |
| `sessions` | 2 messages, 2 users, 2 channels, 1 ticket, 2 uuids, 2 attempts, one upset | the session handed out is the right one |
| `conversation` | the 5 shipped flows, 4 turns, 7 supersteps, 1 fault | row, checkpoint and memory agree; every turn ends with a new answer |
| `reply_channels` | 1 event of any kind, 2 requests, 2 posts, 4 channel types, 2 edits, 1 fault | no more deliveries than claims, tickets kept apart, truthful log, event settled |
| `doc_reset_starts_fresh` | a ticket, 3 turns | violated: see 10 |
| `doc_one_general_session` | 1 message, 1 user, 2 channels, 1 ticket | violated: see 10 |

## 3. SessionSerialization

One session, any number of requests and pods.  Each request has one handler
coroutine of the same name; `pc` is where the handler stands between two awaits
that matter.

| In the model | In the code |
|---|---|
| `status`, `content`, `owner`, `createdAt` | `request_logs.status`, `response_content` (by kind of text), `pod_name`, `created_at` |
| `clock` | PostgreSQL's clock, counted in INSERTs |
| `lock` | the session's advisory lock in PostgreSQL |
| `target`, `result` | the dequeued request; what `wait_for_response` returned |
| `registry` | `_response_futures_registry` of each pod |
| `up`, `beat` | pods that run; pods with a check-in within the grace period |
| `events`, `answered` | REQUEST_CREATED events under way; requests the agent has processed |
| `response` | whether the broker has the AGENT_RESPONSE_READY event of a request |
| `stage`, `carried`, `carrier` | each delivery of such an event: where its handler is, its request, its pod |
| `replyClaim` | `agent-response:<id>` in `processed_events`: no row, "processing" for less or more than 120 s (fresh, stale), "success" or "error" (settled) |
| `forwarded` | what went to the dispatcher |
| `dequeues`, `reclaims`, `aged` | history only; `aged` are the requests whose claim has been stale |

Phase 1 is `Arrive`, `AcquireLock`, `BeginInsert`, `CommitInsert`,
`ReleaseLock`; the INSERT is split since `created_at` is read when its
transaction begins and others see the row when it commits.  Phase 2 is
`AcquireLock`, `ReclaimSession`, `Dequeue` or `NothingPending`, `ReleaseLock`,
and then `Send` (or `SendFails`, `FailTarget`) or `Join`, until the reply is
there: `Poll`, `ResolveResponse` or another handler's failure sets the future.
`WaitTimeout` models `asyncio.wait_for` as it is: the future is cancelled, and
with it every other coroutine that awaits it.  `Stuck` abstracts the
two time conditions of `_stuck_where_clause`: the row is older than the cutoff
(`PastCutoff`), or its owner has no recent check-in.  Which rows are older than the
cutoff at a reclaim is a choice (`late`), among the rows nobody drives and, with the
fault "slowsend", the ones whose send may have outlasted the buffer.

The reply is forwarded by the polling path, which a handler enters with its own
reply (`ClaimReply`, `TakeReply`, `ForwardReply`, `SettleReply`), and by the
handlers of delivered events (`Deliver`, `TakeResponse`, `StoreResponse`,
`ResolveResponse`, `ForwardResponse`, `SettleResponse`).  Each path is split at
the statements of the claim: the SELECT (`Seen`), the INSERT one of them wins or
the UPDATE that takes a stale claim over whatever has become of it since
(`Granted`), and the UPDATE after the forward.  Until then the claim is one "in
processing", and `Age` makes it stale: at any time when nobody works under it
(`Claimed`: the holder's pod has stopped, or its last UPDATE has failed), and as
the fault "slowreply" while somebody does, for the database update and the
forward are sends of up to four attempts of 30 s each.  A forward the broker
refuses is looked at by neither path (`Forward`), a store that fails is only logged
(`StoreResponse`), and an error before the forward settles the claim as "error"
(`ResponseFails`).

`Faults` switches the faults of an instance on; each is described in the module.
Faults are why one module serves runs of very different size.

### Runs

| Run | Faults | Shows |
|---|---|---|
| `ser_reclaim` | crash, unseen, slowsend, dberror | LockHolder, NoOvertaking, RedeliveryOnlyAfterReclaim, TerminalStays |
| `ser_waits` | timeout, locktimeout | WaiterRegistered, OpenRowUnanswered, ReclaimSparesDrivers, HandlersEnd |
| `ser_forward` | all; RECLAIM_ACTION=fail | ForwardedAgainOnlyIfStale |
| `ser_answer` | slowsend, lostreply | HandlerOutlivesRow, ProcessingIsDriven, AnswerForwarded |

`ser_waits` and `ser_answer` have two requests, two pods and one delivery;
`ser_reclaim` has no delivery, since the event path writes the rows as the agent
does, takes no lock and dequeues nothing: its replies come by the poller.  Two handlers
suffice for every race over a row, a future or the lock, since each is about two
holders; two pods make the futures shared (same pod) or separate (different
pods), and leave a survivor after a crash.  `ser_forward` has one request, for no
step of a claim reads two of them, and two deliveries: with the handler of the
request there are three contenders for the claim, so that a take-over may race
with the holder and with another take-over; every fault may occur in it, any
number of times.  `ser_reclaim` and `ser_forward` let a request go to any pod and
use the symmetry of requests, pods and deliveries; the runs with liveness place
requests on given pods (`OneAnywhere`, `OnePerPod`) and use no symmetry.  The
handlers' loops are bounded by the program itself: no counter is capped.
`Deliveries` bounds how often events are delivered.  Deadlock is not checked, for
a session may be done.

No run claims that a reply is forwarded once, since the code does not ensure it
(section 10): ForwardedAgainOnlyIfStale says what a second forward takes, and the
theorem ForwardedOnceIfQuick where it cannot happen.  AnswerForwarded holds in an
instance without stale claims.

Fairness (`Fairness`): weak, per handler, poller, heartbeat, background task and
response event, as an event loop runs ready coroutines and periodic tasks
return.  The background task is fair for the rows nobody drives (`OverdueReclaim`),
for these grow older than the cutoff; nothing makes a send slow.  `AgentStep` is fair
because the broker repeats a delivery; arrivals, faults and the grace period of a
live pod are not fair.  Taking the lock needs
only weak fairness per handler since a holder, once done, does not compete
forever.

## 4. EventDelivery

One session's REQUEST_CREATED events between the request manager and the agent.

| In the model | In the code |
|---|---|
| `row` | `request_logs.status`: pending and processing are "open" |
| `queue`, `worker`, `current`, `conn`, `attempts` | `_partition_queues`, `_partition_delivery_worker`, its delivery, its HTTP post, `delivery_attempts` |
| `posts` | how often the request manager's sender got the event to the broker |
| `claim`, `stale` | `processed_events.processing_result`; `created_at` older than 120 s |
| `pc`, `event`, `reply` | a post the agent serves |
| `agentLock` | `pg_try_advisory_lock(1, key_lo)` |
| `processed`, `published` | `process_request` calls (history); published responses |
| `occurred` | history: the kinds of faults so far |

`SelectClaim`, `InsertClaim`, `ReclaimClaim` are the statements of
`try_claim_event_for_processing`; `CheckOrder`, `AcquireLock`, `Process`,
`StoreAnswer`, `PublishAnswer` follow `_handle_request_event_from_data`;
`SettleSuccess`, `SettleError`, `ReleaseClaim`, `Reply` are the three ends of
`_handle_event_with_try_claim`.  A handler goes on after the broker has given
its post up (`DeliveryTimeout`).  `Age` lets a claim grow old: freely when no
live handler has its event, and as the fault "slow" when one has.

The run `delivery` has 2 events, 2 handlers, 2 posts of each event, 3 attempts after
a 503, 2 after a timeout, and any one kind of fault.  It shows ProcessedInOrder,
ProcessedOnce, QueueDrains and PostedIsAnswered.

The code retries ten times after a 5xx and three times after a timeout.  Two or
three attempts show a retry that succeeds and one that is the last; what comes
between is the same step again.  `FaultBound` limits how many *kinds* of faults
meet in a behaviour, not how often each occurs, and is what keeps the state
space small enough: every kind is explored by itself.

Fairness: the worker task, the handlers of live pods and the replacement of dead
ones.  Posts, rows and faults are not fair.  PostedIsAnswered needs no
assumption on the request manager, since the agent itself closes the rows.

The model says two things a reader may not expect.  ProcessedOnce has three
exceptions, and each is necessary: after a crash or a failed settling the claim
ages and is rightly taken over; under a slow handler it is taken over wrongly.
And with a lost response event PostedIsAnswered fails by design of the code,
which settles the event as a success whether or not the response was published.

## 5. Ingress and DurablePublish

One thread of one channel: a Slack thread, the slash commands of a user, a mail
conversation or a ticket.  `channel` is chosen at the start, so one run covers
all four.

| In the model | In the code |
|---|---|
| `kind`, `customer`, `deliveries` | what a message is, the customer it names, how often its webhook is posted |
| `acked` | answered 200, or flagged `\Seen` in the mailbox |
| `claim` | `processed_events` rows of inbound messages; nobody settles or releases them, so they are fresh or stale |
| `cooling` | the two-second cooldown per user in a pod's memory |
| `lock` | `thread_lock.py`'s advisory lock, by the pod whose connection holds it |
| `anchor` | `zammad_ticket_customer_anchor` |
| `createdAt`, `status`, `retries` | `event_outbox` |
| `posted` | what the broker has got |
| `leaderLock`, `leading`, `todo` | the IMAP leader lock, the pods that take themselves for the leader, the mails of a poll |
| `ppc`, `batch` | the background publisher of each pod |
| `harmed`, `faults` | history |

`Webhook`, `Command`, `Interact` and `NextMail` begin a message; `SelectClaim`,
`InsertClaim`, `RetakeClaim` are its claim, `Screen` what the channel does before
or after it (own messages, cooldown, empty mails, tickets), `AcquireLock`,
`Anchor`, `Insert`, `Send`, `Mark` the critical section.  `SelectBatch`,
`PublishRow`, `MarkPublished`, `MarkFailed` are `outbox_publisher.py`, which takes no
lock.  `BecomeLeader`, `Poll`, `RenewFails`, `LeaderConnectionLost` are the leader of
the mailbox.  `Failure` and the lost connections are the faults; all of them
together are bounded by `MaxFaults`.

AckedIsStored excepts what a fault has cut short (`harmed`), and that exception
is what the code does: a message is claimed before it is stored, and the claim is
never released, so a webhook repeated after a crash or an error meets the claim
and is answered 200.  OvertakenOnlyAfterFault says that only the loss of the lock
or a failed first publication lets a later message overtake.  MailIsTaken and
StoredIsSettled are progress: a mail is read by whichever pod leads, and a stored
row is published or exhausted.  `DurablePublish` is the promise in three sets
(stored, delivered, given up); ImplementsOutbox is the refinement.  `Resume` there
is not a luxury: a row exhausted by one publisher may be marked as published by
another that was sending it.

Bounds: two messages give every overtaking, two pods every race for claim, lock
and leadership, and one fault at any place is what each exception speaks of.  With
one retry a row is retried once and exhausted at the next failure (20 in the
code).  One pod's publisher runs; the other actors it can meet are the handlers of
both pods.

Fairness: handlers, leader loop and publisher of every pod, weak.  Messages,
repeated posts, the ageing of claims and faults are not fair.

## 6. Accounts

| In the model | In the code |
|---|---|
| `users`, `primary` | rows of `users`, `primary_email` (unique) |
| `mail`, `slack` | `user_integration_mappings` rows of type EMAIL and SLACK; `fresh` is `last_validated_at` within five minutes |
| `profile` | the address in a Slack member's profile, as `users.info` reports it |
| `pc`, `job`, `inserted` | a coroutine, what it holds, the user row it has flushed and not committed |

A call is begun by `ResolveMail`, `ResolveAddress`, `ResolveUuid`, `ResolveSlack`,
`LookupSlack`, `AskConversations` or `NameUser` (which takes the name a user got
from one service to another).  Its steps are the statements: `ReadCached`,
`Validate`, `ReadProfile`, `ReadKnown`, `ReadByAddress`, `ReadAnyAddress` for Slack;
`FindMapping`, `FindUser`, `InsertUser`, `EnsureRow`, `UpsertRow` for
`get_or_create_canonical_user`; `Store`, `Consistent` for the mapping that is
written back; `ReadLookup`, `Revalidate`, `Search` for a delivery.  The unique
indexes of the tables are guards (`AddressLocked`, `IdTaken`): who would violate one
waits for the other's commit or goes to `Raise`.

Two callers show every race for an index; the second pair of resolutions meets
what the first two have left behind, with a profile changed and a validation aged
in between.  Three uuids give each caller one and leave one over.

What the model shows of the code beside the properties: the search of
`ensure_email_mapping_consistency` for the address under another user never finds one, since the invariant
excludes it; `user_mapping_utils.py:81` ("Update email if changed") never has a
changed address to store; and a Slack member whose profile address changed cannot
be resolved, for the INSERT violates the index on `integration_user_id`, until a
delivery to the old address has turned the old row into the entry for "not found".

## 7. SessionResolution

| In the model | In the code |
|---|---|
| `row`, `recent` | `request_sessions`: owner, channel, status, whether it has run out; the order of `last_request_at` |
| `lockedBy` | `SELECT ... FOR UPDATE [SKIP LOCKED]` until the commit |
| `solo` | `SESSION_PER_INTEGRATION_TYPE` |
| `pc`, `job` | a request's handler: user, channel, ticket, pinned session, the session it got |
| `event`, `found`, `eventTries` | its create-or-get event and the handler of that event on any pod |

Tickets (`SelectTicket`, `TouchTicket`, `InsertTicket`), pins (`Pin`), the lookup with
its cleanup (`Lookup`, `SelectDoomed`, `Deactivate`, `Touch`), the event and its
answer (`Send`, `ReadyArrives`, `ReadyLost`, `WaitTimeout`, `EventFind`, `EventInsert`,
`EventConflict`, `EventExtend`) and the creation without an answer (`Insert`,
`Conflict`, `Extend`, `Fallback`).  `Close`, `Lapse` and `CleanupTask` are the
surroundings: the button and the reset, `expires_at`, and the daily expiry and
deletion.  The index of migration 003 (one ACTIVE row per user and channel, tickets
excepted) is `NoIndex`.

HandedIsOwn leaves a ticket's owner out: a ticket's row that is deleted after 30
days between SELECT and UPDATE is created again for whoever wrote.
ClosedStaysClosed leaves out tickets, whose row is reactivated on purpose.
OneSessionPerChannel is about separate sessions for each channel; in the unified
mode the index does not keep two channels apart, and two requests of one user may
create two.

Two requests give every race for a row, an index or an event, since each is about
two.  Two attempts of `create_session` (three in the code) show a second one that
succeeds and one that is the last.

Other things a reader of the code may not expect: `get_active_session` ignores
`expires_at`, so a session that has run out is taken at an index conflict and its
expiry set anew; the session-ready event may reach another pod, which resolves
nothing, and the request goes on by itself after a second; a request that
finds the rows locked skips them and takes the user for one without a session.

## 8. Conversation

One session, turn after turn; the agent's session lock keeps turns apart
(`EventDelivery`), so there is one at a time.

| In the model | In the code |
|---|---|
| `row` | `current_agent_id`, `conversation_thread_id`, status of `request_sessions` |
| `threads` | checkpoint of each LangGraph thread: current node, waiting node, messages and those consumed, routing decision, counters, last answer |
| `conv` | `ResponsesSessionManager`'s agent and thread in memory, for one turn |
| `pc`, `turn`, `node`, `steps` | where the turn is, its message, the next node, LangGraph's supersteps |
| `reply`, `spoke`, `answer`, `decided`, `skipped` | what is answered; history |

`Clear`, `Resume`, `Create`, `Store` are `handle_responses_message` up to the message,
`Send` and `FlowStep` the flow (`Wait`, `Process`, `Classify`, `Validate`, `Terminal`
and their failing forms), `Finish` the end-of-flow reset of its counters,
`RouteBack`, `RouteCompleted`, `RouteOn`, `HandOver` the change of the agent, `Reset`
the conversation that starts over with a "hi".  The language model is a choice from `Texts`
at every node that asks it, guardrails are a choice too.

`MCConversation` holds the flows the repository ships (router, laptop refresh,
ticket review and the two ticket agents) as records: the nodes, their kinds,
branches and transitions of `agent-service/config/lg-prompts`, without the
prompts.  The liveness property is about these flows, and a change of a transition there
is checked by changing a line here; the other properties are proved for any flows,
AnswerIsNew for any that are `Responsive` (11).  `WellFormed` says what a flow is: its
transitions lead to nodes it has, `end` is its terminal node.  The model's answers include the names of
a specialist, of the router and of the ticket's own entry agent, which the fallback of
`_handle_routing` looks for in the text.

RoutedByFreshDecision is about `routing_decision`, which nothing ever clears: without
a fault a handover by decision follows a classification that has chosen an agent
since `_handle_routing` last looked (`decided`), so no decision is carried out twice.
It speaks of the decision and not of the turn: a decision that is taken in the turn
that hands over is not looked at in that turn, and is rightly carried out in
the next.

Four turns lead from the router to a specialist, to its end and into the thread
again.  A limit of seven supersteps lets the flows' own counted retries (one round
of each here) run out and is reached by the loops through a failed node, which
nothing else bounds; the code leaves LangGraph's default.

AnswerIsNew has an exception (`skipped`): a waiting node may lead to the end, and an
intent that no branch knows does, and the answer of the turn before is then
repeated.  EveryTurnEnds rests on LangGraph's recursion limit where a failed node leads
back to itself, and on nothing else; its fairness is that a turn under way goes
on.  Things that stand out: "VALID" is found in "INVALID" where a prompt
asks for one of the two (`lg_flow_state_machine.py:1041`, modelled by `Contains`);
`initial_user_message` replaces the user's first message (:743); an emptied
`messages` list in the end-of-flow reset has no effect, since the reducer appends;
the message that comes after the end is consumed by the first waiting node of the
new round.

## 9. ReplyDelivery

| In the model | In the code |
|---|---|
| `kind`, `binding` | what the event is; `delivery_binding` STANDARD or TICKET_THREAD |
| `waiting`, `outcome`, `posts` | the broker's post, its answer, repeated posts |
| `claim` | `processed_events` of the dispatcher |
| `override`, `enabled`, `nextId` | `user_integration_configs` |
| `healthy`, `defaultOn` | the channels' health; `integration_default_configs` |
| `log`, `sent` | `delivery_logs`; what has reached the user |
| `own`, `todo`, `target`, `answer` | the overrides read, the targets left, the one under way and its result |
| `chosen`, `taken`, `cut` | history |

`SelectClaim`, `InsertClaim` claim; `Check` drops what is incomplete or of another
user; `SelectOverrides`, `CheckHealth`, `Refresh`, `ChooseTargets` select the channels;
`Dispatch`, `Deliver`, `Store` try one after the other; `SettleSuccess` ends.
`PostDirect` is `POST /deliver`.  The user's settings change meanwhile
(`SaveOverride`, `DeleteOverride`, `ResetOverrides`), channels fail and recover
(`HealthChanges`), pods start (`Startup`).

One reply suffices, for no step of the code reads two; its two posts and the two
requests make every race for the claim, the rows and the defaults.  `Deliver` may
end "unclear": the channel raised after the message was out.  The four types stand for a
channel with overrides, one whose override is disabled, one without health check
and the ticket's.  ReplyIsSettled rests on weak fairness of a request that
runs; it excepts events a fault or a deletion has cut short.

## 10. Where code and documents differ

Two runs have the outcome "violation"; `findings` in PROJECT.json quotes both sides.

- `doc_reset_starts_fresh`: the reset of a ticket's session leaves agent and thread in
  its row, against "Session cleared. Starting fresh!".
- `doc_one_general_session`: with one pool for all channels, the cleanup looks at
  tickets' sessions too, keeps the latest row and may deactivate every general
  session, the one it hands out included, against "One active general session per
  user".

The models show more of them, which have no run of their own.  Paths below
`src/`; RM is the request manager, ID the dispatcher, AG the agent service; the
runbook is `docs/SESSION_SERIALIZATION_RUNBOOK.md`.

- An answer of a ticket's entry agent that contains its own name hands the conversation
  over to that agent itself, on a new thread, and the message is sent to it again (AG
  `session_manager.py:1059` compares with the router only), against :1142 "Route the
  conversation to a specialist agent".
- Sends race after the lock is released (`session_orchestrator.py:276`), against
  runbook:26 "sends to broker in order (oldest first)".
- A handler that times out cancels the future it shares
  (`communication_strategy.py:575`); the driver gets `CancelledError`, which passes
  `except Exception`, and its row stays in processing until it is reclaimed,
  against runbook:88.
- A poller on another pod takes the error text of a failed row for its answer and
  forwards it as completed (RM `main.py:912`), against runbook:108.
- After a crash rows go back to pending, but only a handler of the same session
  dequeues (`session_orchestrator.py:385`), against runbook:10 and :75.
- A claim is taken from a handler that still works after 120 s
  (`database.py:565`), against the "100% guarantee" of line 517.  This holds of the
  forward as well: the claim of a reply is settled only after it (RM `main.py:949`,
  :1132), and a settlement that fails is logged (`database.py:708`).  So a slow broker, a
  crash or a failed settlement lets the poller's handler or a repeated
  delivery forward the reply again, against RM `main.py:910` "whoever claims
  AGENT_RESPONSE_READY first does the forward".
- A disabled override is not "off": the default of the type takes its place (ID
  `main.py:108`, :164), against `guides/INTEGRATION_GUIDE.md:604`.
- A mail that is claimed already is flagged as seen, whether or not whoever claimed
  it could store it (ID `email_service.py:818`), against :589 "Mark as read only after successful
  processing".
- A mapping found wrong is stamped as validated (`defaults.py:117`) and trusted
  for the next five minutes, against :54 "Returns True if valid, False if invalid".
- A session that has run out is given new life at an index conflict
  (`session_manager.py:200`), against `docs/CHANNEL_BEHAVIOR.md:124`.
- `GET /integration-defaults` passes no database session and reports no effective
  configuration (ID `main.py:1231`), against `guides/INTEGRATION_GUIDE.md:337`.

Columns and parameters without effect: `retry_count` and `retry_after` of
`delivery_logs` (ID `main.py:358`), `expected_version` of the shared session manager
(:297), the subscription filter `requiresrouting`, which no event carries.

## 11. Proofs

All proofs are for every value of the constants.  Each invariant was checked by TLC on
the module's run before it was proved.

`SessionSerialization_proofs`:

| Theorem | Invariant behind it |
|---|---|
| TypeCorrect | TypeInv: TypeOK, and a handler past its arrival has a pod, one that sends or waits has a target, one that forwards has a reply, a delivery at work a request |
| MutualExclusion | LockHolder is inductive with TypeInv |
| NoSilentRedelivery, OpenRowsUnanswered, TerminalRowsStay | RowInv: rows exist exactly from the commit on, nothing touches a missing row (else a late failure would create one), dequeues are counted against reclaims with the status, open rows have no text |
| FirstInFirstOut | OrderInv: the clock is ahead of all rows, and the row whose INSERT runs is the newest; needs the lock, for a second INSERT may otherwise commit in between |
| WaitersRegistered | WaiterRegistered with TypeInv: all waiters of a future leave in one step |
| ForwardedAgainIfStale | ForwardInv, of every request whose claim has not been stale: nobody has seen it stale, nothing is forwarded while there is no claim, and whoever is between its claim and its forward, handler or delivery, is alone and finds nothing forwarded.  Holds under all faults |
| ForwardedOnceIfQuick | ClaimInv: a claim in processing has somebody who works under it and will settle it, so that none grows stale; assumes `Quick`, no "slowreply", "crash" or "dberror" |
| ReclaimTakesFromNobody | PodInv: an unseen pod is down, a pod that is down runs no handler; assumes `Punctual`, no "unseen" and no "slowsend" |
| FuturesTellTheTruth | Settled: a future belongs to a row there is, one with a result to a terminal row, and so do a handler about to forward its reply and an event that carries one; holds under all faults |
| HandlersOutliveRows, RowsAreDriven | inductive with RowInv and Settled, given RowSteps (which step may change a row's status, and what it leaves behind); assume `Steady`, no "crash", "dberror" or "timeout" |

`Quick` names what the code leaves open: each of its three faults lets a claim grow stale
before it is settled, and then a second forward follows (section 10).

`Steady` is no weakness of the proof either: each of the three faults does leave a row
without its handler (a pod killed, an exception that ends the handler, a wait given up, which
cancels the future the row's own handler shares), and nobody picks it up unless another
message of the session comes (PROJECT.json, `session_orchestrator.py:385`).  All other
faults may occur, in any number: reclaims of rows whose driver is alive, failed sends,
lock timeouts, lost events and replies.

`EventDelivery_proofs`:

| Theorem | Invariant behind it |
|---|---|
| DeliveryTypes | TypeInv: whoever is at work has an event |
| RequestsProcessedInOrder | OrderInv: rows appear in order, whatever was posted has a row, and a handler past its check has no earlier open row; so the check cannot become stale before the lock is taken |
| SettledStaysSettled | ClaimInv: without slow handlers the one the broker waits for is the only one at work, and its claim is in processing |
| RequestsProcessedOnce | OnceInv, on top of ClaimInv: claims in processing are fresh and held, a request is processed under its claim, and the claim is given back only before |

`Ingress_proofs`:

| Theorem | Invariant behind it |
|---|---|
| IngressTypes | TypeInv: TypeOK by who has the variables, and a handler at work has a message |
| OutboxKept | StoredInv: whoever is about to publish or mark has a row of the outbox in hand; so each step is one of DurablePublish's or a stutter |
| AckedNotLost | TakenInv: not only what was acknowledged but whatever is claimed is safe or in the hands of a handler that got past the claim; without the claims the invariant is not inductive, since a repeated webhook is acknowledged for a claim somebody else made |
| OutboxOrderKept | OrderInv: in the critical section one has the lock or was hit by a fault, a row the broker has not got is with its handler under the lock or was hit, and rows are numbered by a clock |
| CustomerFixed | AnchorInv: whoever has passed the anchor with an id agrees with it, and an anchored id is never replaced |

`Accounts_proofs`:

| Theorem | Invariant behind it |
|---|---|
| OneOwner | DataInv: primary addresses are unique and every mapping's address is its user's; CallersInv: who is about to write a mapping has found the owner (FoundOK), an inserted user is unknown to everybody else and its address without an owner (InsertedOK), no two callers have the same user or address inserted (Apart) |
| OwnerFound | the same with AskedOK: a name given to a user comes back as that user.  The key is that a committed row never loses its address, so what a caller has read stays true, however stale the rest is |

`SessionResolution_proofs`, all from one invariant, `SessionInv`:

| Theorem | What it takes of SessionInv |
|---|---|
| SessionTypes | TypeOK with RowsKnown (a ticket's row has no channel, any other has one) and JobKnown (what a handler and its event hold, by where they stand).  `Newest` is one of the rows it is given because `last_request_at` orders finitely many (NewestIsOne, from the library's well-founded orderings) |
| HandedIsOwnAlways | OwnInv: not only the session handed out but whatever a handler or its event has in hand may be given to the message (Mine).  It survives the steps of the others because rows of the pool keep user and channel (Kept) |
| ClosedStaysClosedAlways | OwnInv again: what was closed when the message came stays inactive, and every statement that finds a session asks for active ones |
| OneSessionPerChannelAlways | OneActive (the partial index) and Calm: with a pool for each channel and nobody closing sessions nothing is ever doomed or deactivated, so two sessions of one channel would both be active |
| ClosedForGood | Kept, of every step: a step property no run checks |

`Conversation_proofs`, from `ConversationInv`:

| Theorem | What it takes of ConversationInv |
|---|---|
| ConversationTypes | TypeOK with Held (the conversation is in memory exactly during a turn's work), Placed (a row or conversation with a thread has an agent, and the thread's checkpoint waits at a node of that agent's flow), OneAgent (row and memory agree on a thread's agent) and Addressed (the target of a handover is an agent) |
| TicketsStay | Stays: a ticket with a specialist is in nobody else's hands and its turn never reaches a reset or a handover |
| NextTurnContinuesAlways | Agree: without a fault row and memory name the same agent and thread at every point of a turn after the row is written, and after the turn those that answered |
| DecisionsAreFresh | Fresh: without a fault a decision for a specialist in the checkpoint of an entry agent is one the routing has not looked at.  A thread whose decision was carried out is left behind, for the row has the specialist's; hence OneAgent |
| AnswersAreNew | AnswerInv, on top of ConversationInv: a thread has consumed no more messages than it has and waits at a waiting node (Ready), and until the model has spoken the flow meets no end, and only a waiting node that finds the message unread (OnItsWay).  Assumes `Responding` |

`Responding` says of the flows that no waiting node leads to another one, that none starts
at its end, and that a classifier which itself says nothing goes on to a node that
does not wait.  It is needed: a flow written otherwise answers with the turn before.  The
code checks nothing of the kind when it loads a flow; that the shipped flows are of this
form is `ShippedFlowsRespond` in `MCConversation`, which TLC evaluates.

The steps of a flow are summed up once: FlowMoves says what each of them leaves of
checkpoints and conversation, whatever the flow; Shapes and WhoMoves do the same for
the other actions.

`ReplyDelivery_proofs`, from `ReplyInv`:

| Theorem | What it takes of ReplyInv |
|---|---|
| ReplyTypes | TypeInv: TypeOK, and a request at work has a reply, one that sends a target it has a handler for |
| SentOncePerClaim | OnceInv: for a reply and a type, the requests that may still send it *and* the messages sent are together no more than the claims taken; so a request that chooses counts before it has chosen.  Needs PlanInv: the targets of a request differ in type |
| TicketsKeptApart | BindingKept is inductive with PlanInv, whose targets fit the binding |
| LogIsTruthful | RecordInv: a target is logged before it is tried, unless its override is gone (IdsInv: ids of overrides are not used twice, else a row would come back under another's id); TruthInv counts DELIVERED rows and those about to be stored against messages sent |
| SuccessIsEarned | SuccessInv: of an event nothing has disturbed, one request at most works on it, and what was chosen is still to do, under way or tried.  A repeated post after a fault would break it, hence "undisturbed" |

Assumptions are the named ones of the modules (`ConstantsAssumption`,
`DeliveryAssumption`, `IngressAssumption`, `NoneAssumption`, `SessionAssumption`,
`NoneIsNoRow`, `ConversationAssumption`, `ReplyAssumption`): null values are none of
the ids, bounds are numbers, the faults are known kinds, ranks are distinct, requests
and sessions that are counted are finitely many, flows are well formed.  TLC
evaluates them in every instance.  Each proof has one step per action; frame
lemmas (RowFrame, OrderFrame, ClaimFrame, OnceFrame and their like in every
module) carry the actions that touch nothing the invariant speaks of.

Model-checked only: the leads-to properties (HandlersEnd, AnswerForwarded,
QueueDrains, PostedIsAnswered, MailIsTaken, StoredIsSettled, EveryTurnEnds,
ReplyIsSettled), which rest on fairness and are out of the prover's reach.  What is
proved is the model: that its
definitions say what the code does is a matter of reading, and of `map` in
PROJECT.json.

One form of the models is owed to the prover: the types name `NoNode` beside STRING,
since the provers do not know that a quoted name is a member of STRING.

## 12. What is left out, and why

- Payloads, wording, agents' answers: no property tells them apart; a response
  text is "answer" or "error", and in `Conversation` a set of phrases.
- Real time.  Each timeout is a fault that may occur whenever the code is in the
  wait; the few cases in which the code's numbers exclude an order (a wait does
  not outlast the cutoff unless its send was slow) are guards, explained at the
  definition.
- Several sessions at once in `SessionSerialization`, `EventDelivery` and
  `Conversation`, several threads in `Ingress`: no step reads the rows of two, except
  for a collision of lock keys (31 bits of the session id for the agent), which
  only adds waiting, and for the publisher's batch of 50 oldest rows, which rows of
  other threads may fill as long as they fail.
- The poller's cap of 100 registry entries (`communication_strategy.py:654`): a pod
  of the model has fewer.  Entries left behind by failed sends could starve others.
- The broker of a production cluster (Knative on Kafka): the models have the
  repository's own broker; it differs in keeping its queue in memory.  Restarts of
  it and the management of subscriptions are not modelled.
- A statement that fails has no effect in the models.  In PostgreSQL its commit
  may have reached the server before the connection was lost; only a failed send
  is modelled with both outcomes.
- A stored answer overwritten by a late failure (`session_orchestrator.py:298`):
  the row is terminal before and after, and no property claims the text is kept.
- Of the agent: the token query, the ticket's title, `target_agent_id`, the
  tools.  A response that is retried after a tool call may open a second ticket
  (`responses_agent.py:529`); the tool is outside, and so is that.
- Of sessions: isolated channels, token counts.  Of deliveries: templates.
- Components marked `not_modelled` in PROJECT.json have no state of their own, or
  are scripts that share none with the services.

## 13. Running

    tlc -workers 2 -config SerializationReclaim.cfg MCSessionSerialization
    tlc -workers 2 -config SerializationWaits.cfg MCSessionSerialization
    tlc -workers 2 -config SerializationForward.cfg MCSessionSerialization
    tlc -workers 2 -config SerializationAnswer.cfg MCSessionSerialization
    tlc -workers 2 -config Delivery.cfg MCEventDelivery
    tlc -workers 2 -config IngressThread.cfg MCIngress
    tlc -workers 2 -config Accounts.cfg MCAccounts
    tlc -workers 2 -config Sessions.cfg MCSessionResolution
    tlc -workers 2 -config ConversationTurns.cfg MCConversation
    tlc -workers 2 -config ReplyChannels.cfg MCReplyDelivery
    tlc -workers 2 -config DocResetStartsFresh.cfg MCConversation
    tlc -workers 2 -config DocOneGeneralSession.cfg MCSessionResolution
    tlapm SessionSerialization_proofs.tla
    tlapm EventDelivery_proofs.tla
    tlapm Ingress_proofs.tla
    tlapm Accounts_proofs.tla
    tlapm SessionResolution_proofs.tla
    tlapm Conversation_proofs.tla
    tlapm ReplyDelivery_proofs.tla

The passing runs take between some seconds and three minutes each, the proofs
one to four minutes from nothing.  A slip (`OrderIgnored` beside `HasEarlier`) is a
plausible bug in the definition next to it; PROJECT.json `mutants` names, for
each property, the slip that violates it.
