----------------------------- MODULE ReplyDelivery -----------------------------
(***************************************************************************)
(* How the integration dispatcher delivers the replies for one user.       *)
(*                                                                         *)
(* The broker posts a reply to any pod and posts it again when it has      *)
(* waited too long for the answer.  The pod claims the event, selects the  *)
(* user's enabled overrides, brings integration_default_configs in line    *)
(* with the health of the channels, adds a default for every type without  *)
(* an enabled override, keeps the types that fit the reply's               *)
(* delivery_binding and tries them one after the other: it commits a row   *)
(* of delivery_logs, calls the channel's handler and stores its result.    *)
(* Nothing retries a failed channel.  POST /deliver does the same without  *)
(* a claim.  Meanwhile the user's overrides are created, changed and       *)
(* deleted; a deleted override takes its log rows along.                   *)
(*                                                                         *)
(* A database error leaves the request's session unusable until the next   *)
(* rollback, and the next one is in update_processed_event, whose own      *)
(* UPDATE is what that costs: the claim then stays in processing.          *)
(*                                                                         *)
(* Slips (see SessionSerialization): LeaveClaim, EnvIgnored, TypesIgnored, *)
(* BindingIgnored, DeliveredFirst, StopAtFailure.                          *)
(***************************************************************************)
EXTENDS Naturals, FiniteSets

CONSTANTS
  Replies,      \* the events of an instance, all for one user
  Kinds,        \* what each may be: "reply", "foreign", "incomplete", "direct"
  Types,        \* the integration types of an instance
  EnvAllows,    \* those INTEGRATION_DEFAULTS_<type>_ENABLED does not forbid
  Unsure,       \* those for which the user's address may not be found
  Editable,     \* those whose override the user changes
  Preset,       \* those with a disabled override from the start
  Handlers,     \* requests a pod serves
  NoHandler, NoReply, NoTarget,
  MaxPosts,     \* posts of one event by the broker
  MaxEdits,     \* changes of overrides, and of the health of a channel
  MaxFaults

\* ticket_delivery_eligible_types, and the types with a handler.
TicketTypes == {"ZAMMAD"}
Handled == {"SLACK", "EMAIL", "WEBHOOK", "TEST", "ZAMMAD"}

ASSUME ReplyAssumption ==
  /\ Types \subseteq Handled \union {"SMS"}
  /\ EnvAllows \subseteq Types /\ Unsure \subseteq Types /\ Editable \subseteq Types
  /\ Preset \subseteq Types
  /\ Kinds \in [Replies -> SUBSET {"reply", "foreign", "incomplete", "direct"}]
  /\ IsFiniteSet(Handlers)
  /\ NoHandler \notin Handlers /\ NoReply \notin Replies
  /\ MaxPosts \in Nat /\ MaxEdits \in Nat /\ MaxFaults \in Nat

VARIABLES
  kind, binding,  \* of each event: what it is, STANDARD or TICKET_THREAD
  waiting,        \* broker: the request whose answer it waits for
  outcome,        \* broker: "new", "posted", "timeout" or "done"
  posts,          \* posts of each event
  claim,          \* processed_events: "none", "fresh", "stale", or its result
  override,       \* user_integration_configs: the id of the row of a type, 0 without
  enabled,        \* the types whose override is enabled
  nextId,         \* of the sequence of that table
  healthy,        \* the channels that would pass the health check now
  defaultOn,      \* integration_default_configs: the enabled types
  log,            \* delivery_logs
  sent,           \* how often a reply has reached the user on each type
  pc, reply, post,  \* each request: where it is, its event and the number of its post
  seen,           \* what its health check has found
  answer,         \* the status it has still to store
  own, todo,      \* the overrides it has selected, the targets it has still to try
  target,         \* the one it is trying
  chosen,         \* history: the targets of each post, when they were put together
  taken,          \* history: the times an event was claimed or delivered directly
  cut,            \* history: events whose handling a fault or a deletion cut short
  faults, edits

broker    == <<waiting, outcome, posts>>
overrides == <<override, enabled, nextId>>
request   == <<reply, post>>
local     == <<request, seen, answer, own, todo, target>>
fixed     == <<kind, binding>>
history   == <<chosen, taken>>
counters  == <<faults, edits>>
vars == <<fixed, broker, claim, overrides, healthy, defaultOn, log, sent, pc, request,
          seen, answer, own, todo, target, history, cut, counters>>

Target == [type : Types, row : Nat]
Statuses == {"PENDING", "DELIVERED", "FAILED"}
Settled == {"success", "error", "ignored"}
Labels == {"idle", "select", "claim", "retake", "check", "overrides", "health",
           "refresh", "upsert", "defaults", "dispatch", "deliver", "store", "settle"}

Init ==
  /\ kind \in [Replies -> {"reply", "foreign", "incomplete", "direct"}]
  /\ \A e \in Replies : kind[e] \in Kinds[e]
  /\ binding \in [Replies -> {"STANDARD", "TICKET_THREAD"}]
  /\ waiting = [e \in Replies |-> NoHandler]
  /\ outcome = [e \in Replies |-> "new"]
  /\ posts = [e \in Replies |-> 0]
  /\ claim = [e \in Replies |-> "none"]
  /\ override = [t \in Types |-> IF t \in Preset THEN 1 ELSE 0]
  /\ enabled = {} /\ nextId = 2
  /\ healthy = Types \intersect Handled /\ defaultOn = healthy \intersect EnvAllows
  /\ log = {}
  /\ sent = [e \in Replies |-> [t \in Types |-> 0]]
  /\ pc = [h \in Handlers |-> "idle"]
  /\ reply = [h \in Handlers |-> NoReply]
  /\ post = [h \in Handlers |-> 0]
  /\ seen = [h \in Handlers |-> {}] /\ answer = [h \in Handlers |-> "none"]
  /\ own = [h \in Handlers |-> {}] /\ todo = [h \in Handlers |-> {}]
  /\ target = [h \in Handlers |-> NoTarget]
  /\ chosen = {} /\ taken = [e \in Replies |-> 0]
  /\ cut = {} /\ faults = 0 /\ edits = 0

Goto(h, label) == pc' = [pc EXCEPT ![h] = label]
Fault(es) ==
  /\ faults < MaxFaults
  /\ faults' = faults + 1
  /\ cut' = cut \union es
  /\ UNCHANGED edits

-----------------------------------------------------------------------------
(***************************************************************************)
(* The broker.                                                             *)
(***************************************************************************)
Start(e, h, label) ==
  /\ posts[e] < MaxPosts
  /\ pc[h] = "idle"
  /\ Goto(h, label)
  /\ posts' = [posts EXCEPT ![e] = @ + 1]
  /\ reply' = [reply EXCEPT ![h] = e]
  /\ post' = [post EXCEPT ![h] = posts'[e]]
  /\ UNCHANGED <<fixed, claim, overrides, healthy, defaultOn, log, sent, seen, answer, own,
                 todo, target, chosen, cut, counters>>

Post(e, h) ==
  /\ kind[e] # "direct"
  /\ outcome[e] \in {"new", "timeout"}
  /\ Start(e, h, "select")
  /\ outcome' = [outcome EXCEPT ![e] = "posted"]
  /\ waiting' = [waiting EXCEPT ![e] = h]
  /\ UNCHANGED taken

\* POST /deliver takes no claim.
PostDirect(e, h) ==
  /\ kind[e] = "direct"
  /\ Start(e, h, "overrides")
  /\ taken' = [taken EXCEPT ![e] = @ + 1]
  /\ UNCHANGED <<outcome, waiting>>

\* The broker has waited too long; the request goes on.
BrokerTimeout(e) ==
  /\ outcome[e] = "posted"
  /\ Fault({e})
  /\ outcome' = [outcome EXCEPT ![e] = "timeout"]
  /\ waiting' = [waiting EXCEPT ![e] = NoHandler]
  /\ UNCHANGED <<fixed, posts, claim, overrides, healthy, defaultOn, log, sent, pc,
                 local, history>>

\* The request ends.  Whatever it answers, 200, 400 or 500, and also when its
\* connection is gone, the broker does not post the event again.
End(h) ==
  /\ Goto(h, "idle")
  /\ reply' = [reply EXCEPT ![h] = NoReply]
  /\ post' = [post EXCEPT ![h] = 0]
  /\ seen' = [seen EXCEPT ![h] = {}]
  /\ answer' = [answer EXCEPT ![h] = "none"]
  /\ own' = [own EXCEPT ![h] = {}]
  /\ todo' = [todo EXCEPT ![h] = {}]
  /\ target' = [target EXCEPT ![h] = NoTarget]
  /\ LET heard == {e \in Replies : waiting[e] = h}
     IN /\ outcome' = [e \in Replies |-> IF e \in heard THEN "done" ELSE outcome[e]]
        /\ waiting' = [e \in Replies |-> IF e \in heard THEN NoHandler ELSE waiting[e]]
  /\ UNCHANGED posts


-----------------------------------------------------------------------------
(***************************************************************************)
(* The claim.                                                              *)
(***************************************************************************)
Take(h) ==
  /\ claim' = [claim EXCEPT ![reply[h]] = "fresh"]
  /\ taken' = [taken EXCEPT ![reply[h]] = @ + 1]
  /\ Goto(h, "check")
  /\ UNCHANGED <<broker, local>>

Refuse(h) == End(h) /\ UNCHANGED <<claim, taken>>

\* Whom the SELECT lets try.
Claimable(e) == claim[e] \in {"none", "stale"}

SelectClaim(h) ==
  /\ pc[h] = "select"
  /\ IF Claimable(reply[h])
     THEN /\ Goto(h, IF claim[reply[h]] = "none" THEN "claim" ELSE "retake")
          /\ UNCHANGED <<broker, local, claim, taken>>
     ELSE Refuse(h)
  /\ UNCHANGED <<fixed, overrides, healthy, defaultOn, log, sent, chosen, cut, counters>>

\* The INSERT fails on the unique key if another request was faster; a stale claim
\* goes to everyone who has seen it stale.
InsertClaim(h) ==
  /\ \/ pc[h] = "claim" /\ claim[reply[h]] = "none" /\ Take(h)
     \/ pc[h] = "claim" /\ claim[reply[h]] # "none" /\ Refuse(h)
     \/ pc[h] = "retake" /\ Take(h)
  /\ UNCHANGED <<fixed, overrides, healthy, defaultOn, log, sent, chosen, cut, counters>>

\* A claim is 120 s old.  That its request still works on the reply counts as a
\* fault, like the broker's timeout after 130 s: a webhook may take 300 s.
Age(e) ==
  /\ claim[e] = "fresh"
  /\ claim' = [claim EXCEPT ![e] = "stale"]
  /\ IF e \notin cut /\ \E h \in Handlers : reply[h] = e /\ pc[h] \notin {"select", "claim", "retake"}
     THEN Fault({e})
     ELSE UNCHANGED <<cut, counters>>
  /\ UNCHANGED <<fixed, broker, overrides, healthy, defaultOn, log, sent, pc, local, history>>

\* update_processed_event swallows its errors.
LeaveClaim(h, result) == End(h) /\ UNCHANGED <<claim, cut, counters>>
Settle(h, result) ==
  /\ \/ claim' = [claim EXCEPT ![reply[h]] = result] /\ UNCHANGED <<cut, counters>>
     \/ Fault({reply[h]}) /\ UNCHANGED claim
  /\ End(h)

\* An event of another type is settled at once; one without a required field is
\* answered 200 and its claim left in processing.
Check(h) ==
  /\ pc[h] = "check"
  /\ LET k == kind[reply[h]]
     IN \/ k = "foreign" /\ Settle(h, "ignored")
        \/ k = "incomplete" /\ End(h) /\ UNCHANGED <<claim, cut, counters>>
        \/ /\ k = "reply" /\ Goto(h, "overrides")
           /\ UNCHANGED <<broker, local, claim, cut, counters>>
  /\ UNCHANGED <<fixed, overrides, healthy, defaultOn, log, sent, history>>

-----------------------------------------------------------------------------
(***************************************************************************)
(* Which channels get the reply.                                           *)
(***************************************************************************)
SelectOverrides(h) ==
  /\ pc[h] = "overrides"
  /\ own' = [own EXCEPT ![h] = {[type |-> t, row |-> override[t]] : t \in enabled}]
  /\ Goto(h, "health")
  /\ UNCHANGED <<fixed, broker, claim, overrides, healthy, defaultOn, log, sent, request,
                 seen, answer, todo, target, history, cut, counters>>

\* _check_integration_health, and the comparison with the rows.  The comparison
\* leaves the environment out, so a healthy channel it forbids makes every
\* request refresh the rows.
CheckHealth(h) ==
  /\ pc[h] = "health"
  /\ Goto(h, IF healthy = defaultOn THEN "defaults" ELSE "refresh")
  /\ UNCHANGED <<fixed, broker, claim, overrides, healthy, defaultOn, log, sent, local,
                 history, cut, counters>>

\* The refresh checks once more and writes what it has found then.
EnvIgnored(types) == types
Allowed(types) == types \intersect EnvAllows

Refresh(h) ==
  /\ \/ /\ pc[h] = "refresh"
        /\ seen' = [seen EXCEPT ![h] = healthy]
        /\ Goto(h, "upsert")
        /\ UNCHANGED defaultOn
     \/ /\ pc[h] = "upsert"
        /\ defaultOn' = Allowed(seen[h])
        /\ seen' = [seen EXCEPT ![h] = {}]
        /\ Goto(h, "defaults")
  /\ UNCHANGED <<fixed, broker, claim, overrides, healthy, log, sent, request, answer,
                 own, todo, target, history, cut, counters>>

\* get_smart_defaults: the enabled types for which the user's address is found, ...
AddressFound(t, found) == t \in Unsure => t \in found

\* ... a ticket type only for a reply into a ticket.
InTicket(e, t) == t \in TicketTypes => binding[e] = "TICKET_THREAD"

SmartDefaults(e, found) == {t \in defaultOn : AddressFound(t, found) /\ InTicket(e, t)}

\* Defaults only for the types that the user's selected overrides leave open.
TypesIgnored(ov, types) == types
Uncovered(ov, types) == {t \in types : \A c \in ov : c.type # t}

\* filter_configs_for_delivery_binding.
BindingIgnored(e, targets) == targets
FitBinding(e, targets) ==
  {c \in targets : c.type \in TicketTypes <=> binding[e] = "TICKET_THREAD"}

\* The slow part, the lookup of the address, is over when the defaults are read.
Targets(h, found) ==
  FitBinding(reply[h], own[h] \union
    {[type |-> t, row |-> 0] : t \in Uncovered(own[h], SmartDefaults(reply[h], found))})

ChooseTargets(h) ==
  /\ pc[h] = "defaults"
  /\ \E found \in SUBSET Unsure :
       /\ todo' = [todo EXCEPT ![h] = Targets(h, found)]
       /\ chosen' = chosen \union
            {[reply |-> reply[h], post |-> post[h], target |-> c] : c \in Targets(h, found)}
  /\ own' = [own EXCEPT ![h] = {}]
  /\ Goto(h, "dispatch")
  /\ UNCHANGED <<fixed, broker, claim, overrides, healthy, defaultOn, log, sent, request,
                 seen, answer, target, taken, cut, counters>>

-----------------------------------------------------------------------------
(***************************************************************************)
(* The delivery on one channel after the other.                            *)
(***************************************************************************)
Row(h, c, status) ==
  [reply |-> reply[h], post |-> post[h], target |-> c, status |-> status]

\* An override a log row may refer to: it exists still, or is a default.
Present(c) == c.row = 0 \/ override[c.type] = c.row

\* An exception no except clause gets over: the database session is unusable, the
\* other channels are not tried, and to record the error only rolls back.
Abort(h) ==
  /\ End(h)
  /\ cut' = cut \union {reply[h]}
  /\ UNCHANGED <<claim, counters>>

\* A type without a handler gets a row that says so.
DeliveredFirst(h, c) == Row(h, c, "DELIVERED")
RowOf(h, c) == Row(h, c, IF c.type \in Handled THEN "PENDING" ELSE "FAILED")

\* _dispatch_single commits the row before it calls the handler.  Its INSERT fails if
\* the override was deleted since.
Dispatch(h) ==
  /\ pc[h] = "dispatch"
  /\ \/ /\ todo[h] = {}
        /\ Goto(h, "settle")
        /\ UNCHANGED <<broker, local, claim, log, cut, counters>>
     \/ \E c \in todo[h] :
          \/ /\ Present(c)
             /\ log' = log \union {RowOf(h, c)}
             /\ todo' = [todo EXCEPT ![h] = @ \ {c}]
             /\ IF c.type \in Handled
                THEN Goto(h, "deliver") /\ target' = [target EXCEPT ![h] = c]
                ELSE UNCHANGED <<pc, target>>
             /\ UNCHANGED <<broker, request, seen, answer, own, claim, cut, counters>>
          \/ ~Present(c) /\ Abort(h) /\ UNCHANGED log
  /\ UNCHANGED <<fixed, overrides, healthy, defaultOn, sent, history>>

\* What a call of the channel may come to: the message is out, it is not, or it is
\* out and the answer was lost; a ticket handler passes over other replies.
Out == {"delivered", "unclear"}
SlackDeliver   == {"delivered", "failed", "unclear"}
EmailDeliver   == {"delivered", "failed", "unclear"}
WebhookDeliver == {"delivered", "failed", "unclear"}
TestDeliver    == {"delivered"}
ZammadDeliver(e) ==
  IF binding[e] = "TICKET_THREAD" THEN {"delivered", "failed", "unclear"} ELSE {"skipped"}

Results(t, e) ==
  CASE t = "SLACK" -> SlackDeliver
    [] t = "EMAIL" -> EmailDeliver
    [] t = "WEBHOOK" -> WebhookDeliver
    [] t = "TEST" -> TestDeliver
    [] t = "ZAMMAD" -> ZammadDeliver(e)

\* The next step after the channel has answered: the result is stored first.
StatusOf(result) == IF result \in {"delivered", "skipped"} THEN "DELIVERED" ELSE "FAILED"

Deliver(h) ==
  /\ pc[h] = "deliver"
  /\ \E result \in Results(target[h].type, reply[h]) :
       /\ sent' = IF result \in Out
                  THEN [sent EXCEPT ![reply[h]][target[h].type] = @ + 1]
                  ELSE sent
       /\ answer' = [answer EXCEPT ![h] = StatusOf(result)]
  /\ Goto(h, "store")
  /\ UNCHANGED <<fixed, broker, claim, overrides, healthy, defaultOn, log, request, seen,
                 own, todo, target, history, cut, counters>>

\* A failed channel is recorded and the next one tried.
StopAtFailure(h) == IF answer[h] = "FAILED" THEN {} ELSE todo[h]
Remaining(h) == todo[h]

\* The UPDATE of a row that went with its override fails as well, as may any.
Store(h) ==
  /\ pc[h] = "store"
  /\ LET row == Row(h, target[h], "PENDING")
     IN \/ /\ row \in log
           /\ log' = (log \ {row}) \union {Row(h, target[h], answer[h])}
           /\ todo' = [todo EXCEPT ![h] = Remaining(h)]
           /\ target' = [target EXCEPT ![h] = NoTarget]
           /\ answer' = [answer EXCEPT ![h] = "none"]
           /\ Goto(h, "dispatch")
           /\ UNCHANGED <<broker, request, seen, own, claim, cut, counters>>
        \/ row \notin log /\ Abort(h) /\ UNCHANGED log
        \/ Fault({reply[h]}) /\ End(h) /\ UNCHANGED <<claim, log>>
  /\ UNCHANGED <<fixed, overrides, healthy, defaultOn, sent, history>>

\* Whatever the channels said, the event is a success.
SettleSuccess(h) ==
  /\ pc[h] = "settle"
  /\ IF kind[reply[h]] = "direct"
     THEN End(h) /\ UNCHANGED <<claim, cut, counters>>
     ELSE Settle(h, "success")
  /\ UNCHANGED <<fixed, overrides, healthy, defaultOn, log, sent, history>>

\* An error before the first row, in the resolution of the user or a SELECT: the
\* event is settled as an error, or not at all.
FailsEarly(h) ==
  /\ pc[h] \in {"overrides", "health", "refresh", "upsert", "defaults"}
  /\ Fault({reply[h]})
  /\ \/ UNCHANGED claim
     \/ kind[reply[h]] # "direct" /\ claim' = [claim EXCEPT ![reply[h]] = "error"]
  /\ End(h)
  /\ UNCHANGED <<fixed, overrides, healthy, defaultOn, log, sent, history>>

Crash(h) ==
  /\ pc[h] # "idle"
  /\ Fault({reply[h]})
  /\ End(h)
  /\ UNCHANGED <<fixed, claim, overrides, healthy, defaultOn, log, sent, history>>

-----------------------------------------------------------------------------
(***************************************************************************)
(* The user's overrides, and the channels.                                 *)
(***************************************************************************)
Edit == edits < MaxEdits /\ edits' = edits + 1 /\ UNCHANGED faults

others == <<fixed, broker, claim, sent, pc, local, history, cut>>

\* POST creates the row or changes it, PUT changes it; of two POSTs that both create
\* it, one fails on the unique key.
SaveOverride(t, on) ==
  /\ Edit
  /\ IF override[t] = 0
     THEN override' = [override EXCEPT ![t] = nextId] /\ nextId' = nextId + 1
     ELSE UNCHANGED <<override, nextId>>
  /\ enabled' = IF on THEN enabled \union {t} ELSE enabled \ {t}
  /\ UNCHANGED <<others, defaultOn, healthy, log>>

\* The rows of delivery_logs that refer to a deleted override go with it.
Delete(ts) ==
  /\ Edit
  /\ log' = {l \in log : \A t \in ts : l.target # [type |-> t, row |-> override[t]]}
  /\ override' = [t \in Types |-> IF t \in ts THEN 0 ELSE override[t]]
  /\ enabled' = enabled \ ts
  /\ UNCHANGED <<others, defaultOn, nextId, healthy>>

DeleteOverride(t) == override[t] # 0 /\ Delete({t})

\* Back to the defaults.
ResetOverrides ==
  LET all == {t \in Types : override[t] # 0}
  IN all # {} /\ Delete(all)

\* A channel goes down or comes back.
HealthChanges(t) ==
  /\ Edit
  /\ t \in Handled
  /\ healthy' = IF t \in healthy THEN healthy \ {t} ELSE healthy \union {t}
  /\ UNCHANGED <<others, defaultOn, overrides, log>>

\* A pod that starts refreshes the rows.
Startup ==
  /\ Edit
  /\ defaultOn' = Allowed(healthy)
  /\ UNCHANGED <<others, healthy, overrides, log>>

-----------------------------------------------------------------------------
HandlerStep(h) ==
  \/ SelectClaim(h) \/ InsertClaim(h) \/ Check(h) \/ SelectOverrides(h) \/ CheckHealth(h)
  \/ Refresh(h) \/ ChooseTargets(h) \/ Dispatch(h) \/ Deliver(h) \/ Store(h)
  \/ SettleSuccess(h)

Next ==
  \/ \E h \in Handlers : \/ HandlerStep(h) \/ FailsEarly(h) \/ Crash(h)
                         \/ \E e \in Replies : Post(e, h) \/ PostDirect(e, h)
  \/ \E e \in Replies : BrokerTimeout(e) \/ Age(e)
  \/ \E t \in Editable : SaveOverride(t, TRUE) \/ SaveOverride(t, FALSE)
                          \/ DeleteOverride(t) \/ HealthChanges(t)
  \/ ResetOverrides \/ Startup

Spec == Init /\ [][Next]_vars

\* A request runs on until it ends.
FairSpec == Spec /\ \A h \in Handlers : WF_vars(HandlerStep(h))

-----------------------------------------------------------------------------
(***************************************************************************)
(* Properties.                                                             *)
(***************************************************************************)
TypeOK ==
  /\ kind \in [Replies -> {"reply", "foreign", "incomplete", "direct"}]
  /\ binding \in [Replies -> {"STANDARD", "TICKET_THREAD"}]
  /\ waiting \in [Replies -> Handlers \union {NoHandler}]
  /\ outcome \in [Replies -> {"new", "posted", "timeout", "done"}]
  /\ posts \in [Replies -> Nat] /\ taken \in [Replies -> Nat]
  /\ claim \in [Replies -> {"none", "fresh", "stale"} \union Settled]
  /\ override \in [Types -> Nat] /\ enabled \subseteq Types /\ nextId \in Nat
  /\ healthy \subseteq Types /\ defaultOn \subseteq EnvAllows
  /\ log \subseteq [reply : Replies, post : Nat, target : Target, status : Statuses]
  /\ sent \in [Replies -> [Types -> Nat]]
  /\ pc \in [Handlers -> Labels]
  /\ reply \in [Handlers -> Replies \union {NoReply}] /\ post \in [Handlers -> Nat]
  /\ seen \in [Handlers -> SUBSET Types]
  /\ answer \in [Handlers -> {"none", "DELIVERED", "FAILED"}]
  /\ todo \in [Handlers -> SUBSET Target] /\ own \in [Handlers -> SUBSET Target]
  /\ target \in [Handlers -> Target \union {NoTarget}]
  /\ chosen \subseteq [reply : Replies, post : Nat, target : Target]
  /\ cut \subseteq Replies /\ faults \in Nat /\ edits \in Nat

\* A reply reaches the user on one channel no more often than its event was claimed,
\* whether an override or a default names the channel, and whatever is edited
\* or posted again meanwhile.
OncePerClaim ==
  \A e \in Replies, t \in Types : sent[e][t] <= taken[e]

\* A reply into a ticket goes to the ticket alone, and every other reply never.
BindingKept ==
  \A e \in Replies, t \in Types :
    sent[e][t] > 0 => (t \in TicketTypes <=> binding[e] = "TICKET_THREAD")

\* delivery_logs knows of every message before it is out, also after a crash, as long
\* as the override it went by exists, and it reports no delivery that was not
\* made.
LogMatchesSent ==
  \A e \in Replies, t \in Types :
    LET rows == {l \in log : l.reply = e /\ l.target.type = t}
    IN /\ sent[e][t] > 0 => rows # {} \/ \E c \in chosen : c.reply = e /\ c.target.type = t
                                                        /\ ~Present(c.target)
       /\ Cardinality({l \in rows : l.status = "DELIVERED"}) <= sent[e][t]

\* An event is a success only after every channel chosen for it was tried: what one
\* of them answers keeps none of the others from its turn.
SuccessMeansAllTried ==
  \A c \in chosen :
    claim[c.reply] = "success" /\ c.reply \notin cut /\ Present(c.target) =>
      \E l \in log : l.reply = c.reply /\ l.target = c.target /\ l.status # "PENDING"

\* Every reply the broker has posted is settled, unless a fault or a deletion hits it.
ReplyIsSettled ==
  \A e \in Replies :
    kind[e] \in {"reply", "foreign"} /\ outcome[e] = "posted"
      ~> claim[e] \in Settled \/ e \in cut
================================================================================
